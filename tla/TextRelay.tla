------------------------------ MODULE TextRelay ------------------------------
(***************************************************************************)
(* What the guardrail of task 3 promises a client of either of its modes:  *)
(* the text of the message arrives as a growing prefix, all that is owed   *)
(* is there when the answer is complete, and a failed answer adds nothing. *)
(* That a failure is told is not part of it: the guardrail has failures    *)
(* that its client sees only as frames that stop.  Units of text are       *)
(* numbered as the upstream sent them; what comes after the upstream's own *)
(* [DONE] is not owed.                                                     *)
(***************************************************************************)
EXTENDS Integers, Sequences

CONSTANT MaxText   \* bound on the text units of the message

VARIABLES
  received,    \* text units the upstream has sent
  owed,        \* those the client must get
  delivered,   \* what the client got, in order
  phase        \* "open", "complete", "failed" or "left"

vars == <<received, owed, delivered, phase>>

Prefix(n) == [i \in 1..n |-> i]

Init ==
  /\ received = 0
  /\ owed = 0
  /\ delivered = <<>>
  /\ phase = "open"

(* The upstream sends, or not; once it has said [DONE], for nothing.       *)
Send ==
  /\ phase = "open"
  /\ received' \in received..MaxText
  /\ owed' \in {owed, received'}

Relay ==
  /\ Send
  /\ delivered' \in {Prefix(n) : n \in Len(delivered)..received'}
  /\ UNCHANGED phase

Complete ==
  /\ Send
  /\ delivered' \in {Prefix(n) : n \in Len(delivered)..received'}
  /\ Len(delivered') >= owed'
  /\ phase' = "complete"

Fail ==
  /\ Send
  /\ phase' = "failed"
  /\ UNCHANGED delivered

Leave ==
  /\ phase = "open"
  /\ phase' = "left"
  /\ UNCHANGED <<received, owed, delivered>>

Next == Relay \/ Complete \/ Fail \/ Leave

(* A message that has an end does not leave its client waiting for it.     *)
Spec == Init /\ [][Next]_vars /\ WF_vars(Complete \/ Fail)
=============================================================================
