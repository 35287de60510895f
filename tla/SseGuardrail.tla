---------------------------- MODULE SseGuardrail ----------------------------
(***************************************************************************)
(* One completion through task3_stream_guardrail (app.py): streamed, by    *)
(* transform_line and redact_stream (sse.py) over the upstream's lines in  *)
(* _proxy_streaming, or in one piece, by _proxy_buffered.                  *)
(*                                                                         *)
(* The message's text is a sequence of units, numbered as they arrive: the *)
(* text of choices[0] of each frame, which is all the relay reads.  What a *)
(* frame carries beside it, the text of other choices or the arguments of  *)
(* a tool call, leaves with the frame or is withheld with it.              *)
(* The redactor is what redactor.py lets its callers rely on: feed() adds  *)
(* to a buffer and releases some prefix of it, flush() releases the rest;  *)
(* Redactor.tla has the rest of it.  A line's frames leave one after the   *)
(* other, and the client may stop reading after any of them: it has seen   *)
(* a prefix of out.                                                        *)
(***************************************************************************)
EXTENDS Integers, Sequences, SequencesExt, FiniteSetsExt

CONSTANTS
  Indexes,    \* the choice index an upstream chunk may carry in choices[0]
  MaxDelta,   \* text units in one delta
  MaxText,    \* bound on the text units of the message
  MaxLines    \* bound on the lines of the stream, or the choices of an answer

ASSUME GuardrailAssumption ==
  /\ Indexes \subseteq Nat
  /\ MaxDelta \in Nat
  /\ MaxText \in Nat
  /\ MaxLines \in Nat

VARIABLES
  status,    \* "new", "posting" or "connecting", "streaming", then how it ended
  reply,     \* the HTTP status the client has, 0 for none
  lines,     \* lines read from the upstream
  message,   \* the choice each text unit belongs to
  buffer,    \* StreamingRedactor._buffer
  sawDone,   \* redact_stream's flag
  finished,  \* upstream frames with a finish_reason that were read
  withheld,  \* frames dropped with text in them that is not choices[0]'s
  out        \* the frames sent to the client, or the choices of its one answer

vars == <<status, reply, lines, message, buffer, sawDone, finished, withheld, out>>

-----------------------------------------------------------------------------

(* A frame as the client sees it, with the text units known when it left.  *)
Frame(kind, text, choice, fin, seen) ==
  [kind |-> kind, text |-> text, choice |-> choice, fin |-> fin, seen |-> seen]

(* flush() and _synthetic_delta: the tail, if there is one, in a frame of  *)
(* its own that always says choice 0.                                      *)
HeldBack == IF buffer = <<>> THEN <<>> ELSE <<Frame("delta", buffer, 0, FALSE, Len(message))>>

ErrorFrame == Frame("error", <<>>, 0, FALSE, Len(message))

Init ==
  /\ status = "new"
  /\ reply = 0
  /\ lines = 0
  /\ message = <<>>
  /\ buffer = <<>>
  /\ sawDone = FALSE
  /\ finished = 0
  /\ withheld = 0
  /\ out = <<>>

-----------------------------------------------------------------------------
(* completions and _proxy_buffered. *)

Answer(how, code) ==
  /\ status' = how
  /\ reply' = code

(* A body that is not JSON is a GatewayError; one that is not text, or no  *)
(* object, raises what nobody catches.                                     *)
RejectBody ==
  /\ status = "new"
  /\ Answer("failed", 400) \/ Answer("broken", 500)
  /\ UNCHANGED <<lines, message, buffer, sawDone, finished, withheld, out>>

(* stream is False, and nothing else, asks for one piece.  The headers of  *)
(* a stream leave before the upstream is called.                           *)
Accept ==
  /\ status = "new"
  /\ Answer("posting", 0) \/ Answer("connecting", 200)
  /\ UNCHANGED <<lines, message, buffer, sawDone, finished, withheld, out>>

(* The upstream cannot be reached or answers with an error status, or with *)
(* what is not JSON, no object, or has a choice that is none.              *)
AnswerUnusable ==
  /\ status = "posting"
  /\ Answer("failed", 502) \/ Answer("broken", 500)
  /\ UNCHANGED <<lines, message, buffer, sawDone, finished, withheld, out>>

(* Every choice's text, up to its end in the message, is redacted whole    *)
(* and stays where it was.                                                 *)
AnswerWhole ==
  /\ status = "posting"
  /\ \E choices \in BoundedSeq(Indexes, MaxLines) :
     \E ends \in [0..Len(choices) -> 0..MaxText] :
       LET units(n) == (ends[n - 1] + 1)..ends[n]
           text(n) == [i \in 1..(ends[n] - ends[n - 1]) |-> ends[n - 1] + i]
       IN  /\ ends[0] = 0
           /\ \A n \in DOMAIN choices : ends[n - 1] <= ends[n]
           /\ \E sent \in [1..ends[Len(choices)] -> Indexes] :
                /\ \A n \in DOMAIN choices : \A i \in units(n) : sent[i] = choices[n]
                /\ message' = sent
                /\ out' = [n \in DOMAIN choices |->
                             Frame("choice", text(n), choices[n], FALSE, Len(sent))]
  /\ Answer("ended", 200)
  /\ UNCHANGED <<lines, buffer, sawDone, finished, withheld>>

-----------------------------------------------------------------------------
(* _proxy_streaming. *)

Fail(how) ==
  /\ status' = how
  /\ out' = Append(out, ErrorFrame)

(* Mutant: the error frame is not the end of it. *)
RefusedCarriesOn ==
  /\ status = "connecting"
  /\ Fail("streaming")
  /\ UNCHANGED <<reply, lines, message, buffer, sawDone, finished, withheld>>

(* The upstream cannot be reached, or answers with an error status, whose  *)
(* body is read and not forwarded.                                         *)
Refused ==
  /\ status = "connecting"
  /\ Fail("failed")
  /\ UNCHANGED <<reply, lines, message, buffer, sawDone, finished, withheld>>

Opened ==
  /\ status = "connecting"
  /\ status' = "streaming"
  /\ UNCHANGED <<reply, lines, message, buffer, sawDone, finished, withheld, out>>

ReadLine ==
  /\ status = "streaming"
  /\ lines < MaxLines
  /\ lines' = lines + 1

-----------------------------------------------------------------------------
(* transform_line, by what the line is. *)

(* Mutant: the prefix is released and kept. *)
ContentReleasedTwice(c, k, fin, beside) ==
  /\ ReadLine
  /\ Len(message) + k <= MaxText
  /\ message' = message \o [i \in 1..k |-> c]
  /\ finished' = finished + (IF fin THEN 1 ELSE 0)
  /\ LET fed == buffer \o [i \in 1..k |-> Len(message) + i]
     IN  \E safe \in 0..Len(fed) :
           /\ out' = IF safe = 0 THEN out
                     ELSE Append(out, Frame("delta", SubSeq(fed, 1, safe), c, fin, Len(message')))
           /\ buffer' = fed
  /\ UNCHANGED <<reply, status, sawDone, withheld>>

(* Mutant: the delta is fed once more than it was received. *)
ContentFedTwice(c, k, fin, beside) ==
  /\ ReadLine
  /\ Len(message) + k <= MaxText
  /\ message' = message \o [i \in 1..k |-> c]
  /\ buffer' = buffer \o [i \in 1..(2 * k) |-> Len(message) + i]
  /\ UNCHANGED <<reply, status, sawDone, finished, withheld, out>>

(* A frame with content in choices[0], with or without a finish_reason and *)
(* with or without other text beside it.  feed("") releases nothing; a     *)
(* frame of which choices[0] has nothing to say is dropped with all of it. *)
Content(c, k, fin, beside) ==
  /\ ReadLine
  /\ Len(message) + k <= MaxText
  /\ message' = message \o [i \in 1..k |-> c]
  /\ finished' = finished + (IF fin THEN 1 ELSE 0)
  /\ LET fed == buffer \o [i \in 1..k |-> Len(message) + i]
     IN  \E safe \in 0..(IF k = 0 THEN 0 ELSE Len(fed)) :
           /\ out' = IF safe = 0 THEN out
                     ELSE Append(out, Frame("delta", SubSeq(fed, 1, safe), c, fin, Len(message')))
           /\ buffer' = SubSeq(fed, safe + 1, Len(fed))
           /\ withheld' = withheld + (IF safe = 0 /\ beside THEN 1 ELSE 0)
  /\ UNCHANGED <<reply, status, sawDone>>

(* A second choice that is not an object breaks with_text after feed() has *)
(* let go of what it released; nothing catches that, and a response whose  *)
(* status the client has already just stops.                               *)
ContentUnreadable(c, k) ==
  /\ ReadLine
  /\ Len(message) + k <= MaxText
  /\ message' = message \o [i \in 1..k |-> c]
  /\ LET fed == buffer \o [i \in 1..k |-> Len(message) + i]
     IN  \E safe \in 1..(IF k = 0 THEN 0 ELSE Len(fed)) :
           buffer' = SubSeq(fed, safe + 1, Len(fed))
  /\ status' = "broken"
  /\ UNCHANGED <<reply, sawDone, finished, withheld, out>>

(* Mutant: the terminal frame first, the tail after it. *)
TerminalFirst(fin) ==
  /\ ReadLine
  /\ out' = Append(out, Frame("end", <<>>, 0, fin, Len(message))) \o HeldBack
  /\ buffer' = <<>>
  /\ finished' = finished + (IF fin THEN 1 ELSE 0)
  /\ UNCHANGED <<reply, status, message, sawDone, withheld>>

(* No content, and a finish_reason or a usage member: flush, then forward. *)
Terminal(fin) ==
  /\ ReadLine
  /\ out' = Append(out \o HeldBack, Frame("end", <<>>, 0, fin, Len(message)))
  /\ buffer' = <<>>
  /\ finished' = finished + (IF fin THEN 1 ELSE 0)
  /\ UNCHANGED <<reply, status, message, sawDone, withheld>>

(* A role frame, a comment, another SSE field: forwarded as it is, and so  *)
(* is a data field without the space, whose text nobody reads.  A blank    *)
(* line is not even that.                                                  *)
PassThrough(kind) ==
  /\ ReadLine
  /\ out' = IF kind = "blank" THEN out ELSE Append(out, Frame("other", <<>>, 0, FALSE, Len(message)))
  /\ UNCHANGED <<reply, status, message, buffer, sawDone, finished, withheld>>

Done ==
  /\ ReadLine
  /\ out' = Append(out \o HeldBack, Frame("done", <<>>, 0, FALSE, Len(message)))
  /\ buffer' = <<>>
  /\ sawDone' = TRUE
  /\ UNCHANGED <<reply, status, message, finished, withheld>>

(* MalformedStream: a data frame that is not a JSON object, or a line over *)
(* the cap of LineReader.  What is held is not released.                   *)
Malformed ==
  /\ ReadLine
  /\ Fail("failed")
  /\ UNCHANGED <<reply, message, buffer, sawDone, finished, withheld>>

-----------------------------------------------------------------------------
(* The end of the stream. *)

(* Mutant: [DONE] is trusted to have come. *)
EndOfBodyUnflushed ==
  /\ status = "streaming"
  /\ status' = "ended"
  /\ UNCHANGED <<reply, lines, message, buffer, sawDone, finished, withheld, out>>

EndOfBody ==
  /\ status = "streaming"
  /\ status' = "ended"
  /\ IF sawDone THEN UNCHANGED <<buffer, out>>
     ELSE out' = out \o HeldBack /\ buffer' = <<>>
  /\ UNCHANGED <<reply, lines, message, sawDone, finished, withheld>>

(* httpx2 raises from aiter_bytes (reset, truncated body, read timeout):   *)
(* the exception passes through redact_stream past its flush.              *)
Drop ==
  /\ status = "streaming"
  /\ Fail("dropped")
  /\ UNCHANGED <<reply, lines, message, buffer, sawDone, finished, withheld>>

(* The client goes away and the generator is closed where it stands. *)
Disconnect ==
  /\ status \in {"connecting", "streaming"}
  /\ status' = "gone"
  /\ UNCHANGED <<reply, lines, message, buffer, sawDone, finished, withheld, out>>

Line ==
  \/ \E c \in Indexes, k \in 0..MaxDelta, fin, beside \in BOOLEAN :
       Content(c, k, fin, beside)
  \/ \E c \in Indexes, k \in 1..MaxDelta : ContentUnreadable(c, k)
  \/ \E fin \in BOOLEAN : Terminal(fin)
  \/ \E kind \in {"blank", "other"} : PassThrough(kind)
  \/ Done
  \/ Malformed

Request == RejectBody \/ Accept \/ AnswerUnusable \/ AnswerWhole
Upstream == Refused \/ Opened \/ Line \/ EndOfBody \/ Drop

Next == Request \/ Upstream \/ Disconnect

(* Every wait for the upstream ends, with httpx2's timeout if nothing      *)
(* else, and bodies are finite: MaxLines.  The client sends its body and   *)
(* takes what it is sent, or goes away; one that stalls holds the handler. *)
Spec == Init /\ [][Next]_vars /\ WF_vars(Request) /\ WF_vars(Upstream)
-----------------------------------------------------------------------------
(* Properties. *)

Kinds == {"choice", "delta", "end", "other", "done", "error"}

(* The message, the redactor's buffer and the client's frames are made of  *)
(* the message's units.                                                    *)
TypeOK ==
  /\ status \in {"new", "posting", "connecting", "streaming",
                 "ended", "failed", "dropped", "broken", "gone"}
  /\ reply \in {0, 200, 400, 500, 502}
  /\ lines \in 0..MaxLines
  /\ message \in Seq(Indexes)
  /\ buffer \in Seq(1..Len(message))
  /\ sawDone \in BOOLEAN
  /\ finished \in 0..MaxLines
  /\ withheld \in 0..MaxLines
  /\ out \in Seq([kind: Kinds, text: Seq(1..Len(message)), choice: Indexes \cup {0},
                  fin: BOOLEAN, seen: 0..Len(message)])

Delivered(frames) == FlattenSeq([i \in DOMAIN frames |-> frames[i].text])
Sent(i) == Delivered(SubSeq(out, 1, i))

(* In every order of lines, what the client has and what is held, put      *)
(* together, are the text that was fed, that of each frame's choices[0],   *)
(* in its order: no unit is lost, repeated or overtaken (transform_line,   *)
(* flush, redact_stream), short of a response that broke.  It says nothing *)
(* of the other choices' text, nor of whose choice a unit is: the two      *)
(* properties at the end do.                                               *)
TextConserved ==
  status # "broken" => Delivered(out) \o buffer = [i \in DOMAIN message |-> i]

(* README.md:123-124 of task 3, for the frames that only end the message:  *)
(* a client that stops reading at one of them, or at [DONE], has all the   *)
(* text received before it.                                                *)
TailBeforeEnd ==
  \A i \in DOMAIN out : out[i].kind \in {"end", "done"} => Len(Sent(i)) = out[i].seen

(* app.py:152-158: a failure that the code catches is told once, by the    *)
(* HTTP status while there is none yet and by an error frame after that,   *)
(* and what it was told of is the end of its answer.  A failure nobody     *)
(* catches (TypeError in with_text) is told by a 500 or, once there is a   *)
(* 200, by nothing: the frames stop, none of them an error.                *)
FailureToldOnce ==
  /\ reply >= 400 => out = <<>>
  /\ \A i \in DOMAIN out : out[i].kind = "error" => i = Len(out) /\ reply = 200
  /\ status \in {"failed", "dropped"} =>
       reply >= 400 \/ (out # <<>> /\ Last(out).kind = "error")
  /\ status = "broken" =>
       reply = 500 \/ (reply = 200 /\ \A i \in DOMAIN out : out[i].kind # "error")

(* Both modes keep the promise of TextRelay: prefixes in order, the whole  *)
(* of what was fed before [DONE] when an answer is complete, nothing more  *)
(* after a failure, and an end to every message that has one.  A response  *)
(* that broke is one of the failures, told or not.                         *)
UpToDone == {out[i].seen : i \in {i \in DOMAIN out : out[i].kind = "done"}}
Phase ==
  CASE status = "ended" -> "complete"
    [] status \in {"failed", "dropped", "broken"} -> "failed"
    [] status = "gone" -> "left"
    [] OTHER -> "open"
Promise == INSTANCE TextRelay WITH
  received <- Len(message),
  owed <- IF sawDone THEN Min(UpToDone) ELSE Len(message),
  delivered <- Delivered(out),
  phase <- Phase
KeepsThePromise == Promise!Spec

(* README.md:123-124: "The flush is emitted *before* the terminal frame,   *)
(* so a client that stops reading at `finish_reason` does not lose the     *)
(* tail."                                                                  *)
TailBeforeFinishReason ==
  \A i \in DOMAIN out : out[i].fin => Len(Sent(i)) = out[i].seen

(* sse.py:44-45: a finish_reason frame "must be forwarded untouched".      *)
FinishReasonForwarded ==
  status = "ended" /\ finished > 0 => \E i \in DOMAIN out : out[i].fin

(* sse.py:165-167: "The upstream ended without a terminator -- a dropped   *)
(* connection, or a provider that simply does not send one. Held-back text *)
(* must still be released, or the client silently loses the end of the     *)
(* message."                                                               *)
DroppedStreamReleasesTail == status = "dropped" => buffer = <<>>

(* README.md:151-152: with n > 1 the other choices' text is something      *)
(* "this proxy would pass through untouched".                              *)
ChoicesKeptApart ==
  \A i \in DOMAIN out : \A unit \in ToSet(out[i].text) : message[unit] = out[i].choice

(* README.md:151-152 again: what the relay does not inspect it passes      *)
(* through, so no frame is dropped with another choice's text in it.       *)
OtherChoicesPassThrough == withheld = 0

(* README.md:118-121: a stream must not end short of its text "without     *)
(* [the client] being told": one that failed has said so.                  *)
EveryFailureTold ==
  status \in {"failed", "dropped", "broken"} =>
    reply >= 400 \/ (out # <<>> /\ Last(out).kind = "error")
=============================================================================
