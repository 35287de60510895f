---------------------------- MODULE RefundServer ----------------------------
(***************************************************************************)
(* The refund desk of task1_mcp_server: concurrent tools/call requests for *)
(* trigger_refund against one in-memory Ledger.                            *)
(*                                                                         *)
(* Arguments are validated on the event loop, by RefundRequest and again   *)
(* by the tool's own schema; the tool body is a plain function, which the  *)
(* MCP SDK may run in a worker thread.  Ledger.refund has no lock and is   *)
(* three steps: it compares, adds and reports.  From the comparison to the *)
(* addition there is no call and no jump at which the interpreter switches *)
(* threads, so that nothing else of the server runs between them           *)
(* (SwitchPoint); the balance it reports is read after uuid4() and may be  *)
(* later than its own.                                                     *)
(*                                                                         *)
(* Money is Decimal, which rounds every sum and difference to Precision    *)
(* significant digits; an amount is an integer multiple of some smallest   *)
(* unit.                                                                   *)
(***************************************************************************)
EXTENDS Integers, FiniteSets, FiniteSetsExt

CONSTANTS
  Calls,       \* the tools/call requests
  Customers,   \* the customers of the ledger
  Strangers,   \* well-formed ids that the ledger does not have
  Charged,     \* what each customer was charged
  Opening,     \* and what had been refunded of it before
  Arguments,   \* what calls may carry: [id, amount, reason, extra]
  Malformed,   \* an id that the pattern does not match
  NotFinite,   \* NaN or an infinity
  MinReason,   \* MIN_REASON_LENGTH
  NoArguments, \* those of a call that was not made yet
  Precision    \* significant digits of the decimal context (28)

ASSUME RefundAssumption ==
  /\ Customers \cap Strangers = {} /\ Malformed \notin Customers \cup Strangers
  /\ Charged \in [Customers -> Nat] /\ Opening \in [Customers -> Nat]
  /\ \A c \in Customers : Opening[c] <= Charged[c]
  /\ NoArguments \notin Arguments
  /\ \A a \in Arguments :
       /\ a.id \in Customers \cup Strangers \cup {Malformed}
       /\ a.amount = NotFinite \/ a.amount \in Int
       /\ a.reason.length \in Nat /\ a.reason.stripped \in 0..a.reason.length
       /\ a.extra \in BOOLEAN
  /\ MinReason \in Nat
  /\ Precision \in Nat \ {0}

VARIABLES
  refunded,   \* Customer.refunded
  stage,      \* where each call is
  args,       \* its arguments
  intent,     \* the call it repeats, itself unless its client asks again
  remaining,  \* Refund.remaining_refundable
  issued,     \* the calls whose refund was added to the ledger
  answer      \* what its client was told

vars == <<refunded, stage, args, intent, remaining, issued, answer>>

-----------------------------------------------------------------------------

(* Rounded(x): x to Precision significant digits, half to even. *)
Magnitude(x) == IF x < 0 THEN -x ELSE x
Digits(x) == CHOOSE n \in 1..12 : Magnitude(x) < 10 ^ n /\ (n = 1 \/ 10 ^ (n - 1) <= Magnitude(x))
Rounded(x) ==
  IF Digits(x) <= Precision THEN x
  ELSE LET unit == 10 ^ (Digits(x) - Precision)
           down == x \div unit
           over == 2 * (x % unit)
       IN  unit * (IF over > unit \/ (over = unit /\ down % 2 = 1) THEN down + 1 ELSE down)

-----------------------------------------------------------------------------
(* validation.py, in the two forms that use it. *)

(* Mutant: Field(min_length) alone, which ten spaces satisfy. *)
ReasonLongEnough(reason) == reason.length >= MinReason

(* RefundReason: the schema's floor, and the one after stripping. *)
ReasonHasSubstance(reason) == reason.length >= MinReason /\ reason.stripped >= MinReason

CustomerIdMatches(id) == id # Malformed
AmountIsPositive(n) == n # NotFinite /\ n > 0

(* Mutant: the eager model has a floor of its own. *)
RefundRequestByLength(a) ==
  /\ CustomerIdMatches(a.id) /\ AmountIsPositive(a.amount)
  /\ ReasonLongEnough(a.reason) /\ ~a.extra

(* The model of the extension, which forbids what it does not know. *)
RefundRequest(a) ==
  /\ CustomerIdMatches(a.id) /\ AmountIsPositive(a.amount)
  /\ ReasonHasSubstance(a.reason) /\ ~a.extra

(* The signature of trigger_refund, which the SDK checks and strips. *)
InputSchema(a) ==
  CustomerIdMatches(a.id) /\ AmountIsPositive(a.amount) /\ ReasonHasSubstance(a.reason)

-----------------------------------------------------------------------------
(* ledger.py. *)

Refundable(c) == Rounded(Charged[c] - refunded[c])

Goto(r, where) == stage' = [stage EXCEPT ![r] = where]
Tell(r, what) == answer' = [answer EXCEPT ![r] = what]

(* Mutant: threads may be switched anywhere. *)
AnyPoint == TRUE

(* No call is between its comparison and its addition. *)
SwitchPoint == \A r \in Calls : stage[r] # "covered"
-----------------------------------------------------------------------------

Init ==
  /\ refunded = Opening
  /\ stage = [r \in Calls |-> "new"]
  /\ args = [r \in Calls |-> NoArguments]
  /\ intent = [r \in Calls |-> r]
  /\ remaining = [r \in Calls |-> 0]
  /\ issued = {}
  /\ answer = [r \in Calls |-> "none"]

(* A client makes a call of its own, or asks again for what it has heard   *)
(* no result of: every call for it so far was an error or cancelled.       *)
Make(r) ==
  /\ stage[r] = "new"
  /\ \/ \E a \in Arguments : args' = [args EXCEPT ![r] = a] /\ UNCHANGED intent
     \/ \E q \in Calls :
          /\ \A other \in Calls : intent[other] = intent[q] =>
               answer[other] \in {"-32602", "isError", "cancelled"}
          /\ args' = [args EXCEPT ![r] = args[q]]
          /\ intent' = [intent EXCEPT ![r] = intent[q]]
  /\ Goto(r, "made")
  /\ UNCHANGED <<refunded, remaining, issued, answer>>

(* StrictParamsExtension: what is no RefundRequest is -32602, before the   *)
(* tool runs.                                                              *)
RejectArguments(r) ==
  /\ stage[r] = "made" /\ SwitchPoint
  /\ ~RefundRequest(args[r])
  /\ Goto(r, "over")
  /\ Tell(r, "-32602")
  /\ UNCHANGED <<refunded, args, intent, remaining, issued>>

AcceptArguments(r) ==
  /\ stage[r] = "made" /\ SwitchPoint
  /\ RefundRequest(args[r])
  /\ Goto(r, "accepted")
  /\ UNCHANGED <<refunded, args, intent, remaining, issued, answer>>

(* A cancelled call's answer is never sent; its thread runs to the end. *)
Tried(r, what) == IF answer[r] = "cancelled" THEN UNCHANGED answer ELSE Tell(r, what)

(* The ledger has the id, and as much left of what was charged. *)
Covered(a) == a.id \in Customers /\ a.amount <= Refundable(a.id)

(* ToolError, for what the input schema refuses by itself and for what the *)
(* ledger rejects.                                                         *)
RejectRefund(r) ==
  /\ stage[r] = "accepted" /\ SwitchPoint
  /\ InputSchema(args[r]) => ~Covered(args[r])
  /\ Goto(r, "over")
  /\ Tried(r, "isError")
  /\ UNCHANGED <<refunded, args, intent, remaining, issued>>

(* Mutant: checked against the charge, not against what is left of it. *)
CompareToCharge(r) ==
  /\ stage[r] = "accepted" /\ SwitchPoint
  /\ InputSchema(args[r]) /\ args[r].id \in Customers
  /\ args[r].amount <= Charged[args[r].id]
  /\ Goto(r, "covered")
  /\ UNCHANGED <<refunded, args, intent, remaining, issued, answer>>

(* requested > customer.refundable is false. *)
Compare(r) ==
  /\ stage[r] = "accepted" /\ SwitchPoint
  /\ InputSchema(args[r]) /\ Covered(args[r])
  /\ Goto(r, "covered")
  /\ UNCHANGED <<refunded, args, intent, remaining, issued, answer>>

(* Mutant: the balance is overwritten, not added to. *)
AddSetsAmount(r) ==
  /\ stage[r] = "covered"
  /\ refunded' = [refunded EXCEPT ![args[r].id] = args[r].amount]
  /\ issued' = issued \cup {r}
  /\ Goto(r, "issued")
  /\ UNCHANGED <<args, intent, remaining, answer>>

(* customer.refunded += requested *)
Add(r) ==
  /\ stage[r] = "covered"
  /\ refunded' = [refunded EXCEPT ![args[r].id] = Rounded(@ + args[r].amount)]
  /\ issued' = issued \cup {r}
  /\ Goto(r, "issued")
  /\ UNCHANGED <<args, intent, remaining, answer>>

(* Mutant: what the customer was charged is reported as refundable. *)
ReportStale(r) ==
  /\ stage[r] = "issued" /\ SwitchPoint
  /\ remaining' = [remaining EXCEPT ![r] = Charged[args[r].id]]
  /\ Goto(r, "over")
  /\ Tried(r, "result")
  /\ UNCHANGED <<refunded, args, intent, issued>>

(* Mutant: what comes after the addition may fail like what comes before. *)
ReportMayFail(r) ==
  /\ stage[r] = "issued" /\ SwitchPoint
  /\ Goto(r, "over")
  /\ Tried(r, "isError")
  /\ UNCHANGED <<refunded, args, intent, remaining, issued>>

(* The Refund record is built, with the balance as it is by now. *)
Report(r) ==
  /\ stage[r] = "issued" /\ SwitchPoint
  /\ remaining' = [remaining EXCEPT ![r] = Refundable(args[r].id)]
  /\ Goto(r, "over")
  /\ Tried(r, "result")
  /\ UNCHANGED <<refunded, args, intent, issued>>

(* notifications/cancelled, or a client that closes its end: a call whose  *)
(* body has not begun may still run, one whose body runs is not stopped.   *)
Cancel(r) ==
  /\ stage[r] \in {"accepted", "issued"} /\ answer[r] = "none" /\ SwitchPoint
  /\ Tell(r, "cancelled")
  /\ \/ stage[r] = "accepted" /\ Goto(r, "over")
     \/ UNCHANGED stage
  /\ UNCHANGED <<refunded, args, intent, remaining, issued>>

Terminating ==
  /\ \A r \in Calls : stage[r] = "over"
  /\ UNCHANGED vars

Next ==
  \/ \E r \in Calls :
       \/ Make(r) \/ RejectArguments(r) \/ AcceptArguments(r)
       \/ RejectRefund(r) \/ Compare(r) \/ Add(r) \/ Report(r)
       \/ Cancel(r)
  \/ Terminating

Spec == Init /\ [][Next]_vars
-----------------------------------------------------------------------------
(* Properties. *)

(* The ledger, its calls and their answers have the types of the code. *)
TypeOK ==
  /\ refunded \in [Customers -> Nat]
  /\ stage \in [Calls -> {"new", "made", "accepted", "covered", "issued", "over"}]
  /\ args \in [Calls -> Arguments \cup {NoArguments}]
  /\ intent \in [Calls -> Calls]
  /\ remaining \in [Calls -> Nat]
  /\ issued \subseteq Calls
  /\ answer \in [Calls -> {"none", "-32602", "isError", "result", "cancelled"}]

(* The decimal context keeps every digit of what was charged and of all    *)
(* that may be refunded of it.                                             *)
ExactMoney == \A c \in Customers : \A x \in 0..Charged[c] : Rounded(x) = x

Total(calls) == SumFunction([r \in calls |-> args[r].amount])
IssuedTo(c) == {r \in issued : args[r].id = c}

(* The sound calls for a customer whose client was told the refund, and    *)
(* those whose client has heard nothing yet or gave the call up.           *)
Told(c) == {r \in Calls : answer[r] = "result" /\ args[r].id = c}
Unsettled(c) ==
  {r \in Calls : /\ stage[r] # "new" /\ answer[r] \in {"none", "cancelled"}
                 /\ args[r].id = c /\ InputSchema(args[r])}

(* ledger.py:24-25, "Money as Decimal, never float. A float ledger is a    *)
(* rounding bug waiting for a large enough transaction volume": the ledger *)
(* can be audited from what clients know.  Every refund that one was told  *)
(* of is in the customer's balance, on top of what it opened with; beyond  *)
(* these only calls still unanswered or cancelled can be in it, and a call *)
(* that was refused is not.  Once all calls are answered and none was      *)
(* cancelled, the balance is the sum of the refunds reported.              *)
BalanceMatchesAnswers ==
  \A c \in Customers :
    LET told == Opening[c] + Total(Told(c))
    IN  told <= refunded[c] /\ refunded[c] <= told + Total(Unsettled(c))

(* ledger.py:74-80, a check and an addition with no lock around them:      *)
(* concurrent calls never take more from a customer's account than was     *)
(* charged, with what had been refunded before.                            *)
NeverOverRefunded == \A c \in Customers : Opening[c] + Total(IssuedTo(c)) <= Charged[c]

(* server.py:5-16, two validations that must not disagree: isError is only *)
(* the world declining what was well-formed, and still declines it, and    *)
(* -32602 is only for arguments that no ledger could make good.  Neither   *)
(* is said of a refund that was issued (server.py:135-150).                *)
ErrorsTellWhoseFault ==
  \A r \in Calls :
    /\ answer[r] \in {"isError", "-32602"} => r \notin issued
    /\ answer[r] = "isError" => InputSchema(args[r]) /\ ~args[r].extra /\ ~Covered(args[r])
    /\ answer[r] = "-32602" => ~InputSchema(args[r]) \/ args[r].extra

(* server.py:133-150, no idempotency key: a client that asks again after   *)
(* errors is refunded once for one intent, and each call that it cancelled *)
(* on the way, whose thread may have run on, can cost one more refund and  *)
(* no more than that.                                                      *)
AskingAgainIsSafe ==
  \A first \in Calls :
    LET for == {r \in Calls : intent[r] = first}
    IN  Cardinality(for \cap issued)
          <= 1 + Cardinality({r \in for : answer[r] = "cancelled"})

(* remaining_refundable may be out of date when it arrives, in one         *)
(* direction only: it counts the call's own refund, and what is left now   *)
(* is at most that (ledger.py:86).                                         *)
RemainingWithinReach ==
  \A r \in Calls : answer[r] = "result" =>
    /\ remaining[r] <= Charged[args[r].id] - args[r].amount
    /\ Refundable(args[r].id) <= remaining[r]
=============================================================================
