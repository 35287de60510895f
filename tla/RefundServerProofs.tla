------------------------- MODULE RefundServerProofs -------------------------
(***************************************************************************)
(* Theorems about RefundServer, for any calls, customers, charges and      *)
(* arguments.  What is about calls and their answers holds of any decimal  *)
(* context; what is about money, of one that no charge exceeds.            *)
(***************************************************************************)
EXTENDS RefundServer, FoldTheorems, TLAPS

Answers == {"none", "-32602", "isError", "result", "cancelled"}
Stages == {"new", "made", "accepted", "covered", "issued", "over"}

(* A call that was told nothing, or the result. *)
Open(r) == answer[r] \in {"none", "result"}
MadeCalls == {r \in Calls : stage[r] # "new"}

CallTypes ==
  /\ stage \in [Calls -> Stages]
  /\ args \in [Calls -> Arguments \cup {NoArguments}]
  /\ intent \in [Calls -> Calls]
  /\ issued \subseteq Calls
  /\ answer \in [Calls -> Answers]

(* Where a call is, in terms of what is known of its arguments, of the     *)
(* ledger and of its client.                                               *)
CallInv(r) ==
  /\ stage[r] = "new" => answer[r] = "none" /\ intent[r] = r
  /\ stage[r] # "new" => args[r] \in Arguments
  /\ stage[r] = "made" => answer[r] = "none"
  /\ stage[r] \in {"accepted", "covered", "issued"} =>
       answer[r] \in {"none", "cancelled"} /\ RefundRequest(args[r])
  /\ stage[r] = "covered" => InputSchema(args[r]) /\ args[r].id \in Customers /\ r \notin issued
  /\ r \in issued =>
       stage[r] \in {"issued", "over"} /\ InputSchema(args[r]) /\ args[r].id \in Customers
  /\ stage[r] = "issued" => r \in issued
  /\ answer[r] \in {"isError", "-32602"} => r \notin issued
  /\ answer[r] = "isError" => InputSchema(args[r]) /\ ~args[r].extra
  /\ answer[r] = "-32602" => ~InputSchema(args[r]) \/ args[r].extra
  /\ answer[r] = "result" => r \in issued
  /\ stage[r] # "new" => stage[intent[r]] # "new"

(* Of the calls for one intent, one at most is still open: its client does *)
(* not ask again before every one of them has failed or is cancelled.      *)
OneOpenCall ==
  \A r, q \in Calls : Open(r) /\ Open(q) /\ intent[r] = intent[q] => r = q

(* One call at most is between its comparison and its addition. *)
OneBetween ==
  \A r, q \in Calls : stage[r] = "covered" /\ stage[q] = "covered" => r = q

CallsInv ==
  /\ CallTypes
  /\ IsFiniteSet(MadeCalls)
  /\ \A r \in Calls : CallInv(r)
  /\ OneOpenCall
  /\ OneBetween

-----------------------------------------------------------------------------
(* The two validations: what the extension accepts, the schema accepts,    *)
(* and what it refuses, the schema refuses or it has a member too many.    *)
LEMMA ValidationsAgree ==
  ASSUME NEW a \in Arguments
  PROVE  RefundRequest(a) <=> InputSchema(a) /\ ~a.extra
BY DEF RefundRequest, InputSchema

LEMMA CallsInvInit == Init => CallsInv
<1>. SUFFICES ASSUME Init
              PROVE  CallsInv
  OBVIOUS
<1>1. CallTypes
  BY DEF Init, CallTypes, Stages, Answers
<1>2. MadeCalls = {} /\ OneBetween
  BY DEF Init, MadeCalls, OneBetween
<1>3. \A r \in Calls : CallInv(r)
  BY DEF Init, CallInv
<1>4. OneOpenCall
  BY DEF Init, OneOpenCall
<1>. QED
  BY <1>1, <1>2, <1>3, <1>4, FS_EmptySet DEF CallsInv

(* What every operation on a call leaves alone. *)
Touches(r) ==
  /\ \A q \in Calls \ {r} : /\ stage'[q] = stage[q] /\ args'[q] = args[q] /\ intent'[q] = intent[q]
                            /\ answer'[q] = answer[q] /\ (q \in issued' <=> q \in issued)
  /\ issued' \in {issued, issued \cup {r}}
  /\ CallTypes'

Operation(r) ==
  \/ Make(r) \/ RejectArguments(r) \/ AcceptArguments(r)
  \/ RejectRefund(r) \/ Compare(r) \/ Add(r) \/ Report(r)
  \/ Cancel(r)

LEMMA OperationsTouchOneCall ==
  ASSUME CallTypes, NEW r \in Calls, Operation(r)
  PROVE  Touches(r)
<1>1. CASE Make(r)
  BY <1>1 DEF CallTypes, Touches, Make, Goto, Stages
<1>2. CASE RejectArguments(r)
  BY <1>2 DEF CallTypes, Touches, RejectArguments, Goto, Tell, Stages, Answers
<1>3. CASE AcceptArguments(r)
  BY <1>3 DEF CallTypes, Touches, AcceptArguments, Goto, Stages
<1>4. CASE RejectRefund(r)
  BY <1>4 DEF CallTypes, Touches, RejectRefund, Goto, Tried, Tell, Stages, Answers
<1>5. CASE Compare(r)
  BY <1>5 DEF CallTypes, Touches, Compare, Goto, Stages
<1>8. CASE Add(r)
  BY <1>8 DEF CallTypes, Touches, Add, Goto, Stages
<1>6. CASE Report(r)
  BY <1>6 DEF CallTypes, Touches, Report, Goto, Tried, Tell, Stages, Answers
<1>7. CASE Cancel(r)
  BY <1>7 DEF CallTypes, Touches, Cancel, Goto, Tell, Stages, Answers
<1>. QED
  BY <1>1, <1>2, <1>3, <1>4, <1>5, <1>6, <1>7, <1>8 DEF Operation

LEMMA FinitenessKept ==
  ASSUME IsFiniteSet(MadeCalls), NEW r \in Calls, Touches(r)
  PROVE  IsFiniteSet(MadeCalls')
<1>1. IsFiniteSet(MadeCalls \cup {r})
  BY FS_AddElement
<1>2. MadeCalls' \in SUBSET (MadeCalls \cup {r})
  BY DEF Touches, MadeCalls
<1>. QED
  BY <1>1, <1>2, FS_Subset

(* An operation between a comparison and its addition is that addition, or *)
(* a client's.                                                             *)
LEMMA OneBetweenKept ==
  ASSUME CallTypes, OneBetween, NEW r \in Calls, Operation(r)
  PROVE  OneBetween'
<1>1. Touches(r)
  BY OperationsTouchOneCall
<1>2. CASE Compare(r)
  BY <1>1, <1>2 DEF Compare, SwitchPoint, Touches, OneBetween
<1>3. CASE ~Compare(r)
  <2>1. stage'[r] # "covered" \/ stage'[r] = stage[r]
    BY <1>3 DEF CallTypes, Operation, Make, RejectArguments, AcceptArguments, RejectRefund, Add,
                Report, Cancel, Goto
  <2>. QED
    BY <1>1, <2>1 DEF Touches, OneBetween
<1>. QED
  BY <1>2, <1>3

LEMMA CallsMoveOn ==
  ASSUME CallTypes, NEW r \in Calls, Operation(r)
  PROVE  stage'[r] # "new"
BY
   DEF CallTypes, Operation, Make, RejectArguments, AcceptArguments, RejectRefund, Compare, Add,
       Report,
       Cancel, Goto

LEMMA OtherCallsKeepInv ==
  ASSUME CallTypes, NEW r \in Calls, NEW q \in Calls \ {r}, Touches(r), stage'[r] # "new", CallInv(q)
  PROVE  CallInv(q)'
<1>1. /\ stage'[q] = stage[q] /\ args'[q] = args[q] /\ intent'[q] = intent[q]
      /\ answer'[q] = answer[q] /\ (q \in issued' <=> q \in issued)
  BY DEF Touches
<1>2. stage[intent[q]] # "new" => stage'[intent[q]] # "new"
  BY DEF Touches, CallTypes
<1>. QED
  BY <1>1, <1>2 DEF CallInv

LEMMA OwnCallKeepsInv ==
  ASSUME CallTypes, \A q \in Calls : CallInv(q), NEW r \in Calls, Operation(r)
  PROVE  CallInv(r)'
<1>0. CallInv(r) /\ CallTypes' /\ stage'[r] # "new"
  BY OperationsTouchOneCall, CallsMoveOn DEF Touches
<1>1. CASE Make(r)
  <2>1. /\ stage'[r] = "made" /\ answer' = answer /\ issued' = issued
        /\ stage[r] = "new" /\ answer[r] = "none" /\ r \notin issued
    BY <1>0, <1>1 DEF CallTypes, Make, Goto, CallInv
  <2>2. CASE \E a \in Arguments : args' = [args EXCEPT ![r] = a] /\ UNCHANGED intent
    <3>1. args'[r] \in Arguments /\ intent'[r] = r
      BY <1>0, <1>1, <2>2 DEF CallTypes, Make, CallInv
    <3>. QED
      BY <1>0, <2>1, <3>1 DEF CallInv
  <2>3. CASE \E q \in Calls :
               /\ \A other \in Calls : intent[other] = intent[q] =>
                    answer[other] \in {"-32602", "isError", "cancelled"}
               /\ args' = [args EXCEPT ![r] = args[q]]
               /\ intent' = [intent EXCEPT ![r] = intent[q]]
    <3>1. PICK q \in Calls : /\ answer[q] \in {"-32602", "isError", "cancelled"}
                             /\ args' = [args EXCEPT ![r] = args[q]]
                             /\ intent' = [intent EXCEPT ![r] = intent[q]]
      BY <2>3
    <3>2. CallInv(q) /\ stage[q] # "new"
      BY <3>1 DEF CallInv
    <3>3. args'[r] \in Arguments /\ intent'[r] = intent[q] /\ stage[intent[q]] # "new"
      BY <3>1, <3>2 DEF CallTypes, CallInv
    <3>4. stage'[intent'[r]] # "new"
      BY <1>1, <3>3 DEF CallTypes, Make, Goto
    <3>. QED
      BY <1>0, <2>1, <3>3, <3>4 DEF CallInv
  <2>. QED
    BY <1>1, <2>2, <2>3 DEF Make
<1>2. ASSUME ~Make(r)
      PROVE  CallInv(r)'
  <2>1. /\ args' = args /\ intent' = intent /\ stage[r] # "new"
        /\ args[r] \in Arguments /\ stage[intent[r]] # "new"
    BY <1>0, <1>2
       DEF Operation, RejectArguments, AcceptArguments, RejectRefund, Compare, Add, Report,
                      Cancel, CallInv
  <2>2. stage'[intent[r]] # "new"
    BY <1>0, <2>1, OperationsTouchOneCall DEF Touches, CallTypes
  <2>3. RefundRequest(args[r]) <=> InputSchema(args[r]) /\ ~args[r].extra
    BY <2>1, ValidationsAgree
  <2>4. CASE RejectArguments(r)
    <3>1. /\ stage'[r] = "over" /\ answer'[r] = "-32602" /\ issued' = issued
          /\ r \notin issued /\ ~RefundRequest(args[r])
      BY <1>0, <2>4 DEF CallTypes, RejectArguments, Goto, Tell, CallInv
    <3>. QED
      BY <2>1, <2>2, <2>3, <3>1 DEF CallInv
  <2>5. CASE AcceptArguments(r)
    <3>1. /\ stage'[r] = "accepted" /\ answer' = answer /\ issued' = issued
          /\ answer[r] = "none" /\ r \notin issued /\ RefundRequest(args[r])
      BY <1>0, <2>5 DEF CallTypes, AcceptArguments, Goto, CallInv
    <3>. QED
      BY <2>1, <2>2, <2>3, <3>1 DEF CallInv
  <2>6. CASE RejectRefund(r)
    <3>1. /\ stage'[r] = "over" /\ answer'[r] \in {"isError", "cancelled"} /\ issued' = issued
          /\ r \notin issued /\ RefundRequest(args[r])
      BY <1>0, <2>6 DEF CallTypes, RejectRefund, Goto, Tried, Tell, CallInv
    <3>. QED
      BY <2>1, <2>2, <2>3, <3>1 DEF CallInv
  <2>7. CASE Compare(r)
    <3>1. /\ stage'[r] = "covered" /\ answer' = answer /\ issued' = issued /\ r \notin issued
          /\ answer[r] \in {"none", "cancelled"} /\ RefundRequest(args[r])
          /\ InputSchema(args[r]) /\ args[r].id \in Customers
      BY <1>0, <2>7 DEF CallTypes, Compare, Goto, CallInv, Covered
    <3>. QED
      BY <2>1, <2>2, <2>3, <3>1 DEF CallInv
  <2>10. CASE Add(r)
    <3>1. /\ stage'[r] = "issued" /\ answer' = answer /\ issued' = issued \cup {r}
          /\ answer[r] \in {"none", "cancelled"} /\ RefundRequest(args[r])
          /\ args[r].id \in Customers
      BY <1>0, <2>10 DEF CallTypes, Add, Goto, CallInv
    <3>. QED
      BY <2>1, <2>2, <2>3, <3>1 DEF CallInv
  <2>8. CASE Report(r)
    <3>1. /\ stage'[r] = "over" /\ answer'[r] \in {"result", "cancelled"} /\ issued' = issued
          /\ r \in issued /\ RefundRequest(args[r]) /\ args[r].id \in Customers
      BY <1>0, <2>8 DEF CallTypes, Report, Goto, Tried, Tell, CallInv
    <3>. QED
      BY <2>1, <2>2, <2>3, <3>1 DEF CallInv
  <2>9. CASE Cancel(r)
    <3>1. /\ stage[r] \in {"accepted", "issued"}
          /\ stage'[r] = stage[r] \/ (stage[r] = "accepted" /\ stage'[r] = "over")
          /\ answer'[r] = "cancelled" /\ issued' = issued
      BY <1>0, <2>9 DEF CallTypes, Cancel, Goto, Tell
    <3>. QED
      BY <1>0, <2>1, <2>2, <2>3, <3>1 DEF CallInv
  <2>. QED
    BY <1>2, <2>4, <2>5, <2>6, <2>7, <2>8, <2>9, <2>10 DEF Operation
<1>. QED
  BY <1>1, <1>2

LEMMA OneOpenCallKept ==
  ASSUME CallTypes, \A q \in Calls : CallInv(q), OneOpenCall, NEW r \in Calls, Operation(r)
  PROVE  OneOpenCall'
<1>0. Touches(r)
  BY OperationsTouchOneCall
<1>1. CASE intent' = intent
  <2>1. ASSUME NEW q \in Calls, Open(q)'
        PROVE  Open(q)
    <3>1. CASE q # r
      BY <1>0, <2>1, <3>1 DEF Touches, Open
    <3>2. CASE q = r /\ Make(r)
      BY <2>1, <3>2 DEF Make, Open
    <3>3. CASE q = r /\ (RejectArguments(r) \/ RejectRefund(r) \/ Cancel(r))
      BY <2>1, <3>3 DEF CallTypes, RejectArguments, RejectRefund, Cancel, Tried, Tell, Open
    <3>4. CASE q = r /\ (AcceptArguments(r) \/ Compare(r) \/ Add(r))
      BY <2>1, <3>4 DEF AcceptArguments, Compare, Add, Open
    <3>5. CASE q = r /\ Report(r)
      BY <2>1, <3>5 DEF CallTypes, Report, Tried, Tell, Open, CallInv
    <3>. QED
      BY <3>1, <3>2, <3>3, <3>4, <3>5 DEF Operation
  <2>. QED
    BY <1>1, <2>1 DEF OneOpenCall
<1>2. CASE Make(r) /\ intent' # intent
  <2>1. PICK q \in Calls :
          /\ \A other \in Calls : intent[other] = intent[q] =>
               answer[other] \in {"-32602", "isError", "cancelled"}
          /\ intent' = [intent EXCEPT ![r] = intent[q]]
    BY <1>2 DEF Make
  <2>2. answer' = answer
    BY <1>2 DEF Make
  <2>3. ASSUME NEW x \in Calls, Open(x), x # r
        PROVE  intent'[x] = intent[x] /\ intent[x] # intent[q]
    BY <2>1, <2>3 DEF CallTypes, Open
  <2>4. intent'[r] = intent[q]
    BY <2>1 DEF CallTypes
  <2>. QED
    BY <2>2, <2>3, <2>4 DEF OneOpenCall, Open
<1>3. Make(r) \/ intent' = intent
  BY DEF Operation, RejectArguments, AcceptArguments, RejectRefund, Compare, Add, Report, Cancel
<1>. QED
  BY <1>1, <1>2, <1>3

LEMMA CallsInvStep == CallsInv /\ [Next]_vars => CallsInv'
<1>. SUFFICES ASSUME CallsInv, [Next]_vars
              PROVE  CallsInv'
  OBVIOUS
<1>0. /\ CallTypes /\ OneOpenCall /\ OneBetween
      /\ IsFiniteSet(MadeCalls)
      /\ \A q \in Calls : CallInv(q)
  BY DEF CallsInv
<1>1. ASSUME NEW r \in Calls, Operation(r)
      PROVE  CallsInv'
  <2>1. Touches(r) /\ stage'[r] # "new"
    BY <1>0, <1>1, OperationsTouchOneCall, CallsMoveOn
  <2>2. CallTypes'
    BY <2>1 DEF Touches
  <2>3. IsFiniteSet(MadeCalls')
    BY <1>0, <2>1, FinitenessKept
  <2>4. \A q \in Calls : CallInv(q)'
    BY <1>0, <1>1, <2>1, OwnCallKeepsInv, OtherCallsKeepInv
  <2>5. OneOpenCall' /\ OneBetween'
    BY <1>0, <1>1, OneOpenCallKept, OneBetweenKept
  <2>. QED
    BY <2>2, <2>3, <2>4, <2>5 DEF CallsInv
<1>2. CASE UNCHANGED vars
  BY <1>0, <1>2 DEF vars, CallsInv, CallTypes, MadeCalls, CallInv, OneOpenCall, OneBetween, Open
<1>. QED
  BY <1>1, <1>2 DEF Next, Operation, Terminating

(* What a client is told of a call, and which calls repeat which, is in    *)
(* step with the refunds issued in every reachable state.                  *)
THEOREM CallsInductive == Spec => []CallsInv
BY CallsInvInit, CallsInvStep, PTL DEF Spec

(* server.py:133-150, no idempotency key: of the calls that a client makes *)
(* for one intent, those that issued a refund are one more at most than    *)
(* those it cancelled, whatever the ledger, the arguments and the rounding *)
(* of the sums.                                                            *)
THEOREM RepeatsCostNoMore == Spec => []AskingAgainIsSafe
<1>1. ASSUME CallsInv
      PROVE  AskingAgainIsSafe
  <2>. SUFFICES ASSUME NEW first \in Calls
                PROVE  LET for == {r \in Calls : intent[r] = first}
                       IN  Cardinality(for \cap issued)
                             <= 1 + Cardinality({r \in for : answer[r] = "cancelled"})
    BY DEF AskingAgainIsSafe
  <2>. DEFINE for == {r \in Calls : intent[r] = first}
              paid == for \cap issued
              cancelled == {r \in for : answer[r] = "cancelled"}
  <2>1. IsFiniteSet(paid) /\ IsFiniteSet(cancelled)
    <3>1. paid \in SUBSET MadeCalls /\ cancelled \in SUBSET MadeCalls
      BY <1>1 DEF MadeCalls, CallsInv, CallTypes, CallInv
    <3>. QED
      BY <1>1, <3>1, FS_Subset DEF CallsInv
  <2>2. Cardinality(paid) \in Nat /\ Cardinality(cancelled) \in Nat
    BY <2>1, FS_CardinalityType
  <2>3. ASSUME NEW r \in paid, NEW q \in paid, r \notin cancelled, q \notin cancelled
        PROVE  r = q
    <3>1. Open(r) /\ Open(q)
      BY <1>1, <2>3 DEF CallsInv, CallTypes, CallInv, Open, Answers
    <3>. QED
      BY <1>1, <3>1 DEF CallsInv, OneOpenCall
  <2>4. CASE paid \subseteq cancelled
    BY <2>1, <2>2, <2>4, FS_Subset
  <2>5. CASE \E r \in paid : r \notin cancelled
    <3>1. PICK r \in paid : r \notin cancelled
      BY <2>5
    <3>2. paid \in SUBSET (cancelled \cup {r})
      BY <2>3, <3>1
    <3>3. /\ IsFiniteSet(cancelled \cup {r})
          /\ Cardinality(cancelled \cup {r}) = Cardinality(cancelled) + 1
      BY <2>1, <3>1, FS_AddElement
    <3>4. Cardinality(paid) <= Cardinality(cancelled \cup {r})
      BY <3>2, <3>3, FS_Subset
    <3>. HIDE DEF paid, cancelled
    <3>5. Cardinality(paid) <= 1 + Cardinality(cancelled)
      BY <2>2, <3>3, <3>4
    <3>. QED
      BY <3>5 DEF paid, cancelled
  <2>. QED
    BY <2>4, <2>5
<1>. QED
  BY <1>1, CallsInductive, PTL

-----------------------------------------------------------------------------
(* Money, where no sum needs rounding. *)

Amounts == [r \in Calls |-> args[r].amount]

BalanceInv(c) ==
  /\ refunded[c] \in 0..Charged[c]
  /\ refunded[c] = Opening[c] + SumFunctionOnSet(Amounts, IssuedTo(c))

(* What a call compared with still is there when it adds. *)
FitsInv(r) == stage[r] = "covered" => Covered(args[r])

TellsInv(r) ==
  /\ answer[r] = "isError" => ~Covered(args[r])
  /\ answer[r] = "result" =>
       /\ remaining[r] <= Charged[args[r].id] - args[r].amount
       /\ Refundable(args[r].id) <= remaining[r]

(* A balance never passes the charge, so that neither it nor what is left  *)
(* of the charge is rounded: it is then the sum of the refunds.            *)
MoneyInv ==
  /\ refunded \in [Customers -> Nat] /\ remaining \in [Calls -> Nat]
  /\ \A c \in Customers : BalanceInv(c)
  /\ \A r \in Calls : FitsInv(r) /\ TellsInv(r)

(* What Total adds up, over calls with sound arguments. *)
LEMMA TotalIsTheSum ==
  ASSUME CallsInv, NEW S \in SUBSET MadeCalls, \A r \in S : InputSchema(args[r])
  PROVE  /\ IsFiniteSet(S)
         /\ \A r \in S : Amounts[r] \in Nat /\ Amounts[r] > 0
         /\ Total(S) = SumFunctionOnSet(Amounts, S)
<1>1. IsFiniteSet(S)
  BY FS_Subset DEF CallsInv
<1>2. ASSUME NEW r \in S
      PROVE  Amounts[r] \in Nat /\ Amounts[r] > 0
  <2>1. r \in Calls /\ InputSchema(args[r]) /\ args[r] \in Arguments
    BY DEF CallsInv, CallTypes, CallInv, MadeCalls
  <2>. QED
    BY <2>1, RefundAssumption DEF InputSchema, AmountIsPositive, Amounts
<1>. DEFINE f == [r \in S |-> args[r].amount]
<1>3. Total(S) = SumFunctionOnSet(f, S)
  BY DEF Total, SumFunction
<1>4. SumFunctionOnSet(f, S) = SumFunctionOnSet(Amounts, S)
  <2>1. \A r \in S : f[r] = Amounts[r]
    BY DEF Amounts, MadeCalls
  <2>. HIDE DEF f
  <2>. QED
    BY <1>1, <2>1, SumAgree
<1>. QED
  BY <1>1, <1>2, <1>3, <1>4

LEMMA IssuedIsTheSum ==
  ASSUME CallsInv, NEW c \in Customers
  PROVE  /\ IsFiniteSet(IssuedTo(c))
         /\ \A r \in IssuedTo(c) : Amounts[r] \in Nat /\ Amounts[r] > 0
         /\ Total(IssuedTo(c)) = SumFunctionOnSet(Amounts, IssuedTo(c))
<1>1. IssuedTo(c) \in SUBSET MadeCalls /\ \A r \in IssuedTo(c) : InputSchema(args[r])
  BY DEF CallsInv, CallTypes, CallInv, IssuedTo, MadeCalls
<1>. QED
  BY <1>1, TotalIsTheSum

LEMMA ExactBalances ==
  ASSUME ExactMoney, NEW c \in Customers, NEW balance \in 0..Charged[c]
  PROVE  /\ Charged[c] \in Nat /\ Charged[c] - balance \in Nat
         /\ Rounded(Charged[c] - balance) = Charged[c] - balance
<1>1. Charged[c] \in Nat
  BY RefundAssumption
<1>. QED
  BY <1>1 DEF ExactMoney

LEMMA MoneyInvInit == Init => MoneyInv
<1>. SUFFICES ASSUME Init
              PROVE  MoneyInv
  OBVIOUS
<1>1. ASSUME NEW c \in Customers
      PROVE  BalanceInv(c)
  <2>1. /\ IssuedTo(c) = {} /\ refunded[c] = Opening[c]
        /\ Opening[c] \in Nat /\ Charged[c] \in Nat /\ Opening[c] <= Charged[c]
    BY RefundAssumption DEF Init, IssuedTo
  <2>. QED
    BY <2>1, SumEmpty DEF BalanceInv
<1>2. /\ refunded \in [Customers -> Nat] /\ remaining \in [Calls -> Nat]
      /\ \A r \in Calls : stage[r] = "new" /\ answer[r] = "none"
  BY RefundAssumption DEF Init
<1>. QED
  BY <1>1, <1>2 DEF MoneyInv, FitsInv, TellsInv

(* A refund that is not issued leaves the balances, and the sums, alone. *)
LEMMA BalanceUntouched ==
  ASSUME CallsInv, NEW c \in Customers, BalanceInv(c), refunded'[c] = refunded[c],
         IssuedTo(c)' = IssuedTo(c), \A r \in issued : args'[r] = args[r]
  PROVE  BalanceInv(c)'
<1>1. IsFiniteSet(IssuedTo(c))
  BY IssuedIsTheSum
<1>2. \A r \in IssuedTo(c) : Amounts'[r] = Amounts[r]
  BY DEF CallsInv, CallTypes, IssuedTo, Amounts
<1>3. SumFunctionOnSet(Amounts', IssuedTo(c)) = SumFunctionOnSet(Amounts, IssuedTo(c))
  BY <1>1, <1>2, SumAgree
<1>. QED
  BY <1>3 DEF BalanceInv

(* Ledger.refund: the check leaves room for the addition. *)
LEMMA AddBalances ==
  ASSUME ExactMoney, CallsInv, MoneyInv, NEW r \in Calls, Add(r)
  PROVE  /\ \A c \in Customers : BalanceInv(c)' /\ refunded[c] <= refunded'[c]
         /\ refunded' \in [Customers -> Nat]
<1>0. /\ refunded \in [Customers -> Nat]
      /\ \A c \in Customers : BalanceInv(c)
      /\ issued \subseteq Calls
  BY DEF MoneyInv, CallsInv, CallTypes
<1>. DEFINE to == args[r].id
            n == args[r].amount
<1>1. to \in Customers /\ n \in Nat /\ n > 0 /\ n <= Refundable(to) /\ r \notin issued
  <2>1. args[r] \in Arguments /\ InputSchema(args[r]) /\ Covered(args[r]) /\ r \notin issued
    BY DEF Add, CallsInv, CallInv, MoneyInv, FitsInv
  <2>. QED
    BY <2>1, RefundAssumption DEF InputSchema, AmountIsPositive, Covered
<1>2. /\ refunded[to] \in 0..Charged[to] /\ Charged[to] \in Nat
      /\ refunded[to] = Opening[to] + SumFunctionOnSet(Amounts, IssuedTo(to)) /\ Opening[to] \in Nat
  BY <1>0, <1>1, RefundAssumption DEF BalanceInv
<1>3. refunded[to] + n \in 0..Charged[to]
  BY <1>1, <1>2, ExactBalances DEF Refundable
<1>4. refunded' = [refunded EXCEPT ![to] = refunded[to] + n]
  BY <1>0, <1>1, <1>3 DEF Add, ExactMoney
<1>5. args' = args /\ issued' = issued \cup {r} /\ Amounts' = Amounts
  BY DEF Add, Amounts
<1>6. refunded' \in [Customers -> Nat]
  <2>1. refunded[to] + n \in Nat
    BY <1>2, <1>3
  <2>. HIDE DEF to, n
  <2>. QED
    BY <1>0, <1>4, <2>1
<1>7. ASSUME NEW c \in Customers, c # to
      PROVE  BalanceInv(c)' /\ refunded[c] <= refunded'[c]
  <2>1. refunded'[c] = refunded[c] /\ refunded[c] \in Nat
    BY <1>0, <1>4, <1>7
  <2>2. IssuedTo(c)' = IssuedTo(c)
    BY <1>5, <1>7 DEF IssuedTo
  <2>3. BalanceInv(c)'
    BY <1>0, <1>5, <2>1, <2>2, BalanceUntouched
  <2>. QED
    BY <2>1, <2>3
<1>8. ASSUME NEW c \in Customers, c = to
      PROVE  BalanceInv(c)' /\ refunded[c] <= refunded'[c]
  <2>1. refunded'[c] = refunded[c] + n
    BY <1>0, <1>1, <1>4, <1>8
  <2>2. IssuedTo(c)' = IssuedTo(c) \cup {r} /\ r \notin IssuedTo(c)
    BY <1>1, <1>5, <1>8 DEF IssuedTo
  <2>3. Amounts[r] = n
    BY DEF Amounts
  <2>4. IsFiniteSet(IssuedTo(c)) /\ \A x \in IssuedTo(c)' : Amounts[x] \in Int
    BY <1>1, <2>2, <2>3, IssuedIsTheSum
  <2>5. SumFunctionOnSet(Amounts, IssuedTo(c)') = SumFunctionOnSet(Amounts, IssuedTo(c)) + n
    <3>. DEFINE S == IssuedTo(c)
                T == IssuedTo(c) \cup {r}
    <3>1. IsFiniteSet(T) /\ r \in T /\ T \ {r} = S /\ \A x \in T : Amounts[x] \in Int
      BY <2>2, <2>4, FS_AddElement
    <3>2. SumFunctionOnSet(Amounts, S) \in Int
      BY <2>2, <2>4, SumType
    <3>. HIDE DEF S, T, n, to
    <3>3. SumFunctionOnSet(Amounts, T) = Amounts[r] + SumFunctionOnSet(Amounts, T \ {r})
      BY <3>1, SumRemove
    <3>4. SumFunctionOnSet(Amounts, T) = n + SumFunctionOnSet(Amounts, S)
      BY <2>3, <3>1, <3>3, Zenon
    <3>5. SumFunctionOnSet(Amounts, T) = SumFunctionOnSet(Amounts, S) + n
      BY <1>1, <3>2, <3>4
    <3>. QED
      BY <2>2, <3>5 DEF S, T
  <2>6. SumFunctionOnSet(Amounts, IssuedTo(c)) \in Int
    BY <2>2, <2>4, SumType
  <2>. QED
    BY <1>1, <1>2, <1>3, <1>5, <1>8, <2>1, <2>4, <2>5, <2>6 DEF BalanceInv
<1>. HIDE DEF to
<1>. QED
  BY <1>6, <1>7, <1>8

(* A refund in the balance of its customer is no more than the balance. *)
LEMMA BalanceCoversRefund ==
  ASSUME CallsInv, MoneyInv, NEW r \in issued
  PROVE  args[r].amount \in Nat /\ args[r].amount <= refunded[args[r].id]
<1>. DEFINE c == args[r].id
<1>1. r \in Calls /\ c \in Customers /\ r \in IssuedTo(c)
  BY DEF CallsInv, CallTypes, CallInv, IssuedTo
<1>2. Amounts[r] = args[r].amount
  BY <1>1 DEF Amounts
<1>3. refunded[c] = Opening[c] + SumFunctionOnSet(Amounts, IssuedTo(c)) /\ Opening[c] \in Nat
  BY <1>1, RefundAssumption DEF MoneyInv, BalanceInv
<1>. HIDE DEF c
<1>4. IsFiniteSet(IssuedTo(c)) /\ \A x \in IssuedTo(c) : Amounts[x] \in Nat
  BY <1>1, IssuedIsTheSum
<1>5. SumFunctionOnSet(Amounts, IssuedTo(c)) = Amounts[r] + SumFunctionOnSet(Amounts, IssuedTo(c) \ {r})
  BY <1>1, <1>4, SumRemove
<1>6. SumFunctionOnSet(Amounts, IssuedTo(c) \ {r}) \in Nat
  <2>. DEFINE S == IssuedTo(c) \ {r}
  <2>1. IsFiniteSet(S) /\ \A x \in S : Amounts[x] \in Nat
    BY <1>4, FS_RemoveElement
  <2>. HIDE DEF S
  <2>2. SumFunctionOnSet(Amounts, S) \in Nat
    BY <2>1, SumType
  <2>. QED
    BY <2>2 DEF S
<1>7. Amounts[r] \in Nat /\ Amounts[r] <= refunded[c]
  BY <1>1, <1>3, <1>4, <1>5, <1>6
<1>. QED
  BY <1>2, <1>7 DEF c

(* Whatever is done, no balance goes down. *)
LEMMA BalancesGrow ==
  ASSUME ExactMoney, CallsInv, MoneyInv, NEW r \in Calls, Operation(r)
  PROVE  /\ \A c \in Customers : BalanceInv(c)' /\ refunded[c] <= refunded'[c]
         /\ refunded' \in [Customers -> Nat]
<1>1. CASE Add(r)
  BY <1>1, AddBalances
<1>2. ASSUME ~Add(r), NEW c \in Customers
      PROVE  BalanceInv(c)' /\ refunded[c] <= refunded'[c]
  <2>1. refunded' = refunded /\ issued' = issued /\ refunded[c] \in Nat
    BY <1>2
       DEF Operation, Make, RejectArguments, AcceptArguments, RejectRefund, Compare, Report,
           Cancel, MoneyInv
  <2>2. ASSUME NEW x \in issued
        PROVE  args'[x] = args[x]
    <3>1. CASE x # r
      BY <3>1, OperationsTouchOneCall DEF Touches, CallsInv, CallTypes
    <3>2. CASE x = r
      BY <1>2, <3>2
         DEF Operation, Make, RejectArguments, AcceptArguments, RejectRefund, Compare, Report,
             Cancel,
                        CallsInv, CallInv
    <3>. QED
      BY <3>1, <3>2
  <2>3. IssuedTo(c)' = IssuedTo(c)
    BY <2>1, <2>2 DEF IssuedTo
  <2>4. BalanceInv(c)
    BY DEF MoneyInv
  <2>5. refunded'[c] = refunded[c]
    BY <2>1
  <2>6. BalanceInv(c)'
    BY <2>2, <2>3, <2>4, <2>5, BalanceUntouched
  <2>. QED
    BY <2>1, <2>5, <2>6
<1>3. ASSUME ~Add(r)
      PROVE  refunded' \in [Customers -> Nat]
  BY <1>3
     DEF Operation, Make, RejectArguments, AcceptArguments, RejectRefund, Compare, Report,
         Cancel, MoneyInv
<1>. QED
  BY <1>1, <1>2, <1>3

(* What is left of a charge is what was not refunded, and only shrinks. *)
LEMMA RefundableShrinks ==
  ASSUME ExactMoney, NEW c \in Customers, BalanceInv(c), BalanceInv(c)', refunded[c] <= refunded'[c]
  PROVE  /\ Refundable(c) = Charged[c] - refunded[c] /\ Refundable(c) \in Nat
         /\ Refundable(c)' \in Nat /\ Refundable(c)' <= Refundable(c)
         /\ Charged[c] \in Nat /\ refunded[c] \in Nat
<1>1. refunded[c] \in 0..Charged[c] /\ refunded'[c] \in 0..Charged[c]
  BY DEF BalanceInv
<1>2. /\ Refundable(c) = Charged[c] - refunded[c]
      /\ Refundable(c)' = Charged[c] - refunded'[c]
  BY <1>1, ExactBalances DEF Refundable
<1>3. Charged[c] \in Nat
  BY RefundAssumption
<1>. QED
  BY <1>1, <1>2, <1>3

LEMMA FitsKept ==
  ASSUME CallsInv, MoneyInv, NEW r \in Calls, Operation(r), NEW q \in Calls
  PROVE  FitsInv(q)'
<1>0. FitsInv(q) /\ CallTypes /\ OneBetween /\ Touches(r)
  BY OperationsTouchOneCall DEF CallsInv, MoneyInv
<1>1. CASE q = r /\ Compare(r)
  BY <1>1 DEF Compare, FitsInv, Covered, Refundable
<1>2. CASE q = r /\ ~Compare(r)
  <2>1. stage'[r] # "covered"
    BY <1>0, <1>2 DEF CallTypes, Operation, Make, RejectArguments, AcceptArguments, RejectRefund,
                      Add, Report, Cancel, Goto, SwitchPoint
  <2>. QED
    BY <1>2, <2>1 DEF FitsInv
<1>3. CASE q # r /\ Add(r)
  BY <1>0, <1>3 DEF Add, OneBetween, Touches, FitsInv
<1>4. CASE q # r /\ ~Add(r)
  <2>1. stage'[q] = stage[q] /\ args'[q] = args[q]
    BY <1>0, <1>4 DEF Touches
  <2>2. refunded' = refunded
    BY <1>4
       DEF Operation, Make, RejectArguments, AcceptArguments, RejectRefund, Compare, Report,
           Cancel
  <2>. QED
    BY <1>0, <2>1, <2>2 DEF FitsInv, Covered, Refundable
<1>. QED
  BY <1>1, <1>2, <1>3, <1>4

LEMMA TellsKept ==
  ASSUME ExactMoney, CallsInv, MoneyInv, NEW r \in Calls, Operation(r), NEW q \in Calls
  PROVE  TellsInv(q)'
<1>0. /\ TellsInv(q) /\ CallInv(q) /\ CallTypes /\ Touches(r)
      /\ remaining \in [Calls -> Nat]
  BY OperationsTouchOneCall DEF CallsInv, MoneyInv
<1>1. ASSUME NEW c \in Customers
      PROVE  /\ Refundable(c) = Charged[c] - refunded[c] /\ Refundable(c) \in Nat
             /\ Refundable(c)' \in Nat /\ Refundable(c)' <= Refundable(c)
             /\ Charged[c] \in Nat /\ refunded[c] \in Nat
  <2>1. BalanceInv(c) /\ BalanceInv(c)' /\ refunded[c] <= refunded'[c]
    BY BalancesGrow DEF MoneyInv
  <2>. QED
    BY <2>1, RefundableShrinks
<1>2. InputSchema(args[q]) /\ args[q] \in Arguments => args[q].amount \in Nat
  BY RefundAssumption DEF InputSchema, AmountIsPositive
<1>3. ASSUME answer'[q] = answer[q], args'[q] = args[q], remaining'[q] = remaining[q]
      PROVE  TellsInv(q)'
  <2>1. CASE answer[q] = "isError"
    <3>1. InputSchema(args[q]) /\ args[q] \in Arguments /\ ~Covered(args[q])
      BY <1>0, <2>1 DEF CallInv, TellsInv
    <3>2. args[q].amount \in Nat
      BY <1>2, <3>1
    <3>3. ~Covered(args[q])'
      BY <1>1, <1>3, <3>1, <3>2 DEF Covered
    <3>. QED
      BY <1>3, <2>1, <3>3 DEF TellsInv
  <2>2. CASE answer[q] = "result"
    <3>1. args[q].id \in Customers /\ Refundable(args[q].id) <= remaining[q] /\ remaining[q] \in Nat
          /\ remaining[q] <= Charged[args[q].id] - args[q].amount
      BY <1>0, <2>2 DEF CallInv, TellsInv
    <3>2. Refundable(args[q].id)' <= remaining[q]
      BY <1>1, <1>3, <3>1 DEF Refundable
    <3>. QED
      BY <1>3, <2>2, <3>1, <3>2 DEF TellsInv, Refundable
  <2>. QED
    BY <1>3, <2>1, <2>2 DEF TellsInv
<1>4. CASE q # r
  <2>1. answer'[q] = answer[q] /\ args'[q] = args[q]
    BY <1>0, <1>4 DEF Touches
  <2>2. remaining'[q] = remaining[q]
    BY <1>0, <1>4
       DEF Operation, Make, RejectArguments, AcceptArguments, RejectRefund, Compare, Add, Report,
           Cancel
  <2>. QED
    BY <1>3, <2>1, <2>2
<1>5. CASE q = r /\ RejectRefund(r)
  <2>1. CASE answer[r] = "cancelled"
    BY <1>3, <1>5, <2>1 DEF RejectRefund, Tried
  <2>2. CASE answer[r] # "cancelled"
    <3>1. answer'[q] = "isError" /\ args' = args /\ refunded' = refunded
      BY <1>0, <1>5, <2>2 DEF RejectRefund, Tried, Tell, CallTypes
    <3>2. InputSchema(args[q])
      BY <1>0, <1>5, ValidationsAgree DEF RejectRefund, CallInv
    <3>3. ~Covered(args[q])
      BY <1>5, <3>2 DEF RejectRefund
    <3>. QED
      BY <3>1, <3>3 DEF TellsInv, Covered, Refundable
  <2>. QED
    BY <2>1, <2>2
<1>6. CASE q = r /\ Report(r)
  <2>1. CASE answer[r] = "cancelled"
    <3>1. answer'[q] = "cancelled"
      BY <1>6, <2>1 DEF Report, Tried
    <3>. QED
      BY <3>1 DEF TellsInv
  <2>2. CASE answer[r] # "cancelled"
    <3>1. /\ answer'[q] = "result" /\ args' = args /\ refunded' = refunded
          /\ remaining'[q] = Refundable(args[q].id)
          /\ q \in issued /\ args[q].id \in Customers
      BY <1>0, <1>6, <2>2 DEF Report, Tried, Tell, CallTypes, CallInv
    <3>2. args[q].amount \in Nat /\ args[q].amount <= refunded[args[q].id]
      BY <3>1, BalanceCoversRefund
    <3>3. /\ remaining'[q] <= Charged[args[q].id] - args[q].amount
          /\ Refundable(args[q].id)' <= remaining'[q]
      BY <1>1, <3>1, <3>2 DEF Refundable
    <3>. QED
      BY <3>1, <3>3 DEF TellsInv, Refundable
  <2>. QED
    BY <2>1, <2>2
<1>7. CASE q = r /\ ~RejectRefund(r) /\ ~Report(r)
  <2>1. CASE Make(r) \/ AcceptArguments(r) \/ Compare(r) \/ Add(r)
    <3>1. answer'[q] = answer[q] /\ answer[q] \notin {"isError", "result"}
      BY <1>0, <1>7, <2>1 DEF Make, AcceptArguments, Compare, Add, CallInv
    <3>. QED
      BY <3>1 DEF TellsInv
  <2>2. CASE RejectArguments(r) \/ Cancel(r)
    <3>1. answer'[q] \in {"-32602", "cancelled"}
      BY <1>0, <1>7, <2>2 DEF RejectArguments, Cancel, Tell, CallTypes
    <3>. QED
      BY <3>1 DEF TellsInv
  <2>. QED
    BY <1>7, <2>1, <2>2 DEF Operation
<1>. QED
  BY <1>4, <1>5, <1>6, <1>7

LEMMA MoneyInvStep ==
  ASSUME ExactMoney
  PROVE  CallsInv /\ MoneyInv /\ [Next]_vars => MoneyInv'
<1>. SUFFICES ASSUME CallsInv, MoneyInv, [Next]_vars
              PROVE  MoneyInv'
  OBVIOUS
<1>1. ASSUME NEW r \in Calls, Operation(r)
      PROVE  MoneyInv'
  <2>1. refunded' \in [Customers -> Nat] /\ \A c \in Customers : BalanceInv(c)'
    BY <1>1, BalancesGrow
  <2>2. \A q \in Calls : FitsInv(q)' /\ TellsInv(q)'
    BY <1>1, FitsKept, TellsKept
  <2>3. remaining' \in [Calls -> Nat]
    <3>1. remaining \in [Calls -> Nat]
      BY DEF MoneyInv
    <3>2. CASE Report(r)
      <4>1. args[r].id \in Customers
        BY <3>2 DEF Report, CallsInv, CallInv
      <4>2. Refundable(args[r].id) \in Nat
        BY <4>1, ExactBalances DEF Refundable, MoneyInv, BalanceInv
      <4>. QED
        BY <3>1, <3>2, <4>2 DEF Report
    <3>3. CASE ~Report(r)
      BY <1>1, <3>1, <3>3
         DEF Operation, Make, RejectArguments, AcceptArguments, RejectRefund, Compare, Add, Cancel
    <3>. QED
      BY <3>2, <3>3
  <2>. QED
    BY <2>1, <2>2, <2>3 DEF MoneyInv
<1>2. CASE UNCHANGED vars
  BY <1>2 DEF vars, MoneyInv, BalanceInv, FitsInv, TellsInv, Covered, Refundable, IssuedTo, Amounts
<1>. QED
  BY <1>1, <1>2 DEF Next, Operation, Terminating

(* Both invariants, of every execution in which no sum needs rounding.     *)
THEOREM MoneyInductive ==
  ASSUME ExactMoney
  PROVE  Spec => [](CallsInv /\ MoneyInv)
<1>1. Init => MoneyInv
  BY MoneyInvInit
<1>2. CallsInv /\ MoneyInv /\ [Next]_vars => MoneyInv'
  BY MoneyInvStep
<1>. QED
  BY <1>1, <1>2, CallsInductive, PTL DEF Spec

(* The ledger, the calls and their answers have the types of the code; a   *)
(* balance is then never negative and no reported remainder is either.     *)
THEOREM RefundTyping ==
  ASSUME ExactMoney
  PROVE  Spec => []TypeOK
<1>1. CallsInv /\ MoneyInv => TypeOK
  BY DEF CallsInv, CallTypes, MoneyInv, TypeOK, Stages, Answers
<1>. QED
  BY <1>1, MoneyInductive, PTL

(* ledger.py:24-25: however many calls there are and however they          *)
(* interleave, a balance is what it opened with, every refund that a       *)
(* client was told of, and some of those that no client was told of.       *)
THEOREM LedgerCanBeAudited ==
  ASSUME ExactMoney
  PROVE  Spec => []BalanceMatchesAnswers
<1>1. ASSUME CallsInv, MoneyInv, NEW c \in Customers
      PROVE  /\ Opening[c] + Total(Told(c)) <= refunded[c]
             /\ refunded[c] <= Opening[c] + Total(Told(c)) + Total(Unsettled(c))
  <2>. DEFINE paid == IssuedTo(c)
              told == Told(c)
              open == Unsettled(c)
  <2>1. \A r \in Calls : r \in issued =>
          stage[r] # "new" /\ InputSchema(args[r]) /\ answer[r] \in {"none", "cancelled", "result"}
    BY <1>1 DEF CallsInv, CallTypes, CallInv, Answers
  <2>2. /\ told \in SUBSET paid
        /\ paid \ told \in SUBSET open
        /\ paid \in SUBSET MadeCalls /\ open \in SUBSET MadeCalls
        /\ \A r \in paid \cup open : InputSchema(args[r])
    BY <1>1, <2>1 DEF CallsInv, CallTypes, CallInv, IssuedTo, Told, Unsettled, MadeCalls
  <2>. HIDE DEF paid, told, open
  <2>3. /\ IsFiniteSet(paid) /\ Total(paid) = SumFunctionOnSet(Amounts, paid)
        /\ Total(told) = SumFunctionOnSet(Amounts, told)
        /\ IsFiniteSet(open) /\ Total(open) = SumFunctionOnSet(Amounts, open)
        /\ \A r \in paid \cup open : Amounts[r] \in Nat
    BY <1>1, <2>2, TotalIsTheSum
  <2>4. SumFunctionOnSet(Amounts, told) <= SumFunctionOnSet(Amounts, paid)
    BY <2>2, <2>3, SumOfSubset
  <2>5. /\ SumFunctionOnSet(Amounts, paid)
             = SumFunctionOnSet(Amounts, told) + SumFunctionOnSet(Amounts, paid \ told)
        /\ SumFunctionOnSet(Amounts, told) \in Nat /\ SumFunctionOnSet(Amounts, paid \ told) \in Nat
    BY <2>2, <2>3, SumOfSubset
  <2>6. /\ SumFunctionOnSet(Amounts, paid \ told) <= SumFunctionOnSet(Amounts, open)
        /\ SumFunctionOnSet(Amounts, open) \in Nat
    BY <2>2, <2>3, SumOfSubset, SumType
  <2>7. refunded[c] = Opening[c] + SumFunctionOnSet(Amounts, paid) /\ Opening[c] \in Nat
    BY <1>1, RefundAssumption DEF MoneyInv, BalanceInv, paid
  <2>. QED
    BY <2>3, <2>4, <2>5, <2>6, <2>7 DEF told, open
<1>2. CallsInv /\ MoneyInv => BalanceMatchesAnswers
  BY <1>1 DEF BalanceMatchesAnswers
<1>. QED
  BY <1>2, MoneyInductive, PTL

(* ledger.py:74-80: concurrent calls never take more from a customer's     *)
(* account than was charged, with what had been refunded before.           *)
THEOREM NeverOverTheCharge ==
  ASSUME ExactMoney
  PROVE  Spec => []NeverOverRefunded
<1>1. ASSUME CallsInv, MoneyInv, NEW c \in Customers
      PROVE  Opening[c] + Total(IssuedTo(c)) <= Charged[c]
  <2>1. /\ Opening[c] + Total(IssuedTo(c)) = refunded[c]
        /\ refunded[c] \in 0..Charged[c] /\ Charged[c] \in Nat
    BY <1>1, IssuedIsTheSum, RefundAssumption DEF MoneyInv, BalanceInv
  <2>. QED
    BY <2>1
<1>2. CallsInv /\ MoneyInv => NeverOverRefunded
  BY <1>1 DEF NeverOverRefunded
<1>. QED
  BY <1>2, MoneyInductive, PTL

(* server.py:5-16: isError is the world declining what was well-formed,    *)
(* and it goes on declining it; -32602 is only for what no ledger could    *)
(* make good; neither is ever said of a refund that was issued.            *)
THEOREM FaultsAreTold ==
  ASSUME ExactMoney
  PROVE  Spec => []ErrorsTellWhoseFault
<1>1. CallsInv /\ MoneyInv => ErrorsTellWhoseFault
  BY DEF CallsInv, CallInv, MoneyInv, TellsInv, ErrorsTellWhoseFault
<1>. QED
  BY <1>1, MoneyInductive, PTL

(* ledger.py:86: the remainder that a result reports counts the call's own *)
(* refund, and errs on the side of too much only.                          *)
THEOREM RemaindersErrOneWay ==
  ASSUME ExactMoney
  PROVE  Spec => []RemainingWithinReach
<1>1. CallsInv /\ MoneyInv => RemainingWithinReach
  BY DEF MoneyInv, TellsInv, RemainingWithinReach
<1>. QED
  BY <1>1, MoneyInductive, PTL

=============================================================================
