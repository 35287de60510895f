----------------------- MODULE CompletionRouterProofs -----------------------
(***************************************************************************)
(* Theorems about CompletionRouter.  The router uses the limiter as        *)
(* TokenLimiter lets its callers use it, so what is proved of the limiter  *)
(* holds under the router; what clients are told follows from that and     *)
(* from where their tasks are.  Over the mock provider the router is still *)
(* the router, and what its scripts are decides the answers.               *)
(***************************************************************************)
EXTENDS RouterOverMock, FoldTheorems, TLAPS

(* The limiter's theorems, where no clock is set back and nothing undone.  *)
Lim == INSTANCE TokenLimiterProofs WITH
  Actuals <- Estimates \cup Reports, MaxSetBack <- 0,
  real <- clock, born <- now, synced <- [db |-> db, seq |-> seq]

-----------------------------------------------------------------------------
(* The router's constants are such as the limiter assumes. *)

(* estimate_tokens: a caller's max_tokens, negative or not, never makes a  *)
(* reservation of less than the minimum.                                   *)
LEMMA EstimatesAreNumbers ==
  \A p \in Prompts \ {Unreadable} :
    EstimateTokens(p) \in Nat /\ EstimateTokens(p) >= MinimumReservation
<1>. SUFFICES ASSUME NEW p \in Prompts \ {Unreadable}
              PROVE  EstimateTokens(p) \in Nat /\ EstimateTokens(p) >= MinimumReservation
  OBVIOUS
<1>. DEFINE a == p.chars \div CharsPerToken + p.maxTokens
<1>1. MinimumReservation \in Nat /\ a \in Int
  BY RouterAssumption DEF RouterAssumption
<1>. HIDE DEF a
<1>2. Max({a, MinimumReservation}) \in Int /\ Max({a, MinimumReservation}) >= MinimumReservation
  BY <1>1, MaxOfTwo
<1>. QED
  BY <1>1, <1>2 DEF EstimateTokens, a

LEMMA LimiterConstants == Lim!ConstantsAssumption
<1>1. Estimates \subseteq Nat
  BY EstimatesAreNumbers DEF Estimates
<1>2. TenantOf \in [Requests -> Tenants]
  BY DEF TenantOf, Tenants
<1>. QED
  BY <1>1, <1>2, RouterAssumption DEF RouterAssumption, Lim!ConstantsAssumption

-----------------------------------------------------------------------------
(* Both names of the limiter are names of the same machine. *)

LEMMA SameTables ==
  /\ \A rows, tenant, cutoff : Limiter!Used(rows, tenant, cutoff) = Lim!Used(rows, tenant, cutoff)
  /\ \A rows, cutoff : Limiter!Evict(rows, cutoff) = Lim!Evict(rows, cutoff)
  /\ \A rows : Limiter!NextRowId(rows) = Lim!NextRowId(rows)
  /\ \A rows, id, n : Limiter!WithTokens(rows, id, n) = Lim!WithTokens(rows, id, n)
  /\ \A rows, id : Limiter!Without(rows, id) = Lim!Without(rows, id)
  /\ \A rows, tenant, cutoff : Limiter!Counted(rows, tenant, cutoff) = Lim!Counted(rows, tenant, cutoff)
  /\ \A rows, tenant, cutoff, t :
       Limiter!RetryAfter(rows, tenant, cutoff, t) = Lim!RetryAfter(rows, tenant, cutoff, t)
  /\ \A S : Limiter!Min(S) = Lim!Min(S)
<1>1. \A rows, tenant, cutoff : Limiter!Counted(rows, tenant, cutoff) = Lim!Counted(rows, tenant, cutoff)
  BY Zenon DEF Limiter!Counted, Lim!Counted
<1>2. \A rows : Limiter!SumTokens(rows) = Lim!SumTokens(rows)
  BY Zenon DEF Limiter!SumTokens, Lim!SumTokens, Limiter!SumFunction, Limiter!SumFunctionOnSet,
     Limiter!FoldFunctionOnSet, Limiter!MapThenFoldSet,
     Lim!SumFunction, Lim!SumFunctionOnSet, Lim!FoldFunctionOnSet, Lim!MapThenFoldSet
<1>3. \A rows, tenant, cutoff : Limiter!Used(rows, tenant, cutoff) = Lim!Used(rows, tenant, cutoff)
  BY <1>1, <1>2 DEF Limiter!Used, Lim!Used
<1>4. \A S : Limiter!Min(S) = Lim!Min(S) /\ Limiter!Max(S) = Lim!Max(S)
  BY Zenon DEF Limiter!Min, Lim!Min, Limiter!Max, Lim!Max
<1>5. \A rows, tenant, cutoff :
        Limiter!Timestamps(rows, tenant, cutoff) = Lim!Timestamps(rows, tenant, cutoff)
  BY <1>1, Zenon DEF Limiter!Timestamps, Lim!Timestamps
<1>6. \A rows, tenant, cutoff, t :
        Limiter!RetryAfter(rows, tenant, cutoff, t) = Lim!RetryAfter(rows, tenant, cutoff, t)
  BY <1>4, <1>5 DEF Limiter!RetryAfter, Lim!RetryAfter
<1>. QED
  BY <1>1, <1>3, <1>4, <1>6, Zenon
     DEF Limiter!Evict, Lim!Evict, Limiter!NextRowId, Lim!NextRowId,
         Limiter!WithTokens, Lim!WithTokens, Limiter!Without, Lim!Without

LEMMA SameActions ==
  ASSUME NEW r \in Requests
  PROVE  /\ \A n : Limiter!CallReserve(r, n) => Lim!CallReserve(r, n)
         /\ \A n : Limiter!CallReconcile(r, n) => Lim!CallReconcile(r, n)
         /\ Limiter!CallRelease(r) => Lim!CallRelease(r)
         /\ Limiter!DropQueued(r) => Lim!DropQueued(r)
         /\ Limiter!Worker(r) => Lim!Worker(r)
         /\ Limiter!Fault(r) => Lim!Fault(r)
<1>. USE DEF Limiter!table, Lim!table, Limiter!txn, Lim!txn, Limiter!answers, Lim!answers
<1>1. /\ \A n : Limiter!CallReserve(r, n) => Lim!CallReserve(r, n)
      /\ \A n : Limiter!CallReconcile(r, n) => Lim!CallReconcile(r, n)
      /\ Limiter!CallRelease(r) => Lim!CallRelease(r)
      /\ Limiter!DropQueued(r) => Lim!DropQueued(r)
      /\ Limiter!Fault(r) => Lim!Fault(r)
  BY DEF Limiter!CallReserve, Lim!CallReserve, Limiter!CallReconcile, Lim!CallReconcile, Limiter!CallRelease, Lim!CallRelease, Limiter!DropQueued, Lim!DropQueued, Limiter!Reserved, Lim!Reserved, Limiter!Fault, Lim!Fault
<1>2. Limiter!Start(r) => Lim!Start(r)
  <2>1. Limiter!Running = Lim!Running
    BY DEF Limiter!Running, Lim!Running, Limiter!InFlight, Lim!InFlight
  <2>2. Limiter!Cardinality(Limiter!Running) = Lim!Cardinality(Lim!Running)
    BY <2>1, Zenon DEF Limiter!Cardinality, Lim!Cardinality
  <2>. QED
    BY <2>2 DEF Limiter!Start, Lim!Start
<1>3. /\ Limiter!BeginImmediate(r) => Lim!BeginImmediate(r)
      /\ Limiter!BusyTimeout(r) => Lim!BusyTimeout(r)
      /\ Limiter!Commit(r) => Lim!Commit(r)
  BY DEF Limiter!BeginImmediate, Lim!BeginImmediate, Limiter!BusyTimeout, Lim!BusyTimeout, Limiter!Commit, Lim!Commit
<1>4. Limiter!Admit(r) => Lim!Admit(r)
  BY SameTables DEF Limiter!Admit, Lim!Admit, Limiter!Fits, Lim!Fits
<1>5. Limiter!Refuse(r) => Lim!Refuse(r)
  BY SameTables DEF Limiter!Refuse, Lim!Refuse, Limiter!Fits, Lim!Fits
<1>6. Limiter!RaiseRateLimitExceeded(r) => Lim!RaiseRateLimitExceeded(r)
  BY SameTables DEF Limiter!RaiseRateLimitExceeded, Lim!RaiseRateLimitExceeded
<1>7. /\ Limiter!UpdateRow(r) => Lim!UpdateRow(r)
      /\ Limiter!DeleteRow(r) => Lim!DeleteRow(r)
  BY SameTables DEF Limiter!UpdateRow, Lim!UpdateRow, Limiter!DeleteRow, Lim!DeleteRow
<1>. QED
  BY <1>1, <1>2, <1>3, <1>4, <1>5, <1>6, <1>7 DEF Limiter!Worker, Lim!Worker

LEMMA SameLimiter == Limiter!Spec => Lim!Spec
<1>1. Limiter!Init => Lim!Init
  BY DEF Limiter!Init, Lim!Init
<1>2. [Limiter!Next]_(Limiter!vars) => [Lim!Next]_(Lim!vars)
  <2>1. ASSUME NEW r \in Requests, Limiter!Caller(r)
        PROVE  Lim!Caller(r)
    BY <2>1, SameActions DEF Limiter!Caller, Lim!Caller
  <2>2. Limiter!Tick => Lim!Tick
    BY DEF Limiter!Tick, Lim!Tick, Limiter!table, Lim!table, Limiter!txn, Lim!txn,
       Limiter!answers, Lim!answers
  <2>3. Limiter!Crash => Lim!Crash
    BY DEF Limiter!Crash, Lim!Crash, Limiter!table, Lim!table, Limiter!Unanswered, Lim!Unanswered, Limiter!Answered, Lim!Answered, Limiter!Settled, Lim!Settled
  <2>4. UNCHANGED Limiter!vars => UNCHANGED Lim!vars
    BY DEF Limiter!vars, Lim!vars
  <2>5. Limiter!Terminating => Lim!Terminating
    BY DEF Limiter!Terminating, Lim!Terminating, Limiter!Answered, Lim!Answered, Limiter!Settled, Lim!Settled, Limiter!vars, Lim!vars
  <2>6. ASSUME NEW r \in Requests, Limiter!Caller(r) \/ Limiter!Worker(r) \/ Limiter!Fault(r)
        PROVE  Lim!Next
    BY <2>1, <2>6, SameActions DEF Lim!Next
  <2>7. Limiter!Next => Lim!Next
    BY <2>2, <2>3, <2>5, <2>6 DEF Limiter!Next, Lim!Next
  <2>. QED
    BY <2>4, <2>7
<1>. QED
  BY <1>1, <1>2, PTL DEF Limiter!Spec, Lim!Spec

-----------------------------------------------------------------------------
(* What the router asks of the limiter. *)

(* What was asked for is an estimate. *)
EstimateInv ==
  /\ DOMAIN est = Requests /\ DOMAIN op = Requests
  /\ \A r \in Requests : op[r] # "none" => est[r] \in Estimates

LEMMA RouterSteps ==
  ASSUME EstimateInv, NEW r \in Requests,
         \/ RejectBody(r) \/ RejectUnreadable(r) \/ Arrive(r)
         \/ Provider(r) \/ Resume(r) \/ Cancel(r)
  PROVE  \/ UNCHANGED limiterVars
         \/ \E n \in Estimates : Limiter!CallReserve(r, n)
         \/ \E n \in Estimates \cup Reports : Limiter!CallReconcile(r, n)
         \/ Limiter!CallRelease(r)
         \/ Limiter!DropQueued(r)
<1>1. CASE RejectBody(r) \/ RejectUnreadable(r) \/ Resume(r)
  BY <1>1 DEF RejectBody, RejectUnreadable, Resume, Admitted, RateLimited, LimiterRaises,
              RaiseAfterRelease, Return
<1>2. CASE Arrive(r)
  <2>1. PICK p \in Prompts \ {Unreadable} : Limiter!CallReserve(r, EstimateTokens(p))
    BY <1>2 DEF Arrive
  <2>2. EstimateTokens(p) \in Estimates
    BY DEF Estimates
  <2>. QED
    BY <2>1, <2>2
<1>3. CASE Provider(r)
  <2>1. PICK reply \in Replies : Receive(r, reply)
    BY <1>3 DEF Provider
  <2>2. CASE Settle(r, reply.kind)
    <3>1. PICK n \in Reports \cup {0} :
            Limiter!CallReconcile(r, Charged(n, est[r])) /\ (n = 0 \/ n \in Reports)
      BY <2>2 DEF Settle
    <3>2. est[r] \in Estimates
      BY <3>1 DEF EstimateInv, Limiter!CallReconcile, Limiter!Reserved
    <3>3. Charged(n, est[r]) \in Estimates \cup Reports
      BY <3>1, <3>2 DEF Charged
    <3>. QED
      BY <3>1, <3>3
  <2>3. CASE FailOver(r)
    BY <2>3 DEF FailOver
  <2>4. CASE \E error : ReleaseThenRaise(r, error)
    BY <2>4 DEF ReleaseThenRaise
  <2>. QED
    BY <2>1, <2>2, <2>3, <2>4 DEF Receive
<1>4. CASE Cancel(r)
  BY <1>4 DEF Cancel, CancelCall, CancelAwait, ReleaseThenRaise
<1>. QED
  BY <1>1, <1>2, <1>3, <1>4

LEMMA EstimateInvInit == Init => EstimateInv
BY DEF Init, Limiter!Init, EstimateInv

LEMMA EstimateInvStep == EstimateInv /\ [Next]_vars => EstimateInv'
<1>. SUFFICES ASSUME EstimateInv, [Next]_vars
              PROVE  EstimateInv'
  OBVIOUS
<1>. USE DEF Limiter!table, Limiter!txn, Limiter!answers
<1>1. CASE UNCHANGED <<op, est>>
  BY <1>1 DEF EstimateInv
<1>2. ASSUME NEW r \in Requests, NEW n \in Estimates, Limiter!CallReserve(r, n)
      PROVE  EstimateInv'
  BY <1>2 DEF EstimateInv, Limiter!CallReserve
<1>3. ASSUME NEW r \in Requests,
             Limiter!CallRelease(r) \/ \E n \in Estimates \cup Reports : Limiter!CallReconcile(r, n)
      PROVE  EstimateInv'
  BY <1>3 DEF EstimateInv, Limiter!CallReconcile, Limiter!CallRelease, Limiter!Reserved
<1>4. ASSUME NEW r \in Requests, Limiter!DropQueued(r) \/ Limiter!Fault(r) \/ Thread(r)
      PROVE  EstimateInv'
  BY <1>1, <1>4 DEF Limiter!DropQueued, Limiter!Fault, Thread, Limiter!Worker, Limiter!Start,
     Limiter!BeginImmediate, Limiter!BusyTimeout, Limiter!Admit, Limiter!Refuse,
     Limiter!RaiseRateLimitExceeded, Limiter!UpdateRow, Limiter!DeleteRow, Limiter!Commit
<1>5. CASE Limiter!Tick \/ CrashAndRestart \/ Terminating \/ UNCHANGED vars
  BY <1>1, <1>5 DEF Limiter!Tick, CrashAndRestart, Limiter!Crash, Terminating, vars, limiterVars
<1>6. ASSUME NEW r \in Requests,
             \/ RejectBody(r) \/ RejectUnreadable(r) \/ Arrive(r)
             \/ Provider(r) \/ Resume(r) \/ Cancel(r)
      PROVE  EstimateInv'
  BY <1>1, <1>2, <1>3, <1>4, <1>6, RouterSteps DEF limiterVars
<1>. QED
  BY <1>4, <1>5, <1>6 DEF Next

LEMMA StepsOfTheLimiter ==
  EstimateInv /\ [Next]_vars => [Limiter!Next]_(Limiter!vars)
<1>. SUFFICES ASSUME EstimateInv, [Next]_vars
              PROVE  [Limiter!Next]_(Limiter!vars)
  OBVIOUS
<1>1. CASE UNCHANGED limiterVars
  BY <1>1 DEF limiterVars, Limiter!vars
<1>2. ASSUME NEW r \in Requests,
             \/ RejectBody(r) \/ RejectUnreadable(r) \/ Arrive(r)
             \/ Provider(r) \/ Resume(r) \/ Cancel(r)
      PROVE  [Limiter!Next]_(Limiter!vars)
  BY <1>1, <1>2, RouterSteps DEF Limiter!Next, Limiter!Caller
<1>3. ASSUME NEW r \in Requests, Thread(r) \/ Limiter!Fault(r)
      PROVE  Limiter!Next
  BY <1>3 DEF Thread, Limiter!Next
<1>4. CASE Limiter!Tick \/ CrashAndRestart
  BY <1>4 DEF CrashAndRestart, Limiter!Next
<1>5. CASE Terminating \/ UNCHANGED vars
  BY <1>1, <1>5 DEF Terminating, vars
<1>. QED
  BY <1>2, <1>3, <1>4, <1>5 DEF Next

(* The router's calls are calls that TokenLimiter lets its callers make:   *)
(* the steps of the router's actions are conjunctions with its steps.      *)
LEMMA LimiterUsedProperly == Spec => Limiter!Spec
<1>1. Init => Limiter!Init
  BY DEF Init
<1>. QED
  BY <1>1, EstimateInvInit, EstimateInvStep, StepsOfTheLimiter, PTL
     DEF Spec, Limiter!Spec

(* So all that is proved of the limiter is true of it under the router.    *)
THEOREM LimiterStaysSound == Spec => [](Lim!IndInv /\ Lim!ReservationsFit /\ Lim!RetryAfterFrees)
<1>1. Lim!Spec => []Lim!IndInv
  BY LimiterConstants, Lim!Inductive
<1>2. Lim!Spec => []Lim!ReservationsFit
  BY LimiterConstants, Lim!HoldersFit
<1>3. Lim!Spec => []Lim!RetryAfterFrees
  BY LimiterConstants, Lim!RetryAfterIsEnough
<1>. QED
  BY <1>1, <1>2, <1>3, LimiterUsedProperly, SameLimiter, PTL

-----------------------------------------------------------------------------
(* Where a task is tells where its limiter call is, and what it answered    *)
(* tells how that call ended.                                              *)

StageInv ==
  \A r \in Requests :
    /\ task[r] = "new" => op[r] = "none" /\ attempts[r] = <<>>
    /\ task[r] = "reserving" => op[r] = "reserve" /\ attempts[r] = <<>>
    /\ task[r] = "primary" => Limiter!Reserved(r) /\ attempts[r] = <<"primary">>
    /\ task[r] = "secondary" => Limiter!Reserved(r)
    /\ task[r] = "releasing" => op[r] = "release" /\ raising[r] \in Upstream
    /\ task[r] = "reconciling" => op[r] = "reconcile"
    /\ task[r] # "done" => answer[r] = "none"

AnswerInv ==
  \A r \in Requests :
    /\ answer[r] \in {"INVALID_REQUEST", "TypeError"} => op[r] = "none"
    /\ answer[r] = "RATE_LIMITED" => op[r] = "reserve" /\ pc[r] = "denied"
    /\ answer[r] = "ok" => op[r] = "reconcile" /\ pc[r] = "ok"
    /\ answer[r] \in Upstream => op[r] = "release" /\ pc[r] = "ok"
    /\ answer[r] = "OperationalError" =>
         op[r] \in {"reserve", "release", "reconcile"} /\ pc[r] = "error"

RouterInv == TypeOK /\ StageInv /\ AnswerInv

(* What a limiter job does by itself leaves alone the requests whose call  *)
(* is over, and never changes what was asked.                              *)
Unmoved(r) == op'[r] = op[r] /\ (pc[r] \in {"ok", "denied", "error", "idle"} => pc'[r] = pc[r])

LEMMA JobsLeaveAnswers ==
  ASSUME Lim!TypeOK, NEW r \in Requests, Limiter!Worker(r) \/ Limiter!Fault(r)
  PROVE  \A q \in Requests : Unmoved(q)
<1>. USE DEF Lim!TypeOK, Unmoved, Limiter!InFlight
<1>1. CASE Limiter!Fault(r)
  BY <1>1 DEF Limiter!Fault
<1>2. CASE Limiter!Start(r) \/ Limiter!BeginImmediate(r) \/ Limiter!BusyTimeout(r)
  BY <1>2 DEF Limiter!Start, Limiter!BeginImmediate, Limiter!BusyTimeout
<1>3. CASE Limiter!Admit(r)
  BY <1>3 DEF Limiter!Admit
<1>4. CASE Limiter!Refuse(r)
  BY <1>4 DEF Limiter!Refuse
<1>5. CASE Limiter!RaiseRateLimitExceeded(r) \/ Limiter!UpdateRow(r) \/ Limiter!DeleteRow(r)
  BY <1>5 DEF Limiter!RaiseRateLimitExceeded, Limiter!UpdateRow, Limiter!DeleteRow
<1>6. CASE Limiter!Commit(r)
  BY <1>6 DEF Limiter!Commit
<1>. QED
  BY <1>1, <1>2, <1>3, <1>4, <1>5, <1>6 DEF Limiter!Worker

LEMMA RouterInvInit == Init => RouterInv
BY DEF Init, Limiter!Init, RouterInv, TypeOK, StageInv, AnswerInv, Upstream

LEMMA JobsKeepRouterInv ==
  ASSUME RouterInv, UNCHANGED taskVars, \A q \in Requests : Unmoved(q)
  PROVE  RouterInv'
<1>1. TypeOK'
  BY DEF RouterInv, TypeOK, taskVars
<1>2. StageInv'
  BY DEF RouterInv, StageInv, taskVars, Unmoved, Limiter!Reserved
<1>3. AnswerInv'
  BY DEF RouterInv, AnswerInv, taskVars, Unmoved
<1>. QED
  BY <1>1, <1>2, <1>3 DEF RouterInv

LEMMA AppendSecond ==
  ASSUME NEW S, NEW s \in Seq(S), NEW a \in S, NEW b \in S, s = <<a>>
  PROVE  Append(s, b) = <<a, b>>
<1>1. Len(s) = 1 /\ s[1] = a
  OBVIOUS
<1>2. /\ Append(s, b) \in Seq(S) /\ Len(Append(s, b)) = 2
      /\ Append(s, b)[1] = a /\ Append(s, b)[2] = b
  BY <1>1
<1>3. \A t \in Seq(S) : Len(t) = 2 => t = <<t[1], t[2]>>
  OBVIOUS
<1>. QED
  BY <1>2, <1>3

LEMMA Appended ==
  /\ Append(<<>>, "primary") = <<"primary">>
  /\ Append(<<"primary">>, "secondary") = <<"primary", "secondary">>
<1>1. Append(<<>>, "primary") = <<"primary">>
  OBVIOUS
<1>2. <<"primary">> \in Seq(Providers) /\ "primary" \in Providers /\ "secondary" \in Providers
  BY DEF Providers
<1>3. Append(<<"primary">>, "secondary") = <<"primary", "secondary">>
  BY <1>2, AppendSecond, Zenon
<1>. QED
  BY <1>1, <1>3

LEMMA RouterInvStep == Lim!TypeOK /\ RouterInv /\ [Next]_vars => RouterInv'
<1>. SUFFICES ASSUME Lim!TypeOK, RouterInv, [Next]_vars
              PROVE  RouterInv'
  OBVIOUS
<1>. USE DEF Upstream
<1>0. TypeOK /\ StageInv /\ AnswerInv
  BY DEF RouterInv
<1>1. ASSUME NEW r \in Requests, RejectBody(r) \/ RejectUnreadable(r)
      PROVE  RouterInv'
  <2>. USE DEF RejectBody, RejectUnreadable, End, Goto, limiterVars
  <2>1. TypeOK'
    BY <1>0, <1>1 DEF TypeOK, Uncategorised
  <2>2. StageInv'
    BY <1>0, <1>1 DEF TypeOK, StageInv, Limiter!Reserved
  <2>3. AnswerInv'
    BY <1>0, <1>1 DEF TypeOK, StageInv, AnswerInv
  <2>. QED
    BY <2>1, <2>2, <2>3 DEF RouterInv
<1>2. ASSUME NEW r \in Requests, Arrive(r)
      PROVE  RouterInv'
  <2>1. PICK p \in Prompts \ {Unreadable} : Limiter!CallReserve(r, EstimateTokens(p))
    BY <1>2 DEF Arrive
  <2>2. /\ op[r] = "none" /\ op' = [op EXCEPT ![r] = "reserve"]
        /\ pc' = [pc EXCEPT ![r] = "queued"]
    BY <2>1 DEF Limiter!CallReserve
  <2>3. /\ task[r] = "new" /\ task' = [task EXCEPT ![r] = "reserving"]
        /\ UNCHANGED <<attempts, raising, answer>>
    BY <1>2 DEF Arrive, Goto
  <2>4. TypeOK'
    BY <1>0, <2>3 DEF TypeOK
  <2>5. StageInv'
    BY <1>0, <2>2, <2>3 DEF TypeOK, StageInv, Limiter!Reserved, Lim!TypeOK
  <2>6. AnswerInv'
    BY <1>0, <2>2, <2>3 DEF TypeOK, StageInv, AnswerInv, Lim!TypeOK
  <2>. QED
    BY <2>4, <2>5, <2>6 DEF RouterInv
<1>3. ASSUME NEW r \in Requests, Resume(r)
      PROVE  RouterInv'
  <2>. USE DEF Goto, End, limiterVars
  <2>1. CASE Admitted(r)
    <3>0. /\ task[r] = "reserving" /\ op[r] = "reserve" /\ pc[r] = "ok"
          /\ attempts' = [attempts EXCEPT ![r] = <<"primary">>]
      BY <1>0, <2>1, Appended DEF Admitted, StageInv
    <3>1. TypeOK'
      BY <1>0, <2>1, <3>0 DEF TypeOK, Admitted
    <3>2. StageInv'
      BY <1>0, <2>1, <3>0 DEF TypeOK, StageInv, Admitted, Limiter!Reserved
    <3>3. AnswerInv'
      BY <1>0, <2>1 DEF TypeOK, AnswerInv, Admitted
    <3>. QED
      BY <3>1, <3>2, <3>3 DEF RouterInv
  <2>2. CASE RateLimited(r) \/ LimiterRaises(r)
    <3>. USE DEF RateLimited, LimiterRaises, Awaiting
    <3>1. TypeOK'
      BY <1>0, <2>2 DEF TypeOK, Uncategorised
    <3>2. StageInv'
      BY <1>0, <2>2 DEF TypeOK, StageInv, Limiter!Reserved
    <3>3. AnswerInv'
      BY <1>0, <2>2 DEF TypeOK, StageInv, AnswerInv
    <3>. QED
      BY <3>1, <3>2, <3>3 DEF RouterInv
  <2>3. CASE RaiseAfterRelease(r) \/ Return(r)
    <3>. USE DEF RaiseAfterRelease, Return
    <3>1. TypeOK'
      BY <1>0, <2>3 DEF TypeOK, StageInv
    <3>2. StageInv'
      BY <1>0, <2>3 DEF TypeOK, StageInv, Limiter!Reserved
    <3>3. AnswerInv'
      BY <1>0, <2>3 DEF TypeOK, StageInv, AnswerInv
    <3>. QED
      BY <3>1, <3>2, <3>3 DEF RouterInv
  <2>. QED
    BY <1>3, <2>1, <2>2, <2>3 DEF Resume
<1>4. ASSUME NEW r \in Requests, NEW error, Calling(r), ReleaseThenRaise(r, error)
      PROVE  RouterInv'
  <2>1. /\ op' = [op EXCEPT ![r] = "release"] /\ pc' = [pc EXCEPT ![r] = "queued"]
        /\ task' = [task EXCEPT ![r] = "releasing"]
        /\ raising' = [raising EXCEPT ![r] = AsGatewayError(error)]
        /\ UNCHANGED <<attempts, answer>>
    BY <1>4 DEF ReleaseThenRaise, Limiter!CallRelease, Goto
  <2>2. AsGatewayError(error) \in Upstream
    BY DEF AsGatewayError
  <2>3. TypeOK'
    BY <1>0, <2>1, <2>2 DEF TypeOK
  <2>4. StageInv'
    BY <1>0, <1>4, <2>1, <2>2 DEF TypeOK, StageInv, Limiter!Reserved, Lim!TypeOK, Calling
  <2>5. AnswerInv'
    BY <1>0, <1>4, <2>1 DEF TypeOK, StageInv, AnswerInv, Lim!TypeOK, Calling
  <2>. QED
    BY <2>3, <2>4, <2>5 DEF RouterInv
<1>5. ASSUME NEW r \in Requests, FailOver(r)
      PROVE  RouterInv'
  <2>. USE DEF FailOver, Goto, limiterVars
  <2>0. attempts[r] = <<"primary">>
    BY <1>0, <1>5 DEF StageInv
  <2>1. TypeOK'
    <3>1. attempts' = [attempts EXCEPT ![r] = <<"primary", "secondary">>]
      BY <1>5, <2>0, Appended
    <3>. QED
      BY <1>0, <1>5, <3>1 DEF TypeOK
  <2>2. StageInv'
    BY <1>0, <1>5 DEF TypeOK, StageInv, Limiter!Reserved
  <2>3. AnswerInv'
    BY <1>0, <1>5 DEF TypeOK, AnswerInv
  <2>. QED
    BY <2>1, <2>2, <2>3 DEF RouterInv
<1>6. ASSUME NEW r \in Requests, NEW kind, Calling(r), Settle(r, kind)
      PROVE  RouterInv'
  <2>1. /\ op' = [op EXCEPT ![r] = "reconcile"] /\ pc' = [pc EXCEPT ![r] = "queued"]
        /\ task' = [task EXCEPT ![r] = "reconciling"]
        /\ UNCHANGED <<attempts, raising, answer>>
    BY <1>6 DEF Settle, Limiter!CallReconcile, Goto
  <2>2. TypeOK'
    BY <1>0, <2>1 DEF TypeOK
  <2>3. StageInv'
    BY <1>0, <1>6, <2>1 DEF TypeOK, StageInv, Limiter!Reserved, Lim!TypeOK, Calling
  <2>4. AnswerInv'
    BY <1>0, <1>6, <2>1 DEF TypeOK, StageInv, AnswerInv, Lim!TypeOK, Calling
  <2>. QED
    BY <2>2, <2>3, <2>4 DEF RouterInv
<1>7. ASSUME NEW r \in Requests, Provider(r)
      PROVE  RouterInv'
  <2>1. PICK reply \in Replies : Receive(r, reply)
    BY <1>7 DEF Provider
  <2>2. /\ Calling(r)
        /\ \/ Settle(r, reply.kind)
           \/ FailOver(r)
           \/ ReleaseThenRaise(r, CallProvider(task[r], reply))
    BY <2>1 DEF Receive
  <2>. QED
    BY <1>4, <1>5, <1>6, <2>2
<1>8. ASSUME NEW r \in Requests, CancelAwait(r)
      PROVE  RouterInv'
  <2>1. /\ task[r] \in {"reserving", "releasing", "reconciling"}
        /\ task' = [task EXCEPT ![r] = "done"]
        /\ answer' = [answer EXCEPT ![r] = "CancelledError"]
        /\ UNCHANGED <<attempts, raising>>
    BY <1>8 DEF CancelAwait, Awaiting, End, Goto
  <2>2. UNCHANGED op /\ pc' \in {pc, [pc EXCEPT ![r] = "dropped"]}
    BY <1>8 DEF CancelAwait, limiterVars, Limiter!DropQueued
  <2>3. TypeOK'
    BY <1>0, <2>1 DEF TypeOK
  <2>4. StageInv'
    BY <1>0, <2>1, <2>2 DEF TypeOK, StageInv, Limiter!Reserved, Lim!TypeOK
  <2>5. AnswerInv'
    BY <1>0, <2>1, <2>2 DEF TypeOK, StageInv, AnswerInv, Lim!TypeOK
  <2>. QED
    BY <2>3, <2>4, <2>5 DEF RouterInv
<1>9. ASSUME NEW r \in Requests, Cancel(r)
      PROVE  RouterInv'
  BY <1>4, <1>8, <1>9 DEF Cancel, CancelCall
<1>10. ASSUME NEW r \in Requests, Thread(r) \/ (Limiter!Fault(r) /\ UNCHANGED taskVars)
       PROVE  RouterInv'
  BY <1>10, JobsLeaveAnswers, JobsKeepRouterInv DEF Thread
<1>11. CASE Limiter!Tick /\ UNCHANGED taskVars
  BY <1>11, JobsKeepRouterInv DEF Limiter!Tick, Unmoved
<1>12. CASE CrashAndRestart
  <2>. DEFINE alive == {r \in Requests : task[r] \notin {"new", "done"}}
  <2>1. /\ task' = [r \in Requests |-> IF r \in alive THEN "done" ELSE task[r]]
        /\ answer' = [r \in Requests |-> IF r \in alive THEN "lost" ELSE answer[r]]
        /\ UNCHANGED <<attempts, raising, op>>
        /\ pc' = [r \in Requests |-> IF Limiter!Unanswered(r) THEN "lost" ELSE pc[r]]
    BY <1>12 DEF CrashAndRestart, Limiter!Crash
  <2>2. TypeOK'
    BY <1>0, <2>1 DEF TypeOK
  <2>3. StageInv'
    BY <1>0, <2>1 DEF TypeOK, StageInv
  <2>4. AnswerInv'
    BY <1>0, <2>1 DEF TypeOK, AnswerInv, Limiter!Unanswered, Limiter!Answered, Limiter!Settled
  <2>. QED
    BY <2>2, <2>3, <2>4 DEF RouterInv
<1>13. CASE Terminating \/ UNCHANGED vars
  <2>1. UNCHANGED <<taskVars, op, pc>>
    BY <1>13 DEF Terminating, vars, limiterVars
  <2>. QED
    BY <2>1, JobsKeepRouterInv DEF Unmoved
<1>. QED
  BY <1>1, <1>2, <1>3, <1>7, <1>9, <1>10, <1>11, <1>12, <1>13 DEF Next

(* Where the tasks are and where their limiter calls are go together.      *)
THEOREM RouterInductive == Spec => []RouterInv
<1>1. Lim!IndInv => Lim!TypeOK
  BY DEF Lim!IndInv, Lim!TableInv
<1>. QED
  BY <1>1, RouterInvInit, RouterInvStep, LimiterStaysSound, PTL DEF Spec

(* A request tries the primary once and the secondary at most once after   *)
(* it, and ends in one of the answers of the code.                         *)
THEOREM RouterTyping == Spec => []TypeOK
<1>1. RouterInv => TypeOK
  BY DEF RouterInv
<1>. QED
  BY <1>1, RouterInductive, PTL

-----------------------------------------------------------------------------
(* What clients are told, and what their requests hold and cost.            *)

(* The row of a request that holds or has settled a reservation, or whose  *)
(* settlement has raised.                                                  *)
LEMMA RowsAreTheirs ==
  ASSUME Lim!IndInv, NEW r \in Requests,
         \/ op[r] = "reserve" /\ pc[r] = "ok"
         \/ op[r] \in {"reconcile", "release"} /\ pc[r] \in {"ok", "error"}
  PROVE  /\ rowId[r] # 0
         /\ Lim!Released(r) => RowsOf(r) = {}
         /\ op[r] = "reserve" \/ pc[r] = "error" => \A q \in RowsOf(r) : q.tokens = est[r]
         /\ op[r] = "reconcile" /\ pc[r] = "ok" => \A q \in RowsOf(r) : q.tokens = actual[r]
         /\ ~Lim!Released(r) /\ RowsOf(r) = {} => now[r] < clock - Window
<1>1. rowId[r] # 0
  BY DEF Lim!IndInv, Lim!TableInv, Lim!RowIdInv, Lim!Reserved
<1>2. RowsOf(r) = {q \in db : q.id = rowId[r]}
  BY <1>1 DEF RowsOf
<1>3. Lim!Committed(r)
  BY <1>1 DEF Lim!Committed
<1>4. IF Lim!Released(r) THEN RowsOf(r) = {}
      ELSE /\ RowsOf(r) \subseteq {Lim!RowOf(r)}
           /\ Lim!Expired(Lim!RowOf(r)) \/ Lim!RowOf(r) \in db
  BY <1>2, <1>3 DEF Lim!IndInv, Lim!TableInv, Lim!TableMatchesCallers
<1>5. /\ Lim!RowOf(r).id = rowId[r] /\ Lim!RowOf(r).ts = now[r]
      /\ op[r] = "reserve" \/ pc[r] = "error" => Lim!RowOf(r).tokens = est[r]
      /\ op[r] = "reconcile" /\ pc[r] = "ok" => Lim!RowOf(r).tokens = actual[r]
  BY DEF Lim!RowOf
<1>7. op[r] = "reserve" \/ pc[r] = "error" \/ op[r] = "reconcile" => ~Lim!Released(r)
  BY DEF Lim!Released
<1>6. ~Lim!Released(r) /\ RowsOf(r) = {} => now[r] < clock - Window
  BY <1>2, <1>4, <1>5 DEF Lim!Expired
<1>. QED
  BY <1>1, <1>4, <1>5, <1>6, <1>7

LEMMA StatusesMeanAnswers ==
  ASSUME TypeOK, NEW r \in Requests
  PROVE  /\ Status(answer[r]) = 200 => answer[r] = "ok"
         /\ Status(answer[r]) = 400 => answer[r] = "INVALID_REQUEST"
         /\ Status(answer[r]) = 429 => answer[r] = "RATE_LIMITED"
BY DEF TypeOK, Status, Uncategorised, Upstream

(* What a client was told tells what its request costs: a 200 what the     *)
(* provider reported; a 400, a 429, an unreadable body and a released      *)
(* failure nothing; an error of the limiter nothing if it came from        *)
(* reserve(), else the estimate until it expires.                          *)
THEOREM AnswersAreSettled == Spec => []AnsweredMeansSettled
<1>1. Lim!IndInv /\ RouterInv => AnsweredMeansSettled
  <2>. SUFFICES ASSUME Lim!IndInv, RouterInv, NEW r \in Requests
                PROVE  /\ Status(answer[r]) = 200 =>
                            /\ \A q \in RowsOf(r) : q.tokens = actual[r]
                            /\ RowsOf(r) = {} => now[r] < clock - Window
                       /\ Status(answer[r]) \in {400, 429} \/ answer[r] = "TypeError"
                            => rowId[r] = 0
                       /\ answer[r] \in Upstream => RowsOf(r) = {}
                       /\ answer[r] = "OperationalError" =>
                            IF op[r] = "reserve" THEN rowId[r] = 0
                            ELSE /\ \A q \in RowsOf(r) : q.tokens = est[r]
                                 /\ RowsOf(r) = {} => now[r] < clock - Window
    BY DEF AnsweredMeansSettled
  <2>1. TypeOK /\ AnswerInv
    BY DEF RouterInv
  <2>2. ASSUME Status(answer[r]) = 200
        PROVE  /\ \A q \in RowsOf(r) : q.tokens = actual[r]
               /\ RowsOf(r) = {} => now[r] < clock - Window
    <3>1. op[r] = "reconcile" /\ pc[r] = "ok"
      BY <2>1, <2>2, StatusesMeanAnswers DEF AnswerInv
    <3>2. ~Lim!Released(r)
      BY <3>1 DEF Lim!Released
    <3>. QED
      BY <3>1, <3>2, RowsAreTheirs
  <2>3. ASSUME Status(answer[r]) \in {400, 429} \/ answer[r] = "TypeError"
        PROVE  rowId[r] = 0
    <3>1. op[r] = "none" \/ (op[r] = "reserve" /\ pc[r] = "denied")
      BY <2>1, <2>3, StatusesMeanAnswers DEF AnswerInv
    <3>. QED
      BY <3>1 DEF Lim!IndInv, Lim!TableInv, Lim!RowIdInv
  <2>4. ASSUME answer[r] \in Upstream
        PROVE  RowsOf(r) = {}
    <3>1. op[r] = "release" /\ pc[r] = "ok"
      BY <2>1, <2>4 DEF AnswerInv
    <3>2. Lim!Released(r)
      BY <3>1 DEF Lim!Released
    <3>. QED
      BY <3>1, <3>2, RowsAreTheirs
  <2>5. ASSUME answer[r] = "OperationalError"
        PROVE  IF op[r] = "reserve" THEN rowId[r] = 0
               ELSE /\ \A q \in RowsOf(r) : q.tokens = est[r]
                    /\ RowsOf(r) = {} => now[r] < clock - Window
    <3>1. op[r] \in {"reserve", "release", "reconcile"} /\ pc[r] = "error"
      BY <2>1, <2>5 DEF AnswerInv
    <3>2. ~Lim!Released(r)
      BY <3>1 DEF Lim!Released
    <3>3. op[r] = "reserve" => rowId[r] = 0
      BY <3>1 DEF Lim!IndInv, Lim!TableInv, Lim!RowIdInv
    <3>. QED
      BY <3>1, <3>2, <3>3, RowsAreTheirs
  <2>. QED
    BY <2>2, <2>3, <2>4, <2>5
<1>. QED
  BY <1>1, LimiterStaysSound, RouterInductive, PTL

LEMMA CallersReserve ==
  ASSUME RouterInv, NEW r \in Requests, Calling(r)
  PROVE  op[r] = "reserve" /\ pc[r] = "ok"
BY DEF RouterInv, StageInv, Calling, Limiter!Reserved

(* No provider is called on credit: a call's row is in the table at its    *)
(* estimate, or the call has outlived the window.                          *)
THEOREM NoCallOnCredit == Spec => []CallsAreReserved
<1>1. Lim!IndInv /\ RouterInv => CallsAreReserved
  BY RowsAreTheirs, CallersReserve DEF CallsAreReserved, Lim!Released
<1>. QED
  BY <1>1, LimiterStaysSound, RouterInductive, PTL

LEMMA GiversTakeNothing ==
  ASSUME Lim!IndInv, NEW tenant, IsFiniteSet(Givers(tenant))
  PROVE  GivenBack(tenant) \in Nat
<1>. DEFINE v == [r \in Requests |-> -actual[r]]
            G == Givers(tenant)
<1>1. \A r \in G : v[r] \in Nat
  <2>1. \A r \in Requests : actual[r] \in Int
    <3>1. Estimates \cup Reports \subseteq Int
      BY LimiterConstants DEF Lim!ConstantsAssumption
    <3>2. Lim!TokenCounts \subseteq Int
      BY <3>1 DEF Lim!TokenCounts
    <3>3. actual \in [Requests -> Lim!TokenCounts]
      BY DEF Lim!IndInv, Lim!TableInv, Lim!TypeOK
    <3>. QED
      BY <3>2, <3>3
  <2>. QED
    BY <2>1 DEF Givers
<1>. HIDE DEF v, G
<1>2. IsFiniteSet(G)
  BY DEF G
<1>3. SumFunctionOnSet(v, G) \in Nat
  BY <1>1, <1>2, SumType
<1>. QED
  BY <1>3 DEF v, G, GivenBack

(* What a tenant's outstanding calls reserved within one window never adds *)
(* up to more than Limit and what negative reports gave back.              *)
THEOREM CallsInFlightFit == Spec => []InFlightWithinLimit
<1>1. Lim!IndInv /\ RouterInv /\ Lim!ReservationsFit => InFlightWithinLimit
  <2>. SUFFICES ASSUME Lim!IndInv, RouterInv, Lim!ReservationsFit, NEW tenant \in Tenants
                PROVE  SumFunctionOnSet(est, InFlightOf(tenant)) <= Limit + GivenBack(tenant)
    BY DEF InFlightWithinLimit
  <2>. DEFINE H == Lim!Holding(tenant)
              v == [r \in Requests |-> -actual[r]]
              G == Givers(tenant)
  <2>0. Lim!Givers(tenant) = G /\ Lim!GivenBack(tenant) = Lim!SumFunctionOnSet(v, G)
    BY DEF Lim!Givers, Givers, Lim!GivenBack
  <2>1. InFlightOf(tenant) \in SUBSET H
    BY CallersReserve DEF InFlightOf, Lim!Holding, Lim!Reserved
  <2>2. \A r \in H : est[r] \in Nat
    BY DEF Lim!Holding, Lim!IndInv, Lim!TableInv, Lim!TypeOK
  <2>3. IsFiniteSet(H)
    <3>1. Lim!IsFiniteSet(H)
      BY DEF Lim!ReservationsFit
    <3>. QED
      BY <3>1, Zenon DEF Lim!IsFiniteSet, IsFiniteSet
  <2>4. SumFunctionOnSet(est, H) <= Limit + GivenBack(tenant)
    <3>1. Lim!SumFunctionOnSet(est, H) <= Limit + Lim!SumFunctionOnSet(v, G)
      BY <2>0 DEF Lim!ReservationsFit
    <3>. HIDE DEF H, v, G
    <3>2. \A f, S : Lim!SumFunctionOnSet(f, S) = SumFunctionOnSet(f, S)
      BY Zenon DEF Lim!SumFunctionOnSet, Lim!FoldFunctionOnSet, Lim!MapThenFoldSet,
         SumFunctionOnSet, FoldFunctionOnSet, MapThenFoldSet
    <3>3. SumFunctionOnSet(v, G) = GivenBack(tenant)
      BY DEF v, G, GivenBack
    <3>. QED
      BY <3>1, <3>2, <3>3
  <2>8. GivenBack(tenant) \in Nat
    <3>1. Lim!IsFiniteSet(G)
      BY <2>0 DEF Lim!ReservationsFit
    <3>2. IsFiniteSet(G)
      BY <3>1, Zenon DEF Lim!IsFiniteSet, IsFiniteSet
    <3>. QED
      BY <3>2, GiversTakeNothing
  <2>. HIDE DEF H
  <2>5. SumFunctionOnSet(est, InFlightOf(tenant)) <= SumFunctionOnSet(est, H)
    BY <2>1, <2>2, <2>3, SumSubset
  <2>6. IsFiniteSet(InFlightOf(tenant)) /\ \A r \in InFlightOf(tenant) : est[r] \in Nat
    BY <2>1, <2>2, <2>3, FS_Subset
  <2>7. SumFunctionOnSet(est, InFlightOf(tenant)) \in Nat /\ SumFunctionOnSet(est, H) \in Nat
    BY <2>2, <2>3, <2>6, SumType
  <2>. QED
    BY <2>4, <2>5, <2>7, <2>8, RouterAssumption DEF RouterAssumption
<1>. QED
  BY <1>1, LimiterStaysSound, RouterInductive, PTL

(* The next whole second is after any fraction of one.                     *)
LEMMA HeaderOutlasts ==
  ASSUME NEW n \in Int
  PROVE  /\ (n \div TicksPerSecond + 1) * TicksPerSecond \in Int
         /\ n < (n \div TicksPerSecond + 1) * TicksPerSecond
<1>. DEFINE T == TicksPerSecond
            d == n \div T
<1>1. T \in Nat /\ T > 0
  BY RouterAssumption DEF RouterAssumption
<1>2. d \in Int /\ n % T \in 0..(T - 1) /\ n = T * d + (n % T)
  BY <1>1
<1>. HIDE DEF d, T
<1>3. (d + 1) * T = T * d + T
  BY <1>1, <1>2
<1>4. T * d \in Int
  BY <1>1, <1>2
<1>5. (d + 1) * T \in Int /\ n < (d + 1) * T
  BY <1>1, <1>2, <1>3, <1>4
<1>. QED
  BY <1>5 DEF d, T

(* A client that waits the seconds of the Retry-After header finds the     *)
(* oldest charge that stood against it gone.                               *)
THEOREM RetryAfterHeaderIsEnough == Spec => []RetryAfterHeaderFrees
<1>1. Lim!IndInv /\ RouterInv /\ Lim!RetryAfterFrees => RetryAfterHeaderFrees
  <2>. SUFFICES ASSUME Lim!IndInv, RouterInv, Lim!RetryAfterFrees, NEW r \in Requests,
                       answer[r] = "RATE_LIMITED", oldest[r] # 0,
                       clock >= now[r] + RetryAfterHeader(r) * TicksPerSecond, NEW q \in db, q.id = oldest[r]
                PROVE  q.ts < clock - Window
    BY DEF RetryAfterHeaderFrees
  <2>1. pc[r] = "denied"
    BY DEF RouterInv, AnswerInv
  <2>2. now[r] \in Int /\ retry[r] \in Int /\ clock \in Int
    BY RouterAssumption DEF Lim!IndInv, Lim!TableInv, Lim!TypeOK, RouterAssumption
  <2>3. clock > now[r] + retry[r]
    <3>. DEFINE wait == RetryAfterHeader(r) * TicksPerSecond
    <3>1. wait \in Int /\ retry[r] < wait
      BY <2>2, HeaderOutlasts DEF RetryAfterHeader
    <3>2. clock >= now[r] + wait
      OBVIOUS
    <3>. HIDE DEF wait
    <3>. QED
      BY <2>2, <3>1, <3>2
  <2>4. ~Lim!StillCounted(r)
    BY <2>1, <2>3 DEF Lim!RetryAfterFrees
  <2>. QED
    BY <2>4 DEF Lim!StillCounted, Lim!Expired
<1>. QED
  BY <1>1, LimiterStaysSound, RouterInductive, PTL

-----------------------------------------------------------------------------
(* The router over the mock: its replies are replies of the free provider, *)
(* so the theorems above hold there too.                                   *)

LEMMA LateIsAfterAll ==
  /\ Late \in Nat /\ ClientTimeout \in Nat /\ ClientTimeout < Late
  /\ \A p \in Providers : TimeoutOf[p] \in Nat /\ TimeoutOf[p] < Late
<1>. DEFINE S == {ClientTimeout} \cup {TimeoutOf[p] : p \in Providers}
<1>1. /\ ClientTimeout \in Nat
      /\ TimeoutOf["primary"] \in Nat /\ TimeoutOf["secondary"] \in Nat
      /\ S = {ClientTimeout, TimeoutOf["primary"], TimeoutOf["secondary"]}
  BY RouterAssumption DEF RouterAssumption, Providers
<1>2. \A x, y, z \in Nat : \E m \in {x, y, z} : m >= x /\ m >= y /\ m >= z
  <2>. SUFFICES ASSUME NEW x \in Nat, NEW y \in Nat, NEW z \in Nat
                PROVE  \E m \in {x, y, z} : m >= x /\ m >= y /\ m >= z
    OBVIOUS
  <2>1. CASE x >= y /\ x >= z
    BY <2>1
  <2>2. CASE y >= x /\ y >= z
    BY <2>2
  <2>3. CASE z >= x /\ z >= y
    BY <2>3
  <2>. QED
    BY <2>1, <2>2, <2>3
<1>3. PICK m \in S : \A y \in S : m >= y
  <2>1. PICK m \in S : m >= ClientTimeout /\ m >= TimeoutOf["primary"] /\ m >= TimeoutOf["secondary"]
    BY <1>1, <1>2
  <2>. QED
    BY <1>1, <2>1
<1>4. Max(S) \in S /\ \A y \in S : Max(S) >= y
  BY <1>3, Zenon DEF Max
<1>. QED
  BY <1>1, <1>4 DEF Late, Providers

(* Any wait is one of two: none, or past every timeout.                    *)
LEMMA WaitsAreTwo ==
  ASSUME NEW kind \in Kinds, NEW after \in Nat, NEW p \in Providers
  PROVE  \E reply \in Replies :
           /\ reply.kind = kind
           /\ CallProvider(p, reply) = CallProvider(p, [kind |-> kind, after |-> after])
<1>. DEFINE tooLate == after > TimeoutOf[p] \/ after > ClientTimeout
            reply == [kind |-> kind, after |-> IF tooLate THEN Late ELSE 0]
<1>1. reply \in Replies /\ reply.kind = kind
  BY DEF Replies
<1>2. /\ reply.after > TimeoutOf[p] /\ TimeoutOf[p] <= ClientTimeout
         <=> after > TimeoutOf[p] /\ TimeoutOf[p] <= ClientTimeout
      /\ reply.after > ClientTimeout /\ ClientTimeout < TimeoutOf[p]
         <=> after > ClientTimeout /\ ClientTimeout < TimeoutOf[p]
  BY LateIsAfterAll
<1>3. CallProvider(p, reply) = CallProvider(p, [kind |-> kind, after |-> after])
  BY <1>1, <1>2 DEF CallProvider
<1>. QED
  BY <1>1, <1>3

ScriptType == [mode: Modes, failing: Providers \cup {"none"}, hang: Nat]

Sound(s, p) == ~Saturated(s, p) /\ ~Broken(s, p)

(* What a script makes of a call is what the property calls it.            *)
LEMMA MockOutcome ==
  ASSUME NEW s \in ScriptType, NEW p \in Providers
  PROVE  /\ MockReply(s, p).kind \in Kinds /\ MockReply(s, p).after \in Nat
         /\ MockReply(s, p) = [kind |-> MockReply(s, p).kind, after |-> MockReply(s, p).after]
         /\ CallProvider(p, MockReply(s, p)) \in Triggers <=> Saturated(s, p)
         /\ CallProvider(p, MockReply(s, p)) = "ProviderResult" <=> Sound(s, p)
<1>. DEFINE mode == Effective(s, p)
            reply == MockReply(s, p)
<1>1. s.mode \in Modes /\ s.failing \in Providers \cup {"none"} /\ s.hang \in Nat
  BY DEF ScriptType
<1>2. mode = IF s.failing \in {"none", p} THEN s.mode
             ELSE IF s.mode \in NonStreamModes THEN "non_stream" ELSE "stream"
  BY DEF Effective
<1>3. /\ reply = [kind |-> reply.kind, after |-> reply.after]
      /\ reply.kind = CASE mode = "rate_limited" -> "429"
                        [] mode = "server_error" -> "error"
                        [] mode = "hang" -> "noUsage"
                        [] mode = "non_stream" -> "completion"
                        [] OTHER -> "notJson"
      /\ reply.after = IF mode = "hang" THEN s.hang ELSE 0
  BY DEF MockReply
<1>4. TimeoutOf[p] \in Nat /\ ClientTimeout \in Nat
  BY LateIsAfterAll
<1>. QED
  BY <1>1, <1>2, <1>3, <1>4
     DEF Modes, NonStreamModes, Kinds, CallProvider, Triggers, Saturated, Broken, Sound, HangsPast

LEMMA MockIsAProvider ==
  ASSUME NEW r \in Requests, script[r] \in ScriptType, MockReplies(r)
  PROVE  Provider(r)
<1>. DEFINE p == task[r]
            mock == MockReply(script[r], p)
<1>1. Calling(r) /\ p \in Providers
  BY DEF MockReplies, Receive, Calling, Providers
<1>2. PICK reply \in Replies :
        reply.kind = mock.kind /\ CallProvider(p, reply) = CallProvider(p, mock)
  BY <1>1, MockOutcome, WaitsAreTwo
<1>3. Receive(r, mock)
  BY DEF MockReplies
<1>4. Receive(r, reply)
  BY <1>2, <1>3 DEF Receive
<1>. QED
  BY <1>4 DEF Provider

ScriptTyping == script \in [Requests -> ScriptType]

LEMMA MockStepsAreSteps == ScriptTyping /\ [NextOverMock]_mockVars => [Next]_vars
BY MockIsAProvider DEF ScriptTyping, NextOverMock, Next, mockVars

LEMMA ScriptsStay ==
  /\ InitOverMock => ScriptTyping
  /\ ScriptTyping /\ [NextOverMock]_mockVars => ScriptTyping'
BY MockAssumption DEF MockAssumption, ScriptTyping, InitOverMock, NextOverMock, mockVars, ScriptType

(* Over the mock the router does nothing it does not do over any two       *)
(* providers: what is proved of it holds whatever requests script.         *)
THEOREM MockChangesNothing == SpecOverMock => Spec
<1>1. InitOverMock => Init
  BY DEF InitOverMock
<1>. QED
  BY <1>1, MockStepsAreSteps, ScriptsStay, PTL DEF SpecOverMock, Spec

-----------------------------------------------------------------------------
(* What a script and the attempts that were made say of a request's end.   *)

Delivered(r) ==
  \/ attempts[r] = <<"primary">> /\ Sound(script[r], "primary")
  \/ attempts[r] = <<"primary", "secondary">> /\ Sound(script[r], "secondary")

Undelivered(r) ==
  \/ attempts[r] = <<"primary">> /\ Broken(script[r], "primary")
  \/ attempts[r] = <<"primary", "secondary">> /\ ~Sound(script[r], "secondary")

UpstreamErrors == {"UPSTREAM_UNAVAILABLE", "UPSTREAM_TIMEOUT"}

FollowsScript(r) ==
  /\ script[r] \in ScriptType
  /\ task[r] = "secondary" => attempts[r] = <<"primary", "secondary">>
  /\ attempts[r] = <<"primary", "secondary">> => Saturated(script[r], "primary")
  /\ task[r] = "reconciling" \/ answer[r] = "ok" => Delivered(r)
  /\ raising[r] \in UpstreamErrors \/ answer[r] \in UpstreamErrors => Undelivered(r)

ScriptInv == \A r \in Requests : FollowsScript(r)

LEMMA ScriptInvInit == InitOverMock => ScriptInv
<1>. SUFFICES ASSUME InitOverMock, NEW r \in Requests
              PROVE  FollowsScript(r)
  BY DEF ScriptInv
<1>1. script[r] \in ScriptType
  BY ScriptsStay DEF ScriptTyping
<1>2. attempts[r] = <<>> /\ task[r] = "new" /\ raising[r] = "none" /\ answer[r] = "none"
  BY DEF InitOverMock, Init
<1>. QED
  BY <1>1, <1>2 DEF FollowsScript, UpstreamErrors

(* A request whose task goes on, whose call, attempts and answer do not.   *)
LEMMA ScriptKept ==
  ASSUME NEW r \in Requests, FollowsScript(r),
         script'[r] = script[r], attempts'[r] = attempts[r],
         raising'[r] = raising[r] \/ raising'[r] \notin UpstreamErrors,
         answer'[r] \in {answer[r], raising[r]} \/ answer'[r] \notin UpstreamErrors \cup {"ok"},
         raising[r] # "ok", task'[r] = task[r] \/ task'[r] \notin {"secondary", "reconciling"}
  PROVE  FollowsScript(r)'
BY DEF FollowsScript, Delivered, Undelivered

LEMMA ScriptInvStep == RouterInv /\ ScriptInv /\ [NextOverMock]_mockVars => ScriptInv'
<1>. SUFFICES ASSUME RouterInv, ScriptInv, [NextOverMock]_mockVars, NEW q \in Requests
              PROVE  FollowsScript(q)'
  BY DEF ScriptInv
<1>0. /\ TypeOK /\ StageInv /\ FollowsScript(q)
      /\ script' = script /\ raising[q] # "ok"
  BY DEF RouterInv, ScriptInv, NextOverMock, mockVars, TypeOK, Upstream
<1>1. CASE UNCHANGED taskVars
  BY <1>0, <1>1, ScriptKept DEF taskVars
<1>2. ASSUME NEW r \in Requests, r # q,
             \/ Arrive(r) \/ MockReplies(r) \/ Resume(r) \/ Cancel(r)
      PROVE  FollowsScript(q)'
  <2>1. task'[q] = task[q] /\ attempts'[q] = attempts[q]
        /\ raising'[q] = raising[q] /\ answer'[q] = answer[q]
    <3>. USE <1>0, <1>2 DEF TypeOK, Goto, End
    <3>1. CASE Arrive(r)
      BY <3>1 DEF Arrive
    <3>2. CASE MockReplies(r)
      BY <3>2 DEF MockReplies, Receive, Settle, FailOver, ReleaseThenRaise
    <3>3. CASE Resume(r)
      BY <3>3 DEF Resume, Admitted, RateLimited, LimiterRaises, RaiseAfterRelease, Return
    <3>4. CASE Cancel(r)
      BY <3>4 DEF Cancel, CancelCall, CancelAwait, ReleaseThenRaise
    <3>. QED
      BY <3>1, <3>2, <3>3, <3>4
  <2>. QED
    BY <1>0, <2>1, ScriptKept
<1>3. CASE Arrive(q)
  <2>1. task'[q] = "reserving" /\ UNCHANGED <<attempts, raising, answer>>
    BY <1>0, <1>3 DEF Arrive, Goto, TypeOK
  <2>. QED
    BY <1>0, <2>1, ScriptKept
<1>4. CASE Resume(q)
  <2>. USE <1>0 DEF TypeOK, Goto, End
  <2>1. CASE Admitted(q)
    <3>1. /\ task'[q] = "primary" /\ attempts'[q] = <<"primary">>
          /\ UNCHANGED <<raising, answer>>
          /\ attempts[q] = <<>> /\ answer[q] = "none"
      BY <2>1, Appended DEF Admitted, StageInv
    <3>2. raising[q] \notin UpstreamErrors
      BY <3>1 DEF FollowsScript, Undelivered
    <3>3. <<"primary">> # <<"primary", "secondary">>
      OBVIOUS
    <3>. QED
      BY <3>1, <3>2, <3>3 DEF FollowsScript, UpstreamErrors
  <2>2. CASE RateLimited(q) \/ LimiterRaises(q)
    <3>1. /\ task'[q] = "done" /\ UNCHANGED <<attempts, raising>>
          /\ answer'[q] \in {"RATE_LIMITED", "OperationalError"}
      BY <2>2 DEF RateLimited, LimiterRaises
    <3>. QED
      BY <3>1, ScriptKept DEF UpstreamErrors
  <2>3. CASE RaiseAfterRelease(q)
    <3>1. task'[q] = "done" /\ answer'[q] = raising[q] /\ UNCHANGED <<attempts, raising>>
      BY <2>3 DEF RaiseAfterRelease
    <3>. QED
      BY <3>1, ScriptKept
  <2>4. CASE Return(q)
    <3>1. /\ task[q] = "reconciling" /\ task'[q] = "done" /\ answer'[q] = "ok"
          /\ UNCHANGED <<attempts, raising>>
      BY <2>4 DEF Return
    <3>2. Delivered(q)
      BY <3>1 DEF FollowsScript
    <3>3. raising[q] \in UpstreamErrors => Undelivered(q)
      BY DEF FollowsScript
    <3>. QED
      BY <3>1, <3>2, <3>3 DEF FollowsScript, Delivered, Undelivered, UpstreamErrors
  <2>. QED
    BY <1>4, <2>1, <2>2, <2>3, <2>4 DEF Resume
<1>5. CASE Cancel(q)
  <2>1. CASE CancelCall(q)
    <3>1. /\ task'[q] = "releasing" /\ raising'[q] = "INTERNAL_ERROR"
          /\ UNCHANGED <<attempts, answer>>
      BY <1>0, <2>1 DEF CancelCall, ReleaseThenRaise, AsGatewayError, Goto, TypeOK
    <3>. QED
      BY <1>0, <3>1, ScriptKept DEF UpstreamErrors
  <2>2. CASE CancelAwait(q)
    <3>1. /\ task'[q] = "done" /\ answer'[q] = "CancelledError"
          /\ UNCHANGED <<attempts, raising>>
      BY <1>0, <2>2 DEF CancelAwait, End, Goto, TypeOK
    <3>. QED
      BY <1>0, <3>1, ScriptKept DEF UpstreamErrors
  <2>. QED
    BY <1>5, <2>1, <2>2 DEF Cancel
<1>6. CASE MockReplies(q)
  <2>. DEFINE p == task[q]
              outcome == CallProvider(p, MockReply(script[q], p))
  <2>1. /\ p \in Providers /\ script[q] \in ScriptType /\ answer[q] = "none"
        /\ p = "primary" => attempts[q] = <<"primary">>
        /\ p = "secondary" => attempts[q] = <<"primary", "secondary">>
    BY <1>0, <1>6 DEF MockReplies, Receive, Calling, Providers, StageInv, FollowsScript
  <2>2. /\ outcome \in Triggers <=> Saturated(script[q], p)
        /\ outcome = "ProviderResult" <=> Sound(script[q], p)
    BY <2>1, MockOutcome
  <2>3. \/ outcome = "ProviderResult" /\ \E kind : Settle(q, kind)
        \/ outcome \in Triggers /\ FailOver(q)
        \/ /\ outcome # "ProviderResult"
           /\ p = "primary" => outcome \notin Triggers
           /\ ReleaseThenRaise(q, outcome)
    BY <1>6 DEF MockReplies, Receive
  <2>. HIDE DEF outcome
  <2>4. CASE outcome = "ProviderResult" /\ \E kind : Settle(q, kind)
    <3>1. task'[q] = "reconciling" /\ UNCHANGED <<attempts, raising, answer>>
      BY <1>0, <2>4 DEF Settle, Goto, TypeOK
    <3>2. Delivered(q)
      BY <2>1, <2>2, <2>4 DEF Delivered, Providers
    <3>. QED
      BY <1>0, <3>1, <3>2 DEF FollowsScript, Delivered, Undelivered
  <2>5. CASE outcome \in Triggers /\ FailOver(q)
    <3>1. /\ task[q] = "primary" /\ task'[q] = "secondary"
          /\ attempts'[q] = <<"primary", "secondary">>
          /\ UNCHANGED <<raising, answer>>
      BY <1>0, <2>1, <2>5, Appended DEF FailOver, Goto, TypeOK
    <3>2. Saturated(script[q], "primary")
      BY <2>2, <2>5, <3>1
    <3>3. ~Broken(script[q], "primary")
      BY <2>1, <3>2, LateIsAfterAll DEF Providers, ScriptType, Saturated, Broken, HangsPast
    <3>4. <<"primary">> # <<"primary", "secondary">>
      OBVIOUS
    <3>5. raising[q] \notin UpstreamErrors
      BY <1>0, <2>1, <3>1, <3>3, <3>4 DEF FollowsScript, Undelivered
    <3>. QED
      BY <1>0, <2>1, <3>1, <3>2, <3>5 DEF FollowsScript, UpstreamErrors
  <2>6. CASE /\ outcome # "ProviderResult"
             /\ p = "primary" => outcome \notin Triggers
             /\ ReleaseThenRaise(q, outcome)
    <3>1. task'[q] = "releasing" /\ UNCHANGED <<attempts, answer>>
      BY <1>0, <2>6 DEF ReleaseThenRaise, Goto, TypeOK
    <3>2. Undelivered(q)
      BY <2>1, <2>2, <2>6 DEF Undelivered, Sound, Providers
    <3>. QED
      BY <1>0, <2>1, <3>1, <3>2 DEF FollowsScript, Undelivered, UpstreamErrors
  <2>. QED
    BY <2>3, <2>4, <2>5, <2>6
<1>7. CASE CrashAndRestart
  <2>1. /\ task'[q] \in {task[q], "done"} /\ answer'[q] \in {answer[q], "lost"}
        /\ UNCHANGED <<attempts, raising>>
    BY <1>7 DEF CrashAndRestart
  <2>. QED
    BY <1>0, <2>1, ScriptKept DEF UpstreamErrors
<1>. QED
  BY <1>1, <1>2, <1>3, <1>4, <1>5, <1>6, <1>7
     DEF NextOverMock, Thread, Terminating, vars, mockVars

(* Whatever requests script, cancel and race for, and whatever fails in    *)
(* the limiter: a saturated primary is invisible behind a sound secondary, *)
(* a broken one is not hidden, and nobody else is asked for in its place.  *)
THEOREM FailoverMasks == SpecOverMock => []FailoverMasksSaturation
<1>1. RouterInv /\ ScriptInv => FailoverMasksSaturation
  <2>. SUFFICES ASSUME RouterInv, ScriptInv, NEW r \in Requests
                PROVE  /\ Saturated(script[r], "primary") /\ Sound(script[r], "secondary")
                            => answer[r] \notin UpstreamErrors
                       /\ attempts[r] = <<"primary", "secondary">>
                            => Saturated(script[r], "primary")
                       /\ Broken(script[r], "primary") => answer[r] # "ok"
                       /\ answer[r] = "ok" => Sound(script[r], attempts[r][Len(attempts[r])])
    BY DEF FailoverMasksSaturation, Sound, UpstreamErrors
  <2>1. FollowsScript(r)
    BY DEF ScriptInv
  <2>2. ~(Saturated(script[r], "primary") /\ Broken(script[r], "primary"))
    BY <2>1, LateIsAfterAll DEF Providers, FollowsScript, ScriptType, Saturated, Broken, HangsPast
  <2>3. ASSUME Delivered(r)
        PROVE  Sound(script[r], attempts[r][Len(attempts[r])])
    <3>1. /\ Len(<<"primary">>) = 1 /\ <<"primary">>[1] = "primary"
          /\ Len(<<"primary", "secondary">>) = 2 /\ <<"primary", "secondary">>[2] = "secondary"
      OBVIOUS
    <3>. HIDE DEF Sound
    <3>. QED
      BY <2>3, <3>1 DEF Delivered
  <2>. QED
    BY <2>1, <2>2, <2>3 DEF FollowsScript, Delivered, Undelivered, Sound
<1>. QED
  BY <1>1, ScriptInvInit, ScriptInvStep, MockChangesNothing, RouterInductive, PTL DEF SpecOverMock
=============================================================================
