------------------------- MODULE TokenLimiterProofs -------------------------
(***************************************************************************)
(* Theorems about TokenLimiter, alone, as an implementation of WindowLedger *)
(* and under the faults of TokenLimiterFaults, for every value of the      *)
(* constants.                                                              *)
(***************************************************************************)
EXTENDS TokenLimiterFaults, FoldTheorems, TLAPS

-----------------------------------------------------------------------------
(* The operators on the table. *)

LEMMA MaxZero ==
  ASSUME NEW n \in Int
  PROVE  Max({0, n}) \in Int
<1>1. CASE n <= 0
  BY <1>1 DEF Max
<1>2. CASE n > 0
  BY <1>2 DEF Max
<1>. QED
  BY <1>1, <1>2

LEMMA EvictRows ==
  ASSUME NEW rows \in SUBSET Row, NEW cutoff \in Int
  PROVE  Evict(rows, cutoff) \in SUBSET Row
BY DEF Evict

(* Eviction removes nothing that the sum would have counted. *)
LEMMA EvictKeepsUsed ==
  ASSUME NEW rows \in SUBSET Row, NEW tenant, NEW cutoff \in Int
  PROVE  Used(Evict(rows, cutoff), tenant, cutoff) = Used(rows, tenant, cutoff)
<1>1. Counted(Evict(rows, cutoff), tenant, cutoff) = Counted(rows, tenant, cutoff)
  BY DEF Counted, Evict, Row
<1>. QED
  BY <1>1 DEF Used

LEMMA WithTokensRows ==
  ASSUME NEW rows \in SUBSET Row, NEW id \in Nat, NEW n \in TokenCounts
  PROVE  WithTokens(rows, id, n) \in SUBSET Row
BY DEF WithTokens, Row

LEMMA TokensAreInt ==
  TokenCounts \subseteq Int /\ \A q \in Row : q.tokens \in Int
<1>1. TokenCounts \subseteq Int
  BY ConstantsAssumption DEF ConstantsAssumption, TokenCounts
<1>. QED
  BY <1>1 DEF Row

LEMMA RetryAfterInt ==
  ASSUME ConstantsAssumption, NEW rows \in SUBSET Row, NEW tenant,
         NEW cutoff \in Int, NEW t \in Int
  PROVE  RetryAfter(rows, tenant, cutoff, t) \in Int
<1>. DEFINE ages == Timestamps(rows, tenant, cutoff)
<1>1. ages \in SUBSET Nat
  BY DEF Timestamps, Counted, Row
<1>2. CASE ages = {}
  BY <1>2 DEF RetryAfter
<1>3. CASE ages # {}
  <2>1. Min(ages) \in Nat
    BY <1>1, <1>3, MinNat
  <2>2. Min(ages) + Window - t \in Int
    BY <2>1 DEF ConstantsAssumption
  <2>. QED
    BY <1>3, <2>2, MaxZero DEF RetryAfter
<1>. QED
  BY <1>2, <1>3

-----------------------------------------------------------------------------
(* Type correctness. *)

LEMMA TypingStep == TypeOK /\ [Next]_vars => TypeOK'
<1>. USE ConstantsAssumption DEF ConstantsAssumption
<1>. SUFFICES ASSUME TypeOK, [Next]_vars
              PROVE  TypeOK'
  OBVIOUS
<1>0. Nat \subseteq TokenCounts /\ Actuals \subseteq TokenCounts
  BY DEF TokenCounts
<1>. USE DEF TypeOK, InFlight, table, txn, answers
<1>1. ASSUME NEW r \in Requests, Caller(r)
      PROVE  TypeOK'
  BY <1>0, <1>1 DEF Caller, CallReserve, CallReconcile, CallRelease, DropQueued
<1>2. ASSUME NEW r \in Requests, Start(r) \/ BeginImmediate(r) \/ BusyTimeout(r)
      PROVE  TypeOK'
  BY <1>2 DEF Start, BeginImmediate, BusyTimeout
<1>3. ASSUME NEW r \in Requests, Admit(r)
      PROVE  TypeOK'
  <2>. DEFINE kept == Evict(view[r], clock - Window)
              row == [id |-> NextRowId(kept), tenant |-> TenantOf[r],
                      ts |-> clock, tokens |-> est[r]]
  <2>1. kept \in SUBSET Row
    BY EvictRows
  <2>2. row \in Row /\ row.id \in Nat
    BY <1>0 DEF NextRowId, Row
  <2>3. view' = [view EXCEPT ![r] = kept \cup {row}]
    BY <1>3 DEF Admit
  <2>4. rowId' = [rowId EXCEPT ![r] = row.id]
    BY <1>3 DEF Admit
  <2>5. UNCHANGED <<clock, db, seq, lock, op, est, actual, retry, oldest>>
        /\ now' = [now EXCEPT ![r] = clock] /\ pc' = [pc EXCEPT ![r] = "commit"]
    BY <1>3 DEF Admit
  <2>6. view' \in [Requests -> SUBSET Row]
    BY <2>1, <2>2, <2>3
  <2>7. rowId' \in [Requests -> Nat]
    BY <2>2, <2>4
  <2>. HIDE DEF kept, row
  <2>. QED
    BY <2>5, <2>6, <2>7
<1>4. ASSUME NEW r \in Requests, Refuse(r)
      PROVE  TypeOK'
  <2>. DEFINE kept == Evict(view[r], clock - Window)
              counted == {q.id : q \in Counted(kept, TenantOf[r], clock - Window)}
  <2>1. kept \in SUBSET Row
    BY EvictRows
  <2>2. counted \in SUBSET Nat
    BY <2>1 DEF Counted, Row
  <2>3. (IF counted = {} THEN 0 ELSE Min(counted)) \in Nat
    BY <2>2, MinNat
  <2>4. oldest' = [oldest EXCEPT ![r] = IF counted = {} THEN 0 ELSE Min(counted)]
    BY <1>4 DEF Refuse
  <2>5. UNCHANGED <<clock, db, seq, op, est, actual, rowId, retry>>
        /\ now' = [now EXCEPT ![r] = clock] /\ pc' = [pc EXCEPT ![r] = "rolledback"]
        /\ lock' = NoOne /\ view' = [view EXCEPT ![r] = {}]
    BY <1>4 DEF Refuse
  <2>. HIDE DEF kept, counted
  <2>. QED
    BY <2>3, <2>4, <2>5
<1>5. ASSUME NEW r \in Requests, RaiseRateLimitExceeded(r)
      PROVE  TypeOK'
  <2>1. RetryAfter(db, TenantOf[r], now[r] - Window, now[r]) \in Int
    BY RetryAfterInt
  <2>. QED
    BY <1>5, <2>1 DEF RaiseRateLimitExceeded
<1>6. ASSUME NEW r \in Requests, UpdateRow(r)
      PROVE  TypeOK'
  BY <1>6, WithTokensRows DEF UpdateRow
<1>7. ASSUME NEW r \in Requests, DeleteRow(r)
      PROVE  TypeOK'
  BY <1>7 DEF DeleteRow, Without
<1>8. ASSUME NEW r \in Requests, Commit(r)
      PROVE  TypeOK'
  BY <1>8 DEF Commit
<1>9. ASSUME NEW r \in Requests, Fault(r)
      PROVE  TypeOK'
  BY <1>9 DEF Fault
<1>10. CASE Tick
  BY <1>10 DEF Tick
<1>11. CASE Crash
  BY <1>11 DEF Crash
<1>12. CASE UNCHANGED vars
  BY <1>12 DEF vars
<1>. QED
  BY <1>1, <1>2, <1>3, <1>4, <1>5, <1>6, <1>7, <1>8, <1>9, <1>10, <1>11, <1>12
     DEF Next, Worker, Terminating

(* Every state of the limiter, at every bound and pool size, is well typed: *)
(* the table holds rows, views hold rows, ids and clock readings are        *)
(* numbers.                                                                 *)
THEOREM Typing == Spec => []TypeOK
<1>1. Init => TypeOK
  BY ConstantsAssumption DEF ConstantsAssumption, Init, TypeOK, InFlight, TokenCounts
<1>. QED
  BY <1>1, TypingStep, PTL DEF Spec

-----------------------------------------------------------------------------
(* The inductive invariant. *)

LEMMA TableInvInit == Init => TableInv
BY ConstantsAssumption
   DEF ConstantsAssumption, Init, TableInv, TypeOK, InFlight, TokenCounts, LockInv, RowIdInv, Reserved, IdsInv,
       PendingInsert, ViewInv, DecisionInv, ClockInv, RowIdsNeverReused, RowsInClockOrder,
       TableMatchesCallers, Committed

LEMMA TableInvStep == TableInv /\ TypeOK' /\ [Next]_vars => TableInv'
<1>. USE ConstantsAssumption DEF ConstantsAssumption
<1>. SUFFICES ASSUME TableInv, TypeOK', [Next]_vars
              PROVE  TableInv'
  OBVIOUS
<1>. USE DEF TypeOK, InFlight, table, txn, answers
<1>0. /\ TypeOK /\ LockInv /\ RowIdInv /\ IdsInv /\ ViewInv /\ DecisionInv /\ ClockInv
      /\ RowIdsNeverReused /\ RowsInClockOrder /\ TableMatchesCallers
  BY DEF TableInv
<1>1. ASSUME NEW r \in Requests, NEW n \in Estimates, CallReserve(r, n)
      PROVE  TableInv'
  <2>1. LockInv' /\ RowIdInv'
    BY <1>0, <1>1 DEF CallReserve, LockInv, RowIdInv, Reserved
  <2>2. IdsInv' /\ RowIdsNeverReused'
    BY <1>0, <1>1 DEF CallReserve, LockInv, RowIdInv, Reserved, IdsInv, RowIdsNeverReused, PendingInsert
  <2>3. ViewInv' /\ DecisionInv'
    BY <1>0, <1>1 DEF CallReserve, LockInv, RowIdInv, Reserved, ViewInv, DecisionInv, PendingInsert, RowOf
  <2>4. ClockInv' /\ RowsInClockOrder'
    BY <1>0, <1>1 DEF CallReserve, ClockInv, RowsInClockOrder
  <2>5. TableMatchesCallers'
    BY <1>0, <1>1 DEF CallReserve, RowIdInv, Reserved, TableMatchesCallers, Committed, Released, RowOf, Expired
  <2>. QED
    BY <2>1, <2>2, <2>3, <2>4, <2>5 DEF TableInv
<1>2. ASSUME NEW r \in Requests, NEW n \in Actuals, CallReconcile(r, n)
      PROVE  TableInv'
  <2>1. LockInv' /\ RowIdInv'
    BY <1>0, <1>2 DEF CallReconcile, LockInv, RowIdInv, Reserved
  <2>2. IdsInv' /\ RowIdsNeverReused'
    BY <1>0, <1>2 DEF CallReconcile, LockInv, RowIdInv, Reserved, IdsInv, RowIdsNeverReused, PendingInsert
  <2>3. ViewInv' /\ DecisionInv'
    BY <1>0, <1>2 DEF CallReconcile, LockInv, RowIdInv, Reserved, ViewInv, DecisionInv, PendingInsert, RowOf
  <2>4. ClockInv' /\ RowsInClockOrder'
    BY <1>0, <1>2 DEF CallReconcile, ClockInv, RowsInClockOrder
  <2>5. TableMatchesCallers'
    BY <1>0, <1>2 DEF CallReconcile, RowIdInv, Reserved, TableMatchesCallers, Committed, Released, RowOf, Expired
  <2>. QED
    BY <2>1, <2>2, <2>3, <2>4, <2>5 DEF TableInv
<1>3. ASSUME NEW r \in Requests, CallRelease(r)
      PROVE  TableInv'
  <2>1. LockInv' /\ RowIdInv'
    BY <1>0, <1>3 DEF CallRelease, LockInv, RowIdInv, Reserved
  <2>2. IdsInv' /\ RowIdsNeverReused'
    BY <1>0, <1>3 DEF CallRelease, LockInv, RowIdInv, Reserved, IdsInv, RowIdsNeverReused, PendingInsert
  <2>3. ViewInv' /\ DecisionInv'
    BY <1>0, <1>3 DEF CallRelease, LockInv, RowIdInv, Reserved, ViewInv, DecisionInv, PendingInsert, RowOf
  <2>4. ClockInv' /\ RowsInClockOrder'
    BY <1>0, <1>3 DEF CallRelease, ClockInv, RowsInClockOrder
  <2>5. TableMatchesCallers'
    BY <1>0, <1>3 DEF CallRelease, RowIdInv, Reserved, TableMatchesCallers, Committed, Released, RowOf, Expired
  <2>. QED
    BY <2>1, <2>2, <2>3, <2>4, <2>5 DEF TableInv
<1>4. ASSUME NEW r \in Requests, DropQueued(r)
      PROVE  TableInv'
  <2>1. LockInv' /\ RowIdInv'
    BY <1>0, <1>4 DEF DropQueued, LockInv, RowIdInv, Reserved
  <2>2. IdsInv' /\ RowIdsNeverReused'
    BY <1>0, <1>4 DEF DropQueued, LockInv, RowIdInv, Reserved, IdsInv, RowIdsNeverReused, PendingInsert
  <2>3. ViewInv' /\ DecisionInv'
    BY <1>0, <1>4 DEF DropQueued, LockInv, RowIdInv, Reserved, ViewInv, DecisionInv, PendingInsert, RowOf
  <2>4. ClockInv' /\ RowsInClockOrder'
    BY <1>0, <1>4 DEF DropQueued, ClockInv, RowsInClockOrder
  <2>5. TableMatchesCallers'
    BY <1>0, <1>4 DEF DropQueued, RowIdInv, Reserved, TableMatchesCallers, Committed, Released, RowOf, Expired
  <2>. QED
    BY <2>1, <2>2, <2>3, <2>4, <2>5 DEF TableInv
<1>5. ASSUME NEW r \in Requests, Start(r)
      PROVE  TableInv'
  <2>1. LockInv' /\ RowIdInv'
    BY <1>0, <1>5 DEF Start, LockInv, RowIdInv, Reserved
  <2>2. IdsInv' /\ RowIdsNeverReused'
    BY <1>0, <1>5 DEF Start, LockInv, RowIdInv, Reserved, IdsInv, RowIdsNeverReused, PendingInsert
  <2>3. ViewInv' /\ DecisionInv'
    BY <1>0, <1>5 DEF Start, LockInv, RowIdInv, Reserved, ViewInv, DecisionInv, PendingInsert, RowOf
  <2>4. ClockInv' /\ RowsInClockOrder'
    BY <1>0, <1>5 DEF Start, ClockInv, RowsInClockOrder
  <2>5. TableMatchesCallers'
    BY <1>0, <1>5 DEF Start, RowIdInv, Reserved, TableMatchesCallers, Committed, Released, RowOf, Expired
  <2>. QED
    BY <2>1, <2>2, <2>3, <2>4, <2>5 DEF TableInv
<1>6. ASSUME NEW r \in Requests, BeginImmediate(r)
      PROVE  TableInv'
  <2>1. LockInv' /\ RowIdInv'
    BY <1>0, <1>6 DEF BeginImmediate, LockInv, RowIdInv, Reserved
  <2>2. IdsInv' /\ RowIdsNeverReused'
    BY <1>0, <1>6 DEF BeginImmediate, LockInv, RowIdInv, Reserved, IdsInv, RowIdsNeverReused, PendingInsert
  <2>3. ViewInv' /\ DecisionInv'
    BY <1>0, <1>6 DEF BeginImmediate, LockInv, RowIdInv, Reserved, ViewInv, DecisionInv, PendingInsert, RowOf
  <2>4. ClockInv' /\ RowsInClockOrder'
    BY <1>0, <1>6 DEF BeginImmediate, ClockInv, RowsInClockOrder
  <2>5. TableMatchesCallers'
    BY <1>0, <1>6 DEF BeginImmediate, RowIdInv, Reserved, TableMatchesCallers, Committed, Released, RowOf, Expired
  <2>. QED
    BY <2>1, <2>2, <2>3, <2>4, <2>5 DEF TableInv
<1>7. ASSUME NEW r \in Requests, BusyTimeout(r)
      PROVE  TableInv'
  <2>1. LockInv' /\ RowIdInv'
    BY <1>0, <1>7 DEF BusyTimeout, LockInv, RowIdInv, Reserved
  <2>2. IdsInv' /\ RowIdsNeverReused'
    BY <1>0, <1>7 DEF BusyTimeout, LockInv, RowIdInv, Reserved, IdsInv, RowIdsNeverReused, PendingInsert
  <2>3. ViewInv' /\ DecisionInv'
    BY <1>0, <1>7 DEF BusyTimeout, LockInv, RowIdInv, Reserved, ViewInv, DecisionInv, PendingInsert, RowOf
  <2>4. ClockInv' /\ RowsInClockOrder'
    BY <1>0, <1>7 DEF BusyTimeout, ClockInv, RowsInClockOrder
  <2>5. TableMatchesCallers'
    BY <1>0, <1>7 DEF BusyTimeout, RowIdInv, Reserved, TableMatchesCallers, Committed, Released, RowOf, Expired
  <2>. QED
    BY <2>1, <2>2, <2>3, <2>4, <2>5 DEF TableInv
<1>8. ASSUME NEW r \in Requests, Admit(r)
      PROVE  TableInv'
  <2>1. LockInv' /\ RowIdInv'
    BY <1>0, <1>8 DEF Admit, LockInv, RowIdInv, Reserved
  <2>2. IdsInv' /\ RowIdsNeverReused'
    <3>1. rowId' = [rowId EXCEPT ![r] = seq + 1]
      BY <1>8 DEF Admit, NextRowId
    <3>2. \A x \in Requests \ {r} : ~PendingInsert(x) /\ rowId[x] <= seq
      BY <1>0, <1>8 DEF Admit, LockInv, IdsInv, PendingInsert
    <3>3. op' = op /\ pc' = [pc EXCEPT ![r] = "commit"] /\ db' = db /\ seq' = seq /\ op[r] = "reserve"
      BY <1>8 DEF Admit
    <3>4. IdsInv'
      BY <1>0, <3>1, <3>2, <3>3 DEF IdsInv, PendingInsert
    <3>5. RowIdsNeverReused'
      BY <1>0, <3>1, <3>2, <3>3 DEF RowIdsNeverReused
    <3>. QED
      BY <3>4, <3>5
  <2>3. ViewInv' /\ DecisionInv'
    <3>. DEFINE kept == Evict(db, clock - Window)
                row == [id |-> seq + 1, tenant |-> TenantOf[r], ts |-> clock, tokens |-> est[r]]
    <3>1. view[r] = db
      BY <1>0, <1>8 DEF Admit, ViewInv
    <3>2. view' = [view EXCEPT ![r] = kept \cup {row}] /\ rowId' = [rowId EXCEPT ![r] = seq + 1]
      BY <1>8, <3>1 DEF Admit, NextRowId
    <3>3. /\ op[r] = "reserve"
          /\ now' = [now EXCEPT ![r] = clock]
          /\ pc' = [pc EXCEPT ![r] = "commit"]
          /\ UNCHANGED <<clock, db, seq, op, est, actual>>
      BY <1>8 DEF Admit
    <3>4. Used(db, TenantOf[r], clock - Window) + est[r] <= Limit
      BY <1>8, <3>1, EvictKeepsUsed DEF Admit, Fits
    <3>5. RowOf(r)' = row
      BY <3>2, <3>3 DEF RowOf
    <3>6. \A x \in Requests \ {r} :
            /\ view'[x] = view[x] /\ rowId'[x] = rowId[x] /\ now'[x] = now[x]
            /\ pc'[x] = pc[x] /\ RowOf(x)' = RowOf(x)
      BY <3>2, <3>3 DEF RowOf
    <3>. HIDE DEF kept, row
    <3>7. ViewInv'
      BY <1>0, <3>1, <3>2, <3>3, <3>5, <3>6 DEF ViewInv, PendingInsert, kept
    <3>8. DecisionInv'
      BY <1>0, <3>3, <3>4 DEF DecisionInv, PendingInsert, ClockInv
    <3>. QED
      BY <3>7, <3>8
  <2>4. ClockInv' /\ RowsInClockOrder'
    BY <1>0, <1>8 DEF Admit, ClockInv, RowsInClockOrder
  <2>5. TableMatchesCallers'
    BY <1>0, <1>8 DEF Admit, RowIdInv, Reserved, TableMatchesCallers, Committed, Released, RowOf, Expired
  <2>. QED
    BY <2>1, <2>2, <2>3, <2>4, <2>5 DEF TableInv
<1>9. ASSUME NEW r \in Requests, Refuse(r)
      PROVE  TableInv'
  <2>1. LockInv' /\ RowIdInv'
    BY <1>0, <1>9 DEF Refuse, LockInv, RowIdInv, Reserved
  <2>2. IdsInv' /\ RowIdsNeverReused'
    BY <1>0, <1>9 DEF Refuse, LockInv, RowIdInv, Reserved, IdsInv, RowIdsNeverReused, PendingInsert
  <2>3. ViewInv' /\ DecisionInv'
    BY <1>0, <1>9 DEF Refuse, LockInv, RowIdInv, Reserved, ViewInv, DecisionInv, PendingInsert, RowOf
  <2>4. ClockInv' /\ RowsInClockOrder'
    BY <1>0, <1>9 DEF Refuse, ClockInv, RowsInClockOrder
  <2>5. TableMatchesCallers'
    BY <1>0, <1>9 DEF Refuse, RowIdInv, Reserved, TableMatchesCallers, Committed, Released, RowOf, Expired
  <2>. QED
    BY <2>1, <2>2, <2>3, <2>4, <2>5 DEF TableInv
<1>10. ASSUME NEW r \in Requests, RaiseRateLimitExceeded(r)
      PROVE  TableInv'
  <2>1. LockInv' /\ RowIdInv'
    BY <1>0, <1>10 DEF RaiseRateLimitExceeded, LockInv, RowIdInv, Reserved
  <2>2. IdsInv' /\ RowIdsNeverReused'
    BY <1>0, <1>10 DEF RaiseRateLimitExceeded, LockInv, RowIdInv, Reserved, IdsInv, RowIdsNeverReused, PendingInsert
  <2>3. ViewInv' /\ DecisionInv'
    BY <1>0, <1>10 DEF RaiseRateLimitExceeded, LockInv, RowIdInv, Reserved, ViewInv, DecisionInv, PendingInsert, RowOf
  <2>4. ClockInv' /\ RowsInClockOrder'
    BY <1>0, <1>10 DEF RaiseRateLimitExceeded, ClockInv, RowsInClockOrder
  <2>5. TableMatchesCallers'
    BY <1>0, <1>10 DEF RaiseRateLimitExceeded, RowIdInv, Reserved, TableMatchesCallers, Committed, Released, RowOf, Expired
  <2>. QED
    BY <2>1, <2>2, <2>3, <2>4, <2>5 DEF TableInv
<1>11. ASSUME NEW r \in Requests, UpdateRow(r)
      PROVE  TableInv'
  <2>1. LockInv' /\ RowIdInv'
    BY <1>0, <1>11 DEF UpdateRow, LockInv, RowIdInv, Reserved
  <2>2. IdsInv' /\ RowIdsNeverReused'
    BY <1>0, <1>11 DEF UpdateRow, LockInv, RowIdInv, Reserved, IdsInv, RowIdsNeverReused, PendingInsert
  <2>3. ViewInv' /\ DecisionInv'
    BY <1>0, <1>11 DEF UpdateRow, LockInv, RowIdInv, Reserved, ViewInv, DecisionInv, PendingInsert, RowOf
  <2>4. ClockInv' /\ RowsInClockOrder'
    BY <1>0, <1>11 DEF UpdateRow, ClockInv, RowsInClockOrder
  <2>5. TableMatchesCallers'
    BY <1>0, <1>11 DEF UpdateRow, RowIdInv, Reserved, TableMatchesCallers, Committed, Released, RowOf, Expired
  <2>. QED
    BY <2>1, <2>2, <2>3, <2>4, <2>5 DEF TableInv
<1>12. ASSUME NEW r \in Requests, DeleteRow(r)
      PROVE  TableInv'
  <2>1. LockInv' /\ RowIdInv'
    BY <1>0, <1>12 DEF DeleteRow, LockInv, RowIdInv, Reserved
  <2>2. IdsInv' /\ RowIdsNeverReused'
    BY <1>0, <1>12 DEF DeleteRow, LockInv, RowIdInv, Reserved, IdsInv, RowIdsNeverReused, PendingInsert
  <2>3. ViewInv' /\ DecisionInv'
    BY <1>0, <1>12 DEF DeleteRow, LockInv, RowIdInv, Reserved, ViewInv, DecisionInv, PendingInsert, RowOf
  <2>4. ClockInv' /\ RowsInClockOrder'
    BY <1>0, <1>12 DEF DeleteRow, ClockInv, RowsInClockOrder
  <2>5. TableMatchesCallers'
    BY <1>0, <1>12 DEF DeleteRow, RowIdInv, Reserved, TableMatchesCallers, Committed, Released, RowOf, Expired
  <2>. QED
    BY <2>1, <2>2, <2>3, <2>4, <2>5 DEF TableInv
<1>13. ASSUME NEW r \in Requests, Commit(r)
      PROVE  TableInv'
  <2>. DEFINE row == RowOf(r)
  <2>1. /\ pc[r] = "commit" /\ lock = r
        /\ pc' = [pc EXCEPT ![r] = "ok"] /\ lock' = NoOne /\ view' = [view EXCEPT ![r] = {}]
        /\ db' = view[r]
        /\ UNCHANGED <<clock, op, est, actual, now, rowId>>
    BY <1>0, <1>13 DEF Commit, LockInv
  <2>2. \A x \in Requests \ {r} : pc[x] \notin {"txn", "commit"} /\ rowId[x] <= seq
    BY <1>0, <2>1 DEF LockInv, IdsInv, PendingInsert
  <2>3. /\ op[r] \in {"reserve", "reconcile", "release"}
        /\ rowId[r] \in Nat \ {0}
        /\ \A q \in db : q.id \in 1..seq /\ q.ts \in Nat /\ q.ts <= clock
    BY <1>0, <2>1 DEF RowIdInv, IdsInv, PendingInsert, ClockInv, Row
  <2>4. LockInv' /\ RowIdInv'
    BY <1>0, <2>1, <2>2, <2>3 DEF LockInv, RowIdInv, Reserved
  <2>5. RowIdsNeverReused'
    BY <1>0, <2>1 DEF RowIdsNeverReused
  <2>6. ViewInv' /\ DecisionInv'
    BY <2>1, <2>2 DEF ViewInv, DecisionInv, PendingInsert
  <2>7. \A x \in Requests \ {r} :
          (Committed(x)' <=> Committed(x)) /\ (Released(x)' <=> Released(x)) /\ RowOf(x)' = RowOf(x)
    BY <2>1 DEF Committed, Released, RowOf
  <2>8. CASE op[r] = "reserve"
    <3>1. /\ db' = Evict(db, now[r] - Window) \cup {row}
          /\ seq' = seq + 1 /\ rowId[r] = seq + 1
          /\ \A q \in db : q.ts <= now[r]
      BY <1>0, <1>13, <2>1, <2>8 DEF Commit, ViewInv, IdsInv, DecisionInv, PendingInsert
    <3>2. row.id = seq + 1 /\ row.ts = now[r] /\ now[r] <= clock
      BY <1>0, <3>1 DEF RowOf, ClockInv
    <3>3. \A q \in db' : q = row \/ q \in db
      BY <3>1 DEF Evict
    <3>4. RowOf(r)' = row /\ Committed(r)' /\ ~Released(r)'
      BY <2>1, <2>3, <2>8 DEF RowOf, Committed, Released
    <3>5. \A q \in db : Expired(q)' \/ q \in db'
      BY <1>0, <2>1, <2>3, <3>1, <3>2 DEF Expired, Evict
    <3>. HIDE DEF row
    <3>6. IdsInv'
      BY <1>0, <2>1, <2>2, <2>3, <3>1, <3>2, <3>3 DEF IdsInv, PendingInsert
    <3>7. ClockInv'
      BY <1>0, <2>1, <3>2, <3>3 DEF ClockInv
    <3>8. RowsInClockOrder'
      BY <1>0, <2>3, <3>1, <3>2, <3>3 DEF RowsInClockOrder
    <3>9. TableMatchesCallers'
      <4>1. \A q \in db' : \E x \in Requests : Committed(x)' /\ rowId'[x] = q.id
        BY <1>0, <2>1, <2>7, <2>8, <3>1, <3>2, <3>3, <3>4
           DEF TableMatchesCallers, Committed
      <4>2. ASSUME NEW x \in Requests, Committed(x)', x # r
            PROVE  LET mine == {q \in db' : q.id = rowId'[x]}
                   IN  IF Released(x)' THEN mine = {}
                       ELSE mine \subseteq {RowOf(x)'} /\ (Expired(RowOf(x))' \/ RowOf(x)' \in db')
        <5>1. {q \in db' : q.id = rowId'[x]} \subseteq {q \in db : q.id = rowId[x]}
          BY <1>0, <2>1, <2>2, <3>1, <3>2, <3>3, <4>2
        <5>2. Expired(RowOf(x)) <=> Expired(RowOf(x))'
          BY <2>1, <2>7, <4>2 DEF Expired
        <5>. QED
          BY <1>0, <2>7, <3>5, <4>2, <5>1, <5>2 DEF TableMatchesCallers
      <4>3. {q \in db' : q.id = rowId'[r]} = {row} /\ row \in db'
        BY <1>0, <2>1, <2>3, <3>1, <3>2, <3>3
      <4>. QED
        BY <3>4, <4>1, <4>2, <4>3 DEF TableMatchesCallers
    <3>. QED
      BY <2>4, <2>5, <2>6, <3>6, <3>7, <3>8, <3>9 DEF TableInv
  <2>9. CASE op[r] = "reconcile"
    <3>. DEFINE new == [row EXCEPT !.tokens = actual[r]]
    <3>1. db' = WithTokens(db, rowId[r], actual[r]) /\ seq' = seq
      BY <1>0, <1>13, <2>1, <2>9 DEF Commit, ViewInv
    <3>2. Committed(r) /\ ~Released(r) /\ Committed(r)' /\ ~Released(r)' /\ RowOf(r)' = new
      BY <2>1, <2>3, <2>9 DEF Committed, Released, RowOf
    <3>3. row.id = rowId[r] /\ new.id = rowId[r] /\ new.ts = row.ts
      BY DEF RowOf
    <3>4. \A q \in db : q.id = rowId[r] => q = row
      BY <1>0, <3>2 DEF TableMatchesCallers
    <3>. HIDE DEF row, new
    <3>5. \A q \in db' : \/ q = new /\ row \in db
                         \/ q \in db /\ q.id # rowId[r]
      BY <3>1, <3>4 DEF WithTokens, new
    <3>6. /\ \A q \in db : q.id # rowId[r] => q \in db'
          /\ row \in db => new \in db'
      BY <3>1, <3>3 DEF WithTokens, new
    <3>7. IdsInv' /\ ClockInv'
      BY <1>0, <2>1, <2>2, <2>3, <3>1, <3>3, <3>5, <2>9 DEF IdsInv, ClockInv, PendingInsert
    <3>8. RowsInClockOrder'
      BY <1>0, <3>3, <3>5 DEF RowsInClockOrder
    <3>9. TableMatchesCallers'
      <4>1. \A q \in db' : \E x \in Requests : Committed(x)' /\ rowId'[x] = q.id
        BY <1>0, <2>1, <2>7, <3>2, <3>3, <3>5 DEF TableMatchesCallers
      <4>2. ASSUME NEW x \in Requests, Committed(x)', x # r
            PROVE  LET mine == {q \in db' : q.id = rowId'[x]}
                   IN  IF Released(x)' THEN mine = {}
                       ELSE mine \subseteq {RowOf(x)'} /\ (Expired(RowOf(x))' \/ RowOf(x)' \in db')
        <5>1. rowId[x] # rowId[r]
          BY <1>0, <2>3, <2>7, <4>2 DEF RowIdsNeverReused, Committed
        <5>2. {q \in db' : q.id = rowId'[x]} = {q \in db : q.id = rowId[x]}
          BY <2>1, <3>3, <3>5, <3>6, <5>1
        <5>3. Expired(RowOf(x)) <=> Expired(RowOf(x))'
          BY <2>1, <2>7, <4>2 DEF Expired
        <5>4. RowOf(x).id = rowId[x]
          BY DEF RowOf
        <5>. QED
          BY <1>0, <2>7, <3>6, <4>2, <5>1, <5>2, <5>3, <5>4 DEF TableMatchesCallers
      <4>3. {q \in db' : q.id = rowId'[r]} \subseteq {new}
        BY <2>1, <3>5
      <4>4. new.ts < clock' - Window \/ new \in db'
        BY <1>0, <2>1, <3>2, <3>3, <3>6 DEF TableMatchesCallers, Expired, row
      <4>. QED
        BY <3>2, <4>1, <4>2, <4>3, <4>4 DEF TableMatchesCallers, Expired
    <3>. QED
      BY <2>4, <2>5, <2>6, <3>7, <3>8, <3>9 DEF TableInv
  <2>10. CASE op[r] = "release"
    <3>1. db' = Without(db, rowId[r]) /\ seq' = seq
      BY <1>0, <1>13, <2>1, <2>10 DEF Commit, ViewInv
    <3>2. Committed(r) /\ Released(r)'
      BY <2>1, <2>3, <2>10 DEF Committed, Released
    <3>3. \A q : q \in db' <=> q \in db /\ q.id # rowId[r]
      BY <3>1 DEF Without
    <3>4. IdsInv' /\ ClockInv' /\ RowsInClockOrder'
      BY <1>0, <2>1, <2>2, <2>10, <3>1, <3>3
         DEF IdsInv, ClockInv, RowsInClockOrder, PendingInsert
    <3>5. TableMatchesCallers'
      <4>1. \A q \in db' : \E x \in Requests : Committed(x)' /\ rowId'[x] = q.id
        BY <1>0, <2>1, <2>7, <3>3 DEF TableMatchesCallers
      <4>2. ASSUME NEW x \in Requests, Committed(x)', x # r
            PROVE  LET mine == {q \in db' : q.id = rowId'[x]}
                   IN  IF Released(x)' THEN mine = {}
                       ELSE mine \subseteq {RowOf(x)'} /\ (Expired(RowOf(x))' \/ RowOf(x)' \in db')
        <5>1. rowId[x] # rowId[r]
          BY <1>0, <2>3, <2>7, <4>2 DEF RowIdsNeverReused, Committed
        <5>2. {q \in db' : q.id = rowId'[x]} = {q \in db : q.id = rowId[x]}
          BY <2>1, <3>3, <5>1
        <5>3. Expired(RowOf(x)) <=> Expired(RowOf(x))'
          BY <2>1, <2>7, <4>2 DEF Expired
        <5>4. RowOf(x).id = rowId[x]
          BY DEF RowOf
        <5>. QED
          BY <1>0, <2>7, <3>3, <4>2, <5>1, <5>2, <5>3, <5>4 DEF TableMatchesCallers
      <4>3. {q \in db' : q.id = rowId'[r]} = {}
        BY <2>1, <3>3
      <4>. QED
        BY <3>2, <4>1, <4>2, <4>3 DEF TableMatchesCallers
    <3>. QED
      BY <2>4, <2>5, <2>6, <3>4, <3>5 DEF TableInv
  <2>. QED
    BY <2>3, <2>8, <2>9, <2>10
<1>14. ASSUME NEW r \in Requests, Fault(r)
      PROVE  TableInv'
  <2>1. LockInv' /\ RowIdInv'
    BY <1>0, <1>14 DEF Fault, LockInv, RowIdInv, Reserved
  <2>2. IdsInv' /\ RowIdsNeverReused'
    BY <1>0, <1>14 DEF Fault, LockInv, RowIdInv, Reserved, IdsInv, RowIdsNeverReused, PendingInsert
  <2>3. ViewInv' /\ DecisionInv'
    BY <1>0, <1>14 DEF Fault, LockInv, RowIdInv, Reserved, ViewInv, DecisionInv, PendingInsert, RowOf
  <2>4. ClockInv' /\ RowsInClockOrder'
    BY <1>0, <1>14 DEF Fault, ClockInv, RowsInClockOrder
  <2>5. TableMatchesCallers'
    BY <1>0, <1>14 DEF Fault, RowIdInv, Reserved, TableMatchesCallers, Committed, Released, RowOf, Expired
  <2>. QED
    BY <2>1, <2>2, <2>3, <2>4, <2>5 DEF TableInv
<1>15. CASE Tick
  <2>1. LockInv' /\ RowIdInv'
    BY <1>0, <1>15 DEF Tick, LockInv, RowIdInv, Reserved
  <2>2. IdsInv' /\ RowIdsNeverReused'
    BY <1>0, <1>15 DEF Tick, LockInv, RowIdInv, Reserved, IdsInv, RowIdsNeverReused, PendingInsert
  <2>3. ViewInv' /\ DecisionInv'
    BY <1>0, <1>15 DEF Tick, LockInv, RowIdInv, Reserved, ViewInv, DecisionInv, PendingInsert, RowOf
  <2>4. ClockInv' /\ RowsInClockOrder'
    <3>1. clock' = clock + 1 /\ UNCHANGED <<db, now>>
      BY <1>15 DEF Tick
    <3>2. \A q \in db : q.ts \in Nat
      BY <1>0 DEF Row
    <3>3. RowsInClockOrder'
      BY <1>0, <3>1 DEF RowsInClockOrder
    <3>4. ClockInv'
      BY <1>0, <3>1, <3>2 DEF ClockInv
    <3>. QED
      BY <3>3, <3>4
  <2>5. TableMatchesCallers'
    BY <1>0, <1>15 DEF Tick, RowIdInv, Reserved, TableMatchesCallers, Committed, Released, RowOf, Expired
  <2>. QED
    BY <2>1, <2>2, <2>3, <2>4, <2>5 DEF TableInv
<1>16. CASE Crash
  <2>1. LockInv' /\ RowIdInv'
    BY <1>0, <1>16 DEF Crash, LockInv, RowIdInv, Reserved, Unanswered, Answered, Settled
  <2>2. IdsInv' /\ RowIdsNeverReused'
    BY <1>0, <1>16 DEF Crash, LockInv, RowIdInv, Reserved, IdsInv, RowIdsNeverReused, PendingInsert, Unanswered, Answered, Settled
  <2>3. ViewInv' /\ DecisionInv'
    BY <1>0, <1>16 DEF Crash, LockInv, RowIdInv, Reserved, ViewInv, DecisionInv, PendingInsert, RowOf, Unanswered, Answered, Settled
  <2>4. ClockInv' /\ RowsInClockOrder'
    BY <1>0, <1>16 DEF Crash, ClockInv, RowsInClockOrder, Unanswered, Answered, Settled
  <2>5. TableMatchesCallers'
    BY <1>0, <1>16 DEF Crash, RowIdInv, Reserved, TableMatchesCallers, Committed, Released, RowOf, Expired, Unanswered, Answered, Settled
  <2>. QED
    BY <2>1, <2>2, <2>3, <2>4, <2>5 DEF TableInv
<1>17. CASE UNCHANGED vars
  <2>1. LockInv' /\ RowIdInv'
    BY <1>0, <1>17 DEF vars, LockInv, RowIdInv, Reserved
  <2>2. IdsInv' /\ RowIdsNeverReused'
    BY <1>0, <1>17 DEF vars, LockInv, RowIdInv, Reserved, IdsInv, RowIdsNeverReused, PendingInsert
  <2>3. ViewInv' /\ DecisionInv'
    BY <1>0, <1>17 DEF vars, LockInv, RowIdInv, Reserved, ViewInv, DecisionInv, PendingInsert, RowOf
  <2>4. ClockInv' /\ RowsInClockOrder'
    BY <1>0, <1>17 DEF vars, ClockInv, RowsInClockOrder
  <2>5. TableMatchesCallers'
    BY <1>0, <1>17 DEF vars, RowIdInv, Reserved, TableMatchesCallers, Committed, Released, RowOf, Expired
  <2>. QED
    BY <2>1, <2>2, <2>3, <2>4, <2>5 DEF TableInv
<1>. QED
  BY <1>1, <1>2, <1>3, <1>4, <1>5, <1>6, <1>7, <1>8, <1>9, <1>10, <1>11, <1>12, <1>13, <1>14, <1>15, <1>16, <1>17
     DEF Next, Caller, Worker, Terminating

(* Only a COMMIT writes the table. *)
LEMMA OnlyCommitWrites ==
  ASSUME [Next]_vars, db' # db
  PROVE  \E r \in Requests : Commit(r)
BY DEF Next, Caller, Worker, Terminating, vars, table, CallReserve, CallReconcile, CallRelease,
       DropQueued, Start, BeginImmediate, BusyTimeout, Admit, Refuse, RaiseRateLimitExceeded,
       UpdateRow, DeleteRow, Fault, Tick, Crash

(* The three things a COMMIT can install. *)
LEMMA ViewInstalls ==
  ASSUME TypeOK, RowIdInv, ViewInv, NEW r \in Requests, Commit(r)
  PROVE  \/ PendingInsert(r) /\ db' = Evict(db, now[r] - Window) \cup {RowOf(r)}
         \/ op[r] = "reconcile" /\ db' = WithTokens(db, rowId[r], actual[r])
         \/ op[r] = "release" /\ db' = Without(db, rowId[r])
BY DEF TypeOK, Commit, ViewInv, RowIdInv, PendingInsert

LEMMA CommitInstalls ==
  ASSUME TableInv, NEW r \in Requests, Commit(r)
  PROVE  \/ PendingInsert(r) /\ db' = Evict(db, now[r] - Window) \cup {RowOf(r)}
         \/ op[r] = "reconcile" /\ db' = WithTokens(db, rowId[r], actual[r])
         \/ op[r] = "release" /\ db' = Without(db, rowId[r])
BY ViewInstalls DEF TableInv

-----------------------------------------------------------------------------
(* What retry_after rests on. *)

(* PRIMARY KEY: an id names one row. *)
LEMMA RowsById ==
  ASSUME TableInv, NEW p \in db, NEW q \in db, p.id = q.id
  PROVE  p = q
BY DEF TableInv, TableMatchesCallers

(* Rows keep their tenant and timestamp, and a new one has a new id. *)
LEMMA RowsOnlyLeave ==
  ASSUME TableInv, NEW r \in Requests, Commit(r), NEW q \in db'
  PROVE  \/ PendingInsert(r) /\ q = RowOf(r)
         \/ \E p \in db : p.id = q.id /\ p.tenant = q.tenant /\ p.ts = q.ts
<1>1. db \in SUBSET Row
  BY DEF TableInv, TypeOK
<1>2. CASE PendingInsert(r) /\ db' = Evict(db, now[r] - Window) \cup {RowOf(r)}
  BY <1>2 DEF Evict
<1>3. CASE op[r] = "reconcile" /\ db' = WithTokens(db, rowId[r], actual[r])
  <2>1. PICK p \in db : q = IF p.id = rowId[r] THEN [p EXCEPT !.tokens = actual[r]] ELSE p
    BY <1>3 DEF WithTokens
  <2>. QED
    BY <1>1, <2>1 DEF Row
<1>4. CASE op[r] = "release" /\ db' = Without(db, rowId[r])
  BY <1>4 DEF Without
<1>. QED
  BY <1>2, <1>3, <1>4, CommitInstalls

(* A commit leaves what is known of a refused request true. *)
LEMMA CommitKeepsRefusals ==
  ASSUME TableInv, RefusalInv, NEW r \in Requests, Commit(r)
  PROVE  RefusalInv'
<1>. USE ConstantsAssumption DEF ConstantsAssumption
<1>1. TypeOK
  BY DEF TableInv
<1>2. /\ UNCHANGED <<now, retry, oldest>>
      /\ pc' = [pc EXCEPT ![r] = "ok"]
      /\ seq' = IF op[r] = "reserve" THEN rowId[r] ELSE seq
      /\ PendingInsert(r) => rowId[r] = seq + 1
      /\ op[r] = "reserve" => PendingInsert(r)
  BY DEF Commit, answers, TableInv, IdsInv, PendingInsert
<1>3. seq' \in Nat /\ seq <= seq' /\ (PendingInsert(r) => seq' = seq + 1)
  BY <1>1, <1>2 DEF TypeOK, PendingInsert
<1>4. \A q \in db' : \/ q.id = seq + 1
                     \/ \E p \in db : p.id = q.id /\ p.tenant = q.tenant /\ p.ts = q.ts
  BY <1>2, RowsOnlyLeave DEF RowOf
<1>5. ASSUME NEW x \in Requests
      PROVE  /\ oldest'[x] = oldest[x] /\ oldest[x] \in Nat
             /\ oldest[x] <= seq /\ oldest'[x] <= seq'
             /\ pc'[x] \in {"rolledback", "denied"} => pc'[x] = pc[x]
  BY <1>1, <1>2, <1>3 DEF TypeOK, RefusalInv
<1>6. ASSUME NEW x \in Requests, pc'[x] = "rolledback", NEW q \in db'
      PROVE  LET counts == q.tenant = TenantOf[x] /\ q.ts >= now'[x] - Window
             IN  (counts => oldest'[x] <= q.id) /\ (q.id = oldest'[x] => counts)
  BY <1>1, <1>2, <1>4, <1>5, <1>6 DEF RefusalInv, TypeOK
<1>7. ASSUME NEW x \in Requests, pc'[x] = "denied", NEW q \in db', q.id = oldest'[x]
      PROVE  q.ts + Window <= now'[x] + retry'[x]
  BY <1>1, <1>2, <1>4, <1>5, <1>7 DEF RefusalInv, TypeOK
<1>. QED
  BY <1>5, <1>6, <1>7 DEF RefusalInv

LEMMA RetryAfterCovers ==
  ASSUME TableInv, NEW r \in Requests, NEW q \in db,
         q.tenant = TenantOf[r], q.ts >= now[r] - Window,
         \A p \in db : p.tenant = q.tenant /\ p.ts >= now[r] - Window => q.id <= p.id
  PROVE  q.ts + Window <= now[r] + RetryAfter(db, TenantOf[r], now[r] - Window, now[r])
<1>. USE ConstantsAssumption DEF ConstantsAssumption
<1>. DEFINE ages == Timestamps(db, TenantOf[r], now[r] - Window)
<1>1. db \in SUBSET Row /\ now[r] \in Nat /\ Window \in Nat
  BY DEF TableInv, TypeOK
<1>2. ages \in SUBSET Nat /\ q.ts \in ages
  BY <1>1 DEF Timestamps, Counted, Row
<1>3. Min(ages) \in ages /\ Min(ages) \in Nat
  BY <1>2, MinNat
<1>4. PICK p \in db : p.ts = Min(ages) /\ p.tenant = q.tenant /\ p.ts >= now[r] - Window
  BY <1>3 DEF Timestamps, Counted
<1>5. q.ts <= p.ts
  <2>1. q.id \in Nat /\ p.id \in Nat /\ q.ts \in Nat /\ p.ts \in Nat
    BY <1>1 DEF Row
  <2>2. q.id < p.id => q.ts <= p.ts
    BY DEF TableInv, RowsInClockOrder
  <2>3. q.id = p.id => q = p
    BY RowsById
  <2>. QED
    BY <1>4, <2>1, <2>2, <2>3
<1>6. \A n \in Int : n <= Max({0, n})
  <2>. SUFFICES ASSUME NEW n \in Int
                PROVE  n <= Max({0, n})
    OBVIOUS
  <2>1. CASE n <= 0
    BY <2>1 DEF Max
  <2>2. CASE n > 0
    BY <2>2 DEF Max
  <2>. QED
    BY <2>1, <2>2
<1>7. RetryAfter(db, TenantOf[r], now[r] - Window, now[r]) = Max({0, Min(ages) + Window - now[r]})
  BY <1>2 DEF RetryAfter
<1>8. Max({0, Min(ages) + Window - now[r]}) \in Int
  BY <1>1, <1>3, MaxZero
<1>. QED
  BY <1>1, <1>2, <1>3, <1>4, <1>5, <1>6, <1>7, <1>8

LEMMA RefusalInvInit == Init => RefusalInv
BY DEF Init, RefusalInv

LEMMA RefusalInvStep == TableInv /\ RefusalInv /\ [Next]_vars => RefusalInv'
<1>. USE ConstantsAssumption DEF ConstantsAssumption
<1>. SUFFICES ASSUME TableInv, RefusalInv, [Next]_vars
              PROVE  RefusalInv'
  OBVIOUS
<1>1. TypeOK
  BY DEF TableInv
<1>. USE DEF table, txn, answers
<1>2. ASSUME NEW r \in Requests, Refuse(r)
      PROVE  RefusalInv'
  <2>. DEFINE cutoff == clock - Window
              counted == {q.id : q \in Counted(Evict(view[r], cutoff), TenantOf[r], cutoff)}
  <2>1. /\ view[r] = db
        /\ oldest' = [oldest EXCEPT ![r] = IF counted = {} THEN 0 ELSE Min(counted)]
        /\ now' = [now EXCEPT ![r] = clock]
        /\ pc' = [pc EXCEPT ![r] = "rolledback"]
        /\ UNCHANGED <<db, seq, retry>>
    BY <1>2 DEF Refuse, TableInv, ViewInv
  <2>2. /\ db \in SUBSET Row /\ clock \in Nat /\ seq \in Nat
        /\ \A q \in db : q.id \in 1..seq
    BY <1>1 DEF TypeOK, TableInv, IdsInv
  <2>3. counted = {q.id : q \in {p \in db : p.tenant = TenantOf[r] /\ p.ts >= cutoff}}
    BY <2>1, <2>2 DEF Counted, Evict, Row
  <2>. HIDE DEF counted
  <2>4. counted \in SUBSET Nat
    BY <2>2, <2>3
  <2>5. oldest'[r] \in 0..seq
    <3>1. CASE counted = {}
      BY <1>1, <2>1, <2>2, <3>1 DEF TypeOK
    <3>2. CASE counted # {}
      <4>1. Min(counted) \in counted
        BY <2>4, <3>2, MinNat
      <4>2. counted \subseteq 0..seq
        BY <2>2, <2>3
      <4>. QED
        BY <1>1, <2>1, <3>2, <4>1, <4>2 DEF TypeOK
    <3>. QED
      BY <3>1, <3>2
  <2>6. ASSUME NEW q \in db
        PROVE  LET counts == q.tenant = TenantOf[r] /\ q.ts >= cutoff
               IN  (counts => oldest'[r] <= q.id) /\ (q.id = oldest'[r] => counts)
    <3>1. CASE counted = {}
      <4>1. oldest'[r] = 0
        BY <1>1, <2>1, <3>1 DEF TypeOK
      <4>2. q.id > 0
        BY <2>2
      <4>. QED
        BY <2>2, <4>1, <4>2
    <3>2. CASE counted # {}
      <4>1. oldest'[r] \in counted /\ \A n \in counted : oldest'[r] <= n
        <5>1. Min(counted) \in counted /\ \A n \in counted : Min(counted) <= n
          BY <2>4, <3>2, MinNat
        <5>. QED
          BY <1>1, <2>1, <3>2, <5>1 DEF TypeOK
      <4>2. PICK p \in db : p.id = oldest'[r] /\ p.tenant = TenantOf[r] /\ p.ts >= cutoff
        BY <2>3, <4>1
      <4>3. q.id = p.id => q = p
        BY <2>6, RowsById
      <4>4. q.tenant = TenantOf[r] /\ q.ts >= cutoff => q.id \in counted
        BY <2>3
      <4>. HIDE DEF cutoff
      <4>. QED
        BY <4>1, <4>2, <4>3, <4>4
    <3>. QED
      BY <3>1, <3>2
  <2>. HIDE DEF cutoff
  <2>7. now'[r] = clock /\ cutoff = now'[r] - Window
    BY <1>1, <2>1 DEF TypeOK, cutoff
  <2>. QED
    BY <1>1, <2>1, <2>2, <2>5, <2>6, <2>7 DEF RefusalInv, TypeOK
<1>3. ASSUME NEW r \in Requests, RaiseRateLimitExceeded(r)
      PROVE  RefusalInv'
  <2>1. /\ pc[r] = "rolledback"
        /\ retry' = [retry EXCEPT ![r] = RetryAfter(db, TenantOf[r], now[r] - Window, now[r])]
        /\ pc' = [pc EXCEPT ![r] = "denied"]
        /\ UNCHANGED <<db, seq, now, oldest>>
    BY <1>3 DEF RaiseRateLimitExceeded
  <2>2. ASSUME NEW q \in db, q.id = oldest[r]
        PROVE  q.ts + Window <= now[r] + RetryAfter(db, TenantOf[r], now[r] - Window, now[r])
    BY <2>1, <2>2, RetryAfterCovers DEF RefusalInv
  <2>. QED
    BY <1>1, <2>1, <2>2 DEF RefusalInv, TypeOK
<1>4. ASSUME NEW r \in Requests, Commit(r)
      PROVE  RefusalInv'
  BY <1>4, CommitKeepsRefusals
<1>5. ASSUME NEW r \in Requests, Caller(r) \/ Start(r) \/ BeginImmediate(r) \/ BusyTimeout(r)
                                 \/ UpdateRow(r) \/ DeleteRow(r) \/ Fault(r)
      PROVE  RefusalInv'
  <2>1. /\ UNCHANGED <<db, seq, now, retry, oldest>>
        /\ \A x \in Requests : pc'[x] \in {"rolledback", "denied"} => pc'[x] = pc[x]
    BY <1>1, <1>5 DEF TypeOK, Caller, CallReserve, CallReconcile, CallRelease, DropQueued, Start,
       BeginImmediate, BusyTimeout, UpdateRow, DeleteRow, Fault
  <2>. QED
    BY <2>1 DEF RefusalInv
<1>6. ASSUME NEW r \in Requests, Admit(r)
      PROVE  RefusalInv'
  <2>1. /\ UNCHANGED <<db, seq, retry, oldest>>
        /\ pc' = [pc EXCEPT ![r] = "commit"]
        /\ now' = [now EXCEPT ![r] = clock]
    BY <1>6 DEF Admit
  <2>. QED
    BY <1>1, <2>1 DEF RefusalInv, TypeOK
<1>7. CASE Tick \/ UNCHANGED vars
  BY <1>7 DEF Tick, vars, RefusalInv
<1>8. CASE Crash
  <2>1. /\ UNCHANGED <<db, seq, now, retry, oldest>>
        /\ \A x \in Requests : pc'[x] \in {"rolledback", "denied"} => pc'[x] = pc[x]
    BY <1>8 DEF Crash
  <2>. QED
    BY <2>1 DEF RefusalInv
<1>. QED
  BY <1>2, <1>3, <1>4, <1>5, <1>6, <1>7, <1>8 DEF Next, Worker, Terminating

-----------------------------------------------------------------------------
(* The inductive invariant holds in every reachable state, whatever the     *)
(* number of requests, tenants and threads, the limit and the window.       *)
THEOREM Inductive == Spec => []IndInv
BY Typing, TableInvInit, TableInvStep, RefusalInvInit, RefusalInvStep, PTL DEF Spec, IndInv

(* Callers and table agree in every reachable state: no update of a         *)
(* settlement is lost, no released row returns, no row is anybody else's.   *)
THEOREM TableFaithful == Spec => []TableMatchesCallers
<1>1. IndInv => TableMatchesCallers
  BY DEF IndInv, TableInv
<1>. QED
  BY Inductive, <1>1, PTL

(* AUTOINCREMENT's promise, for any number of evictions and releases.       *)
THEOREM RowIdsUnique == Spec => []RowIdsNeverReused
<1>1. IndInv => RowIdsNeverReused
  BY DEF IndInv, TableInv
<1>. QED
  BY Inductive, <1>1, PTL

(* Ids and timestamps order the rows alike.                                 *)
THEOREM ClockOrder == Spec => []RowsInClockOrder
<1>1. IndInv => RowsInClockOrder
  BY DEF IndInv, TableInv
<1>. QED
  BY Inductive, <1>1, PTL

(* A caller that waits longer than the retry_after it was told never finds  *)
(* the oldest row that stood in its way still counted, although the value   *)
(* was computed after the ROLLBACK from a table others may have changed.    *)
THEOREM RetryAfterIsEnough == Spec => []RetryAfterFrees
<1>1. IndInv => RetryAfterFrees
  <2>. SUFFICES ASSUME IndInv, NEW r \in Requests, pc[r] = "denied", clock > now[r] + retry[r],
                       NEW q \in db, q.id = oldest[r]
                PROVE  Expired(q)
    BY DEF RetryAfterFrees, StillCounted
  <2>1. q.ts \in Nat /\ now[r] \in Nat /\ clock \in Nat /\ retry[r] \in Int /\ Window \in Nat
    BY ConstantsAssumption DEF ConstantsAssumption, IndInv, TableInv, TypeOK, Row
  <2>2. q.ts + Window <= now[r] + retry[r]
    BY DEF IndInv, RefusalInv
  <2>. QED
    BY <2>1, <2>2 DEF Expired
<1>. QED
  BY Inductive, <1>1, PTL

-----------------------------------------------------------------------------
(* What a step may do to the table. *)

(* No interleaving of reservations, settlements, faults and crashes ever    *)
(* commits a reservation that does not fit: what _reserve_sync decided is   *)
(* still true when its COMMIT lands.                                        *)
THEOREM AdmissionsAlwaysFit == Spec => AdmissionsFit
<1>. DEFINE Fit == \A q \in db' : (\A p \in db : p.id # q.id)
                     => Used(db, q.tenant, q.ts - Window) + q.tokens <= Limit
<1>1. IndInv /\ [Next]_vars => [Fit]_vars
  <2>. SUFFICES ASSUME IndInv, [Next]_vars, db' # db
                PROVE  Fit
    BY DEF vars
  <2>1. PICK r \in Requests : Commit(r)
    BY OnlyCommitWrites
  <2>2. CASE PendingInsert(r) /\ db' = Evict(db, now[r] - Window) \cup {RowOf(r)}
    <3>. SUFFICES ASSUME NEW q \in db', \A p \in db : p.id # q.id
                  PROVE  Used(db, q.tenant, q.ts - Window) + q.tokens <= Limit
      OBVIOUS
    <3>1. q = RowOf(r)
      BY <2>2 DEF Evict
    <3>2. q.tenant = TenantOf[r] /\ q.ts = now[r] /\ q.tokens = est[r]
      BY <2>2, <3>1 DEF RowOf, PendingInsert
    <3>. QED
      BY <2>2, <3>2 DEF IndInv, TableInv, DecisionInv
  <2>3. CASE op[r] = "reconcile" /\ db' = WithTokens(db, rowId[r], actual[r])
    <3>1. \A q \in db : (IF q.id = rowId[r] THEN [q EXCEPT !.tokens = actual[r]] ELSE q).id = q.id
      BY DEF IndInv, TableInv, TypeOK, Row
    <3>2. \A q \in db' : \E p \in db : p.id = q.id
      BY <2>3, <3>1 DEF WithTokens
    <3>. QED
      BY <3>2
  <2>4. CASE op[r] = "release" /\ db' = Without(db, rowId[r])
    BY <2>4 DEF Without
  <2>. QED
    BY <2>1, <2>2, <2>3, <2>4, CommitInstalls DEF IndInv
<1>. QED
  BY Inductive, <1>1, PTL DEF Spec, AdmissionsFit

(* No transaction, whosever it is, drops a row that still counts unless its *)
(* own request is releasing it.                                             *)
THEOREM BudgetNotForgotten == Spec => ForgetsOnlyExpiredOrReleased
<1>. DEFINE Forgets == \A q \in db : (\A p \in db' : p.id # q.id)
                         => Expired(q) \/ \E r \in Requests : op[r] = "release" /\ rowId[r] = q.id
<1>1. IndInv /\ [Next]_vars => [Forgets]_vars
  <2>. SUFFICES ASSUME IndInv, [Next]_vars, db' # db
                PROVE  Forgets
    BY DEF vars
  <2>1. PICK r \in Requests : Commit(r)
    BY OnlyCommitWrites
  <2>2. CASE PendingInsert(r) /\ db' = Evict(db, now[r] - Window) \cup {RowOf(r)}
    <3>. SUFFICES ASSUME NEW q \in db, \A p \in db' : p.id # q.id
                  PROVE  Expired(q)
      OBVIOUS
    <3>1. q.ts < now[r] - Window
      BY <2>2 DEF Evict
    <3>2. q.ts \in Nat /\ now[r] \in Nat /\ clock \in Nat /\ now[r] <= clock /\ Window \in Nat
      BY ConstantsAssumption DEF ConstantsAssumption, IndInv, TableInv, TypeOK, ClockInv, Row
    <3>. QED
      BY <3>1, <3>2 DEF Expired
  <2>3. CASE op[r] = "reconcile" /\ db' = WithTokens(db, rowId[r], actual[r])
    <3>1. \A q \in db : (IF q.id = rowId[r] THEN [q EXCEPT !.tokens = actual[r]] ELSE q).id = q.id
      BY DEF IndInv, TableInv, TypeOK, Row
    <3>. QED
      BY <2>3, <3>1 DEF WithTokens
  <2>4. CASE op[r] = "release" /\ db' = Without(db, rowId[r])
    BY <2>4 DEF Without
  <2>. QED
    BY <2>1, <2>2, <2>3, <2>4, CommitInstalls DEF IndInv
<1>. QED
  BY Inductive, <1>1, PTL DEF Spec, ForgetsOnlyExpiredOrReleased

-----------------------------------------------------------------------------
(* What WindowLedger promises, of the ledger TokenLimiter maps to: its own  *)
(* steps keep the bound.                                                   *)

ChargeType == [by: Requests, ts: Nat, reserved: Nat, tokens: Nat]

LedgerTypeOK ==
  /\ clock \in Nat
  /\ CountedCharges \subseteq ChargeType
  /\ PhaseOf \in [Requests -> {"new", "held", "closed"}]

(* A request has one charge, dated before its phase changed from "new" and *)
(* as large as its reservation until it is settled.                        *)
ChargeInv ==
  /\ \A c, d \in CountedCharges : c.by = d.by => c = d
  /\ \A c \in CountedCharges : /\ PhaseOf[c.by] # "new"
                               /\ PhaseOf[c.by] = "held" => c.tokens = c.reserved

LedgerInv ==
  /\ LedgerTypeOK
  /\ IsFiniteSet(CountedCharges)
  /\ ChargeInv
  /\ Ledger!WithinLimit

-----------------------------------------------------------------------------
(* The two sums, of terms that do not depend on the set. *)

TokenCount == [c \in ChargeType |-> c.tokens]
Capped == [c \in ChargeType |-> IF c.tokens < c.reserved THEN c.tokens ELSE c.reserved]

LEMMA TermsAreNumbers ==
  /\ \A c \in ChargeType : /\ TokenCount[c] \in Nat /\ TokenCount[c] \in Int
                           /\ Capped[c] \in Nat /\ Capped[c] \in Int
                           /\ Capped[c] <= TokenCount[c]
BY DEF ChargeType, TokenCount, Capped

LEMMA SumsOfTerms ==
  ASSUME NEW S \in SUBSET ChargeType, IsFiniteSet(S)
  PROVE  /\ Ledger!Tokens(S) = SumFunctionOnSet(TokenCount, S)
         /\ Ledger!TokensUpToReserved(S) = SumFunctionOnSet(Capped, S)
<1>. DEFINE f == [c \in S |-> c.tokens]
            g == [c \in S |-> IF c.tokens < c.reserved THEN c.tokens ELSE c.reserved]
<1>1. \A c \in S : f[c] = TokenCount[c] /\ g[c] = Capped[c]
  BY DEF TokenCount, Capped
<1>2. Ledger!Tokens(S) = SumFunctionOnSet(f, S) /\ Ledger!TokensUpToReserved(S) = SumFunctionOnSet(g, S)
  BY Zenon DEF Ledger!Tokens, Ledger!TokensUpToReserved, Ledger!SumFunction, Ledger!SumFunctionOnSet,
     Ledger!FoldFunctionOnSet, Ledger!MapThenFoldSet, SumFunctionOnSet, FoldFunctionOnSet,
     MapThenFoldSet
<1>. HIDE DEF f, g
<1>3. SumFunctionOnSet(f, S) = SumFunctionOnSet(TokenCount, S)
  BY <1>1, SumAgree
<1>4. SumFunctionOnSet(g, S) = SumFunctionOnSet(Capped, S)
  BY <1>1, SumAgree
<1>. QED
  BY <1>2, <1>3, <1>4

LEMMA CappedSums ==
  ASSUME NEW S \in SUBSET ChargeType, IsFiniteSet(S)
  PROVE  /\ SumFunctionOnSet(Capped, S) \in Nat
         /\ SumFunctionOnSet(TokenCount, S) \in Nat
         /\ SumFunctionOnSet(Capped, S) <= SumFunctionOnSet(TokenCount, S)
<1>1. \A c \in S : /\ TokenCount[c] \in Nat /\ TokenCount[c] \in Int
                   /\ Capped[c] \in Nat /\ Capped[c] \in Int /\ Capped[c] <= TokenCount[c]
  BY TermsAreNumbers
<1>2. SumFunctionOnSet(Capped, S) \in Nat /\ SumFunctionOnSet(TokenCount, S) \in Nat
  BY <1>1, SumType
<1>3. SumFunctionOnSet(Capped, S) <= SumFunctionOnSet(TokenCount, S)
  BY <1>1, SumBounds
<1>. QED
  BY <1>2, <1>3

LEMMA ChargesOfTenant ==
  ASSUME LedgerInv, NEW tenant
  PROVE  /\ Ledger!ChargesOf(tenant) \in SUBSET ChargeType
         /\ Ledger!ChargesOf(tenant) \in SUBSET CountedCharges
         /\ IsFiniteSet(Ledger!ChargesOf(tenant))
<1>1. Ledger!ChargesOf(tenant) \in SUBSET CountedCharges
  BY DEF Ledger!ChargesOf
<1>. QED
  BY <1>1, FS_Subset DEF LedgerInv, LedgerTypeOK

-----------------------------------------------------------------------------
(* One step per action. *)

LEMMA FewerCharges ==
  ASSUME LedgerInv, CountedCharges' \subseteq CountedCharges
  PROVE  Ledger!WithinLimit' /\ IsFiniteSet(CountedCharges')
<1>1. IsFiniteSet(CountedCharges')
  BY FS_Subset DEF LedgerInv
<1>2. ASSUME NEW tenant \in Tenants
      PROVE  Ledger!TokensUpToReserved(Ledger!ChargesOf(tenant)') <= Limit
  <2>. DEFINE S == Ledger!ChargesOf(tenant)
              T == Ledger!ChargesOf(tenant)'
  <2>1. S \in SUBSET ChargeType /\ IsFiniteSet(S) /\ T \in SUBSET S
    BY ChargesOfTenant DEF Ledger!ChargesOf
  <2>2. T \in SUBSET ChargeType /\ IsFiniteSet(T)
    BY <2>1, FS_Subset
  <2>3. Ledger!TokensUpToReserved(S) <= Limit
    BY DEF LedgerInv, Ledger!WithinLimit
  <2>. HIDE DEF S, T
  <2>4. \A c \in S : Capped[c] \in Nat
    BY <2>1, TermsAreNumbers
  <2>5. SumFunctionOnSet(Capped, T) <= SumFunctionOnSet(Capped, S)
    BY <2>1, <2>4, SumSubset
  <2>6. /\ Ledger!TokensUpToReserved(S) = SumFunctionOnSet(Capped, S)
        /\ Ledger!TokensUpToReserved(T) = SumFunctionOnSet(Capped, T)
        /\ SumFunctionOnSet(Capped, S) \in Nat /\ SumFunctionOnSet(Capped, T) \in Nat
    BY <2>1, <2>2, SumsOfTerms, CappedSums
  <2>7. Ledger!TokensUpToReserved(T) <= Limit
    BY <2>3, <2>5, <2>6, ConstantsAssumption DEF ConstantsAssumption
  <2>. QED
    BY <2>7 DEF T
<1>. QED
  BY <1>1, <1>2 DEF Ledger!WithinLimit, Ledger!TokensUpToReserved, Ledger!ChargesOf

(* What is admitted fits beside the tokens held, hence beside less. *)
LEMMA AdmitFits ==
  ASSUME LedgerInv, NEW r \in Requests, Ledger!Admit(r)
  PROVE  LedgerInv'
<1>. USE ConstantsAssumption DEF ConstantsAssumption
<1>1. PICK n \in Estimates, t \in 0..clock :
        /\ Ledger!Tokens(Ledger!ChargesOf(TenantOf[r])) + n <= Limit
        /\ CountedCharges' = CountedCharges \cup {c \in {Ledger!Charge(r, t, n)} : Ledger!StillCounts(c, clock)}
  BY DEF Ledger!Admit
<1>2. /\ PhaseOf[r] = "new" /\ PhaseOf' = [PhaseOf EXCEPT ![r] = "held"] /\ clock' = clock
      /\ n \in Nat /\ t \in Nat
  BY DEF Ledger!Admit, LedgerInv, LedgerTypeOK
<1>. DEFINE c == Ledger!Charge(r, t, n)
<1>3. /\ c \in ChargeType /\ c.by = r /\ c.tokens = n /\ c.reserved = n /\ Capped[c] = n
      /\ \A d \in CountedCharges : d.by # r
  <2>1. /\ c \in ChargeType /\ c.by = r /\ c.tokens = n /\ c.reserved = n
    BY <1>2 DEF Ledger!Charge, ChargeType
  <2>. HIDE DEF c
  <2>2. Capped[c] = n
    BY <1>2, <2>1 DEF Capped
  <2>3. \A d \in CountedCharges : d.by # r
    <3>1. \A d \in CountedCharges : PhaseOf[d.by] # "new"
      BY DEF LedgerInv, ChargeInv
    <3>2. PhaseOf[r] = "new"
      BY <1>2
    <3>. QED
      BY <3>1, <3>2, Zenon
  <2>. QED
    BY <2>1, <2>2, <2>3
<1>4. CountedCharges' = CountedCharges \/ CountedCharges' = CountedCharges \cup {c}
  BY <1>1
<1>. HIDE DEF c
<1>5. LedgerTypeOK'
  BY <1>2, <1>3, <1>4 DEF LedgerInv, LedgerTypeOK
<1>6. IsFiniteSet(CountedCharges')
  BY <1>4, FS_AddElement DEF LedgerInv
<1>7. ChargeInv'
  BY <1>2, <1>3, <1>4 DEF LedgerInv, LedgerTypeOK, ChargeInv
<1>8. ASSUME NEW tenant \in Tenants
      PROVE  Ledger!TokensUpToReserved(Ledger!ChargesOf(tenant)') <= Limit
  <2>. DEFINE S == Ledger!ChargesOf(tenant)
              T == Ledger!ChargesOf(tenant)'
  <2>1. S \in SUBSET ChargeType /\ IsFiniteSet(S) /\ Ledger!TokensUpToReserved(S) <= Limit
    BY ChargesOfTenant DEF LedgerInv, Ledger!WithinLimit
  <2>2. T = S \/ (T = S \cup {c} /\ tenant = TenantOf[r])
    BY <1>3, <1>4 DEF Ledger!ChargesOf
  <2>3. c \notin S
    BY <1>3 DEF Ledger!ChargesOf
  <2>4. tenant = TenantOf[r] => Ledger!Tokens(S) + n <= Limit
    BY <1>1
  <2>. HIDE DEF S, T
  <2>5. CASE T = S
    BY <2>1, <2>5 DEF T
  <2>6. CASE T = S \cup {c} /\ tenant = TenantOf[r]
    <3>1. T \in SUBSET ChargeType /\ \A d \in T : Capped[d] \in Int
      BY <1>3, <2>1, <2>6, TermsAreNumbers
    <3>2. /\ IsFiniteSet(T)
          /\ SumFunctionOnSet(Capped, T) = SumFunctionOnSet(Capped, S) + Capped[c]
      BY <2>1, <2>3, <2>6, <3>1, SumAdd
    <3>3. /\ SumFunctionOnSet(Capped, S) \in Nat /\ SumFunctionOnSet(TokenCount, S) \in Nat
          /\ SumFunctionOnSet(Capped, S) <= SumFunctionOnSet(TokenCount, S)
      BY <2>1, CappedSums
    <3>4. /\ Ledger!TokensUpToReserved(T) = SumFunctionOnSet(Capped, T)
          /\ Ledger!Tokens(S) = SumFunctionOnSet(TokenCount, S)
      BY <2>1, <3>1, <3>2, SumsOfTerms
    <3>5. Ledger!TokensUpToReserved(T) <= Limit
      BY <1>2, <1>3, <2>4, <2>6, <3>2, <3>3, <3>4
    <3>. QED
      BY <3>5 DEF T
  <2>. QED
    BY <2>2, <2>5, <2>6
<1>9. Ledger!WithinLimit'
  BY <1>8 DEF Ledger!WithinLimit, Ledger!TokensUpToReserved, Ledger!ChargesOf
<1>. QED
  BY <1>5, <1>6, <1>7, <1>9 DEF LedgerInv

(* A settlement changes no charge's share below its reservation for the     *)
(* worse.                                                                   *)
LEMMA SettleFits ==
  ASSUME Actuals \subseteq Nat, LedgerInv, NEW r \in Requests, Ledger!Settle(r)
  PROVE  LedgerInv'
<1>. USE ConstantsAssumption DEF ConstantsAssumption
<1>1. PICK n \in Actuals :
        CountedCharges' = {IF c.by = r THEN [c EXCEPT !.tokens = n] ELSE c : c \in CountedCharges}
  BY DEF Ledger!Settle
<1>2. /\ PhaseOf[r] = "held" /\ PhaseOf' = [PhaseOf EXCEPT ![r] = "closed"] /\ clock' = clock
      /\ n \in Nat
  BY DEF Ledger!Settle
<1>. DEFINE h == [c \in ChargeType |-> IF c.by = r THEN [c EXCEPT !.tokens = n] ELSE c]
            v == [c \in ChargeType |-> Capped[h[c]]]
<1>3. \A c \in ChargeType : /\ h[c] \in ChargeType /\ h[c].by = c.by
                            /\ h[c].reserved = c.reserved
                            /\ c.by # r => h[c] = c
                            /\ c.by = r => h[c].tokens = n
  BY <1>2 DEF ChargeType
<1>4. CountedCharges \in SUBSET ChargeType /\ CountedCharges' = {h[c] : c \in CountedCharges} /\ IsFiniteSet(CountedCharges)
  BY <1>1 DEF LedgerInv, LedgerTypeOK
<1>5. \A c \in CountedCharges : c.by = r => c.tokens = c.reserved
  BY <1>2 DEF LedgerInv, ChargeInv
<1>6. \A c \in CountedCharges : v[c] \in Int /\ v[c] <= Capped[c] /\ Capped[c] \in Int
  <2>. SUFFICES ASSUME NEW c \in CountedCharges
                PROVE  v[c] \in Int /\ v[c] <= Capped[c] /\ Capped[c] \in Int
    OBVIOUS
  <2>1. c \in ChargeType /\ h[c] \in ChargeType
    BY <1>3, <1>4
  <2>2. CASE c.by # r
    BY <1>3, <2>1, <2>2, TermsAreNumbers
  <2>3. CASE c.by = r
    <3>1. Capped[c] = c.reserved /\ h[c].reserved = c.reserved /\ c.reserved \in Nat
      BY <1>3, <1>5, <2>1, <2>3 DEF Capped, ChargeType
    <3>2. Capped[h[c]] \in Nat /\ Capped[h[c]] <= h[c].reserved
      BY <2>1 DEF Capped, ChargeType
    <3>. QED
      BY <2>1, <3>1, <3>2
  <2>. QED
    BY <2>2, <2>3
<1>7. \A c \in CountedCharges : v[c] = Capped[h[c]]
  BY <1>4
<1>. HIDE DEF h, v
<1>8. LedgerTypeOK'
  BY <1>2, <1>3, <1>4 DEF LedgerInv, LedgerTypeOK
<1>9. \A c, d \in CountedCharges : h[c] = h[d] => c = d
  BY <1>3, <1>4 DEF LedgerInv, ChargeInv
<1>10. IsFiniteSet(CountedCharges')
  <2>. DEFINE g == [c \in CountedCharges |-> h[c]]
  <2>1. g \in Surjection(CountedCharges, CountedCharges')
    BY <1>4 DEF Surjection
  <2>. QED
    BY <1>4, <2>1, FS_Surjection
<1>11. ChargeInv'
  BY <1>2, <1>3, <1>4 DEF LedgerInv, LedgerTypeOK, ChargeInv
<1>12. ASSUME NEW tenant \in Tenants
       PROVE  Ledger!TokensUpToReserved(Ledger!ChargesOf(tenant)') <= Limit
  <2>. DEFINE S == Ledger!ChargesOf(tenant)
              T == Ledger!ChargesOf(tenant)'
  <2>1. /\ S \in SUBSET ChargeType /\ S \in SUBSET CountedCharges /\ IsFiniteSet(S)
        /\ Ledger!TokensUpToReserved(S) <= Limit
    BY ChargesOfTenant DEF LedgerInv, Ledger!WithinLimit
  <2>2. T = {h[c] : c \in S}
    BY <1>3, <1>4 DEF Ledger!ChargesOf
  <2>3. T \in SUBSET ChargeType /\ T \in SUBSET CountedCharges'
    BY <1>3, <1>4, <2>1, <2>2
  <2>4. IsFiniteSet(T)
    BY <1>10, <2>3, FS_Subset
  <2>. HIDE DEF S, T
  <2>5. Renames(h, S, Capped, v)
    BY <1>6, <1>7, <1>9, <2>1 DEF Renames
  <2>6. SumFunctionOnSet(Capped, T) = SumFunctionOnSet(v, S)
    BY <2>1, <2>2, <2>5, SumRenamed
  <2>7. \A c \in S : v[c] \in Int /\ Capped[c] \in Int /\ v[c] <= Capped[c]
    BY <1>6, <2>1
  <2>8. SumFunctionOnSet(v, S) <= SumFunctionOnSet(Capped, S)
    BY <2>1, <2>7, SumBounds
  <2>9. /\ Ledger!TokensUpToReserved(S) = SumFunctionOnSet(Capped, S)
        /\ Ledger!TokensUpToReserved(T) = SumFunctionOnSet(Capped, T)
        /\ SumFunctionOnSet(Capped, S) \in Nat /\ SumFunctionOnSet(Capped, T) \in Nat
    BY <2>1, <2>3, <2>4, SumsOfTerms, CappedSums
  <2>10. Ledger!TokensUpToReserved(T) <= Limit
    BY <2>1, <2>6, <2>8, <2>9
  <2>. QED
    BY <2>10 DEF T
<1>13. Ledger!WithinLimit'
  BY <1>12 DEF Ledger!WithinLimit, Ledger!TokensUpToReserved, Ledger!ChargesOf
<1>. QED
  BY <1>8, <1>10, <1>11, <1>13 DEF LedgerInv

LEMMA LedgerInvInit == Ledger!Init => LedgerInv
<1>. SUFFICES ASSUME Ledger!Init
              PROVE  LedgerInv
  OBVIOUS
<1>1. LedgerTypeOK /\ IsFiniteSet(CountedCharges) /\ ChargeInv
  BY FS_EmptySet DEF Ledger!Init, LedgerTypeOK, ChargeInv
<1>2. \A tenant : Ledger!ChargesOf(tenant) = {}
  BY DEF Ledger!Init, Ledger!ChargesOf
<1>3. Ledger!TokensUpToReserved({}) = 0
  BY SumEmpty, SumsOfTerms, FS_EmptySet
<1>4. Ledger!WithinLimit
  BY <1>2, <1>3, ConstantsAssumption DEF ConstantsAssumption, Ledger!WithinLimit
<1>. QED
  BY <1>1, <1>4 DEF LedgerInv

LEMMA LedgerInvStep ==
  ASSUME Actuals \subseteq Nat
  PROVE  LedgerInv /\ [Ledger!Next]_(Ledger!vars) => LedgerInv'
<1>. SUFFICES ASSUME LedgerInv, [Ledger!Next]_(Ledger!vars)
              PROVE  LedgerInv'
  OBVIOUS
<1>1. CASE Ledger!Tick
  <2>1. CountedCharges' \subseteq CountedCharges /\ clock' = clock + 1 /\ UNCHANGED PhaseOf
    BY <1>1 DEF Ledger!Tick
  <2>2. LedgerTypeOK' /\ ChargeInv'
    BY <2>1 DEF LedgerInv, LedgerTypeOK, ChargeInv
  <2>. QED
    BY <2>1, <2>2, FewerCharges DEF LedgerInv
<1>2. ASSUME NEW r \in Requests, Ledger!Admit(r)
      PROVE  LedgerInv'
  BY <1>2, AdmitFits
<1>3. ASSUME NEW r \in Requests, Ledger!Settle(r)
      PROVE  LedgerInv'
  BY <1>3, SettleFits
<1>4. ASSUME NEW r \in Requests, Ledger!Withdraw(r)
      PROVE  LedgerInv'
  <2>1. /\ CountedCharges' = {c \in CountedCharges : c.by # r} /\ clock' = clock
        /\ PhaseOf' = [PhaseOf EXCEPT ![r] = "closed"]
    BY <1>4 DEF Ledger!Withdraw
  <2>2. LedgerTypeOK' /\ ChargeInv'
    BY <2>1 DEF LedgerInv, LedgerTypeOK, ChargeInv
  <2>. QED
    BY <2>1, <2>2, FewerCharges DEF LedgerInv
<1>5. CASE UNCHANGED (Ledger!vars)
  <2>1. CountedCharges' \subseteq CountedCharges /\ UNCHANGED <<clock, CountedCharges, PhaseOf>>
    BY <1>5 DEF Ledger!vars
  <2>2. LedgerTypeOK' /\ ChargeInv'
    BY <2>1 DEF LedgerInv, LedgerTypeOK, ChargeInv
  <2>. QED
    BY <2>1, <2>2, FewerCharges DEF LedgerInv
<1>. QED
  BY <1>1, <1>2, <1>3, <1>4, <1>5 DEF Ledger!Next

(* The ledger keeps its bound, whatever the order of admissions,            *)
(* settlements, withdrawals and the clock: once the overshoot of settlements*)
(* is set aside, what a tenant holds is within Limit.                       *)
THEOREM LedgerWithinLimit ==
  ASSUME Actuals \subseteq Nat
  PROVE  Ledger!Spec => []CountedWithinLimit
<1>1. Ledger!Init => LedgerInv
  BY LedgerInvInit
<1>2. LedgerInv /\ [Ledger!Next]_(Ledger!vars) => LedgerInv'
  BY LedgerInvStep
<1>3. LedgerInv => CountedWithinLimit
  BY DEF LedgerInv, CountedWithinLimit
<1>. QED
  BY <1>1, <1>2, <1>3, PTL DEF Ledger!Spec

-----------------------------------------------------------------------------
(***************************************************************************)
(* TokenLimiter implements WindowLedger, for every value of the constants: *)
(* the initial states map to its initial states and every step of a        *)
(* caller, a worker thread, the clock or a crash maps to one of its steps  *)
(* or to none.  What the ledger promises then holds of the limiter.        *)
(***************************************************************************)

-----------------------------------------------------------------------------
(* What was asked for is what callers may ask for, and tables are finite. *)

ArgumentsInv ==
  /\ IsFiniteSet(db)
  /\ \A r \in Requests : op[r] # "none" => est[r] \in Estimates
  /\ \A r \in Requests : op[r] = "reconcile" => actual[r] \in Actuals

LEMMA CommitKeepsFinite ==
  ASSUME TypeOK, RowIdInv, ViewInv, IsFiniteSet(db), NEW r \in Requests, Commit(r)
  PROVE  IsFiniteSet(db')
<1>1. CASE db' = Evict(db, now[r] - Window) \cup {RowOf(r)}
  <2>1. Evict(db, now[r] - Window) \in SUBSET db
    BY DEF Evict
  <2>. QED
    BY <1>1, <2>1, FS_Subset, FS_AddElement
<1>2. CASE db' = WithTokens(db, rowId[r], actual[r])
  <2>. DEFINE g == [q \in db |-> IF q.id = rowId[r] THEN [q EXCEPT !.tokens = actual[r]] ELSE q]
  <2>1. g \in Surjection(db, db')
    BY <1>2 DEF WithTokens, Surjection
  <2>. QED
    BY <2>1, FS_Surjection
<1>3. CASE db' = Without(db, rowId[r])
  BY <1>3, FS_Subset DEF Without
<1>. QED
  BY <1>1, <1>2, <1>3, ViewInstalls

LEMMA ArgumentsInvInit == Init => ArgumentsInv
BY FS_EmptySet DEF Init, ArgumentsInv

LEMMA ArgumentsInvStep == TableInv /\ ArgumentsInv /\ [Next]_vars => ArgumentsInv'
<1>. SUFFICES ASSUME TableInv, ArgumentsInv, [Next]_vars
              PROVE  ArgumentsInv'
  OBVIOUS
<1>. USE DEF table, txn, answers
<1>1. IsFiniteSet(db')
  <2>1. CASE db' = db
    BY <2>1 DEF ArgumentsInv
  <2>2. CASE db' # db
    BY <2>2, OnlyCommitWrites, CommitKeepsFinite DEF ArgumentsInv, TableInv
  <2>. QED
    BY <2>1, <2>2
<1>2. TypeOK
  BY DEF TableInv
<1>3. ASSUME NEW r \in Requests, Caller(r)
      PROVE  ArgumentsInv'
  <2>1. ASSUME NEW n \in Estimates, CallReserve(r, n)
        PROVE  ArgumentsInv'
    BY <1>1, <1>2, <2>1 DEF ArgumentsInv, TypeOK, CallReserve
  <2>2. ASSUME NEW n \in Actuals, CallReconcile(r, n)
        PROVE  ArgumentsInv'
    BY <1>1, <1>2, <2>2 DEF ArgumentsInv, TypeOK, CallReconcile, Reserved
  <2>3. CASE CallRelease(r)
    BY <1>1, <1>2, <2>3 DEF ArgumentsInv, TypeOK, CallRelease, Reserved
  <2>4. CASE DropQueued(r)
    BY <1>1, <2>4 DEF ArgumentsInv, DropQueued
  <2>. QED
    BY <1>3, <2>1, <2>2, <2>3, <2>4 DEF Caller
<1>4. CASE UNCHANGED <<op, est, actual>>
  BY <1>1, <1>4 DEF ArgumentsInv
<1>. QED
  BY <1>3, <1>4 DEF Next, Worker, Terminating, vars, Start, BeginImmediate, BusyTimeout, Admit,
     Refuse, RaiseRateLimitExceeded, UpdateRow, DeleteRow, Commit, Fault, Tick, Crash

-----------------------------------------------------------------------------
(* The mapping. *)

(* A charge is a row that counts, under the name of the request that holds *)
(* it; every row is held, and by one request.                              *)
LEMMA ChargeOfRow ==
  ASSUME NEW c
  PROVE  c \in CountedCharges <=>
           \E r \in Requests, q \in db : rowId[r] = q.id /\ ~Expired(q) /\ c = ChargeOf(r, q)
BY DEF CountedCharges, ChargesTo

LEMMA RowIsHeld ==
  ASSUME TableInv, NEW q \in db
  PROVE  \E r \in Requests : /\ rowId[r] = q.id
                             /\ TenantOf[r] = q.tenant
                             /\ Committed(r) /\ ~Released(r) /\ q = RowOf(r)
                             /\ \A x \in Requests : rowId[x] = q.id => x = r
<1>1. PICK r \in Requests : Committed(r) /\ rowId[r] = q.id
  BY DEF TableInv, TableMatchesCallers
<1>2. ~Released(r) /\ q = RowOf(r)
  BY <1>1 DEF TableInv, TableMatchesCallers
<1>3. \A x \in Requests : rowId[x] = q.id => x = r
  BY <1>1 DEF TableInv, RowIdsNeverReused, Committed
<1>. QED
  BY <1>1, <1>2, <1>3 DEF RowOf

(* A step that leaves rows and clock alone, and the holders' names on them. *)
LEMMA SameCharges ==
  ASSUME db' = db, clock' = clock,
         \A r \in Requests, q \in db :
           /\ rowId'[r] = q.id <=> rowId[r] = q.id
           /\ rowId[r] = q.id => est'[r] = est[r]
  PROVE  CountedCharges' = CountedCharges
<1>1. \A c : c \in CountedCharges' <=>
        \E r \in Requests, q \in db' : rowId'[r] = q.id /\ ~Expired(q)' /\ c = ChargeOf(r, q)'
  BY DEF CountedCharges, ChargesTo
<1>2. \A q : Expired(q)' <=> Expired(q)
  BY DEF Expired
<1>3. \A r \in Requests, q \in db : rowId[r] = q.id => ChargeOf(r, q)' = ChargeOf(r, q)
  BY DEF ChargeOf
<1>4. \A c : c \in CountedCharges' <=> c \in CountedCharges
  BY <1>1, <1>2, <1>3, ChargeOfRow
<1>. QED
  BY <1>4

LEMMA SamePhases ==
  ASSUME \A r \in Requests : /\ Committed(r)' <=> Committed(r)
                             /\ Committed(r) => (Settled(r)' <=> Settled(r))
  PROVE  PhaseOf' = PhaseOf
BY DEF PhaseOf

-----------------------------------------------------------------------------
(* The tokens in the ledger are the tokens in the table that still count. *)

Live(tenant) == {q \in db : q.tenant = tenant /\ ~Expired(q)}

LEMMA LiveCharges ==
  ASSUME TableInv, NEW tenant
  PROVE  /\ \A r \in Requests, q \in db : rowId[r] = q.id /\ ~Expired(q) /\ TenantOf[r] = tenant
              => q \in Live(tenant)
         /\ \A q \in Live(tenant) : \E r \in Requests :
              /\ rowId[r] = q.id /\ TenantOf[r] = tenant
              /\ \A x \in Requests : rowId[x] = q.id => x = r
         /\ \A p, q \in Live(tenant) : p.id = q.id => p = q
<1>1. \A q \in db : \E r \in Requests : /\ rowId[r] = q.id /\ TenantOf[r] = q.tenant
                                        /\ \A x \in Requests : rowId[x] = q.id => x = r
  BY RowIsHeld
<1>. QED
  BY <1>1, RowsById DEF Live

LEMMA TokensMatch ==
  ASSUME TableInv, IsFiniteSet(db), NEW tenant
  PROVE  Ledger!Tokens(Ledger!ChargesOf(tenant)) = SumTokens(Live(tenant))
<1>. DEFINE S == Live(tenant)
            T == Ledger!ChargesOf(tenant)
            h == [q \in S |-> ChargeOf(CHOOSE r \in Requests : rowId[r] = q.id, q)]
            v == [c \in T |-> c.tokens]
            w == [q \in S |-> q.tokens]
<1>1. \A r \in Requests, q \in S : rowId[r] = q.id =>
        h[q] = ChargeOf(r, q) /\ TenantOf[r] = tenant
  BY LiveCharges
<1>2. \A q \in S : \E r \in Requests :
        rowId[r] = q.id /\ h[q] = ChargeOf(r, q) /\ TenantOf[r] = tenant
  BY <1>1, LiveCharges
<1>3. T = {h[q] : q \in S}
  <2>1. \A c \in T : \E q \in S : c = h[q]
    <3>. SUFFICES ASSUME NEW c \in T
                  PROVE  \E q \in S : c = h[q]
      OBVIOUS
    <3>1. c \in CountedCharges /\ TenantOf[c.by] = tenant
      BY DEF Ledger!ChargesOf
    <3>2. PICK r \in Requests, q \in db : rowId[r] = q.id /\ ~Expired(q) /\ c = ChargeOf(r, q)
      BY <3>1, ChargeOfRow
    <3>3. TenantOf[r] = tenant
      BY <3>1, <3>2 DEF ChargeOf
    <3>4. q \in S
      BY <3>2, <3>3, LiveCharges
    <3>. QED
      BY <1>1, <3>2, <3>4
  <2>2. \A q \in S : h[q] \in T
    <3>. SUFFICES ASSUME NEW q \in S
                  PROVE  h[q] \in T
      OBVIOUS
    <3>1. PICK r \in Requests : rowId[r] = q.id /\ h[q] = ChargeOf(r, q) /\ TenantOf[r] = tenant
      BY <1>2
    <3>2. q \in db /\ ~Expired(q)
      BY DEF Live
    <3>3. h[q] \in CountedCharges
      BY <3>1, <3>2, ChargeOfRow
    <3>4. h[q].by = r
      BY <3>1 DEF ChargeOf
    <3>. HIDE DEF h
    <3>. QED
      BY <3>1, <3>3, <3>4 DEF Ledger!ChargesOf
  <2>. HIDE DEF S, T, h
  <2>. QED
    BY <2>1, <2>2
<1>4. \A q \in S : q.tokens \in Int /\ w[q] = q.tokens
  BY TokensAreInt DEF Live, TableInv, TypeOK
<1>5. \A q \in S : h[q] \in T /\ h[q].tokens = q.tokens /\ v[h[q]] = w[q]
  <2>1. \A q \in S : h[q].tokens = q.tokens
    BY <1>2 DEF ChargeOf
  <2>2. \A q \in S : h[q] \in T
    BY <1>3
  <2>. HIDE DEF S, T, h
  <2>. QED
    BY <2>1, <2>2
<1>6. \A p, q \in S : h[p] = h[q] => p = q
  <2>. SUFFICES ASSUME NEW p \in S, NEW q \in S, h[p] = h[q]
                PROVE  p = q
    OBVIOUS
  <2>1. PICK r \in Requests : rowId[r] = p.id /\ h[p] = ChargeOf(r, p)
    BY <1>2
  <2>2. PICK x \in Requests : rowId[x] = q.id /\ h[q] = ChargeOf(x, q)
    BY <1>2
  <2>3. r = x
    <3>1. ChargeOf(r, p).by = r /\ ChargeOf(x, q).by = x
      BY DEF ChargeOf
    <3>. HIDE DEF h
    <3>. QED
      BY <2>1, <2>2, <3>1
  <2>. QED
    BY <2>1, <2>2, <2>3, LiveCharges
<1>7. IsFiniteSet(S)
  BY FS_Subset DEF Live
<1>8. Ledger!Tokens(T) = SumFunctionOnSet(v, T) /\ SumTokens(S) = SumFunctionOnSet(w, S)
  <2>1. Ledger!Tokens(T) = SumFunctionOnSet(v, T)
    <3>. HIDE DEF T
    <3>. QED
      BY Zenon DEF Ledger!Tokens, Ledger!SumFunction, Ledger!SumFunctionOnSet,
         Ledger!FoldFunctionOnSet, Ledger!MapThenFoldSet,
         SumFunctionOnSet, FoldFunctionOnSet, MapThenFoldSet
  <2>2. SumTokens(S) = SumFunctionOnSet(w, S)
    BY DEF SumTokens, SumFunction
  <2>. QED
    BY <2>1, <2>2
<1>. HIDE DEF S, T, h, v, w
<1>9. Renames(h, S, v, w)
  BY <1>4, <1>5, <1>6 DEF Renames
<1>10. SumFunctionOnSet(v, T) = SumFunctionOnSet(w, S)
  BY <1>3, <1>7, <1>9, SumRenamed
<1>11. Ledger!Tokens(T) = SumTokens(S)
  BY <1>8, <1>10
<1>. QED
  BY <1>11 DEF S, T

(* The sum that _sum computes is over rows that may have left the window    *)
(* since, never over fewer.                                                 *)
LEMMA UsedCoversLive ==
  ASSUME Actuals \subseteq Nat, TableInv, IsFiniteSet(db), NEW tenant, NEW t \in Nat, t <= clock
  PROVE  /\ SumTokens(Live(tenant)) \in Nat
         /\ Used(db, tenant, t - Window) \in Nat
         /\ SumTokens(Live(tenant)) <= Used(db, tenant, t - Window)
<1>. DEFINE S == Live(tenant)
            C == Counted(db, tenant, t - Window)
            f == [q \in S |-> q.tokens]
            g == [q \in C |-> q.tokens]
            w == [q \in Row |-> q.tokens]
<1>1. /\ db \in SUBSET Row /\ clock \in Nat /\ Window \in Nat
  BY ConstantsAssumption DEF ConstantsAssumption, TableInv, TypeOK
<1>2. C \in SUBSET Row /\ C \in SUBSET db /\ S \in SUBSET C /\ S \in SUBSET db
  BY <1>1 DEF Counted, Live, Expired, Row
<1>3. IsFiniteSet(C) /\ IsFiniteSet(S)
  BY <1>2, FS_Subset
<1>4. \A q \in Row : w[q] \in Nat
  BY DEF Row, TokenCounts
<1>5. (\A q \in S : f[q] = w[q]) /\ (\A q \in C : g[q] = w[q])
  BY <1>2
<1>6. SumTokens(S) = SumFunctionOnSet(f, S) /\ SumTokens(C) = SumFunctionOnSet(g, C)
  BY DEF SumTokens, SumFunction
<1>. HIDE DEF S, C, f, g, w
<1>7. SumFunctionOnSet(f, S) = SumFunctionOnSet(w, S) /\ SumFunctionOnSet(g, C) = SumFunctionOnSet(w, C)
  BY <1>3, <1>5, SumAgree
<1>8. \A q \in C : w[q] \in Nat
  BY <1>2, <1>4
<1>9. SumFunctionOnSet(w, S) <= SumFunctionOnSet(w, C)
  BY <1>2, <1>3, <1>8, SumSubset
<1>10. SumFunctionOnSet(w, C) \in Nat
  BY <1>3, <1>8, SumType
<1>11. SumFunctionOnSet(w, S) \in Nat
  <2>1. \A q \in S : w[q] \in Nat
    BY <1>2, <1>8
  <2>. QED
    BY <1>3, <2>1, SumType
<1>12. SumTokens(S) <= SumTokens(C) /\ SumTokens(S) \in Nat /\ SumTokens(C) \in Nat
  BY <1>6, <1>7, <1>9, <1>10, <1>11
<1>. QED
  BY <1>12 DEF S, C, Used

-----------------------------------------------------------------------------
(* Every step is a step of the ledger, or none. *)

LEMMA InitRefines == Init => Ledger!Init
<1>. SUFFICES ASSUME Init
              PROVE  Ledger!Init
  OBVIOUS
<1>1. \A c : c \notin CountedCharges
  BY ChargeOfRow DEF Init
<1>2. PhaseOf = [r \in Requests |-> "new"]
  BY DEF Init, PhaseOf, Committed
<1>. QED
  BY <1>1, <1>2 DEF Init, Ledger!Init

(* Outside COMMIT and the clock nothing of the ledger moves. *)
LEMMA InvisibleSteps ==
  ASSUME TableInv, [Next]_vars, db' = db, clock' = clock, ~\E r \in Requests : Commit(r)
  PROVE  UNCHANGED <<CountedCharges, PhaseOf>>
<1>. USE DEF table, txn, answers
<1>1. /\ TypeOK
      /\ \A q \in db : q.id \in 1..seq
      /\ \A r \in Requests : PendingInsert(r) => rowId[r] = seq + 1
      /\ seq \in Nat
  BY DEF TableInv, IdsInv, TypeOK
<1>2. \A r \in Requests : /\ op[r] \in {"none", "reserve"} /\ rowId[r] # 0
                               => pc[r] \in {"commit", "ok", "lost"}
                          /\ op[r] = "none" => rowId[r] = 0
                          /\ op[r] = "none" <=> pc[r] = "idle"
  BY DEF TableInv, RowIdInv
<1>3. ASSUME NEW r \in Requests, NEW n, CallReserve(r, n)
      PROVE  UNCHANGED <<CountedCharges, PhaseOf>>
  <2>1. /\ op[r] = "none" /\ rowId[r] = 0 /\ rowId' = rowId
        /\ op' = [op EXCEPT ![r] = "reserve"] /\ pc' = [pc EXCEPT ![r] = "queued"]
        /\ est' = [est EXCEPT ![r] = n]
    BY <1>2, <1>3 DEF CallReserve
  <2>2. \A x \in Requests, q \in db : rowId[x] = q.id => est'[x] = est[x]
    BY <1>1, <2>1 DEF TypeOK
  <2>3. CountedCharges' = CountedCharges
    BY <2>1, <2>2, SameCharges
  <2>4. \A x \in Requests : /\ Committed(x)' <=> Committed(x)
                            /\ Committed(x) => (Settled(x)' <=> Settled(x))
    BY <1>1, <2>1 DEF Committed, Settled, TypeOK
  <2>. QED
    BY <2>3, <2>4, SamePhases
<1>4. ASSUME NEW r \in Requests, NEW n, CallReconcile(r, n) \/ CallRelease(r) \/ DropQueued(r)
                                  \/ Start(r) \/ BeginImmediate(r) \/ BusyTimeout(r)
      PROVE  UNCHANGED <<CountedCharges, PhaseOf>>
  <2>1. /\ rowId' = rowId /\ est' = est
        /\ \A x \in Requests : /\ Committed(x)' <=> Committed(x)
                               /\ Committed(x) => (Settled(x)' <=> Settled(x))
    BY <1>1, <1>4 DEF TypeOK, CallReconcile, CallRelease, DropQueued, Reserved, Start,
       BeginImmediate, BusyTimeout, Committed, Settled
  <2>. QED
    BY <2>1, SameCharges, SamePhases
<1>5. ASSUME NEW r \in Requests, Admit(r)
      PROVE  UNCHANGED <<CountedCharges, PhaseOf>>
  <2>1. /\ op[r] = "reserve" /\ pc[r] = "txn" /\ rowId[r] = 0
        /\ rowId' = [rowId EXCEPT ![r] = seq + 1]
        /\ pc' = [pc EXCEPT ![r] = "commit"]
        /\ UNCHANGED <<op, est>>
    BY <1>2, <1>5 DEF Admit, NextRowId
  <2>2. \A x \in Requests, q \in db : rowId'[x] = q.id <=> rowId[x] = q.id
    BY <1>1, <2>1 DEF TypeOK
  <2>3. CountedCharges' = CountedCharges
    BY <2>1, <2>2, SameCharges
  <2>4. \A x \in Requests : /\ Committed(x)' <=> Committed(x)
                            /\ Committed(x) => (Settled(x)' <=> Settled(x))
    BY <1>1, <2>1 DEF Committed, Settled, TypeOK
  <2>. QED
    BY <2>3, <2>4, SamePhases
<1>6. ASSUME NEW r \in Requests, Refuse(r) \/ RaiseRateLimitExceeded(r) \/ UpdateRow(r) \/ DeleteRow(r)
      PROVE  UNCHANGED <<CountedCharges, PhaseOf>>
  <2>1. /\ rowId' = rowId /\ est' = est
        /\ \A x \in Requests : /\ Committed(x)' <=> Committed(x)
                               /\ Committed(x) => (Settled(x)' <=> Settled(x))
    BY <1>1, <1>2, <1>6 DEF TypeOK, Refuse, RaiseRateLimitExceeded, UpdateRow, DeleteRow,
       Committed, Settled
  <2>. QED
    BY <2>1, SameCharges, SamePhases
<1>7. ASSUME NEW r \in Requests, Fault(r)
      PROVE  UNCHANGED <<CountedCharges, PhaseOf>>
  <2>1. /\ pc[r] \in {"txn", "commit", "rolledback"}
        /\ rowId' = [rowId EXCEPT ![r] = IF op[r] = "reserve" THEN 0 ELSE @]
        /\ pc' = [pc EXCEPT ![r] = "error"]
        /\ UNCHANGED <<op, est>>
    BY <1>7 DEF Fault
  <2>2. op[r] = "reserve" => rowId[r] = 0 \/ PendingInsert(r)
    BY <1>2, <2>1 DEF PendingInsert
  <2>3. \A x \in Requests, q \in db : rowId'[x] = q.id <=> rowId[x] = q.id
    BY <1>1, <2>1, <2>2 DEF TypeOK
  <2>4. CountedCharges' = CountedCharges
    BY <2>1, <2>3, SameCharges
  <2>5. \A x \in Requests : /\ Committed(x)' <=> Committed(x)
                            /\ Committed(x) => (Settled(x)' <=> Settled(x))
    BY <1>1, <2>1, <2>2 DEF Committed, Settled, TypeOK, PendingInsert
  <2>. QED
    BY <2>4, <2>5, SamePhases
<1>8. CASE Crash
  <2>1. /\ \A r \in Requests : /\ rowId'[r] = IF PendingInsert(r) THEN 0 ELSE rowId[r]
                               /\ pc'[r] = IF Unanswered(r) THEN "lost" ELSE pc[r]
        /\ UNCHANGED <<op, est>>
    BY <1>8 DEF Crash, PendingInsert
  <2>2. \A x \in Requests, q \in db : rowId'[x] = q.id <=> rowId[x] = q.id
    BY <1>1, <2>1
  <2>3. CountedCharges' = CountedCharges
    BY <2>1, <2>2, SameCharges
  <2>4. \A x \in Requests : /\ Committed(x)' <=> Committed(x)
                            /\ Committed(x) => (Settled(x)' <=> Settled(x))
    BY <2>1 DEF Committed, Settled, PendingInsert, Unanswered, Answered
  <2>. QED
    BY <2>3, <2>4, SamePhases
<1>9. CASE UNCHANGED vars
  <2>1. /\ rowId' = rowId /\ est' = est
        /\ \A x \in Requests : /\ Committed(x)' <=> Committed(x)
                               /\ Committed(x) => (Settled(x)' <=> Settled(x))
    BY <1>9 DEF vars, Committed, Settled
  <2>. QED
    BY <2>1, SameCharges, SamePhases
<1>10. ~Tick
  BY <1>1 DEF Tick, TypeOK
<1>. QED
  BY <1>3, <1>4, <1>5, <1>6, <1>7, <1>8, <1>9, <1>10 DEF Next, Caller, Worker, Terminating

(* Time passes for both. *)
LEMMA TickRefines ==
  ASSUME TableInv, Tick
  PROVE  Ledger!Tick
<1>1. db' = db /\ rowId' = rowId /\ est' = est /\ op' = op /\ pc' = pc /\ clock' = clock + 1
  BY DEF Tick, table, answers
<1>2. clock \in Nat /\ Window \in Nat /\ \A q \in db : q.ts \in Nat
  BY ConstantsAssumption DEF ConstantsAssumption, TableInv, TypeOK, Row
<1>3. \A c : c \in CountedCharges' <=>
        \E r \in Requests, q \in db' : rowId'[r] = q.id /\ ~Expired(q)' /\ c = ChargeOf(r, q)'
  BY DEF CountedCharges, ChargesTo
<1>4. \A r \in Requests, q \in db : ChargeOf(r, q)' = ChargeOf(r, q) /\ ChargeOf(r, q).ts = q.ts
  BY <1>1 DEF ChargeOf
<1>5. \A q \in db : /\ ~Expired(q)' <=> q.ts >= clock' - Window
                    /\ ~Expired(q)' => ~Expired(q)
  BY <1>1, <1>2 DEF Expired
<1>6. \A c : c \in CountedCharges' <=> c \in CountedCharges /\ Ledger!StillCounts(c, clock')
  BY <1>1, <1>3, <1>4, <1>5, ChargeOfRow DEF Ledger!StillCounts
<1>7. CountedCharges' = {c \in CountedCharges : Ledger!StillCounts(c, clock')}
  BY <1>6
<1>8. PhaseOf' = PhaseOf
  BY <1>1, SamePhases DEF Committed, Settled
<1>. QED
  BY <1>7, <1>8 DEF Tick, Ledger!Tick

LEMMA CommitPhases ==
  ASSUME TableInv, NEW r \in Requests, Commit(r)
  PROVE  /\ op[r] = "reserve" => PhaseOf[r] = "new" /\ PhaseOf' = [PhaseOf EXCEPT ![r] = "held"]
         /\ op[r] # "reserve" => PhaseOf[r] = "held" /\ PhaseOf' = [PhaseOf EXCEPT ![r] = "closed"]
<1>1. /\ pc[r] = "commit" /\ pc' = [pc EXCEPT ![r] = "ok"] /\ TypeOK
      /\ UNCHANGED <<op, rowId>>
      /\ op[r] = "none" <=> pc[r] = "idle"
      /\ op[r] \in {"reconcile", "release"} => rowId[r] # 0
      /\ PendingInsert(r) => rowId[r] = seq + 1
  BY DEF Commit, answers, TableInv, RowIdInv, IdsInv
<1>2. \A x \in Requests \ {r} : PhaseOf'[x] = PhaseOf[x]
  BY <1>1 DEF PhaseOf, Committed, Settled, TypeOK
<1>3. op[r] = "reserve" => PhaseOf[r] = "new" /\ PhaseOf'[r] = "held"
  BY <1>1 DEF PhaseOf, Committed, Settled, TypeOK, PendingInsert
<1>4. op[r] # "reserve" => PhaseOf[r] = "held" /\ PhaseOf'[r] = "closed"
  BY <1>1 DEF PhaseOf, Committed, Settled, TypeOK
<1>5. PhaseOf \in [Requests -> {"new", "held", "closed"}] /\ PhaseOf' \in [Requests -> {"new", "held", "closed"}]
  BY DEF PhaseOf
<1>. HIDE DEF PhaseOf
<1>. QED
  BY <1>2, <1>3, <1>4, <1>5

(* The COMMIT of a reservation is the ledger's admission. *)
LEMMA ReserveRefines ==
  ASSUME Actuals \subseteq Nat, TableInv, ArgumentsInv,
         NEW r \in Requests, Commit(r), op[r] = "reserve"
  PROVE  Ledger!Admit(r)
<1>. DEFINE row == RowOf(r)
            c == Ledger!Charge(r, now[r], est[r])
<1>1. /\ TypeOK /\ PendingInsert(r) /\ UNCHANGED <<clock, rowId, est>>
  BY DEF Commit, answers, PendingInsert, TableInv
<1>2. /\ db' = Evict(db, now[r] - Window) \cup {row}
      /\ rowId[r] = seq + 1 /\ seq \in Nat /\ \A q \in db : q.id \in 1..seq
      /\ now[r] \in 0..clock /\ clock \in Nat /\ Window \in Nat
      /\ \A q \in db : q.ts \in Nat
  BY <1>1, CommitInstalls, ConstantsAssumption
     DEF TableInv, IdsInv, ClockInv, TypeOK, PendingInsert, Row, ConstantsAssumption
<1>3. row.id = seq + 1 /\ row.ts = now[r] /\ row.tokens = est[r] /\ row.tenant = TenantOf[r]
  BY <1>1, <1>2 DEF RowOf, PendingInsert
<1>4. est[r] \in Estimates /\ est[r] \in Nat
  BY <1>1 DEF ArgumentsInv, PendingInsert, TypeOK
<1>5. Ledger!Tokens(Ledger!ChargesOf(TenantOf[r])) + est[r] <= Limit
  <2>1. Used(db, TenantOf[r], now[r] - Window) + est[r] <= Limit
    BY <1>1 DEF TableInv, DecisionInv
  <2>2. /\ SumTokens(Live(TenantOf[r])) \in Nat
        /\ Used(db, TenantOf[r], now[r] - Window) \in Nat
        /\ SumTokens(Live(TenantOf[r])) <= Used(db, TenantOf[r], now[r] - Window)
    <3>1. now[r] \in Nat /\ now[r] <= clock /\ IsFiniteSet(db)
      BY <1>2 DEF ArgumentsInv
    <3>. QED
      BY <3>1, UsedCoversLive
  <2>3. Ledger!Tokens(Ledger!ChargesOf(TenantOf[r])) = SumTokens(Live(TenantOf[r]))
    BY TokensMatch DEF ArgumentsInv
  <2>4. Limit \in Nat
    BY ConstantsAssumption DEF ConstantsAssumption
  <2>. QED
    BY <1>4, <2>1, <2>2, <2>3, <2>4
<1>6. \A d : d \in CountedCharges' <=>
        \E x \in Requests, q \in db' : rowId'[x] = q.id /\ ~Expired(q)' /\ d = ChargeOf(x, q)'
  BY DEF CountedCharges, ChargesTo
<1>7. /\ \A x \in Requests : \A q : ChargeOf(x, q)' = ChargeOf(x, q)
      /\ \A q : Expired(q)' <=> Expired(q)
  BY <1>1 DEF ChargeOf, Expired
<1>8. ChargeOf(r, row) = c
  BY <1>3 DEF ChargeOf, Ledger!Charge
<1>9. \A q \in db : ~Expired(q) => q \in db'
  BY <1>2 DEF Expired, Evict
<1>10. \A q \in db' : q = row \/ q \in db
  BY <1>2 DEF Evict
<1>11. \A x \in Requests : rowId[x] = row.id => x = r
  BY <1>2, <1>3 DEF TableInv, RowIdsNeverReused
<1>12. Expired(row) <=> ~Ledger!StillCounts(c, clock)
  BY <1>2, <1>3 DEF Expired, Ledger!StillCounts, Ledger!Charge
<1>13. row \in db' /\ rowId[r] = row.id
  BY <1>2, <1>3
<1>. HIDE DEF row, c
<1>14. \A d : d \in CountedCharges' <=>
         d \in CountedCharges \/ (d = c /\ Ledger!StillCounts(c, clock))
  <2>1. ASSUME NEW d \in CountedCharges'
        PROVE  d \in CountedCharges \/ (d = c /\ Ledger!StillCounts(c, clock))
    <3>1. PICK x \in Requests, q \in db' : rowId[x] = q.id /\ ~Expired(q) /\ d = ChargeOf(x, q)
      BY <1>1, <1>6, <1>7
    <3>2. CASE q = row
      BY <1>8, <1>11, <1>12, <3>1, <3>2
    <3>3. CASE q \in db
      BY <3>1, <3>3, ChargeOfRow
    <3>. QED
      BY <1>10, <3>2, <3>3
  <2>2. ASSUME NEW d \in CountedCharges
        PROVE  d \in CountedCharges'
    <3>1. PICK x \in Requests, q \in db : rowId[x] = q.id /\ ~Expired(q) /\ d = ChargeOf(x, q)
      BY ChargeOfRow
    <3>. QED
      BY <1>1, <1>6, <1>7, <1>9, <3>1
  <2>3. ASSUME Ledger!StillCounts(c, clock)
        PROVE  c \in CountedCharges'
    BY <1>1, <1>6, <1>7, <1>8, <1>12, <1>13, <2>3
  <2>. QED
    BY <2>1, <2>2, <2>3
<1>15. CountedCharges' = CountedCharges \cup {d \in {c} : Ledger!StillCounts(d, clock)}
  BY <1>14
<1>16. /\ PhaseOf[r] = "new" /\ PhaseOf' = [PhaseOf EXCEPT ![r] = "held"]
  BY CommitPhases
<1>. QED
  BY <1>1, <1>2, <1>4, <1>5, <1>15, <1>16 DEF Ledger!Admit, c

(* The COMMIT of an UPDATE settles the request's own charge, if any. *)
LEMMA ReconcileRefines ==
  ASSUME TableInv, ArgumentsInv, NEW r \in Requests, Commit(r), op[r] = "reconcile"
  PROVE  Ledger!Settle(r)
<1>. DEFINE n == actual[r]
            New(d) == IF d.by = r THEN [d EXCEPT !.tokens = n] ELSE d
<1>1. /\ TypeOK /\ UNCHANGED <<clock, rowId, est>> /\ db' = WithTokens(db, rowId[r], n)
      /\ n \in Actuals
  BY CommitInstalls DEF Commit, answers, PendingInsert, TableInv, ArgumentsInv
<1>2. \A q \in db : q \in Row
  BY <1>1 DEF TypeOK
<1>3. \A d : d \in CountedCharges' <=>
        \E x \in Requests, q \in db' : rowId[x] = q.id /\ ~Expired(q)' /\ d = ChargeOf(x, q)'
  BY <1>1 DEF CountedCharges, ChargesTo
<1>. DEFINE newRow(q) == IF q.id = rowId[r] THEN [q EXCEPT !.tokens = n] ELSE q
<1>4. /\ \A q \in db : newRow(q) \in db'
      /\ \A p \in db' : \E q \in db : p = newRow(q)
  BY <1>1 DEF WithTokens
<1>5. ASSUME NEW x \in Requests, NEW q \in db, NEW p \in db', p = newRow(q), rowId[x] = q.id
      PROVE  /\ p.id = q.id
             /\ Expired(p)' <=> Expired(q)
             /\ ChargeOf(x, p)' = New(ChargeOf(x, q))
  <2>1. x = r <=> q.id = rowId[r]
    BY <1>5 DEF TableInv, IdsInv, RowIdsNeverReused
  <2>2. p.id = q.id /\ p.ts = q.ts
    BY <1>2, <1>5 DEF Row
  <2>3. p.tokens = IF x = r THEN n ELSE q.tokens
    BY <1>2, <1>5, <2>1 DEF Row
  <2>4. ChargeOf(x, p)' = [by |-> x, ts |-> q.ts, reserved |-> est[x],
                           tokens |-> IF x = r THEN n ELSE q.tokens]
    BY <1>1, <2>2, <2>3 DEF ChargeOf
  <2>5. New(ChargeOf(x, q)) = [by |-> x, ts |-> q.ts, reserved |-> est[x],
                               tokens |-> IF x = r THEN n ELSE q.tokens]
    BY DEF ChargeOf
  <2>. QED
    BY <1>1, <2>2, <2>4, <2>5 DEF Expired
<1>. HIDE DEF newRow, New
<1>6. \A d : d \in CountedCharges' <=> \E b \in CountedCharges : d = New(b)
  <2>1. ASSUME NEW d \in CountedCharges'
        PROVE  \E b \in CountedCharges : d = New(b)
    <3>1. PICK x \in Requests, p \in db' : rowId[x] = p.id /\ ~Expired(p)' /\ d = ChargeOf(x, p)'
      BY <1>3
    <3>2. PICK q \in db : p = newRow(q)
      BY <1>4
    <3>3. q.id = p.id
      BY <1>2, <3>2 DEF newRow, Row
    <3>4. ~Expired(q) /\ d = New(ChargeOf(x, q)) /\ rowId[x] = q.id
      BY <1>5, <3>1, <3>2, <3>3
    <3>. QED
      BY <3>4, ChargeOfRow
  <2>2. ASSUME NEW b \in CountedCharges
        PROVE  New(b) \in CountedCharges'
    <3>1. PICK x \in Requests, q \in db : rowId[x] = q.id /\ ~Expired(q) /\ b = ChargeOf(x, q)
      BY ChargeOfRow
    <3>2. PICK p \in db' : p = newRow(q)
      BY <1>4
    <3>3. p.id = q.id /\ ~Expired(p)' /\ ChargeOf(x, p)' = New(b)
      BY <1>5, <3>1, <3>2
    <3>. QED
      BY <1>3, <3>1, <3>3
  <2>. QED
    BY <2>1, <2>2
<1>7. CountedCharges' = {New(b) : b \in CountedCharges}
  BY <1>6
<1>8. PhaseOf[r] = "held" /\ PhaseOf' = [PhaseOf EXCEPT ![r] = "closed"]
  BY CommitPhases
<1>. QED
  BY <1>1, <1>7, <1>8 DEF Ledger!Settle, New

(* The COMMIT of a DELETE withdraws it. *)
LEMMA ReleaseRefines ==
  ASSUME TableInv, NEW r \in Requests, Commit(r), op[r] = "release"
  PROVE  Ledger!Withdraw(r)
<1>1. /\ UNCHANGED <<clock, rowId, est>>
      /\ \A q : q \in db' <=> q \in db /\ q.id # rowId[r]
  BY CommitInstalls DEF Commit, answers, PendingInsert, Without
<1>2. \A d : d \in CountedCharges' <=>
        \E x \in Requests, q \in db' : rowId[x] = q.id /\ ~Expired(q) /\ d = ChargeOf(x, q)
  <2>1. /\ \A x \in Requests : \A q : ChargeOf(x, q)' = ChargeOf(x, q)
        /\ \A q : Expired(q)' <=> Expired(q)
    BY <1>1 DEF ChargeOf, Expired
  <2>2. \A d : d \in CountedCharges' <=>
          \E x \in Requests, q \in db' : rowId'[x] = q.id /\ ~Expired(q)' /\ d = ChargeOf(x, q)'
    BY DEF CountedCharges, ChargesTo
  <2>. QED
    BY <1>1, <2>1, <2>2
<1>3. \A x \in Requests, q \in db : rowId[x] = q.id => (x = r <=> q.id = rowId[r])
  BY DEF TableInv, RowIdsNeverReused, IdsInv
<1>4. \A x, q : ChargeOf(x, q).by = x
  BY DEF ChargeOf
<1>5. \A d : d \in CountedCharges' <=> d \in CountedCharges /\ d.by # r
  BY <1>1, <1>2, <1>3, <1>4, ChargeOfRow
<1>6. PhaseOf[r] = "held" /\ PhaseOf' = [PhaseOf EXCEPT ![r] = "closed"]
  BY CommitPhases
<1>7. CountedCharges' = {d \in CountedCharges : d.by # r}
  BY <1>5
<1>. QED
  BY <1>1, <1>6, <1>7 DEF Ledger!Withdraw

LEMMA StepRefines ==
  ASSUME Actuals \subseteq Nat
  PROVE  TableInv /\ ArgumentsInv /\ [Next]_vars => [Ledger!Next]_(Ledger!vars)
<1>. SUFFICES ASSUME TableInv, ArgumentsInv, [Next]_vars
              PROVE  [Ledger!Next]_(Ledger!vars)
  OBVIOUS
<1>1. ASSUME NEW r \in Requests, Commit(r)
      PROVE  Ledger!Next
  <2>1. op[r] \in {"reserve", "reconcile", "release"}
    BY <1>1 DEF TableInv, TypeOK, RowIdInv, Commit
  <2>. QED
    BY <1>1, <2>1, ReserveRefines, ReconcileRefines, ReleaseRefines DEF Ledger!Next
<1>2. CASE Tick
  BY <1>2, TickRefines DEF Ledger!Next
<1>3. CASE ~Tick /\ ~\E r \in Requests : Commit(r)
  <2>1. db' = db
    BY <1>3, OnlyCommitWrites
  <2>2. clock' = clock
    BY <1>3 DEF Next, Caller, Worker, Terminating, vars, CallReserve, CallReconcile,
       CallRelease, DropQueued, Start, BeginImmediate, BusyTimeout, Admit, Refuse,
       RaiseRateLimitExceeded, UpdateRow, DeleteRow, Fault, Crash
  <2>. QED
    BY <1>3, <2>1, <2>2, InvisibleSteps DEF Ledger!vars
<1>. QED
  BY <1>1, <1>2, <1>3

(* Callers reserve and settle with what they may, and no table is infinite. *)
THEOREM ArgumentsKept == Spec => []ArgumentsInv
<1>1. IndInv => TableInv
  BY DEF IndInv
<1>. QED
  BY Inductive, ArgumentsInvInit, ArgumentsInvStep, <1>1, PTL DEF Spec

(* test_task4_router.py:6: behind the threads, the transactions, the        *)
(* evictions and the crashes is the atomic ledger.                          *)
THEOREM LimiterImplementsLedger ==
  ASSUME Actuals \subseteq Nat
  PROVE  Spec => ImplementsLedger
<1>1. IndInv => TableInv
  BY DEF IndInv
<1>. QED
  BY Inductive, ArgumentsKept, <1>1, InitRefines, StepRefines, PTL DEF Spec, ImplementsLedger, Ledger!Spec

(* What still counts against a tenant is within the limit, once what        *)
(* settlements cost above their reservations is set aside.                  *)
THEOREM LedgerBound ==
  ASSUME Actuals \subseteq Nat
  PROVE  Spec => []CountedWithinLimit
BY LimiterImplementsLedger, LedgerWithinLimit, PTL DEF ImplementsLedger

-----------------------------------------------------------------------------
(* What a caller may have outstanding. *)

(* The requests of a tenant whose reservation is held, not being settled,  *)
(* and still counts.                                                       *)
Holding(tenant) ==
  {r \in Requests : TenantOf[r] = tenant /\ Reserved(r) /\ now[r] >= clock - Window}

(* The requests that settled below nothing, and what that gave back. *)
Givers(tenant) == {r \in Requests : TenantOf[r] = tenant /\ actual[r] < 0}
GivenBack(tenant) == SumFunctionOnSet([r \in Requests |-> -actual[r]], Givers(tenant))

ReservationsFit ==
  \A tenant \in Tenants :
    /\ IsFiniteSet(Holding(tenant)) /\ IsFiniteSet(Givers(tenant))
    /\ SumFunctionOnSet(est, Holding(tenant)) <= Limit + GivenBack(tenant)

(* Only a settlement has an actual cost. *)
CostInv == \A r \in Requests : actual[r] < 0 => op[r] = "reconcile"

LEMMA HoldersHaveRows ==
  ASSUME TableInv, NEW tenant, NEW r \in Holding(tenant)
  PROVE  /\ RowOf(r) \in db /\ RowOf(r).id = rowId[r] /\ RowOf(r).tokens = est[r]
         /\ ~Expired(RowOf(r)) /\ rowId[r] # 0
<1>1. r \in Requests /\ op[r] = "reserve" /\ pc[r] = "ok" /\ rowId[r] # 0
  BY DEF TableInv, RowIdInv, Holding, Reserved
<1>2. Committed(r) /\ ~Released(r)
  BY <1>1 DEF Committed, Released
<1>3. /\ RowOf(r).id = rowId[r] /\ RowOf(r).tokens = est[r] /\ RowOf(r).ts = now[r]
  BY <1>1 DEF RowOf
<1>4. ~Expired(RowOf(r))
  BY <1>3, ConstantsAssumption DEF ConstantsAssumption, TableInv, TypeOK, Expired, Holding
<1>. QED
  BY <1>1, <1>2, <1>3, <1>4 DEF TableInv, TableMatchesCallers

LEMMA HoldersFinite ==
  ASSUME TableInv, IsFiniteSet(db), NEW tenant
  PROVE  IsFiniteSet(Holding(tenant))
<1>. DEFINE g == [r \in Holding(tenant) |-> RowOf(r)]
<1>1. \A r \in Holding(tenant) :
        r \in Requests /\ g[r] \in db /\ g[r].id = rowId[r] /\ rowId[r] # 0
  BY HoldersHaveRows DEF Holding
<1>2. g \in [Holding(tenant) -> db]
  BY <1>1
<1>. HIDE DEF g
<1>3. \A r, x \in Holding(tenant) : g[r] = g[x] => r = x
  BY <1>1 DEF TableInv, RowIdsNeverReused
<1>4. g \in Injection(Holding(tenant), db)
  BY <1>2, <1>3 DEF Injection, IsInjective
<1>. QED
  BY <1>4, FS_Injection

LEMMA GiversFinite ==
  ASSUME TableInv, CostInv, NEW tenant
  PROVE  /\ IsFiniteSet(Givers(tenant)) /\ GivenBack(tenant) \in Nat
         /\ \A r \in Givers(tenant) : -actual[r] \in Nat
<1>. DEFINE G == Givers(tenant)
            g == [r \in G |-> rowId[r]]
            v == [r \in Requests |-> -actual[r]]
<1>1. ASSUME NEW r \in G
      PROVE  r \in Requests /\ rowId[r] \in 1..seq /\ -actual[r] \in Nat
  <2>1. r \in Requests /\ actual[r] < 0 /\ op[r] = "reconcile"
    BY DEF Givers, CostInv
  <2>2. rowId[r] # 0 /\ rowId[r] \in Nat /\ seq \in Nat /\ rowId[r] <= seq
    BY <2>1 DEF TableInv, TypeOK, RowIdInv, IdsInv, PendingInsert
  <2>3. actual[r] \in Int
    BY <2>1, TokensAreInt DEF TableInv, TypeOK
  <2>. QED
    BY <2>1, <2>2, <2>3
<1>2. g \in [G -> 1..seq]
  BY <1>1
<1>3. \A r, x \in G : rowId[r] = rowId[x] => r = x
  BY <1>1 DEF TableInv, RowIdsNeverReused
<1>4. \A r \in G : g[r] = rowId[r]
  OBVIOUS
<1>5. \A r \in G : v[r] = -actual[r]
  BY <1>1
<1>. HIDE DEF G, g, v
<1>6. g \in Injection(G, 1..seq)
  BY <1>2, <1>3, <1>4 DEF Injection, IsInjective
<1>7. IsFiniteSet(1..seq)
  BY FS_Interval DEF TableInv, TypeOK
<1>8. IsFiniteSet(G)
  BY <1>6, <1>7, FS_Injection
<1>9. SumFunctionOnSet(v, G) \in Nat
  BY <1>1, <1>5, <1>8, SumType
<1>. QED
  BY <1>1, <1>8, <1>9 DEF G, v, GivenBack

GiversInv ==
  \A tenant : /\ IsFiniteSet(Givers(tenant)) /\ GivenBack(tenant) \in Nat
              /\ \A r \in Givers(tenant) : -actual[r] \in Nat

(* What is held is counted: the counted rows are those the holders have,   *)
(* others, and those that were settled below nothing.                      *)
LEMMA HeldTokensAreUsed ==
  ASSUME TableInv, CostInv, IsFiniteSet(db), NEW tenant, NEW t \in Nat, t <= clock
  PROVE  /\ SumFunctionOnSet(est, Holding(tenant))
              <= Used(db, tenant, t - Window) + GivenBack(tenant)
         /\ SumFunctionOnSet(est, Holding(tenant)) \in Nat
         /\ Used(db, tenant, t - Window) \in Int
<1>. DEFINE H == Holding(tenant)
            C == Counted(db, tenant, t - Window)
            G == Givers(tenant)
            N == {q \in C : q.tokens < 0}
            h == [r \in H |-> RowOf(r)]
            o == [q \in N |-> CHOOSE r \in Requests : rowId[r] = q.id]
            w == [q \in C |-> q.tokens]
            m == [q \in N |-> -q.tokens]
            v == [r \in Requests |-> -actual[r]]
<1>1. IsFiniteSet(H) /\ IsFiniteSet(G) /\ GivenBack(tenant) = SumFunctionOnSet(v, G)
      /\ \A r \in G : -actual[r] \in Nat
  BY HoldersFinite, GiversFinite DEF GivenBack
<1>2. C \in SUBSET db /\ db \in SUBSET Row
  BY DEF Counted, TableInv, TypeOK
<1>3. IsFiniteSet(C)
  BY <1>2, FS_Subset
<1>4. \A q \in C : q.tokens \in Int
  BY <1>2, TokensAreInt
<1>5. ASSUME NEW r \in H
      PROVE  /\ r \in Requests /\ est[r] \in Nat
             /\ RowOf(r) \in C /\ RowOf(r).tokens = est[r] /\ RowOf(r).id = rowId[r]
             /\ rowId[r] # 0
  <2>1. r \in Requests /\ TenantOf[r] = tenant /\ now[r] >= clock - Window /\ est[r] \in Nat
    BY DEF Holding, TableInv, TypeOK
  <2>2. RowOf(r).tenant = tenant /\ RowOf(r).ts = now[r]
    BY <2>1 DEF RowOf
  <2>3. clock \in Nat /\ Window \in Nat /\ now[r] \in Nat
    BY <2>1, ConstantsAssumption DEF ConstantsAssumption, TableInv, TypeOK
  <2>4. now[r] >= t - Window
    BY <2>1, <2>3
  <2>5. RowOf(r) \in C
    BY <2>2, <2>4, HoldersHaveRows DEF Counted
  <2>. QED
    BY <2>1, <2>5, HoldersHaveRows
<1>6. ASSUME NEW q \in N
      PROVE  /\ o[q] \in G /\ rowId[o[q]] = q.id /\ -actual[o[q]] = m[q]
             /\ m[q] \in Nat /\ m[q] \in Int
  <2>1. q \in db /\ q.tenant = tenant /\ q.tokens < 0 /\ q.tokens \in Int
    BY <1>2, <1>4 DEF Counted
  <2>2. PICK r \in Requests : /\ rowId[r] = q.id /\ TenantOf[r] = q.tenant /\ q = RowOf(r)
                              /\ \A x \in Requests : rowId[x] = q.id => x = r
    BY <2>1, RowIsHeld
  <2>3. o[q] = r
    <3>1. o[q] = CHOOSE x \in Requests : rowId[x] = q.id
      OBVIOUS
    <3>. HIDE DEF o
    <3>. QED
      BY <2>2, <3>1
  <2>4. q.tokens = actual[r]
    <3>1. q.tokens = IF op[r] = "reconcile" /\ pc[r] = "ok" THEN actual[r] ELSE est[r]
      BY <2>2 DEF RowOf
    <3>2. est[r] \in Nat
      BY DEF TableInv, TypeOK
    <3>. QED
      BY <2>1, <3>1, <3>2
  <2>5. m[q] = -q.tokens
    OBVIOUS
  <2>. HIDE DEF o, m
  <2>6. r \in G
    BY <2>1, <2>2, <2>4 DEF Givers
  <2>. QED
    BY <2>1, <2>2, <2>3, <2>4, <2>5, <2>6
<1>7. Used(db, tenant, t - Window) = SumFunctionOnSet(w, C)
  BY DEF Used, SumTokens, SumFunction
<1>8. /\ \A q \in C : w[q] = q.tokens
      /\ \A q \in N : m[q] = -w[q]
      /\ N \in SUBSET C /\ C \ N \in SUBSET C
      /\ \A q \in C \ N : ~(q.tokens < 0)
  OBVIOUS
<1>9. \A r \in H : h[r] = RowOf(r)
  OBVIOUS
<1>10. G \in SUBSET Requests /\ \A r \in Requests : v[r] = -actual[r]
  BY DEF Givers
<1>11. \A q \in C : q \in N <=> q.tokens < 0
  OBVIOUS
<1>. HIDE DEF H, C, G, N, h, o, w, m, v
<1>12. IsFiniteSet(C \ N) /\ IsFiniteSet(N) /\ \A q \in C \ N : w[q] \in Nat
  BY <1>3, <1>4, <1>8, FS_Subset
<1>13. \A r \in H : h[r] \in C \ N /\ w[h[r]] = est[r]
  BY <1>5, <1>8, <1>9, <1>11
<1>14. Renames(h, H, w, est)
  <2>1. \A r, x \in H : h[r] = h[x] => r = x
    BY <1>5, <1>9 DEF TableInv, RowIdsNeverReused
  <2>. QED
    BY <1>5, <1>13, <2>1 DEF Renames
<1>15. SumFunctionOnSet(w, {h[r] : r \in H}) = SumFunctionOnSet(est, H)
  BY <1>1, <1>14, SumRenamed
<1>16. SumFunctionOnSet(w, {h[r] : r \in H}) <= SumFunctionOnSet(w, C \ N)
  <2>1. {h[r] : r \in H} \in SUBSET (C \ N)
    BY <1>13
  <2>. QED
    BY <1>12, <2>1, SumSubset
<1>17. \A q \in N : v[o[q]] = m[q]
  BY <1>6, <1>10
<1>18. Renames(o, N, v, m)
  <2>1. \A p, q \in N : o[p] = o[q] => p = q
    BY <1>2, <1>6, <1>8, RowsById
  <2>. QED
    BY <1>6, <1>17, <2>1 DEF Renames
<1>19. SumFunctionOnSet(v, {o[q] : q \in N}) = SumFunctionOnSet(m, N)
  BY <1>12, <1>18, SumRenamed
<1>20. SumFunctionOnSet(v, {o[q] : q \in N}) <= SumFunctionOnSet(v, G)
  <2>1. {o[q] : q \in N} \in SUBSET G /\ \A r \in G : v[r] \in Nat
    BY <1>1, <1>6, <1>10
  <2>. QED
    BY <1>1, <2>1, SumSubset
<1>21. SumFunctionOnSet(w, C) = SumFunctionOnSet(w, C \ N) - SumFunctionOnSet(m, N)
  <2>1. \A q \in C : w[q] \in Int
    BY <1>4, <1>8
  <2>. QED
    BY <1>3, <1>8, <2>1, SumSigned
<1>22. /\ SumFunctionOnSet(est, H) \in Nat /\ SumFunctionOnSet(w, C \ N) \in Nat
       /\ SumFunctionOnSet(m, N) \in Nat /\ SumFunctionOnSet(v, G) \in Nat
  <2>1. \A r \in G : v[r] \in Nat
    BY <1>1, <1>10
  <2>2. \A q \in N : m[q] \in Nat
    BY <1>6
  <2>3. \A r \in H : est[r] \in Nat
    BY <1>5
  <2>. QED
    BY <1>1, <1>12, <2>1, <2>2, <2>3, SumType
<1>23. /\ SumFunctionOnSet(est, H) <= SumFunctionOnSet(w, C) + SumFunctionOnSet(v, G)
       /\ SumFunctionOnSet(w, C) \in Int
  BY <1>15, <1>16, <1>19, <1>20, <1>21, <1>22
<1>. QED
  BY <1>1, <1>7, <1>22, <1>23 DEF H

LEMMA CostInvStep == TypeOK /\ RowIdInv /\ CostInv /\ [Next]_vars => CostInv'
<1>. SUFFICES ASSUME TypeOK, RowIdInv, CostInv, [Next]_vars
              PROVE  CostInv'
  OBVIOUS
<1>. USE DEF table, txn, answers
<1>1. ASSUME NEW r \in Requests, Caller(r)
      PROVE  CostInv'
  BY <1>1 DEF Caller, CallReserve, CallReconcile, CallRelease, DropQueued, Reserved, CostInv, TypeOK
<1>2. CASE UNCHANGED <<op, actual>>
  BY <1>2 DEF CostInv
<1>. QED
  BY <1>1, <1>2 DEF Next, Worker, Terminating, vars, Start, BeginImmediate, BusyTimeout, Admit,
     Refuse, RaiseRateLimitExceeded, UpdateRow, DeleteRow, Commit, Fault, Tick, Crash

(* Nobody comes to hold a reservation but by the COMMIT of its insert.     *)
LEMMA HoldersCome ==
  ASSUME TableInv, [Next]_vars, NEW r \in Requests, NEW tenant,
         r \in Holding(tenant)'
  PROVE  \/ r \in Holding(tenant) /\ est'[r] = est[r]
         \/ /\ Commit(r) /\ op[r] = "reserve" /\ UNCHANGED <<est, actual>> /\ tenant = TenantOf[r]
            /\ \A x \in Requests \ {r} : x \in Holding(tenant)' => x \in Holding(tenant)
<1>. USE DEF table, txn, answers
<1>1. TypeOK /\ RowIdInv
  BY DEF TableInv
<1>2. /\ TenantOf[r] = tenant /\ op'[r] = "reserve" /\ pc'[r] = "ok"
      /\ now'[r] >= clock' - Window
  BY DEF Holding, Reserved
<1>3. clock' >= clock /\ clock \in Nat /\ clock' \in Nat /\ Window \in Nat
  <2>1. clock' = clock \/ clock' = clock + 1
    BY DEF Next, Caller, Worker, Terminating, vars, CallReserve, CallReconcile, CallRelease,
       DropQueued, Start, BeginImmediate, BusyTimeout, Admit, Refuse, RaiseRateLimitExceeded,
       UpdateRow, DeleteRow, Commit, Fault, Tick, Crash
  <2>. QED
    BY <1>1, <2>1, ConstantsAssumption DEF ConstantsAssumption, TypeOK
<1>4. CASE op[r] = "reserve" /\ pc[r] = "ok" /\ now'[r] = now[r] /\ est'[r] = est[r]
  BY <1>1, <1>2, <1>3, <1>4 DEF Holding, Reserved, TypeOK
<1>5. ASSUME NEW x \in Requests, Caller(x) \/ Fault(x)
      PROVE  op[r] = "reserve" /\ pc[r] = "ok" /\ now'[r] = now[r] /\ est'[r] = est[r]
  BY <1>1, <1>2, <1>5 DEF TypeOK, Caller, CallReserve, CallReconcile, CallRelease, DropQueued,
     Reserved, Fault
<1>6. ASSUME NEW x \in Requests, Worker(x), ~Commit(x)
      PROVE  op[r] = "reserve" /\ pc[r] = "ok" /\ now'[r] = now[r] /\ est'[r] = est[r]
  BY <1>1, <1>2, <1>6 DEF TypeOK, Worker, Start, BeginImmediate, BusyTimeout, Admit, Refuse,
     RaiseRateLimitExceeded, UpdateRow, DeleteRow
<1>7. ASSUME NEW x \in Requests, Commit(x), x # r
      PROVE  op[r] = "reserve" /\ pc[r] = "ok" /\ now'[r] = now[r] /\ est'[r] = est[r]
  BY <1>1, <1>2, <1>7 DEF TypeOK, Commit
<1>8. CASE Commit(r)
  <2>1. UNCHANGED <<clock, op, est, actual, now>> /\ pc' = [pc EXCEPT ![r] = "ok"]
    BY <1>8 DEF Commit
  <2>2. \A x \in Requests \ {r} : x \in Holding(tenant)' => x \in Holding(tenant)
    BY <1>1, <2>1 DEF Holding, Reserved, TypeOK
  <2>. QED
    BY <1>2, <1>8, <2>1, <2>2
<1>9. CASE Tick \/ Crash \/ UNCHANGED vars
  BY <1>1, <1>2, <1>4, <1>9 DEF Tick, Crash, vars, TypeOK
<1>. QED
  BY <1>4, <1>5, <1>6, <1>7, <1>8, <1>9 DEF Next, Terminating

LEMMA GiversStay ==
  ASSUME TableInv, CostInv, [Next]_vars, NEW tenant, NEW r \in Givers(tenant)
  PROVE  r \in Requests /\ r \in Givers(tenant)' /\ actual'[r] = actual[r]
<1>. USE DEF table, txn, answers
<1>1. TypeOK /\ r \in Requests /\ TenantOf[r] = tenant /\ actual[r] < 0 /\ op[r] = "reconcile"
  BY DEF Givers, CostInv, TableInv
<1>2. actual'[r] = actual[r]
  BY <1>1 DEF TypeOK, Reserved, Next, Caller, Worker, Terminating, vars, CallReserve, CallReconcile,
     CallRelease, DropQueued, Start, BeginImmediate, BusyTimeout, Admit, Refuse,
     RaiseRateLimitExceeded, UpdateRow, DeleteRow, Commit, Fault, Tick, Crash
<1>. QED
  BY <1>1, <1>2 DEF Givers

LEMMA ReservationsFitStep ==
  TableInv /\ TableInv' /\ ArgumentsInv /\ CostInv /\ GiversInv' /\ ReservationsFit
    /\ [Next]_vars => ReservationsFit'
<1>. SUFFICES ASSUME TableInv, TableInv', ArgumentsInv, CostInv, GiversInv',
                     ReservationsFit, [Next]_vars, NEW tenant \in Tenants
              PROVE  /\ IsFiniteSet(Holding(tenant)') /\ IsFiniteSet(Givers(tenant)')
                     /\ SumFunctionOnSet(est', Holding(tenant)') <= Limit + GivenBack(tenant)'
  BY DEF ReservationsFit
<1>. DEFINE H == Holding(tenant)
            K == Holding(tenant)'
            G == Givers(tenant)
            J == Givers(tenant)'
            v == [r \in Requests |-> -actual[r]]
            u == [r \in Requests |-> -actual'[r]]
<1>1. /\ IsFiniteSet(H) /\ IsFiniteSet(G) /\ IsFiniteSet(J)
      /\ GivenBack(tenant) = SumFunctionOnSet(v, G) /\ GivenBack(tenant)' = SumFunctionOnSet(u, J)
      /\ GivenBack(tenant) \in Nat /\ GivenBack(tenant)' \in Nat
      /\ \A r \in J : -actual'[r] \in Nat
      /\ SumFunctionOnSet(est, H) <= Limit + GivenBack(tenant)
  <2>1. /\ IsFiniteSet(J) /\ GivenBack(tenant)' \in Nat
        /\ \A r \in J : -actual'[r] \in Nat
    BY DEF GiversInv
  <2>. QED
    BY <2>1, GiversFinite DEF ReservationsFit, GivenBack
<1>2. /\ \A r \in H : r \in Requests /\ est[r] \in Nat
      /\ \A r \in K : r \in Requests /\ est'[r] \in Nat
  BY DEF Holding, TableInv, TypeOK
<1>3. G \in SUBSET J /\ \A r \in G : r \in Requests /\ u[r] = v[r]
  BY GiversStay
<1>4. \A r \in J : r \in Requests /\ u[r] \in Nat
  BY <1>1 DEF Givers
<1>5. Limit \in Nat
  BY ConstantsAssumption DEF ConstantsAssumption
<1>. HIDE DEF u, v
<1>6. GivenBack(tenant) <= GivenBack(tenant)'
  <2>. HIDE DEF G, J
  <2>1. SumFunctionOnSet(u, G) <= SumFunctionOnSet(u, J)
    BY <1>1, <1>3, <1>4, SumSubset
  <2>2. SumFunctionOnSet(u, G) = SumFunctionOnSet(v, G)
    BY <1>1, <1>3, SumAgree
  <2>. QED
    BY <1>1, <2>1, <2>2
<1>7. ASSUME K \subseteq H, \A r \in K : est'[r] = est[r]
      PROVE  IsFiniteSet(K) /\ SumFunctionOnSet(est', K) <= Limit + GivenBack(tenant)'
  <2>. HIDE DEF H, K, G, J
  <2>1. IsFiniteSet(K)
    BY <1>1, <1>7, FS_Subset
  <2>2. SumFunctionOnSet(est', K) = SumFunctionOnSet(est, K)
    BY <1>7, <2>1, SumAgree
  <2>3. SumFunctionOnSet(est, K) <= SumFunctionOnSet(est, H)
    BY <1>1, <1>2, <1>7, SumSubset
  <2>4. SumFunctionOnSet(est, H) \in Nat
    BY <1>1, <1>2, SumType
  <2>5. SumFunctionOnSet(est', K) \in Nat
    BY <1>2, <2>1, SumType
  <2>. QED
    BY <1>1, <1>5, <1>6, <2>1, <2>2, <2>3, <2>4, <2>5
<1>8. ASSUME NEW r \in K, r \notin H, Commit(r), op[r] = "reserve", UNCHANGED est,
             tenant = TenantOf[r], \A x \in Requests \ {r} : x \in K => x \in H
      PROVE  IsFiniteSet(K) /\ SumFunctionOnSet(est', K) <= Limit + GivenBack(tenant)'
  <2>1. r \in Requests /\ est[r] \in Nat /\ now[r] \in Nat /\ now[r] <= clock /\ PendingInsert(r)
    BY <1>2, <1>8 DEF Commit, PendingInsert, TableInv, TypeOK, ClockInv
  <2>2. Used(db, tenant, now[r] - Window) + est[r] <= Limit
    BY <1>8, <2>1 DEF TableInv, DecisionInv
  <2>3. /\ SumFunctionOnSet(est, H) <= Used(db, tenant, now[r] - Window) + GivenBack(tenant)
        /\ SumFunctionOnSet(est, H) \in Nat /\ Used(db, tenant, now[r] - Window) \in Int
    BY <2>1, HeldTokensAreUsed DEF ArgumentsInv
  <2>4. K \in SUBSET (H \cup {r})
    BY <1>2, <1>8
  <2>. HIDE DEF H, K, G, J
  <2>5. /\ IsFiniteSet(H \cup {r})
        /\ SumFunctionOnSet(est, H \cup {r}) = SumFunctionOnSet(est, H) + est[r]
    <3>1. \A x \in H \cup {r} : est[x] \in Int
      BY <1>2, <2>1
    <3>. QED
      BY <1>1, <1>8, <3>1, SumAdd
  <2>6. IsFiniteSet(K) /\ \A x \in H \cup {r} : est[x] \in Nat
    BY <1>2, <2>1, <2>4, <2>5, FS_Subset
  <2>7. SumFunctionOnSet(est, K) <= SumFunctionOnSet(est, H \cup {r})
    BY <2>4, <2>5, <2>6, SumSubset
  <2>8. SumFunctionOnSet(est, K) \in Nat
    BY <2>4, <2>6, SumType
  <2>9. SumFunctionOnSet(est, K) <= Limit + GivenBack(tenant)'
    BY <1>1, <1>5, <1>6, <2>1, <2>2, <2>3, <2>5, <2>7, <2>8
  <2>. QED
    BY <1>8, <2>6, <2>9
<1>9. CASE K \subseteq H /\ \A r \in K : est'[r] = est[r]
  BY <1>1, <1>7, <1>9
<1>10. CASE ~(K \subseteq H /\ \A r \in K : est'[r] = est[r])
  <2>1. PICK r \in K : ~(r \in H /\ est'[r] = est[r])
    BY <1>10
  <2>2. /\ Commit(r) /\ op[r] = "reserve" /\ UNCHANGED est /\ tenant = TenantOf[r]
        /\ \A x \in Requests \ {r} : x \in K => x \in H
    BY <1>2, <2>1, HoldersCome
  <2>3. r \notin H
    BY <2>1, <2>2
  <2>. HIDE DEF H, K, G
  <2>4. IsFiniteSet(K) /\ SumFunctionOnSet(est', K) <= Limit + GivenBack(tenant)'
    BY <1>8, <2>2, <2>3
  <2>. QED
    BY <1>1, <2>4 DEF K
<1>. QED
  BY <1>9, <1>10

LEMMA ReservationsFitInit == Init => ReservationsFit /\ CostInv
<1>. SUFFICES ASSUME Init
              PROVE  ReservationsFit /\ CostInv
  OBVIOUS
<1>1. CostInv
  BY DEF Init, CostInv
<1>2. \A tenant : Holding(tenant) = {} /\ Givers(tenant) = {}
  BY DEF Init, Holding, Reserved, Givers
<1>3. \A w : SumFunctionOnSet(w, {}) = 0
  BY SumEmpty
<1>4. \A tenant : GivenBack(tenant) = 0
  BY <1>2, <1>3 DEF GivenBack
<1>5. Limit \in Nat
  BY ConstantsAssumption DEF ConstantsAssumption
<1>. QED
  BY <1>1, <1>2, <1>3, <1>4, <1>5, FS_EmptySet DEF ReservationsFit

(* What a tenant's requests hold at one time is within the limit and what  *)
(* settlements below nothing gave back: a second request of the tenant     *)
(* does not buy it a second quota.                                         *)
THEOREM HoldersFit == Spec => []ReservationsFit
<1>1. IndInv => TableInv
  BY DEF IndInv
<1>2. TableInv => TypeOK /\ RowIdInv
  BY DEF TableInv
<1>3. TableInv /\ CostInv => GiversInv
  BY GiversFinite DEF GiversInv
<1>. QED
  BY <1>1, <1>2, <1>3, Inductive, ArgumentsKept, ReservationsFitInit, CostInvStep,
     ReservationsFitStep, PTL DEF Spec

-----------------------------------------------------------------------------
(***************************************************************************)
(* TokenLimiterFaults: a clock that is set back, processes that die and    *)
(* commits that a power cut undoes.                                        *)
(***************************************************************************)

LEMMA FaultsTypeInit == InitWithFaults => FaultsTypeOK
<1>. SUFFICES ASSUME InitWithFaults
              PROVE  FaultsTypeOK
  OBVIOUS
<1>1. Init /\ TypeOK
  BY TableInvInit DEF InitWithFaults, TableInv
<1>2. db = {} /\ synced = [db |-> {}, seq |-> 0] /\ real = 0 /\ born = [r \in Requests |-> 0]
  BY DEF InitWithFaults, Init
<1>. QED
  BY <1>1, <1>2, FS_EmptySet DEF FaultsTypeOK

LEMMA FaultsTypeStep ==
  ASSUME FaultsTypeOK, LockInv, RowIdInv, ViewInv, [NextWithFaults]_allVars
  PROVE  FaultsTypeOK'
<1>. USE DEF FaultsTypeOK
<1>1. CASE Limiting
  <2>1. [Next]_vars
    BY <1>1 DEF Limiting, Next
  <2>2. TypeOK'
    BY <2>1, TypingStep
  <2>3. IsFiniteSet(db')
    BY <2>1, OnlyCommitWrites, CommitKeepsFinite
  <2>4. real' = real /\ synced' = synced /\ born' \in [Requests -> Nat]
    BY <1>1 DEF Limiting
  <2>. QED
    BY <2>2, <2>3, <2>4
<1>2. CASE TimePasses
  <2>1. [Next]_vars /\ db' = db
    BY <1>2 DEF TimePasses, Next, Tick, table
  <2>2. TypeOK'
    BY <2>1, TypingStep
  <2>. QED
    BY <1>2, <2>1, <2>2 DEF TimePasses
<1>3. CASE SetBack
  <2>1. /\ \E t \in 0..clock - 1 : clock' = t
        /\ UNCHANGED <<db, seq, lock, view, op, pc, est, actual, now, rowId, retry, oldest>>
        /\ UNCHANGED <<real, born, synced>>
    BY <1>3 DEF SetBack, table, txn, answers, faultVars
  <2>2. clock' \in 0..MaxClock
    BY <2>1, ConstantsAssumption DEF ConstantsAssumption, TypeOK
  <2>. QED
    BY <2>1, <2>2 DEF TypeOK
<1>4. ASSUME NEW dead, Die(dead)
      PROVE  /\ db' \in SUBSET Row /\ seq' \in Nat => TypeOK'
             /\ UNCHANGED <<real, born>>
  BY <1>4 DEF Die, TypeOK, InFlight
<1>5. CASE ProcessDies
  BY <1>4, <1>5 DEF ProcessDies, TypeOK, table
<1>6. CASE Sync
  <2>1. TypeOK'
    BY <1>6 DEF Sync, vars, TypeOK
  <2>2. synced' = [db |-> db, seq |-> seq] /\ UNCHANGED <<db, seq, real, born>>
    BY <1>6 DEF Sync, vars
  <2>. QED
    BY <2>1, <2>2 DEF TypeOK
<1>7. CASE PowerCut
  <2>1. db' = synced.db /\ seq' = synced.seq /\ synced' = synced
    BY <1>7 DEF PowerCut
  <2>. QED
    BY <1>4, <1>7, <2>1 DEF PowerCut
<1>8. CASE UNCHANGED allVars
  BY <1>8 DEF allVars, vars, faultVars, TypeOK
<1>. QED
  BY <1>1, <1>2, <1>3, <1>5, <1>6, <1>7, <1>8
     DEF NextWithFaults, Finished, Terminating, allVars

(* What most steps have in common: the table stays, the clock gains        *)
(* nothing on real time, and nobody comes to hold or to insert a row.      *)
Undisturbed ==
  /\ UNCHANGED <<db, seq>>
  /\ real <= real' /\ clock' - clock <= real' - real
  /\ synced' = synced \/ synced' = [db |-> db, seq |-> seq]
  /\ \A r \in Requests : Unanswered(r)' /\ rowId'[r] # 0 =>
       /\ Unanswered(r)
       /\ UNCHANGED <<rowId[r], now[r], est[r], born[r]>>
       /\ RowOf(r)' = RowOf(r)
       /\ PendingInsert(r)' <=> PendingInsert(r)
  /\ \A r \in Requests : PendingInsert(r)' => rowId'[r] # 0 /\ Unanswered(r)'

(* Who holds a row has an id, and is not about to insert it. *)
LEMMA Holders ==
  ASSUME NEW r \in Requests
  PROVE  Holds(r) <=> Unanswered(r) /\ rowId[r] # 0 /\ ~PendingInsert(r)
BY DEF Holds, Committed, PendingInsert

(* The tokens of those who hold a row fit if they are no more than before. *)
InWindow(tenant) == {r \in Requests : TenantOf[r] = tenant /\ Holds(r) /\ WithinRealWindow(r)}

LEMMA InWindowFinite ==
  ASSUME FaultsInv, NEW tenant
  PROVE  /\ IsFiniteSet(InWindow(tenant))
         /\ \A r \in InWindow(tenant) : RowOf(r) \in db /\ RowOf(r).id = rowId[r]
<1>1. \A r \in Requests : RowOf(r).id = rowId[r]
  BY DEF RowOf
<1>2. \A r \in InWindow(tenant) : r \in Requests /\ RowOf(r) \in db
  BY DEF FaultsInv, SettlementsFindTheirRow, InWindow
<1>. DEFINE g == [r \in InWindow(tenant) |-> RowOf(r)]
<1>3. \A r \in InWindow(tenant) : g[r] \in db /\ g[r].id = rowId[r]
  BY <1>1, <1>2
<1>4. g \in [InWindow(tenant) -> db]
  BY <1>2
<1>. HIDE DEF g
<1>5. \A r, s \in InWindow(tenant) : g[r] = g[s] => r = s
  <2>. SUFFICES ASSUME NEW r \in InWindow(tenant), NEW s \in InWindow(tenant), g[r] = g[s], r # s
                PROVE  FALSE
    OBVIOUS
  <2>1. r \in Requests /\ s \in Requests /\ Holds(r) /\ Holds(s) /\ rowId[r] = rowId[s]
    BY <1>3 DEF InWindow
  <2>. QED
    BY <2>1 DEF FaultsInv, LivingIdsInv
<1>6. g \in Injection(InWindow(tenant), db)
  BY <1>4, <1>5 DEF Injection, IsInjective
<1>. QED
  BY <1>1, <1>2, <1>6, FS_Injection DEF FaultsInv, FaultsTypeOK

LEMMA FewerHolders ==
  ASSUME FaultsInv,
         \A r \in Requests : Holds(r)' /\ WithinRealWindow(r)' =>
           Holds(r) /\ WithinRealWindow(r) /\ est'[r] = est[r]
  PROVE  InFlightFitsRealTime'
<1>. SUFFICES ASSUME NEW tenant \in Tenants
              PROVE  SumFunctionOnSet(est', InWindow(tenant)') <= Limit
  BY Zenon DEF InFlightFitsRealTime, InWindow
<1>. DEFINE S == InWindow(tenant)
            T == InWindow(tenant)'
<1>1. IsFiniteSet(S) /\ T \in SUBSET S /\ \A r \in T : est'[r] = est[r]
  BY InWindowFinite DEF InWindow
<1>2. \A r \in S : est[r] \in Nat
  BY DEF InWindow, FaultsInv, FaultsTypeOK, TypeOK
<1>3. SumFunctionOnSet(est, S) <= Limit
  BY Zenon DEF FaultsInv, InFlightFitsRealTime, InWindow
<1>. HIDE DEF S, T
<1>4. IsFiniteSet(T) /\ \A r \in T : est[r] \in Nat
  BY <1>1, <1>2, FS_Subset
<1>5. SumFunctionOnSet(est', T) = SumFunctionOnSet(est, T)
  BY <1>1, <1>4, SumAgree
<1>6. SumFunctionOnSet(est, T) <= SumFunctionOnSet(est, S)
  BY <1>1, <1>2, SumSubset
<1>7. SumFunctionOnSet(est, T) \in Nat /\ SumFunctionOnSet(est, S) \in Nat
  BY <1>1, <1>2, <1>4, SumType
<1>8. SumFunctionOnSet(est', T) <= Limit
  BY <1>3, <1>5, <1>6, <1>7, ConstantsAssumption DEF ConstantsAssumption
<1>. QED
  BY <1>8 DEF T

LEMMA UndisturbedKeeps ==
  ASSUME FaultsInv, FaultsTypeOK', Undisturbed
  PROVE  LivingIdsInv' /\ DriftInv' /\ FittingInv' /\ SettlementsFindTheirRow' /\ InFlightFitsRealTime'
<1>. USE DEF FaultsTypeOK
<1>1. /\ clock \in Nat /\ clock' \in Nat /\ real \in Nat /\ real' \in Nat /\ Window \in Nat
      /\ \A r \in Requests : now[r] \in Nat /\ born[r] \in Nat /\ rowId[r] \in Nat
  BY ConstantsAssumption DEF ConstantsAssumption, FaultsInv, TypeOK
<1>2. \A r \in Requests : Holds(r)' =>
        Holds(r) /\ UNCHANGED <<rowId[r], now[r], est[r], born[r]>> /\ RowOf(r)' = RowOf(r)
  BY Holders DEF Undisturbed, Holds, Committed, PendingInsert
<1>3. \A r \in Requests : PendingInsert(r)' =>
        /\ PendingInsert(r) /\ Unanswered(r) /\ rowId[r] # 0
        /\ UNCHANGED <<rowId[r], now[r], est[r], born[r]>>
  BY DEF Undisturbed
<1>4. LivingIdsInv'
  <2>1. /\ \A q \in db' : q.id \in 1..seq'
        /\ \A q \in synced'.db : q.id \in 1..synced'.seq
    BY DEF Undisturbed, FaultsInv, LivingIdsInv
  <2>2. \A r \in Requests : Unanswered(r)' =>
          IF PendingInsert(r)' THEN rowId'[r] = seq' + 1 ELSE rowId'[r] <= seq'
    <3>. SUFFICES ASSUME NEW r \in Requests, Unanswered(r)'
                  PROVE  IF PendingInsert(r)' THEN rowId'[r] = seq' + 1 ELSE rowId'[r] <= seq'
      OBVIOUS
    <3>1. seq' = seq /\ seq \in Nat
      BY DEF Undisturbed, FaultsInv, TypeOK
    <3>2. CASE rowId'[r] # 0
      BY <3>1, <3>2 DEF Undisturbed, FaultsInv, LivingIdsInv
    <3>3. CASE rowId'[r] = 0
      BY <3>1, <3>3 DEF Undisturbed
    <3>. QED
      BY <3>2, <3>3
  <2>3. \A r, s \in Requests : r # s /\ Holds(r)' /\ Holds(s)' => rowId'[r] # rowId'[s]
    BY <1>2 DEF FaultsInv, LivingIdsInv
  <2>. QED
    BY <2>1, <2>2, <2>3 DEF LivingIdsInv
<1>5. DriftInv'
  <2>1. real <= real' /\ clock' - clock <= real' - real
    BY DEF Undisturbed
  <2>2. ASSUME NEW r \in Requests, Unanswered(r)', rowId'[r] # 0
        PROVE  clock' - now'[r] <= real' - born'[r]
    <3>1. Unanswered(r) /\ rowId[r] # 0 /\ now'[r] = now[r] /\ born'[r] = born[r]
      BY <2>2 DEF Undisturbed
    <3>2. clock - now[r] <= real - born[r]
      BY <3>1 DEF FaultsInv, DriftInv
    <3>. QED
      BY <1>1, <2>1, <3>1, <3>2
  <2>3. ASSUME NEW p \in Requests, NEW r \in Requests, PendingInsert(p)', Holds(r)'
        PROVE  now'[p] - now'[r] <= real' - born'[r]
    <3>1. /\ PendingInsert(p) /\ Holds(r) /\ now'[p] = now[p] /\ now'[r] = now[r]
          /\ born'[r] = born[r]
      BY <1>2, <1>3, <2>3
    <3>2. now[p] - now[r] <= real - born[r]
      BY <3>1 DEF FaultsInv, DriftInv
    <3>. QED
      BY <1>1, <2>1, <3>1, <3>2
  <2>. QED
    BY <2>2, <2>3 DEF DriftInv
<1>6. FittingInv'
  <2>. SUFFICES ASSUME NEW r \in Requests, PendingInsert(r)'
                PROVE  Used(db, TenantOf[r], now[r] - Window) + est[r] <= Limit
    BY <1>3, Zenon DEF FittingInv, Undisturbed, Used, Counted, SumTokens
  <2>. QED
    BY <1>3 DEF FaultsInv, FittingInv
<1>7. \A r \in Requests : Holds(r)' /\ WithinRealWindow(r)' =>
        Holds(r) /\ WithinRealWindow(r) /\ est'[r] = est[r]
  BY <1>1, <1>2 DEF WithinRealWindow, Undisturbed
<1>8. SettlementsFindTheirRow'
  <2>. SUFFICES ASSUME NEW r \in Requests, Holds(r)'
                PROVE  LET found == {q \in db' : q.id = rowId'[r]}
                       IN  IF found = {} THEN ~WithinRealWindow(r)' ELSE found = {RowOf(r)'}
    BY DEF SettlementsFindTheirRow
  <2>1. db' = db /\ rowId'[r] = rowId[r] /\ RowOf(r)' = RowOf(r) /\ Holds(r)
    BY <1>2 DEF Undisturbed
  <2>. QED
    BY <1>7, <2>1 DEF FaultsInv, SettlementsFindTheirRow
<1>. QED
  BY <1>4, <1>5, <1>6, <1>7, <1>8, FewerHolders


(* The steps of a request that leave the table alone and insert nothing. *)
LEMMA QuietSteps ==
  ASSUME FaultsInv, Limiting, NEW r \in Requests,
         \/ \E n \in Estimates : CallReserve(r, n)
         \/ \E n \in Actuals : CallReconcile(r, n)
         \/ CallRelease(r) \/ DropQueued(r) \/ Start(r) \/ BeginImmediate(r) \/ BusyTimeout(r)
         \/ Refuse(r) \/ RaiseRateLimitExceeded(r) \/ UpdateRow(r) \/ DeleteRow(r) \/ Fault(r)
  PROVE  LockInv' /\ RowIdInv' /\ ViewInv' /\ Undisturbed
<1>. USE DEF TypeOK, InFlight, table, txn, answers
<1>0. /\ TypeOK /\ LockInv /\ RowIdInv /\ ViewInv /\ LivingIdsInv /\ NoOne \notin Requests
      /\ real \in Nat /\ born \in [Requests -> Nat] /\ UNCHANGED <<real, synced>>
      /\ \A x \in Requests : ~(PendingInsert(x)' /\ ~PendingInsert(x)) => born'[x] = born[x]
  BY ConstantsAssumption DEF ConstantsAssumption, FaultsInv, FaultsTypeOK, Limiting
<1>1. ASSUME NEW n \in Estimates, CallReserve(r, n)
      PROVE  LockInv' /\ RowIdInv' /\ ViewInv' /\ Undisturbed
  <2>1. LockInv' /\ RowIdInv'
    BY <1>0, <1>1 DEF CallReserve, LockInv, RowIdInv, Reserved
  <2>2. ViewInv'
    BY <1>0, <1>1 DEF CallReserve, LockInv, RowIdInv, Reserved, ViewInv, PendingInsert, RowOf
  <2>3. Undisturbed
    BY <1>0, <1>1 DEF CallReserve, Undisturbed, LockInv, RowIdInv, Reserved, LivingIdsInv, PendingInsert, RowOf,
       Unanswered, Answered, Settled
  <2>. QED
    BY <2>1, <2>2, <2>3
<1>2. ASSUME NEW n \in Actuals, CallReconcile(r, n)
      PROVE  LockInv' /\ RowIdInv' /\ ViewInv' /\ Undisturbed
  <2>1. LockInv' /\ RowIdInv'
    BY <1>0, <1>2 DEF CallReconcile, LockInv, RowIdInv, Reserved
  <2>2. ViewInv'
    BY <1>0, <1>2 DEF CallReconcile, LockInv, RowIdInv, Reserved, ViewInv, PendingInsert, RowOf
  <2>3. Undisturbed
    BY <1>0, <1>2 DEF CallReconcile, Undisturbed, LockInv, RowIdInv, Reserved, LivingIdsInv, PendingInsert, RowOf,
       Unanswered, Answered, Settled
  <2>. QED
    BY <2>1, <2>2, <2>3
<1>3. ASSUME CallRelease(r)
      PROVE  LockInv' /\ RowIdInv' /\ ViewInv' /\ Undisturbed
  <2>1. LockInv' /\ RowIdInv'
    BY <1>0, <1>3 DEF CallRelease, LockInv, RowIdInv, Reserved
  <2>2. ViewInv'
    BY <1>0, <1>3 DEF CallRelease, LockInv, RowIdInv, Reserved, ViewInv, PendingInsert, RowOf
  <2>3. Undisturbed
    BY <1>0, <1>3 DEF CallRelease, Undisturbed, LockInv, RowIdInv, Reserved, LivingIdsInv, PendingInsert, RowOf,
       Unanswered, Answered, Settled
  <2>. QED
    BY <2>1, <2>2, <2>3
<1>4. ASSUME DropQueued(r)
      PROVE  LockInv' /\ RowIdInv' /\ ViewInv' /\ Undisturbed
  <2>1. LockInv' /\ RowIdInv'
    BY <1>0, <1>4 DEF DropQueued, LockInv, RowIdInv, Reserved
  <2>2. ViewInv'
    BY <1>0, <1>4 DEF DropQueued, LockInv, RowIdInv, Reserved, ViewInv, PendingInsert, RowOf
  <2>3. Undisturbed
    BY <1>0, <1>4 DEF DropQueued, Undisturbed, LockInv, RowIdInv, Reserved, LivingIdsInv, PendingInsert, RowOf,
       Unanswered, Answered, Settled
  <2>. QED
    BY <2>1, <2>2, <2>3
<1>5. ASSUME Start(r)
      PROVE  LockInv' /\ RowIdInv' /\ ViewInv' /\ Undisturbed
  <2>1. LockInv' /\ RowIdInv'
    BY <1>0, <1>5 DEF Start, LockInv, RowIdInv, Reserved
  <2>2. ViewInv'
    BY <1>0, <1>5 DEF Start, LockInv, RowIdInv, Reserved, ViewInv, PendingInsert, RowOf
  <2>3. Undisturbed
    BY <1>0, <1>5 DEF Start, Undisturbed, LockInv, RowIdInv, Reserved, LivingIdsInv, PendingInsert, RowOf,
       Unanswered, Answered, Settled
  <2>. QED
    BY <2>1, <2>2, <2>3
<1>6. ASSUME BeginImmediate(r)
      PROVE  LockInv' /\ RowIdInv' /\ ViewInv' /\ Undisturbed
  <2>1. LockInv' /\ RowIdInv'
    BY <1>0, <1>6 DEF BeginImmediate, LockInv, RowIdInv, Reserved
  <2>2. ViewInv'
    BY <1>0, <1>6 DEF BeginImmediate, LockInv, RowIdInv, Reserved, ViewInv, PendingInsert, RowOf
  <2>3. Undisturbed
    BY <1>0, <1>6 DEF BeginImmediate, Undisturbed, LockInv, RowIdInv, Reserved, LivingIdsInv, PendingInsert, RowOf,
       Unanswered, Answered, Settled
  <2>. QED
    BY <2>1, <2>2, <2>3
<1>7. ASSUME BusyTimeout(r)
      PROVE  LockInv' /\ RowIdInv' /\ ViewInv' /\ Undisturbed
  <2>1. LockInv' /\ RowIdInv'
    BY <1>0, <1>7 DEF BusyTimeout, LockInv, RowIdInv, Reserved
  <2>2. ViewInv'
    BY <1>0, <1>7 DEF BusyTimeout, LockInv, RowIdInv, Reserved, ViewInv, PendingInsert, RowOf
  <2>3. Undisturbed
    BY <1>0, <1>7 DEF BusyTimeout, Undisturbed, LockInv, RowIdInv, Reserved, LivingIdsInv, PendingInsert, RowOf,
       Unanswered, Answered, Settled
  <2>. QED
    BY <2>1, <2>2, <2>3
<1>8. ASSUME Refuse(r)
      PROVE  LockInv' /\ RowIdInv' /\ ViewInv' /\ Undisturbed
  <2>1. LockInv' /\ RowIdInv'
    BY <1>0, <1>8 DEF Refuse, LockInv, RowIdInv, Reserved
  <2>2. ViewInv'
    BY <1>0, <1>8 DEF Refuse, LockInv, RowIdInv, Reserved, ViewInv, PendingInsert, RowOf
  <2>3. Undisturbed
    BY <1>0, <1>8 DEF Refuse, Undisturbed, LockInv, RowIdInv, Reserved, LivingIdsInv, PendingInsert, RowOf,
       Unanswered, Answered, Settled
  <2>. QED
    BY <2>1, <2>2, <2>3
<1>9. ASSUME RaiseRateLimitExceeded(r)
      PROVE  LockInv' /\ RowIdInv' /\ ViewInv' /\ Undisturbed
  <2>1. LockInv' /\ RowIdInv'
    BY <1>0, <1>9 DEF RaiseRateLimitExceeded, LockInv, RowIdInv, Reserved
  <2>2. ViewInv'
    BY <1>0, <1>9 DEF RaiseRateLimitExceeded, LockInv, RowIdInv, Reserved, ViewInv, PendingInsert, RowOf
  <2>3. Undisturbed
    BY <1>0, <1>9 DEF RaiseRateLimitExceeded, Undisturbed, LockInv, RowIdInv, Reserved, LivingIdsInv, PendingInsert, RowOf,
       Unanswered, Answered, Settled
  <2>. QED
    BY <2>1, <2>2, <2>3
<1>10. ASSUME UpdateRow(r)
      PROVE  LockInv' /\ RowIdInv' /\ ViewInv' /\ Undisturbed
  <2>1. LockInv' /\ RowIdInv'
    BY <1>0, <1>10 DEF UpdateRow, LockInv, RowIdInv, Reserved
  <2>2. ViewInv'
    BY <1>0, <1>10 DEF UpdateRow, LockInv, RowIdInv, Reserved, ViewInv, PendingInsert, RowOf
  <2>3. Undisturbed
    BY <1>0, <1>10 DEF UpdateRow, Undisturbed, LockInv, RowIdInv, Reserved, LivingIdsInv, PendingInsert, RowOf,
       Unanswered, Answered, Settled
  <2>. QED
    BY <2>1, <2>2, <2>3
<1>11. ASSUME DeleteRow(r)
      PROVE  LockInv' /\ RowIdInv' /\ ViewInv' /\ Undisturbed
  <2>1. LockInv' /\ RowIdInv'
    BY <1>0, <1>11 DEF DeleteRow, LockInv, RowIdInv, Reserved
  <2>2. ViewInv'
    BY <1>0, <1>11 DEF DeleteRow, LockInv, RowIdInv, Reserved, ViewInv, PendingInsert, RowOf
  <2>3. Undisturbed
    BY <1>0, <1>11 DEF DeleteRow, Undisturbed, LockInv, RowIdInv, Reserved, LivingIdsInv, PendingInsert, RowOf,
       Unanswered, Answered, Settled
  <2>. QED
    BY <2>1, <2>2, <2>3
<1>12. ASSUME Fault(r)
      PROVE  LockInv' /\ RowIdInv' /\ ViewInv' /\ Undisturbed
  <2>1. LockInv' /\ RowIdInv'
    BY <1>0, <1>12 DEF Fault, LockInv, RowIdInv, Reserved
  <2>2. ViewInv'
    BY <1>0, <1>12 DEF Fault, LockInv, RowIdInv, Reserved, ViewInv, PendingInsert, RowOf
  <2>3. Undisturbed
    BY <1>0, <1>12 DEF Fault, Undisturbed, LockInv, RowIdInv, Reserved, LivingIdsInv, PendingInsert, RowOf,
       Unanswered, Answered, Settled
  <2>. QED
    BY <2>1, <2>2, <2>3
<1>. QED
  BY <1>1, <1>2, <1>3, <1>4, <1>5, <1>6, <1>7, <1>8, <1>9, <1>10, <1>11, <1>12

LEMMA AdmitUnderFaults ==
  ASSUME FaultsInv, FaultsTypeOK', Limiting, NEW r \in Requests, Admit(r)
  PROVE  FaultsInv'
<1>. USE ConstantsAssumption DEF ConstantsAssumption, TypeOK, InFlight, table, txn, answers
<1>. DEFINE kept == Evict(db, clock - Window)
            row == [id |-> seq + 1, tenant |-> TenantOf[r], ts |-> clock, tokens |-> est[r]]
<1>0. /\ TypeOK /\ LockInv /\ RowIdInv /\ ViewInv /\ LivingIdsInv /\ DriftInv /\ FittingInv
      /\ SettlementsFindTheirRow
      /\ real \in Nat /\ born \in [Requests -> Nat] /\ UNCHANGED <<real, synced>>
      /\ born' = [x \in Requests |-> IF PendingInsert(x)' /\ ~PendingInsert(x) THEN real ELSE born[x]]
  BY DEF FaultsInv, FaultsTypeOK, Limiting
<1>1. /\ op[r] = "reserve" /\ pc[r] = "txn" /\ view[r] = db
      /\ pc' = [pc EXCEPT ![r] = "commit"] /\ now' = [now EXCEPT ![r] = clock]
      /\ UNCHANGED <<clock, db, seq, lock, op, est, actual, retry, oldest>>
  BY <1>0 DEF Admit, ViewInv
<1>2. /\ view' = [view EXCEPT ![r] = kept \cup {row}]
      /\ rowId' = [rowId EXCEPT ![r] = seq + 1]
      /\ Fits(kept, r, clock)
  BY <1>1 DEF Admit, NextRowId
<1>3. \A x \in Requests \ {r} : ~PendingInsert(x) /\ pc[x] \notin {"txn", "commit"}
  BY <1>0, <1>1 DEF LockInv, PendingInsert
<1>4. RowOf(r)' = row /\ \A x \in Requests \ {r} : RowOf(x)' = RowOf(x)
  BY <1>0, <1>1, <1>2 DEF RowOf
<1>5. /\ PendingInsert(r)' /\ ~PendingInsert(r) /\ ~Holds(r)' /\ born'[r] = real
      /\ \A x \in Requests \ {r} : ~PendingInsert(x)' /\ born'[x] = born[x]
           /\ (Unanswered(x)' <=> Unanswered(x)) /\ (Holds(x)' <=> Holds(x))
  BY <1>0, <1>1, <1>2, <1>3
     DEF PendingInsert, Holds, Committed, Unanswered, Answered, Settled
<1>6. LockInv' /\ RowIdInv'
  BY <1>0, <1>1, <1>2 DEF LockInv, RowIdInv, Reserved
<1>. HIDE DEF kept, row
<1>7. ViewInv'
  BY <1>0, <1>1, <1>2, <1>3, <1>4, <1>5 DEF ViewInv, PendingInsert, kept
<1>8. LivingIdsInv'
  BY <1>0, <1>1, <1>2, <1>3, <1>5 DEF LivingIdsInv
<1>9. DriftInv'
  <2>1. \A x \in Requests : Unanswered(x)' /\ rowId'[x] # 0 => clock' - now'[x] <= real' - born'[x]
    BY <1>0, <1>1, <1>2, <1>5 DEF DriftInv
  <2>2. ASSUME NEW p \in Requests, NEW x \in Requests, PendingInsert(p)', Holds(x)'
        PROVE  now'[p] - now'[x] <= real' - born'[x]
    <3>1. p = r /\ x # r /\ Holds(x)
      BY <1>5, <2>2
    <3>2. Unanswered(x) /\ rowId[x] # 0
      BY <3>1 DEF Holds, Committed
    <3>. QED
      BY <1>0, <1>1, <1>5, <3>1, <3>2 DEF DriftInv
  <2>. QED
    BY <2>1, <2>2 DEF DriftInv
<1>10. FittingInv'
  <2>1. Used(kept, TenantOf[r], clock - Window) + est[r] <= Limit
    BY <1>2 DEF Fits
  <2>2. Used(db, TenantOf[r], clock - Window) + est[r] <= Limit
    BY <1>0, <2>1, EvictKeepsUsed DEF kept
  <2>. QED
    BY <1>0, <1>1, <1>5, <2>2 DEF FittingInv, Used, Counted, SumTokens
<1>11. SettlementsFindTheirRow'
  <2>. SUFFICES ASSUME NEW x \in Requests, Holds(x)'
                PROVE  LET found == {q \in db' : q.id = rowId'[x]}
                       IN  IF found = {} THEN ~WithinRealWindow(x)' ELSE found = {RowOf(x)'}
    BY DEF SettlementsFindTheirRow
  <2>1. x # r /\ Holds(x) /\ rowId'[x] = rowId[x] /\ RowOf(x)' = RowOf(x)
    BY <1>0, <1>2, <1>4, <1>5
  <2>2. WithinRealWindow(x)' <=> WithinRealWindow(x)
    BY <1>0, <1>5, <2>1 DEF WithinRealWindow
  <2>. QED
    BY <1>0, <1>1, <2>1, <2>2 DEF SettlementsFindTheirRow
<1>12. InFlightFitsRealTime'
  <2>1. \A x \in Requests : Holds(x)' /\ WithinRealWindow(x)' =>
          Holds(x) /\ WithinRealWindow(x) /\ est'[x] = est[x]
    BY <1>0, <1>1, <1>5 DEF WithinRealWindow
  <2>. QED
    BY <2>1, FewerHolders
<1>. QED
  BY <1>6, <1>7, <1>8, <1>9, <1>10, <1>11, <1>12 DEF FaultsInv

(* The calls that are in flight are among those an admission counted.      *)
LEMMA InWindowIsUsed ==
  ASSUME Actuals \subseteq Nat, FaultsInv, NEW r \in Requests, PendingInsert(r), NEW tenant
  PROVE  /\ SumFunctionOnSet(est, InWindow(tenant)) <= Used(db, tenant, now[r] - Window)
         /\ Used(db, tenant, now[r] - Window) \in Nat
         /\ SumFunctionOnSet(est, InWindow(tenant)) \in Nat
<1>. DEFINE S == InWindow(tenant)
            C == Counted(db, tenant, now[r] - Window)
            v == [q \in C |-> q.tokens]
            h == [x \in S |-> RowOf(x)]
<1>1. /\ IsFiniteSet(S) /\ IsFiniteSet(db) /\ C \in SUBSET db
      /\ \A x \in S : RowOf(x) \in db /\ RowOf(x).id = rowId[x]
  BY InWindowFinite DEF FaultsInv, FaultsTypeOK, Counted
<1>2. IsFiniteSet(C) /\ \A q \in C : v[q] \in Nat
  BY <1>1, FS_Subset DEF FaultsInv, FaultsTypeOK, TypeOK, Row, TokenCounts
<1>3. ASSUME NEW x \in S
      PROVE  /\ h[x] \in C /\ v[h[x]] = est[x] /\ est[x] \in Nat
             /\ h[x].id = rowId[x] /\ x \in Requests /\ Holds(x)
  <2>1. x \in Requests /\ TenantOf[x] = tenant /\ Holds(x) /\ WithinRealWindow(x)
    BY DEF InWindow
  <2>2. ~(op[x] = "reconcile" /\ pc[x] = "ok")
    BY <2>1 DEF Holds, Unanswered, Answered, Settled
  <2>3. RowOf(x).tenant = tenant /\ RowOf(x).ts = now[x] /\ RowOf(x).tokens = est[x]
    BY <2>1, <2>2 DEF RowOf
  <2>4. now[r] - now[x] <= real - born[x] /\ real - born[x] <= Window
    BY <2>1 DEF FaultsInv, DriftInv, WithinRealWindow
  <2>5. now[r] \in Nat /\ now[x] \in Nat /\ real \in Nat /\ born[x] \in Nat /\ Window \in Nat
        /\ est[x] \in Nat
    BY <2>1, ConstantsAssumption DEF ConstantsAssumption, FaultsInv, FaultsTypeOK, TypeOK
  <2>6. now[x] >= now[r] - Window
    BY <2>4, <2>5
  <2>7. RowOf(x) \in C
    BY <1>1, <2>3, <2>6 DEF Counted
  <2>. QED
    BY <1>1, <2>1, <2>3, <2>5, <2>7
<1>4. Used(db, tenant, now[r] - Window) = SumFunctionOnSet(v, C)
  BY DEF Used, SumTokens, SumFunction
<1>. HIDE DEF S, C, v, h
<1>5. \A x, y \in S : h[x] = h[y] => x = y
  BY <1>3 DEF FaultsInv, LivingIdsInv
<1>6. Renames(h, S, v, est)
  BY <1>3, <1>5 DEF Renames
<1>7. SumFunctionOnSet(v, {h[x] : x \in S}) = SumFunctionOnSet(est, S)
  BY <1>1, <1>6, SumRenamed
<1>8. {h[x] : x \in S} \in SUBSET C
  BY <1>3
<1>9. SumFunctionOnSet(v, {h[x] : x \in S}) <= SumFunctionOnSet(v, C)
  BY <1>2, <1>8, SumSubset
<1>10. SumFunctionOnSet(v, C) \in Nat /\ SumFunctionOnSet(est, S) \in Nat
  BY <1>1, <1>2, <1>3, SumType
<1>. QED
  BY <1>4, <1>7, <1>9, <1>10 DEF S

(* A COMMIT installs what its transaction decided: a row that fits, or one  *)
(* row settled or withdrawn, and everybody else's row stays.                *)
LEMMA CommitUnderFaults ==
  ASSUME Actuals \subseteq Nat, FaultsInv, FaultsTypeOK', Limiting, NEW r \in Requests, Commit(r)
  PROVE  FaultsInv'
<1>. USE ConstantsAssumption DEF ConstantsAssumption, TypeOK, InFlight, table, txn, answers
<1>0. /\ TypeOK /\ LockInv /\ RowIdInv /\ ViewInv /\ LivingIdsInv /\ DriftInv /\ FittingInv
      /\ SettlementsFindTheirRow
      /\ real \in Nat /\ born \in [Requests -> Nat] /\ UNCHANGED <<real, synced>>
      /\ born' = [x \in Requests |-> IF PendingInsert(x)' /\ ~PendingInsert(x) THEN real ELSE born[x]]
  BY DEF FaultsInv, FaultsTypeOK, Limiting
<1>1. /\ pc[r] = "commit" /\ lock = r
      /\ pc' = [pc EXCEPT ![r] = "ok"] /\ lock' = NoOne /\ view' = [view EXCEPT ![r] = {}]
      /\ seq' = IF op[r] = "reserve" THEN rowId[r] ELSE seq
      /\ UNCHANGED <<clock, op, est, actual, now, rowId>>
  BY <1>0 DEF Commit, LockInv
<1>2. /\ \A x \in Requests : ~PendingInsert(x)'
      /\ \A x \in Requests \ {r} : pc[x] \notin {"txn", "commit"} /\ ~PendingInsert(x)
      /\ born' = born
  BY <1>0, <1>1 DEF LockInv, PendingInsert
<1>3. /\ op[r] \in {"reserve", "reconcile", "release"} /\ Unanswered(r)
      /\ \A q \in db : q.id \in 1..seq /\ q.ts \in Nat
  BY <1>0, <1>1 DEF RowIdInv, LivingIdsInv, Row, Unanswered, Answered, Settled
<1>4. \A x \in Requests \ {r} :
        /\ (Holds(x)' <=> Holds(x)) /\ (Unanswered(x)' <=> Unanswered(x))
        /\ RowOf(x)' = RowOf(x) /\ (WithinRealWindow(x)' <=> WithinRealWindow(x))
  BY <1>0, <1>1, <1>2 DEF Holds, Committed, Unanswered, Answered, Settled, RowOf, WithinRealWindow
<1>5. LockInv' /\ RowIdInv'
  <2>1. rowId[r] # 0
    BY <1>0, <1>1, <1>3 DEF RowIdInv, LivingIdsInv, PendingInsert
  <2>. QED
    BY <1>0, <1>1, <1>2, <1>3, <2>1 DEF LockInv, RowIdInv, Reserved
<1>6. ViewInv' /\ FittingInv'
  <2>1. \A x \in Requests : pc'[x] \notin {"txn", "commit"}
    BY <1>0, <1>1, <1>2
  <2>. QED
    BY <1>2, <2>1 DEF ViewInv, FittingInv
<1>7. DriftInv'
  BY <1>0, <1>1, <1>2, <1>3, <1>4 DEF DriftInv
<1>8. \A x \in Requests \ {r} : Unanswered(x) => rowId[x] <= seq
  BY <1>0, <1>2 DEF LivingIdsInv
<1>9. CASE op[r] = "reserve"
  <2>. DEFINE row == RowOf(r)
  <2>1. PendingInsert(r) /\ rowId[r] = seq + 1 /\ seq' = seq + 1
    BY <1>0, <1>1, <1>3, <1>9 DEF PendingInsert, LivingIdsInv
  <2>2. db' = Evict(db, now[r] - Window) \cup {row}
    BY <1>0, <1>9, ViewInstalls
  <2>3. row.id = seq + 1 /\ RowOf(r)' = row
    BY <1>1, <1>9, <2>1 DEF RowOf
  <2>. HIDE DEF row
  <2>4. \A q : q \in db' <=> q = row \/ (q \in db /\ ~(q.ts < now[r] - Window))
    BY <2>2 DEF Evict
  <2>5. LivingIdsInv'
    <3>1. \A q \in db' : q.id \in 1..seq'
      BY <1>0, <1>3, <2>1, <2>3, <2>4
    <3>2. \A x \in Requests : Unanswered(x)' => rowId'[x] <= seq'
      BY <1>0, <1>1, <1>4, <1>8, <2>1
    <3>3. \A x, y \in Requests : x # y /\ Holds(x)' /\ Holds(y)' => rowId'[x] # rowId'[y]
      <4>1. \A x \in Requests \ {r} : Holds(x)' => Holds(x) /\ rowId[x] # rowId[r]
        BY <1>0, <1>4, <1>8, <2>1 DEF Holds
      <4>. QED
        BY <1>0, <1>1, <4>1 DEF LivingIdsInv
    <3>. QED
      BY <1>0, <1>2, <3>1, <3>2, <3>3 DEF LivingIdsInv
  <2>6. ASSUME NEW x \in Requests, Holds(x)'
        PROVE  LET found == {q \in db' : q.id = rowId'[x]}
               IN  IF found = {} THEN ~WithinRealWindow(x)' ELSE found = {RowOf(x)'}
    <3>1. CASE x = r
      <4>1. {q \in db' : q.id = rowId'[x]} = {row}
        <5>1. rowId'[x] = seq + 1 /\ seq \in Nat
          BY <1>0, <1>1, <2>1, <3>1
        <5>2. \A q \in db : q.id # seq + 1
          BY <1>3, <5>1
        <5>. QED
          BY <2>3, <2>4, <5>1, <5>2
      <4>. QED
        BY <2>3, <3>1, <4>1
    <3>2. CASE x # r
      <4>1. Holds(x) /\ RowOf(x)' = RowOf(x) /\ rowId'[x] = rowId[x] /\ rowId[x] # seq + 1
            /\ (WithinRealWindow(x)' <=> WithinRealWindow(x))
        BY <1>0, <1>1, <1>4, <1>8, <2>6, <3>2 DEF Holds
      <4>. DEFINE before == {q \in db : q.id = rowId[x]}
                  after == {q \in db' : q.id = rowId'[x]}
      <4>2. IF before = {} THEN ~WithinRealWindow(x) ELSE before = {RowOf(x)}
        BY <1>0, <4>1 DEF SettlementsFindTheirRow
      <4>3. after \subseteq before
        BY <2>3, <2>4, <4>1
      <4>4. WithinRealWindow(x) => before \subseteq after
        <5>. SUFFICES ASSUME WithinRealWindow(x), NEW q \in before
                      PROVE  q \in after
          OBVIOUS
        <5>1. q \in db /\ q.id = rowId[x] /\ q.ts = now[x]
          BY <4>2 DEF RowOf
        <5>2. now[r] - now[x] <= real - born[x] /\ real - born[x] <= Window
          BY <1>0, <2>1, <4>1 DEF DriftInv, WithinRealWindow
        <5>3. now[r] \in Nat /\ now[x] \in Nat /\ born[x] \in Nat /\ Window \in Nat
          BY <1>0
        <5>4. ~(now[x] < now[r] - Window)
          BY <1>0, <5>2, <5>3
        <5>. QED
          BY <2>4, <4>1, <5>1, <5>4
      <4>. QED
        BY <4>1, <4>2, <4>3, <4>4
    <3>. QED
      BY <3>1, <3>2
  <2>7. SettlementsFindTheirRow'
    BY <2>6 DEF SettlementsFindTheirRow
  <2>8. ASSUME NEW tenant \in Tenants
        PROVE  SumFunctionOnSet(est', InWindow(tenant)') <= Limit
    <3>. DEFINE S == InWindow(tenant)
                T == InWindow(tenant)'
                U == S \cup {r}
    <3>1. IsFiniteSet(S) /\ r \notin S /\ \A x \in U : est[x] \in Nat
      BY <1>0, <2>1, InWindowFinite, Holders DEF InWindow
    <3>2. T \in SUBSET U /\ (TenantOf[r] # tenant => T \in SUBSET S)
      BY <1>4 DEF InWindow
    <3>3. SumFunctionOnSet(est, S) <= Limit
      BY Zenon DEF FaultsInv, InFlightFitsRealTime, InWindow
    <3>4. SumFunctionOnSet(est, S) <= Used(db, tenant, now[r] - Window)
          /\ Used(db, tenant, now[r] - Window) \in Nat /\ SumFunctionOnSet(est, S) \in Nat
      BY <2>1, InWindowIsUsed
    <3>5. TenantOf[r] = tenant => Used(db, tenant, now[r] - Window) + est[r] <= Limit
      BY <1>0, <2>1 DEF FittingInv
    <3>. HIDE DEF S, T
    <3>6. IsFiniteSet(U) /\ SumFunctionOnSet(est, U) = SumFunctionOnSet(est, S) + est[r]
      BY <3>1, SumAdd
    <3>. HIDE DEF U
    <3>7. SumFunctionOnSet(est, T) <= SumFunctionOnSet(est, U)
      BY <3>1, <3>2, <3>6, SumSubset
    <3>8. TenantOf[r] # tenant => SumFunctionOnSet(est, T) <= SumFunctionOnSet(est, S)
      BY <3>1, <3>2, SumSubset DEF U
    <3>9. IsFiniteSet(T) /\ \A x \in T : est[x] \in Nat
      BY <3>1, <3>2, <3>6, FS_Subset
    <3>10. SumFunctionOnSet(est, T) \in Nat
      BY <3>9, SumType
    <3>11. est[r] \in Nat
      BY <1>0
    <3>12. SumFunctionOnSet(est, T) <= Limit
      BY <3>3, <3>4, <3>5, <3>6, <3>7, <3>8, <3>10, <3>11
    <3>. QED
      BY <1>1, <3>12 DEF T
  <2>9. InFlightFitsRealTime'
    BY <2>8, Zenon DEF InFlightFitsRealTime, InWindow
  <2>. QED
    BY <1>5, <1>6, <1>7, <2>5, <2>7, <2>9 DEF FaultsInv
<1>10. CASE op[r] \in {"reconcile", "release"}
  <2>1. ~PendingInsert(r) /\ seq' = seq /\ rowId[r] # 0 /\ Holds(r) /\ ~Unanswered(r)' /\ ~Holds(r)'
    BY <1>0, <1>1, <1>3, <1>10
       DEF PendingInsert, RowIdInv, Holds, Committed, Unanswered, Answered, Settled
  <2>2. /\ \A q \in db : q.id # rowId[r] => q \in db'
        /\ \A q \in db' : \/ q \in db /\ q.id # rowId[r]
                          \/ q.id = rowId[r] /\ \E p \in db : p.id = rowId[r]
    <3>1. CASE db' = WithTokens(db, rowId[r], actual[r])
      <4>1. \A q \in db : [q EXCEPT !.tokens = actual[r]].id = q.id
        BY <1>0 DEF Row
      <4>. QED
        BY <3>1, <4>1 DEF WithTokens
    <3>2. CASE db' = Without(db, rowId[r])
      BY <3>2 DEF Without
    <3>. QED
      BY <1>0, <1>10, <2>1, <3>1, <3>2, ViewInstalls
  <2>3. \A x \in Requests : Holds(x)' => x # r /\ Holds(x) /\ rowId[x] # rowId[r]
    BY <1>0, <1>4, <2>1 DEF LivingIdsInv
  <2>4. LivingIdsInv'
    <3>1. \A q \in db' : q.id \in 1..seq'
      BY <1>3, <2>1, <2>2
    <3>2. \A x \in Requests : Unanswered(x)' => rowId'[x] <= seq'
      BY <1>0, <1>1, <1>4, <1>8, <2>1
    <3>3. \A x, y \in Requests : x # y /\ Holds(x)' /\ Holds(y)' => rowId'[x] # rowId'[y]
      BY <1>0, <1>1, <2>3 DEF LivingIdsInv
    <3>. QED
      BY <1>0, <1>2, <3>1, <3>2, <3>3 DEF LivingIdsInv
  <2>5. SettlementsFindTheirRow'
    <3>. SUFFICES ASSUME NEW x \in Requests, Holds(x)'
                  PROVE  LET found == {q \in db' : q.id = rowId'[x]}
                         IN  IF found = {} THEN ~WithinRealWindow(x)' ELSE found = {RowOf(x)'}
      BY DEF SettlementsFindTheirRow
    <3>1. {q \in db' : q.id = rowId'[x]} = {q \in db : q.id = rowId[x]}
      BY <1>1, <2>2, <2>3
    <3>2. RowOf(x)' = RowOf(x) /\ (WithinRealWindow(x)' <=> WithinRealWindow(x))
      BY <1>4, <2>3
    <3>. QED
      BY <1>0, <2>3, <3>1, <3>2 DEF SettlementsFindTheirRow
  <2>6. InFlightFitsRealTime'
    <3>1. \A x \in Requests : Holds(x)' /\ WithinRealWindow(x)' =>
            Holds(x) /\ WithinRealWindow(x) /\ est'[x] = est[x]
      BY <1>1, <1>4, <2>3
    <3>. QED
      BY <3>1, FewerHolders
  <2>. QED
    BY <1>5, <1>6, <1>7, <2>4, <2>5, <2>6 DEF FaultsInv
<1>. QED
  BY <1>3, <1>9, <1>10

(* A step that is over leaves everything as it is. *)
LEMMA FinishedStutters == Finished => UNCHANGED allVars
BY DEF Finished, Terminating, allVars

(* A process that dies takes its requests along, with the lock and the     *)
(* views they had, and nobody else's.                                      *)
LEMMA DeathKeeps ==
  ASSUME FaultsInv, NEW dead \in SUBSET Alive, Die(dead)
  PROVE  /\ LockInv' /\ RowIdInv'
         /\ db' = db => ViewInv'
         /\ \A r \in dead : ~Unanswered(r)' /\ ~PendingInsert(r)'
         /\ \A r \in Requests \ dead : pc'[r] = pc[r] /\ rowId'[r] = rowId[r]
         /\ UNCHANGED <<clock, op, est, actual, now, real, born>>
<1>. USE DEF TypeOK, InFlight
<1>0. /\ TypeOK /\ LockInv /\ RowIdInv /\ ViewInv /\ NoOne \notin Requests /\ dead \in SUBSET Requests
  BY ConstantsAssumption DEF ConstantsAssumption, FaultsInv, FaultsTypeOK, Alive
<1>1. /\ pc' = [r \in Requests |-> IF r \in dead THEN "lost" ELSE pc[r]]
      /\ rowId' = [r \in Requests |-> IF r \in dead /\ PendingInsert(r) THEN 0 ELSE rowId[r]]
      /\ lock' = IF lock \in dead THEN NoOne ELSE lock
      /\ view' = [r \in Requests |-> IF r \in dead THEN {} ELSE view[r]]
      /\ UNCHANGED <<clock, op, est, actual, now, real, born>>
  BY DEF Die
<1>2. \A r \in dead : op[r] # "none"
  BY DEF Alive, Unanswered
<1>3. LockInv'
  BY <1>0, <1>1 DEF LockInv
<1>4. RowIdInv'
  BY <1>0, <1>1, <1>2 DEF RowIdInv, Reserved, PendingInsert
<1>5. \A r \in dead : ~Unanswered(r)' /\ ~PendingInsert(r)'
  BY <1>0, <1>1 DEF Unanswered, Answered, PendingInsert
<1>6. \A r \in Requests \ dead : pc'[r] = pc[r] /\ rowId'[r] = rowId[r] /\ view'[r] = view[r]
  BY <1>1
<1>7. \A r \in dead : pc'[r] = "lost"
  BY <1>0, <1>1
<1>8. db' = db => ViewInv'
  BY <1>0, <1>1, <1>5, <1>6, <1>7 DEF ViewInv, PendingInsert, RowOf
<1>. QED
  BY <1>1, <1>3, <1>4, <1>5, <1>6, <1>8

(* The steps of the environment that leave the table alone. *)
LEMMA QuietFaults ==
  ASSUME FaultsInv, TimePasses \/ SetBack \/ ProcessDies \/ Sync \/ UNCHANGED allVars
  PROVE  LockInv' /\ RowIdInv' /\ ViewInv' /\ Undisturbed
<1>. USE DEF table, txn, answers, faultVars
<1>0. /\ LockInv /\ RowIdInv /\ ViewInv /\ LivingIdsInv
      /\ clock \in Nat /\ real \in Nat /\ rowId \in [Requests -> Nat]
      /\ \A r \in Requests : PendingInsert(r) => rowId[r] # 0 /\ Unanswered(r)
  <2>1. LivingIdsInv /\ RowIdInv /\ seq \in Nat
    BY DEF FaultsInv, FaultsTypeOK, TypeOK
  <2>2. \A r \in Requests : PendingInsert(r) => Unanswered(r)
    BY DEF PendingInsert, Unanswered, Answered, Settled
  <2>3. \A r \in Requests : PendingInsert(r) => rowId[r] # 0
    BY <2>1, <2>2 DEF LivingIdsInv
  <2>. QED
    BY <2>2, <2>3 DEF FaultsInv, FaultsTypeOK, TypeOK
<1>1. ASSUME UNCHANGED <<db, seq, lock, view, op, pc, est, actual, now, rowId, born>>,
             real <= real', clock' - clock <= real' - real,
             synced' = synced \/ synced' = [db |-> db, seq |-> seq]
      PROVE  LockInv' /\ RowIdInv' /\ ViewInv' /\ Undisturbed
  <2>1. LockInv' /\ RowIdInv'
    BY <1>0, <1>1 DEF LockInv, RowIdInv, Reserved
  <2>2. ViewInv'
    BY <1>0, <1>1 DEF ViewInv, PendingInsert, RowOf
  <2>3. Undisturbed
    BY <1>0, <1>1 DEF Undisturbed, PendingInsert, Unanswered, Answered, Settled, RowOf
  <2>. QED
    BY <2>1, <2>2, <2>3
<1>2. CASE TimePasses
  <2>1. clock' = clock + 1 /\ real' = real + 1 /\ synced' = synced
        /\ UNCHANGED <<db, seq, lock, view, op, pc, est, actual, now, rowId, born>>
    BY <1>2 DEF TimePasses, Tick
  <2>2. real <= real' /\ clock' - clock <= real' - real
    BY <1>0, <2>1
  <2>. QED
    BY <1>1, <2>1, <2>2
<1>3. CASE SetBack
  <2>1. PICK t \in 0..clock - 1 : clock' = t
    BY <1>3 DEF SetBack
  <2>2. real' = real /\ synced' = synced
        /\ UNCHANGED <<db, seq, lock, view, op, pc, est, actual, now, rowId, born>>
    BY <1>3 DEF SetBack
  <2>3. real <= real' /\ clock' - clock <= real' - real
    BY <1>0, <2>1, <2>2
  <2>. QED
    BY <1>1, <2>2, <2>3
<1>4. CASE ProcessDies
  <2>1. PICK dead \in SUBSET Alive : Die(dead)
    BY <1>4 DEF ProcessDies
  <2>2. UNCHANGED <<db, seq, synced>>
    BY <1>4 DEF ProcessDies
  <2>3. /\ LockInv' /\ RowIdInv' /\ ViewInv'
        /\ \A r \in dead : ~Unanswered(r)' /\ ~PendingInsert(r)'
        /\ \A r \in Requests \ dead : pc'[r] = pc[r] /\ rowId'[r] = rowId[r]
        /\ UNCHANGED <<clock, op, est, actual, now, real, born>>
    BY <2>1, <2>2, DeathKeeps
  <2>4. \A r \in Requests \ dead :
          /\ Unanswered(r)' <=> Unanswered(r)
          /\ PendingInsert(r)' <=> PendingInsert(r)
          /\ RowOf(r)' = RowOf(r)
    BY <2>3 DEF Unanswered, Answered, Settled, PendingInsert, RowOf
  <2>5. real <= real' /\ clock' - clock <= real' - real
    BY <1>0, <2>3
  <2>6. Undisturbed
    BY <1>0, <2>2, <2>3, <2>4, <2>5 DEF Undisturbed
  <2>. QED
    BY <2>3, <2>6
<1>5. CASE Sync
  <2>1. /\ UNCHANGED <<clock, real>> /\ synced' = [db |-> db, seq |-> seq]
        /\ UNCHANGED <<db, seq, lock, view, op, pc, est, actual, now, rowId, born>>
    BY <1>5 DEF Sync, vars
  <2>2. real <= real' /\ clock' - clock <= real' - real
    BY <1>0, <2>1
  <2>. QED
    BY <1>1, <2>1, <2>2
<1>6. CASE UNCHANGED allVars
  <2>1. /\ UNCHANGED <<clock, real, synced>>
        /\ UNCHANGED <<db, seq, lock, view, op, pc, est, actual, now, rowId, born>>
    BY <1>6 DEF allVars, vars
  <2>2. real <= real' /\ clock' - clock <= real' - real
    BY <1>0, <2>1
  <2>. QED
    BY <1>1, <2>1, <2>2
<1>. QED
  BY <1>2, <1>3, <1>4, <1>5, <1>6

(* After a power cut nobody is left who could miss what it undid. *)
LEMMA PowerCutKeeps ==
  ASSUME FaultsInv, FaultsTypeOK', PowerCut
  PROVE  FaultsInv'
<1>1. Die(Alive) /\ db' = synced.db /\ seq' = synced.seq /\ synced' = synced
  BY DEF PowerCut
<1>2. /\ LockInv' /\ RowIdInv'
      /\ \A r \in Alive : ~Unanswered(r)' /\ ~PendingInsert(r)'
      /\ \A r \in Requests \ Alive : pc'[r] = pc[r] /\ rowId'[r] = rowId[r]
      /\ UNCHANGED <<clock, op, est, actual, now, real, born>>
  BY <1>1, DeathKeeps
<1>3. \A r \in Requests : ~Unanswered(r)'
  BY <1>2 DEF Alive, Unanswered, Answered, Settled
<1>4. \A r \in Requests : pc'[r] \notin {"txn", "commit"} /\ ~PendingInsert(r)' /\ ~Holds(r)'
  <2>1. \A r \in Requests : pc'[r] \in {"txn", "commit"} => Unanswered(r)'
    BY <1>2 DEF RowIdInv, Unanswered, Answered, Settled
  <2>. QED
    BY <1>3, <2>1 DEF PendingInsert, Holds
<1>5. ViewInv' /\ FittingInv' /\ DriftInv' /\ SettlementsFindTheirRow'
  BY <1>3, <1>4 DEF ViewInv, FittingInv, DriftInv, SettlementsFindTheirRow
<1>6. LivingIdsInv'
  BY <1>1, <1>3, <1>4 DEF FaultsInv, LivingIdsInv
<1>7. InFlightFitsRealTime'
  BY <1>4, FewerHolders
<1>. QED
  BY <1>2, <1>5, <1>6, <1>7 DEF FaultsInv

LEMMA FaultsInvInit == InitWithFaults => FaultsInv
<1>. SUFFICES ASSUME InitWithFaults
              PROVE  FaultsInv
  OBVIOUS
<1>1. FaultsTypeOK /\ Init /\ db = {} /\ synced.db = {} /\ TableInv
  BY FaultsTypeInit, TableInvInit DEF InitWithFaults, Init
<1>2. \A r \in Requests : ~Unanswered(r) /\ ~Holds(r) /\ ~PendingInsert(r)
  BY <1>1 DEF Init, Unanswered, Holds, PendingInsert
<1>3. LivingIdsInv /\ DriftInv /\ FittingInv /\ SettlementsFindTheirRow
  BY <1>1, <1>2 DEF LivingIdsInv, DriftInv, FittingInv, SettlementsFindTheirRow
<1>4. InFlightFitsRealTime
  <2>1. \A tenant : {r \in Requests : TenantOf[r] = tenant /\ Holds(r) /\ WithinRealWindow(r)} = {}
    BY <1>2
  <2>. QED
    BY <2>1, SumEmpty, ConstantsAssumption DEF ConstantsAssumption, InFlightFitsRealTime
<1>. QED
  BY <1>1, <1>3, <1>4 DEF FaultsInv, TableInv

LEMMA FaultsInvStep ==
  ASSUME Actuals \subseteq Nat
  PROVE  FaultsInv /\ [NextWithFaults]_allVars => FaultsInv'
<1>. SUFFICES ASSUME FaultsInv, [NextWithFaults]_allVars
              PROVE  FaultsInv'
  OBVIOUS
<1>1. FaultsTypeOK'
  BY FaultsTypeStep DEF FaultsInv
<1>2. ASSUME LockInv' /\ RowIdInv' /\ ViewInv' /\ Undisturbed
      PROVE  FaultsInv'
  BY <1>1, <1>2, UndisturbedKeeps DEF FaultsInv
<1>3. CASE Limiting
  <2>1. PICK r \in Requests : Caller(r) \/ Worker(r) \/ Fault(r)
    BY <1>3 DEF Limiting
  <2>2. CASE Admit(r)
    BY <1>1, <1>3, <2>2, AdmitUnderFaults
  <2>3. CASE Commit(r)
    BY <1>1, <1>3, <2>3, CommitUnderFaults
  <2>4. CASE ~Admit(r) /\ ~Commit(r)
    <3>1. LockInv' /\ RowIdInv' /\ ViewInv' /\ Undisturbed
      BY <1>3, <2>1, <2>4, QuietSteps DEF Caller, Worker
    <3>. QED
      BY <1>2, <3>1
  <2>. QED
    BY <2>2, <2>3, <2>4
<1>4. CASE TimePasses \/ SetBack \/ ProcessDies \/ Sync \/ UNCHANGED allVars
  BY <1>2, <1>4, QuietFaults
<1>5. CASE PowerCut
  BY <1>1, <1>5, PowerCutKeeps
<1>. QED
  BY <1>3, <1>4, <1>5, FinishedStutters DEF NextWithFaults

(* Under set-back clocks, deaths and power cuts, for any number of          *)
(* processes, requests and tenants, the invariant holds ...                 *)
THEOREM FaultsInductive ==
  ASSUME Actuals \subseteq Nat
  PROVE  SpecWithFaults => []FaultsInv
BY FaultsInvInit, FaultsInvStep, PTL DEF SpecWithFaults

(* ... so a settlement reaches the caller's own row or none, and none only  *)
(* when the reservation has outlived its window in real time ...            *)
THEOREM SettlementsReachTheirRow ==
  ASSUME Actuals \subseteq Nat
  PROVE  SpecWithFaults => []SettlementsFindTheirRow
<1>1. FaultsInv => SettlementsFindTheirRow
  BY DEF FaultsInv
<1>. QED
  BY FaultsInductive, <1>1, PTL

(* ... and what a tenant has in flight, admitted within one real window,    *)
(* fits the limit.                                                          *)
THEOREM InFlightAlwaysFits ==
  ASSUME Actuals \subseteq Nat
  PROVE  SpecWithFaults => []InFlightFitsRealTime
<1>1. FaultsInv => InFlightFitsRealTime
  BY DEF FaultsInv
<1>. QED
  BY FaultsInductive, <1>1, PTL

=============================================================================
