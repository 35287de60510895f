---------------------------- MODULE TokenLimiter ----------------------------
(***************************************************************************)
(* TokenRateLimiter (src/task4_router/limiter.py): the sliding-window      *)
(* token limiter over one SQLite file, at the grain of its statements.     *)
(*                                                                         *)
(* Every public coroutine hands its blocking twin to the thread pool, so   *)
(* each request has at most one job: queued, then run by a worker thread   *)
(* that takes the write lock (BEGIN IMMEDIATE), works on its transaction's *)
(* own view of the table, and commits or rolls back.  Between two steps of *)
(* a job anything else may happen: other jobs, the clock, a statement that *)
(* fails, the death of the process.                                        *)
(***************************************************************************)
EXTENDS Integers, FiniteSets, FiniteSetsExt

CONSTANTS
  Requests,   \* callers of the limiter: one reservation each
  Tenants,    \* tenant keys
  TenantOf,   \* the tenant each request is made for
  Estimates,  \* the token counts a caller may reserve
  Actuals,    \* the token counts a caller may settle with, which nobody checks
  Limit,      \* tokens a tenant may use in one window
  Window,     \* length of the sliding window
  MaxClock,   \* bound on the clock
  Threads,    \* size of the worker thread pool
  NoOne       \* the write lock is free

ASSUME ConstantsAssumption ==
  /\ TenantOf \in [Requests -> Tenants]
  /\ Estimates \subseteq Nat
  /\ Actuals \subseteq Int
  /\ Limit \in Nat
  /\ Window \in Nat
  /\ MaxClock \in Nat
  /\ Threads \in Nat
  /\ NoOne \notin Requests

VARIABLES
  clock,      \* time.time(), or the injected clock
  db,         \* the committed rows of the usage table
  seq,        \* sqlite_sequence: the highest id ever committed
  lock,       \* the connection that holds SQLite's write lock
  view,       \* the table as each open transaction sees it
  op,         \* the last method called for each request
  pc,         \* where its job is
  est,        \* estimated_tokens of the reservation
  actual,     \* actual_tokens of the settlement
  now,        \* the clock read by _reserve_sync
  rowId,      \* Reservation.row_id, 0 while there is none
  retry,      \* RateLimitExceeded.retry_after, -1 while there is none
  oldest      \* history: id of the oldest row counted at a refusal, 0 if none

vars == <<clock, db, seq, lock, view, op, pc, est, actual, now, rowId, retry, oldest>>

-----------------------------------------------------------------------------
(* The usage table. *)

TokenCounts == Nat \cup Actuals
Row == [id: Nat, tenant: Tenants, ts: Nat, tokens: TokenCounts]

(* SELECT ... WHERE tenant_key = ? AND ts >= ? *)
Counted(rows, tenant, cutoff) == {q \in rows : q.tenant = tenant /\ q.ts >= cutoff}

(* _sum: COALESCE(SUM(tokens), 0) over the counted rows *)
SumTokens(rows) == SumFunction([q \in rows |-> q.tokens])
Used(rows, tenant, cutoff) == SumTokens(Counted(rows, tenant, cutoff))

(* Mutant: evicts the row that is exactly Window old, which _sum counts. *)
EvictAtBoundary(rows, cutoff) == {q \in rows : ~(q.ts <= cutoff)}

(* _evict: DELETE ... WHERE ts < ?, for every tenant *)
Evict(rows, cutoff) == {q \in rows : ~(q.ts < cutoff)}

(* Mutant: INTEGER PRIMARY KEY without AUTOINCREMENT. *)
NextRowIdOfTable(rows) == Max({0} \cup {q.id : q \in rows}) + 1

(* AUTOINCREMENT: one more than any id that was ever committed, not one    *)
(* more than the ids still in the table.                                   *)
NextRowId(rows) == seq + 1

(* The table with the token count of one row replaced, or without it. *)
WithTokens(rows, id, n) == {IF q.id = id THEN [q EXCEPT !.tokens = n] ELSE q : q \in rows}
Without(rows, id) == {q \in rows : q.id # id}

(* Mutant: the request itself is left out of the sum. *)
FitsWithoutItself(rows, r, t) == Used(rows, TenantOf[r], t - Window) <= Limit

(* _sum's used + estimated_tokens > limit, refused; else admitted *)
Fits(rows, r, t) == Used(rows, TenantOf[r], t - Window) + est[r] <= Limit

(* Mutant: the oldest row counted, whoever's it is. *)
RetryAfterAnyTenant(rows, tenant, cutoff, t) ==
  LET ages == {q.ts : q \in {p \in rows : p.ts >= cutoff}}
  IN  IF ages = {} THEN 0 ELSE Max({0, Min(ages) + Window - t})

(* _retry_after: 0 with no row counted, else when the oldest one leaves *)
Timestamps(rows, tenant, cutoff) == {q.ts : q \in Counted(rows, tenant, cutoff)}
RetryAfter(rows, tenant, cutoff, t) ==
  LET ages == Timestamps(rows, tenant, cutoff)
  IN  IF ages = {} THEN 0 ELSE Max({0, Min(ages) + Window - t})

-----------------------------------------------------------------------------

Init ==
  /\ clock = 0
  /\ db = {}
  /\ seq = 0
  /\ lock = NoOne
  /\ view = [r \in Requests |-> {}]
  /\ op = [r \in Requests |-> "none"]
  /\ pc = [r \in Requests |-> "idle"]
  /\ est = [r \in Requests |-> 0]
  /\ actual = [r \in Requests |-> 0]
  /\ now = [r \in Requests |-> 0]
  /\ rowId = [r \in Requests |-> 0]
  /\ retry = [r \in Requests |-> -1]
  /\ oldest = [r \in Requests |-> 0]

table == <<db, seq>>
txn == <<lock, view>>
answers == <<now, rowId, retry, oldest>>

InFlight == {"begin", "txn", "commit", "rolledback"}
Running == {r \in Requests : pc[r] \in InFlight}

-----------------------------------------------------------------------------
(* The coroutines: asyncio.to_thread(self._..._sync, ...). *)

CallReserve(r, n) ==
  /\ op[r] = "none"
  /\ op' = [op EXCEPT ![r] = "reserve"]
  /\ pc' = [pc EXCEPT ![r] = "queued"]
  /\ est' = [est EXCEPT ![r] = n]
  /\ UNCHANGED <<clock, table, txn, actual, answers>>

Reserved(r) == op[r] = "reserve" /\ pc[r] = "ok"

CallReconcile(r, n) ==
  /\ Reserved(r)
  /\ op' = [op EXCEPT ![r] = "reconcile"]
  /\ pc' = [pc EXCEPT ![r] = "queued"]
  /\ actual' = [actual EXCEPT ![r] = n]
  /\ UNCHANGED <<clock, table, txn, est, answers>>

CallRelease(r) ==
  /\ Reserved(r)
  /\ op' = [op EXCEPT ![r] = "release"]
  /\ pc' = [pc EXCEPT ![r] = "queued"]
  /\ UNCHANGED <<clock, table, txn, est, actual, answers>>

(* Cancelling the await cancels a job that no thread has started; one that *)
(* is running runs on, and only its result is dropped.                     *)
DropQueued(r) ==
  /\ pc[r] = "queued"
  /\ pc' = [pc EXCEPT ![r] = "dropped"]
  /\ UNCHANGED <<clock, table, txn, op, est, actual, answers>>

-----------------------------------------------------------------------------
(* The worker threads. *)

Start(r) ==
  /\ pc[r] = "queued"
  /\ Cardinality(Running) < Threads
  /\ pc' = [pc EXCEPT ![r] = "begin"]
  /\ UNCHANGED <<clock, table, txn, op, est, actual, answers>>

(* Mutant: BEGIN DEFERRED without SQLite's own guard against the upgrade. *)
BeginDeferred(r) ==
  /\ pc[r] = "begin"
  /\ lock' = r
  /\ view' = [view EXCEPT ![r] = db]
  /\ pc' = [pc EXCEPT ![r] = "txn"]
  /\ UNCHANGED <<clock, table, op, est, actual, answers>>

(* BEGIN IMMEDIATE: the write lock, and with it a view of the table that   *)
(* nobody else can change.                                                 *)
BeginImmediate(r) ==
  /\ pc[r] = "begin"
  /\ lock = NoOne
  /\ lock' = r
  /\ view' = [view EXCEPT ![r] = db]
  /\ pc' = [pc EXCEPT ![r] = "txn"]
  /\ UNCHANGED <<clock, table, op, est, actual, answers>>

(* busy_timeout ran out while another connection held the lock: BEGIN      *)
(* raises, outside the try that would roll back.                           *)
BusyTimeout(r) ==
  /\ pc[r] = "begin"
  /\ lock # NoOne
  /\ pc' = [pc EXCEPT ![r] = "error"]
  /\ UNCHANGED <<clock, table, txn, op, est, actual, answers>>

(* Mutant: the clock was read before the write lock was taken. *)
AdmitAtEarlierClock(r) ==
  /\ op[r] = "reserve" /\ pc[r] = "txn"
  /\ \E t \in {Max({clock - 1, 0}), clock} :
       LET kept == Evict(view[r], t - Window)
           row == [id |-> NextRowId(kept), tenant |-> TenantOf[r], ts |-> t, tokens |-> est[r]]
       IN  /\ Fits(kept, r, t)
           /\ view' = [view EXCEPT ![r] = kept \cup {row}]
           /\ rowId' = [rowId EXCEPT ![r] = row.id]
           /\ now' = [now EXCEPT ![r] = t]
  /\ pc' = [pc EXCEPT ![r] = "commit"]
  /\ UNCHANGED <<clock, table, lock, op, est, actual, retry, oldest>>

(* _reserve_sync up to its INSERT: the clock is read under the lock. *)
Admit(r) ==
  /\ op[r] = "reserve" /\ pc[r] = "txn"
  /\ LET cutoff == clock - Window
         kept == Evict(view[r], cutoff)
         row == [id |-> NextRowId(kept), tenant |-> TenantOf[r],
                 ts |-> clock, tokens |-> est[r]]
     IN  /\ Fits(kept, r, clock)
         /\ view' = [view EXCEPT ![r] = kept \cup {row}]
         /\ rowId' = [rowId EXCEPT ![r] = row.id]
  /\ now' = [now EXCEPT ![r] = clock]
  /\ pc' = [pc EXCEPT ![r] = "commit"]
  /\ UNCHANGED <<clock, table, lock, op, est, actual, retry, oldest>>

(* _reserve_sync over the limit: ROLLBACK, which undoes the eviction too. *)
Refuse(r) ==
  /\ op[r] = "reserve" /\ pc[r] = "txn"
  /\ LET cutoff == clock - Window
         kept == Evict(view[r], cutoff)
         counted == {q.id : q \in Counted(kept, TenantOf[r], cutoff)}
     IN  /\ ~Fits(kept, r, clock)
         /\ oldest' = [oldest EXCEPT ![r] = IF counted = {} THEN 0 ELSE Min(counted)]
  /\ now' = [now EXCEPT ![r] = clock]
  /\ lock' = NoOne
  /\ view' = [view EXCEPT ![r] = {}]
  /\ pc' = [pc EXCEPT ![r] = "rolledback"]
  /\ UNCHANGED <<clock, table, op, est, actual, rowId, retry>>

(* retry_after is read after the ROLLBACK, in no transaction: the table is *)
(* whatever other connections have committed by then.                      *)
RaiseRateLimitExceeded(r) ==
  /\ pc[r] = "rolledback"
  /\ retry' = [retry EXCEPT ![r] = RetryAfter(db, TenantOf[r], now[r] - Window, now[r])]
  /\ pc' = [pc EXCEPT ![r] = "denied"]
  /\ UNCHANGED <<clock, table, txn, op, est, actual, now, rowId, oldest>>

(* _reconcile_sync: UPDATE ... WHERE id = ?, which keeps the row's ts and  *)
(* touches nothing if the row was evicted in the meantime.                 *)
UpdateRow(r) ==
  /\ op[r] = "reconcile" /\ pc[r] = "txn"
  /\ view' = [view EXCEPT ![r] = WithTokens(@, rowId[r], actual[r])]
  /\ pc' = [pc EXCEPT ![r] = "commit"]
  /\ UNCHANGED <<clock, table, lock, op, est, actual, answers>>

(* _release_sync: DELETE ... WHERE id = ? *)
DeleteRow(r) ==
  /\ op[r] = "release" /\ pc[r] = "txn"
  /\ view' = [view EXCEPT ![r] = Without(@, rowId[r])]
  /\ pc' = [pc EXCEPT ![r] = "commit"]
  /\ UNCHANGED <<clock, table, lock, op, est, actual, answers>>

(* COMMIT: the view becomes the table and the lock is given up. *)
Commit(r) ==
  /\ pc[r] = "commit"
  /\ db' = view[r]
  /\ seq' = IF op[r] = "reserve" THEN rowId[r] ELSE seq
  /\ lock' = NoOne
  /\ view' = [view EXCEPT ![r] = {}]
  /\ pc' = [pc EXCEPT ![r] = "ok"]
  /\ UNCHANGED <<clock, op, est, actual, answers>>

(* A statement raises: _reserve_sync rolls back, the other two by closing  *)
(* the connection; a row id that was inserted and not committed is gone.   *)
Fault(r) ==
  /\ pc[r] \in {"txn", "commit", "rolledback"}
  /\ lock' = IF pc[r] = "rolledback" THEN lock ELSE NoOne
  /\ view' = [view EXCEPT ![r] = {}]
  /\ rowId' = [rowId EXCEPT ![r] = IF op[r] = "reserve" THEN 0 ELSE @]
  /\ pc' = [pc EXCEPT ![r] = "error"]
  /\ UNCHANGED <<clock, table, op, est, actual, now, retry, oldest>>

-----------------------------------------------------------------------------
(* The environment. *)

Tick ==
  /\ clock < MaxClock
  /\ clock' = clock + 1
  /\ UNCHANGED <<table, txn, op, pc, est, actual, answers>>

Settled(r) == op[r] \in {"reconcile", "release"} /\ pc[r] = "ok"
Answered(r) == Settled(r) \/ pc[r] \in {"denied", "error", "dropped", "lost"}
Unanswered(r) == op[r] # "none" /\ ~Answered(r)

(* The process dies.  SQLite drops the open transactions; the callers and  *)
(* the reservations they held are gone, and the committed rows are not.    *)
Crash ==
  /\ \E r \in Requests : Unanswered(r)
  /\ pc' = [r \in Requests |-> IF Unanswered(r) THEN "lost" ELSE pc[r]]
  /\ rowId' = [r \in Requests |->
                 IF op[r] = "reserve" /\ pc[r] = "commit" THEN 0 ELSE rowId[r]]
  /\ lock' = NoOne
  /\ view' = [r \in Requests |-> {}]
  /\ UNCHANGED <<clock, table, op, est, actual, now, retry, oldest>>

(* Every request has had its answer and the clock is at its bound. *)
Terminating ==
  /\ \A r \in Requests : Answered(r)
  /\ clock = MaxClock
  /\ UNCHANGED vars

-----------------------------------------------------------------------------

Caller(r) ==
  \/ \E n \in Estimates : CallReserve(r, n)
  \/ \E n \in Actuals : CallReconcile(r, n)
  \/ CallRelease(r)
  \/ DropQueued(r)

Worker(r) ==
  \/ Start(r) \/ BeginImmediate(r) \/ BusyTimeout(r)
  \/ Admit(r) \/ Refuse(r) \/ RaiseRateLimitExceeded(r)
  \/ UpdateRow(r) \/ DeleteRow(r) \/ Commit(r)

Next ==
  \/ \E r \in Requests : Caller(r) \/ Worker(r) \/ Fault(r)
  \/ Tick
  \/ Crash
  \/ Terminating

Spec == Init /\ [][Next]_vars

-----------------------------------------------------------------------------
(* Properties. *)

(* Row ids and timestamps are natural numbers, a row has the tokens of an  *)
(* estimate or of a settlement, and every job is at a step that its method *)
(* has.                                                                    *)
TypeOK ==
  /\ clock \in 0..MaxClock
  /\ db \subseteq Row
  /\ seq \in Nat
  /\ lock \in Requests \cup {NoOne}
  /\ view \in [Requests -> SUBSET Row]
  /\ op \in [Requests -> {"none", "reserve", "reconcile", "release"}]
  /\ pc \in [Requests -> {"idle", "queued", "ok", "denied", "error", "dropped", "lost"}
                            \cup InFlight]
  /\ est \in [Requests -> Nat]
  /\ actual \in [Requests -> TokenCounts]
  /\ now \in [Requests -> 0..MaxClock]
  /\ rowId \in [Requests -> Nat]
  /\ retry \in [Requests -> Int]
  /\ oldest \in [Requests -> Nat]

(* The row a committed reservation stands for, as it should now read. *)
Committed(r) == rowId[r] # 0 /\ ~(op[r] = "reserve" /\ pc[r] = "commit")
RowOf(r) ==
  [id |-> rowId[r], tenant |-> TenantOf[r], ts |-> now[r],
   tokens |-> IF op[r] = "reconcile" /\ pc[r] = "ok" THEN actual[r] ELSE est[r]]
Released(r) == op[r] = "release" /\ pc[r] = "ok"
Expired(q) == q.ts < clock - Window

(* tests/test_task4_router.py:6, "concurrent admissions never collectively *)
(* exceed the limit": a row that enters the table fits, at its own         *)
(* timestamp, beside everything that was already committed.  It fails if   *)
(* two jobs can decide on the same table (no BEGIN IMMEDIATE).             *)
AdmissionsFit ==
  [][\A q \in db' : (\A p \in db : p.id # q.id)
       => Used(db, q.tenant, q.ts - Window) + q.tokens <= Limit]_vars

(* Budget is never handed back early: a row disappears because it is out   *)
(* of the window at that moment or because its own request is releasing it *)
(* (_evict, _release_sync), whoever's transaction commits.                 *)
ForgetsOnlyExpiredOrReleased ==
  [][\A q \in db : (\A p \in db' : p.id # q.id)
       => Expired(q) \/ \E r \in Requests : op[r] = "release" /\ rowId[r] = q.id]_vars

(* What callers were told and what the table holds agree: a committed      *)
(* reservation has its row, at its estimate until reconcile() has returned *)
(* and at the actual cost after, for as long as it counts; a released one  *)
(* never comes back; and no row belongs to nobody.  Lost updates, rows     *)
(* resurrected by a stale transaction and settlements that hit another     *)
(* request's row all break it.                                             *)
TableMatchesCallers ==
  /\ \A r \in Requests : Committed(r) =>
       LET mine == {q \in db : q.id = rowId[r]}
       IN  IF Released(r) THEN mine = {}
           ELSE /\ mine \subseteq {RowOf(r)}
                /\ Expired(RowOf(r)) \/ RowOf(r) \in db
  /\ \A q \in db : \E r \in Requests : Committed(r) /\ rowId[r] = q.id

(* AUTOINCREMENT: no two reservations ever share an id, even when the row  *)
(* of the first was evicted or released before the second was inserted, so *)
(* a late settlement cannot reach another request's row.                   *)
RowIdsNeverReused ==
  \A r1, r2 \in Requests :
    r1 # r2 /\ rowId[r1] # 0 /\ rowId[r2] # 0 => rowId[r1] # rowId[r2]

(* The clock is read under the write lock, so ids and timestamps agree on  *)
(* which row is older: the order of commits is the order in which rows     *)
(* leave the window.                                                       *)
RowsInClockOrder == \A p, q \in db : p.id < q.id => p.ts <= q.ts

(* retry_after is worth waiting for: any later than now + retry_after, the *)
(* oldest row that counted against the refused request counts no more,     *)
(* although the value is read after the ROLLBACK, from a table that others *)
(* may have changed (limiter.py:180-186).                                  *)
StillCounted(r) == \E q \in db : q.id = oldest[r] /\ ~Expired(q)
RetryAfterFrees ==
  \A r \in Requests :
    pc[r] = "denied" /\ oldest[r] # 0 /\ clock > now[r] + retry[r] => ~StillCounted(r)

(* limiter.py:272 says of the value: "When the oldest row leaves the       *)
(* window, freeing its tokens."  So at that very instant it has left.      *)
RetryAfterIsWhenOldestLeaves ==
  \A r \in Requests :
    pc[r] = "denied" /\ oldest[r] # 0 /\ clock >= now[r] + retry[r] => ~StillCounted(r)

-----------------------------------------------------------------------------
(* The inductive invariant the proofs rest on. *)

PendingInsert(r) == op[r] = "reserve" /\ pc[r] = "commit"

(* The write lock and the open transaction are the same thing. *)
LockInv == \A r \in Requests : pc[r] \in {"txn", "commit"} <=> lock = r

(* Where a request may hold a row id, and where it must. *)
RowIdInv ==
  \A r \in Requests :
    /\ op[r] = "none" <=> pc[r] = "idle"
    /\ op[r] \in {"reconcile", "release"} => rowId[r] # 0
    /\ op[r] \in {"none", "reserve"} =>
         (rowId[r] # 0 => pc[r] \in {"commit", "ok", "lost"})
    /\ Reserved(r) => rowId[r] # 0
    /\ op[r] # "reserve" => pc[r] \notin {"rolledback", "denied"}

(* Ids: the table's and the reservations' are at most seq, except the one  *)
(* of the row that waits for its COMMIT.                                   *)
IdsInv ==
  /\ \A q \in db : q.id \in 1..seq
  /\ \A r \in Requests : IF PendingInsert(r) THEN rowId[r] = seq + 1 ELSE rowId[r] <= seq

(* An open transaction sees the committed table and its own change to it. *)
ViewInv ==
  \A r \in Requests :
    /\ pc[r] = "txn" => view[r] = db
    /\ PendingInsert(r) => view[r] = Evict(db, now[r] - Window) \cup {RowOf(r)}
    /\ op[r] = "reconcile" /\ pc[r] = "commit" =>
         view[r] = WithTokens(db, rowId[r], actual[r])
    /\ op[r] = "release" /\ pc[r] = "commit" => view[r] = Without(db, rowId[r])

(* What _reserve_sync found true still is when it commits. *)
DecisionInv ==
  \A r \in Requests : PendingInsert(r) =>
    /\ Used(db, TenantOf[r], now[r] - Window) + est[r] <= Limit
    /\ \A q \in db : q.ts <= now[r]

ClockInv ==
  /\ \A r \in Requests : now[r] <= clock
  /\ \A q \in db : q.ts <= clock

(* What a refused request counted: its oldest row is the tenant's oldest   *)
(* that counts until retry_after is read, and gone by then ever after.     *)
RefusalInv ==
  \A r \in Requests :
    /\ oldest[r] <= seq
    /\ pc[r] = "rolledback" =>
         \A q \in db :
           LET counts == q.tenant = TenantOf[r] /\ q.ts >= now[r] - Window
           IN  (counts => oldest[r] <= q.id) /\ (q.id = oldest[r] => counts)
    /\ pc[r] = "denied" =>
         \A q \in db : q.id = oldest[r] => q.ts + Window <= now[r] + retry[r]

TableInv ==
  /\ TypeOK
  /\ LockInv
  /\ RowIdInv
  /\ IdsInv
  /\ ViewInv
  /\ DecisionInv
  /\ ClockInv
  /\ RowIdsNeverReused
  /\ RowsInClockOrder
  /\ TableMatchesCallers

IndInv == TableInv /\ RefusalInv

-----------------------------------------------------------------------------
(* The limiter implements the abstract ledger: what counts now, charged to *)
(* the request that holds the row.  Threads, transactions, evictions and   *)
(* the write lock are invisible there.                                     *)

ChargeOf(r, q) == [by |-> r, ts |-> q.ts, reserved |-> est[r], tokens |-> q.tokens]
ChargesTo(r) == {ChargeOf(r, q) : q \in {p \in db : p.id = rowId[r] /\ ~Expired(p)}}
CountedCharges == UNION {ChargesTo(r) : r \in Requests}
PhaseOf ==
  [r \in Requests |-> IF ~Committed(r) THEN "new"
                      ELSE IF Settled(r) THEN "closed" ELSE "held"]

Ledger == INSTANCE WindowLedger WITH ledger <- CountedCharges, phase <- PhaseOf

(* test_task4_router.py:6: whatever the threads do, their requests see a   *)
(* ledger that admits, settles and withdraws in single steps.  That is so  *)
(* as long as nobody settles at less than nothing: a negative row that     *)
(* expires between a decision and its COMMIT takes back what it gave.      *)
ImplementsLedger == Ledger!Spec

(* Admissions alone never take what counts now past Limit; only a cost     *)
(* above its reservation does (router.py:121-122), and it is not made      *)
(* worse by the admissions that follow it.  Again for settlements at a     *)
(* natural number: what a negative one gave back is spent and then expires *)
(* before what was bought with it.                                         *)
CountedWithinLimit == Ledger!WithinLimit
=============================================================================
