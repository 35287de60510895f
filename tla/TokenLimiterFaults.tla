------------------------- MODULE TokenLimiterFaults -------------------------
(***************************************************************************)
(* TokenLimiter where what it stands on fails: time.time is set back, one  *)
(* of several processes over the same file dies, and a power cut takes the *)
(* last commits with it (PRAGMA synchronous=NORMAL under WAL syncs at      *)
(* checkpoints, not at commits).                                           *)
(*                                                                         *)
(* The limiter's own actions are TokenLimiter's.  Beside them runs a real  *)
(* time that no code reads, to say what a window ought to be.              *)
(***************************************************************************)
EXTENDS TokenLimiter

CONSTANT MaxSetBack   \* bound on how far the clock falls behind real time

ASSUME FaultsAssumption == MaxSetBack \in Nat

VARIABLES
  real,    \* time that only goes forward
  born,    \* the real time of each request's admission
  synced   \* what a power cut goes back to: the table and its sequence

faultVars == <<real, born, synced>>
allVars == <<vars, faultVars>>
-----------------------------------------------------------------------------

InitWithFaults ==
  /\ Init
  /\ real = 0
  /\ born = [r \in Requests |-> 0]
  /\ synced = [db |-> {}, seq |-> 0]

(* A step of the limiter, which takes no time. *)
Limiting ==
  /\ \E r \in Requests : Caller(r) \/ Worker(r) \/ Fault(r)
  /\ born' = [r \in Requests |-> IF PendingInsert(r)' /\ ~PendingInsert(r) THEN real ELSE born[r]]
  /\ UNCHANGED <<real, synced>>

TimePasses == Tick /\ real' = real + 1 /\ UNCHANGED <<born, synced>>

SetBack ==
  /\ \E t \in 0..clock - 1 : real - t <= MaxSetBack /\ clock' = t
  /\ UNCHANGED <<table, txn, op, pc, est, actual, answers, faultVars>>

(* The requests of dead are those of a process that is no more. *)
Die(dead) ==
  /\ pc' = [r \in Requests |-> IF r \in dead THEN "lost" ELSE pc[r]]
  /\ rowId' = [r \in Requests |-> IF r \in dead /\ PendingInsert(r) THEN 0 ELSE rowId[r]]
  /\ lock' = IF lock \in dead THEN NoOne ELSE lock
  /\ view' = [r \in Requests |-> IF r \in dead THEN {} ELSE view[r]]
  /\ UNCHANGED <<clock, op, est, actual, now, retry, oldest, real, born>>

Alive == {r \in Requests : Unanswered(r)}

(* SQLite rolls back what the dead process had open, and nobody else's. *)
ProcessDies ==
  /\ \E dead \in SUBSET Alive : dead # {} /\ Die(dead)
  /\ UNCHANGED <<table, synced>>

Sync ==
  /\ synced' = [db |-> db, seq |-> seq]
  /\ UNCHANGED <<vars, real, born>>

(* Every process dies, and the commits since the last sync are undone.     *)
PowerCut ==
  /\ Die(Alive)
  /\ db' = synced.db
  /\ seq' = synced.seq
  /\ UNCHANGED synced

Finished == Terminating /\ UNCHANGED faultVars

NextWithFaults ==
  Limiting \/ TimePasses \/ SetBack \/ ProcessDies \/ Sync \/ PowerCut \/ Finished

SpecWithFaults == InitWithFaults /\ [][NextWithFaults]_allVars
-----------------------------------------------------------------------------
(* Properties. *)

(* A caller that is alive and holds a reservation it has not settled. *)
Holds(r) == Unanswered(r) /\ Committed(r)

(* The real time a reservation must be counted for at least. *)
WithinRealWindow(r) == real - born[r] <= Window

(* limiter.py:51 and 209-228: whatever was undone, by whatever clock, a    *)
(* settlement reaches the caller's own row or none, and none only if the   *)
(* reservation has outlived the window: ids are rewound with their rows,   *)
(* and a process whose rows are undone does not live to settle them.       *)
SettlementsFindTheirRow ==
  \A r \in Requests : Holds(r) =>
    LET found == {q \in db : q.id = rowId[r]}
    IN  IF found = {} THEN ~WithinRealWindow(r) ELSE found = {RowOf(r)}

(* test_task4_router.py:6, "concurrent admissions never collectively       *)
(* exceed the limit", in real time: the calls that are in flight and were  *)
(* admitted within one window fit the limit together, although the clock   *)
(* was set back, processes died and commits were undone.  Not so with      *)
(* settlements at less than nothing, which CompletionRouter allows for,    *)
(* nor with a clock that jumps ahead, which ends every window early.       *)
InFlightFitsRealTime ==
  \A tenant \in Tenants :
    SumFunctionOnSet(est,
                     {r \in Requests : TenantOf[r] = tenant /\ Holds(r) /\ WithinRealWindow(r)})
      <= Limit

-----------------------------------------------------------------------------
(* The inductive invariant the proofs rest on.  TableInv does not survive  *)
(* these faults: a clock that was set back takes the rows out of order,    *)
(* and a request that is over may name a row that was undone.              *)

FaultsTypeOK ==
  /\ TypeOK
  /\ real \in Nat
  /\ born \in [Requests -> Nat]
  /\ synced \in [db: SUBSET Row, seq: Nat]
  /\ IsFiniteSet(db) /\ IsFiniteSet(synced.db)

(* Ids as IdsInv has them, for the callers that are alive. *)
LivingIdsInv ==
  /\ \A q \in db : q.id \in 1..seq
  /\ \A q \in synced.db : q.id \in 1..synced.seq
  /\ \A r \in Requests : Unanswered(r) =>
       IF PendingInsert(r) THEN rowId[r] = seq + 1 ELSE rowId[r] <= seq
  /\ \A r, s \in Requests : r # s /\ Holds(r) /\ Holds(s) => rowId[r] # rowId[s]

(* A reservation is never older by the limiter's clock than in real time,  *)
(* neither now nor when an insert beside it was decided.                   *)
DriftInv ==
  /\ \A r \in Requests : Unanswered(r) /\ rowId[r] # 0 => clock - now[r] <= real - born[r]
  /\ \A p, r \in Requests : PendingInsert(p) /\ Holds(r) => now[p] - now[r] <= real - born[r]

(* What was decided for a row that waits for its COMMIT. *)
FittingInv ==
  \A r \in Requests : PendingInsert(r) =>
    Used(db, TenantOf[r], now[r] - Window) + est[r] <= Limit

FaultsInv ==
  /\ FaultsTypeOK
  /\ LockInv
  /\ RowIdInv
  /\ ViewInv
  /\ LivingIdsInv
  /\ DriftInv
  /\ FittingInv
  /\ SettlementsFindTheirRow
  /\ InFlightFitsRealTime
=============================================================================
