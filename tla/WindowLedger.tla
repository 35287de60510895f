---------------------------- MODULE WindowLedger ----------------------------
(***************************************************************************)
(* What the token limiter of task4_router promises, with no database, no   *)
(* threads and no transactions: a tenant's charges of the last Window time *)
(* units live in a ledger; a request is admitted in one step if what the   *)
(* ledger holds and what it asks for fit under Limit; an admitted request  *)
(* is settled at most once, against its own charge and nobody else's; and  *)
(* a charge counts until the clock moves past its window, not less.        *)
(* TokenLimiter.tla implements this module.                                *)
(***************************************************************************)
EXTENDS Integers, FiniteSets, FiniteSetsExt

CONSTANTS
  Requests,   \* the requests that may ask for tokens
  Tenants,    \* the tenants they belong to
  TenantOf,   \* the tenant of each request
  Estimates,  \* the token counts a request may reserve
  Actuals,    \* the token counts a provider may report
  Limit,      \* tokens a tenant may hold in one window
  Window,     \* length of the sliding window
  MaxClock    \* bound on the clock

VARIABLES
  clock,      \* the limiter's clock
  ledger,     \* the charges that still count
  phase       \* what each request has done: "new", "held", "closed"

vars == <<clock, ledger, phase>>

-----------------------------------------------------------------------------

Charge(r, t, n) == [by |-> r, ts |-> t, reserved |-> n, tokens |-> n]

ChargesOf(tenant) == {c \in ledger : TenantOf[c.by] = tenant}

(* The tokens of a set of charges; the second sum leaves out what a charge *)
(* gained when it was settled above its reservation.                       *)
Tokens(S) == SumFunction([c \in S |-> c.tokens])
TokensUpToReserved(S) ==
  SumFunction([c \in S |-> IF c.tokens < c.reserved THEN c.tokens ELSE c.reserved])

StillCounts(c, t) == c.ts >= t - Window

-----------------------------------------------------------------------------

Init ==
  /\ clock = 0
  /\ ledger = {}
  /\ phase = [r \in Requests |-> "new"]

(* Time passes, and what it pushes out of the window stops counting. *)
Tick ==
  /\ clock < MaxClock
  /\ clock' = clock + 1
  /\ ledger' = {c \in ledger : StillCounts(c, clock')}
  /\ UNCHANGED phase

(* A charge is dated when it was decided, which may be a little before it  *)
(* becomes visible: late enough, and it is already out of the window.      *)
Admit(r) ==
  /\ phase[r] = "new"
  /\ \E n \in Estimates, t \in 0..clock :
       /\ Tokens(ChargesOf(TenantOf[r])) + n <= Limit
       /\ ledger' = ledger \cup
            {c \in {Charge(r, t, n)} : StillCounts(c, clock)}
  /\ phase' = [phase EXCEPT ![r] = "held"]
  /\ UNCHANGED clock

(* The reservation becomes what the request really cost: no new admission  *)
(* decision, so the total may pass Limit here and only here.               *)
Settle(r) ==
  /\ phase[r] = "held"
  /\ \E n \in Actuals :
       ledger' = {IF c.by = r THEN [c EXCEPT !.tokens = n] ELSE c : c \in ledger}
  /\ phase' = [phase EXCEPT ![r] = "closed"]
  /\ UNCHANGED clock

(* The request never happened: its charge is withdrawn. *)
Withdraw(r) ==
  /\ phase[r] = "held"
  /\ ledger' = {c \in ledger : c.by # r}
  /\ phase' = [phase EXCEPT ![r] = "closed"]
  /\ UNCHANGED clock

Next ==
  \/ Tick
  \/ \E r \in Requests : Admit(r) \/ Settle(r) \/ Withdraw(r)

Spec == Init /\ [][Next]_vars

-----------------------------------------------------------------------------

(* However admissions, settlements and the clock interleave, what a tenant *)
(* holds in the window stays under Limit once the overshoot of each charge *)
(* (tokens reported above tokens reserved) is set aside: the limiter never *)
(* admits its way past the limit, it can only be surprised by a settlement *)
(* (_reserve_sync's check, router.py's reserve-then-reconcile).            *)
WithinLimit ==
  \A tenant \in Tenants : TokensUpToReserved(ChargesOf(tenant)) <= Limit
=============================================================================
