-------------------------- MODULE CompletionRouter --------------------------
(***************************************************************************)
(* CompletionRouter.route_completion (src/task4_router/router.py) over the *)
(* limiter of TokenLimiter: one asyncio task per request that reserves,    *)
(* calls the primary, fails over to the secondary on a 429 or a timeout,   *)
(* and reconciles or releases.  A task may be cancelled at every await; a  *)
(* thread that is already running its limiter job does not notice.         *)
(*                                                                         *)
(* The HTTP application around it (app.py) and the error taxonomy          *)
(* (common/errors.py) decide whose window a request counts against and     *)
(* what its client is told.  The providers are outside src/'s control:     *)
(* each call is answered, late or never, with any reply that call_provider *)
(* (providers.py) tells apart.                                             *)
(***************************************************************************)
EXTENDS Integers, Sequences, FiniteSets, FiniteSetsExt

CONSTANTS
  Requests,
  HeaderOf,            \* each request's Authorization header
  NoCredential,        \* the credential of a header that has none
  Anonymous,           \* the tenant of those who name none
  Prompts,             \* request bodies: [chars, maxTokens], or Unreadable
  Unreadable,          \* a body that estimate_tokens cannot work through
  CharsPerToken,       \* RouterConfig.chars_per_token
  MinimumReservation,  \* RouterConfig.minimum_reservation
  Reports,             \* total tokens a provider's usage block may add up to: any int
  TimeoutOf,           \* ProviderSpec.timeout_seconds of each provider
  ClientTimeout,       \* the HTTP client's own timeout, which app.py leaves at its default
  TicksPerSecond,      \* the clock's resolution: whole seconds are told, fractions counted
  Limit, Window, MaxClock, Threads, NoOne

Providers == {"primary", "secondary"}

ASSUME RouterAssumption ==
  /\ \A r \in Requests : HeaderOf[r].scheme \in {"bearer", "other", "none"}
  /\ \A p \in Prompts \ {Unreadable} : p.chars \in Nat /\ p.maxTokens \in Int
  /\ CharsPerToken \in Nat \ {0}
  /\ MinimumReservation \in Nat \ {0}
  /\ Reports \subseteq Int
  /\ TimeoutOf \in [Providers -> Nat]
  /\ ClientTimeout \in Nat
  /\ TicksPerSecond \in Nat \ {0}
  /\ Limit \in Nat
  /\ Window \in Nat
  /\ MaxClock \in Nat
  /\ Threads \in Nat
  /\ NoOne \notin Requests

VARIABLES
  clock, db, seq, lock, view, op, pc, est, actual, now, rowId, retry, oldest,
  task,      \* where each request's task is
  attempts,  \* CallLog.attempts
  raising,   \* the error a failed call will become, once released
  answer     \* how route_completion ended

limiterVars == <<clock, db, seq, lock, view, op, pc, est, actual, now, rowId, retry, oldest>>
taskVars == <<task, attempts, raising, answer>>
vars == <<limiterVars, taskVars>>

-----------------------------------------------------------------------------
(* app.py and common/errors.py. *)

(* _tenant_from: the bearer token, or one bucket for all who have none. *)
TenantFrom(header) ==
  IF header.scheme = "bearer" /\ header.credential # NoCredential
  THEN header.credential ELSE Anonymous
TenantOf == [r \in Requests |-> TenantFrom(HeaderOf[r])]
Tenants == {TenantOf[r] : r \in Requests}

(* How a request can end: with a completion, with a GatewayError of each   *)
(* type, or with what only the handler of every Exception catches.         *)
Uncategorised == {"OperationalError", "TypeError"}

(* _STATUS, through the two exception handlers; 0 if nobody is told.       *)
Status(how) ==
  CASE how = "ok" -> 200
    [] how = "INVALID_REQUEST" -> 400
    [] how = "RATE_LIMITED" -> 429
    [] how = "UPSTREAM_UNAVAILABLE" -> 502
    [] how = "UPSTREAM_TIMEOUT" -> 504
    [] how \in {"INTERNAL_ERROR"} \cup Uncategorised -> 500
    [] OTHER -> 0

-----------------------------------------------------------------------------
(* providers.py. *)

(* What comes back from a provider: no response at all, one that trickles  *)
(* in without an end, a 429, another error status, or a body that is no    *)
(* JSON, JSON of an unexpected shape, or a completion with or without a    *)
(* usage block.  Late is silence until all timeouts have passed.           *)
Kinds == {"httpError", "trickling", "429", "error", "notJson", "misshapen", "noUsage",
          "completion"}
Late == 1 + Max({ClientTimeout} \cup {TimeoutOf[p] : p \in Providers})
Replies == [kind: Kinds, after: {0, Late}]

(* call_provider: whichever timeout is shorter ends the wait; the client's *)
(* own, an httpx2.HTTPError like any other, is for a provider that falls   *)
(* silent.  It starts anew with every piece that arrives (providers.py:91- *)
(* 94), so a provider that trickles its answer is ended by wait_for alone. *)
CallProvider(p, reply) ==
  CASE reply.after > TimeoutOf[p] /\ TimeoutOf[p] <= ClientTimeout -> "ProviderTimeout"
    [] reply.after > ClientTimeout /\ ClientTimeout < TimeoutOf[p] -> "ProviderUnavailable"
    [] reply.kind = "trickling" -> "ProviderTimeout"
    [] reply.kind = "429" -> "ProviderRateLimited"
    [] reply.kind \in {"httpError", "error", "notJson"} -> "ProviderUnavailable"
    [] reply.kind = "misshapen" -> "AttributeError"
    [] OTHER -> "ProviderResult"

(* _as_gateway_error for a ProviderError, sanitize() for everything else.  *)
AsGatewayError(error) ==
  CASE error = "ProviderTimeout" -> "UPSTREAM_TIMEOUT"
    [] error \in {"ProviderRateLimited", "ProviderUnavailable"} -> "UPSTREAM_UNAVAILABLE"
    [] OTHER -> "INTERNAL_ERROR"

-----------------------------------------------------------------------------
(* router.py. *)

(* estimate_tokens: characters over four plus max_tokens, which a caller   *)
(* may send negative, and never under the minimum.                         *)
EstimateTokens(p) ==
  Max({p.chars \div CharsPerToken + p.maxTokens, MinimumReservation})

(* result.total_tokens or estimate *)
Charged(reported, estimate) == IF reported = 0 THEN estimate ELSE reported

(* Mutant: the fraction of a second is dropped and nothing added. *)
RetryAfterHeaderFloor(r) == retry[r] \div TicksPerSecond

(* The Retry-After header, in seconds: str(int(exc.retry_after) + 1) *)
RetryAfterHeader(r) == retry[r] \div TicksPerSecond + 1

Estimates == {EstimateTokens(p) : p \in Prompts \ {Unreadable}}
Limiter == INSTANCE TokenLimiter WITH Actuals <- Estimates \cup Reports

-----------------------------------------------------------------------------

Init ==
  /\ Limiter!Init
  /\ task = [r \in Requests |-> "new"]
  /\ attempts = [r \in Requests |-> <<>>]
  /\ raising = [r \in Requests |-> "none"]
  /\ answer = [r \in Requests |-> "none"]

Awaiting(r) == task[r] \in {"reserving", "releasing", "reconciling"}
Calling(r) == task[r] \in {"primary", "secondary"}

Goto(r, where) == task' = [task EXCEPT ![r] = where]
End(r, how) ==
  /\ Goto(r, "done")
  /\ answer' = [answer EXCEPT ![r] = how]

-----------------------------------------------------------------------------
(* The task: one action from each await to the next. *)

(* A body that is not JSON, or not an object. *)
RejectBody(r) ==
  /\ task[r] = "new"
  /\ End(r, "INVALID_REQUEST")
  /\ UNCHANGED <<limiterVars, attempts, raising>>

(* estimate_tokens runs outside any try: what it raises is raised. *)
RejectUnreadable(r) ==
  /\ task[r] = "new"
  /\ Unreadable \in Prompts
  /\ End(r, "TypeError")
  /\ UNCHANGED <<limiterVars, attempts, raising>>

Arrive(r) ==
  /\ task[r] = "new"
  /\ \E p \in Prompts \ {Unreadable} : Limiter!CallReserve(r, EstimateTokens(p))
  /\ Goto(r, "reserving")
  /\ UNCHANGED <<attempts, raising, answer>>

Admitted(r) ==
  /\ task[r] = "reserving" /\ pc[r] = "ok"
  /\ Goto(r, "primary")
  /\ attempts' = [attempts EXCEPT ![r] = Append(@, "primary")]
  /\ UNCHANGED <<limiterVars, raising, answer>>

RateLimited(r) ==
  /\ task[r] = "reserving" /\ pc[r] = "denied"
  /\ End(r, "RATE_LIMITED")
  /\ UNCHANGED <<limiterVars, attempts, raising>>

(* Mutant: a limiter that fails lets the request through. *)
LimiterFailsOpen(r) ==
  /\ Awaiting(r) /\ pc[r] = "error"
  /\ IF task[r] = "reserving" THEN Goto(r, "primary") /\ UNCHANGED answer
     ELSE End(r, "OperationalError")
  /\ UNCHANGED <<limiterVars, attempts, raising>>

(* Only RateLimitExceeded is caught around reserve(), and nothing around   *)
(* release() and reconcile(): a sqlite3 error leaves as it is.             *)
LimiterRaises(r) ==
  /\ Awaiting(r) /\ pc[r] = "error"
  /\ End(r, "OperationalError")
  /\ UNCHANGED <<limiterVars, attempts, raising>>

(* Any exit from _call_with_failover that is no result: except             *)
(* BaseException, release.                                                 *)
ReleaseThenRaise(r, error) ==
  /\ Limiter!CallRelease(r)
  /\ Goto(r, "releasing")
  /\ raising' = [raising EXCEPT ![r] = AsGatewayError(error)]
  /\ UNCHANGED <<attempts, answer>>

(* Mutant: the secondary is retried as well. *)
FailOverAgain(r) ==
  /\ Calling(r)
  /\ Goto(r, "secondary")
  /\ attempts' = [attempts EXCEPT ![r] = Append(@, "secondary")]
  /\ UNCHANGED <<limiterVars, raising, answer>>

(* Mutant: each provider is the other one's fallback. *)
FailOverAndBack(r) ==
  /\ Calling(r)
  /\ Goto(r, IF task[r] = "primary" THEN "secondary" ELSE "primary")
  /\ UNCHANGED <<limiterVars, attempts, raising, answer>>

(* The secondary is called, the primary is not called again. *)
FailOver(r) ==
  /\ task[r] = "primary"
  /\ Goto(r, "secondary")
  /\ attempts' = [attempts EXCEPT ![r] = Append(@, "secondary")]
  /\ UNCHANGED <<limiterVars, raising, answer>>

(* The reply is settled at what it reports, or at the estimate. *)
Settle(r, kind) ==
  /\ \E n \in IF kind = "noUsage" THEN {0} ELSE Reports :
       Limiter!CallReconcile(r, Charged(n, est[r]))
  /\ Goto(r, "reconciling")
  /\ UNCHANGED <<attempts, raising, answer>>

(* Mutant: a server error fails over, too. *)
TriggersServerErrors == {"ProviderRateLimited", "ProviderTimeout", "ProviderUnavailable"}

(* What sends a request to the secondary. *)
Triggers == {"ProviderRateLimited", "ProviderTimeout"}

(* _call_with_failover, up to its next await or its end. *)
Receive(r, reply) ==
  LET outcome == CallProvider(task[r], reply)
  IN  /\ Calling(r)
      /\ \/ outcome = "ProviderResult" /\ Settle(r, reply.kind)
         \/ outcome \in Triggers /\ FailOver(r)
         \/ /\ outcome # "ProviderResult"
            /\ task[r] = "primary" => outcome \notin Triggers
            /\ ReleaseThenRaise(r, outcome)

(* Mutant: except Exception, which a cancellation is not. *)
CancelCallUncaught(r) ==
  /\ Calling(r)
  /\ End(r, "INTERNAL_ERROR")
  /\ UNCHANGED <<limiterVars, attempts, raising>>

(* CancelledError is a BaseException too; sanitize() makes it internal. *)
CancelCall(r) == Calling(r) /\ ReleaseThenRaise(r, "CancelledError")

RaiseAfterRelease(r) ==
  /\ task[r] = "releasing" /\ pc[r] = "ok"
  /\ End(r, raising[r])
  /\ UNCHANGED <<limiterVars, attempts, raising>>

Return(r) ==
  /\ task[r] = "reconciling" /\ pc[r] = "ok"
  /\ End(r, "ok")
  /\ UNCHANGED <<limiterVars, attempts, raising>>

(* Cancellation while a limiter call is awaited: a queued job is dropped,  *)
(* a running one goes on, and what it returned or returns is lost.         *)
CancelAwait(r) ==
  /\ Awaiting(r)
  /\ End(r, "CancelledError")
  /\ IF pc[r] = "queued" THEN Limiter!DropQueued(r) ELSE UNCHANGED limiterVars
  /\ UNCHANGED <<attempts, raising>>

-----------------------------------------------------------------------------

(* The process dies and comes back: the tasks are gone with the threads,   *)
(* the database file stays, and later requests find what it holds.         *)
CrashAndRestart ==
  /\ Limiter!Crash
  /\ LET alive == {r \in Requests : task[r] \notin {"new", "done"}}
     IN  /\ task' = [r \in Requests |-> IF r \in alive THEN "done" ELSE task[r]]
         /\ answer' = [r \in Requests |-> IF r \in alive THEN "lost" ELSE answer[r]]
  /\ UNCHANGED <<attempts, raising>>

Terminating ==
  /\ \A r \in Requests : task[r] = "done" /\ pc[r] \notin {"queued"} \cup Limiter!InFlight
  /\ clock = MaxClock
  /\ UNCHANGED vars

Provider(r) == \E reply \in Replies : Receive(r, reply)
Resume(r) ==
  \/ Admitted(r) \/ RateLimited(r) \/ LimiterRaises(r)
  \/ RaiseAfterRelease(r) \/ Return(r)
Cancel(r) == CancelCall(r) \/ CancelAwait(r)
Thread(r) == Limiter!Worker(r) /\ UNCHANGED taskVars

Next ==
  \/ \E r \in Requests :
       \/ RejectBody(r) \/ RejectUnreadable(r) \/ Arrive(r)
       \/ Provider(r) \/ Resume(r) \/ Cancel(r) \/ Thread(r)
       \/ Limiter!Fault(r) /\ UNCHANGED taskVars
  \/ Limiter!Tick /\ UNCHANGED taskVars
  \/ CrashAndRestart
  \/ Terminating

Spec == Init /\ [][Next]_vars

(* The event loop resumes a task whose await is over, the pool runs its    *)
(* jobs, and wait_for ends every provider call within its timeout.  BEGIN  *)
(* IMMEDIATE gets the lock or gives up after busy_timeout: one of the two  *)
(* happens, and nothing is assumed of SQLite's lock queue.                 *)
FairSpec ==
  /\ Spec
  /\ \A r \in Requests :
       WF_vars(Provider(r)) /\ WF_vars(Resume(r)) /\ WF_vars(Thread(r))

-----------------------------------------------------------------------------
(* Properties. *)

Upstream == {"UPSTREAM_UNAVAILABLE", "UPSTREAM_TIMEOUT", "INTERNAL_ERROR"}

(* A request tries the primary once and the secondary at most once after   *)
(* it (providers.py:74-81), and ends in one of the answers of the code.    *)
TypeOK ==
  /\ task \in [Requests -> {"new", "reserving", "primary", "secondary", "releasing",
                            "reconciling", "done"}]
  /\ attempts \in [Requests -> {<<>>, <<"primary">>, <<"primary", "secondary">>}]
  /\ raising \in [Requests -> Upstream \cup {"none"}]
  /\ answer \in [Requests -> Upstream \cup Uncategorised \cup
                   {"none", "ok", "INVALID_REQUEST", "RATE_LIMITED", "CancelledError", "lost"}]

RowsOf(r) == {q \in db : rowId[r] # 0 /\ q.id = rowId[r]}

(* router.py:16, "The reservation is settled on every path": what its      *)
(* client is told tells what a request costs, whatever ran in between.  A  *)
(* 200 is charged what the provider reported for as long as the charge     *)
(* counts.  A 400, a 429 and a body that could not be read never held a    *)
(* reservation, and one that was released and told of an upstream or an    *)
(* internal error is charged nothing.  Where the limiter itself raised, a  *)
(* failed reserve() holds nothing, and a failed release() or reconcile()   *)
(* leaves the estimate standing, that and no more, until it expires.       *)
AnsweredMeansSettled ==
  \A r \in Requests :
    /\ Status(answer[r]) = 200 =>
         /\ \A q \in RowsOf(r) : q.tokens = actual[r]
         /\ RowsOf(r) = {} => now[r] < clock - Window
    /\ Status(answer[r]) \in {400, 429} \/ answer[r] = "TypeError" => rowId[r] = 0
    /\ answer[r] \in Upstream => RowsOf(r) = {}
    /\ answer[r] = "OperationalError" =>
         IF op[r] = "reserve" THEN rowId[r] = 0
         ELSE /\ \A q \in RowsOf(r) : q.tokens = est[r]
              /\ RowsOf(r) = {} => now[r] < clock - Window

(* No provider is called on credit: while a call is outstanding the        *)
(* request's row is in the table at its estimate, unless the call has      *)
(* outlived the window.                                                    *)
CallsAreReserved ==
  \A r \in Requests : Calling(r) =>
    /\ rowId[r] # 0
    /\ \A q \in RowsOf(r) : q.tokens = est[r]
    /\ RowsOf(r) = {} => now[r] < clock - Window

(* What the settlements at less than nothing gave back to a tenant: a      *)
(* usage block is any int (providers.py:129-130), and nobody checks it.    *)
Givers(tenant) == {r \in Requests : TenantOf[r] = tenant /\ actual[r] < 0}
GivenBack(tenant) == SumFunctionOnSet([r \in Requests |-> -actual[r]], Givers(tenant))

(* The tokens a tenant can have in flight at once: what its outstanding    *)
(* calls reserved within one window never adds up to more than Limit and   *)
(* what negative reports gave back, so concurrency does not buy quota.     *)
InFlightOf(tenant) ==
  {r \in Requests : TenantOf[r] = tenant /\ Calling(r) /\ now[r] >= clock - Window}
InFlightWithinLimit ==
  \A tenant \in Tenants :
    SumFunctionOnSet(est, InFlightOf(tenant)) <= Limit + GivenBack(tenant)

(* limiter.py:11-16, "double-spend the window": the same bound without     *)
(* the allowance.  It fails once a provider has reported a negative usage. *)
InFlightWithinLimitAlone ==
  \A tenant \in Tenants : SumFunctionOnSet(est, InFlightOf(tenant)) <= Limit

(* A client that waits the seconds of the Retry-After header (app.py:50)   *)
(* finds the oldest charge that stood against it gone, although the header *)
(* has whole seconds and the window does not end on one.                   *)
RetryAfterHeaderFrees ==
  \A r \in Requests :
    /\ answer[r] = "RATE_LIMITED" /\ oldest[r] # 0
    /\ clock >= now[r] + RetryAfterHeader(r) * TicksPerSecond
    => \A q \in db : q.id = oldest[r] => q.ts < clock - Window

(* A request that has been taken on ends, whatever the providers, the      *)
(* limiter and its clients do.                                             *)
RequestsEnd == \A r \in Requests : task[r] = "reserving" ~> task[r] = "done"

(* router.py:113-115: "Every exit that is not a successful response gives  *)
(* the tokens back, cancellation included -- a client that hangs up must   *)
(* not leave a reservation pinned until the window rolls."                 *)
HangingUpReleases ==
  \A r \in Requests :
    answer[r] = "CancelledError" /\ pc[r] \notin {"queued"} \cup Limiter!InFlight =>
      \A q \in RowsOf(r) : op[r] = "reconcile" /\ q.tokens = actual[r]

(* router.py:16, to the letter: a request that was told of a failure has   *)
(* no reservation left.  It fails where release() or reconcile() raises.   *)
SettledOnEveryPath ==
  \A r \in Requests : Status(answer[r]) \notin {0, 200} => RowsOf(r) = {}

(* router.py:94: "Raises `GatewayError` only." *)
RaisesGatewayErrorOnly ==
  \A r \in Requests : answer[r] \notin {"OperationalError", "TypeError"}
=============================================================================
