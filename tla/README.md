# TLA+ models of the gateway assessment

TLA+ modules, TLC configurations and TLAPS proofs for the four services of this
repository: the refund MCP server (`task1_mcp_server`), the MCP security gateway
(`task2_mcp_gateway`), the streaming PII guardrail (`task3_stream_guardrail`) and
the rate-limited completion router (`task4_router`). `PROJECT.json` lists every
component, run, mutant, mapped definition, hazard and theorem; this file says
what they mean.

## 1. Inventory

The four services share no state and do not call each other; each is one process
with an asyncio event loop. Line numbers are those of the files at this commit.

### Task 4: token limiter, router, providers

*State.* One SQLite table `usage(id, tenant_key, ts, tokens)` with AUTOINCREMENT
ids (`limiter.py`); per request a `Reservation(row_id, ...)`, a `CallLog` and the
position of the `route_completion` coroutine (`router.py`).

*Operations.* `reserve` (evict, sum, compare, insert in one `BEGIN IMMEDIATE`
transaction), `reconcile` (one UPDATE), `release` (one DELETE), `_retry_after`
(a SELECT after the ROLLBACK); `route_completion`: estimate, reserve, call the
primary, fail over on 429 or timeout, release on any failure, reconcile on success.

*Interactions.* Every limiter method is handed to a thread pool
(`asyncio.to_thread`), opens its own connection and competes for SQLite's write
lock; the coroutine awaits the thread and may be cancelled while it does. The
router calls the limiter and two HTTP providers.

*Hard.* Two threads deciding on the same table; settlements that come after
their row was evicted; `retry_after` read outside the transaction; a crash
between COMMIT and its caller; commits undone by a power cut; a clock set back;
`SQLITE_BUSY`; a cancelled await whose thread goes on; failover after a timeout
whose answer is on its way, and two timeouts over one call.

*Correct when:* no admission passes the limit; callers and table agree; ids are
never reused; nothing that counts is forgotten; `retry_after` is worth waiting
for; every provider call is covered by a reservation; what a client was told tells
what its request is charged; every request ends; a saturated primary is invisible behind a sound
secondary, and nothing else is hidden; clocks set back and commits undone never
misdirect a settlement.

### Task 3: line reader, guardrail stream, redactor

*State.* `iter_lines`' pending characters; per stream `saw_done` and the
redactor's `_buffer`. The mode without streaming has none.

*Operations.* Decode and split chunks (`sse.py:133-148`); classify a frame,
feed its text, flush before the end (`transform_line`, `redact_stream`); hold
back what may still become a match (`redactor.py`).

*Interactions.* A pipeline of generators in one task per stream: upstream HTTP
response, line reader, `redact_stream`, redactor, client.

*Hard.* The cut of chunks and deltas is the network's: every cut must give the
same text; what is held back must come out before the end of the message, however
it ends; malformed frames, dropped connections, clients that leave.

*Correct when:* no text that was fed is lost, doubled or overtaken; the redacted text does not
depend on the cuts; what is held is bounded; a client is told of a failure
that the code catches once, by its status or by a frame; a complete answer has all that is owed, and a message
that ends at the provider ends at the client.

### Task 2: MCP gateway

*State.* None beyond the requests in flight and one HTTP client.
*Operations.* Authenticate, parse, `decide`, forward, `_relay`.
*Interactions.* Client, gateway, downstream MCP server.
*Hard.* The order of the checks; notifications, which must see no answer on any
path; a downstream that is late, silent or malformed; effects before a timeout.
*Correct when:* what the downstream runs was entitled; notifications are silent;
lists that the filter reads are filtered; every request that was read is answered, and
errors carry its id.

### Task 1: refund server

*State.* `Ledger.customers[...]`, each with `charged` and `refunded` Decimals.
*Operations.* Validate twice (`StrictParamsExtension`, the tool's own schema),
`Ledger.refund`.
*Interactions.* The MCP SDK dispatches concurrent `tools/call` requests, and may
run the tool body, a plain function, in worker threads over one `Ledger`.
*Hard.* Check-then-add on shared balances; Decimal rounding; a balance reported
after later changes; two validations of the same arguments; a cancelled call that
is asked again.
*Correct when:* no customer is refunded more than was charged, the balance can be
audited from what clients were told, answers tell the truth about it and about whose
fault an error is, and asking again is safe but for calls that were cancelled.

### Other parts

`common/` holds JSON-RPC helpers (modelled with task 2), an error taxonomy
(modelled with task 4, which maps every failure through it) and logging;
`mock_provider/` has the providers and the downstream that the services are tried
against (its scripts are composed with the router); `benchmark.py`, task 3's
settings and `__main__.py` hold no state worth a model.

## 2. Modules

| Module | Models | Source |
|---|---|---|
| `WindowLedger` | what the limiter promises: an atomic sliding-window ledger | `limiter.py` (its contract) |
| `TokenLimiter` | the limiter, statement by statement; shown to implement `WindowLedger` | `limiter.py` |
| `FoldTheorems` | lemmas: what the sums and `FlattenSeq` of the community modules compute | |
| `TokenLimiterProofs` | the limiter's invariants and action properties, its refinement of `WindowLedger` with the ledger's bound, and the limiter under faults | |
| `CompletionRouterProofs` | the router over the limiter's theorems, and the router over the mock | |
| `LineReaderProofs`, `RedactorProofs`, `SseGuardrailProofs`, `RefundServerProofs`, `McpGatewayProofs` | theorems of these modules | |
| `TokenLimiterFaults` | `TokenLimiter` under a clock that is set back, the death of single processes, power cuts | `limiter.py` |
| `CompletionRouter` | `route_completion`, `call_provider`, the HTTP application and its statuses; **composes** `TokenLimiter` (`Limiter == INSTANCE TokenLimiter`) | `router.py`, `providers.py`, `app.py`, `settings.py`, `common/errors.py` |
| `RouterOverMock` | `CompletionRouter` over the mock provider's scripts | `mock_provider/llm.py` |
| `LineReader` | `iter_lines` | `sse.py` |
| `TextRelay` | what the guardrail promises its client, in either mode | `app.py`, `sse.py` (their contract) |
| `SseGuardrail` | one request through `completions`: `_proxy_buffered`, or `_proxy_streaming`, `redact_stream`, `transform_line`; shown to implement `TextRelay` | `sse.py`, `app.py` |
| `Redactor` | the patterns, the scan and the buffer | `redactor.py` |
| `RefundServer` | concurrent `trigger_refund` calls on one ledger | `ledger.py`, `server.py`, `validation.py` |
| `McpGateway` | concurrent requests through the proxy | `app.py`, `policy.py`, `auth.py`, `common/jsonrpc.py`, `mock_provider/mcp_downstream.py` |
| `MC*` | small instances of the above for TLC | |

Definitions marked "Mutant" in the modules are changed versions of the definition
that follows them, each a plausible bug. No specification uses them. Putting one
in the place of its original (`mutants` in `PROJECT.json`) makes TLC violate the
property named there, which shows that the property depends on that code.

### How state and actions correspond to the code

**TokenLimiter.** `db` is the committed table and `seq` SQLite's
`sqlite_sequence`; `lock` is the write lock; `view[r]` is the table as r's open
transaction sees it; `op[r]`/`pc[r]` say which method r called last and where its
job is: `queued` in the pool, `begin` (running, connection open), `txn` (after
BEGIN IMMEDIATE), `commit` (after the write, before COMMIT), `rolledback` (before
`_retry_after`), then `ok`, `denied` or `error`. Eviction, sum, comparison and
INSERT happen between BEGIN and COMMIT under the write lock; they are one step
on the private view (`Admit` or `Refuse`), since no other connection can see or
influence them. `Fault` is any statement that raises, with the ROLLBACK of
197-203; `BusyTimeout` is "database is locked"; `Crash` is the death of the
process: committed rows stay, every job and open transaction is gone.
`oldest[r]` is a history variable: the oldest row that counted when r was refused.

**TokenLimiterFaults.** The steps of `TokenLimiter` (`Limiting`), and beside them
`real`, a time no code reads; `born[r]`, the real time of r's admission; `synced`,
the table that survives a power cut. `SetBack` sets `time.time` back, `Sync` is a
checkpoint, `PowerCut` undoes the commits since and ends every process, and
`ProcessDies` ends the requests of one process of several over the same file.

**CompletionRouter.** `task[r]` is the await that `route_completion` has reached,
`attempts` the `CallLog`, `raising` the error on its way past the release,
`answer` what the client was told. A cancellation (`CancelCall`, `CancelAwait`)
ends the coroutine where it is; a limiter job that a thread has started is not
stopped by it, one still in the pool's queue is (`DropQueued`). A provider's
reply is a kind and whether it is late; `CallProvider` makes of it what
`call_provider` raises or returns, `Triggers` and `AsGatewayError` decide what
becomes of that, `Status` is the HTTP status. `TenantFrom` reads the bearer
token. What a request is charged is any integer (`Reports`): `providers.py:129-130` adds up
whatever integers the usage block has. Time is in ticks, `TicksPerSecond` to the second,
and `RetryAfterHeader` is in whole seconds, as `int(exc.retry_after) + 1` makes it of a
float: fractions are cut off and then a second is added. The client that `app.py:36` builds keeps the library's own timeout
(`ClientTimeout`, assumed to be httpx2's five seconds): it is shorter than
the secondary's (`settings.py`), so a silent secondary ends as an unavailable one
with 502 and not as a timeout with 504. That timeout starts anew with every piece of an
answer, so a provider that trickles (`trickling`) is ended by `asyncio.wait_for` alone.
`AnsweredMeansSettled` has a clause for each kind of answer: where `release()` or
`reconcile()` itself raised (a 500), the estimate stands until it expires.

**RouterOverMock.** `script[r]` is what a caller puts in the mock's control
fields; `Effective` and `MockReply` are what the mock makes of it for each model.
A script replaces the free choice of replies, so that the router's answers can
be judged by what the providers were. `chunk_delay`, which can make a
streamed answer trickle in, is left out.

**LineReader.** A chunk arrives cut anywhere, a two-byte character included; it
is decoded by itself, appended, compared with the cap, then split.

**SseGuardrail.** Text is the sequence of its units 1, 2, 3, ...; what a feed
releases is *any* prefix of what is held (the redactor itself is modelled in
`Redactor`), so properties of order and conservation cover any redaction policy. The text
is what `choices[0]` of each frame has, which is all the relay reads; a frame with
something beside it (`beside`: text of other choices, arguments of tool calls) takes that
along when it leaves, and when nothing of its own text is released it is dropped with it,
which `withheld` counts.
`status` is where the handler is, `reply` the HTTP status its client has seen (0
while none; `broken` is a request whose handler or generator raised what nobody
catches), `out` the frames sent, or the one answer of the mode without
streaming. `Promise` maps this state to `TextRelay`'s: what was received, what of
it is owed (all, or what came before [DONE]), what was delivered.

**Redactor.** Characters are classes (letter, digit, `@`, `.`, `-`, space,
other). The regular expression is written out as sets of match ends with its
lookarounds and greedy bounds; `Feed` does what `feed` and `_emit_safe_prefix` do.
The pattern definitions were compared with Python's `re` on all short strings
over the alphabet, with the same scaled quantifiers, without a difference.

**McpGateway.** Credentials, bodies, methods, tools and downstream answers are
the kinds that the code tells apart. An id is absent; one that JSON-RPC allows (null,
or a number that Python takes for false); a boolean, which pydantic's union coerces to 1 or
0 and the answer carries as that (`Echo`); or one that no answer can carry, which ends in a
500. Of the answers only errors that the gateway makes up have an id in the model, since
the others are the downstream's. A list of tools comes where the filter looks for it
(`tools`) or in a form that it relays as it is (`unreadTools`: a JSON array, another
shape, a body that is not JSON). `posted` are the requests sent on; the downstream runs what is
posted at most once per post, before or after the gateway has given up; a server or
proxy in front of it may answer for a call that does not run.

**RefundServer.** `Compare` and `Add` are two steps of `Ledger.refund`, which has no
lock. `SwitchPoint`, in the guard of every other step, says where CPython may change
threads: between 74 and 80 there is no call and no backward jump, at which alone its
evaluation loop looks for another thread. That is a fact about the interpreter and not
about the code; the mutant `AnyPoint` lets threads change anywhere, and TLC then finds the
refund of more than was charged. The balance reported is read after `uuid4()`, in a step
of its own. Ledgers start at `Opening`, since a customer may have refunds already
(CUST-90210, `ledger.py:59`). Decimal's context is `Rounded`, with `Precision` digits. `RefundRequest`
is the model of the extension, `InputSchema` the signature that the SDK checks:
a call passes both. `intent[r]` names the call that r repeats: a client asks
again after an error or a cancellation (`Make`), with the same arguments.

## 3. Runs

| Run | Shows |
|---|---|
| `limiter` | 3 requests of two tenants in one table, limit 4, estimates 3, actual costs 1 and 4 (below and above), window 1, clock 0..2, 2 threads. The inductive invariant with its type invariant (`IndInv`); callers and table agree (`TableMatchesCallers`); ids never reused; ids and timestamps agree; `RetryAfterFrees`; every commit fits (`AdmissionsFit`); nothing that counts is forgotten; the whole is an atomic ledger (`ImplementsLedger`) with the ledger's bound (`CountedWithinLimit`). Costs are natural numbers here; negative ones are the `router` run's |
| `limiter_faults` | the same limiter, 3 requests of one tenant, while the clock is set back (never ahead), processes die and commits are undone: `SettlementsFindTheirRow`, `InFlightFitsRealTime` |
| `router` | 2 requests without a token of their own, so of one window of limit 4, estimated at 3 (one of the bodies by the minimum, its `max_tokens` being negative) or at 6, above the limit; every provider reply in time, late or trickling; usage reported as 0 (missing), 6 (above the limit) and −2; two ticks to the second; bodies that are no JSON or cannot be estimated, cancellation, faults, restart. What a client was told and what it is charged, what is reserved and in flight, the header's seconds, and that requests end |
| `router_mock` | 2 requests, each with any script of the mock but for `chunk_delay`: `FailoverMasksSaturation` |
| `line_reader` | every body of up to 6 bytes in every cut into chunks of up to 3, cap 5 |
| `guardrail` | every stream of up to 4 lines of every kind, unreadable frames among them, two interleaved choices, alone in their frames or beside others, and every answer in one piece of up to 4 choices: text conserved, the tail before the end, `FailureToldOnce`, and `KeepsThePromise`, the refinement of `TextRelay` with its liveness |
| `redactor` | every text of 7 characters over digits, separators and letters, or over addresses, in every cut; runs of 14 over digits and dashes, twice the hold, in deltas of up to 3 |
| `refund_server` | 4 concurrent calls, amounts of which any two may be too much, every argument wrong in every way the contract tells apart, cancellations, clients that ask again; one customer without refunds and one who opens with some |
| `gateway` | 2 requests, every credential, body, method, tool and kind of id, every downstream behaviour, lists in forms that the filter reads and does not read; safety, `AnswersFindTheirRequest` and `RequestsAnswered` |
| `router_hang_up`, `line_reader_split`, `guardrail_finish` | promises that the code does not keep: TLC finds the counterexample (section 6) |

### Why the bounds are enough to be interesting

- *Limiter.* Two requests of one tenant and limit 4 with estimates of 3: the second
  does not fit until the first has been settled at 1, released, or has expired; a
  settlement at 4 shuts the other out. The third request, another tenant's, shares
  the table, its ids and its eviction. A clock of twice the window lets rows leave
  while a refused request waits; two threads for three jobs leave one queued.
- *Limiter under faults.* Three requests of one tenant: one whose commit is undone or
  outlived, one that takes its id, one that counts both. The clock is set back by
  the window (`MaxSetBack`), once or often.
- *Router.* Of two requests the second is refused while the first counts, and
  admitted when it has been released or has left the window, its call perhaps
  still outstanding; the clock goes on until Retry-After is over. A report of −2 in a limit of 4
  gives back enough for a second reservation of 3, and one of 6 overdraws the window. With a
  window of half a second (`Window` 1, `TicksPerSecond` 2) most waits have a fraction that
  the header cuts off. Contention of several admitted requests is the limiter's runs'
  business; every step of the router is a step of the limiter or leaves it alone. The timeouts keep the order of the defaults: the
  primary's 3, the client's 5, the secondary's 6.
- *Router over the mock.* Hangs of 2, 4, 6 and 10 are answered in time, outlive the
  primary's timeout alone, the client's as well, and all; every mode, for one model or
  both.
- *Line reader.* Six bytes hold two lines, a cut in every place, a character cut
  in two, and a held part that passes the cap.
- *Redactor.* The quantifiers are constants, scaled down (card 2+1..2 digits
  instead of 4+9..15, SSN 1-1-1, labels of one letter), so that seven characters
  hold a longest match, or a shorter one with a neighbour on either side, and 14
  reach past twice the hold. The structure (which pattern wins, what the
  lookarounds see, where the run is cut) does not depend on the counts.
- *Guardrail.* Four lines hold a delta held back, one released, a terminal frame
  and something after it.
- *Gateway, refunds.* Requests of the gateway share nothing, two show that. Four
  refund calls: three are the fewest for which the balance reported can be two
  behind, and the fourth repeats one of them after a cancellation. Of the
  arguments one at a time is wrong. The customer who opens with refunds has room for one
  call of the smallest amount and not for two.

Bounds in guards: `MaxClock` (the clock), `MaxSent`, `MaxChunk`, `MaxLines`,
`MaxText`, `MaxDelta`, `MaxSetBack`. `CHECK_DEADLOCK FALSE` is given where an input ends (line
reader, guardrail, redactor); the other modules end in an explicit `Terminating`.

### Fairness

- Guardrail: weak fairness of `Request` (the handler's own steps up to the provider's
  response) and of `Upstream` (every wait for the provider ends, by a line, by the
  end of the body or by `request_timeout`). `MaxLines` makes every message finite;
  a provider that goes on for ever is not promised an end. Of the client it assumes that
  its body arrives and that it reads what it is sent or goes away, since the generators
  wait for both.
- Router: weak fairness per request of `Provider` (`asyncio.wait_for` ends every
  attempt, `providers.py:98`), `Resume` (the event loop resumes a task whose
  await is over) and `Thread` (the pool runs its jobs; BEGIN IMMEDIATE gets the
  lock or gives up after `busy_timeout`, so one of the two happens). Nothing is
  assumed of the order in which waiting threads get the lock, of clients, of
  faults, or of the clock.
- Gateway: weak fairness per request of the handler's steps once it has the body
  (`Handle`), `ForwardFails` among them: `request_timeout` bounds each wait for a silent
  downstream. A downstream that sends a little of its answer for ever is outside the
  assumption. The wait for the client's body (`app.py:66`) has no timeout and is not fair:
  `RequestsAnswered` begins when the body has been read. Nothing is assumed of the
  downstream's running or answering.

## 4. What is proved

Each theorem holds for every value of the constants that the named assumption of
its module allows: any number of requests, tenants, customers, threads, calls,
lines, any limit, window and length. All but
`ReservationsFit` and the invariants that only serve a proof are also properties of a run, so TLC has seen them on a small instance, next to their mutants.

| Module, assumption | Theorem | Statement |
|---|---|---|
| `TokenLimiterProofs`, `ConstantsAssumption` | `Typing`, `Inductive` | `Spec => []TypeOK`, `Spec => []IndInv` |
| | `TableFaithful` | `Spec => []TableMatchesCallers` |
| | `RowIdsUnique` | `Spec => []RowIdsNeverReused` |
| | `ClockOrder` | `Spec => []RowsInClockOrder` |
| | `RetryAfterIsEnough` | `Spec => []RetryAfterFrees` |
| | `AdmissionsAlwaysFit` | `Spec => AdmissionsFit` |
| | `BudgetNotForgotten` | `Spec => ForgetsOnlyExpiredOrReleased` |
| | `HoldersFit` | `Spec => []ReservationsFit` |
| the same and `Actuals \subseteq Nat` | `LedgerWithinLimit` | `Ledger!Spec => []CountedWithinLimit` |
| | `LimiterImplementsLedger` | `Spec => ImplementsLedger` |
| | `LedgerBound` | `Spec => []CountedWithinLimit` |
| these and `FaultsAssumption` | `FaultsInductive` | `SpecWithFaults => []FaultsInv` |
| | `SettlementsReachTheirRow` | `SpecWithFaults => []SettlementsFindTheirRow` |
| | `InFlightAlwaysFits` | `SpecWithFaults => []InFlightFitsRealTime` |
| `CompletionRouterProofs`, `RouterAssumption` | `LimiterStaysSound` | the limiter's `IndInv`, `ReservationsFit`, `RetryAfterFrees` under the router |
| | `RouterTyping` | `Spec => []TypeOK` |
| | `AnswersAreSettled` | `Spec => []AnsweredMeansSettled` |
| | `NoCallOnCredit` | `Spec => []CallsAreReserved` |
| | `CallsInFlightFit` | `Spec => []InFlightWithinLimit` |
| | `RetryAfterHeaderIsEnough` | `Spec => []RetryAfterHeaderFrees` |
| the same and the mock's | `MockChangesNothing` | `SpecOverMock => Spec` |
| | `FailoverMasks` | `SpecOverMock => []FailoverMasksSaturation` |
| `LineReaderProofs`, `LineReaderAssumption` | `ReaderInductive` | `Spec => []ReaderInv` |
| | `LinesAreTheBody` | `Spec => []NothingLostOrMoved` |
| | `HeldPartBounded` | `Spec => []PendingBounded` |
| `RedactorProofs`, `RedactorAssumption` | `BufferStaysSmall` | `Spec => []BufferBounded` |
| | `ReleasedAndHeldAlways` | `Spec => []ReleasedAndHeld` |
| | `HoldsTheRun` | `Spec => []HoldsOneRun` |
| | `ChunkingIsInvisible` | `Spec => []ChunkingInvisible` |
| `SseGuardrailProofs`, `GuardrailAssumption` | `GuardrailTyping` | `Spec => []TypeOK` |
| | `NothingLost` | `Spec => []TextConserved` |
| | `TailComesFirst` | `Spec => []TailBeforeEnd` |
| | `FailuresToldOnce` | `Spec => []FailureToldOnce` |
| | `PromiseKept` | `Spec => Promise!Init /\ [][Promise!Next]_(Promise!vars)` |
| `RefundServerProofs`, `RefundAssumption` | `RepeatsCostNoMore` | `Spec => []AskingAgainIsSafe` |
| the same and `ExactMoney` | `RefundTyping` | `Spec => []TypeOK` |
| | `LedgerCanBeAudited` | `Spec => []BalanceMatchesAnswers` |
| | `NeverOverTheCharge` | `Spec => []NeverOverRefunded` |
| | `FaultsAreTold` | `Spec => []ErrorsTellWhoseFault` |
| | `RemaindersErrOneWay` | `Spec => []RemainingWithinReach` |
| `McpGatewayProofs`, `GatewayAssumption` | `GatewayTyping` | `Spec => []TypeOK` |
| | `EntitledCallsOnly` | `Spec => []OnlyEntitledCallsRun` |
| | `AnswersMatch` | `Spec => []AnswersFindTheirRequest` |
| | `ViewersKeptFromAdminTools` | `Spec => []ViewersSeeNoAdminTools` |

### The arguments

**Limiter.** `TableMatchesCallers` is not inductive: a transaction's COMMIT installs its
view, so one has to know what every view holds. `TableInv` adds: the lock belongs to the
one request in `txn` or `commit` (`LockInv`); a request holds a row id where its
method says so (`RowIdInv`); ids in the table are at most `seq`, and an
uncommitted row's is `seq + 1` (`IdsInv`); the view of the open transaction is the
*present* committed table with its own change applied (`ViewInv`), which is what
BEGIN IMMEDIATE buys; the decision to admit is still true at COMMIT
(`DecisionInv`); nothing is dated later than the clock (`ClockInv`). `RefusalInv`
is about the refused: between the ROLLBACK and the SELECT of `_retry_after` the row that was
oldest at the refusal is still the oldest that counts or gone, ids never coming back; after
it, if that row is still there, `retry` lasts until it has left the window. `IndInv` is both. The induction step
has one case per action. `AdmissionsAlwaysFit` and `BudgetNotForgotten` use that
only a COMMIT changes `db` (`OnlyCommitWrites`) and what it installs (`CommitInstalls`).

**Ledger and refinement.** The rows that count, each under the name of the request
that holds it, are the ledger's charges (`CountedCharges`). `IndInv` makes that a
correspondence: every row has one holder and every holder one row. A COMMIT of `_reserve_sync` is
an admission, of a settlement a settlement or a withdrawal; the clock lets charges
leave; an eviction, a ROLLBACK and every step between BEGIN and COMMIT are stutters.
Both need settlements at natural numbers (`Actuals \subseteq Nat`, a hypothesis of the
theorems): the limiter takes any integer, and one below zero gives back quota that the
promise does not know of. The bound of the ledger is an invariant of its own (`LedgerWithinLimit`), of the sum in
which no charge counts above its reservation: an admission compares with the full
sum, which is no smaller, and a settlement can only lower the capped one. It is then read
back in the limiter's table (`LedgerBound`). The bound on the requests' reservations
(`HoldersFit`) is proved for any integers, from what a COMMIT admits beside: the sum an admission
compares is at least what the holders of the tenant reserved less what its givers (the
requests settled below zero) gave back, and no other step adds a reservation. Sums over sets are `SumFunctionOnSet`; `FoldTheorems` proves that it
is a sum, whatever order it is taken in, by an induction over the subsets of a finite
set that needs no operator parameter: the statement is a set of numbers, closed under
successor.

**Limiter under faults.** `TableInv` does not survive: a clock that is set back takes the
rows out of order, and a power cut takes rows away under requests whose ids may then
be given out again. `FaultsInv` keeps what does survive. Ids are told apart
among the *living* (`LivingIdsInv`): whoever names an undone row was ended by the same power cut.
No time is compared with the clock but through `DriftInv`: by the limiter's clock a
reservation is at most as old as in real time, the clock never running ahead of it, and
the same holds between a reservation and an insert that waits for its COMMIT. So a
reservation of the last `Window` in real time has a row that the insert's sum counted
(`InWindowIsUsed`), and the sum that was compared with the limit (`FittingInv`) covers
all that `InFlightFitsRealTime` adds up. Most actions change nothing of this
(`Undisturbed`); COMMITs of each kind, the deaths and the power cut have lemmas of their own.

**Router.** `CompletionRouter` composes an instance of `TokenLimiter`. Every step of the
router is a step of that instance or leaves it alone (`StepsOfTheLimiter`), so its
specification implies the limiter's (`LimiterUsedProperly`, a lemma that holds by the
composition), and all theorems about the limiter hold under the
router without a new proof. `RouterInv` says what the router adds: which await a task
has reached tells which limiter call is under way (`StageInv`), and what was answered
tells how the last one ended (`AnswerInv`). A reservation that is held is a row in the
table by `IndInv`, hence `NoCallOnCredit`; those in flight are among those held, hence
`CallsInFlightFit`, with the allowance `GivenBack` for settlements below zero. The header's
whole seconds outlast the wait because a quotient and its remainder are less than one
divisor apart (`HeaderOutlasts`).

**Router over the mock.** A step over the mock is a step of the router in which the reply is
the one that the script makes (`MockChangesNothing`), so `RouterInv` and every theorem
above hold over the mock. The rest is an invariant on scripts: what has been attempted,
what is being raised and what was answered is what the scripts' replies lead to.

**Line reader.** `ReaderInv` says that the lines handed on and the part held are, put
together, the decoding of the bytes received, as long as no cut is inside a character. The
step needs two facts. Decoding is a homomorphism at such a cut (`DecodeConcat`), for a byte looks
no further than its neighbours. And a text is its whole lines, each with its newline, and
then its rest (`Splitting`): by induction on the length, since appending a character
either lengthens the rest or ends a line. `WholeLines` and `Decode` are `FlattenSeq` of a
sequence made position by position, so both need only lemmas of `FoldTheorems`.

**Redactor.** No match is longer than the hold, whatever the repeat counts
(`EndsAreMatches`), by counting. In an address every character up to the last dot has a dot
within a label's reach, and there are boundedly many dots (`DomainLength`); in a card every
separator is followed by a digit of its own (`CardLength`). A match that straddles the cut
therefore starts less than a hold before it, hence `BufferStaysSmall`. For the rest, call a
*break* a character at which a run ends. It belongs to no match (`NoMatchAcross`: an
address has no such character, and the one space in a number has a digit on either side), and no
lookaround tells it from the end of the text (`BreakUnseen`). So before a break the patterns
end where they would if the text ended there, and after it where they would if it began
there (`EndsBefore`, `EndsAfter`); by induction on the position the scan finds in the
whole what it finds in the two parts (`MatchesSplit`), and the rendering falls apart in
the same place (`RenderSplit`). `ReleasedAndHeld` is the invariant: the buffer is the text
after its last break and the output is the rendering of the text before it. A feed keeps
it: the old break is one of the longer text too (`BreakRemains`), the run of the buffer is the
run of the text (`RunStartAfter`), and as it fits the hold the cut is its start and
no match straddles it (`RunIsHeld`). The scan is recursive, and so is `FlattenSeq`, which
puts the pieces together; both are unfolded by first-order induction on positions.

**Guardrail.** The client's frames and the buffer are, in this order, the first n
units of the message (`FramesInv`): feeding k units makes it n + k, releasing a prefix
moves the cut (`CutAnywhere`, `Feeding`), a flush moves it to the end (`Flushing`). The text of a
sequence of frames is `FlattenSeq`, a recursive function in the community modules:
`FoldTheorems` proves that it is a homomorphism (`FlattenAppend`), with existence and
uniqueness of the recursion shown by first-order induction on length. For the mode
without streaming the choices' stretches are put together by induction (`WholeAnswer`).
`ToldInv` and `StartInv` say that there is no error before the end, `DoneInv` that what
was owed at a [DONE] had been delivered; `SilenceInv` says what a response that broke has
told, and `WithheldInv` bounds its counter. `PromiseKept` is the step simulation of
`TextRelay`: one case per action.

**Refunds.** `CallsInv` ties calls to answers and repetitions: a client has one open call
per intent (`OneOpenCall`), so of the calls for an intent that issued all but one at most were
cancelled; counting gives `AskingAgainIsSafe`, rounding or not. `MoneyInv` has the
balance as the opening one and the sum of the amounts issued, at most the charge, and with
room for the one call that may be between its comparison and its addition (`FitsInv`).
`BalanceMatchesAnswers` follows: who was told of a refund issued it, and who issued one
without being told was cancelled or is unanswered. `MoneyInv` is true only
while nothing is rounded, which `ExactMoney` assumes: the decimal context keeps every
digit of what is charged and of all that may be refunded of it. The code assumes the
same (`ledger.py:24-25`); Decimal's default context keeps 28 digits, and without
the assumption the statement is false (section 6). `ExactMoney` is a condition on
the operator that rounds and not on the number of digits, because the provers do not know
powers of ten; TLC evaluates it for the constants of the run.

**Gateway.** Every property is a conjunction over requests, and a step touches one request.
`GatewayInv` says of each what its stage implies: what is posted was sent by
somebody known and allowed, a notification has no answer but 204, a list shown to a viewer
in a form the filter reads was filtered.

Only model-checked: liveness (`RequestsEnd`, `RequestsAnswered`, the fairness of
`KeepsThePromise`), which the proof system does not reach.

## 5. Abstractions and what is not modelled

- Time is in ticks, as many to the second as `TicksPerSecond` says. In `TokenLimiter`,
  and so in the proofs, the clock does not go backwards, a crash is the process's, and one
  process uses the file; `TokenLimiterFaults` lifts all three, with safety only. A clock
  that is set ahead of real time is in neither: rows would leave early, and what is in
  flight could pass the limit in real time.
- A power cut ends every process (they share one machine's file) and goes back to
  the last sync, an earlier commit; torn pages are SQLite's business.
- The pool starts queued jobs in any order (it is FIFO); the models allow more.
- Two-byte characters stand for all multi-byte ones; the decoder's replacement
  is one U+FFFD per orphaned byte.
- `require_luhn` is off, as by default; ASCII letters and digits stand for
  `str.isalnum`'s.
- `AskingAgainIsSafe` is about one intent asked again. A client that makes the same call
  twice without having been told of an error or cancelling is issued two refunds: the
  server has no idempotency key (`README.md:141-143` of task 1).
- The mock's `chunk_delay`, the chunks that it cuts, and the mock downstream's tools beyond what the
  gateway sees of them, are left out.
- Not modelled: the redactor's statistics, logging, response formatting, the error
  taxonomy's texts, the stdio check, task 3's settings and its benchmark. There
  is nothing in them that interleaves or persists.

## 6. Where code and documents disagree

Checked by the runs that expect a violation:

- `router_hang_up` (`router.py:99`): cancellation during `reserve()` strands the
  reservation, against `router.py:113-115`.
- `line_reader_split` (`sse.py:141`): a character cut by a chunk boundary becomes
  replacement characters, against `README.md:159-160` of task 3.
- `guardrail_finish` (`sse.py:118`): a `finish_reason` in a frame with content
  overtakes the text held back, against `README.md:123-124` of task 3.

Stated in the modules, with a configuration that shows each, as a record:

| Property | Configuration | Line | Document |
|---|---|---|---|
| `RaisesGatewayErrorOnly` | `MCCompletionRouterRaises.cfg` | `router.py:96` | `router.py:94` |
| `SettledOnEveryPath` | `MCCompletionRouterSettled.cfg` | `router.py:116`, `router.py:122` | `router.py:16` |
| `InFlightWithinLimitAlone` | `MCCompletionRouterNegative.cfg` | `providers.py:129-130` | `limiter.py:11-16` |
| `RetryAfterIsWhenOldestLeaves` | `MCTokenLimiterRetryDoc.cfg` | `limiter.py:279` | `limiter.py:272` |
| `OnlyLongLinesFail` | `MCLineReaderCap.cfg` | `sse.py:142` | `sse.py:24`, `sse.py:143` |
| `FinishReasonForwarded` | `MCSseGuardrailForward.cfg` | `sse.py:118` | `sse.py:44-45` |
| `DroppedStreamReleasesTail` | `MCSseGuardrailDrop.cfg` | `sse.py:164` | `sse.py:165-167` |
| `ChoicesKeptApart` | `MCSseGuardrailChoices.cfg` | `sse.py:107` | `README.md:151-152` of task 3 |
| `OtherChoicesPassThrough` | `MCSseGuardrailBeside.cfg` | `sse.py:118` | `README.md:151-152` of task 3 |
| `EveryFailureTold` | `MCSseGuardrailUntold.cfg` | `sse.py:65` | `README.md:118-121` of task 3 |
| `ByteIdentical` | `MCRedactorLongRun.cfg` | `redactor.py:185` | `tests/test_task3_guardrail.py:3-5` |
| `BalanceMatchesAnswers` | `MCRefundServerDust.cfg` | `ledger.py:80` | `ledger.py:24-25` |
| `UnreachableMeansNotRun` | `MCMcpGatewayUnreachable.cfg` | `app.py:126` | `app.py:133` |
| `ErrorsKeepTheId` | `MCMcpGatewayBooleanId.cfg` | `jsonrpc.py:92` | `README.md:87-88` of task 2 |
| `HiddenToolsStayHidden` | `MCMcpGatewayUnread.cfg` | `app.py:188` | `README.md:116-117` of task 2 |
| `AuthenticatedGets200` | `MCMcpGatewayStatus.cfg` | `app.py:69` | `README.md:68` of task 2 |

`ByteIdentical` fails for a run longer than the hold: it is cut where a lookbehind
loses its character (twenty digits and 400 letters, in small deltas, on the code).
`BalanceMatchesAnswers` holds in the `refund_server` run, whose amounts need no rounding,
and fails for an amount below the last digit of the context (a refund of 1e-30
and then one of the whole charge, both accepted by the code); `NeverOverRefunded` fails
with it, since the refunds issued add up to more than was charged.

`SettledOnEveryPath` fails when the database refuses the DELETE or the UPDATE: the row
stands at its estimate until it expires. `InFlightWithinLimitAlone` fails once a provider
has reported a negative usage. `OtherChoicesPassThrough` fails when a frame's
`choices[0]` is held back whole while another choice has text in the same frame, and
`EveryFailureTold` when a frame makes `with_text` raise after the headers have left: the
stream ends with neither status nor error frame. `ErrorsKeepTheId` fails for the id `true`,
which comes back as 1, and `HiddenToolsStayHidden` for a list in a form the filter relays
unread.

## 7. Plan

Done, in this order: `WindowLedger`, `TokenLimiter` and its proofs,
`CompletionRouter`; `LineReader`, `SseGuardrail`, `Redactor`; `RefundServer`,
`McpGateway`; then `TokenLimiterFaults`, the HTTP application and the error
taxonomy in `CompletionRouter`, `RouterOverMock`, `TextRelay` with both modes of
the guardrail, the two validations and repeated calls in `RefundServer`, ids in
`McpGateway`.

Next, models:
1. `LineReader` composed with `SseGuardrail`.
2. An abstract refund account that `RefundServer` implements while no amount needs
   rounding.

Done, proofs: the limiter, its refinement and bound, and the limiter under faults; the
router on top of it, and over the mock; the line reader; the redactor; the guardrail and the
steps of its refinement; the refund server; the gateway. Every invariant and action
property that a passing run checks is a theorem.

Next, proofs: the theorems of the two models above. Composed, `LinesAreTheBody` and
`NothingLost` would carry a body's text from its bytes to the client's frames.
