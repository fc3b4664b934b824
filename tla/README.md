# RouterFuel: a verification project in TLA+

RouterFuel is an HTTP gateway for LLM providers: it authenticates a client, limits
its rate, looks for a cached answer, chooses a model, reserves the estimated cost
against the client's budget, waits for one of a bounded number of permits, calls
the provider with the client's own key, settles the reservation and logs the cost.
This directory models what several requests share, what is decided for each of
them, and what each leaves behind; checks that with TLC on small instances and
proves the main results with TLAPS for every value of the constants.

Paths below are relative to `src/src/` unless they begin with `src/`.

## 1. Inventory

| Component | State | Operations | Talks to |
|---|---|---|---|
| CircuitBreaker (`circuit_breaker.rs`) | per provider: state, failures, opened_at, probe_in_flight | `is_open` (read lock, then write lock), `record_success`, `record_failure` | called by every connector |
| Connectors (`connectors.rs`) | HTTP clients with a 30 s timeout | `complete` for three API families | CircuitBreaker, provider |
| SpendGuard (`guardrails.rs`) | per client: cents spent, start of window | `try_reserve`, `reconcile`, `release` | handlers, shadow tasks, audit tasks |
| LoopGuard (`guardrails.rs`) | per client: hash and time of recent prompts | `check_and_record` | handlers |
| ConcurrencyLimiter (`concurrency.rs`) | a fair semaphore | `acquire`, drop of a permit or of a waiting future | handlers, shadow tasks, stream generators |
| Non-streaming handler (`main.rs`) | the request's place in `handle_non_streaming` | reserve, route, acquire, call, settle, spawn shadow | all of the above |
| Shadow task (`main.rs`) | the place in `maybe_fire_shadow_request` | reserve, acquire, call, settle | SpendGuard, limiter, connectors |
| Streaming (`main.rs`, `streaming.rs`) | generator, audit task, a channel of one message | open, poll, answer, send usage, disconnect | SpendGuard, limiter, provider |
| RateLimiter, client registry (`rate_limiter.rs`, `client_registry.rs`) | limiters, tiers, default tier | `register`, `check`, tier loading | handlers, startup |
| RouteEngine (`route_engine.rs`, `resolve_*` in `main.rs`) | model registry behind a lock | `select_reachable`, `select_for_task`, `find`, `get_pricing`, `extend_registry` | handlers, startup |
| Vision (`vision.rs`) | none | `has_image`, `select_vision_model`, content conversions | `resolve_model`, connectors |
| OpenRouter catalog (`openrouter_catalog.rs`) | none of its own | one fetch at the start, `to_model_config` | RouteEngine |
| Auth (`auth.rs`) | key hashes | two middlewares, BYOK header extraction | in front of the handlers |
| Tokens and pricing (`tokens.rs`) | none | counting, `TokenCostBreakdown` | handlers, audit task |
| SemanticCache, embedder (`semantic_cache.rs`, `embedder.rs`) | rows in Postgres, spawned inserts | `lookup`, `store` | non-streaming handler |
| Telemetry (`telemetry.rs`) | buffer, files, spawned records | `record`, `flush`, ROI report | non-streaming handler |
| CostTracker (`cost_tracker.rs`) | rows in Postgres, spawned writes | `record_request`, `record_error`, `record_shadow_comparison`, daily report | handlers, shadow and audit tasks |
| Admin API (`admin.rs`, dashboard) | none | read-only queries | operators |

What is hard here, and what makes each part correct:

* **CircuitBreaker** decides under one lock and acts under another, while calls
  let through in an earlier period are still under way. Correct: one trial at a
  time, resolved by its own report, not before the reset timeout, and every open
  or half-open state is left again.
* **SpendGuard** is reserved now and settled later, perhaps in another window or
  never. Correct: the total covers what was admitted, charges nothing that was
  not, and the cap is exceeded only by what could not be known beforehand.
* **ConcurrencyLimiter and lifecycles**: every await is a place where the future
  may be dropped. Correct: no permit lost or duplicated, each reservation settled
  at most once, a stream's always, nobody waits for ever while permits circulate.
* **LoopGuard** orders calls by the lock but dates them before it, and forgets the
  oldest of a busy client. Correct: what it flags is a loop, and what is a loop
  among the calls it can remember is flagged.
* **RateLimiter** decides, registers and charges under locks taken one after the
  other. Correct: the tier that was configured holds, a request is refused only
  for its client's own traffic, and nobody gets an unbounded burst out of the race.
* **Telemetry** pushes under a lock and flushes after letting go of it, and a
  flush that fails keeps a buffer that is already partly on disk. Correct: no
  record that was taken is dropped while the process runs, and only failed flushes
  double one.
* **SemanticCache** finds answers by closeness, fills itself from tasks that race,
  and outlives the process. Correct: an answer belongs to the client, the
  model and a prompt within the threshold, not along a chain of close prompts, and
  does not change under whoever asks next.
* **CostTracker** writes from tasks nobody waits for. Correct: at most one row of a
  kind for a request, a success row exactly for a settled call, no row that tells of
  a call for a request the cache served, every charged cent in one row, and two cost
  reports that differ by what can be named. It is not a list of the requests: see
  "What the audit log leaves out" below.
* **Routing, keys, prices** are decided at different places from the same headers:
  the model by what the keys reach, the route by which key there is, the price by
  the model before the call and by the model's id after a stream. Correct: nobody
  is stranded for a model the gateway itself chose, no key goes to the wrong
  provider, the identity is that of the key, and whoever stays within the estimate is
  charged no more than was reserved, except for streams through OpenRouter.
* **Stream parsing** decodes every chunk by itself, however the network cut it.
  Correct: the usage that is charged is what the provider last reported.

`PROJECT.json` lists every component with its status and every hazard with its
line and the properties that watch it.

## 2. Modules

| Module | Models | State and actions |
|---|---|---|
| `CircuitBreaker` | `circuit_breaker.rs` and the callers in `connectors.rs` | `state`, `failures`, `openFor`, `probeInFlight` are the fields of ProviderState; `Check` is the part of `is_open` under the read lock, `ClaimTrial`/`ClaimLate` the part under the write lock; `Succeed`, `Fail`, `EndUnrecorded`, `Abandon` the ways a call ends |
| `MCCircuitBreaker` | | constants for TLC |
| `CircuitBreakerProofs` | | theorems |
| `SpendGuard` | `SpendGuard` | `spent`, `elapsed`: an entry of the map; `Grant`/`Refuse` = `try_reserve`, `Settle` = `reconcile`/`release`, `Leak` = the holder's future is dropped |
| `SpendLedger` | | SpendGuard with history variables: the books of an auditor |
| `SumTheorems` | | lemmas about `SumFunctionOnSet`, for the two modules below that add cents |
| `SpendLedgerProofs` | | theorems |
| `ConcurrencyLimiter` | `concurrency.rs` over the tokio semaphore | `available`, `queue`, `permits`; `Acquire`, `Release`, `GiveUp` |
| `Gateway` | lifecycles in `main.rs` and `streaming.rs` | instances `Guard` of SpendGuard and `Pool` of ConcurrencyLimiter; `pc` per request, `audit` per stream; one action per stretch of code between two awaits |
| `MCGateway`, `MCSpendLedger` | | constants for TLC |
| `LoopGuard` | `LoopGuard`, for one client | `recent`: the deque; `Stamp` = the clock is read, `Record` = everything under the entry's lock |
| `RateLimiter` | `rate_limiter.rs`, tier loading of `client_registry.rs` | `tiers`, `size`, `cells`: the two maps; `Look`, `InsertLimiter`, `InsertTier`, `Admit`/`Refuse` = `check`, a step per lock; `LoadEnv`, `LoadDb`, `DbFails` = the startup |
| `RateLimiterProofs` | | theorems |
| `MCLoopGuard`, `MCRateLimiter` | | constants for TLC |
| `LoopGuardProofs` | | theorems |
| `GatewayProofs` | | theorems, with the queue of `ConcurrencyLimiter` |
| `Telemetry` | `TelemetryRecorder` | `recorder` per record: the task in `record`; `buffer`, `disk`; `Push` = `record` under the lock, `FlushNothing`/`FlushWrites`/`FlushFails` = `flush`, `StopRecorder` = the process stops |
| `SemanticCache` | `semantic_cache.rs` | `rows`: the table, `storing`: spawned inserts; `Exact` and `Similar` are the two queries of `lookup`, `Insert`/`InsertFails` the end of `store` |
| `CostTracker` | `cost_tracker.rs` | `queued`, `logs`, `shadows`: spawned writes and two tables; `WriteRow`/`WriteFails`, `DailyReport` |
| `Records` | the handlers' side of the three | extends them; `phase` per request, one action per stretch between two awaits; `Stop` kills every task and keeps tables and files |
| `MCRecords`, `RecordsProofs` | | constants for TLC; theorems, those of `Telemetry` first |
| `Registry` | the tables of `route_engine.rs` | the curated models, the weights, the tasks: constants of the code |
| `RouteEngine` | `route_engine.rs`, `select_vision_model`, `openrouter_catalog.rs` | `extra`: what the catalog added; the selections are operators that give the set of possible choices |
| `Auth` | `auth.rs` | operators on headers: the bridge, the key check, `KeyFor` with its aliases |
| `StreamParsing` | the loop of the SSE generator | `place`, `usage`, `payload`; `Chunk` = a chunk with whatever lines it holds whole, `LoopEnds` |
| `Dispatch` | the layers, `resolve_model`, `resolve_byok_route`, prices | extends the four; `stage` of one request, one action per decision, from the catalog fetch to the charge |
| `MCDispatch`, `DispatchProofs` | | constants for TLC; theorems |

`Gateway`, `Records` and `Dispatch` are three views of the same handlers: how
requests race for budget and permits, what they leave behind, and what is
decided for one of them. They share no variables, for the code's decisions in
one view do not read the state of another, but for their outcome: where a view
needs one (a granted reservation, a failed call) it allows every outcome.

### Abstractions

* Time is a `Tick` that ages what a timer runs on; ages stop one past the limit
  they are compared with, so behaviours need no bound on their length.
* A missing map entry is its default entry. `failures` saturates at the threshold,
  beyond which the code does not look. `last_failure_time` is never read.
* Cents are integers; the f64 rounding of the code is not modelled.
* In `CircuitBreaker` a caller told "open" changes nothing and has no step; a
  connection error that is no timeout may come at once, an HTTP answer or a
  timeout takes at least `MinRoundTrip`.
* In `Gateway` everything before the reservation is `TurnAway` or nothing; a
  `CircuitOpen` answer is one of the failures of `CallFails`. A plain request may
  be cancelled exactly where it awaits: in the queue and in the call. Shadow
  tasks and audit tasks are spawned, so nothing cancels them. A stream's permit
  is taken inside its generator, which runs only when it is polled.
* The semaphore's internals are tokio's: fair, a returned permit goes to the
  first waiter even before that waiter is polled, a dropped waiter leaves the
  queue (or gives its permit back).
* In `LoopGuard` a timestamp is kept as its age. `log` is the true list of calls
  the properties compare the history with. The clock and the lock are at most
  `LockDelay` apart; with no such bound nothing could be said of the order.
* In `RateLimiter` governor's limiter is a bucket that is full when it is new and
  gets its cells back one at a time. `level` is the reference it is measured by:
  what was admitted and is not yet paid for by time. A request that finds its
  limiter missing would insert one; `MapsAgree` says none does.
* In `Records` a prompt is a point of a line and similarity the distance; the hash
  of client, model and prompt is the triple; the index is approximate, so `Similar`
  may return any row that passes the filters. A prompt that is empty or cannot be
  embedded, a query that fails and a row that cannot be parsed are a miss or an
  abandoned request. `hit_count` and `last_hit_at` decide nothing and are left out.
  `charged` is what the spend guard was told, over restarts; reservations
  are in `Gateway`. A detached task is a row of `queued` or `storing`, or the
  `recorder` of a record; it may fail, and the process may stop first.
* In `Dispatch` tokens are thousands, prices half cents, scores integers of
  the same order as the code's f64 scores wherever they are further apart than
  the rounding; prices are natural numbers (no NaN, no negative ones). A catalog
  entry without an id is dropped by the code and not modelled. A model id is the
  pair around its slash, a key a tagged value, a hash injective. `TokenModulus`
  stands for the width of the u32 sum. A stream's line is text, usage or stop;
  a cut falls between lines, inside one, or inside a character.

## 3. Runs

| Run | Checks | Shows |
|---|---|---|
| `breaker` | `TypeOK`, `BreakerConsistent`, `SingleTrial`, `OnlyTrialResolves`, `HoldOff`, `OpenIsTried` | the breaker does its work while every call ends and reports in time |
| `breaker_lost_trial` | `TrialIsResolved`: violated | a trial that ends with 401, 403, 429, a parse error, a connection error or a dropped future blocks the provider for ever |
| `breaker_stale_claim` | `HoldOff`: violated | the claim does not look at the expiry again, so a delayed claimant starts a second trial at once |
| `spend_ledger` | `LedgerTypeOK`, `NeverUndercounts`, `NeverOvercounts`, `CeilingBound` | by how much the guard's total and the committed cost can differ, and that nothing else separates them |
| `spend_ceiling` | `HardCeiling`: violated | a refund of an earlier window is taken from the new window's total |
| `gateway` | `TypeOK`, `PermitsSound`, `SettledOnce`, `StreamSettles`, `ServedUnlessStreamsHoldAll` | the three kinds of request share permits and budget soundly |
| `gateway_cancelled` | `LostOnlyIfCalled`: violated | a request dropped in the permit queue keeps its reservation charged |
| `gateway_free_stream` | `NoFreeStream`: violated | a client that leaves early gets the stream's cost released |
| `loop_guard` | `TypeOK`, `NoFalseAlarm`, `LoopCaught` | what is flagged is a loop in the window, give or take the delay of a lock; a loop among the last `MaxHistory` calls is flagged in whatever order they are recorded |
| `rate_limiter` | `TypeOK`, `MapsAgree`, `BurstBounded`, `TierAsConfigured`, `RefusedOnlyOverRate` | the table's tier beats the environment's and the default's; the race of first requests gives a client that nobody configured at most one bucket per racer |
| `records` | `RecordsTypeOK`, `Kept`, `NoExtraCopies`, `FullBufferIsFlushed`, `AnswersAlike`, `FirstAnswerStands`, `OneTrace`, `BooksBalance`, `ReportsApart` | what the detached tasks leave behind when they race, fail and die: which record may be missing or doubled, whose answer a cache hit is, where each cent is written, how far apart the two cost reports are |
| `dispatch` | `DispatchTypeOK`, `IdentityIsKeys`, `OwnKeyOnly`, `AutoNeverStrands`, `AutoChoosesWell`, `ChargedAsReserved`, `UsageFaithful`, `CuratedWins` | from any headers to the charge, on the code's own table of models: a choice the gateway makes can always be called, keys stay with their provider, counts are those reported, and whom the reservation covers |

The violated properties quote what the code's documentation says; `findings` in
`PROJECT.json` has the quotations. `SettledOnce` is a refinement: the gateway,
with its reservations as holders, implements `SpendGuard!Spec`.

### What the audit log leaves out

The feature list says that "every request is logged with token counts, cost,
latency" (`src/README.md:15`), and the schema calls the table an "immutable audit
trail of every request" (`src/migrations/001_request_logs.sql:52`). The code does
not do that, and `OneTrace` does not say so. No row of any kind is left by

* a request answered from the cache: the handler returns at `main.rs:485`, before
  anything is logged (`HitExact`, `HitSimilar`);
* a request that is turned away or whose client hangs up: the guards, the budget, a
  missing key and a dropped future end it without `record_error` (`Abandoned`);
* a stream that fails, or that its client leaves, before its counts are sent to the
  audit task, be it in the middle of the answer: the reservation is released at
  `streaming.rs:174` and nothing is logged (`Abandoned` of a stream);
* a row whose detached write fails or dies with the process (`WriteFails`, `Stop`).

`OneTrace` states what does hold: of the rows that are spawned, a success row
belongs to a settled request and an error row to one nobody answered; a request the
cache served has none; and a request that its own call answered has its row, unless
the process stopped in the middle of its stream. It says nothing of the requests
listed above, so its passing is no evidence for the sentences quoted.

### What a reservation does not cover

`ChargedAsReserved` holds for every plain request and for a stream that goes to its
model's own provider. A stream that goes through OpenRouter for want of the
provider's own key is reserved at the price of the curated model and settled, in
`streaming.rs:138`, at what the table lists for the translated id: OpenRouter's own
price if the catalog has it, $5 and $30 per million tokens if nothing has it, and
nothing at all if the catalog lists the id without a price. In the run `dispatch` a
curated model (`gpt-oss-20b`) is streamed for nothing in this way. The property
exempts these streams from its first part and says so.

### Bounds, and why they are enough

* `breaker`: two providers (independence), three callers (a trial, a straggler and
  a rival claimant), threshold 2, so that one failure does and one does not open
  the circuit. The timing is the code's own proportion (calls end within 30 s, the
  reset timeout is 60 s) and an answer slower than the write lock; `Prompt` names
  both, and the theorems below need nothing else. `breaker_stale_claim` lets the
  lock take three ticks.
* `spend_ledger`: one client (entries of different clients share nothing), three
  requests, costs of 1 and 2, cap 3, window 1: two requests fit, three do not, and
  a reservation can outlive its window. All counters are bounded by the three
  reservations and the clamp, without a constraint. Requests are symmetric.
* `gateway`: one permit for a plain request, the shadow call it spawns, another
  plain request and a stream; the cap is two cents short of what they reserve
  together, and the window can roll over at any tick. Each request runs once, so
  the system may stop, which is why deadlock is not an error there. In the
  breaker and ledger runs time and requests never stop.
* `loop_guard`: two callers are enough for one call to overtake another; a history
  of three entries with threshold three is filled and evicted by a burst of five
  (`MaxBurst` bounds how many calls may be in the log or under way). The slack of
  one `LockDelay` in both properties and the restriction to the last `MaxHistory`
  calls are needed: TLC refutes the properties without either. The last is a real
  limit of the code: a loop spread over more than 200 other prompts goes unseen.
* `rate_limiter`: three requests, so that two can replace the limiter the third has
  used; tiers of one and two cells; one client in both sources, one in the table
  only, which is unknown when the table cannot be read. `level` needs no bound: it
  is bounded by `BurstBounded`.
* `records`: an answer an earlier process cached, for the same client or another
  one; two requests that continue it in a chain of close prompts or repeat each
  other, one with a shadow call; a stream. One record fills the buffer, so the
  second finds it full after a failed flush. `MaxFaults` and `MaxStops` (one each)
  bound failed writes and stops. Costs are different powers of two, so sums that
  agree are sums of the same rows. Every request ends once, so the system may
  stop: deadlock is no error there.
* `dispatch`: one request at a time, since requests share only the registry. The
  whole curated table; no catalog, a catalog that repeats ids and knows some
  curated ones under OpenRouter's name, or a fetch that fails. Header sets: every
  provider's key alone, the aliases with and without their header, blanks, both
  ways of authenticating and their malformed forms, a claimed client id. Inputs lie
  on both sides of the table's context windows. A model that is named is asked for
  with a large and a small estimate, so that calls end within it and beyond it.
  Scripts report usage late, twice,
  after the stop or never, cut at any places; counts reach a modulus of 16.

### Fairness

* `breaker`: `Tick` is strongly fair (time passes), a thread waiting for a lock
  gets it (parking_lot is eventually fair), a call ends (the HTTP client has a
  timeout), and requests for every provider keep coming, without which nobody
  would ever ask. The last is an assumption about the clients.
* `gateway`: the runtime polls a task that can run, and a plain or shadow call
  ends by the connectors' timeout. Nothing is assumed to end a stream: its HTTP
  client has no timeout and its upstream or its reader may stay silent. This is
  why `ServedUnlessStreamsHoldAll` has its first disjunct, and it is the honest
  form of the promise.

## 4. Proofs

`CircuitBreakerProofs` proves, for any finite or infinite sets of providers and
callers and any timing:

* `TypeCorrect`, `Consistent`: `[]TypeOK`, `[]BreakerConsistent`, with no
  assumption on timing.
* `OneTrial`, `HoldsOff`, `TrialDecides`: `SingleTrial`, `HoldOff` and
  `OnlyTrialResolves`, under `Prompt`. `SingleTrial` is not inductive: a state in
  which a straggler of an earlier period is still under way when the circuit
  becomes half-open satisfies it before the step and not after. The strengthening
  `PromptInv` relates clocks: while a circuit is open, every call in flight to it
  is at least as old as the opening; a claimant's reading of the expiry is still
  true, since no answer can come before the lock; and the trial is the only
  caller of a half-open provider. That a call is younger than `CallTimeout`
  and the opening older than `ResetTimeout` then excludes stragglers.
* `LostTrialBlocks`: once nobody is calling a half-open provider, nobody ever is
  again, whatever the timing. This is what the run `breaker_lost_trial` leads to:
  the trial's report is the only way out, and a lost trial sends none.

`SumTheorems` holds what the books need. `SumFunctionOnSet` folds over a set by an
arbitrary choice of the next element, and the library's induction theorems cannot
be instantiated, so the module first proves induction over the natural numbers and
over the finite subsets of a set for sets instead of operators
(`NatSetInduction`, `SubsetInduction`). `SumTable` is the table of the sums of all
subsets; that it exists and is the fold gives `SumEmpty` and `SumRemove`, and from
them follow sums after one value changed (`SumUpdate`), of a union, of two
summands, of a part, and of indices that overlap (`SumOfOverlap`).

`SpendLedgerProofs` proves `LedgerTypeCorrect`, `GuardNeverUndercounts`,
`GuardNeverOvercounts` and `CeilingHolds` for any clients, requests, costs, cap and
window. The invariant conjoins the two books' inequalities; `NeverUndercounts` is
what the clamp in `reconcile` and the reopening of the window preserve, and
`CeilingBound` additionally uses that a grant fits under the cap.
`NeverOvercounts` is not inductive: `reconcile` stops at zero, so that a settlement
below its estimate would take more from the committed cost than from the guard's
total if less than the refund were committed. `OpenInv` adds that the window's open
reservations are held and finitely many, and that their estimates add up to no
more than is committed: what a settlement gives back was there.

`RateLimiterProofs` proves all five properties of `rate_limiter`, for any clients,
finitely many callers, any tiers and any configuration.

* `TypeCorrect`, `MapsStayTogether`, `ConfiguredTiersHold`, `NoFalseRefusal` rest on
  `IInv`, which adds to them that nobody is inside `check` during startup, that a
  caller registers only a client nobody configured, that a caller past the
  registration asks for a client that has a limiter, and that a bucket's missing
  cells are no more than its client's level.
* `Bursts`: `BurstBounded` is not inductive, for it does not say who may still
  replace the bucket. `BurstInv` says that a client has had at most
  `Buckets(c)` buckets: one if it is configured, otherwise one for each caller that
  is not still racing to register it. A caller that installs a bucket leaves the
  race and pays for it; when nobody races, the bound is the number of callers.

`GatewayProofs` proves, for any plain requests, streams and shadow calls, any
costs, cap, window and number of permits:

* `GatewayTypeCorrect`, `PermitsAreSound`: `[]TypeOK` and `[]PermitsSound`. The
  invariant `GatewayInv` adds to the types that free and held permits make up
  `MaxConcurrent`, that nobody is queued twice or queued with a permit, that nobody
  waits while a permit is free (`PoolInv`), that each place in the code has or
  waits for a permit as the code does there (`Places`), and who holds a
  reservation (`Settlers`). That a permit handed over in the queue is neither lost
  nor doubled is a fact about cardinalities of the held set, one lemma per
  operation.
* `CallsAreBounded`: no more than `MaxConcurrent` calls are in flight, and nobody
  waits while fewer requests than that hold a permit.
* `NoneLeftBehind`: a reservation that is still held when its request is over is a
  stream's, and its audit task has the counts or knows that none will come. It is
  the part of `StreamSettles` that does not depend on scheduling.
* `GatewaySettlesOnce`: the gateway implements `SpendGuard!Spec` under the
  mapping of reservations to holders, step by step. `Settlers` is what it needs:
  a task that settles still holds what it reserved. `KindAssumption` says that
  the three kinds are disjoint and that no two requests share a shadow task.

`LoopGuardProofs` proves all three properties of `loop_guard` for any prompts,
callers, threshold, window, history and delay: `LoopTypeCorrect`,
`NobodyFlaggedFalsely`, `LoopsAreCaught`. `GuardInv` reads the deque and the log
of all calls from their ends: as far as both go they agree (`Aligned`); what the
log has beyond the deque went by the cap or had expired (`Evicted`); and calls
are out of order by no more than `LockDelay` (`InOrder`), so that what is counted
behind a fresh call is stale by no more than that. Counting in one is then
counting in the other, by an injection. That the expired prefix is well defined
rests on `LeastNatural`, an induction over finite sets in first-order form.

`RecordsProofs` proves, for finitely many requests, any prompts, costs,
threshold, buffer size and numbers of faults and stops:

* `RecorderSound`: the recorder alone keeps `Kept`, `NoExtraCopies` and
  `FullBufferIsFlushed`. `TelemetryInv` adds that the buffer has no duplicates and
  holds only records whose task is past the push; with duplicates one flush could
  write a record twice without having failed.
* `RecordsImplementTelemetry`: every step of the composition is a step of the
  recorder or leaves it alone. `RecordsAreKept`, `NothingDoubled` and
  `FullBuffersFlush` follow from it and the above.
* `RecordsTypeCorrect`, `CacheAnswersAlike`, `FirstAnswersStand`: `CacheSound` says
  that every row, stored or about to be, holds what its own caller asked and was
  answered by its own call, so that closeness is measured from the question the
  answer was given to; and that two rows of one key are the same row.
* `TracesAreOne`: `TraceInv` relates the phase of a request to the rows it has left
  so far, wherever they are, and `CachedAreAnswered` says that a cached answer is
  that of a request which its own call answered: whoever is served one has not
  answered itself, and its phase leaves it no row.
* `BooksAlwaysBalance`: `[]BooksBalance`. `AuditInv` adds that the rows are finitely
  many, each at a natural cost, that they lie where their kind belongs, and that
  the recorder has a task for exactly the settled requests, whose rows together
  cost what they do. Moving a row then leaves the sum alone; that a spawned row is
  a new one, and so adds its own cost, is from `TraceInv`.
* `ReportsStayApart`: `[]ReportsApart`. Both reports are compared with the same
  third sum, one line for each settled request at its cost: the daily report lacks
  the rows that are unwritten; the ROI report lacks what is in memory or lost and
  has the streams' rows never, and its lines beyond one are bounded by the failed
  flushes of their record (`NoExtraCopies`).

`DispatchProofs` proves, for any headers, requests, catalogs and scripts:

* `IdentityFromKey`, `KeysGoHome`: `[]IdentityIsKeys` and `[]OwnKeyOnly`, from an
  invariant that says at each stage how the headers differ from those sent.
* `StreamsReadFaithfully`: `[]UsageFaithful`. Between two chunks `StreamInv` says
  that the counts are those of the last usage line before the place that was read,
  if no cut tore a line, and of some earlier one otherwise.
* `CuratedWinsAlways`: `CuratedWins`. `RegistryInv` says that the ids of the table
  are distinct; `AppendedIs` that what `extend_registry` pushes is new and has no id
  twice, from `RankIs` (positions in a finite set, numbered in order).
* `NobodyStranded`: `[]AutoNeverStrands`. `TopIs` gives a best score among finitely
  many, so that each of the three choices is an eligible model or shows that there
  is none (`SelectReachableIs`, `SelectVisionModelIs`, `SelectForTaskIs`);
  `StrandInv` keeps the provider of the choice reachable until its key is looked up.
* `PricesAreKept`: `[]ChargedAsReserved`. `PriceInv` ties the reserved price to the
  target the route was made for, `ModelsPriced` finds that model's price again under
  its id and shows that no curated model is listed for nothing, `FreeInv` that
  whatever the catalog added is OpenRouter's and so keeps its id on the way, and
  `BreakdownIs` that a cost grows with either count.
* `ChoosesWellAlways`: `[]AutoChoosesWell`. Every choice is one model of the registry
  or none (`ChoiceOne`), and nobody eligible scores above the chosen one
  (`SelectReachableOne`). Each share of the score is a quotient whose divisor grows
  with what is worse (`QuotientFalls`), so a model that is better in quality and no
  worse in the rest would score higher (`DominantScores`). `TargetInv` carries the
  choice to the end of the request: nothing it was made from changes under way.
* `DispatchTypeCorrect`: `[]DispatchTypeOK`, from the invariants above and
  `ShapeInv`; the total stays within 32 bits because it wraps.

The last five use one fact about the table of the code, `CuratedAssumption` (its
types, distinct ids, no free model), which TLC evaluates in the run `dispatch`.

### What is only model-checked

* Liveness (`OpenIsTried`, `StreamSettles`, `ServedUnlessStreamsHoldAll`): the
  prover does not treat fairness and ENABLED.
  Their parts that are not about scheduling are proved: `NoneLeftBehind` for
  `StreamSettles`, `CallsAreBounded` for `ServedUnlessStreamsHoldAll`.
* The five violated properties, whose counterexamples are TLC's.

Every other invariant and action property that a passing run checks is stated by a
theorem. Two assumptions on constants are there for the proofs alone: the requests
of `records` and the callers of `rate_limiter` are finite sets. A process sees
finitely many requests, and without that a sum over them would mean nothing.
`RecordsAssumption` also says that no request is called `Nobody`, the value that
stands for an answer there is not.

What is proved is what the modules say; the correspondence with the code is by
review, along the `map` in `PROJECT.json`.

## 5. Plan

Done: the guards (`CircuitBreaker`, `SpendGuard`, `ConcurrencyLimiter`,
`LoopGuard`, `RateLimiter`), the lifecycles (`Gateway`), the records (`Telemetry`,
`SemanticCache`, `CostTracker`, `Records`) and the decisions (`Registry`,
`RouteEngine`, `Auth`, `StreamParsing`, `Dispatch`). Next, in this order:

1. The gateway against `SpendLedger` directly: a mapping of its requests to the
   books, so that `CeilingHolds` reads as a bound on what the gateway spends.
2. Larger instances of `records` with a buffer of two records and two stops.
3. The circuit breaker inside `Gateway`: which of the failed calls of a request
   were refused at once.

## 6. Not modelled

* The admin API, the dashboard, the schema and the deployment files: read-only
  queries and static text without state or decisions of their own. The one report
  that touches the properties is `DailyReport`.
* Message formatting: request bodies, the content conversions of `vision.rs`, CSV
  export, log lines. The connectors appear as a call that ends in one of the ways
  the circuit breaker, the budget and the audit log tell apart.
* Numeric code: the embedding model, the tokenizer, f64 rounding of cents and
  scores, NaN or negative prices.
* Code without callers: `check`/`record_spend` of SpendGuard, `set_enabled`,
  `get_total_savings`, telemetry's `enable`, `disable` and `export_as_csv`.
* Wall-clock effects on reports (days, ROI periods): the reports are taken over
  everything.
* A stream's request to a circuit that is open: streams do not ask the breaker.
