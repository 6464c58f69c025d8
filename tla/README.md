# Stellar fee tracker: a verification project

TLA+ models of the fee tracker service (`packages/core`), of the dashboard that
shows it (`packages/ui`) and of the tools around it (`packages/devkit`,
`typed-doc`), the configurations that check them with TLC, and theorems about
them checked by TLAPS. Paths below are relative to `packages/core/src` unless
they start with `packages/` or `typed-doc/`.

## 1. The system

The service polls Horizon, the API server of the Stellar network, keeps recent
transaction fees in memory and in SQLite, derives insights and alerts from
them, and serves both over HTTP. `main.rs` builds the parts and then waits on
three tasks in one `tokio::join!`: the HTTP server, the fee polling loop and
the fee statistics loop.

| Part | State | Operations | Interacts with |
|---|---|---|---|
| Fee polling (`scheduler.rs`) | the poll in hand, attempt counter | tick, fetch with retries, filter, push, analyse, persist, prune, stop | store and engine (locks), repository, provider, alert manager |
| Fee history store (`store.rs`) | a `VecDeque` bounded by 10 000 | push (evicts at the front), get_since, get_last_n, get_by_hash | written by polling and startup, read by the API |
| Repository (`repository.rs`) | SQLite tables: fee_data_points, fee snapshots, alert_configs, alert_events, recommendations | inserts, upserts, queries, pruning | everyone; the only state that survives a restart |
| Provider (`insights/horizon_adapter.rs`, `services/horizon.rs`) | none | newest transactions, fee_stats, accounts | Horizon, 5 s connect and 10 s total timeouts |
| Insights engine (`insights/`) | rolling windows, extremes, recent spikes, published insights | process_fee_data, views | polling, startup, API |
| Alert manager (`alerts/mod.rs`) | seen_spikes, active spike, good-window and stale flags | check_and_dispatch, rehydrate_seen_spikes | repository (configs, event log), webhook deliveries |
| Webhook delivery (`alerts/webhook.rs`) | a task per alert, its attempts | send_with_retry, log the event | the receiver, repository |
| Alert API (`api/alerts.rs`) | none of its own | create, list, patch, delete, history | alert_configs, alert_events |
| Current fees (`api/fees.rs`, `cache.rs`) | one response cache behind a mutex | GET /fees/current | Horizon |
| Recommendations (`recommendation/`, `api/recommendation.rs`) | answer cache | recommend, simple answer, history | store, engine, repository |
| Congestion, analytics (`congestion/`, `analytics/`) | none | pure functions of the store | API |
| Middleware (`middleware/`) | a concurrent map of token buckets | consume, evict, key check, validation | every request |
| Operation (`main.rs`, `config.rs`, `metrics.rs`) | configuration, counters | start, Ctrl-C, scrape | all of the above |
| Dashboard (`packages/ui`) | what its panels show, refreshes in flight | refresh, settle, choose a window | API |
| Devkit (`packages/devkit`) | breaker, bulkhead, seeded fee models, fixtures | calls, generation | not used by the service |
| Drafts (`typed-doc`) | rotating log, cleaning tools, meters, traces, timers, health checks | as named | not built by any crate |

The packages aggregator, alerting, cli, pipeline, utils, health, metrics,
profiler, sampler, testing and docs are placeholders.

What is hard here: pages of Horizon overlap, and the only thing that keeps a
transaction from being counted twice is a store that forgets; a poll is several
critical sections with awaits between them, any of which a kill may hit; a
failed step (one insert, one malformed point, one baseline) is logged and
passed over; points arrive newest first and late, while windows, spikes and
extremes are kept as if they came in order; alerts are edges of a condition
that spikes enter and leave while configs change and deliveries run in tasks of
their own; a mutex is held across an upstream call by a request that may be
cancelled; PATCH reads and writes in two statements; the two halves of a
history answer are read at different moments; refreshes of the dashboard
overlap; answers are cached by what was read before. `PROJECT.json` lists these
hazards at their lines.

What makes each part correct:

- *polling, store, repository*: each transaction is taken and counted at most
  once per process; what is stored is saved or its loss is explained; after a
  restart store and engine agree; the loop always comes round and catches up.
- *fee statistics*: the row of a ledger is the snapshot last written for it.
- *insights*: a window has what belongs in it and little else, extremes bound
  what they are taken over, spikes are the runs that lasted, and what is
  published is what the engine holds.
- *alert manager and deliveries*: the subscriber sees the edges of what the
  updates show and nothing else; a disabled type holds back no other; every
  loaded config gets its spikes; the log says truly how a delivery ended.
- *recommendations*: an answer was computed for the request that gets it, is no
  staler than the cache, and is the least that its confidence needs.
- *current fees*: one upstream call per TTL, no payload older than TTL and
  timeout, nobody waits for ever.
- *gateway*: no client exceeds its rate, none that obeys Retry-After is
  refused; every answer, row and count has a request that was let through.
- *dashboard*: a refresh that ran alone only ever improves what is shown; the
  form's result is the answer to its last request or stands beside an error.
- *devkit, drafts*: permits and breaker states stay within their rules,
  simulations replay, logs keep their newest lines, reports agree.

## 2. Modules

| Module | Models | Checked by | Proved in |
|---|---|---|---|
| `IngestLog` | what polling promises about a transaction (abstract) | `fee_polling` | |
| `FeePolling` | polling loop, store, rows, rehydration, crashes | `fee_polling` | `PollingTask_proofs` |
| `EdgeAlerts` | what the alert manager promises its subscriber (abstract) | `alert_manager` | |
| `AlertManager` | checks, dedup, configs, event log, restarts | `alert_manager` | `PollingTask_proofs` |
| `CurrentFees` | GET /fees/current with its cache and mutex | `current_fees` | `CurrentFees_proofs` |
| `SpikeDetection` | the arithmetic of the detector | `insights` | `FeeInsights_proofs` |
| `FeeInsights` | windows, extremes, spikes, published views | `insights` | `FeeInsights_proofs` |
| `FeeStatistics` | percentiles, trend, tiers, waits, scores, advice | `advice` | |
| `Recommendations` | recommendation and advisory requests over store and cache | `advice` | `Recommendations_proofs` |
| `AlertConfigs` | the alert configuration API and its table | `service` | `Service_proofs` |
| `FeeStatsPolling` | the fee statistics loop and its table | `service` | `Service_proofs` |
| `Deliveries` | webhook deliveries, event log, history | `service` | `Service_proofs` |
| `Dashboard` | the dashboard's refreshes | `service` | `Service_proofs` |
| `RecommendationForm` | the dashboard's recommendation form | `service` | `Service_proofs` |
| `Service` | the five above in one process | `service` | `Service_proofs` |
| `RateLimit` | token buckets and their eviction | `gateway` | `Gateway_proofs` |
| `Operation` | configuration, startup, loops, Ctrl-C, metrics | `gateway` | `Gateway_proofs` |
| `Gateway` | limiter, key, handlers and loops together | `gateway` | `Gateway_proofs` |
| `Resilience` | circuit breaker and bulkhead | `devkit` | `Devkit_proofs` |
| `Simulation` | fee model, load model, fixtures | `devkit` | `Devkit_proofs` |
| `DataQuality` | tools that clean and compare recorded points | `devkit` | `Devkit_proofs`, `DataTold_proofs` |
| `LogRotation` | the rotating log writer | `devkit` | `Devkit_proofs` |
| `Metering` | error tracker, metrics, run metrics and their merge | `devkit` | `DataTold_proofs` |
| `Tracing` | trace contexts, timers, health checks | `devkit` | `Devkit_proofs` |
| `Devkit` | the six above, one at a time | `devkit` | `Devkit_proofs`, `DataTold_proofs` |

Definitions that begin with the name of another one and say *faulty* in their
comment (`FilterKnownByRow`, `RetainedAll`, ...) are not part of any
specification. Each is a slip the code could have; put in the place of the
definition it is named for, it makes one property fail.

Composition: `Gateway` composes `RateLimit` and `Operation` with the handlers
and shares their variables. `Service` composes parts that share only the fate
of the process (`Restart`). `Devkit` gathers parts that share nothing; the
variable `used` says which one a behaviour exercises. `FeeInsights` extends
`SpikeDetection`, and `Recommendations` extends `FeeStatistics`.

### FeePolling

`pc` is where the polling task is between two awaits or two critical sections;
`store` and `db` are `FeeHistoryStore.data` and the rows of `fee_data_points`.
A transaction is a number in the order the network applied it, and `LedgerOf`
gives its ledger, which stands for its timestamp: all transactions of a ledger
share `created_at`. Two history variables serve the properties only: `pushed`
(everything this process took) and `missed` (points whose insert failed);
`analysed` counts how often the calculator was given a point.

- A page is the `FetchLimit` newest transactions, pushed in page order, newest
  first (`NewestFirst`), as `order=desc` gives them.
- Anything but a `FormatError` is retried, with a sleep after the last attempt
  too; a page without one convertible transaction is a `FormatError`.
- `Analyse` is all or nothing (`validate_fee_data`), its error is only logged.
- `Persist` is one SQL transaction of `INSERT OR IGNORE`; `PersistFails` rolls
  back and is not retried. `Prune` may fail on its own.
- `Crash` can happen at any `pc`. `Rehydrate` reads the rows of the last day
  in timestamp order, rows of one ledger in any order.
- Eviction is written in closed form (`PushAll`); `MCFeePolling` assumes, and
  TLC evaluates, that it equals pushing one point after the other.

`IngestLog` is refined with `seen <- pushed, counted <- analysed, durable <- db`.

### AlertManager

One poll's `check_and_dispatch` is four steps (`load`, `spike`, `good_window`,
`stale_data`), because the API, delivery tasks and a kill can come between
them. A spike is a number that stands for its identity string; the keys of
`seen_spikes` are modelled by what they are built from: `Identity` (start time),
`DedupKey` (identity and webhook), `LoggedKey` (time of the log row). Which of
them are equal is what the dedup logic depends on. `oldest..detected` is the
detector's window of recent spikes. An update without a default webhook does
nothing, as in the code. The event log keeps which spike and webhook a row
names. `EdgeAlerts` is refined through `shown`, `posted` and `enabled`.

### CurrentFees

`queue` is the tokio mutex: first come, first served, its head holds it. The
lock is held from the freshness check over the call to Horizon to the cache
write. Payloads are named by the time Horizon published them; Horizon reads at
some moment of the call (`HorizonReads`), so the answer may be old on arrival,
and `cached_at` is the time of arrival. `Disconnect` drops the handler at any
await, together with the guard or its place in the queue.

### SpikeDetection and FeeInsights

A point has its fee, the time its ledger closed, an id and the poll that brought
it; a fee of 0 stands for any malformed point. An update is `process_fee_data`:
refuse a batch with a malformed point, add every point to the three windows
(front cleaned while it is old, as calculator.rs:88 does), track the extremes
and rotate the period, take the baseline, which fails when the medium window is
empty, detect spikes in the batch alone, publish. A failed baseline leaves
windows and extremes changed and the published insights as they were. A
restart feeds the rows of the last day as one update. Averages are never
divided out: a baseline is `total / count`, compared by cross-multiplication.
A poll brings points closed since the newest one taken, which may be old by
then; their fee is one of a few classes.

### FeeStatistics and Recommendations

A request is split where the handler awaits: condition, cache lookup, samples,
answer, cache write. The key of the cache is target, urgency and condition; the
budget (`max_fee`) is not in it, as in the code. A cold request holds the
store's read lock from its count to its caching. Probabilities, percentages and
slopes are fractions; `LogScore` is a table of `ln(q) / ln(20)`. What the code
computes in `f64` is exact here, so comparisons that hinge on a last bit are
outside the model, and a slope within 1e-6 of zero, which the code calls
sideways, is told apart only from zero. `Trend` and `TrendTold` are the
regression of `analytics/trend.rs` and what the explanation says of it. The
explanation is given sorted fees (engine.rs:302), so it never says that fees
fall; no comment promises otherwise. `Volatility` models `compute_volatility`,
which the code keeps without a caller. `network_condition_adjustment`
(engine.rs:343), whose factors `packages/core/README.md` describes, has no
caller either and is not part of `WarmAnswer`. The "current" fee of an advisory
is the last in store order.

### AlertConfigs, FeeStatsPolling, Deliveries, Dashboard, RecommendationForm, Service

- `AlertConfigs`: POST and DELETE are one statement each; PATCH is a read of the
  whole table (`Read`), a merge with the body and a write of every column. A
  body's field may be left out or invalid. `read` in `patch` is history. DELETE
  disables the row. `Verdict` is `require_api_key`: 401 for a missing or wrong
  key, 403 for an empty or unreadable one.
- `FeeStatsPolling`: tick, attempts with pauses, upsert by ledger, prune. The
  prune removes what is older than the retention; both writes may fail. `latest`
  is history: the snapshot last written for each ledger.
- `Deliveries`: `task[a]` is the task spawned for an alert. It posts up to
  `Tries` times with pauses; the receiver may take a post and its answer get
  lost. Then the task logs its row, which may fail. `ask[r]` is a history
  request: the page and the total are two queries of one `try_join`, in either
  order. Retention removes rows in between. A `Restart` loses the tasks.
- `Dashboard`: a refresh captures the display and the window when it begins;
  each panel's request ends with an answer, or fails and falls back to what was
  captured; the refresh settles as a whole. Two may be in flight: the last to
  settle wins, the first to settle clears `isRefreshing`, as in the code.
- `RecommendationForm`: a request carries the options as they were when the
  button was pressed; `unanswered` are the requests in flight, `asked` is
  history. Options may change and an older result be cleared meanwhile. The
  confidence is saved in localStorage as it is chosen, the other options are
  not; `Mounted` is a load of the page. Two tabs that share localStorage are
  not modelled. An option the server refuses is a request that fails.

### RateLimit, Operation, Gateway

A request to the limiter has up to three critical sections: the look at the
map's size, the eviction, the bucket. Requests, also of one client, interleave
between them. Tokens are counted in units of 1/`Period` so that refill is exact;
the code uses `f64`, whose rounding is outside the model.

`Operation` takes a setting's text by what parsing makes of it (`Raw`): which
values stop the process, which fall back silently (rate limit, stale threshold,
sample count), and what they resolve to; `REC_MIN_SAMPLE_COUNT=0` is kept. Each loop waits, polls or has stopped.
Ctrl-C before the first `ctrl_c().await` kills the process; afterwards the
loops that wait hear it, one that polls misses it, and the server never stops,
so `main` does not return. A counter moves in the step of the code that moves
it. `Gateway` adds the router: every request but /health passes the limiter,
all but /metrics the key, then its handler with its awaits. An answer made from
samples is saved by a task of its own (engine.rs:172). Observed while modelling:
`recommendation_errors_total` cannot move, since `recommend` never fails;
`recommendations_total` counts answers, not requests; `spikes_detected_total`
adds the whole window of recent spikes at each update (scheduler.rs:165). The
metrics' help texts are vaguer than a contradiction, so these are notes here
and not findings.

### Resilience, Simulation, DataQuality, LogRotation, Metering, Tracing, Devkit

- `Resilience`: callers of the breaker and the bulkhead interleave between the
  atomic operations of `try_acquire` (load, compare-exchange, peak); results
  may arrive in any later state of the breaker. `execute` gives its permit back
  before it runs the operation (bulkhead.rs:86), so `BulkheadSound` bounds
  permits and not what runs.
- `Simulation`: a generator given by the function of its step on a few states,
  a fee model, a load that follows fees, fixtures. Reals are integer counts of
  a small unit.
- `DataQuality`: sequences of points to which the tools are applied one after
  the other. A loop over points is a recursive function of the number of points
  it has seen; sorting is stable (`InOrderOf`). What the tools may do that surprises, and the model does: repair
  gives a point whose timestamp is far the fee 0, lets the zero duplicate of a
  ledger overwrite the kept fee, and may create ledger gaps by sorting by time;
  two sequences are called similar when one has only zero fees. In the source
  repair matches a field that `LedgerGap` does not have; the model takes what
  the branch means.
- `LogRotation`: the directory, the active file, archives named by index and,
  if configured, by time. A rename may fail, a writer may be closed, a process
  may restart with the index at 0. With the time in the names (the default)
  removal finds its file only within one second; a failed rename spares an old
  archive for ever; a restart may overwrite archives. Partial writes are not
  modelled.
- `Metering`: each counter keeps a history of what it was told. Merging run
  metrics averages averages, so a scenario's average may fall below its
  minimum (a merge into a collector without the scenario halves it); the error
  tracker keeps the first severity of a code while its counts use the one
  recorded; a reset keeps `collections`.
- `Tracing`: spans, a registry and a carrier; timers; health checks. In the
  draft `TraceRegistry::get` on an empty registry locks its own mutex again
  and hangs (`hung`), which the tests `registry_get_creates_root` and
  `registry_start_span_increments_count` would meet if they were built;
  `start_span` does not install the child; extraction forgets the parent; a
  carrier that is not emptied hands on the baggage of earlier contexts.
  `to_json` of the health checker runs the checks twice, so its status may
  contradict its list when an outcome changes between.

The drafts in `typed-doc` do not compile and belong to no crate. Some are
copies of others: `simula.rs` of `timer_utility.rs`, `fore.rs` of
`benchmark_overhead.rs`, `analysis_instrumentation.rs` of `kitconfig.rs`,
`config_subcommand.rs` of `convert_sub.rs`. They are modelled as written, with
undefined names read by their evident meaning (`NEXT_ID`).

## 3. Runs

| Run | Shows | Bounds |
|---|---|---|
| `fee_polling` | `PageRemembered`, `StoredIsSaved`, `NothingSkipped`; refinement of `IngestLog` (`IngestsOnce`); `PollEnds`, `CatchesUp` | 6 transactions in 4 ledgers, page of 2, capacity 3 (the least that `CapacityAssumption` allows), 2 attempts, 2 crashes, one transaction that does not convert and one malformed |
| `fee_store_order` | violated: the store is not oldest first | no crash |
| `alert_manager` | `SeenBounded`, `ActiveIsWorst`, `ConfigsServed`; refinement of `EdgeAlerts` (`PostsEdges`) | 3 spikes (one minor), 2 configs of one webhook, 2 sets of types, 1 restart |
| `alert_dedup` | violated: a spike in the window is dispatched again | no restart |
| `alert_restart` | violated: a logged alert fires again after a restart | 1 restart |
| `recovery_correlation` | violated: a recovery names a spike never announced | no restart |
| `current_fees` | `ServedFresh`, `OneFetchPerTtl`, `RequestEnds` | 3 clients, TTL 1, timeout 1, clock to 3 |
| `gateway` | `WithinRate`, `RetryAfterSuffices`, `Accounted` | 2 requests, 2 clients, 2 tokens per 3 s, eviction above 1 entry, clock to 5, 3 polls, 4 environments, history of 2 |
| `insights` | `WindowsSound`, `ExtremesBound`, `ViewsAgree`, `DetectsRuns` | 4 points of 3 fees, 2 per poll, windows of 1, 2 and 4 ticks, buffer 3, period 3, clock to 4 |
| `advice` | `FeesTold`, `DearerWaitsMore`, `ColdStartEnds`, `AnswersMatch` | 2 requests, 2 fees, store empty or with 3 points and 2 more, cold below 2, TTL 2, clock to 2 |
| `service` | `SnapshotsLatest`, `PatchLeavesRest`, `HistoryTells`, `PageTells` | 2 handlers, 2 rows, 4 bodies; 2 ledgers, 2 attempts, retention 1, clock to 3; 3 alerts, 2 tries, 1 reader; 2 panels, 2 refreshes; 2 confidences, 2 other choices, 2 requests |
| `devkit` | `BulkheadSound`, `BreakerSound`, `Replays`, `DataTold` (`QualitySound`, `Meters`), `LogKeeps`, `Observes` (`SpansLink`, `TimesAddUp`, `ReportFits`) | 3 callers for 2 permits, thresholds of 2, 5 calls, clock to 3; generator of 7 states, 3 fees; 3 of 7 points; 4 lines, 4 log configurations; 3 reports and jobs; 3 identifiers, clock to 4 |

Every passing run also checks its type invariant: as `TypeOK`, in `insights`
as part of `WindowsSound` and in `gateway` of `Accounted`.
The largest have 2 662 144 (`advice`), 1 651 200 (`devkit`), 1 122 945
(`gateway`), 871 862 (`insights`) and 520 215 (`service`) distinct states.

Why the bounds are enough. *Polling*: with six transactions pages of two
overlap, differ wholly and leave gaps, a store of three evicts in a poll and in
rehydration, a ledger is split between two pages and retention removes rows
that rehydration would read. *Alerts*: three spikes let a worse one arrive and
leave while the condition lasts. *Current fees*: three clients make a holder, a
waiter behind it and one that comes late; the clock passes one TTL and one
timeout with room for a second fetch. *Gateway*: the bucket empties, refills
and is evicted while a request of the same client waits to consume; a request
disconnects before and after its row is spawned; polls of both loops overlap
and Ctrl-C falls before, in and between them. *Insights*: a buffer of three
overflows, points older than a window arrive behind newer ones, a period ends
with points on both sides, a run of spiking points spans two polls, a batch is
refused and a baseline fails. *Advice*: the store passes from cold to warm, an
entry of the cache ages past its TTL while another request is between its
lookup and its write, ties and a single fee occur. *Service*: a PATCH is
overtaken by another PATCH, a DELETE and a refused body; a delivery is taken
with its answer lost, logged between the two queries of a reader and pruned;
refreshes overlap and settle in either order; the form's result is cleared and
its options change while the next answer is due, and a request fails. *Devkit*: two callers meet at the
limit; failures come from before the breaker opened; a log rotates more often
than it keeps files, and restarts in between.

Constraints and symmetry. Parts that share no variable are explored one at a
time instead of in their product: `Apart` in `MCService`, `MCGateway` and
`MCRecommendations`, `used`, `OneAtATime` and `Short` in `MCDevkit`; the modules
themselves allow the product. In `MCGateway` the limiter over time, the
handlers and the loops are three views of the same specification; the handlers
are explored before the clock moves, with at most one past the limiter at a
time and one insert pending. In `MCRecommendations` an advisory, which only
reads, runs without another request. `Averages` in `MCDevkit` cuts the endless
halving of a merged average. Symmetry is over requests, clients, handlers,
slots and callers, in runs without liveness; the properties treat them alike.
`CHECK_DEADLOCK FALSE` stands where the system stops when its bounded counters
are used up, after Ctrl-C, or when its process has exited; `service` is
checked for deadlock.

Four properties are violated and are findings: statements of comments and docs
that the code does not meet (see `PROJECT.json`).

**Fairness.** Polling: weak fairness of the task's steps (its awaits end: HTTP
and sleeps have limits) and of the start after a kill. Nothing obliges the
network, Horizon or Ctrl-C. `CatchesUp` assumes in its own premise that Horizon
answers again and again. Current fees: weak fairness of each handler's steps; a
client need never come or leave, and time need not pass. The other
specifications state safety only.

## 4. Proofs

All for every value of the constants, from the named assumptions of the
modules.

- `PollingTask_proofs`, `FeePolling`: `TypeCorrect`, `NeverTwice`, `PageIsRemembered`,
  `EngineSkipsNothing`, `StoreIsDurable`, and `Ingests` (the refinement). The
  invariant that carries them is `MemoryInv`. `NoDuplicates` is not inductive:
  a page could repeat an evicted transaction. `Close` adds where entries may
  stand in the store: an entry has few older ones behind it, because a page is
  a run of the newest transactions and a ledger is small; counting what
  follows an entry (`FollowersBounded`, `PushKeeps`) shows that what leaves is
  no longer listed, provided `Capacity >= FetchLimit + Reorder - 1`. The code
  has 10 000 against a page of 100 and ledgers of at most about 1000.
- `PollingTask_proofs`, `AlertManager`: `ManagerTypeCorrect`, `DedupIsBounded`,
  `BelievesTheWorst`, `EveryConfigIsServed`, and `PostsEdgesOnly` (the refinement of `EdgeAlerts`).
  `CheckInv` holds from the check of spikes to the end of the update, since
  only that check touches the window, the dedup set and the loaded configs
  meanwhile. `ShownInv` relates the manager's flags to what the subscriber was
  shown. That `Worst` exists comes from a greatest-element lemma on sets of
  numbers, by well-foundedness of `<`. `EveryConfigIsServed` rests on
  `TagAssumption`, an assumption of the model and not of the code: the tags
  that stand for the parts of a key are no webhooks. In the code the key of a
  spike and a webhook is longer than the spike's identity, so they never meet.
- `CurrentFees_proofs`: `TypeCorrect`, `OneCall`, `FreshEnough`, `OnePerTtl`,
  `CacheMovesOn`. `QueueInv` says the queue holds each request in line once and
  only its head is at Horizon; `FlightInv` relates a call to the cache it found
  stale; `AgeInv` bounds the age of what is cached and sent.
- `Gateway_proofs`: for the limiter alone `TypeCorrect`, `RateIsKept`,
  `WaitingIsEnough`. The last two follow what the next request of a client would
  find (`InBucket`): eviction does not change it, because `StaleAfter >= Period`
  means that the forgotten bucket was full. That assumption is what makes
  evicting safe. `GatewayLimits` is the step from there to the service: every
  step of `GatewaySpec` is a step of `RateLimit` or leaves its variables alone,
  so `GatewayKeepsRate` and `GatewayWaits` hold of the service too.
  `GatewayAccounts` needs an invariant of its own, `GatewayInv`: where a handler
  may stand and what it then holds (`HandlersInv`); the rows of the table have
  stamps of their own and are listed newest first (`RowsInv`); there are no more
  entries than requests let through (`EnteredInv`); and the answers computed
  or counted, with the requests for advice still under way, are no more than
  those that entered (`AdviceInv`), so a task that fails or outlives its request
  cannot make one up.
- `FeeInsights_proofs`: `WindowsKeep`, `ExtremesKeep`, `ViewsMeet`,
  `DetectsWell`. The first three share the inductive invariant `Inv`. `AcceptedInv`: what was accepted are stored
  rows, and a point of a later poll is no older. `BufferInv`: a buffer holds
  accepted points in the order of their polls, and what it lacks was outrun by a
  bufferful of points of that poll or of later ones (`Held`); each update cleans
  it. `PeriodInv`: the extremes bound what was accepted in the period, and a
  period has not ended when a point comes in it. `PublishedInv`: what is
  published is what the engine holds, unless points were accepted since.
  The engine's loops (`AddAll`, `Track`, `WithSpikes`, the scan of the
  detector) are recursive functions over the positions of a batch: `FoldExists`
  gives each its values and `Reaches` carries a fact from one position to the
  next, by a least-element argument on numbers. Sorting the batch is shown to
  give the same points in the order of time (`InOrderOrders`): every position
  has a rank, and each rank is taken.
  `DetectsWell` is about a step: what a poll detects are the runs of its batch
  that lasted. The scan's invariant `ScanSound` says that the open spike is the
  run that has not ended yet and that the spikes found are the runs that have
  (`Finds`). `SpikesInv` says that the spikes kept are in the order of their ends
  and ended at points of stored rows, so those of a poll start after them, and
  cleaning, which cuts at the first recent spike, keeps all that are recent.
- `Recommendations_proofs`: `ColdStartCorrect`, `AnswersCorrect`, `TypeCorrect`,
  `AdvisoryCorrect`, `FeesToldCorrect`. The first two are about steps; what carries them is that
  stamps never lie in the future (`TimesInv`), that what a request holds was
  computed for its own key (`RequestsInv`), and that a cold entry of the cache
  is no older than the last moment the store was too small (`CacheInv`).
  For the types, and the bound on an estimated wait, the statistics are opened
  up: `get_since` and the sum are folds with values (`FoldExists`), sorting is a
  bijection of ranks (`SortedIs`), and a percentile's rank lies in the list
  (`PercentilePlace`); a fee estimated from samples needs at least one, which is
  what `IsCold` is for.
  `AdvisoryCorrect` needs `AdviceInv`: what an advisory read are fees of the
  store, and its current fee, still in the store when the history is read, is in
  the history. On top of it two facts about `Advice`: with fewer than half of
  the history below a fee, the fee is not above the median (`MedianIs`), its
  part of the score is nothing and the rest does not reach "high"
  (`AdviceSubmits`); and every part of the score, the sum, the trend, the label
  and the share below grow with the fee (`AdviceGrows`), for any monotone table
  of logarithms. Its hypothesis is that the comparison window is no shorter than
  the recent one. The defaults are a day and five minutes, but the endpoint takes
  any `window_secs` from 1 on (api/fees.rs:557): with a shorter window than the
  recent one the history may lack the current fee, and at exactly half the first
  conjunct fails.
  `FeesToldCorrect` needs of the store only that it holds points; the rest is
  arithmetic, for windows of any length. Powers grow with their base, so more of a
  sorted list reaches a confidence from some place on (`ReachesGrows`), and the
  loop of `find_fee_for_confidence` keeps that place between `lo` and `hi` while
  they close in (`Narrowing`, `HalvingLeast`): the fee it ends at is the least that
  is good enough, and the extrapolation beyond the p99 is never reached. That the
  tiers nest (`TiersNest`) and the p95 suffices for the cheapest (`HighReaches`)
  are inequalities between powers of the share above a fee. For the statistics:
  the deviation stays within half of the range because no fee lies outside it
  (`SpreadWithin`), the changes add up to the range at least and to a range a
  step at most (`ChangesSpan`), the square of the covariance does not exceed the
  product of the spreads (`SquareOfCovariance`, by induction on the list), and
  the covariance of a sorted list with its places is not negative
  (`SortedNeverFalls`).
- `Devkit_proofs`: `ResilienceTypes`, `BulkheadCorrect`, `BreakerCorrect`,
  `LogTypes`, `LogCorrect`, `TimersCorrect`, `ReportsCorrect`, `SpansCorrect` and
  the three together (`ObservationsCorrect`), `SimulationTypes`, `ReplaysCorrect`,
  `CleansCorrect`, and the types of the whole (`DevkitTypes`),
  all of the whole `Devkit`: a step of it is a step of the part or leaves its
  variables alone (`StepOfResilience`, `StepOfLog` and the like).
  `PeakFollows` strengthens the bulkhead's invariant: the highest count that
  has not reached the peak yet is in the hands of a caller on its way there.
  `BreakerSound` is inductive as it stands. `LogKeeps` is not: `LogInv` adds that
  a line's number is in one place of the directory (`DirOK`), that archives hold
  no line of a later part and lines of this process only below the index
  (`Placed`), and that names without times share theirs (`Cleared`). Then the
  rename replaces no file with lines of this process, and what is removed after
  it is `max_files` rotations old. There is one lemma for each thing a rotation
  does to the directory (`RenamedKeeps`, `RemovedKeeps`, `OpenedKeeps`,
  `AppendedKeeps`, `LaterKeeps`, and the same of `Cleared`), put together for
  every outcome of a rotation in `RotationsKeep`. The size of a file is a
  recursive function of its lines; that it has values, and that a line adds its
  own size (`SizeGrows`), is shown by a least-element argument.
  `TimesAddUp` sums over timers with a fold on sets; `CellsAddUp` shows that such
  a sum is the number of cells of a table, so that comparing sums is comparing
  finite sets: watches take no more cells than a table as high as the clock
  (`TimerInv` says that no timer starts in the future), and children that
  followed each other take at most those of their parent's stretch
  (`SequelFits`). `SpansLink` needs that the registry's context, a copy that
  baggage added later does not reach, still names a span in hand
  (`RegistryInv`), and that each key of the carrier is the last one given
  (`CarrierInv`). The headers that come in have a span identifier: with an empty
  one a child made here would look like a root.
  `Replays` needs that the generator has taken one step for each fee, or load,
  since the reset, and that the last of them is what the next one starts from
  (`FeesInv`, `LoadsInv`); a call that generates several is an iteration with
  values (`IterationExists`, `ModelsFollow`). A fixture is built in one step: its
  total lies between its length times its least and its greatest fee
  (`RecordsFit`), a ramp, rounded half away from zero, starts and ends where it
  should and never turns back (`RampFees`), and a walk stays within its spread
  (`WalkStays`). The generator is any function on states other than 0.
  `Cleans` is the part of `QualitySound` about duplicates, repair and gaps. The
  loops have values as those of the insights engine do. The keeper of first
  points is followed prefix by prefix: what it kept is one point for each ledger
  seen so far, the first (`KeptIs`), and the keeper of last points is the same
  read backwards (`KeptLastIs`). A selection lists the chosen places in order
  (`SelectionIs`) and the stable sort puts a point at its rank (`InOrderIs`), so
  that repair gives each ledger once, in the order of time (`RepairedIs`).
  Filling keeps, for the prefix it has filled, that ledgers go up by one and
  stop at the last point seen (`FillsInOrder`).
- `DataTold_proofs`, which goes on from `Devkit_proofs`: `MetersCorrect`,
  `ReportsAgree`, and with `Cleans` what is said of data (`DataIsTold`).
  `Meters` needs, for each of the four drafts, that what is held is a sum over the
  history, code by code, metric by metric, kind by kind (`ErrorsHeld`,
  `MetricsHeld`, `AnalysisHeld`, `SimulationHeld`). `Summed` is a loop over the
  history: one entry more adds its weight (`OneMoreSummed`) and two histories
  together weigh what both do (`BothSummed`), which is what a merge relies on.
  Sums over the codes of a severity are folds on sets, compared code by code
  (`MoreOnSet`); the list of the most frequent codes is a rank in a total order
  (`FirstsAre`); that the overall rate is between those of the kinds is the
  mediant of fractions (`Mediant`); an average of runs stays at most the maximum
  when a run is added and when a merge halves it (`AverageMoves`, `AveragesMeet`).
  `Reports` holds of every sequence of points, so nothing is added to what
  `Cleans` needs. Counting places goes on with each place (`OneMorePlace`), which
  gives the loops their sums: after k points each kind of issue was told of as
  often as a place up to k calls for it (`TalliedStep`), the scan for runs has
  closed or opened one for each start, and what it cut and holds are the spikes
  chosen (`RunsStep`), and the bins hold k (`HoldsOneMore`). A sort leaves no place
  out (`EveryPlaceFollows`), so the greatest fee is the last of the sorted fees
  and the first of the top ones.
- `Service_proofs`: `TypeCorrect`, `SnapshotsCorrect`
  (from `RowsLatest`), `PatchCorrect` (what a handler merged comes from the row
  it read and its body), `HistoryCorrect` (`TaskSound` ties a task to its posts,
  `RowsSound` a row to its task, `AsksSound` an answer under way to the rows
  that were there when it began), `PageCorrect` (`Alone`: the display has not
  changed since a refresh without another began; `Past`: what was captured was
  said before; `FormInv`: the only request in flight is the last one).

Only model-checked: liveness (`PollEnds`, `CatchesUp`, `RequestEnds`), which is
outside this prover's reach; `PushAllIsRepeatedPush`, which relates a recursive
definition to a closed form. Every invariant and every other action property of
the passing runs is stated by a theorem.

## 5. Not modelled

- Floating point: averages, probabilities, scores, the standard deviation and
  `r_squared` are exact fractions or left out; equality of floats at a
  threshold is outside the model.
- The order in which deliveries reach a webhook is free; nothing in the
  repository promises one. How long a queue of requests waits while Horizon
  fails is not bounded by a property.
- SQL itself: schema, migrations, connection pool, transactions that the code
  does not open. A statement is a step that happens or fails.
- HTTP details: extraction of the client's address, headers other than the key
  and the ETag, CORS, the wording of answers; logging.
- The health route (a constant), request building of the Horizon client.
- Devkit: command line, storage back ends, HTTP clients and validators, which
  hold no state across calls or are thin wrappers of a library;
  `resilience/backoff.rs` is not compiled into the crate.
- UI: charts, the landing page and all presentation.
- `typed-doc`: benchmarks (`regime.rs`, `benchmark_overhead.rs`), monitoring, the
  health, metrics, config and version subcommands, whose output is their only
  effect; `data_quality_*` are tests of code that does not exist. `ScopedTimer`
  swaps the caller's map out, so that what it records is lost.

## 6. Plan

Done, in this order: `FeePolling` with `IngestLog`; `AlertManager` with
`EdgeAlerts`; `CurrentFees`; `RateLimit`; their proofs. Then `FeeInsights` with
`SpikeDetection`, `Recommendations` with `FeeStatistics`, `Service` and its
parts, `Gateway` with `Operation`, `Devkit` and its parts; proofs of
`Recommendations`, `Resilience` and `Service`; `Gateway` shown to take the
limiter's steps, with `Accounted`; proofs of `FeeInsights` and of its detector;
the types of `Recommendations` and its advisories; the log, the
timers, the reports, the spans, the simulations, the tools for recorded points
and the meters of `Devkit`.

Next:

1. `AlertManager` fed by `FeeInsights` instead of a window of spikes taken as
   given: the staleness of data during a stall of the polls.
