# Verification of the incident management system

TLA+ models of the IMS backend (`backend/app`), TLC configurations that check
them on small instances, and proofs checked by the TLA+ proof system. Paths and
line numbers below are relative to the repository.

## 1. The system

Clients report failures of components as *signals*. The backend, one FastAPI
process on one asyncio event loop (`uvicorn --workers 1`), queues them, logs each
one in MongoDB, and groups them into *work items* in PostgreSQL. Operators move
work items through a state machine and close them after a root cause analysis
(RCA). Redis caches what the dashboard reads.

| Component | State | Operations |
| --- | --- | --- |
| Ingestion (`api/signals.py`, `core/queue.py`) | the bounded `asyncio.Queue` | `ingest_signal`, `ingest_batch`, `websocket_ingest`, `enqueue_signal` |
| Rate limiter (`core/rate_limiter.py`) | tokens, time of the last refill | `consume` |
| Worker (`workers/signal_worker.py`) | tasks, semaphore, counters | `run_worker`, `_process_one`, `_emit_metrics` |
| Signal service (`services/signal_service.py`) | debounce buckets; rows, documents and keys of the databases | `store_raw_signal`, `DebounceWindow.record`, `find_or_create_work_item`, `link_signal_to_work_item`, `invalidate_dashboard_cache` |
| State machine (`core/state_machine.py`) | none | `validate_transition` |
| Work items (`api/workitems.py`) | rows of `work_items`, two kinds of Redis key | list, get, transition, signals |
| RCA (`api/rca.py`) | rows of `rca_records` | submit, get |
| Sessions and pool (`db/connections.py`) | one transaction per session; 10 + 20 connections | commit after the handler, rollback on an exception; a session has a connection from its first statement on |
| Alert strategies (`core/alert_strategy.py`) | none | `resolve_strategy`, `notify` |
| Health (`api/health.py`) | none; uses a connection | pings |
| Frontend (`frontend/src`) | what each page has loaded | polling, transitions, RCA form |
| Scripts, containers, schema SQL | none | set-up and samples |

How they interact: the ingestion handlers share the limiter and the queue with
one another and the queue with `run_worker`. The worker's tasks share the semaphore, the
debounce buckets and the three databases. The worker and the API handlers meet
in the rows of `work_items`, in the Redis keys and in the connection pool, which
the health check uses too. The dashboard page polls the list. Nothing else is shared.

Where it is hard:

* *interleaving*: up to 20 tasks and any number of requests run between each
  other's awaits; what a SELECT returned may be stale at the next statement;
* *failure*: every call of a database may raise, with or without having taken
  effect; the worker retries a signal as a whole;
* *restart*: the queue and all tasks are in memory only;
* *ordering*: caches are invalidated before (API) or after (worker) the COMMIT;
* *bounds*: the queue, the semaphore, the bucket, the debounce window, the
  connection pool; waits for connections and waits for rows at the same time;
* *answers out of order*: a page has several requests in flight and shows what
  comes last; on a WebSocket only the position tells which message an answer is about;
* *times nobody checks*: MTTRs are computed from what clients and engineers send.

What makes each component correct:

* worker: a signal is counted at most once, only after it is logged, and linked
  only to the item that counted it; no permit is lost; an accepted signal lands; the
  race for a new item opens no more of them than there are slots;
* work items and RCA: no CLOSED item without RCA, one RCA, complete stamps, and
  a status that moves along the state machine;
* cache: nothing uncommitted is shown, and staleness passes;
* limiter: the rate bound holds over every interval, and refusals are justified;
* ingestion: one answer per message, and answers that agree with what the queue took;
* pool: no connection is lost, and no transaction waits forever;
* figures: every MTTR fits its column and can be explained;
* dashboard: the most urgent items in order, and in the end the list of the chosen filter;
* debounce: the count is exact, and no burst is missed.

## 2. Modules

| Module | Models | Used by |
| --- | --- | --- |
| `WorkItemStates` | `core/state_machine.py` | `SignalPipeline`, `WorkItemApi`, `IncidentFigures`, `Dashboard` |
| `SignalPipeline` | ingestion, queue, `run_worker`, `_process_one`, signal service | `MCSignalPipeline`, `SignalPipelineProofs` |
| `SignalLedger` | what the worker promises about the databases (abstract) | refined by `SignalPipeline` |
| `WorkItemApi` | `transition_work_item`, `submit_rca`, sessions, row locks | `MCWorkItemApi`, `WorkItemApiProofs`, `WorkItemPool`, `WorkItemCache` |
| `IncidentRecord` | what the API keeps of an incident (abstract) | refined by `WorkItemApi` |
| `WorkItemPool` | `WorkItemApi` composed with the connection pool, the worker's transactions and the health check | `MCWorkItemPool`, `WorkItemPoolProofs` |
| `WorkItemCache` | `WorkItemApi` composed with the Redis cache, the GET handlers and the worker's commits | `MCWorkItemCache`, `WorkItemCacheProofs` |
| `RateLimiter` | `TokenBucket.consume` | `RateLimiterProofs`, `IngestApi` |
| `IngestApi` | the three ingestion endpoints, composed with `RateLimiter` and the queue | itself, `IngestApiProofs` |
| `DebounceWindow` | `DebounceWindow.record` | `IncidentFigures` |
| `IncidentFigures` | stamps and MTTRs of incidents, beside `DebounceWindow` | itself, `IncidentFiguresProofs` |
| `AlertStrategy` | `resolve_strategy`, `get_priority` | `Dashboard` |
| `Dashboard` | `Dashboard.jsx` over filtered lists | `MCDashboard`, `DashboardProofs` |

A definition whose comment begins "Mutation of X" is a plausible bug in X. It is
part of no specification; it is there to show that a property depends on X.

### SignalPipeline

One action per stretch of code between two awaits that suspend.

| Action | Code |
| --- | --- |
| `Ingest` | limiter and `put_nowait` of one payload; neither suspends |
| `RunWorker` | the `while True` loop. `queue.get()` suspends on an empty queue only, so one wake-up turns all that is queued into tasks |
| `Acquire` | a task enters `async with semaphore`, in FIFO order |
| `StoreRawSignal` | step 1, `insert_one`, and step 2, `record`, which follows without suspending |
| `FindWorkItem` | step 3: SELECT of the newest active item; without one, `notify` at once |
| `FindOrCreateWorkItem` | step 3: UPDATE or INSERT and COMMIT. The UPDATE adds to the committed count under the row lock and is invisible before the COMMIT |
| `LinkSignal` | step 4; a failure is swallowed |
| `InvalidateCache` | step 5; a failure raises although everything is committed |
| `Retry` | the end of the back-off sleep, during which the permit is kept |
| `Restart` | the process stops and starts; memory is lost, databases are not |
| `TransitionWorkItem` | an operator's committed status change |

`pc[s]` is where signal *s* is; `found[s]` what its SELECT returned; `stored`,
`linked`, `status`, `resolved` (the rows with a `resolved_at`, which is never reset),
`signalCount`, `createdAt` are the databases. `credited` and `alerts` are history. A work item is named by the signal that inserted it.
`insert_one` writes `_id` into the dict it gets and `_process_one` passes the
same dict on every attempt, so `InsertOne` is disabled for a stored signal and
that attempt raises.

The debounce result is not used by `_process_one`, so `SignalPipeline` keeps only
the number of calls (`recorded`); the window itself is `DebounceWindow`.

### WorkItemApi

A request is at a statement (`pc`), remembers the status its SELECT returned
(`seen`), and holds row locks and unique keys until it ends. PostgreSQL is
modelled as READ COMMITTED: reads see what is committed at that moment, writes wait for
the transaction that wrote the row last, an INSERT waits for an open transaction
with the same key. Writes of an open transaction appear at `CommitTransition` or
`CommitRca`, since no other transaction can see them before. `get_db_session`
commits after the handler has returned, hence after the invalidation.
`Abort` ends a request at any await with a rollback; it stands for a database or
Redis error and for a stop of the process.

### WorkItemPool

Extends `WorkItemApi`, conjoining its actions with what they do to the pool.
`conns` are the users with a connection: a request, a worker slot or the health
check. The first statement of a session waits while the pool is full; the end
of the session gives the connection back, whatever ends it. The pool's timeout of
30 s is one of the failures `AbortRequest` and `FailAttempt` stand for.

| Action | Code |
| --- | --- |
| `HandleConnected` | a statement of a handler; one that writes a row also waits for the worker (`rowTask`) |
| `FindItem` | the worker's SELECT of an active item, and the INSERT when there is none |
| `CountSignal` | its UPDATE: waits for the row and holds it, whatever its status is by now |
| `CommitSignal` | the end of `session.begin()` |
| `ConnectProbe`, `PingPostgres` | `SELECT 1` of GET /health |

One item and several requests stand for the items in contention; a signal that joins
an item outside the model has `job = NoItem` and uses a connection only. GET requests
other than the health check hold one connection and no lock, and are left out.

### WorkItemCache

Extends `WorkItemApi`, conjoining its actions with what they do to the cache. A
response is the revision of the row it shows, that is the number of committed
changes. `revision` is advanced by the API's commits and by the worker's, which
wait for the row lock like any UPDATE and owe an invalidation afterwards. That one
may fail and is then never repeated. A GET runs lookup, SELECT (for the
list also the COUNT) and SETEX as separate steps.

### DebounceWindow, RateLimiter

Time is counted in ticks. `record` and `consume` hold a lock and do not
suspend, so they are single actions. The limiter's tokens are integers: the code
uses floats, whose rounding is not modelled. Both are checked inside the modules that
call them.

### IngestApi

| Action | Code |
| --- | --- |
| `IngestSignal` | POST ingest: `Offer` passes the payload through limiter and queue |
| `BeginBatch`, `IngestBatch`, `AnswerBatch` | POST ingest/batch: the size check, one turn of the loop, the response |
| `SendMessage`, `Leave` | a WebSocket client sends a message or goes |
| `ReceiveMessage` | `receive_json` returns: token, validation, queue, and the answer is chosen |
| `SendReply` | `send_json`; to a client that has gone it raises, or the answer is lost |
| `EndSocket` | `receive_json` raises: the client has left, or what it sent is not JSON |
| `RunWorker` | the worker takes what is queued |

Neither `consume` nor `enqueue_signal` suspends, so a batch has the event loop to
itself until its last payload (`LoopFree`), while time passes and clients go on
sending. The WebSocket loop suspends in `receive_json` and `send_json`. A token is
`Token` units of the bucket of `RateLimiter`. `put`, `wasted`, `reported` and `fates` are history.
Payloads that fail validation never reach the HTTP handlers; WebSocket messages are validated
after they have taken a token.

### IncidentFigures

What is added here is time. `InsertItem` opens an incident whose `first` is the client's
timestamp; which signals do is the subject of `SignalPipeline`, so it may happen at any time.
`Transition` stamps the row and, on a close, computes `now - first`; `SubmitRca` compares and
subtracts two dates. Each is one action, so that requests of one incident do not overlap:
that they may is the subject of `WorkItemApi`. `Seconds` is `int(total_seconds())`, which
drops the fraction: dates less than a second apart pass the validator and make an MTTR of 0.
A figure outside `Integer` makes the flush raise, so that the request changes nothing; so
does a comparison of two dates of which only one has a time zone. `basis` says
which handler wrote the MTTR. The window runs beside the incidents on the same clock.

### AlertStrategy

A component id is the sequence of its parts between underscores. Of a part it matters
which key of the registry it starts with (no key is a prefix of another one, so
there is at most one) and whether it is the key itself. `Priority` is the first
entry of the registry that matches, in the registry's order.

### Dashboard

`Load` puts a request in flight: on mount, on a change of a filter (`Choose`), every
five seconds (`Poll`) and on the button (`Refresh`). The server side is `Lookup`,
`Select` and `Count`, the two queries being separate steps; `Deliver` shows an answer whatever
filter is set by now, `Fail` keeps the list and sets the error. Items are numbered by
their creation, and `Precedes` is the ORDER BY. Rows change by themselves
(`ChangeRow`); `WorkItemCache` models the invalidation in full, so that here a
change may find the cached list deleted or not. `hidden` and `drift` are history of
an answer: the rows cut off by the limit, and the commits between its two queries.

## 3. Runs

Runs that pass:

| Run | Bounds | What it shows |
| --- | --- | --- |
| `pipeline_safety` | 3 signals of one component, queue 1, 2 slots, 3 attempts, 3 failed calls, 1 restart, 2 operator changes | types, audit before count, exact counts, links, permits, alerts, no more incidents that were never resolved than slots, and the refinement of `SignalLedger` |
| `pipeline_serial` | 3 signals of 2 components, 1 slot, 2 failed calls, 1 restart, no operator | one item per component when nothing overlaps; an accepted signal lands |
| `api_pool` | 2 requests at a time on 1 item, 1 worker slot and the health check on 2 connections | closed items have an RCA and complete figures; one RCA; refinement of `IncidentRecord`; no connection lost; no circle of waits; every request and every transaction of the worker ends |
| `cache_reads` | 1 write at a time, 1 reader, 1 item, 5 revisions | nothing uncommitted is cached; totals cover lists; staleness passes once commits stop |
| `ingest` | 1 WebSocket with 2 messages, batches of 2, queue 1, a bucket of 2 tokens that gains one in two ticks, 2 ticks | one rate for the three paths, every token accounted for, answers in step and true, every message answered |
| `incident_figures` | 1 incident, 2 components, window 2, threshold 3, 3 ticks of half a second with up to 2 signals of each component, figures of -2..1, a stamp and dates beyond them | every figure fits and is explained; exact window counts, no burst missed |
| `dashboard` | 2 items on a page of 1, 2 filters, 2 requests in flight, 3 changes of rows, 1 of the filter, 1 failure | order of urgency, totals that are off by the commits in between at most, the page settles on the chosen filter |

Runs that TLC finds violated, each a disagreement between the code and what the
repository says of it:

| Run | Statement | What happens |
| --- | --- | --- |
| `pipeline_burst` | "exactly 1 Work Item created" (README.md:188) | two tasks SELECT before either commits; both insert |
| `pipeline_discard` | three attempts, "Attempt 3 fails → log error, discard signal" (README.md:473-476) | one failure behind the insert; both retries end in the duplicate document |
| `pipeline_buffer` | "DB slow → queue fills up" (README.md:460) | `run_worker` moves the queue into unbounded tasks |
| `api_terminal` | "`CLOSED` is a terminal state" (README.md:341) | a request that read RESOLVED commits after the close |
| `cache_fresh` | "Cache is invalidated whenever a work item is ... updated" (README.md:230) | a GET caches the old row between invalidation and COMMIT |

Six more disagreements need no run; each can be read off a definition:

* `FindWorkItem` opens an item for the first signal of a component, whatever the
  debounce window says (README.md:51-52): `_process_one` ignores `should_create`.
* `IncrementCount` does not look at the status: an item resolved since the SELECT
  is counted up all the same (README.md:55).
* `Enqueue` drops a signal and counts nothing: `_dropped_count` is printed but
  never raised (README.md:531).
* `Crosses` compares the count after the eviction: a steady rate of Threshold
  signals per window fires on each of them ("Fire exactly when we cross the
  threshold", signal_service.py:49).
* `Transition` needs `Seconds(now - first) \in Integer`: an item whose first signal came with
  a time too far in the past or future cannot be closed, although "after RCA is submitted,
  the work item can be transitioned to CLOSED" (rca.py:28).
* `Matches` looks at every part of an id and the registry decides which wins, so that
  KAFKA_CACHE_01 is P2 because CACHE stands before KAFKA there, where "the component ID
  prefix" (README.md:255) would make it P1.

### Why the bounds are enough

* Every property of `SignalPipeline` relates a signal to its item, or tasks to
  permits. Three signals with two slots give an item's creator, a signal that
  joins it, and one that waits; three failed calls use up all attempts of one
  signal; a restart hits every stage. The queue of one makes it full.
* In `WorkItemApi` and `WorkItemPool` conflicts arise between a writer and one that overtakes it,
  while the worker writes the same row. Two connections for four users make
  each of them wait for one. Locks and keys belong to one item, so that a
  second item adds nothing but idle interleavings. That three or more requests add
  nothing to the safety properties is what the proofs show.
* In `WorkItemCache` a stale entry needs a reader and a writer. Five revisions take
  an item through its whole life.
* In `ingest` the bucket runs dry and refills, the queue is full after one
  signal, and a batch meets both in the middle; two messages are what it takes for answers
  to get out of step.
* In `incident_figures` incidents do not affect one another, so one is enough; a second has two
  ticks, so that `int()` drops something, from differences of either sign; times outside the
  width of the figures make both handlers fail.
* In `dashboard` the page holds fewer items than there are, an answer to the earlier
  filter can come after that to the later one, and a commit can fall between the
  two queries; the older item is the more urgent one, so that age and urgency differ.
* Constants `MaxFaults`, `MaxCrashes`, `MaxTransitions`, `MaxRevisions`,
  `MaxSignals`, `MaxItems`, `MaxChanges`, `MaxChoices`, `MaxFailures` and `MaxMessages` bound
  behaviours and stand for "any number"; `MaxTime` and `MaxPerTick` bound the length
  of an observation; `Slots` and `Readers` the requests in flight. `BatchMax` is the code's limit
  on a batch, made small.
  `CHECK_DEADLOCK FALSE` appears in `incident_figures` only, where bounded
  time ends the behaviour; a caller owes no call.

### Fairness

* `SignalPipeline`: weak fairness of `RunWorker` and of every task's steps. The
  event loop resumes ready tasks, and the semaphore queue is FIFO. Clients,
  operators, failures and restarts are not fair. A backend call that never
  returns is excluded.
* `WorkItemPool`: strong fairness of each request's steps and of each worker slot's
  transaction, because a row or a connection that a statement waits for may be
  taken again by others; PostgreSQL and the pool serve their waiters in turn, so one that waits
  gets it. Weak fairness of the health check, which gives up when the pool stays
  full. Requests, attempts and failures are not fair. (`WorkItemApi` alone states no
  fairness; its liveness is checked here.)
* `IngestApi`: weak fairness of a batch in progress, strong fairness of each connection's
  loop, since batches keep taking the event loop from it. Clients owe nothing.
* `Dashboard`: weak fairness of the interval (auto-refresh is on unless the user takes the
  tick off), of the expiry of the cached list and of every step of a request.
* `WorkItemCache`: weak fairness of the readers' steps and of expiry (Redis
  removes a key when its time to live is over).

## 4. Proofs

All hold for every value of the constants under the named assumptions
(`SignalAssumption`, `SettingsAssumption`, `BoundAssumption`,
`RequestAssumption`, `PoolAssumption`, `CacheAssumption`, `BucketAssumption`,
`IngestAssumption`, `DebounceAssumption`, `FiguresAssumption`, `DashboardAssumption`), which ask for
finite sets of signals, users and items, natural numbers as bounds, positive settings and null values
that are not members of the sets.

**SignalPipelineProofs.** `TypeCorrect`, `AuditCorrect`, `CountCorrect`,
`LinkCorrect`, `PermitsCorrect`, `AlertCorrect`, and the refinement
`LedgerImplemented`. The invariants are not inductive alone. That a signal is
counted once rests on where it is: a task that has yet to run the transaction is
uncredited, and one whose transaction committed without an answer cannot get past
`InsertOne` again. The inductive invariant says for each stage what is
stored, credited and linked. Counts and permits are then maintained by lemmas on
the cardinality of a set that gains or loses one element, and alerts by the
number of items plus tasks that have alerted and not inserted yet. `SerialOneItem`: with
one slot and no operator only one task runs (by `PermitsAccounted`), so that a component without an
item at its SELECT has none at its COMMIT either. `SlotsCorrect` says what is left of this with more
slots and with operators. What is bounded is the set of items never resolved together with the tasks that are about
to insert one (`SlotsInv`): it grows only when a SELECT finds no active item, at that moment all
committed items have been resolved, and the tasks that are left in the set have a permit each.
`BacklogCorrect` shows that no accepted signal disappears: as sequences change by
their ends only, the queue and the line of the semaphore hold the signals that
wait, each in one place. `OutcomesCorrect` is the safety half of `AcceptedSignalLands`: no outcome
without its cause. It needs that without a failed call no attempt is ever a second one (`Smooth`).

**WorkItemApiProofs.** `ApiTypeCorrect`, `ClosedHasRcaCorrect`, `OneRcaCorrect`,
`ClosedRecordCorrect`, `ClosedFiguresCorrect`, `RecordImplemented`. The inductive
invariant ties each request to the locks it holds, the status it has seen to the statuses the
item has held, an RCA that is in progress to the absence of a committed one and
of any close, and a close past its guard to an RCA that exists. RCAs are never
deleted and `closed_at` never reset, so these facts stay true of stale requests.
What the run `api_terminal` finds has one cause: as long as no two transitions of an item are in progress at
once (`OneTransitionPerItem`), what a transition has read is still so when it commits (`SeenCurrent`),
so that its status moves along the state machine (`SerialTransitionsLegal`) and CLOSED is
terminal (`SerialCloseTerminal`), whatever else overlaps or fails.

**WorkItemPoolProofs, WorkItemCacheProofs.** Every step of a composition is a step of
`WorkItemApi` or leaves its variables alone (`PoolRefinesApi`, `CacheRefinesApi`), so the invariant
above holds there and is used without a new proof; `PoolImplementsRecord` follows. For the pool,
`PoolAccounted` is inductive together with `OwnersStage`: whoever owns a row has done its last
write of a row, and whoever owns a key has inserted. Hence the owner of a row waits for nothing, the owner of a key at
most for a row, and a user with a connection for no connection: chains of waits go down from
connections to keys to rows and end (`ChainsGoDown`), which is `NoCircleCorrect` for any number
of users. `SemaphoreSparesPool` (a worker whose slots are no more than the
connections never exhausts the pool alone) needs `PoolAccounted` only. For the cache, what a reader has copied is not ahead of the rows
(`ReadersBehind`) from its SELECT to its SETEX, and a list that is about to be written
is covered by its total (`ListsCounted`), because the COUNT comes later and rows are
not deleted. What the run `cache_fresh` finds has two causes: `FreshUnlessOverlap` shows that the cache is right whenever
no invalidation is owed, provided that no GET has read a row (`Concerns`) while a change of it is
between its invalidation and its COMMIT, or its COMMIT and its invalidation (`ReadersApart`), and that the
worker's invalidations succeed. The order of invalidation and COMMIT alone does no harm.

**RateLimiterProofs, IngestApiProofs.** `BucketTypeCorrect`, `RateCorrect`, `RefusalCorrect`: the
inductive invariant weighs what was granted since the mark, plus what the bucket
holds, against what has flowed in since. Every step of the endpoints is a step of the bucket
(`IngestRefinesBucket`), so the bounds hold for the three paths together. `TokensCorrect` is
inductive, and so is `AnswersTrueCorrect`: what the queue takes and what is called accepted grow by the same
payload, the accepted answers on connections being a finite set of pairs of a
connection and a position in `fates`. `AnswersInStepCorrect` follows from `InHand`: what became of the messages is
what was answered and, while an answer is being sent, that answer.

**IncidentFiguresProofs.** For the window, `WindowTypeCorrect`, `CountExactCorrect` and `BurstCorrect`:
the entries of a bucket correspond one to one to the arrivals of the window, numbered
within their ticks, and an eviction, which keeps a final part of an ordered list, keeps that
correspondence. That the places kept have a list in their order at all (`InOrder`) is shown by well-foundedness. A burst is noticed
because a call adds one entry: the count cannot pass the threshold without being equal to it. The window's variables
take only its own steps (`FiguresKeepWindow`), so all this holds beside the incidents.

For the incidents, `FiguresTypeCorrect` and `FiguresExplainedCorrect`, for any timestamps, dates and width of
the figures. The invariant ties the handler that wrote an MTTR (`basis`) to the status and the stamps of
the same row, and `SecondsSign` says what `int()` keeps of a sign: a positive difference never becomes a
negative figure, and a negative figure needs a whole second. Requests of one incident
that overlap are not covered by it: of those `ClosedFiguresCorrect` says which MTTR stays.

**DashboardProofs.** `PriorityByClass` says of every id what `Priority` makes of it: the
order of the registry decides and not that of the parts. `DashboardTypeCorrect`, `UrgentFirstCorrect`, `TotalNearCorrect`. The place of
an item in a set, one more than the number of items before it, is an injection into `1..n` and
so fills it: `Ordered` is a list of all items, and what fits in is no more than
the limit (`FittingLimited`). A commit moves one row in or out of what matches, so the
distance between the count and the list grows by one at most with each
(`CountMovesByOne`).

Only model-checked: liveness under fairness (`AcceptedSignalLands`, `RequestAnswered`,
`AttemptFinished`, `MessageAnswered`, `CacheConverges`, `Settles`), which is beyond the prover.
Every invariant and every other action property that the passing runs check is proved.

## 5. Not modelled

* `get_work_item_signals` and `get_rca`: they only read, and cache nothing. `available` of the
  limiter has no caller.
* Validation of text lengths and of the RCA's enumeration of causes: it happens before the
  handlers, and no other part depends on it.
* The clients of MongoDB and Redis, created on first use without suspending; CORS;
  the pings of MongoDB and Redis and the summary of the health check.
* GET requests as users of the connection pool: they hold no lock and one connection for a
  bounded time.
* The pages other than the dashboard: each click sends one request and shows its
  answer. `IncidentDetail` may offer an RCA form for an item that has one already; the
  handler answers 409 (`CheckRca`).
* Scripts, containers, schema SQL, tests.
* The default limit of 50 of the list in `WorkItemCache` (`Dashboard` has a limit), and the separate SELECT of
  the RCA of a row that is read: it may be newer than the row, never uncommitted.
* The code of a response where a request fails either way: 500 instead of 422 for RCA dates of
  which only one has a time zone.
* Rounding of floats; wording, logging, and the formats of requests and responses.

## 6. Plan

Done, in this order: `WorkItemStates`, `SignalPipeline` with `SignalLedger`,
`WorkItemApi` with `IncidentRecord`, `RateLimiter`, `WorkItemCache`, `DebounceWindow`;
then `WorkItemPool`, `IngestApi`, `IncidentFigures`, `AlertStrategy` and `Dashboard`; with proofs
about each of those that has invariants of its own.

Left:

1. One table for the whole worker and the API: `WorkItemPool` has the worker's transactions
   with the API's locks, `SignalPipeline` the worker's attempts and failures with an
   atomic `TransitionWorkItem`.
2. `Dashboard` over `WorkItemCache` instead of its abstraction of the cached list.
