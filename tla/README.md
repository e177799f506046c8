# aiobp in TLA+

A verification project for [aiobp](../src/README.md), a boilerplate library for
asyncio services: TLA+ modules that model its concurrent parts, its router and the
set-up of a service, TLC
configurations that check them on small instances, and TLAPS proofs, for every value
of their constants, of the safety of the graceful shutdown, the events, consumers,
life cycle, RPC and buckets of NATS, the HTTP ranges, the HTTP router with its arguments and
documents, and the start of a service with its configuration, logging and tracing.

aiobp runs on one asyncio event loop.  Its code runs uninterrupted from one
`await` to the next and anything may happen while it is suspended, so in all
modules **the steps between two awaits are one action**, and every await is a
point where other tasks, the network and time go on.

## 1. Inventory

| Part | State | Operations | Talks to |
|---|---|---|---|
| runner and shutdown: `runner.py`, `task.py` | `__on_shutdown` (list of callbacks), `__tasks`, the set `tasks` of one shutdown, the budget `timeout` handed from function to function | `on_shutdown()`, `create_task()`, `runner()`, `shutdown_coroutines()`, `__graceful_shutdown()`, `__shutdown_tasks()` | signals, the service, every task of the loop; calls the callbacks others registered (`Nats.disconnect()` is one) |
| NATS events: `nats/_events.py`, `_nats.py` | `_subscriptions`, handlers of each `EventSubscription`, the shared queue, nats-py's counters | `subscribe()`, `unsubscribe()`, `EventQueue.start/add/remove/stop/_work`, `on_message()` | nats-py's read loop puts messages, `drain()` joins the queue, handlers call back |
| NATS consumers: `nats/_consumer.py`, `consume()` | `workers`, `idle`, the pull subscription; on the server the durable consumer and what is outstanding | `consume()`, `start()`, `stop()`, `_work`, `_process`, `_keepalive` | the JetStream server: consumer info, delete, subscribe, fetch, ack, nak, term, in progress |
| NATS life cycle: `nats/_nats.py` | `client`, `_events`, `_consumers`, `_rpc_subscriptions`, `_rpc_tasks` | `connect()`, `disconnect()`, `serve()`, `consume()`, `stop_consumer()` | all of the above; the application and the shutdown call it |
| NATS RPC encoding: `nats/_rpc.py` | none | `parse_request()`, `parse_reply()`, `RpcProxy` | `_nats.py` |
| NATS buckets: `nats/_bucket.py` | cache `_buckets`; entries and revisions on the server | `get`, `put`, `update`, `create`, `delete`, `purge`, `watch`, `snapshot`, `bucket()`, `delete_bucket()` | the key-value store |
| HTTP ranges: `aiohttp/_http_range.py` | position and remaining bytes of one response | `slice_response()`, `chunk_response()`, `stream_response()` | the file, the client |
| HTTP router: `aiohttp/_router.py` | pending routes, `_built`, tables of routes | decorators, `include()`, `build()`, the wrapped handler | aiohttp, provider, OpenAPI |
| HTTP arguments: `aiohttp/_provider.py` | getters of a handler, made once | `gather_args()`, `encode_response()` | handlers |
| OpenAPI: `aiohttp/_openapi.py` | `_schemas`, `_paths`, security schemes of one document | `add_route()`, `add_bearer_auth()`, `add_oauth2()`, `build()` | the router, for each route it registers |
| HTTP connection, headers, server | none | look up headers, start aiohttp | |
| configuration: `config/` | none | the loaders of INI, JSON and YAML, `fill_sections()` | files, msgspec |
| logging: `logging/` | the root logger, `sys.excepthook` | `setup_logging()`, `add_devel_log_level()`, log functions, `suppress_and_log` | `logging`, a collector |
| tracing: `tracing.py`, `_otel.py` | `_tracer`, the current span of each task | `setup_tracing()`, `traced()`, `start_span()`, `current_span()` | OpenTelemetry, a collector |

What is hard here, and hard to test:

* **Budgets across awaits.**  A shutdown has one total; every phase gets what
  the one before has left, and callbacks and tasks may be slow, ignore their
  cancellation, end early, or hold the loop.
* **Lists and dicts read before an await and used after it**: the snapshot of
  callbacks, `_consumers` in `consume()`, `_rpc_subscriptions` in `disconnect()`,
  the set of idle workers in `stop()`, `_subscriptions` in `subscribe()`.
* **Counts other code waits for**: `task_done()` for every message of the shared
  queue, nats-py's `_pending_size`.
* **At-least-once delivery**: lost answers, crashes, `ack_wait` running out under
  a slow handler.
* **Two descriptions of one thing**: the provider and the document built from
  the same annotations; three loaders of one configuration; three paths through
  `traced()`; a durable consumer and what an instance asks it to be.
* **Order of set-up calls**: decorators, `include()` and `build()`; logging before
  `setup_logging()`; tracing set up while blocks are open.
* **Waiting for oneself**: `stop()` gathers its workers, `disconnect()` the RPC
  tasks; each may be the caller.

`PROJECT.json` lists each of these at its line, with the properties that cover it.

What makes each part correct, in a sentence: the shutdown ends in time, calls
every callback once and in its phase, and reports truthfully; events are handled
once and in order, and closing waits for those a handler is owed; a message leaves a stream only
after it was handled, and is not handled twice for nothing; `disconnect()` waits
for what it finds in progress and leaves an object that can connect again; a
response carries what its headers announce; a route is served as it was decorated
and as its document says; a configuration means what its settings say in any
format, records reach the handlers whose level they have, and a block of code
behaves the same with tracing and without.

## 2. Plan

In the order of what matters most in the system:

1. `Shutdown` — *done*: model, runs, theorems.
2. `EventQueue` against the abstract `OrderedEvents` — *done*: model, runs, refinement, theorems.
3. `Consumer` — *done*: model with `consume()` and the recreation of a durable
   consumer, run, theorems.
4. `Lifecycle` — *done*: model, runs, theorems.
5. `HttpRange` — *done*: model, run, theorems.
6. `Bucket` — *done* but for `keys()`, `buckets()` and histories: model, runs, theorems.
7. `Rpc` — *done*: model, run, theorems.
8. `Provider`, `OpenApi` and `Router` — *done*: model, run, theorems.
9. `Config`, `Logging`, `Tracing` composed by `Startup`, against the abstract
   `Blocks` — *done*: model, run, refinement, theorems.
10. Left: `Bucket` shown to implement a register with compare-and-set; `keys()` and
    `buckets()`, which page through what changes meanwhile; the connection life
    cycle composed with `EventQueue` and `Consumer`, which `Lifecycle` has in
    outline only.

Every safety property that a passing run checks is also a theorem; what is left of the plan is
model.

## 3. Modules

`MCX` declares the model values, symmetry and the constants that a `.cfg` of `X`
cannot write; `HttpRange` needs none.  `XProofs` holds the inductive invariants and theorems
of `X`, and `HttpProofs` those of `HttpRange` and `Router`, which is why the state machine of the
former is `RangeInit`, `RangeNext` and `RangeSpec`.  `OrderedEvents` is checked through
`EventQueue`, `Provider` and `OpenApi` through `Router`, and `Config`, `Logging`,
`Tracing` and `Blocks` through `Startup`.  Mutants (plausible bugs that a run has to catch)
stand before the definition they are mutants of and are used by nothing.

### Shutdown (`runner.py`, `task.py`)

One task identity stands for an asyncio task: the service, tasks of
`create_task()`, coroutine callbacks while they run.  `registry` is
`__on_shutdown`; `call[c]` is the frame of `shutdown_coroutines()` of caller `c`
(its snapshot, `timeout`, `start`), for runner (`Main`) and for tasks that call it
explicitly (`Restarters`); `turn` says whose code runs between awaits; `phase`
where runner is.

| Action | Code |
|---|---|
| `OnShutdown`, `CreateTask`, `CallExplicitly`, `TaskEnds`, `CancelDelivered` | what tasks and callbacks do on their own |
| `Signal`, `MainOver`, `StartShutdown` | `__shutdown()`, the end of `__main()` |
| `Iterate` | one round of the loop of `shutdown_coroutines()`: `SkipOther`, `RemoveFails`, `NameFails`, `CallPlain`, `CallCoroutine` |
| `WaitReturns` | `asyncio.wait([task], timeout=...)` returns, `timeout -= took` |
| `CancelTasks`, `SleepReturns`, `TasksWaitReturns` | `__shutdown_tasks()` up to each await |
| `StartAfter`, `Finish` | the callbacks after tasks, the last log message |
| `Tick` | time passes, only when nothing is ready to run |

Time is one clock of integer ticks.  A plain callback that runs long moves the
clock itself (`blocked` counts it), since nothing else can happen meanwhile.
An awaited callback or task ends, ignores its cancellation or runs on as it
likes.

### EventQueue, OrderedEvents (`_events.py`, parts of `_nats.py`)

`own[s]` is the queue nats-py made for subscription `s`, `queue` the shared one
that `add()` swaps in.  `Arrive` is nats-py's read loop; `TakeMessage`,
`DropMessage` and `HandlerEnds` are `_work()` and `on_message()`; `UserCalls` and
`UserResumes` are the parts of `subscribe()` and `unsubscribe()` between their
awaits, `_subscribe_lock` included; `Connect`, `Disconnect`, `SubscriptionDrained`,
`Joined`, `Drained` and `DrainTimesOut` are connecting and draining.  nats-py's
`drain()` waits for the shared queue only through the subscriptions it has:
`joining` are those it found, each is over when `join()` of its queue returns
(`Joined`), and with none left `Drained` stops the worker whatever it is at.
`unsubscribe()` takes a subscription out of the client at once (`RemoveSubscription`).
`OrderedEvents` promises a queue handled in the order of arrival, and
`EventQueue` implements it with `waiting <- ` the ids in the queue.

### Consumer (`_consumer.py`, `consume()` and `stop_consumer()` of `_nats.py`)

Each consumer object lives in a process of its own and goes through `phase`:
`AskInfo` (`consumer_info()` and the comparison), `DeleteDurable`
(`delete_consumer()`), `Start` (`pull_subscribe()`, the object, its workers), with
`ConsumeFails` where one of these requests raises.  `durable` is the consumer at the
server, one for all of them, and may be `Leftover` from an earlier version of the
service; deleting it takes the pull requests of everybody with it, `remade` counts
that, and `stale` knows the deliveries it had made, whose answers may mean nothing to
the next one.  A worker is in `poll`, `fetch`, `retry` or `handle`.  The server's side
is modelled from how the code uses it: pull requests, the inbox of the pull
subscription, `status` and the remaining `ack_wait` (`left`) of each message.
`keep[w]` is the timer of `_keepalive()`.  `Stop` cancels idle workers, `StopReturns`
is the end of `gather()`.  Faults: raising handlers, failing fetches, answers and
requests of `consume()`, crashes, a connection closed under the consumer.

### Lifecycle (`_nats.py`)

A user task is suspended in one of the awaits of its call: `subscribe` and
`flush` of `serve()`, `consume`, `stop`, and `consumers`, `rpcDrain`, `gather` and
`drain` of `disconnect()`.  What `disconnect()` does from one await to the next is
chained by the operators `StopNext`, `DrainRpc`, `GatherTasks` and `DrainClient`.
With `FlushFails` the drain of an RPC subscription may raise, which `disconnect()`
suppresses (`Drained`).  The `on_connected` hook is a task of its own that calls the
same methods, that is, one of `User`.
RPC requests arrive at a subscription, become tasks, and reply.  A consumer is
only busy or not here, as `Consumer` has its inside.  `listed` is history: the
consumers `disconnect()` has found when it was called, which are those it stops.

### HttpRange (`_http_range.py`)

A body is the sequence of positions of its bytes.  `SliceResponse` and
`ChunkResponse` are operators; `stream_response()` is the state machine
`Prepare`, `Seek`, `Read`, `Write`, `WriteEof`, where `Read` may return less than
asked for and others may change the file (`FileChanges`).

### Bucket (`_bucket.py`, `bucket()` and `delete_bucket()` of `_nats.py`)

A call is a request in `wire` that the server serves at some later time (`Serve`),
also after its caller gave up (`Timeout`); `at[t]` is the await a task is in.  A
value is the set of writes it is built from, so that a lost write shows: `put()`
starts a new set, `update()` adds to the one it has read, `alive` is what nobody
took away: a write replaces what it is based on (`Intended`) and nothing else.  A
request that names a revision of an earlier stream of the same name (`Outdated`) may
replace what nobody meant to; what is lost so goes to `overrun`, which `NothingLost`
excepts and `NeverOverrun` says is empty.  `stream` is the server's side (records, revisions, how often the
stream was made), `Expire` the ttl, `Iterate` one round of `_watch()`, `cached`
the dict `_buckets`.  `create()` asks up to three times, as nats-py's does
(`Created`, external), and `Written` is where the code tells a lost race apart.

### Rpc (`_rpc.py`, `call()`, `serve()` and `_handle_rpc()` of `_nats.py`)

Instances subscribe in a queue group or broadcast (`Serve`) and crash; `Request`
makes a task at each receiver, which goes on by `Refuse` (not `[args, kwargs]`),
`Start`, `Returns`, `Raises` or `Fails` (`RpcError`).  A value is of one of four
kinds that encoding tells apart (`Json`); `Parsed` is `parse_reply()`.  Replies may
come after the timeout or after another reply.

### Router, Provider, OpenApi (`_router.py`, `_provider.py`, `_openapi.py`)

`Provider` and `OpenApi` have operators only.  `Provider` says what becomes of one
argument, given what the request has at its places (absent, empty, good, bad), and
`GatherArgs` of all of them.  `OpenApi` says what the document has about a route: a
schema is the type it is made of, `Component` what is written about a type,
`Collides` and `Undocumentable` when `add_route()` raises.

| Action of `Router` | Code |
|---|---|
| `Decorate` | the decorators of `ApiRouter` and `Router`: an entry is pending |
| `Include`, `IncludeModule` | `include()` of an instance, which binds its methods (`Bind`) and gives them its class for a tag; of a module, with `TAG` and `RESPONSES` |
| `SetHooks`, `AddAuth` | `on_error`, `on_result`; `add_bearer_auth()`, `add_oauth2()` |
| `Build` | `build()`: registers (`Items`) and documents (`Document`) all that is pending up to the first entry that raises (`Stops`), then the routes of the documents (`Docs`) |
| `Serve` | the wrapped handler with one request: `ArgumentsFailed`, `HandlerEnded`, `UnexpectedError` |

### Startup: Config, Logging, Tracing, Blocks (`config/`, `logging/`, `tracing.py`)

`Config` has operators only: a file is a function from paths to texts, `Decoded` what
a parser makes of it in each format, `Retype`, `FillSections` and `Convert` what
follows.  `Logging` is the root logger, `Tracing` tasks in nested blocks.  `Startup`
composes them as `README.md` of the repository tells a service to.

| Action | Code |
|---|---|
| `LoadConfig` | one of the three loaders, with a file, an empty one, a missing one, or none |
| `StartLogging`, `LoggingRefused` | `setup_logging()`, which raises for an unknown level; the collector may be unreachable or OpenTelemetry not installed |
| `StartTracing`, `NoEndpoint` | `setup_tracing(config.log.otel_endpoint)`; `config.log` may be None |
| `EnterTraced`, `Leave`, `UnwindOff`, `UnwindSpan`, `UnwindLazy` | the three paths of `traced()`: without tracing, with a span, with `errors_only` |
| `EnterSuppress`, `UnwindSuppress` | `suppress_and_log`, which may log |
| `StartSpan`, `EndSpan` | `start_span()` and `end()`, by any task |
| `CreateTask`, `Finish` | tasks, which copy the current span, and what is logged of an exception none of their blocks kept |

`Blocks` is what the code of a service relies on: it knows nothing of tracing, and an
exception is kept or goes on by what the blocks it is in keep.  `Tracing` implements it
with `blocks <-` what each frame of `stack` is asked to suppress (`SameOutcome`), all of it:
that `traced()` swallows no `BaseException` is a difference of the code, not of `Blocks`.

## 4. Runs

| Run | Shows | Bounds |
|---|---|---|
| `shutdown` | `TypeOK`, `Deadline`, `ReportTruthful`, `CompletedMeansSettled`, `AfterCallbacksLast`, `CalledOnce`, `EveryCallbackCalled`, `ShutdownEnds` | a total of 2 ticks, 3 tasks, 2 registrations (twice the same entry among them), one explicit call, one tick a plain callback may hold the loop; callbacks without a `__name__` |
| `events_safe` | `EntryAlive`, `NothingLost`, `CalledAtMostOnce`, `CountsRight` | two users of one subject, 3 messages for queues of 2, one of them not JSON, `client.subscribe()` may suspend |
| `events_order` | `HandledInOrder` (refinement of `OrderedEvents`), `NothingOwedWhenClosed`, `DrainEnds` | two subscriptions, 2 messages, handlers that unsubscribe while a message is handled, a disconnect that may find no subscription, and a second connect |
| `consumer` | `SettledWasHandled`, `NoNeedlessRedelivery`, `StopFinishesBegun`, `StopEnds`, `EventuallySettled` | two processes of one worker, a message that is JSON or not, `ack_wait` of 2 ticks, a durable consumer that is missing, right or of another subject, one fault, one process that crashes or whose connection is lost |
| `life` | `AnsweredBeforeClose`, `AckedBeforeClose`, `RegisteredRuns`, `DisconnectEnds` | a task that connects, serves and disconnects, and one that consumes and stops consumers whatever the first is at; two methods, two subjects, two connections, a failing request, a connection closed meanwhile; `client.subscribe()` may suspend |
| `range` | `SentIsPrefix`, `ResponsesAgree`, `StreamEnds` | content of 4 bytes, chunks of 2: several chunks, a short one last, ends beyond the content |
| `bucket` | `NothingLost`, `AnswerTruthful`, `ViewTrue` | two tasks, one key, 3 writing or managing calls and any number of reads, a watcher or a snapshot |
| `rpc` | `AnswerTruthful`, `RunOnce` | one call, two instances of the service, one other responder, the codes -2, 0 and 1 |
| `http` | `RoutesServed`, `AnswerFits`, `DocumentFits`, `RefsResolve` | eight routes of two `ApiRouter`s and plain ones, at most two of them decorated, with two instances of a class, a module, one call that sets hooks or a security scheme, and arguments of every source |
| `startup` | `LoadersAgree`, `RecordsReach`, `SpansRight`, `SameOutcome` (refinement of `Blocks`) | nine fields in sections up to two deep, ten files in the formats that can say them, two tasks with two blocks and one, two spans, three exceptions |

Every property of these runs has a mutant of the code that breaks it
(`mutants` in `PROJECT.json`).

The bounds are as small as the interesting case allows: two of what can
interfere (callers, workers, subscriptions, handlers), one more message than a
queue holds, a clock that reaches zero after partial use.  Nothing in the code
depends on a number above one or two except the sizes that are constants here.
What a run leaves small another configuration makes larger: `consumer` has two
processes of one worker and one message, and `MCConsumerWorkers.cfg`, kept beside the
runs, passes with two workers of one process, two messages and `ack_wait` of 4 ticks (with
three messages `NoNeedlessRedelivery` ends there, see the table below).
In `bucket` every record has a ttl: `Expire` may happen and need not, so the behaviours
of records without one are among these; three calls are a write, a race with it and one
more after both.  The exception of `NothingLost` takes five (put, delete the bucket, make it
again, put, update) and is reached by `MCBucketReused.cfg`; with one task, `MaxCalls = 5` and
`Watches = {}` the configuration of `bucket` passes too.  Calls of `Rpc` share no state but who is subscribed, so one call is
enough to see a second reply, a late one and a crash.  In `http` two routes are what
collides, by key, by name of a type or by order; the argument kinds are spread over
eight of them, and one request at a time is enough since requests share nothing.
Where a module has a type invariant (`TypeOK`) it is not listed with every run:
`shutdown` checks it, and so do configurations such as `MCConsumerWorkers.cfg`.

`MaxX` constants bound what would be unbounded: registrations, tasks, arrivals,
faults, reconnects.  `CHECK_DEADLOCK FALSE` is said where everything may have
stopped: all consumers off or crashed, a Nats object closed, a response sent.
Elsewhere stopping is an explicit action (`Returned`, `Quiet`).  `Bucket`, `Rpc`,
`Router` and `Startup` stop when no calls, routes or tasks are left.

Some constants switch a behaviour of the environment:

* `Suspends` (EventQueue, Lifecycle): `client.subscribe()` has an await that
  suspends only when nats-py's write buffer is full.  `events_safe` lets it
  suspend.  `events_order` does not: messages that arrive in that gap are handled
  out of order (`MCEventQueueSuspends.cfg` below), and a subscription whose call
  is suspended over a whole `disconnect()` and `connect()` registers in the next
  connection what belongs to the last: with `MaxConnect = 2` the configuration of
  `events_safe` violates `EntryAlive`, though the docstring of `unsubscribe()` says that
  closing the connection removed all subscriptions (`_nats.py:271`).
* `Plain`, `SelfStop`, `PingFails` (Consumer), `FromRpc` and `FlushFails` (Lifecycle):
  handlers that are plain functions, stop their own consumer, disconnect; an
  `in_progress()` or a drain that raises.  Passing runs have them off, because each breaks
  what the code says of itself; the tables below have them on.
* `Asked`, `Leftover`, `On` (Consumer): what each instance asks the durable consumer
  to be, what it finds, and the subjects of messages.  In the run the instances are of
  one version, so all ask for the same.  `Kept`: the stream keeps what was settled, as
  a stream with limits does; all of it is then delivered again by a consumer made anew.
* `Early` (Startup): tasks run, and log, before `setup_logging()`.  `Devel` (Logging):
  `add_devel_log_level()` was called.  `Explored` bounds whose tasks run: what blocks
  do does not depend on the settings, so one service is enough.  `Late` (Router):
  routes are decorated after `build()` too.
* `Calls` (Lifecycle): which methods each task calls.  A case is left out of a run
  by what its tasks call, never by a guard in the model.  In `life` one task serves and
  disconnects and one consumes and stops, because two tasks that disconnect, consume, or
  serve and disconnect each break a property (tables below).
* `TracedCall` (Tracing): what `traced()` is called with.  In `startup` it is asked to suppress
  only Exceptions.

In `Consumer` one tick is much longer than the second the code sleeps after a
failed fetch: `ack_wait` is 30 s by default and the keepalive acts at half of it.

### Where code and words differ

Runs that expect a violation check what the code says of itself; the findings in
`PROJECT.json` quote it.

| Run | What happens |
|---|---|
| `shutdown_race` | while `runner()` waits for a callback of the graceful shutdown, a task calls `shutdown_coroutines()` and takes the next one, which `runner()` still has in its snapshot: its `list.remove()` raises out of `runner()` |
| `life_twice` | a second `disconnect()` closes the connection under a message the first waits for |

Further configurations, each of which TLC ends with the violation named here
(`tlc -config <cfg> <module>`).  Where a constant is named, the configuration is that of a
run with this constant changed; a property is to be the only one in the
configuration.

| Configuration | Violates | What happens |
|---|---|---|
| `MCShutdownNameless.cfg` | `RunnerSurvives` | a callback without `__name__` that raises makes its own handler raise |
| `MCShutdownLate.cfg` | `NoCallbackForgotten` | a callback registered after its snapshot was taken is never called |
| `MCEventQueueSuspends.cfg` | `InOrder` | messages moved by `add()` land behind younger ones |
| `MCEventQueueOrder.cfg` | `HandlersFinish` | the last subscription is unsubscribed while its handler runs, as by that handler itself: `drain()` finds nothing to wait for and `events.stop()` cuts it short, though `_nats.py:158` says pending event messages are delivered before closing |
| `MCConsumer.cfg`, `Plain = TRUE` | `NoNeedlessRedelivery` | a plain function handler longer than `ack_wait` is run again, though `docs/nats.md:255` says handlers are kept alive automatically |
| `MCConsumer.cfg`, `PingFails = TRUE` | `NoNeedlessRedelivery` | a coroutine handler longer than `ack_wait` is run again after one failed `in_progress()` |
| `MCConsumerWorkers.cfg`, `Msg = {m1, m2, m3}` | `NoNeedlessRedelivery` | with two workers a pull request of a `fetch()` that is over brings a third message, which waits behind two busy workers: keepalives are for messages being handled, so it is delivered again and handled twice |
| `MCConsumerStrands.cfg` | `StopStrandsNothing` | a message for a cancelled idle worker waits for `ack_wait` |
| `MCConsumer.cfg`, `SelfStop = TRUE` | `StopEnds` | a handler that stops its own consumer hangs |
| `MCConsumerRecreated.cfg` | `RecreatedWhenChanged` | an instance that found the old durable consumer deletes the new one another has made meanwhile, though `docs/nats.md:259` says it is recreated when its configuration changes |
| | `SettledWhileUp` | a process that ends, or a request that fails, between `delete_consumer()` and `pull_subscribe()` leaves the workers of every instance without a consumer until somebody calls `consume()` |
| `MCConsumerSubjects.cfg` | `OwnMessages` | `a.b` and `a_b` get one durable name: a handler is called for messages of the other subject |
| `MCLifecycle.cfg`, `FlushFails = TRUE` | `AnsweredBeforeClose` | after a drain that raised, requests still arrive when `gather()` has its list |
| `MCLifecycleConsume.cfg` | `ConsumersKnown` | two concurrent `consume()` of a subject; one consumer cannot be stopped |
| `MCLifecycleServe.cfg` | `DisconnectCompletes` | `serve()` during `disconnect()` ends that with `RuntimeError` |
| `MCLifecycle.cfg` | `AllAcked` | `disconnect()` closes the connection under a message of a consumer that `stop_consumer()` of another task is stopping, or that was consumed meanwhile, though `_nats.py:157` says consumers finish messages they are processing |
| `MCLifecycle.cfg` | `Reconnectable` | a client closed otherwise can never be connected again |
| `MCLifecycle.cfg`, `FromRpc = TRUE` | `DisconnectEnds` | an RPC handler that disconnects hangs |
| `HttpRange.cfg` | `PartialIsSlice` | a Range whose end is before its start gets 206 and a length of zero or below |
| `MCBucketCache.cfg` | `CacheFresh` | `bucket()` stores a bucket that `delete_bucket()` deleted meanwhile, and returns it from the cache ever after |
| `MCBucketReused.cfg` | `NeverOverrun` | an entry read before the bucket was deleted updates the bucket made after it, whose revisions start again, and replaces a value nobody had read, though `docs/nats.md:285` says `update()` writes only if nobody changed it since |
| `MCBucket.cfg`, `Empty = {FALSE, TRUE}` | `ViewTrue` | an empty raw value looks like a deletion to `watch()` |
| `MCRouterOthers.cfg` | `AnswerFits` | an argument without `Meta` whose value is not of its type is answered with 500 |
| | `DocumentFits` | a header is documented under another name than it is looked up with |
| | `BodyFits` | a body that need not be there is documented as one that is required |
| | `ClassTagged` | `include()` of a module tags methods with its `TAG` before `include()` of an instance gives them their class (`docs/aiohttp.md:175`) |
| | `InjectedErrorKept` | on a plain route a status that an injector raises, 401 as in `docs/aiohttp.md:206`, becomes 400 |
| `MCStartupStrict.cfg` | `LoadersAgree` | `True` is false in an INI file; a section with nothing in it is null in YAML and refused |
| | `EmptyIsDefault` | an empty JSON file is refused, though `aiobp/config/json.py:14` says it decodes to None |
| | `RecordsReach` | a record logged before `setup_logging()` makes `logging.basicConfig()` ignore its handlers |
| | `SameOutcome` | with `errors_only` code that uses the span gets None once tracing is on, and AttributeError |
| `MCStartup.cfg`, `TracedCall <- Cancelling` | `SameOutcome` | a `CancelledError` that `traced()` is asked to suppress goes on, though `README.md:151` and the type `tuple[type[BaseException], ...]` at `tracing.py:114` say it is swallowed: only Exceptions are caught |

## 5. Fairness

Safety properties need none.  Runs with a liveness property check `FairSpec`: weak
fairness of what the event loop does by itself, which is to resume what is ready
and to let time pass.

* `ShutdownEnds` assumes nothing of tasks, callbacks or the service: `runner()`
  has to end even if none of them ever does, which is the point of its budget.
* `DrainEnds`, `StopEnds` and `DisconnectEnds` add that handlers end, because
  these calls are documented to wait for handlers without limit.
* `EventuallySettled` adds strong fairness of the delivery of a message: the
  server answers a pull request when it has a message, but the request is
  withdrawn and made again by every timeout of `fetch()`, so delivery is not
  enabled continuously.  It claims something only if some consumer stays up and the
  durable consumer, which a failed `consume()` can leave deleted, is there again and
  again.  A `consume()` that was called goes on; nothing makes anybody call it.
* `StreamEnds`: the response's own steps go on; the file may change meanwhile.
* The runs `http` and `startup` check safety and refinements, and assume nothing.

## 6. Proofs

The theorems hold for every value of the constants that satisfies the assumption each
module names (`ConstantsAssumption`, `EventConstants`, ...): natural numbers where the
code has sizes and times, kinds of identities that differ, bounds (`MaxX`) that are any
natural numbers.  What a theorem needs beyond that is in its `ASSUME`, and the table
says why.  `TypeCorrect` of each module is `Spec => []TypeOK`.

| Module | Theorem | Property | Assumes |
|---|---|---|---|
| `ShutdownProofs` | `DeadlineKept` | `Deadline` | |
| | `ReportIsTruthful` | `ReportTruthful` | |
| | `CompletedIsSettled` | `CompletedMeansSettled` | |
| | `AfterCallbacksAreLast` | `AfterCallbacksLast` | |
| | `CalledOnceEach` | `CalledOnce` | |
| | `EveryCallbackIsCalled` | `EveryCallbackCalled` | |
| `EventQueueProofs` | `CountsAreRight` | `CountsRight` | |
| | `NoCallLost` | `NothingLost` | `Suspends => MaxConnect <= 1` |
| | `NoCallTwice` | `CalledAtMostOnce` | |
| | `CloseHandlesAll` | `NothingOwedWhenClosed` | `~Suspends` |
| | `EntriesAlive` | `EntryAlive` | `Suspends => MaxConnect <= 1` |
| | `HandlesInOrder` | `HandledInOrder` | `~Suspends` |
| `ConsumerProofs` | `SettledAfterHandled` | `SettledWasHandled` | |
| | `StopWaitsForHandlers` | `StopFinishesBegun` | |
| | `HandledOnce` | `NoNeedlessRedelivery` | `Concurrency = 1`, `~Plain`, `~PingFails`, the same `ack_wait` of all |
| `LifecycleProofs` | `AckedFirst` | `AckedBeforeClose` | `OnlyOne({"disconnect"})`, `OnlyOne({"consume"})` |
| | `AnsweredFirst` | `AnsweredBeforeClose` | `OnlyOne({"serve", "disconnect"})`, `~FlushFails` |
| | `RegisteredAndComplete` | `RegisteredRuns`, `DisconnectCompletes` | `OnlyOne({"serve", "disconnect"})`, `OnlyOne({"consume"})` |
| `RpcProofs` | `AnswersTruthful` | `AnswerTruthful` | |
| | `CallsRunOnce` | `RunOnce` | |
| `HttpProofs` | `SendsInOrder` | `SentIsPrefix` | |
| | `ResponsesSame` | `ResponsesAgree` | |
| | `PartialsAreSlices` | `Ordered => PartialIsSlice` | |
| | `RoutesAllServed` | `RoutesServed` | `~Late` |
| | `AnswersFit` | `AnswerFits` | `AllValidated` |
| | `DocumentsFit` | `DocumentFits` | `AllValidated`, `AllDescribable` |
| | `RefsAllResolve` | `RefsResolve` | |
| `BucketProofs` | `WritesKept` | `NothingLost` | |
| | `OnlyReadReplaced` | `NeverOverrun` | `~Opens` |
| | `AnswersTruthful` | `AnswerTruthful` | |
| | `ViewsTrue` | `ViewTrue` | `TRUE \notin Empty` |
| `StartupProofs` | `LoadersAlwaysAgree` | `LoadersAgree` | `PlainSettings` |
| | `RecordsAlwaysReach` | `RecordsReach` | `~Early` |
| | `SpansStayRight` | `SpansRight` | |
| | `TracedOrNot` | `SameOutcome` | `NoneUnused`, `ErrorsSuppressed` |

Each extra assumption marks a place where the code does not keep the property, and the
configurations of section 4 show it without the assumption: `~Suspends`
(`MCEventQueueSuspends.cfg`, `events_safe` with two connections), `~FlushFails`,
`OnlyOne` (`life_twice`, `MCLifecycleServe.cfg`, `MCLifecycleConsume.cfg`), no empty values,
no bucket deleted and made again (`~Opens`, `MCBucketReused.cfg`), a Range in order, one worker for each consumer (which is what `consume()` starts by default,
`_nats.py:409`), coroutine handlers and an `in_progress()` that does not raise (rows of
`MCConsumer.cfg` and `MCConsumerWorkers.cfg`), and for `Startup` the rows of
`MCStartupStrict.cfg`: `~Early` (nothing is logged before `setup_logging()`), `NoneUnused` (no
code uses the span of a block with `errors_only`), `ErrorsSuppressed` (`traced()` is asked to
suppress only Exceptions: the row of `MCStartup.cfg`) and `PlainSettings` (fields only, no null, and
bools that are `true` or `false`).  Instances that ask for different `ack_wait`s make the
durable consumer anew for each other, and one of them may then rely on a longer one than the
server keeps.  `OnlyOne(methods)` says that at most one task calls any of
these methods; other tasks call the others, and RPC handlers call `disconnect()` or do
not (`FromRpc` is arbitrary).

Those of `Router` are about the routes of a service, and the routes of the run satisfy them.
`~Late`: a route decorated after `build()` stays pending for good.  `AllValidated`: an argument
has a `Meta`, is a `str`, a body, a whole path or query, or injected; of any other the type itself
is called with what the client sent, and what it raises is a 500 (`MCRouterOthers.cfg`,
`AnswerFits`).  `AllDescribable` lists what `openapi.json` says otherwise than the handler does,
in three more respects than the row `DocumentFits` of `MCRouterOthers.cfg` shows: an argument is
looked up under its own name; a whole path or query is not Optional, has a field that is required
(otherwise nothing of it is ever refused as missing), and has all its fields in the path if it
is a path; a body is taken whole or by its fields, not both.

`CalledOnce` is inductive with the types of the variables; the others are not.  What
each proof adds was model-checked before it was proved, but for `RouterInv`, which says that there
is a list without saying where to look for it:

**Shutdown.**  `Deadline` says nothing of `timeout`, the variable the code computes with,
so it is strengthened to `BudgetInv`: *between two awaits the budget is what is left of
the total at this tick; while runner awaits it is what was left when the await began.*
Every path through `shutdown_coroutines()` and `__shutdown_tasks()` re-establishes the
first from the second by subtracting what the await took, which is where a forgotten
`timeout -= took` would show.  `SettledInv`, on top of it: a callback's task that runner
awaited is finished, or the total is used up, or runner still awaits it; and
`after` is reached with all tasks done or the total used up.  `Served`: of the list there is
left no more than runner's snapshot holds and was registered too late for it.
`CalledOnce` counts what an entry has in the list under `append()`, `remove()` and `[::-1]`.

**EventQueue.**  `Inv`: where the messages of a subscription wait before and after
`add()`, what the worker is at, who has the lock.  Then `unfinished` and `pending` are
the numbers of messages in these places.  `Delivery`: a call that is owed is of a handler
still listed, and its message waits in the shared queue or the handler is in the rest of
the snapshot.  `Once`: no message waits in two places, and none of those waiting was
called for.  `Alive`: what tasks that hold the lock know of the subscription they
make or remove.  For `NothingOwedWhenClosed`: whoever is owed a call is of a
subscription that `drain()` found and has not joined yet (`Drains`), and when it has joined
them all either everything was handled or no subscription is left, so that what the worker
is at has no handler any more (`CutShort`).  `HandledInOrder` is proved as a refinement: the initial states map to
those of `OrderedEvents`, and every step to a step of it or none, since `add()` finds the
old queue empty (`Straight`) when `client.subscribe()` does not suspend.

**Consumer.**  A message out or a request waiting belongs to the durable consumer there
is (`ServerHasConsumer`), a message being handled is held by a worker of the consumer
that began it (`BegunIsHeld`), and workers are done when their consumer is off
(`AtRest`), so when `stop()` has returned nothing is left begun.  For
`NoNeedlessRedelivery` every start of a handler is paid for (`Paid`): what the property counts is
never behind the starts, and ahead of them whenever the message is stored at the server or is out
with nobody who has it in hand (`Due`).  In hand is a message that waits for a worker in
`fetch()`, which was delivered at this very tick since it is what the only worker waits for
(`OnePull`, `JustDelivered`), and one being handled whose `ack_wait` has as much left as the timer
of its keepalive needs (`KeptAlive`).  `OneConfig`: the durable consumer has the `ack_wait` that
keepalives reckon with, or nobody is at work yet.

**Lifecycle.**  `Connection`: the task that disconnects finds the connection up until it
drains it.  `Working`, `Known`, `Ended`: a consumer that is stopping is waited for by somebody, the
dict lists what runs, and a consumer `disconnect()` has found ends, or is still on its list
under its subject, where no other can be put meanwhile, since it has one.  `Registers`: every active RPC subscription is registered, about to be by the
task in `subscribe`, or still ahead of the place where `disconnect()` iterates.
`Answering`: a request that has no task yet belongs to an active subscription or to the
one being drained, and one that has is among those that `gather()` waits for.  A connection
closed otherwise (`closes`) ends what these promise.

**Rpc.**  A reply on its way tells what its task may tell, and who is outside of the
queue group was told to broadcast.

**HttpRange.**  What is announced follows from the header and the total; in the loop,
`offset` is the first position plus what was sent and `remaining` what is missing of the
length.  The three responses are compared by what clamping and Python's slices do to
positions.

**Router.**  `RouterInv`: before `build()`, what is pending are the routes that were
decorated, each a function, or a method bound to nobody yet or to an instance of its class
(`Collected`); after it, there is one such list of which what is registered and documented was
made (`BuiltOf`), and the last answer is one that the handler around its route gives
(`Answered`).  `include()` sorts what it binds: the order `InOrder` gives a finite set is its
members by rank (`Ranks`), so nothing is lost or there twice.  For `AnswerFits`, what
`gather_args` raises or returns (`GatherIs`, `ResolveIs`) is compared with what is `Wrong` in
the request.  For the documents, no two entries have one key, so an operation is that of its own
entry, and two types of one name, wherever they are nested, were compared when the later of
their entries was registered (`DocumentIs`).  `RequiredAre` and `RequestFits` compare the places
documented as required with those an argument is looked up at.

**Bucket.**  `Revisions`: an entry, a request and a reply name a revision of one stream,
and while it is the last of its key, the key has no write but those it was read
with.  A deleted and recreated stream counts its revisions anew, so a revision names
something only together with the time the stream was made; the server compares the number
alone, which is where `overrun` comes from.  `OneStream`: while no bucket is deleted all
revisions are of the one stream, so nothing is `Outdated`.  `Once`: a call has one
request under way, none after it has stored.  `Bounded`: there are no more revisions than
calls.  `Viewed`: the last event queued for a key is its last record.

**Startup.**  *Configuration*: a section belongs to the configuration if every section down to
it is said or required; each loader makes, of what its parser gives, a document that has a
table where a section is and a text that fits, or not, where a field is, the same for all
three (`Documents`), and `Convert` makes of any such document what the settings mean
(`ConvertMeans`).  *Logging*: the handlers there are and the level of the root logger are those
of the last `setup_logging()`.  *Tracing*: each block remembers the span that was current when it
was entered, which is that of the next traced block around it (`Chain`), and spans have one
owner, a block or `start_span()` (`OneOwner`).  `TracedOrNot` is a refinement: a step enters,
leaves or unwinds one block of `Blocks`, whatever its path, or none.

**Only model-checked** is what is out of the prover's reach: liveness under fairness, which needs
`ENABLED` (`ShutdownEnds`, `DrainEnds`, `StopEnds`, `EventuallySettled`, `DisconnectEnds`,
`StreamEnds`), and inductions over data.  Only `RefersTo` of `OpenApi`, the types a type
refers to directly or through others, is such: `RefsAllResolve` takes it as it is defined, and that
it is the least set closed under references is checked of the types of the run (`RefersToIsLeast`
in `MCRouter`).

## 7. What is left out

* nats-py, asyncio, aiohttp and the NATS server: modelled only as the code in
  `aiobp/` relies on them, and marked external in the map.
* Contents of messages beyond whether they are JSON; headers; log texts.
* A wall clock that jumps during a shutdown (`time.time()` is not monotonic).
* In `EventQueue`: the turn of the loop in which nats-py's `drain()` has listed its
  subscriptions and does not drain yet.  A drain that began to join the own queue of a
  subscription before `add()` swapped it may end sooner in the model than it does.
* In `Lifecycle`: callbacks of nats-py that do nothing but log.
* In `HttpRange`: text bodies, whose `Content-Length` counts bytes while positions
  count characters; the body of the error page.
* In `Bucket`: `keys()`, `buckets()`, histories longer than one record, the
  encoding of keys.  In `Rpc`: `serve_dispatch()`, which differs only in what its
  handler is given, and headers.
* In `Router`, `Provider` and `OpenApi`: the inspection of annotations, texts,
  descriptions and examples, the page that shows a document.  `docs/aiohttp.md:117`
  says that declaring two `Body` arguments raises TypeError at registration; no code
  looks for that, and the markers that page names are `FromBody`, `FromPath` and so on
  in the code.  The models have one body at most.
* `sys_argv_or_filenames()`, which looks at arguments and the file system;
  `parse_value()`, which nothing calls; formatters of log records;
  `propagation_headers()` and `current_traceparent()`, which write down the current
  span for another service.
* Connection, headers and server of `aiohttp/`: lookups of one header and one sequence
  of calls that starts aiohttp, without state of their own.
