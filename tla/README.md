# A TLA+ verification project for AinosOS

AinosOS puts AI inference behind operating-system interfaces. A kernel module
schedules inference tasks, another offers system calls for models and
contexts, a Rust daemon serves clients over TCP and Unix sockets, Python
clients (an SDK, a desktop) talk to it, and plugins extend the system. The
project models the parts with concurrent or long-lived state, checks them with
TLC on small instances, and proves the central facts with TLAPS for instances
of every size.

## 1. Inventory

| Part | State | Operations | Interacts through | What is hard |
|---|---|---|---|---|
| AI scheduler, `kernel/ai-scheduler-main.c` | priority queues, task structures, workers, tracking table | submit (sync, async), cancel, query, worker loop, watchdog, unload | queue locks, a completion per task, `current_task`/`busy`, `is_async` | freeing by three parties, watchdog against worker, interrupted waits, unload against submitters |
| Tracking table (same file) | 2048 slots and an eviction index | `task_track_add`, `task_track_query` | `task_track_lock` | full table, update, take-once |
| Power policy (same file) | mode, temperature, flags, each worker's `throttle_sleep` | sensor poll, manual mode, worker loop | `thermal_lock` | two writers, lost sensor, the mode read at two places of a worker's loop |
| Model table, `kernel/ai-syscalls-main.c` | entries, id counter | load, unload | `g_model_lock`, `copy_to_user` | failure after the update, reuse of entries |
| Context table (same file) | entries with value and TTL | store, retrieve | `g_context_lock` | overwrite, expiry, failed allocation |
| Daemon sessions, `auth.rs`, `ipc.rs` | session map, `ClientState` per connection | connect, Auth, messages, disconnect | `RwLock`s, awaits | awaits between creation and use and between check and handler, write errors, re-authentication, expiry |
| Daemon rate limiter, `ratelimit.rs` | token buckets per client | `check_rate_limit`, `cleanup_stale` | lock of the client map | fractions of tokens, discarded buckets |
| SDK connection, `bindings/python/ainos/transport.py` | socket, reader task, table of pending requests, read buffer | connect, disconnect, requests, streams, read loop | futures, one line per message | timeouts against late answers, torn lines, cancellation, reconnect of the same object |
| SDK client and pool, `client.py`, `transport.py` | `_connected`, `_transport`, pool with a lock | connect, disconnect, reconnect, requests with retries | `asyncio.Lock`, callbacks into the client | flags read before an await and used after it, replaced transports |
| Desktop client, `userland/desktop/src/client` | `_connected` twice (client and transport), pending table, chunk handlers, reconnect and heartbeat loops | connect, disconnect, requests, streams, cancellation | a lock, callbacks, ids chosen by two layers | the read loop against `disconnect()`, shared ids, loss noticed in two places |
| Plugin manager, `plugins/plugin_manager.py`, `plugins/api.py` | registry, dependency graph, plugin objects, saved configurations, hashes of watched files | discover, load, start, stop, unload, enable, disable, reload, shutdown, the watcher thread | `RLock`, callbacks of plugins, service registry | callbacks that raise halfway, user against watcher, order of dependencies |
| Plugin API, `plugins/api.py` | subscriptions, services, factories, aliases, metadata | subscribe, publish, register, resolve, unload of an owner | locks around the tables, not around callbacks | delivery from a snapshot, one-shot subscriptions, alias chains, shared metadata |
| Vector database, `vector-db` | collections, flat index, metadata, two files | create, drop, insert, delete, search, persist, load | a lock that `create_index` and `load` take late, files written in place | id reuse, a crash or a reader between two files, two creators of one name |
| Daemon runtime, models, context, cache, thermal, TLS | loaded models, SQLite, LRU map | | | LRU under a memory limit |
| Database, network stack, containers, compiler, WASM, training, firmware, tools | | | | see section 5 and `components` in `PROJECT.json` |

What makes each modelled component correct: a task is in one place and is
never lost, a waiting submitter returns, a task that is completed has an
outcome; the tracking table is a bounded map; lasting heat slows the workers;
ids of models never change their meaning; a retrieve returns the latest
unexpired store; a session belongs to one connection and dies on time; a
client gets no more than its rate; a Python caller never waits for an answer
that cannot come, and gets its own; a connection is open exactly as long as
its owner thinks; a lost one is noticed and retried; a loaded plugin is whole
and an unloaded one leaves nothing; a search returns what was inserted and not
deleted.

## 2. Modules

| Module | Models | State and actions |
|---|---|---|
| `TaskTrackOps` | the two table operations as functions | `TrackAdd`, `TrackFound`, `TrackTake`; used by the next two |
| `TaskTrack` | the table with its callers | `Record`, `TakeResult` |
| `ResultMap` | abstract: a bounded map with take-once results | `Put`, `Take` |
| `AiScheduler`, `MCAiScheduler` | the scheduler, instances of it | below |
| `ModelTable`, `ContextTable` | the tables behind the system calls | one action per outcome of a call |
| `PowerPolicy` | thermal polling and throttling | `Poll`, `PollFails`, `SetPowerMode`, `WorkerLoop`, `WorkerRun`, `WorkerWakes` |
| `MCKernel` | the four above side by side | |
| `DaemonSessions` | sessions and connections | `Authenticate`, `Insert`, `Adopt`, `Check`, `Refuse`, `Dispatch`, `Limited`, `AnswerFails`, `Disconnect` ... |
| `RateLimiter` | token buckets | `Allow`, `Deny`, `CleanupStale` |
| `MCDaemon` | the two above | |
| `SdkConnection` | one connection object of the SDK | connect, send, settle, expire, read loop, wire |
| `SdkClient` | clients, transports and the pool | the calls of a task, step by step between awaits |
| `DesktopClient` | client and transport of the desktop | below |
| `PluginManager`, `MCPlugins` | life cycle and hot reload | below |
| `DependencyGraph` | the graph algorithms of the plugin manager as operators | compared with the transitive closure |
| `EventBus` | subscriptions and delivery | `Subscribe`, `Publish`, `Collect`, `Call`, `FilterRaises`, `Finish`, `Unsubscribe` ... |
| `ServiceRegistry` | services, factories, aliases, metadata | one action per call |
| `MCPluginApi` | the three above | |
| `VectorDb` | a collection with the flat index | `CreateTest`, `CreateInstall`, `DropIndex`, `Insert`, `Delete`, `Persist...` (four steps), `SaveFails`, `LoadIds`, `LoadVectors`, `LoadInstall`, `Crash` |
| `AiSchedulerProofs`, `SdkConnectionProofs`, `SdkClientProofs`, `DesktopClientProofs`, `VectorDbProofs` | proofs about the module they are named after | |
| `PluginProofs` | proofs about `ServiceRegistry`, `EventBus`, `PluginManager` | |
| `KernelProofs` | proofs about `TaskTrack`, `ModelTable`, `ContextTable`, `PowerPolicy` | |
| `DaemonProofs` | proofs about `DaemonSessions` and `RateLimiter` | |

Definitions marked "Faulty variant" are wrong versions of the definition that
follows them. They are not part of any specification; substituted for the
right one, each makes a property fail, which shows that the property depends
on that piece of code.

### AiScheduler

A step is what happens between two points where another thread can interfere:
a critical section, or the plain stores up to the next such point.

| Code | Actions |
|---|---|
| `ai_sched_submit`, `ai_sched_submit_async`, `enqueue_task` | `SubmitBegin` (to the unlocked capacity test), `EnqueueStamp` (id and deadline), `EnqueueLink` (critical section), then `AsyncReturn`, or `WaitDone` / `WaitInterrupted` |
| `ai_worker_thread`, `dequeue_task` | `Dequeue`, `Publish` (`current_task`, `busy`), `Fill`, `Signal` (`complete_all`), `Release` (record and free an asynchronous task), `Clear` |
| `watchdog_callback` | `DeadlinePasses` (time), `WatchdogFire`, `WatchdogRelease` |
| `ai_sched_cancel` | `Cancel` |
| `ai_sched_query` | `QueryTrack`, `QueryMovesOn`, `QueryHit`, `QueryMiss` |
| `ai_scheduler_exit` | `ExitBegin`, `ExitCancelWork`, `WorkerStop`, `ExitDrain` (once for each queue), `ExitFree` |
| undefined behaviour | `StaleAccess`, `UnloadedAccess`, `CrashOfFree` |

Freed structures keep their contents in the model, one of the outcomes the
allocator allows; that the memory has been reused is the other, `StaleAccess`.
After the first wrong access `crash` is set and nothing more is claimed.
`drain` is the loop of `ai_scheduler_exit` over the queues: each queue is a
critical section of its own and `kfree(g_sched)` comes after the last, so a
submitter that waits for a queue's lock may link its task behind the loop
(`drain.strayed`).
Queue lengths stand for the counters `count`; the inference itself, the
statistics and the request body are left out. Module load is the initial
state.

### The asyncio clients

In `SdkConnection`, `SdkClient` and `DesktopClient` a step runs from one await
to the next, because asyncio switches tasks nowhere else. A coroutine that
awaits something that may be ready at once may go on in the same step or
later; both are allowed. `asyncio.Lock` serves its waiters in order, which
`SdkClient` models as a queue.

*SdkConnection*: messages are lines; a line may arrive in two fragments and a
fragment may be all that arrives before the socket dies (the read buffer is
kept over a reconnect). `stray` is a socket that `connect()` replaced while it
was open; that is possible after the read loop ended on a value it did not
expect (`startled`), which leaves the socket as it is. *SdkClient*: a connection is open, broken or closed; a
task is inside one of the client's calls, with what it read before its last
await in local variables. *DesktopClient*: `ConnectOpen`,
`ConnectOpens`, `ConnectFails`, `DisconnectClose`, `DisconnectEnd` for the
user's calls and for the reconnect loop (`ReconnectTest`, `ReconnectWakes`),
`LoopEnds` for the read loop, the heartbeat, and the calls `infer`, `infer_stream` and
`cancel_inference`, the last of which goes out with the id of the request it
cancels. When a socket dies its read loop is woken at once and is over before
a new connection is opened. A `disconnect()` that closes a live socket awaits
`wait_closed`, and the read loop is over before it returns; one that comes
between the loss and the read loop's turn finds the writer closed, clears the
flag without giving way, and the read loop ends after it (`DisconnectGone`).
The backend sends well-formed messages.

### Plugins

*PluginManager*: a thread (the user's, or the watcher) is inside a call with a
stack of what it has still to do; the manager's lock is held as the code holds
it, callbacks of plugins run as steps of their own and may raise. A plugin's
descriptor is its object, every plugin registers one service, and `desc.state`
is left out. The file `plugins/__init__.py` imports a name that
`plugin_manager.py` does not define; the model is of the manager as it runs
without that line. *EventBus*: events of one type, subscriptions for that type
and for all types. *DependencyGraph* is written with recursive operators and
is for TLC only.

### The others

*PowerPolicy*: `reading` is the sensor file, `temp` what was last read. A
worker looks the mode up twice: at the head of its loop for `throttle_sleep`,
which it sleeps only if it finds no task, and then a second if it is 0; and
with a task in hand for `sleep_ms`, how long the inference takes. *ModelTable*: the three searches of `model_table_add` are the
guards of `LoadTableFull`, `LoadAgain` and `LoadNew`; `told` remembers what
processes were told. *ContextTable*: `stuck` is a retrieval that faulted with
the lock held. *DaemonSessions*: a connection is a task that gives way at each
await, also between `check_permission` and the handler, where it awaits the
application state and the limiter; `at` remembers when a message was checked,
and `orphaned` collects tokens that a connection forgot without destroying
them. Permissions are reduced to the set of messages they allow.
*RateLimiter*: one category (all categories behave alike; the buckets of a
client are created and discarded together), with tokens in units of `1/Scale`
in place of floating point. *VectorDb*: a search is checked for every order
the distances may put the rows in. `create_index` tests the name before it
takes the lock. `persist` holds the lock, empties and rewrites one file after
the other, and ignores a save that failed (`SaveFails`); `load` reads the two
files without the lock, so that persists of other threads, whole or in part,
fall between its reads and before it installs what it read.

## 3. Runs

| Run | Shows | Bounds |
|---|---|---|
| `sched_queue` | type, `OvershootBounded`, `DoneHasOutcome`, `FreedOnceBeforeDeadline` | 3 tasks, 2 submitters, 1 worker, a queue of capacity 1 (the fewest that let the bound on the overshoot be exceeded), 1 track slot |
| `sched_live` | `ExclusiveOwnership`, `NoTaskLost`, `SubmitReturns` | 2 tasks, 1 submitter, 2 workers, no symmetry |
| `kernel` | `TrackInv` and the refinement of `ResultMap`; `ModelInv`; `ContextInv`; `PowerInv`, `HeatSlowsWorkers` | 3 slots and 5 ids; 3 names and 4 loads; 3 keys, 2 entries, 4 stores, TTL 0 (none) and 1; 2 workers, a temperature on each side of every threshold |
| `daemon` | `SessionInv`, `HandledWasValid`; `LimiterInv`, `GrantsBounded` | 1 TCP and 2 Unix connections (these share a `client_id`), 3 tokens, TTL 2 of 3 ticks; 2 clients, burst 20 (the smallest at which 95% is not full), half a token per tick |
| `sdk_connection` | `ConnectionInv`, `NoDeafWaiter`, `LeftoversExplained`, `WaitEnds` | 2 requests and a stream, room for 2 pending, 2 connects, 1 fragment on the wire |
| `sdk_client` | `PoolInv`, `LeakExplained`, `DisconnectEnds` | 2 tasks, 2 transports of 2 connections, 2 retries |
| `sdk_client_close` | violated: `DisconnectClosesAll` | 1 task |
| `desktop_client` | `DesktopInv`, `CallsInv`, `LossIsRetried`, `ClientKnows` | a stream, its cancellation and a plain request, 3 calls of connect and disconnect, 2 sockets, 2 attempts |
| `desktop_closed` | violated: `StaysDisconnected` | one request |
| `plugins` | `ManagerInv`, `LoadedIsComplete`, `NothingLeftBehind`, `DependenciesLoaded` | 2 plugins, one requires the other; a user with 3 calls, a watcher with 1 scan, 1 raising callback |
| `plugin_api` | bus: `BusInv`, `OneShotServed`; registry: `RegistryInv`, `UnloadExact`; graph: `GraphAgrees` | 3 subscriptions (one for all types, one one-shot, two filtered), 2 events; 3 names, 2 owners; all graphs of 3 plugins |
| `vector_db` | `CollectionInv`, `ExactWhileIdsUnique`, `RoundTrip` | 3 vectors, batches of 2, 1 delete, 1 load, 2 creators; a vector deleted, one inserted after it and one in the file are what it takes to give an id twice and to mix saves |

Invariants that speak about the same state are checked together:

| Invariant | Parts, beside the type |
|---|---|
| `TrackInv` | `OneRecordPerTask`: a task has one record, so its result is handed out once |
| `ModelInv` | `OneEntryPerModel`, `RetiredStaysRetired`, `ToldIdsMeanTheirModel`: what an id means never changes |
| `ContextInv` | `OneEntryPerKey`, `RetrieveReturnsLatest`, `NullOnlyAfterFailedStore` |
| `PowerInv` | `ReportedModeExplained`: mode, flag and threads fit, and the mode is one documented for the last reading, or EMERGENCY at 95 degrees |
| `SessionInv` | `OneHolder`, `HeldSessionUsable`, `LeftoversExplained` |
| `LimiterInv` | `ActiveCounted`, `RetryAfterSuffices` |
| `ConnectionInv` | `GarbledOnlyAfterTear`, `ClosedSettles`, `ConnectedHasReader`, `SocketClosed` |
| `PoolInv` | `SingleConnect`, `StopClosesPool`, `ConnectedIsUsable` |
| `DesktopInv` | `LockCoversAwaits`, `LiveIsServed` |
| `CallsInv` | `TablesExplained`, `NoOrphan`, `AnswersMatch` |
| `ManagerInv` | `LoadedIsRegistered`, `LockHeldInLoad` |
| `BusInv` | `CalledInOrder`, `SteadyServed` |
| `OneShotServed` | `OneShotOnce`, `OneShotNotLost` |
| `RegistryInv` | `OwnerKnown`, `GetEnds` |
| `GraphAgrees` | `DependenciesFirst`, `CycleReported`, `AllDependenciesFound`: against the transitive closure |
| `CollectionInv` | `ReuseOnlyAfterDelete`, `DeletedGone`, `MetadataOwn` |

Each part has a faulty variant of the code that breaks it.

A run over several modules puts parts side by side that share no state: each
moves while the others stand still, and the properties are those of the parts.

Named bounds: `MaxId`, `MaxLoads`, `MaxStores`, `MaxTime`, `MaxCleanups`,
`MaxConnects`, `MaxWire`, `MaxTransports`, `MaxUserCalls`, `MaxSockets`,
`MaxAttempts`, `MaxCalls`, `MaxScans`, `MaxFaults`, `MaxInst`, `MaxVectors`,
`MaxBatch`, `MaxDeletes`, `MaxCreators`, and the sizes of the constant sets. Tasks are allocated
once each, so `Task` bounds a behaviour of the scheduler; two tasks are enough
for every pair of parties to meet over one, three to overfill a queue. Two
connects of one SDK object are enough for an old answer to meet a new request,
two transports for one to replace the other, two sockets of the desktop client
for a loss and its repair. Symmetry is used for invariants only. Deadlock is
checked where the instance cannot stop; it is not where the system may: the
module is unloaded, no task is left, the clock ends, every call was made.

Fairness. `sched_live`: kernel threads run (`WorkerStep`, `WorkerStop`), a
completion wakes its waiter (`WaitDone`), a callback that began ends
(`WatchdogRelease`), and `ai_scheduler_exit` goes on once begun. Nothing is
assumed of submitters that have not enqueued yet, of deadlines, signals,
cancellation or unload. `kernel`: the poll reschedules itself
(`schedule_delayed_work`), the kernel runs its threads and a sleep ends; that
tasks arrive is not assumed. `sdk_connection`: timers
expire and the event loop runs what is ready; nothing is assumed of the
daemon, and `WaitEnds` starts after `drain()`, which the timeout does not
cover. `sdk_client`: a task that is not waiting runs, and `open_connection`
ends, since it has a timeout. `desktop_client` is about safety only.

### What the violated properties show

* `DisconnectClosesAll` (`client.py:309`). A request that fails with a
  `ConnectionError` clears `_connected` and leaves the transport. `connect()`
  then puts a new transport in its place, and `disconnect()` closes that one;
  the sockets of the first stay open.
* `StaysDisconnected` (`userland/desktop/src/client/transport.py:253`).
  `disconnect()` awaits `wait_closed` while `_connected` is still True; the
  read loop takes the end of the stream for a loss and schedules a reconnect.
  After `reconnect_interval_ms` the client is connected again, and
  `on_disconnected` has been called twice.

### Observations without a run of their own

Scheduler and kernel tables

* Neither submit function stores the requested priority in the task, so every
  task goes to queue 0 (`docs/architecture/kernel.md:121` promises strict
  priority).
* The worker does not learn that the watchdog has failed its task; it stores
  COMPLETED over FAILED (`kernel.md:244`) and frees an asynchronous task again.
* `ai_scheduler_exit` loses tasks that it says it cleans up ("clean up all
  queued tasks", line 891). It empties each queue under its lock; a submitter
  that tested `running` before and gets the lock after links its task into the
  emptied queue, `kfree(g_sched)` follows, and nobody completes the task: the
  submitter waits until a signal comes. `NoTaskLost` and `SubmitReturns` say
  that this (`Stranded`) is the only way to lose a task or to wait for ever.
* `calculate_power_mode` compares with `>=`, so that 95 degrees exactly is
  EMERGENCY, where the comments (lines 50-51) and `kernel.md:228-229` give
  EFFICIENT for 85-95 and EMERGENCY above 95. `PowerInv` holds the mode against
  these documents and excepts this temperature alone.
* The capacity test precedes the lock; `OvershootBounded` gives the size of
  the overshoot.
* `ai_sched_query` looks at table, queues and workers in turn. A task between
  `dequeue_task` and `current_task`, or one that moves on during the scan, is
  reported as unknown (`QueryMiss`).
* `cancel_task` sets `task->status`; the submitter copies `task->resp`, whose
  status is still PENDING, and returns 0.
* The tracking table's index moves only when the table is full, so after a
  query has freed a slot the record it overwrites need not be the oldest, as
  the comment at line 223 says it is. `ResultMap` leaves the choice open.
* Losing the sensor keeps the mode and each worker's `throttle_sleep`;
  `active_threads` is read by no worker. In EFFICIENT mode an idle worker
  sleeps a second, as it does unthrottled; only the inference is slower, which
  is what `HeatSlowsWorkers` says. A submitter whose wait is interrupted frees
  a task that is queued or executed (`StaleAccess`). The system calls negate error codes
  that are negative already.

Daemon

* `session_cleanup_task` is never started (`docs/architecture/overview.md:1192`
  says that expired sessions are removed): a session replaced by
  re-authentication, or left by a TCP write error, which leaves
  `handle_client_tcp` before its cleanup (`AnswerFails`), stays in the map.
* A session is validated before the application state and the limiter are
  awaited, and another connection's ModelLoad holds the state for as long as
  the engine starts: a message may be handled after its session expired.
  `HandledWasValid` says what holds: it passed the check in time.
* `max_clients` of the rate limiter limits nothing; with a burst of 20 or more
  a client that was just served counts as idle.

SDK

* `drain()` is outside the request's timeout. A cancelled caller leaves its
  entry in the table, a failed streaming request too; streams do not count
  against the limit, and the queue of `infer_stream` is never filled.
* A torn line stays in `_read_buffer` over a reconnect and spoils the first
  line after it (`GarbledOnlyAfterTear`).
* A value on the wire that is no object ends the read loop and leaves the
  socket open; the next `connect()` replaces reader and writer
  (`transport.py:218`), and `disconnect()` closes the new one only.
  `SocketClosed` says that nothing else leaves a socket behind.
* A request that fails late clears `_connected` of a newer transport;
  overlapping `connect()` and `disconnect()` lose the new transport; the second
  attempt of `reconnect()` replaces a live one. `LeakExplained` lists them.

Desktop

* A send that fails before the read loop notices the loss clears `_connected`
  without telling anybody, and nothing is retried. A loss does not fail the
  pending requests; they wait for their timeouts.
* `cancel_inference()` goes out with the id of the running request and takes
  over its entry (`transport.py:300` calls ids unique), so `infer()` waits for
  its timeout and answers cross. `NoOrphan` and `AnswersMatch` say that
  nothing else makes this happen.
* A `disconnect()` that returns early leaves a sleeping reconnect loop alive.
  Nobody reads `_last_heartbeat`. `health_check` passes an argument that
  `send_request` does not take.

Plugins

* `watch` stores the path where the hash belongs, so the first scan reports
  every plugin as changed. `on_hot_reload` defaults to `on_initialize`, whose
  service is refused, and the plugin stays loaded and not started.
* Overlapping calls about one plugin leave objects nobody refers to; an
  `on_initialize` that raises after registering leaves its service, which
  blocks every later load; a disabled dependency is silently skipped.
* Two overlapping events deliver a one-shot subscription twice
  (`api.py:605`); one whose filter rejects the event is removed all the same;
  a filter that raises ends the delivery for the rest.
* An alias made of a name that is itself aliased back makes `get()` loop; a
  name that is both service and factory has one metadata entry for both.

Vector database

* Ids come from the number of active vectors, so an insert after a delete
  gives an id a second time (`ReuseOnlyAfterDelete`); from then on `size()` and
  the metadata are wrong.
* Two threads that create one collection both pass the test of the name, which
  is made before the lock is taken (line 130); the second replaces what the
  first client has been told is there and has inserted into, although
  `README.md:14` calls all operations thread-safe and line 131 refuses a name
  that is taken. `ExactWhileIdsUnique` says that search, `get` and `size()` are
  exact about the rows that are there even then, and that these are the vectors
  inserted and not deleted unless a create raced (`replaced`).
* A crash between the two files, or a `load` whose reads a `persist` of another
  thread falls between, may pair ids with the wrong vectors (`torn`). `persist`
  does not look at the result of `FlatIndex.save`, nor `load` at that of
  `FlatIndex.load`. `RoundTrip` says which loads bring back what was saved.

## 4. Proofs

All proofs are for arbitrary constants under the assumptions named in the
modules that declare them:

| Assumption | Says |
|---|---|
| `TrackSizeAssumption`, `MaxIdAssumption` | the table has a slot; ids are numbers |
| `SchedAssumption` | priorities form an initial segment of the naturals, capacities are positive, NULL is not a task, finitely many submitters |
| `ModelTableAssumption`, `ContextAssumption`, `PowerAssumption` | sizes, lifetimes and temperatures are numbers, the model table has an entry, markers are no names, keys, values or readings |
| `SessionAssumption`, `RateAssumption` | a lifetime, a burst and a rate are positive, the markers are no tokens |
| `ConnectionAssumption`, `ClientAssumption` | requests and streams are different, pool, attempts and room for requests are not zero |
| `RegistryAssumption`, `DesktopAssumption` | the markers for no owner, no call and a free lock are no names, calls or tasks; streams, plain requests and cancellations are different calls |
| `VectorDbAssumption` | the bounds are numbers, a batch is not empty |
| `EventBusAssumption` | wildcard, one-shot and filtered subscriptions are subscriptions; priorities are numbers |
| `PluginAssumption` | finitely many plugins, `LoadOrder` lists them all with dependencies first (so there is no cycle), the watcher is no user and the markers are no threads or plugins, bounds are numbers, some configuration exists |

In almost every proof the property itself is not inductive. What was added,
and why, is the content of the proof; every strengthening was model-checked
before it was proved.

### Scheduler (`AiSchedulerProofs`)

* `SchedulerTyped`: threads index the task structures by local pointers, so
  `Typed` adds `Pointers`: the pointer of a thread inside an operation is a
  task.
* `SchedulerExclusive`: `ExclusiveOwnership` is strengthened to `Owned`. It
  speaks about positions in queues, and adds `OwnedAllocated`: whatever is in a
  queue or with a thread has been allocated, so that the task a submission
  receives from `kzalloc` belongs to nobody. The steps fall into four kinds:
  acquiring (`SubmitBegin`), handing over (`EnqueueLink`, `Dequeue`),
  unlinking (`Cancel`, `ExitDrain` of one queue; the lemma `NobodyAcquires` maps positions
  in the new queues to positions in the old ones), and all others
  (`QueuesUntouched`).
* `OutcomeBeforeDone`, `TasksAccounted`, `FreedOnce`: one invariant, `Safe`, on
  top of the two above. The three properties lean on each other. That nobody
  frees a task twice needs that nobody frees one under its worker
  (`LiveUntilRelease`), which needs that the watchdog finds nothing late before
  a deadline has passed, which needs that a task is given its id and deadline
  before it is linked (`Stamped`); that a woken submitter finds a response needs
  that a task in a queue is never done (`NotDoneYet`) and that a response once
  filled in stays (`FilledFirst`); that two submitters never wait on one
  structure is `CallersApart`, and what a watchdog callback in progress may
  still hold is `WatchdogPast`. For the unload, `Placed` adds to `NoTaskLost`
  that a task is in the queue its priority names, and that what is left in a
  queue behind the loop was linked there too late; `WaitersKept` that only the
  drain of its own queue frees a task under its waiter.
* `QueuesBounded`: `RoomForPassing` counts, beside the length of a queue, the
  submitters between the unlocked test and the link: `EnqueueLink` turns one
  into the other, and a submitter that passes the test finds the length below
  the capacity.

### Kernel tables (`KernelProofs`)

* `TrackSafe`: no id is recorded twice, because `TrackAdd` writes the slot that
  holds the id if there is one (`TrackAddSlots`).
* `TrackRefines`: the table implements `ResultMap`, step by step. The mapping
  reads a record through `CHOOSE`, which is unique by `TrackSafe`; that the
  map is full exactly when a record is overwritten is an argument about
  cardinalities (as many ids as used slots).
* `ModelSafe`: with `ToldGiven`, an id that a caller was told is not one still
  to be handed out.
* `ContextSafe`: with `EntriesAreStored`, a used entry with a value holds what
  the last store of its key put there.
* `PowerSafe`: inductive as it stands; the proof is arithmetic on the
  thresholds of the code against those of the documents.

### Daemon (`DaemonProofs`)

* `SessionSafe`, `HandledSafe`: with `TokensTracked`, which says where a token
  can be between its creation and the end of its connection, and that a
  lifetime is fixed at creation. The session of a message that has been
  checked stays in the map until it is handled because only its own connection
  destroys it, and that is busy with the message.
* `LimiterSafe`, `GrantsSafe`: `DebtPaid` (a denied client holds what was
  refilled since), `TrackedFit` and `UntrackedFit` (what was granted and what is
  still in the bucket fit into burst and refill; a client that was forgotten
  may start again with a full bucket, and the cleanup only forgets one whose
  bucket lacks at most a twentieth).

### Python SDK (`SdkConnectionProofs`, `SdkClientProofs`)

* `WaitersHeard`, `LeftoversKnown`, `ConnectionSafe`: three parts. The callers'
  part adds `AnsweredIsTaken`; the flags' part adds `DisconnectingIsClosed` and
  `OpenIsConnected` (a socket that is up belongs to a connected object, unless
  the reader ended on a value it did not expect), which is why nothing else
  lets `connect()` replace an open socket; the stream's part is `LinesFit`: buffer, wire and what the daemon has still to
  send form whole lines until a connection is opened with half a line in the
  buffer.
* `PoolSafe`, `LeaksKnown`: `IInv` of `SdkClientProofs`. `StageInv`, `FreshInv`:
  where a task is fits its call, and transports still to be made have nothing.
  `CreatorInv`: a transport is started by the task that made it, and no request
  reaches its lock before. `LockInv`: who is between acquire and release is the
  head of the lock's queue. From these two follows that no connection is
  connecting twice. `ShutInv`: a pool is shut by the holder of its lock.
  `AloneInv`, as long as lifecycle calls have not overlapped: there is one
  caller, it works on the client's transport, a shut pool stays closed
  (`ShutClosed`), and a transport that the client let go of, and that no later
  `connect()` replaced, is dead (`OthersDead`): no socket, no connect under way
  and no request that could open one. Most steps of a task leave the pools as
  they are; the lemma `MoveStep` covers them all.

### Vector database (`VectorDbProofs`)

`CollectionSafe`, `SearchExact` and the action property `LoadRestores` follow
from one invariant, `VectorIInv`, whose parts hold under weaker and weaker
conditions on the history:

* `Bounded` always: no more rows and ids than vectors were ever inserted, also
  after a load of files of two saves.
* `Sound` unless such a load happened: the index points from an id to a row
  with this id, no vector is in two rows, a vector that is gone is in no row
  that search returns, and as long as nothing was deleted the ids are below the
  number of rows. The last is what makes the next id, the count, a new one.
* `Exact` while in addition no id was given twice: an id belongs to one row, the
  rows not deleted hold exactly the live vectors, metadata is the row's own.
* `Saved` and `Reading` say the same of the files and of what a `load` has
  read of them: unless two saves are mixed, `mark` describes them (`Describes`).
  `Half`: a persist in progress has written `vectors.npy` from the rows still
  in memory, which the lock keeps as they are.

That a create replaced the collection (`replaced`) touches only the equality
with the live vectors; all other parts hold through it.

That search returns the nearest rows for every order of distances is about the
operators alone (no induction over data is needed: the selection is defined by
a rank, not by a loop).

### Plugin API and plugin manager (`PluginProofs`)

* `RegistrySafe`, `RegistryUnloadExact`, `RegistryGetEnds`: types, owners, that
  unloading a plugin takes exactly what it owns (an action property), and that
  `get()` ends. `RegistryGetEnds` rests on `AliasesEnd`, which says of the alias
  function what makes every chain finite and is inductive where `GetEnds` is
  not.
* `BusSafe`, `BusOneShots`: `BusIInv`. `BusLists`: a subscription is in the
  lists once, and not before it was made. `BusOrder`: what a delivery has called
  and what it has still to call are together one list by priority.
  `BusSteady`: who stayed subscribed is on the delivery's list until it is
  called. `BusOnce`: two deliveries have the same one-shot subscription only if
  they overlap or one failed. The sorted list is chosen, not computed, and
  `SortedListing` shows without induction that there is one: the place of a
  subscription is the number of those that come before it.
* `ManagerSafe`: `ManagerIInv`. A thread of the manager is a list of frames,
  what is left of its nested calls. `Stacks` says which frames may follow which,
  and that the load lock is held by exactly the thread with an `unlock` frame.
  `MadeRegistered`: a plugin whose object is being made is registered.
* `ManagerComplete`, `ManagerLeavesNothing`: `WholeIInv` adds `Whole`. For every
  plugin that no two threads worked on at the same time either nothing is half
  done (`Settled`: what is in `_plugins` is live and its service is
  registered, and nothing else is) or the frames of some thread are the reason
  (`Explains`); and a thread finds what it read still true when it goes on
  (`Relies`). Each operation is shown sound for the plugin it works on
  (the `...Sound` lemmas), and to leave the others alone (`OthersWait`,
  `NotInvolved`).
* `ManagerLoadsDependencies`, an action property: `PluginIInv` adds
  `DepsComing`. Each dependency of a plugin whose object is being made is in
  `_plugins`, disabled, about to be loaded by a thread, or ahead of it in the
  same frames. It uses that the load order is a linear extension of the
  dependencies.

### Desktop (`DesktopClientProofs`)

* `DesktopSafe`, `DesktopRetries`, `DesktopClientKnows`, `DesktopCalls`:
  three inductive invariants, each using the one
  before. `ControlInv` is the lock and how it couples with the flags: the
  transport is reconnecting exactly while the reconnect loop runs, a connected
  one has a socket and no attempts behind it, one that is opening is not
  connected. `ServiceInv` is who knows of a loss and who serves a live
  connection. `TablesInv` is which call may own which entry: entries and
  handlers belong to open calls, and the keys of open calls have been given
  out, so that a new call meets an old entry only through `cancel_inference()`.

### Model-checked only

Every safety invariant and action property of the runs is proved, but for one;
out of the prover's reach are:

* Liveness, which needs fairness: `SubmitReturns`, `HeatSlowsWorkers`,
  `WaitEnds`, `DisconnectEnds`.
* `GraphAgrees`: the graph algorithms are recursive operators, and that they
  compute the reference definitions for every graph is an induction over data.

## 5. Not modelled, and the plan

`PROJECT.json` gives the reason for each part left out. Several of the larger
ones have no behaviour to check until the code runs:

* Database. `database/src/__init__.py` imports a module that does not exist;
  BEGIN, COMMIT and CHECKPOINT records pack page number -1 into an unsigned
  field (`wal.py:82`); B-tree nodes are written without their parent, so a
  second leaf split replaces the root; undo does nothing.
* Network. `TCPConnection.connect` raises on a field its segment class does
  not have, and no transition leads to ESTABLISHED.
* Containers. The package imports `runtime`, `container` and `registry`, which
  do not exist.
* Training checkpoints. `save()` reads an attribute that is never set.

The tools under `userland/ai-tools` and the shell, most of the Python of the
repository, transform text in one thread; a model would restate them. In the
plugin system, hook chains, permissions, isolation in a process, installation
and loading with an explicit configuration are left out; in the vector
database the approximate indexes and the server; in the SDK the stream manager
and `Transport.reconnect`, which nothing calls.

The order of further work:

1. Daemon: model registry and LRU eviction in `runtime.rs`, composed with
   `DaemonSessions` through the messages that load and unload; the response
   cache.
2. Kernel: memory allocator, audit ring buffer, hotpatch apply and revert; the
   first-match evaluation of the AI policy against a reference definition.
3. Proofs: what is left needs induction over data (`GraphAgrees`) or fairness
   (the liveness properties).
