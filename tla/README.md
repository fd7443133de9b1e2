# Holonomy in TLA+

Holonomy is a Node-like JavaScript runtime for native hosts, and a Service that
manages runtimes on devices.  This directory holds TLA+ models of the parts
where its behaviour is decided by order, failure and concurrency, the TLC runs
that check them on small instances, and TLAPS proofs for every instance.

Paths below are relative to the repository.  `PROJECT.json` lists the
components, runs, mutants, the source lines behind every definition, the
hazards and the findings.

    tlc -workers 2 -config MCEventLoop.cfg MCEventLoop   # a run
    tlapm EventLoop_proofs.tla                           # the proofs of a component

## 1. The system

| Component | State | Operations | Talks to |
|---|---|---|---|
| Event loop `packages/runtime/src/event-loop` | ready queue, ticks, immediates, timers, native requests, an index of tasks, the wakeup it believes is armed | enqueue, set/clear timers, ref/unref, register/complete/cancel a native request, `runTurn`, `runNextTickCheckpoint`, `shutdown` | the host (clock, one wakeup, termination), guest callbacks, observers |
| Native bridge `packages/runtime/src/native-port` | pending calls, streams with credits, resources, quota counters, cleanups | `request`, `openStream`, `next`, `cancel`, provider events, revocation, deadline, `dispose` | event loop (tasks, timers), a platform provider |
| Native host router `native-port/router.ts` | calls and resources by port | dispatch, cancel, closeResource, dispose | bridge, several providers |
| Capability broker `packages/runtime/src/kernel/broker*.ts`, `interceptor-registry.ts`, `resource-registry.ts` | interceptor graph revisions with snapshots in use, published resources, frames, leases | invoke (sync, tracked), publish/drain a plugin graph, publish/release/subscribe a resource, close | middleware, providers, guest facades |
| Engine gates `kernel/engine-gate-*.ts` | handlers by graph revision, controllers in use | decide, publish/drain a graph, close | gate handlers of plugins, the engine |
| Runtime observers `kernel/runtime-observer-*.ts` | sequence, a queue and an overflow event per subscription | subscribe, publish, dispose | callbacks of the host |
| Policy algebra, contracts, schemas `kernel` | none | meet, satisfies, compile, validate | broker |
| Plugin app `app/plugin-app.ts` | plugin instances, the published graph | replace, close | broker, gates, plugins |
| Composer `packages/runtime/src/app` | apps, control channels | create, dispose | kernel, loader, plugin app |
| Module loader `packages/runtime/src/module-loader` | seven caches (sources, aliases, grants, modules, absent files, packages, resolutions), the evaluation cache | plan, load, resolve, begin/complete/fail an evaluation | a host that reads sources, the engine |
| Web streams `packages/runtime/src/streams/web-*.ts` | queues, waiting reads, the active write, pull and advance flags; the demand of a transform | enqueue, pull, read, cancel; write, close, abort; transform, flush, terminate | guest sources, sinks and transformers |
| Node streams, http server, fs, network, process, device, storage, crypto, git | library state | library calls | bridge or kernel |
| holouv `packages/holouv` | lease, connection, requests in flight, processes, admissions with expiry, timers | acquire, open, spawn, command, close | a supervisor process over a framed transport |
| Node adapter `adapters/node/src/runtime-host-controller.mjs` | the wakeup of the loop: its ticket, its queue and what is believed of it | requestWakeup, dispose, terminate | event loop, Node's queues |
| Android and desktop adapters | host side of the contracts | wakeups, providers | runtime |
| Service state store `tools/service/state-store.mjs` | `state.json`, journal, poisoned flag, subscribers | open, transact, readEvents, pruneEvents, subscribe | disk, every part of the Service |
| Service event stream `tools/service/router-read.mjs` | replaying flag, buffer | serveEvents | state store, HTTP clients |
| Service processes `tools/service/control-*.mjs`, `process-*.mjs` | process and operation records with generations, running operations by device, watchers | start, stop, restart, resume, remove, terminal events, reconcile at start | state store, target adapters |
| Mutation coordinator, logs, inspectors, devices, network rules | idempotency records, log segments, leases | admit, append, read, open, close | state store, adapters |

What is hard in it:

- one wakeup must be enough for four queues and a timer table, through
  re-entrant operations, a failing host and a clock that may go back;
- which of the phases serves next decides whether something starves;
- a native call can be ended by its provider, the guest, a deadline, the port
  or disposal, in any order, while quotas and opaque resources are shared and
  the provider may call back in the middle of a handler;
- the Service may die between any two file operations, a failed write may have
  reached the disk, and the journal is read while it is written and pruned;
- an HTTP client follows the events across reconnections;
- start, stop, restart and exit of one process race on several queues, and the
  Service dies and reconciles what it finds;
- a mutation is retried while nobody knows whether its work was done;
- middleware and gate handlers run their `next()` late, never or without
  awaiting it, while timeouts, cancellation, graph changes and shutdown go on;
- a load that fails deep in a cyclic module graph must take back what it
  entered in seven caches;
- instances of plugins are shared by graphs that are being replaced;
- a HoloUV environment opens over five awaits while its supervisor may break;
- a stream is aborted, failed or canceled while its sink or source is busy, and
  a transform must tell its other side;
- a wakeup that was handed to `process.nextTick` cannot be taken back.

## 2. Modules

| Module | Models | Role |
|---|---|---|
| `EventLoop` | `runtime-event-loop.ts` | one action per public operation and per step of a turn |
| `TaskLedger` | what a guest may rely on | abstract specification that `EventLoop` implements (`LedgerSpec`) |
| `MCEventLoop` | | three programs on one loop, and history variables for the poll/check order |
| `MCEventLoopFairness` | | unbounded ids and time in a finite model, liveness |
| `EventLoop_proofs` | | theorems |
| `NativeBridge` | `native-bridge.ts` | calls, streams, resources, cleanup, disposal |
| `NativeBridgeCalls_proofs` | | the inductive invariant, and what each method does to calls, queue and stack |
| `NativeBridge_proofs` | | provider tokens, quotas and disposal; theorems |
| `StateStore` | `state-store.mjs`, `state-files.mjs` | file operations with crashes and failing writes |
| `StateStore_proofs` | | theorems, and that the store implements `EventLog` |
| `EventLog` | what the store promises | abstract append-only log (`LogSpec`) |
| `EventStream` | `router-read.mjs` `serveEvents`, `readEvents` | a client, composed with `StateStore` |
| `ServiceProcess` | `control-*.mjs`, `process-*.mjs`, `native-target-adapter.mjs`, `reconcile-service-state.mjs` | the life of one process over the native adapter |
| `ServiceProcess_proofs` | | the inductive invariant of queue, job and children; theorems |
| `MCServiceProcess` | | scenarios: what clients ask for and what may go wrong |
| `MutationCoordinator` | `mutation-coordinator.mjs` | idempotent mutations across restarts |
| `CapabilityBroker` | `kernel/broker*.ts`, `interceptor-registry.ts`, `resource-registry.ts` | invocations with middleware, leases and resources |
| `EngineGate` | `kernel/engine-gate-*.ts` | decisions of gate handlers |
| `RuntimeObservers` | `kernel/runtime-observer-*.ts` | a subscription with its bounded queue |
| `ModuleLoader` | `module-loader/holonomy-module-loader.ts` | transactions over the caches of the loader |
| `PluginApp` | `app/plugin-app.ts` | replacement of plugin graphs under running calls |
| `Runtime_proofs` | | theorems about `RuntimeObservers`, `PluginApp`, `ModuleLoader` and `EngineGate` |
| `HolouvSupervisor` | `packages/holouv/src` | a HoloUV environment and its connection |
| `WebReadable` | `streams/web-readable.ts` | a source and a reader around a queue |
| `WebWritable` | `streams/web-writable.ts` | a queue in front of a sink |
| `TransformStream` | `streams/web-transform.ts` | both, joined by a transformer |
| `Streams_proofs` | | theorems about `WebReadable`, `WebWritable` and `TransformStream` |
| `WakeupPort` | `HostEventLoopPort` in `event-loop/types.ts` | abstract specification of the wakeup of a host |
| `NodeWakeup` | `adapters/node/src/runtime-host-controller.mjs` | the wakeup of the Node host, which implements it (`PortKept`) |
| `Host_proofs` | | theorems about `MutationCoordinator`, `HolouvSupervisor`, `NodeWakeup` and `CapabilityBroker` |
| `MCRuntime` | | calls of the bridge, gates, observers, loader and plugin app in one run, each by itself |
| `MCHost` | | processes, mutations, broker, HoloUV, streams and wakeups in one run, each by itself |

### EventLoop

JavaScript runs to completion, so an operation of the loop is one action; a
turn is several, because guest code runs inside it.  `phase` is the place in
`runActiveTurn`: no turn, in a task, draining ticks, in a tick, in a
checkpoint.  Guest operations are enabled between turns and wherever guest code
runs.  `work` groups what `clearPendingWork` resets.  The arrays are kept in
admission order by the code, so they are sets of records ordered by id; the two
counters of the code grow together and are one.  `armed` is what the host will
deliver, `scheduled` what the loop believes.  `Faults` chooses which of the
clock, the port, callbacks and checkpoints may fail; a failure terminates the
loop in the same action, with what `finalizeTermination` does.  Time is in
ticks, `TicksPerMs` to a millisecond, so that rounding delays up matters.

### NativeBridge

The private methods are operators on a record of all variables (`State`), and
an action is a whole handler (`Becomes`).  Two handlers call the provider in
the middle of their work and the provider may call back; they are frames on
`stack` and take a step per provider call.  The event loop is what the bridge
uses of it: a queue in admission order, which `EventLoop!ReadyTasksFifo`
justifies, and deadlines.  A loop failure while a handler enqueues is that
handler followed by `Terminate`.  `held` is the provider's own view of every
resource, against which the bridge's is compared.

Abstracted: contents of messages (an event is valid with its grants and
binaries, or invalid with the grants that can be extracted); a binary weighs
one handle of one byte; a provider token names one resource for ever (see the
hazard on `applyProviderResourceRevoke` in `PROJECT.json`); grant lists are no
longer than the cap, as longer ones are not read; events after settlement are
ignored by the code and are not generated; a rejected admission leaves no
trace.

### StateStore and EventStream

Every awaited file operation is a step.  `atomicWriteJson` renames a complete
file, so a failed write left the old or the new one.  The contents of a state
are the transactions that made it (`log`), and its size class decides which of
the two size limits it fits.  `unlinking` holds the deletions that
`Promise.all` started: when one fails, the operation rejects and the others go
on.  A crash is the end of the process; a power loss that undoes a rename
before the directory was synced is not modelled.  A mutation that throws leaves
no trace.

`EventStream` adds one client of the global stream.  A request subscribes,
checks the floor, lists the journal, reads it, replays, and goes live; store
steps interleave everywhere.  The client reconnects with the last cursor it was
sent, or starts over.

### ServiceProcess

A registry transaction is one step, and so is what a job of the device queue
does between two of them (`control-runner.mjs`): requests of clients, the end
of the child and of its output, removals and the death of the Service come in
between.  `proc` and `ops` are records of the state store, which survive;
`queue`, `aborted`, `record`, `watched` are memory of the Service and are lost;
`alive` and `identity` are the device's, children and their `child.json`.  A
child is its generation.  A child is spawned before its `child.json` is written
(`Spawn`, `WriteIdentity`), so a Service that dies in between leaves one that no
later Service can find.  `CloseBegins` ends the watchers of exits, and the device
queue and the output pumps go on until `CloseEnds`; what a pump still schedules
is a `late` job.  `stopProcess` reads the process before its first
await and uses what it read later: `stopSeen` holds such requests.  A `Scenario`
bounds what clients ask for, which faults occur and how often the Service dies.

Left out: fixtures, inspector leases, network rules, plugin updates, the
Android and Node adapters, tickets of the cleanup after a removal, and the
retention of ended operations.

### MutationCoordinator

The direct mutations run one at a time; every awaited write is a step that may
fail before or after it reached the disk, and the Service may restart anywhere.
A key stands for a scope, a key and an input.  A record that has expired counts
as absent wherever it is looked at, so its expiry is one action.

### CapabilityBroker and EngineGate

An invocation is a chain of frames, the middleware of its snapshot and then the
provider.  JavaScript between two awaits is one step: `Microtask` is a promise
reaction of the broker, `Timer` one of its timers, `Host` whatever a middleware,
a provider or a gate handler does next, which may be anything: call `next()`
again, late or not at all, return early, throw, answer with a value of its own
or with the one it was given, or never return.  `FrameIds` counts from the
outermost frame, and `timed` holds the frames of middleware with a timeout.  A
provider is entered at the checkpoint (`Checkpoint`), which looks at the abort
and the lease; its `preflight` is awaited, and the I/O starts behind it
(`StartIo`): of a provider that answers with a plan (`planned`) after
`consume()` has looked at the abort again, of one that does not, whatever
happened meanwhile.  It hands over a resource for a binding, which is registered,
shared, or closed.

### RuntimeObservers

A subscription with its queue, the overflow event with the events it counts,
and the callback.  The registry numbers events; overflow events take numbers
too.  The history variables hold what was accepted and what was told.

### ModuleLoader

Each asynchronous function of the loader that waits is a frame on `txn.stack`,
and an action runs the top frame to its next await.  A source is a version of a
file, since only the kind of a file and its dependencies matter.  `keys` and
`prior` of a transaction are its journal, from which a failure rolls back.  The
engine evaluates modules between transactions.  Aliases (the host answers with
another URL), grants that allow metadata only, and the three budgets are part of
the model.

Left out: source closures, dynamic imports, the choice among candidates and
export targets, the refusal of synchronous re-entrance, and the parser.

### PluginApp

`replace` goes through two awaits per new instance, the publication, and the
drain of the graph before it; `close` may come at any of them.  A call runs on
the graph that was published when it began.  The broker and gates appear as the
leases on a graph, which is what `LeaseRetains` and `GateFailsClosed` say of
them.  Replacements come one at a time.  The order of plugins, the bundles of
the Node host and its revision check are left out.

### HolouvSupervisor

The lease of `EnvironmentRuntime`, `open` with its awaits and two timers, and
the connection: requests of the host, processes that they spawn, requests of the
guest that the host answers asynchronously, admissions.  The transport may break
and the supervisor may send any frame at any moment.  The write of the shutdown
settles, is rejected, or throws at once: the last leaves `#close` before its
`catch` and before `fail()`, and the connection open (`threw`).  Stream sequences, the
attribution of Linux processes, the wrap-around of request ids and a second
acquire of an environment are left out.

### WebReadable, WebWritable and TransformStream

The operations of a stream are operators on one record, since `TransformStream`
applies them to the two streams it owns: `EXTENDS WebReadable, WebWritable`.
JavaScript between two awaits is one step; `SourceStarts`, `PullSettles`,
`SinkSettles` and the like are the promises of the guest's source and sink, and
`AdvanceResumes` the first await of `advanceQueue`.  Chunks and reads are
numbered, and `answer` holds what each promise was settled with.  A request of
a writable is a write, a close or an abort, and several may share a promise
(`aborts`, `errors`, `closes`).

In `TransformStream`, `step` is the place of the sink's write or close:
`capacity` is the await of `waitForCapacity`, `user` and `flush` are the
transformer, `done` and `failed` wait for the writable to hear.  The transformer
emits while it is called and may error or terminate the stream at any time,
before the writable exists too.  The `size()` of the readable strategy may throw
for a chunk (`EmitThrows`, `threw`), which errors the readable and leaves the
transform active; a `terminate()` of such a transform throws before it tells the
writable (`TerminateThrows`, `untold`).  One reader is held throughout.

### WakeupPort and NodeWakeup

`EventLoop` relies on its host for one thing: the wakeup it asked for last comes
when it is due, and no other does.  `WakeupPort` says so with the variable
`armed` of `EventLoop`; `NodeWakeup` is what the Node controller does with
`process.nextTick`, `setImmediate` and `setTimeout`, and maps to it: `wanted` is
what is armed, unless the host has terminated.  The turn of the guest is
registered.  A turn may come less than a millisecond early, because Node counts
whole ones; the loop asks again after every turn, so it is harmless.

### Behaviour of the code that the models keep

These are not runs, because no document or test says otherwise; the models do
what the code does, and a reader of the code should know of them.

- The replay of the event stream may read a journal record before its
  transaction is published; the live path sends it again
  (`router-read.mjs:27`).  Cursors never go back, and they may repeat.
- An invocation whose race is won when the broker closes publishes its
  resources into a registry that nobody closes again (`broker.ts:176`).
- When a provider grants two bindings and the second is taken, the first stays
  registered while the settlement closes it (`broker.ts:251`).
- A provider that is registered as sync and answers with a promise is refused,
  and what the promise brings is never closed.
- A process whose output is lost is marked `lost` without `cleanupPending`;
  `cleanupPending` is reconciled only after the Service was restarted, and a
  cleanup is keyed on the current generation of the process.
- An exec that the host allows after its process or its connection is gone is
  entered in tables that were cleared (`supervisor-environment.ts:558`).
- The dependencies of a cached module count neither in `maxModules` nor in the
  source budget of a plan that reaches them (`holonomy-module-loader.ts:1411`), and a host read that
  never settles blocks the loader (1577).
- Two concurrent updates of `NodeRuntimePluginHostV1` may both pass its revision
  check.
- `writer.ready` of a writable with a mark of 0 stays pending after it closed.
- A `terminate()` in the start of a transformer, after it enqueued, errors the
  readable and loses the chunks: the start is rejected with the termination.
- A flush that calls `controller.error` and returns lets `writer.close()`
  resolve while the reader sees the error (`web-transform.ts:160`).
- `writer.abort()` while a write of a transform waits for room is answered only
  when the reader reads: the sink's abort comes after its write.
- With a mark of 0, `pull` comes for a read and again after an enqueue that
  leaves another read, and each gives a credit; a later write runs the
  transformer without a read (`web-transform.ts:89`).  `TransformsOnDemand` says
  of the mark 0 that `n` reads bring at most `2n - 1` calls, and of other marks
  that a read waits or there is room.
- When the `size()` of a readable strategy throws, the readable is errored and
  the transform is not (`web-readable.ts:259`, `web-transform.ts:103`).  If the
  transformer catches it, later writes wait for room for ever.
- Behind the preflight of a provider that makes no plan nothing looks at the
  abort, the lease or the close again, so its I/O may start after all three
  (`broker-provider-invocation.ts:107`).
- A middleware without `timeoutMs` that never returns holds its call until
  somebody cancels it (`broker-execution.ts:130`).
- A `transport.write` that throws at once in the shutdown leaves the connection
  open; `#closeRecord` swallows what it threw (`supervisor-environment.ts:289`,
  `environment-runtime.ts:146`).
- A readable strategy without a mark gives the readable a mark of 1 and the
  demand of the transform a mark of 0 (`web-transform.ts:74` and 147).

## 3. Properties and runs

| Run | Checks | Bounds |
|---|---|---|
| `event_loop` | `TypeOK`, `IndexAgreement`, `WakeupCoversWork`, `TerminatesOnce`, `ReadyTasksFifo`, `LedgerSpec`, `PhasesKeepOrder` | 3 ids, budget 2, three programs: below |
| `event_loop_fairness` | `WorkServed`, `CheckPhaseServed` | 3 ids and 3 instants in use at once, unboundedly many over time |
| `native_bridge_stream` | `QuotaConserved`, `SettledInOrder`, `FirstTerminalWins`, `EveryCallSettles` | one stream with or without a deadline, 2 reads, 1 token, binaries |
| `event_stream` | `AckedSurvives`, `Reopens`, `EventsAreTrue`, `LogSpec` | 3 transactions, 2 clock readings further apart than the retention, states that fit no limit, replay of 2, slow client, pruning, failing writes, crashes |
| `runtime` | `CallsAccounted`; `GateFailsClosed`; `ObserverKeepsTrack`; `LoadsAreWhole`; `PluginsOutliveUse` | below |
| `host` | `ChildrenAccounted`, `EndIsFinal`, `StopEnds`; `WorkOnce`, `SuccessIsReplayed`; `ResourcesKept`, `IoIsFenced`, `ResultArrives`; `ConnectionEndsClean`, `EnvironmentsSettle`; `ReadableDelivers`; `WritableAgrees`, `StreamsAlone`, `StreamsGoOn`; `PeersAgree`, `TransformsOnDemand`; `QueuedIsReal`, `PortKept` | below |

A property with several parts is the conjunction of definitions that stand
before it in its module, each with a comment of its own:

| Property | Parts |
|---|---|
| `PhasesKeepOrder` | `PollReachesCheck`, `IntervalCadence` |
| `WorkServed` | `TurnsEnd`, `OrdinaryWorkServed` |
| `SettledInOrder` | `SettledIsQuiet`, `ReadersInOrder` |
| `CallsAccounted` | `NothingOrphaned`, `PendingIsAwaited` |
| `EventsAreTrue` | `SentIsDurable`, `OnlyCutsMiss` |
| `ChildrenAccounted` | `EndedIsDead`, `LiveIsOwned`, `LeftoverIsMarked` |
| `ResourcesKept` | `ResourcesAccounted`, `LeaseRetains` |
| `LoadsAreWhole` | `FailedLeavesNoTrace`, `CachesAgree` |
| `ReadableDelivers` | `ChunksInOrder`, `ReadsAreHeard`, of the readable behind a transformer |
| `WritableAgrees` | `SinkInOrder`, `AnswersAreTrue`, `BackpressureIsCounted`, of the writable in front of a transformer |
| `StreamsAlone` | `WritableAgrees` of a writable alone, `ReadableDelivers` of a readable alone |
| `StreamsGoOn` | `TransformMoves`, and `RequestsSettle` of a writable alone |
| `TransformMoves` | `WritesFollowReads`, `EndReachesWriter` |

Bounds are in the guards (`MaxId`, `MaxNow`, `MaxCalls`, `MaxTokens`,
`MaxReads`, `MaxTransactions`, `Times`, and those of `MCRuntime.cfg` and
`MCHost.cfg`); no run has a state constraint.

Deadlock is checked in `event_stream`, `runtime` and `host`.  The store never
stops, as it can always crash and be opened again.  Most components of the other
two have an action that says when they may rest (`Idle`, `Rest`, `GateRest`,
`ObserverRest`, `LoaderRest`, `PluginRest`, `HolouvRest`), so that a deadlock
would be a component that is stuck in the middle of something.  The calls of
the bridge, the streams and the wakeups may rest anywhere (`BridgeRests`,
`ComesToAnEnd`): for them the liveness properties say that nothing is stuck.
The runs of the loop and of one native stream say `CHECK_DEADLOCK FALSE`: a
disposed loop or bridge has nothing left to do, and bounds stop the others.

**`event_loop`** runs one of three programs.  "tasks" uses every kind of task,
native requests, ref and unref, in the first tick of the clock: 3 ids are enough
for a task, a tick it queues and a third that is canceled.  "failures" does the
same with the failures of clock, port, callbacks and checkpoints, with an
observer and without unreferenced tasks, which a failure ends like the others.
"phases" has 6 instants of half a millisecond and no failures: an I/O callback,
an immediate and a timer or macrotask, with delays 1 and 5 between a minimum of
1 ms and a maximum of 2 ms: rounding, clamping, late and skipped periods.

The components of `runtime` and of `host` share no state, so a behaviour of
these runs is one of a single component while the others stay where they began,
and the run is the sum of its instances.  In `runtime`:

- bridge: 2 calls of both modes over 2 interchangeable ids, 2 tokens, 3 handles,
  so that each quota can be exhausted by the other call.
- gates: 2 requests, 2 handlers, one controller in use, 2 graph revisions.
- observer: a queue of 2 events and 10 sequences, so that the queue overflows
  twice and drains in between.
- loader: 5 files in a cycle with two package scopes and a synthetic module, 3
  public calls, limits of 4 modules, 4 sources and 2 aliases, of which each can
  be exceeded; the host may answer with another file, another version, metadata
  only, nothing, or an error.
- plugins: 3 instances, 2 replacements, one call per graph.

In `host`:

- process: 3 operations beside the start, so that a stop, a restart and a third
  request cross; 2 generations; the Service dies once; four scenarios that
  divide the faults.  A stop together with a child that is not reaped is the
  finding `aborted_start_unreaped` and is in no passing scenario.  A
  second death of the Service is left out for the reason given in section 4
  (`DiesOnce`).
- mutations: 3 keys over a limit of 2 records, 2 restarts, 2 failing writes: a
  failure while a failure is recorded.
- broker: 2 invocations over one binding, chains of up to 2 middleware frames, 2
  graph revisions, a storage limit of one; seven pairs of calls (`MCHost`) that
  bring collisions, closes that race releases, sharing, the limit, and shutdown,
  with providers that make a plan or none and middleware with a timeout or none.
- holouv: 2 requests of the host, 2 of the guest, one process, one admission.
- readable: 4 chunks of size 0, 1 or 3 over a mark of 2, 4 reads: a queue that
  is full and over, and reads on both sides of the chunks.
- writable: 4 requests over a mark of 2, sizes 0 to 2: writes, a close and
  aborts, in any order.
- transform: 3 requests, 3 reads, 0 to 2 chunks for a write, marks of 1, and
  chunks of size 0 or 1: a queue that is full, or full of chunks that take no
  room.  `MaxChunks` of 2 bounds what start and flush emit, not the writes.
- rendezvous: a transform whose readable has a mark of 0, with 3 requests, 2
  reads and one chunk for every write; a write waits for a read.  With a mark of
  0 and other numbers of chunks `WritesFollowReads` fails (`filter_loses_demand`).
- wakeup: 5 requests, 3 deadlines of which one is in the middle of a
  millisecond, clock to 6: three callbacks in the tick queue at once.

With a backlog longer than one read, a slow client, or pruning between the
check of the floor and the listing of the journal, the code really misses
events, without telling the client.  `OnlyCutsMiss` says that these are the only
causes; `stream_skips_events` shows the first.

| Run that TLC refutes | What the code does |
|---|---|
| `interval_starves_check` | An interval keeps the sequence of its creation, so it counts as work "already admitted" before every later immediate.  The end of a turn moves its deadline past the time read there, however long the turn was; when wakeups come so late that the clock crosses that deadline before each next turn, the interval runs in every turn and the immediate never does, against the comment at `runtime-event-loop.ts:906`. |
| `capped_cleanup_leaks` | The cap on closes in a cleanup counts the closes that are done, so a resource in reserve is dropped unclosed when the cap was used up before (`native-bridge.ts:1028`). |
| `large_state_blocks_open` | A state that fits a journal record and not `state.json` is journalled, poisons the store, and makes every later `open()` fail (`state-store.mjs:118`). |
| `stream_skips_events` | The replay is one page of `readEvents`; the stream then goes live and skips the rest (`router-read.mjs:35`).  The break at line 50 has the same effect for a slow client. |
| `aborted_start_unreaped` | A stop aborts a start during the handshake with its child; when the child is not gone 2 s after its SIGKILL, the process ends as `cancelled` without `cleanupPending` while the child lives (`control-runner.mjs:62`). |
| `filter_loses_demand` | With a readable mark of 0, the default, a transformer that emits nothing for a chunk spends the demand of the read that waits; no other pull comes for it, and the next write waits beside the read (`web-transform.ts:126`). |

Every property of a passing run has a mutant: an operator next to the
definition it replaces, marked `Mutant`, that makes a plausible mistake.  TLC
finds the property violated with it.

### Fairness

- `EventLoop!Fairness`: a wakeup that is due is delivered, callbacks and
  checkpoints return, the clock advances.  These are obligations of
  `HostEventLoopPort` and of a program that does not block; nothing is assumed
  about the guest, which may stop or admit work for ever.
- `MCEventLoopFairness` renames ids and instants when a bound is reached.  Only
  the order of ids and differences of instants matter to the loop, so the
  renaming is invisible; weak fairness of it says that the bound does not stop
  a run.  `TicksKeepComing` is excepted because a turn with ticks runs only
  ticks, which is what the code intends.
- `NativeBridge!FairSpec`: the loop runs its tasks, handlers return, and a
  provider ends every call it was not told to cancel, as `types.ts` requires of
  a `NativePort`.
- `ServiceProcess!Fairness`: the Service runs the jobs of its device queue,
  removals and the stops it has begun to admit, ends its close, is opened again
  when it died, and its device watcher polls, which drives the reconciler.  The
  child need not exit and no client need ask.
- `CapabilityBroker!BrokerFairness`: promise reactions of the broker and its
  timers run: those of the provider, and of middleware that have a timeout.
  Middleware, providers and cancellation are the host's and may never come, so
  `ResultArrives` excepts a call that nobody aborts and that waits only for
  middleware without a timeout (`WaitsForMiddleware`).
- `HolouvSupervisor!HolouvFairness`: the callbacks of the factory settle, both
  timers fire, a lease that is released closes its environment, and the write of
  the shutdown settles or throws.  The supervisor may stay silent.
  `EnvironmentsSettle` excepts an environment whose shutdown threw.
- `WebWritable!WritableFairness` and `TransformSpec`: promise reactions run, and
  the promises of sinks and transformers settle.  Readers and writers may stop;
  `WritesFollowReads` and `EndReachesWriter` hold without them, the second but
  for a `terminate()` that threw.
- `NodeWakeup!WakeupSpec`: Node runs each of its queues, and time passes.
- `MCHost` asks for each of the fairness conditions only in the behaviours of
  the component, which is the same: elsewhere the actions cannot happen.
- Several liveness properties have the form "again and again nothing waits"
  (`RequestsSettle`, `EnvironmentsSettle`, `ResultArrives`, `WritesFollowReads`,
  `EndReachesWriter`).  The requests of an instance are bounded, so this says that
  each of them is answered.

## 4. Proofs

Every theorem holds for all values of the constants that the named assumptions
of its module allow.

| Module | Theorem | Statement |
|---|---|---|
| `EventLoop_proofs` | `TypeCorrectness` | `Spec => []TypeOK` |
| | `IndexCorrectness` | `Spec => []IndexAgreement` |
| | `NoLostWakeup` | `Spec => []WakeupCoversWork` |
| | `TerminationOnce` | `Spec => []TerminatesOnce` |
| | `ReadyTasksInOrder` | `Spec => ReadyTasksFifo` |
| | `IntervalsKeepCadence` | `Spec => IntervalCadence` |
| | `LoopIsLedger` | `Spec => LedgerSpec`: every step is one of `TaskLedger` or a stutter |
| `NativeBridge_proofs` | `Invariance` | `Spec => []IInv` |
| | `FirstTerminal` | `Spec => FirstTerminalWins` |
| | `SettledOrderly` | `Spec => []SettledInOrder` |
| | `AllAccounted` | `Spec => []CallsAccounted` |
| | `QuotasConserved` | `Spec => []QuotaConserved` |
| `StateStore_proofs` | `AckedTransactionsSurvive` | `Spec => []AckedSurvives` |
| | `StoreReopens` | `"large" \notin Sizes => (Spec => []Reopens)` |
| | `StoreIsLog` | `Spec => LogSpec` |
| | `StreamOnlyReads` | `StreamSpec => Spec` |
| | `ClientIsToldTheTruth` | `StreamSpec => []EventsAreTrue` |
| `Host_proofs` | `WorkAtMostOnce` | `MutationSpec => []WorkOnce` |
| | `SuccessStays` | `MutationSpec => SuccessIsReplayed` |
| | `EndsClean` | `HolouvSpec => []ConnectionEndsClean` |
| | `BeliefHolds` | `WakeupSpec => []QueuedIsReal` |
| | `HostIsPort` | `WakeupSpec => PortSteps`: every step is one of `WakeupPort` or a stutter |
| | `IoFenced` | `BrokerSpec => IoIsFenced` |
| | `LeasesRetain` | `BrokerSpec => []LeaseRetains` |
| | `ResourcesNeverLeak` | `SingleGrants => (BrokerSpec => []ResourcesKept)` |
| `Streams_proofs` | `ReadableDelivery` | `ReadableSpec => []ReadableDelivers` |
| | `TransformDelivery` | `TransformSpec => []ReadableDelivers` |
| | `WritableAgreement` | `WritableSpec => []WritableAgrees` |
| | `TransformWritableAgreement` | `TransformSpec => []WritableAgrees` |
| | `TransformAgreement` | `TransformSpec => []PeersAgree` |
| `ServiceProcess_proofs` | `ProcessIsTyped` | `Spec => []ServiceTypes` |
| | `EndIsKept` | `Spec => EndIsFinal` |
| | `EndedProcessIsDead` | `FaultsApart => (Spec => []EndedIsDead)` |
| | `ChildrenAreAccounted` | `FaultsApart /\ DiesOnce => (Spec => []ChildrenAccounted)` |
| `Runtime_proofs` | `GatesFailClosed` | `GateSpec => []GateFailsClosed` |
| | `ObserversKeepTrack` | `ObserverSpec => []ObserverKeepsTrack` |
| | `PluginsLiveLongEnough` | `PluginSpec => []PluginsOutliveUse` |
| | `LoaderInvariance` | `LoaderSpec => []LoaderInv` |
| | `LoadsWhole` | `LoaderSpec => []LoadsAreWhole` |

Each follows from an inductive invariant of its module (`Invariance`,
`OrderInvariance`, `StoreInvariant`, `HistoryInvariant`, `GateInvariant`,
`HolouvInvariant`, `WakeupInvariant`, `LoaderInvariance`, and the step lemmas of
`StreamInv`, `ObserverInv`, `PluginInv`, `ReadableInv`, `WritableInv`, `StreamsInv`,
`BrokerInv`, `ServiceTypes`, `ProcessInv` and `StrayInv`).

**EventLoop** (positive callback budget and tick length, a minimum interval not
above the maximum delay, natural delays).  `Inv` joins the types, the index,
`running < nextId`, `TerminatesOnce` and `WakeupInv`.
`WakeupCoversWork` speaks of the states between turns and is not inductive.
During a turn the belief was consumed, and whatever the loop arms in the middle
of the turn must still be true when the turn ends; `WakeupInv` therefore also
says what belief and host agree on inside a turn.  `running < nextId` is
needed so that a new task does not take the id of the running callback.

The argument has three layers.  First, selection: the oldest, newest and
earliest task of a non-empty set exist (`SmallestExists`, a well-founded
descent on naturals), so a `CHOOSE` in the model has the value the code
computes.  Then the effect of the three shapes every operation has: it admits
(`AdmitInv`), changes or withdraws (`ReconcileInv`), or terminates
(`FinalizeInv`), all through `RequestWakeupInv`, the one place where a wakeup is
armed.  Last, one lemma per action, which shows that its queues are one of
these shapes (`AddedIndexed` and its companions), and the induction.

Order needs two more facts (`Inv2`): a callback runs only inside a turn
(`RunningInTurn`), and the ready tasks are in the order of their ids also by
the clock they were admitted at (`ReadyOrder`), since `readNow` does not let the
clock go back.  `ReadyTasksFifo` is then a matter of which task an action begins.
`IntervalCadence` is arithmetic on natural numbers with rest: the next deadline
of an interval is the first multiple of its period after now.  `IntervalCadence`
is a conjunct of `PhasesKeepOrder`, which TLC checks; the rest of that property
speaks of history variables and is model-checked only.  The refinement maps the
ledger to the live ids (`Waits`, `Repeats`) and shows for each shape of an
operation which ledger step it is: an admission, a withdrawal, the run of one
task, a termination, or a stutter when a deadline is moved or a flag is set.

**NativeBridge** (`LimitAssumption`: natural bounds, positive quotas, the credit
limit of a stream not above the total).  A handler of the bridge is an operator
from states to states, and handlers call each other, so the invariant `IInv` is
written over a state as a record, and every method has a lemma that says what it
does to each field (`XEffect`) and what it preserves (`Safe`).  The invariant has
four layers:

- `ControlOk`: calls, the tasks queued in the loop, and the stack of providers
  that are running.  A task in the queue says which state its call is in, a
  terminal is locked before it is queued and queued once, and a call in the
  middle of a provider's method is known to the stack.  `FirstTerminal` needs
  only this layer.
- `TokensOk`: a token that a call holds is registered for that call or on its
  list of resources to close, unless that list is full (the hard cap of the
  code); a reserved one is granted by exactly one output that is queued.  The
  invariant is parameterised by the tokens a handler has in its hands, since a
  handler moves them between these places in several steps; between the actions
  there are none.  `AllAccounted` follows from it and from `ControlOk`.
- `QuotaOk`: each counter of `getSnapshot` is the size of a set of calls, of
  chunks, or of `next()` calls that wait.  A method changes one call, so each
  set gains or loses elements of that call only; the limits hold because only a
  reservation adds, and it looks first.
- `DisposedOk`: what is left when the bridge is disposed of.

None of the four is inductive without the types and `Numbered`, which keeps
the tokens of calls that do not exist yet out of the queue and the registries.
`SettledInOrder` is a consequence of `ControlOk`: a settled call has no task but
revocations because every other task names the state its call is in.

**StateStore.**  `AckedSurvives` compares what a caller was told with what a
restart would recover, and says nothing of how the two kinds of files relate.
`Disk` does: the journal is at most one transaction ahead of `state.json`, and
that record extends it; `Retained` keeps every event above the floor of what is
recovered.  `Running` relates memory to the disk: they hold the same log, or the
memory is one transaction behind a snapshot whose write was reported as failed
and was not, in which case the store is poisoned; that the poisoned store
refuses to go on is what keeps the two from parting.  `Operation` says what a
half-done operation has written.  `Reopens` needs the condition that no state
is too large for `state.json` and small enough for the journal: the run
`large_state_blocks_open` shows that it fails without, and the run
`event_stream` checks `Reopens` with the same condition.  `StoreIsLog` maps
every file operation to a step of `EventLog` or a stutter: the write of the
journal record is the moment of the append, a pruning and a recovery are
stutters.  The theorems are about `StateStore`; `event_stream` checks the same
formulas together with a client, which changes none of the store's variables.

**MutationCoordinator.**  `HistoryInv` relates memory, disk and the task under way: work
that began is recorded on the disk (`Remembered`), a success that was answered
is on the disk and in memory (`Durable`), and each step of a task knows the
record of its key (`Underway`).  `WorkOnce` alone is not inductive, because
whether work may begin is decided by the record and not by the history.

**EngineGate** (finitely many requests, so that leases count them).  The promise
is about all frames of a gate, while a step looks at one and the next.
`Chained` says what adjacent frames know of each other: a frame was started by
the `next()` of the one before it, a denial anywhere is remembered, and a frame
allows only after the one it started.  When the first frame allows, the first
frame that did not would have to follow one that did (`FirstAllowsAll`).  `Over`
says that a decided gate starts no more frames, and `Leases` counts the gates in
use of every graph.

**NodeWakeup** (natural deadlines and bounds, positive tick length).
`QueuedIsReal` and the refinement both need to know what a callback with the
current ticket stands for: `WakeupInv` says that at most one such callback is in
the three queues, that it is in the lane of the phase that was asked for, that a
timer with it is not set before the deadline (`DelayIsEnough`, which needs
division with rest), and that tickets only grow, so an old callback never passes
for a new one.  That a wakeup that is due is delivered is liveness and only
model-checked (`PortKept`).

**EventStream.**  A stream only reads, so its behaviours are behaviours of the
store (`StreamOnlyReads`) and the invariant of the store holds beside it.
`EventsAreTrue` speaks of what was sent: it is on the disk, its cursors never
decrease, and what is missing was cut from a replay, by the end of its page, a
slow client or a pruning.  The server tells nobody of the cut, which is a history
variable of the model, and an event may be sent twice.  `StreamInv` says what a replay has
still in hand.  While the listing of the journal and the buffer wait to be sent
(`Covered`), every event that the client has not is in one of the two, and an
event that the listing leaves out is newer than all those it has: files of the
journal are numbered by their events and the listing happens at one moment, so
what was committed after it reached the buffer, whose subscription came first.
Without the second half an event that only the buffer has could be older than
the last one of the replay, behind which the buffer is taken up.  `SentInv` needs
that the disk never takes back an event (`StoreGrows`) and that an event is
published only once it is committed.

**ServiceProcess** (`ServiceAssumption`: positive bounds, and scenarios made of
the actions and faults of the model).  The properties speak of what the
registry publishes and of children; what makes them true is in the device queue,
so three layers come one after the other.

- `ServiceTypes` also says what a job of each kind may be: the steps it can be
  at, the operation and the generation it carries, and which end a watcher
  brings.  `EndIsKept` is proved with it, step by step (`EndKept`): every
  transaction that could rewrite an end looks at the generation and the
  transition first.
- `ProcessInv` adds what is known of the queue (`QueueOk`: a waiting job has not
  begun, an operation is about the current generation, and the end of a child is
  reported once the child is gone), of the job
  at its head (`HeadOk`, one case for each step of a start, a stop and a resume:
  whether the child it works on is launched, owned, stopped or marked), and of
  the child of the current generation (`ChildInv`): alive and not marked, it
  belongs to a process that has not ended, and the adapter owns it or the job at
  the head is about to mark it.  One lemma per action shows what it does to
  each of the three.  `EndedIsDead` and `LiveIsOwned` are parts of it.
- `StrayInv` adds the children of older generations.  They are marked, and the
  mark is taken back only by a reconciliation of the current generation; that
  one finds its child gone only when no older one is left, because before the
  first death the adapter owns every child that lives, so a death leaves at
  most one.

The conditions are those under which the code keeps the promise.  `FaultsApart`
excludes a child that cannot be reaped together with a stop or a death of the
Service (`aborted_start_unreaped`), and a lost output together with a stop that
is not confirmed: `lost()` (`process-lifecycle-watcher.mjs:61`) drops the error
of that stop and publishes the end without a mark.  Each of these faults alone,
with everything else that may happen, is covered.  `DiesOnce` is
needed for `LeftoverIsMarked` alone, and `EndedProcessIsDead` does without it:
`cleanupPending` is one flag of a process, and `ProcessReconciler.open()`
(`process-reconciler.mjs:17`) asks for its current generation only.  The Service
dies and leaves the child of generation 1; a restart of the lost process, which
finds no record to stop, spawns generation 2; that child exits, the Service dies
again, and `open()` takes the mark back (`registry-process-reconciler.mjs:8`)
while the first child may still run.  With `downs = 2` TLC finds this behaviour
in the model, without any other fault.  The scenarios of the run `host` satisfy
both conditions.

**RuntimeObservers.**  `ObserverInv` says that the numbers in the queue ascend,
that every event accepted is in the queue, told, or counted by the overflow
event, that the three are disjoint, and that the queue keeps its bound.  The number of
an overflow event is never one of an accepted event: while an overflow event is
told the queue may be full, and while an accepted one is told it may not.

**PluginApp** (`PluginAssumption`: a definition is an identifier and a key, and
none is called "none", the value by which the model writes that a name is not
installed).  `PluginInv` partitions the living instances (`Owned`): each is in
the published graph, staged for the next one, retired from the last one, or the
one whose fiber is under way.  Calls run on the published graph or on the one
that drains, whose instances are published or retired (`Leased`).  The property
follows because an instance is disposed of only from a part of the partition
that no graph with running calls names.

**ModuleLoader** (`LoaderAssumption`: manifests and scoped files are files, a
synthetic module is none of them, every version 1 has finitely many
dependencies, and a source that the host answers with has the URL of a file,
which `canonicalizeHostSourceUrl` refuses otherwise).  `LoadsAreWhole` speaks of
the states between transactions.  `LoaderInv` says what is true at every await:

- The caches relate to each other at all times (`CachesRelate`): an alias stands
  for a cached source and for no alias, a module is granted and has the version
  of its source, and whatever it is linked to is cached.  Only `Linked`, that
  *all* its dependencies are linked, is suspended: a module that is not is being
  worked on by a frame of the stack (`Linking`).
- What the transaction entered can be taken back (`Undoable`): each cache, less
  the keys that the transaction noted, is what it was when the transaction
  began, and a source whose grant was replaced is the one in `prior`.  One lemma
  per `publish*` shows that it keeps this (`AddedUndone` is what they share), and
  `RollbackRestores` that the rollback then gives the caches of the beginning.
  Links are appended to cached modules in place and not noted at all: taking
  them back is right only because a frame appends to modules of its own
  transaction (`FrameOk`).
- The stack is a stack of functions that wait for each other (`StackOk`): a frame
  is above one that waits for a result of its kind, so what it returns is what
  that one expects (`ValueOk`); two frames never work on one module, and no
  module is loaded while another waits for its format, so a module that was not
  cached when `loadModule` looked is still not cached when it is published.

Every step of a transaction has one of two outcomes: it goes on, with all of
this kept, or it throws, and the caches are those of the beginning.  One lemma
per function of the loader shows it for all its awaits, and three shapes of
stack changes carry the invariant (`ReturnsKeeps`, `ChangesKeeps`,
`AwaitsKeeps`).

**HolouvSupervisor** (`HolouvAssumption`: at least one request and one
admission, finitely many processes, configurations that succeed or fail).  `ConnectionEndsClean` speaks of a
connection that has failed; `ConnectionInv` says what makes a failure able to
clean up.  A process that runs came from exactly one spawn request that
succeeded, whose sink has not been told an end, and no two came from the same
(`ProcessesOwned`); conversely a spawn that succeeded has its process, or its
sink was told (`SpawnsAccounted`), so failing the requests that wait and ending
the processes that run reaches everybody.  `FailedIsEmpty` says that nothing is
added afterwards to requests and processes: what waited for them looks at
`closed` first.  An exec or network request that the host allows late is not
among them; it is entered in cleared tables, which the property does not speak
of.  The
request that a new call uses is the least one that is free (`LeastRequest`).

**CapabilityBroker** (`BrokerAssumption`: finitely many invocations, natural
bounds, grants that are sequences of bindings).  `IoIsFenced` looks at two steps
of the provider's frame, its entry and the start of its I/O; what makes it true is
how the frames came to be there.
`Chained` says that a frame beyond the first exists only because the frame
before it called `next()`, which remembers it (`called`), so the provider's frame
is queued once, entered once, and awaits one preflight; `Phase` says that a frame that may still act belongs to an
invocation without a result, or to an aborted one.  `LeasesCounted` makes the
two counters sizes of sets of invocations: `inflight` of those that hold a
snapshot of a graph, `storagePending` of those that hold a slot; a step of a
frame changes neither set (`OwnKept`), a call that begins joins them
(`LeaseTaken`) and its cleanup leaves them (`LeaseReleased`).  For `ResourcesKept`
every pair of an invocation and a binding has an `Account`: from its publication or
settlement on, a granted binding is registered once or closed once.  The steps of
others move it from the first to the second at most (`Flows`).  The condition
`SingleGrants`, that a provider hands over at most one resource at a time, is
needed: when the second of two bindings is taken, the first stays registered
while the settlement closes it (section 3).  The run has the same condition.

**WebReadable and TransformStream** (natural marks, sizes and bounds).  The
lemmas are about the operators on one record, not about actions, so that they
serve the readable alone and the one behind a transformer.  There is a number
`T`, the reads that were served (`Delivering`): answers up to `T` are the chunks
1 to `T`, the queue goes on with `T + 1`, and so do the reads that wait; one of
the two is empty, and a stream that is asked to close has something queued.
`ChunksInOrder` is what follows from it for answers and queue without `T`.
`Heard` is the half of `ReadsAreHeard` that is about the source: a read for
which no pull was made since is remembered by `pullAgain`.

While the transform is active its readable takes chunks, unless a `size()` that
threw has failed it (`OpenFor`).  `PeersAgree` needs that nobody closes the writable while the transform is active:
a writable closes only when its sink's close succeeds, which is the end of the
flush, and that ends the transform before.  `Sides` says so: while the
transform is active the active request of the writable is a close only during
the flush, and no step or start of it has failed.  What a writable does is put
into two classes: it goes on without its sink hearing of it (`Unheard`: requests,
errors, aborts that wait), or advanceQueue goes on and calls it at most once
(`AdvancedFrom`), and `MovesInv` follows the second into the transform.  Nothing
else of the writable matters to the two sides.

**WebWritable** (natural marks, sizes and bounds).  `WritableAgrees` compares what
promises and `ready` say with what the sink was called for and what queue and
sink hold.  `WritableInv` says why they agree.  Each request is in one place
(`Told`, `Owed`): it waits in the queue, behind all the sink was called for; the
sink has it; it waits for an end, as an abort does; or it was answered.  So the
end of a stream, which answers those of the queue and those that wait for an end
at different moments, leaves out nobody.  `Works` relates `active`, `advancing`,
the abort and the sink: who may call it, that the last call is the one it works
on, and that the total is what the queue adds up to and the size of the active
request; a rejected queue leaves the second.  `Gauged` says that `ready` and the
backpressure flag follow the total, which they do only while the stream is
writable.

An operation is a chain of operators (an answer, an error, the end of
advanceQueue), and between two of them the invariant does not hold: the sink has
returned and nothing is active, though advanceQueue still runs.  `Freed` says
what holds there, and `GoesOn` what must hold where advanceQueue looks at the
queue again: `SinkDone` gets from the invariant to the first, `EndsInv` and
`LoopInv` from the second back to it.  `AskedInv` and `AbortForInv` do the same
for a request that is asked and has no place yet (`Asking`).  A transformer does
to its writable what a sink and a writer may do, and aborts it for nobody
(`UnaskedAbortInv`); that it returns from the sink only when it was called is
`PeersAgree`.

What a queue adds up to is a recursive function on it.  That `Append` adds a
size and `Tail` takes one away (`AppendSize`, `HeadSize`) is proved without
induction over an operator: two such functions that differed would differ at a
least place (`LeastNumber`, from the well-foundedness of the natural numbers),
and there they are equal by definition.

Only model-checked, with the reason:

- liveness (`EveryCallSettles`, `PortKept`, `ResultArrives` and the others of
  section 3) and `ENABLED`, which this prover does not reach;
- properties over the history variables of the MC modules.

## 5. Not modelled

Payload validation beyond its verdict, error texts, schema tables, crypto
algorithms, parsers, command line and packaging; library code without a
protocol of its own (file system tree, node compatibility, console, test
runner); the Kotlin, Rust and C hosts, which are the environment of the models.
What a modelled component leaves out is said in section 2 and, for every
component, in `PROJECT.json`.  The other components of section 1 without a module
are in the plan.

## 6. Plan

1. `NativeHostRouter` between `NativeBridge` and ports: the router implements
   the port that the bridge assumes.
2. Node streams (`node-readable.ts`, `node-writable.ts`) as clients of the same
   properties as the web streams, and the two composed in a pipeline.
3. The rest of the Service: inspector leases, network rules and the log pump,
   which follow the generations of `ServiceProcess`; the retention of ended
   operations.
4. The disposal order of the runtime composer over the registries that are
   modelled, and resource subscriptions.
5. Dynamic imports and source closures of the module loader.
6. Capability meet and satisfaction, and network rule matching, as operators
   against reference definitions.
7. Proofs: the parts of `PhasesKeepOrder` that speak of history variables, by an
   invariant of `MCEventLoop`.
