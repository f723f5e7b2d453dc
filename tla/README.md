# A TLA+ model of Node Application Metrics (appmetrics)

appmetrics collects data inside a Node.js process.  A native *core* with threads
of its own (omr-agentcore, not in this repository) runs *plugins*; an addon
carries what the core produces to JavaScript; JavaScript *probes* instrument the
modules an application loads; an *API object* raises what arrives as events.
Much of it is about who runs when: core threads against the event loop, libuv
handles that coalesce, a forked child against a signal handler, callbacks of
many requests against each other, switches that several probes share.

All paths below are relative to the repository (`src/` in the mappings of
`PROJECT.json`); lines are those of the commit modelled.

## 1. Inventory

| Component | State | Operations | What is hard | What makes it correct |
|---|---|---|---|---|
| Message queue, `src/appmetrics.cpp:55-75, 376-473, 544-563` | linked list, mutex, async handle, listener | `sendData` (core threads), `emitMessage` (loop), `localConnect` | interleaving, coalesced wakeups, memory | order, no loss, no wakeup lost, no use after free, no leak |
| CPU profiling plugin, `src/plugins/node/prof/nodeprofplugin.cpp` | `enabled`, `jsonEnabled`, threshold, timer, four async handles | control messages, four callbacks, the timer, start and stop | messages from two threads; libuv's order of handles; two modes | profiler, timer and `enabled` agree; on and off are obeyed |
| Watchdog, `prof/watchdog.h` | the profiler's thread id, a POSIX timer | start and stop of the profiler with a threshold | signals between threads | a threshold that is set is the one waited for |
| Heap snapshots, `heapdump.js`, `src/heapdump/*` | one callback, one file name, one child, a SIGCHLD watcher | `writeSnapshot`, SIGUSR2, SIGCHLD | fork, signals, calls while busy | one dump at a time, each callback once and after its file is finished, never stuck |
| Request tracking, `lib/request.js` | `nextRequestId`, `nextEventId`, the current request of each domain | start and stop of requests | callbacks in any order and domain | trees stay apart, a report is complete and unique, ids are unique |
| Switches, `index.js`, `lib/probe.js` | per probe two pairs of functions, two flags that all probes share | `start`, `stop`, `monitor`, `enable`, `disable`, `setConfig` | long sequences of legal calls | what was asked for last is what is collected |
| Calls through a probe, `lib/aspect.js`, `probes/*` | the data of one call or listener, its timer and request | start hooks, end hooks at return, callback or response | callbacks before the return, in any order, never, again; one timer for two reports; switches during a call | each event is about its own call, a call that is over has no active request, only a callback can stop a request in a foreign domain |
| Loading, `index.js:144-166`, `attach` of each probe | the patched `require`, a flag per module | `require` of a module | the same module required again | each method is wrapped once while its mark lives, `require` returns the module |
| Event-loop latency, `index.js:100-139, 198-203, 230-235` | counters, two intervals | check, report, enable, disable | a check in flight at a disable, timers that keep the process alive | a report covers the samples since the last one, no interval is lost, an idle process ends |
| Event API, `appmetrics-api.js` | environment, `initialized` | one handler per topic | order and repetition of messages, listeners that throw | `initialized` once, when both parts are known |
| Headless zip, `headless_zip.js`, `src/headlessutils.cpp` | one directory name, an async handle, file names | request, zip, exit handler | coalesced requests, stop and exit with a run under way | every directory is zipped, the newest `filesToKeep` files stay |
| Loop plugin, `src/plugins/node/loop` | tick times, minimum, maximum, sum | prepare, check, report, start, stop | restarts | a tick is one turn of the loop |
| Agent lifecycle, `src/appmetrics.cpp:346-369, 475-532` | `running`, the monitoring API | start, stop, emit, control commands | calls in any order | nothing is pushed to an agent that is not there |
| GC, heap, memory and environment plugins | timers, hooks | push of measurements | restarts | hooks and timers follow the agent |
| Serializer, object histogram | none | text and counts | little: the first is not reached, the second one walk over a snapshot | formats |

How they interact: `index.js` calls the addon (`start`, `stop`,
`sendControlCommand`, `localConnect`, `nativeEmit`); the core calls plugins and
`sendData` on its threads; `emitMessage` calls the listener that
`appmetrics-api.js` passed to `localConnect`; probes call `lib/request.js` and
`emit`, which raises the event on the API object; `process.domain` is the shared
state between request tracking and node.

`PROJECT.json` lists under `hazards` what is hard to test in all of these, each
at its line, with the properties that cover it.

## 2. Plan

Written, in this order, the behaviour that all others rest on first:

1. `EventStream` (abstract), `MessageQueue`, `MessageQueueMC`, `MessageQueueProofs`
2. `NodeProf`, `NodeProfMC`, `NodeProfProofs`
3. `HeapDump`, `HeapDumpMC`
4. `Requests`, `RequestsMC`, `RequestsProofs`
5. `Appmetrics`, `AppmetricsMC`
6. `ProbeCalls`, `ProbeCallsMC`, which composes the probes with `Requests`
7. `Loader`, `LoaderMC`, and `InstrumentationProofs`, about it and `Appmetrics`
8. `EventLoop`, `EventLoopMC`, `EventLoopProofs`: event-loop latency and the plugins that
   watch the loop, in one model of the loop's phases
9. `EventApi`, `EventApiMC`, `EventApiProofs`, which takes the messages from `EventStream`
10. `HeadlessZip`, `HeadlessZipMC`
11. `HeapDumpProofs`, `HeadlessZipProofs`, and `RequestsProofs` extended to `ProbeCalls`

Each module has one run that passes and asks several things of it; each of the two modules
with a difference from the documentation that a run shows has one that fails.

Left for later, in order of value:

* `Watchdog`: the suspend and resume signals between the loop's thread and the profiler's,
  with the patched `syscall()` (`watchdog.h:114-229`), below what `NodeProf` says of them;
* a theorem about json mode in `NodeProf`: what remains true of the profiler's timer after the
  modes were switched while profiling;
* the Windows variant of heap snapshots, and filters and `setConfig` of single probes.

## 3. What is modelled

Every module's comments say what it abstracts.  Names are the source's names
wherever possible; variables marked *history* are not in the code and record what
properties speak of.  Definitions commented "A mistake for P to catch" are not
used by any specification: each is a mapped definition with a plausible bug, and
`PROJECT.json` ("mutants") says which property fails when it takes that
definition's place.

### EventStream and MessageQueue

`EventStream` is the promise to the listener: the messages accepted form one
stream, delivered in order, each once, none skipped, until the process ends.

`MessageQueue` has one action per step of `sendData` and `emitMessage` that
another thread can observe: taking and releasing the mutex, each step of the walk
along the list, the link, `uv_async_send`, detaching the list, each call of the
listener, each `freePayload`.  `link` holds the `next` field of every payload and
the variable `messageList`, so that `tail` points to a cell as `MessageData**`
does.  A payload is never reused, so that a use after free shows.  `LoopEnds` is
the end of the process, which is possible with messages pending because the handle
is unref'd; `ListenerThrows` is the end by an exception nobody handles.  `localConnect`
is called between turns; a second one replaces the listener and is the same step.

Its refinement mapping: `sent` is the order in which payloads were linked,
`received` what the listener was called with, `open` that the loop has not ended.

### NodeProf

State is that of the plugin, plus libuv's: which async handles are pending, and how
far the pass over the handles has come (`turn`).  A control message may come on the
loop's thread between turns, or on a core thread at any moment, also in the middle of
a pass (`RemoteClient`).  `setEnabled(false)` on a core thread has two steps
(`CommandOff`, `ClearThreshold`), between which the loop may run; a message of the
same thread waits for the second.  `strayTimer` stands for a timer that
`plugin_start` has replaced while it was active.  The watchdog appears as the
threshold the profiler waits for.  *History*: `asked`, the last request; `jsonSeen`,
whether json mode was ever switched to; `remote`, whether a message was handled in the
middle of a pass.  Properties that hold in one mode or without such messages say so.

### HeapDump

One action per entry point: `WriteSnapshot`, `OnSIGUSR2`, the continuation of
`fork()` in the parent (`StartWatcher`), the end of the child, SIGCHLD from this or
another child, and `OnSIGCHLD` in two steps because the callback it invokes may call
`writeSnapshot` again.  `nofork` is chosen once, in `Init`, as `PlatformInit` does from
the environment.  The SIGCHLD watcher's state is libuv's; a signal nobody
watches is lost: `missed` (*history*) is TRUE when the child has exited between `fork()` and
`uv_signal_start` in the parent.  `index.js` hands on one argument only, so that a callback
after a file name is not registered.

### Requests

Each request is a record of its parent, its top, its id, whether it has a type, is a
root, and the domain it was started in.  The event loop runs one callback at a time,
in one domain or none (`BeginTurn`, `EndTurn`); within it any request may be started or
stopped.  `foreign` is history: it becomes TRUE when a callback stops a request of another
domain than its own.  Node's propagation of domains keeps callbacks of asynchronous calls
in their domain; with pooled connections a callback may run in the domain the connection
was made in.  The properties of trees are stated for behaviours without such a stop, those
of ids and of single reports for all.  `children` is derived from `parent`; the recursion of
`stop()` is the least set closed under "an active child of a stopped request".  Which steps of
the probes can make such a stop is a question of `ProbeCalls`.

### Appmetrics

For every probe, whether its metrics and its request functions are installed, and the
flags `_started` and `_requestsEnabled` that all probes share.  `askedMetrics`,
`askedRequests` and `excluded` record what callers asked for once the agent had been
started.  A type is matched with a probe's name, as the code does it.

### ProbeCalls

The table of operators at the top has one entry per probe and kind of call: when the call
is over, whether it is a root request, whether it comes from outside, whether its
calls share one `probeData`, whether its request is given its timer, and which of its hooks throws.  `BeginCall` is the wrapper up to
the instrumented method: `metricsProbeStart`, then `requestProbeStart`; `Return` and
`CallBack` are the two places where the end hooks may run, and `EndHooks` is
`metricsProbeEnd`, then `requestProbeEnd`.  `frames` is JavaScript's stack of instrumented calls
and `Turn` the loop between callbacks.  Timers are objects of their own, because a request
keeps a reference to the timer of its call.  The module extends `Requests` and
acts on its variables, so that a call's request is started, nested and stopped as
there: `Start`, `Stop` and the turns of the loop are its actions, the rest leaves requests
alone (`CallsTrackRequests`).  A callback runs in whatever domain the loop is
in (`aspect.js:25-36` does not look at it): that of the call, as node mostly arranges it, or another
one, as with the connections of a pool.  So `foreign` may become TRUE here; `CallInv` says who does it and
who does not (`ReturnsAtHome`), and the other properties hold whether or not it is.  Switching metrics or
requests is the effect that `Appmetrics` shows on one probe.

The run has one operation for almost each way to measure (`Each` in `ProbeCallsMC`), which differ in the
fields of `Operation`: `Http` (a response), `Loopback` (over when its callback is called, and a request
with a timer of its own), `Oracle` (over at the callback or the return, with the hook that throws),
`MqttMessage` (a listener), `TraceMethod` (no metrics).  An operation that is
not in it differs from one that is in a field only (`MongoFind`, which may end again, as `Http` may; `MySql`, whose request has the timer of the call;
`Redis`, whose hook does not throw; `AxonOn("other")`, not a root; `SocketioEmit`, over at the return; `Leveldown`,
whose start hook throws); those are not checked by the run, but the theorems are about all of `AllOps`.

### Loader

One action `Require` for the patched `require()`: what the original returns, with the marks on it,
passes through `attach()` of every probe in the list that matches.  Operators say, for each module
and probe, which mark `attach()` looks for and leaves, and whether it weaves its hooks into the
exports, into an object it finds inside them (`WeavesInside`), or returns a new function that does so
with what it makes.  `woven` counts how often hooks are in the exports or that object, `given` what the last `require()` gave and who weaves that.  `EnableTrace` adds
the trace probe to the list; `DeleteFromCache` is the application's `delete require.cache[...]`,
as in `tests/require_tests.js:37`.  It takes the marks, which are on the exports; the hooks go with them
unless they are in an object of an inner file of the package, which stays in the cache.  Which file makes that
object is up to the package, so both may happen; `outlived` (*history*) has the modules whose hooks stayed.

### EventLoop

The phases of an iteration of libuv's loop are actions (`Prepare`, `Poll`, `Check`, `Close`,
`NextIteration`), and what runs in a phase is allowed in it: intervals in the timers phase,
immediates after the check phase, calls of the application in its callbacks.  An interval is a pair
of its kind and of the number of the `enable('eventloop')` that made it; `keepAlive` are those that
are not unref'd.  Time is abstracted: an interval may fire in any pass, and a latency is one of a
few numbers.  `latencyData` is the code's, `samples` (*history*) what it should be of.  `tickStart`
says whether `tick_start` is of the last check phase or of an earlier one, which it is when the
plugin was stopped meanwhile.  A start after a stop runs `ibmras_monitoring_plugin_init` of the plugins again
(`appmetrics.cpp:349`), which initialises the loop plugin's static handles once more and allocates
another timer (`nodeloopplugin.cpp:195-201`); what libuv makes of handles initialised twice is not modelled.  `Exit` is the handler of `exit` that `start()` adds.

### EventApi

`Monitor`, `Start` and `Stop` are the calls of the application, with the native calls behind them;
`loads` says whether the library of the monitoring API can be loaded, on which the functions depend
that `nativeEmit` calls.  Messages pass through the variables of `EventStream`
(`Stream == INSTANCE EventStream`), which `MessageQueue` implements: `Push` submits one when a listener is
registered, and `RaiseEvent` delivers one and runs its handler, during which a listener of
`environment` may throw.  `formatOSEnv` and `formatRuntimeEnv` differ in whether they count down
before they emit.

### HeadlessZip

The core's thread (`BeginRun`, `AssignOutputDir`, `OutputDirAssigned`, `SendAsync`; what is before `zip()` is
external), the loop (`WakeUp`, `AsyncFunc`), the thread pool that deletes files (`Unlink`), the clock, and
the application's `Start` and `Stop`.  Writing the string `outputDir` takes two steps, between
which it names no directory.  `handle` is the static `uv_async_t`, which is corrupt if it is
initialised again while it is being closed.  `packed` (*history*) lists the runs packed, in order, and
`disk` says which of them is in which file.  `OnExit` runs once for every `start()`.

## 4. What the runs check

Each run has its reason in `PROJECT.json` ("about").

| Run | Bounds | Why they are enough |
|---|---|---|
| MessageQueue | 3 threads, 3 payloads | two threads can be inside the list's code while a third has linked and not yet sent; a message coalesced with, and one linked after, those being delivered; no symmetry, since it is not sound for liveness |
| NodeProf | 6 messages, 3 starts, thresholds 0, 1, 1000 | on, off, on, two changes of mode or threshold and another on or off, at any moment of a pass; two restarts |
| HeapDump | 4 calls or signals | a dump, a call refused meanwhile, a call from its callback, the next dump |
| Requests | 4 requests | two roots with a child each, a root inside a root with late children, three siblings |
| Switches | 3 probes, 3 types, 3 starts | two probes of one name, one of another, a type without probe; two restarts |
| ProbeCalls | 3 calls with 3 requests, 1 switch, 2 ends of a response or cursor | a root call with two calls inside it or two roots with one, in all orders of callbacks and in any domain; a probe each for most ways to measure (section 3); a switch before, between or after the hooks of a call |
| Loader | 6 modules, each required 3 times | one module for every way of marking and weaving (mongodb for those woven inside); a module instrumented, required again, deleted and required again, with tracing enabled before, between or after |
| EventLoop | 2 enablings besides the first, 2 starts, 3 samples to a report, latencies below and above a minute | an interval made, cleared, made and cleared again, with checks under way; a restart with a tick open; longer sums add nothing, as a report resets all |
| HeadlessZip | 4 runs of the core, 2 files kept, 4 time stamps, 2 starts | the second deletion is of a file made while the first was pending; two directories left by two starts; a request before the last was read |
| EventApi | 3 starts, 2 messages about the operating system | each kind of message comes twice before the other and once more after `initialized`; a start while the agent runs, after a stop, and before `monitor()` |
| NodeProfOnLost, EventApiEmit | smaller | expected to fail: each shows one difference, see below |

The properties that are checked, one by one, are in the `.cfg` files; the comment
above each definition says what it means.

HeapDump and NodeProf have no deadlock check: with their bound on calls used up, and
nothing pending, the system rests; nor has Loader, whose requires are bounded, nor EventLoop, EventApi
and HeadlessZip, in which the process ends.  In MessageQueue the end of the process is a
step of its own, and the other modules never stop.

### Differences between the code and what is said of it

Shown by a run (`PROJECT.json`, "findings", quotes the text):

* on and off messages of one turn are applied in the order of the handles
  (`nodeprofplugin.cpp:464`), so `disable()` then `enable()` ends disabled;
* `emit()` of a topic for the core before `start()` throws an exception and then calls a null
  pointer all the same (`appmetrics.cpp:477-508`).

Met while modelling; the model has the behaviour, or leaves it out where noted, and the
properties above are stated so as not to depend on it:

* switching modes while profiling leaves the timer running, which starts the profiler
  although profiling is off (`nodeprofplugin.cpp:301`): `TextModeInv` and `QuietWhenStopped` speak of the
  time before json mode is used;
* a refused `writeSnapshot` takes over the callback of the dump under way
  (`heapdump.cc:98`): `CallbackContract` does not say that a refused call is not called back;
* a child that exits before SIGCHLD is watched leaves `writeSnapshot` busy until another child
  of the application exits (`heapdump-posix.h:83`): `BusyEnds` excepts it (`missed`);
* the timer of a call is stopped with the request above it, so that a query still under way is
  reported with too short a duration (`request.js:164` against `README.md:349`): `RootIsWhole` is about
  root calls;
* with requests enabled, the leveldown probe throws a ReferenceError into the application, and
  the oracle probe a TypeError when they are enabled during a call
  (`leveldown-probe.js:118`, `oracle-probe.js:116`);
* the first tick after a restart of the agent spans the time it was stopped, and every start
  registers the GC callbacks once more, so that each collection is reported as often
  (`nodeloopplugin.cpp:164`, `nodegcplugin.cpp:185`): `MonitoredOnce` is about one start;
* `enable('eventloop')` after a disable makes intervals that keep the process alive
  (`index.js:201`), unlike the first ones (`:138`): `IdleProcessEnds` excepts it;
* the minimum of a report is at most a minute (`index.js:128`), also when every sample was longer;
* `initialized` counts messages, not kinds, and each start sends those about node again, so that it
  may come before the other kind is known (`appmetrics-api.js:104` against the comment at `:26`);
  a listener of `environment` that throws, in a process that goes on, may prevent it: `InitializedKnowsBoth`
  and `InitializedComes` say so;
* a zip request that is not read before the next one replaces its directory, and `stop()` drops one on its way
  (`headlessutils.cpp:68`, `:64`); such a directory waits for a handler of `exit`, and of those
  each packs one only;
* names of files have seconds in them: of two packed in a second the first is lost, and the name is
  deleted while it is still to be kept (`headless_zip.js:56`, `:80`): `KeepsTheNewest` excepts it;
* `fs.unlink()` without a callback throws from node 10 on, in the middle of `headlessZip`
  (`headless_zip.js:38`): a directory whose packing throws is neither packed nor asked for again.
  The model has it (`UnlinkThrows`), the run takes an older node, and the properties say so (`Prompt`);
* a callback of a pooled or persistent connection may run in the domain of another request; the probe
  then stops its request there, and `stop()` makes a stranger the current request of that domain
  (`aspect.js:25`, `request.js:111`): `ReturnsAtHome` is about the time before;
* when requests are switched off and on again while a message is handled, a listener whose calls
  share one `probeData` may stop the request of an earlier message, in a domain that is not its own
  (`mqtt-probe.js:61`): `ReturnsAtHome` is about the time before the second switch;
* mongodb is marked on its exports but woven in `Collection.prototype` (`mongo-probe.js:91-97`): deleted
  from `require.cache` and required again, it has fresh exports without a mark, and a class of an inner file that is
  woven a second time, so that each call is measured twice; the same goes for redis, the juggler and
  strong-express-metrics where an inner file makes the object that is woven: `InstrumentedOnce` asks of them only that the
  right probes measure (`outlived`);
* the juggler is woven once more by each `require()` (`loopback-probe.js:52` tests a mark that nothing
  sets), and the second `require()` of mqlight, oracle or strong-oracle returns nothing
  (`strongoracle-probe.js:34`): `InstrumentedOnce` excepts the first from being woven once, and the others altogether then;
* a second `start()`, and `monitor()` after `start()`, switch disabled metrics on again
  (`index.js:376` against `README.md:155`, "If the agent is already running this function does
  nothing."), and every one adds a handler of `exit`: `OffUntilRestart` is about the time before, and
  `NothingIsLeft` rests on the handlers;
* a remote client's on and off may both be overtaken by a pass under way, so that off is
  lost (`nodeprofplugin.cpp:405`): `OffIsObeyed` is about behaviours without one;
* SIGUSR2 overwrites the saved name of the file a child is writing
  (`heapdump-posix.h:39` against the comment at `:75`): `CallbackAfterDump`, a part of
  `CallbackContract`, sets signals aside;
* in nofork mode a file that cannot be opened is reported as written
  (`heapdump-posix.h:67` against `heapdump.cc:111`);
* a callback after a file name is dropped (`index.js:335` against `README.md:188`):
  `CallbackOnReturn` is about callbacks passed alone;
* a request started late, after its root has ended, is reported as if it were a root
  (`request.js:46` against `README.md:407`);
* an excluded module is tracked again after the next `enable('requests')`
  (`index.js:188` against `README.md:179`);
* `monitor()` after `stop()` does not start the agent (`index.js:293` against
  `README.md:194`);
* the documented type `mongo` names no probe, and `disable('trace')` does not detach the
  trace probe (`index.js:236` against `README.md:169`): `Loader` has no action for it.

### Fairness

* `MessageQueue`: a thread inside `sendData` goes on (it waits for nothing but the mutex,
  which is held for a few instructions); the loop polls its handles and runs
  `emitMessage` to its end.  No thread has to send and the loop may end at any turn.
  Weak fairness of a thread's steps suffices for the mutex, because payloads run out:
  nobody can take it again and again.
* `NodeProf`: libuv visits pending handles and fires active timers; `setEnabled`
  returns.  Nobody has to send messages or start the agent.
* `HeapDump`: `writeSnapshot` and `OnSIGCHLD` return, a child exits, caught signals are
  dispatched.  Nobody has to call.
* `EventLoop`: the loop goes on from phase to phase, and polling ends when an interval is set or nothing
  is waited for; immediates run.  No interval has to fire, and the application need not end.
* `EventApi`: an async that was sent is called, the listener gets the messages submitted, and the
  core's environment plugin pushes its data while the agent runs (external; without it `initialized` could not
  be promised).
* `HeadlessZip`: `zip()` returns, the loop runs the callbacks of pending and of closing handles, the handlers of
  `exit` run.  No run of the core has to begin or end, and the process need not exit.

## 5. What is proved

TLAPS checks these for all values of the constants that satisfy the `ASSUME`s.

* `MessageQueueProofs`: `QueueInv` is inductive.  `DeliveredInOrder` alone is not: it
  needs to be known where every payload is.  The messages in the order of linking are
  cut in four consecutive parts (freed, delivered, detached, linked) by `freed`,
  `Len(delivered)` and `taken` (`OrderInv`); the links follow that order inside each
  part and stop at the cuts (`LinkInv`); payloads being built are in no part
  (`BuildingInv`); `tail` is in the linked part and `currentMessage` at the second cut
  (`CursorInv`); the mutex separates the writers (`MutexInv`).  Order, no use after free
  and no lost wakeup follow, and every step maps to a step or a stutter of
  `EventStream` (`ImplementsStream`).  That nothing leaks (`AllIsFreed`) is the converse question, that no
  live payload is outside these parts: each is being built or in the order behind `freed` (`HeldInv`).
* `NodeProfProofs`: the profiler runs whenever profiling is enabled and the agent runs, in both modes
  (`ProfilerStaysOn`: with the types it is inductive, because every step that sets `enabled` in either mode
  starts the profiler, and every one that stops it clears `enabled` or starts it again).  As
  long as json mode has not been used (`~jsonSeen`), the plugin's timer
  is active, and the profiler may run, exactly while `enabled`; no handle of the other mode is
  ever pending, no timer is left behind (`TextInv`, by cases on the actions).  It follows that
  profiling that is off is off in V8 (`TextProfilerOff`) and that a stopped agent profiles
  nothing (`TextQuiet`), whatever remote clients do and with or without the watchdog built in.
* `HeapDumpProofs`: `OneDumpAtATime` alone is not inductive.  `DumpInv` adds when the watcher is
  active: from the continuation of `fork()` until the child has been waited for, also while its callback
  makes further calls.  `CallbackContract` rests on it (`CallbacksAreKept`): the name that
  `OnSIGCHLD` tells of is the child's unless a signal came (`ToldInv`), and when every call passes a callback the
  one registered during a dump has not been called (`OnceInv`), although `on_complete_callback` is never cleared.
* `RequestsProofs`, about `Requests`.  A request id is smaller than the number of its request and
  only the top of a tree has one, while event ids are the numbers of requests; so an id
  of one kind can equal one of the other only across trees (`RequestInvariant`).  No request is reported
  twice because what is reported was active and is not afterwards (`ReportedOnce`).  The four tree properties
  are inductive only together (`TreesInv`): a new request joins the tree of its domain's current request, which
  must be active for the tree not to have been reported; and reporting a tree as over needs that `stop()`
  of its top reaches everything active in it.  Hence `HomeInv`: while requests are stopped at home,
  a tree shares one domain, a domain whose root is active holds that root's tree only, an active request hangs on active requests, and
  so it is in the closure that `stop()` of its top takes (`StoppedWith`, of which `StoppedFacts` and
  `StoppedBelow` are the lemmas).  `ShapeInv` holds without that condition.
* `RequestsProofs`, about `ProbeCalls`.  Every behaviour of the calls is one of `Requests`
  (`CallsTrackRequests`), so all of the above holds of them; the condition of the tree properties, that
  requests are stopped at home, is not theirs to promise, because callbacks come in any domain.  What can be
  shown is that nothing but a callback breaks it, up to a second switch: until then a call that has
  not returned will find a request of the present domain, or none that is active (`ReturnsStopAtHome`), so that the first
  stop in a foreign domain is that of a callback (`OnlyCallbacksStray`).  For this the stack of calls and the stack of
  domains are related (`FramesAtHome`: an active request of a call on the stack is of the present domain, while calls
  nest, callbacks end other calls and roots leave their domains), which holds because
  the active requests of a domain are of one tree (`OneTree`), so that a domain that has been left has none; and an
  end hook finds the request of its own call (`DataInv`), or in shared data no older one
  (`SharedInv`).  On the same invariant rest, without a
  switch and with stops in any domain, `EndedIsStopped`, `MeasuredByItself` (`OwnTimers`: the timer in the data is
  that of the call) and `RootIsWhole` (`RootsRun`: a root's request is below no other, `NoRootBelow`, so only its
  own end stops its timer).
* `InstrumentationProofs`, about `Appmetrics`: requests are tracked as last asked for (`SwitchInv` is
  inductive); metrics nobody disabled stay on, since only `disable` of that very name takes them away; and
  what was disabled stays off while `start()` is called once (`DisabledStaysOff`, with `OffInv`: wishes count
  from the first `start()`, so what could undo one is a second).
* `InstrumentationProofs`, about `Loader`: `InstrumentedOnce` is not inductive, since what the next `require()`
  gives depends on marks; `MarksTell` says that hooks are woven, and once, exactly if the mark of their probe
  is there, unless they outlived an earlier one (then a mark still tells that they are there), and that files are
  marked only while tracing.  Two lemmas on marks carry it: a probe leaves at most
  one, and the mark the patch looks at is that of all probes of a module (`DDMarks`).  What is asked of
  one module (`ModuleInv`, `OnceInv`) is shown for the module required, and a frame lemma for the others.
* `EventLoopProofs`: `LoopInv` (the intervals set are those the variables hold, the plugins' handles follow
  `running`) is inductive; `MonitoredOnce` needs besides (`TickInv`) that, until a second start, `tick_start` is
  unset or of the last check phase whenever the plugin measures.  `ReportsAreRight` compares what
  `latencyData` accumulates with the samples themselves (`SampleInv`).  Their total is a recursive function of the sequence,
  and that it exists for every sequence would take induction over data; so the proof carries along that it
  does for the samples there are, extending it by one element with each sample.
* `HeadlessZipProofs`: one string and one flag serve all requests.  `CoreInv` says what the core's thread and the
  loop know of one another at each step of the hand-over, `RequestInv` that, while each request is read before the next,
  `outputDir` names a directory that exists from the request to its reading; so no run is
  lost (`HandOver`, if also packing does not throw and `stop()` drops none).  `Newest`, that the files kept are the `FilesToKeep` packed last, needs the names to be ordered by
  time (`FilesInv`), so that the one deleted is the oldest and not one being remembered.  `NothingLeft` is a count: every directory that is
  neither the core's nor on its way has a handler of `exit` to itself, and the running agent has one
  more for that which its end leaves (`LeftInv`); for `stop()` without a request dropped, see `StopsQuietly`.
* `EventApiProofs`: `ApiInv` relates the count-down to the messages received, and the functions to the
  starts.  That `initialized` means both kinds are known follows by counting: two messages
  without a repetition are of two kinds.

Every safety invariant that a run checks is stated by one of these theorems.  Model-checked only: every
liveness property and the fair part of the refinement, which are outside the prover's reach
(`EveryMessageArrives`, `StreamSpec`, `ThresholdTakesEffect`, `OffIsObeyed`, `BusyEnds`, `IdleProcessEnds`,
`InitializedComes`, `RunsArePacked`), and what NodeProf does in json mode but for
`ProfilerStaysOn`.  Proofs about `Requests` and `ProbeCalls` bound the number of requests and calls by
constants, as the models do, but for any value of them.

## 6. What is not modelled

The core (omr-agentcore) appears only as threads that call `sendData` and `zip()` and deliver control
messages; node, libuv and V8 as their documented behaviour at the calls this code makes.
The watchdog's signals, Windows' heap dump and z/OS, filters and strong-trace links, formats of
messages, command-line and property handling, build files and tests are left out.  The serializer is dead
code: nothing calls `serialize`, and `deserialize` only the handler of the topic `api`
(`appmetrics-api.js:233`), which the listener drops before (`:239`).  The object histogram is one walk over a
heap snapshot, without state.
