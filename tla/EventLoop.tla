------------------------------ MODULE EventLoop ------------------------------
(***************************************************************************)
(* What measures node's event loop, in the phases of that loop: the        *)
(* latency samples of index.js, and the loop, GC and heap plugins, which   *)
(* start() and stop() of the agent switch.                                 *)
(*                                                                         *)
(* latencyCheck is an interval; each time it schedules an immediate, which *)
(* measures how long it had to wait.  latencyReport is another interval    *)
(* and emits what was gathered.  The loop plugin measures the time from    *)
(* the check phase of an iteration to the prepare phase of the next one.   *)
(*                                                                         *)
(* Abstracted: real time (an interval fires in any pass), CPU times, the   *)
(* durations of ticks, of which only those are told apart that are not one *)
(* turn of the loop.  The application acts in callbacks of its own.  That  *)
(* a second start() of the agent initialises the plugins again, and so the *)
(* loop plugin's static libuv handles, is left out.                        *)
(***************************************************************************)
EXTENDS Naturals, Sequences

CONSTANTS
    Latency,        \* the latencies that may be measured, in milliseconds
    Minute,         \* the minimum that latencyData begins with, 60000
    MaxEnables,     \* bound on the calls of enable('eventloop') that count
    MaxStarts,      \* bound on the starts of the agent
    MaxSamples,     \* bound on the samples of one report
    MaxTicks        \* where the count of ticks of one message saturates

ASSUME EventLoopConstants ==
    /\ Latency \subseteq Nat
    /\ Minute \in Nat
    /\ MaxEnables \in Nat /\ MaxStarts \in Nat
    /\ MaxSamples \in Nat /\ MaxTicks \in Nat

VARIABLES
    phase,          \* of the event loop
    application,    \* the application has work that keeps the loop going
    latencyRunning,
    latencyLoops,   \* which intervals latencyCheckLoop and -ReportLoop hold
    intervals,      \* the intervals that are set
    keepAlive,      \* those of them that are not unref'd
    checks,         \* the latency checks whose immediate has not run
    latencyData,
    samples,        \* history: the latencies since latencyData was reset
    running,        \* the agent runs
    starts,         \* history: how often it was started
    ticking,        \* the handles of the loop plugin are active
    tickStart,      \* tick_start: unset, or of the last check phase or not
    num,            \* the ticks counted for the next message
    longTick,       \* history: a tick was measured that is not one turn
    gcHooks,        \* how often the GC callbacks are registered
    gcReports,      \* history: how often the last GC was reported
    heapTimers,     \* the timers of the heap plugin
    heapClosing     \* those that are being closed

latency == <<latencyRunning, latencyLoops, intervals, keepAlive, checks,
             latencyData, samples>>
ticks == <<ticking, tickStart, num, longTick>>
gc == <<gcHooks, gcReports>>
heap == <<heapTimers, heapClosing>>
agent == <<running, starts, ticks, gc, heap>>
vars == <<phase, application, latency, agent>>

Kind == {"check", "report"}
Interval == Kind \X (0..MaxEnables)
NoSamples == [count |-> 0, min |-> Minute, max |-> 0, total |-> 0]

TypeOK ==
    /\ phase \in {"timers", "prepare", "poll", "immediates",
                  "closing", "exit", "exited"}
    /\ application \in BOOLEAN
    /\ latencyRunning \in BOOLEAN
    /\ latencyLoops \in 0..MaxEnables
    /\ intervals \subseteq Interval
    /\ keepAlive \subseteq Interval
    /\ checks \in Nat
    /\ latencyData \in [count : Nat, min : Nat, max : Nat, total : Nat]
    /\ samples \in Seq(Latency)
    /\ running \in BOOLEAN
    /\ starts \in 0..MaxStarts
    /\ ticking \in BOOLEAN
    /\ tickStart \in {"unset", "lastCheck", "earlier"}
    /\ num \in 0..MaxTicks
    /\ longTick \in BOOLEAN
    /\ gcHooks \in Nat /\ gcReports \in Nat
    /\ heapTimers \in Nat /\ heapClosing \in Nat

(* The first two intervals are unref'd.                                    *)
Init ==
    /\ phase = "poll"
    /\ application = TRUE
    /\ latencyRunning = TRUE
    /\ latencyLoops = 0
    /\ intervals = Kind \X {0}
    /\ keepAlive = {}
    /\ checks = 0
    /\ latencyData = NoSamples
    /\ samples = <<>>
    /\ running = FALSE
    /\ starts = 0
    /\ ticking = FALSE
    /\ tickStart = "unset"
    /\ num = 0
    /\ longTick = FALSE
    /\ gcHooks = 0 /\ gcReports = 0
    /\ heapTimers = 0 /\ heapClosing = 0
-----------------------------------------------------------------------------
(* latencyCheck schedules an immediate, which measures.                    *)
LatencyCheck ==
    /\ checks + latencyData.count < MaxSamples
    /\ checks' = checks + 1
    /\ UNCHANGED <<latencyData, samples>>

(* A mistake for ReportsTheSamples to catch: the total is not reset.       *)
LatencyReportButTotal ==
    /\ latencyData' = [NoSamples EXCEPT !.total = latencyData.total]
    /\ samples' = <<>>
    /\ UNCHANGED checks

(* latencyReport emits what was gathered, unless it is nothing.            *)
LatencyReport ==
    /\ latencyData' = NoSamples
    /\ samples' = <<>>
    /\ UNCHANGED checks

FireInterval(i) ==
    /\ phase = "timers"
    /\ i \in intervals
    /\ IF i[1] = "check" THEN LatencyCheck ELSE LatencyReport
    /\ UNCHANGED <<phase, application, latencyRunning, latencyLoops, intervals,
                   keepAlive, agent>>

Measure(l) ==
    latencyData' = [count |-> latencyData.count + 1,
                    min |-> IF l < latencyData.min THEN l ELSE latencyData.min,
                    max |-> IF l > latencyData.max THEN l ELSE latencyData.max,
                    total |-> latencyData.total + l]

RunImmediate(l) ==
    /\ phase = "immediates"
    /\ checks > 0
    /\ checks' = checks - 1
    /\ Measure(l)
    /\ samples' = Append(samples, l)
    /\ UNCHANGED <<phase, application, latencyRunning, latencyLoops, intervals,
                   keepAlive, agent>>

-----------------------------------------------------------------------------
(* OnPrepare and OnCheck of the loop plugin, and its timer.                *)
(* A mistake for MonitoredOnce to catch: the handle is not stopped.        *)
OnPrepareAlways ==
    IF tickStart # "unset"
    THEN /\ num' = IF num < MaxTicks THEN num + 1 ELSE num
         /\ longTick' = (longTick \/ tickStart = "earlier")
         /\ UNCHANGED <<ticking, tickStart>>
    ELSE UNCHANGED ticks

OnPrepare ==
    IF ticking /\ tickStart # "unset"
    THEN /\ num' = IF num < MaxTicks THEN num + 1 ELSE num
         /\ longTick' = (longTick \/ tickStart = "earlier")
         /\ UNCHANGED <<ticking, tickStart>>
    ELSE UNCHANGED ticks

OnCheck ==
    /\ tickStart' = CASE ticking -> "lastCheck"
                      [] ~ticking /\ tickStart # "unset" -> "earlier"
                      [] OTHER -> "unset"
    /\ UNCHANGED <<ticking, num, longTick>>

GetLoopInformation ==
    /\ phase = "timers"
    /\ ticking
    /\ num > 0
    /\ num' = 0
    /\ UNCHANGED <<phase, application, latency, running, starts, ticking,
                   tickStart, longTick, gc, heap>>

(* Every registration of the callbacks reports the garbage collection.     *)
CollectGarbage ==
    /\ phase \notin {"exit", "exited"}
    /\ gcReports' = gcHooks
    /\ UNCHANGED <<phase, application, latency, running, starts, ticks,
                   gcHooks, heap>>

-----------------------------------------------------------------------------
(* What the agent does with its plugins.                                   *)
StartPlugins ==
    /\ ticking' = TRUE
    /\ gcHooks' = gcHooks + 1
    /\ heapTimers' = heapTimers + 1
    /\ UNCHANGED <<tickStart, num, longTick, gcReports, heapClosing>>

(* The GC callbacks stay ("TODO Unhook GC hooks").                         *)
StopPlugins ==
    /\ ticking' = FALSE
    /\ heapTimers' = heapTimers - 1
    /\ heapClosing' = heapClosing + 1
    /\ UNCHANGED <<tickStart, num, longTick, gc>>

StopAgent ==
    /\ running' = FALSE
    /\ IF running THEN StopPlugins ELSE UNCHANGED <<ticks, gc, heap>>
    /\ UNCHANGED starts

(* A mistake for LoopInv to catch: started although it is running.         *)
StartAgain ==
    /\ starts < MaxStarts
    /\ running' = TRUE
    /\ starts' = starts + 1
    /\ StartPlugins

Start ==
    /\ ~running
    /\ starts < MaxStarts
    /\ running' = TRUE
    /\ starts' = starts + 1
    /\ StartPlugins

-----------------------------------------------------------------------------
(* What the application calls, in a timer, a poll callback or an immediate *)
(* of its own.                                                             *)
InCallback == application /\ phase \in {"timers", "poll", "immediates"}

StartCall ==
    /\ InCallback
    /\ Start
    /\ UNCHANGED <<phase, application, latency>>

StopCall ==
    /\ InCallback
    /\ StopAgent
    /\ UNCHANGED <<phase, application, latency>>

(* New intervals, which are not unref'd.                                   *)
EnableEventLoop ==
    /\ InCallback
    /\ ~latencyRunning
    /\ latencyLoops < MaxEnables
    /\ latencyRunning' = TRUE
    /\ latencyLoops' = latencyLoops + 1
    /\ intervals' = intervals \cup (Kind \X {latencyLoops + 1})
    /\ keepAlive' = keepAlive \cup (Kind \X {latencyLoops + 1})
    /\ UNCHANGED <<phase, application, checks, latencyData, samples, agent>>

(* A mistake for IdleProcessEnds to catch: the reports go on.              *)
ClearChecks ==
    /\ intervals' = intervals \ {<<"check", latencyLoops>>}
    /\ keepAlive' = keepAlive \ {<<"check", latencyLoops>>}

ClearIntervals ==
    /\ intervals' = intervals \ (Kind \X {latencyLoops})
    /\ keepAlive' = keepAlive \ (Kind \X {latencyLoops})

(* What was gathered stays, and a check under way adds to it.              *)
DisableEventLoop ==
    /\ InCallback
    /\ latencyRunning
    /\ latencyRunning' = FALSE
    /\ ClearIntervals
    /\ UNCHANGED <<phase, application, latencyLoops, checks, latencyData,
                   samples, agent>>

(* The application has nothing to do any more.                             *)
ApplicationEnds ==
    /\ InCallback
    /\ application' = FALSE
    /\ UNCHANGED <<phase, latency, agent>>

-----------------------------------------------------------------------------
(* The phases of an iteration of the loop.                                 *)
Go(from, to) == phase = from /\ phase' = to

Prepare ==
    /\ Go("timers", "prepare")
    /\ OnPrepare
    /\ UNCHANGED <<application, latency, running, starts, gc, heap>>

Poll ==
    /\ Go("prepare", "poll")
    /\ UNCHANGED <<application, latency, agent>>

(* The loop waits for events, or for a timer if there is one.              *)
Check ==
    /\ Go("poll", "immediates")
    /\ OnCheck
    /\ UNCHANGED <<application, latency, running, starts, gc, heap>>

Close ==
    /\ Go("immediates", "closing")
    /\ checks = 0
    /\ UNCHANGED <<application, latency, agent>>

(* Closed handles are freed; the loop goes on while it is kept alive.      *)
NextIteration ==
    /\ Go("closing",
          IF application \/ keepAlive # {} THEN "timers" ELSE "exit")
    /\ heapClosing' = 0
    /\ UNCHANGED <<application, latency, running, starts, ticks, gc,
                   heapTimers>>

(* The handlers of `exit' that start() has added.                          *)
Exit ==
    /\ Go("exit", "exited")
    /\ IF starts = 0 THEN UNCHANGED <<latency, agent>>
       ELSE /\ IF latencyRunning THEN ClearIntervals
               ELSE UNCHANGED <<intervals, keepAlive>>
            /\ StopAgent
            /\ UNCHANGED <<latencyRunning, latencyLoops, checks, latencyData,
                           samples>>
    /\ UNCHANGED application

-----------------------------------------------------------------------------
LoopStep ==
    \/ Prepare \/ Poll \/ Check \/ Close \/ NextIteration \/ Exit

Next ==
    \/ LoopStep
    \/ \E i \in intervals : FireInterval(i)
    \/ \E l \in Latency : RunImmediate(l)
    \/ GetLoopInformation \/ CollectGarbage
    \/ StartCall \/ StopCall \/ EnableEventLoop \/ DisableEventLoop
    \/ ApplicationEnds

(* Poll returns by itself when a timer is set or nothing is waited for.    *)
TimedCheck == (intervals # {} \/ ~application) /\ Check

Fairness ==
    /\ WF_vars(Prepare \/ Poll \/ Close \/ NextIteration \/ Exit)
    /\ WF_vars(TimedCheck)
    /\ WF_vars(\E l \in Latency : RunImmediate(l))

Spec == Init /\ [][Next]_vars /\ Fairness

-----------------------------------------------------------------------------
(* However eventloop is enabled and disabled, there is one pair of         *)
(* intervals while it is enabled and none otherwise, and only a pair made  *)
(* by enable() keeps the process alive: no handle is lost to the variables *)
(* that are to clear it.                                                   *)
IntervalsMatch ==
    phase # "exited" =>
        /\ intervals = IF latencyRunning THEN Kind \X {latencyLoops} ELSE {}
        /\ keepAlive = {i \in intervals : i[2] > 0}

(* The handles of the plugins follow the agent, however often it is        *)
(* started and stopped: no second timer, no timer freed twice.             *)
PluginsFollow ==
    /\ ticking = running
    /\ heapTimers = IF running THEN 1 ELSE 0
    /\ gcHooks = starts

(* These are inductive together.                                           *)
LoopInv == TypeOK /\ IntervalsMatch /\ PluginsFollow

(* The sums of the initial parts of a sequence of numbers.                 *)
Sums(s) ==
    LET sum[i \in 0..Len(s)] == IF i = 0 THEN 0 ELSE sum[i - 1] + s[i]
    IN  sum

(* What is reported are the samples taken since the last report, those     *)
(* that were under way when eventloop was disabled included; the minimum   *)
(* is wrong when no sample was below a minute.                             *)
ReportsTheSamples ==
    LET taken == {samples[i] : i \in DOMAIN samples}
    IN  /\ latencyData.count = Len(samples)
        /\ latencyData.total = Sums(samples)[Len(samples)]
        /\ \A l \in taken : latencyData.min <= l /\ l <= latencyData.max
        /\ samples # <<>> => latencyData.max \in taken
        /\ (\E l \in taken : l < Minute) => latencyData.min \in taken

(* While the agent has been started only once, whenever it is stopped,     *)
(* every tick the loop plugin measures is one turn of the loop and a       *)
(* collection of garbage is reported once.                                 *)
MonitoredOnce == starts <= 1 => ~longTick /\ gcReports <= 1

(* Monitoring by itself does not keep a process alive: an application that *)
(* has ended exits, unless eventloop was disabled and enabled again (all   *)
(* other handles are unref'd, whether the agent runs or not).              *)
IdleProcessEnds ==
    ~application /\ (latencyLoops = 0 \/ ~latencyRunning) ~> phase = "exited"
=============================================================================
