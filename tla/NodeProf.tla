------------------------------ MODULE NodeProf ------------------------------
(***************************************************************************)
(* The CPU profiling plugin (src/src/plugins/node/prof): control messages  *)
(* turn method profiling on and off, libuv runs the work on the loop's     *)
(* thread.                                                                 *)
(*                                                                         *)
(* A control message is handled where it arrives: on the loop's thread     *)
(* when JavaScript calls enable(), disable() or setConfig(), on a thread   *)
(* of the core when a monitoring client sends it.  setEnabled() only marks *)
(* one of four async handles pending; on each turn libuv visits the        *)
(* handles in the order plugin_start initialised them, whatever order they *)
(* were sent in, and calls each pending one once.  In text mode a timer    *)
(* stops the V8 profiler, pushes the profile and starts it again; in json  *)
(* mode the profiler runs until it is turned off.                          *)
(*                                                                         *)
(* Abstracted: the profile's contents and format, the timer's period, and  *)
(* `profiling', which the code never writes.                               *)
(***************************************************************************)
EXTENDS Naturals

CONSTANTS
    Thresholds,     \* watchdog thresholds a client may set (0: no watchdog)
    JsonUsed,       \* a client may switch to json mode
    RemoteClient,   \* a client may send messages through a core thread
    WatchdogBuilt,  \* the platform has the watchdog (watchdog.h:23)
    MaxCommands,    \* bound on the control messages of a behaviour
    MaxStarts       \* bound on the times the agent is started

ASSUME ProfConstants ==
    /\ Thresholds \subseteq Nat /\ 0 \in Thresholds
    /\ JsonUsed \in BOOLEAN /\ RemoteClient \in BOOLEAN
    /\ WatchdogBuilt \in BOOLEAN
    /\ MaxCommands \in Nat /\ MaxStarts \in Nat

VARIABLES
    started,            \* between plugin_start and plugin_stop
    enabled,            \* plugin::enabled
    jsonEnabled,
    watchdogThreshold,
    timer,              \* plugin::timer: "none", "idle", "active"
    strayTimer,         \* an active timer plugin::timer no longer points to
    pending,            \* the async handles sent and not called yet
    turn,               \* the handle libuv visits next; 0: not in a pass
    profiler,           \* V8 is sampling
    watchdog,           \* the threshold the profiler waits for; 0: none
    clearing,           \* a core thread in setEnabled is yet to clear the
                        \* threshold
    asked,              \* history: what the last on or off message asked
    jsonSeen,           \* history: json mode has been switched to
    remote,             \* history: a message was handled during a pass
    commands, starts    \* how often the bounds were used up

agent == <<asked, jsonSeen, remote, commands, starts>>
uv == <<timer, strayTimer, pending>>
v8 == <<profiler, watchdog>>
vars == <<started, enabled, jsonEnabled, watchdogThreshold, uv, turn, v8,
          clearing, agent>>

(* A mistake for OffIsObeyed to catch: on and off are visited the other    *)
(* way round.                                                              *)
HandleDisableFirst == <<"asyncStopProfiler", "asyncDisable",
                        "asyncStartProfiler", "asyncEnable">>

(* The async handles, in the order of uv_async_init.                       *)
Handle == <<"asyncStartProfiler", "asyncEnable", "asyncStopProfiler",
            "asyncDisable">>
Handles == {Handle[i] : i \in 1..4}

TypeOK ==
    /\ started \in BOOLEAN
    /\ enabled \in BOOLEAN
    /\ jsonEnabled \in BOOLEAN
    /\ watchdogThreshold \in Thresholds
    /\ timer \in {"none", "idle", "active"}
    /\ strayTimer \in BOOLEAN
    /\ pending \subseteq Handles
    /\ turn \in 0..4
    /\ profiler \in BOOLEAN
    /\ watchdog \in Thresholds
    /\ clearing \in BOOLEAN
    /\ asked \in {"none", "on", "off"}
    /\ jsonSeen \in BOOLEAN
    /\ remote \in BOOLEAN
    /\ commands \in 0..MaxCommands
    /\ starts \in 0..MaxStarts

Init ==
    /\ started = FALSE
    /\ enabled = FALSE
    /\ jsonEnabled = FALSE
    /\ watchdogThreshold = 0
    /\ timer = "none"
    /\ strayTimer = FALSE
    /\ pending = {}
    /\ turn = 0
    /\ profiler = FALSE
    /\ watchdog = 0
    /\ clearing = FALSE
    /\ asked = "none"
    /\ jsonSeen = FALSE
    /\ remote = FALSE
    /\ commands = 0
    /\ starts = 0

-----------------------------------------------------------------------------
(* The V8 profiler, through the watchdog.                                  *)

(* watchdog::StartCpuProfiling, for a profiler in state p with watchdog w. *)
(* Starting a running profiler takes one more sample.  With a threshold,   *)
(* unless one is armed already, the profiler's thread is suspended until   *)
(* the loop stalls that long; a platform without the watchdog refuses.     *)
StartCpuProfiling(p, w) ==
    IF WatchdogBuilt \/ watchdogThreshold = 0
    THEN /\ profiler' = TRUE
         /\ watchdog' = IF w = 0 THEN watchdogThreshold ELSE w
    ELSE /\ profiler' = p
         /\ watchdog' = w

StartTheProfiler == StartCpuProfiling(profiler, watchdog)

(* watchdog::StopCpuProfiling: resumes the profiler's thread, deletes the  *)
(* watchdog's timer, stops V8.                                             *)
StopTheProfiler ==
    /\ profiler' = FALSE
    /\ watchdog' = 0

(* The callbacks on the loop's thread; `enabled' and the config message    *)
(* published with it change together.                                      *)
StartProfilerWithoutTiming ==
    /\ IF enabled THEN UNCHANGED <<enabled, v8>>
                  ELSE enabled' = TRUE /\ StartTheProfiler
    /\ UNCHANGED timer

StopProfilerWithoutTiming ==
    /\ IF enabled THEN StopTheProfiler ELSE UNCHANGED v8    \* collectData
    /\ enabled' = FALSE
    /\ UNCHANGED timer

(* A mistake for TextModeInv to catch: the timer is not started.           *)
EnableWithoutTimer ==
    IF enabled THEN UNCHANGED <<enabled, v8, timer>>
    ELSE /\ enabled' = TRUE
         /\ StartTheProfiler
         /\ timer' = timer

EnableOnV8Thread ==
    IF enabled THEN UNCHANGED <<enabled, v8, timer>>
    ELSE /\ enabled' = TRUE
         /\ StartTheProfiler
         /\ timer' = "active"

DisableOnV8Thread ==
    IF ~enabled THEN UNCHANGED <<enabled, v8, timer>>
    ELSE /\ enabled' = FALSE
         /\ timer' = "idle"
         /\ StopTheProfiler

Callback(h) ==
    CASE h = "asyncStartProfiler" -> StartProfilerWithoutTiming
      [] h = "asyncEnable" -> EnableOnV8Thread
      [] h = "asyncStopProfiler" -> StopProfilerWithoutTiming
      [] h = "asyncDisable" -> DisableOnV8Thread

-----------------------------------------------------------------------------
(* libuv.                                                                  *)

(* The wakeup pipe is readable: a pass over the async handles begins.      *)
BeginPass ==
    /\ turn = 0
    /\ pending # {}
    /\ turn' = 1
    /\ UNCHANGED <<started, enabled, jsonEnabled, watchdogThreshold, uv, v8,
                   clearing, agent>>

(* The pass visits one handle, and calls it if it is pending.              *)
VisitHandle ==
    /\ turn # 0
    /\ turn' = (turn + 1) % 5
    /\ IF Handle[turn] \in pending
       THEN Callback(Handle[turn])
       ELSE UNCHANGED <<enabled, v8, timer>>
    /\ pending' = pending \ {Handle[turn]}
    /\ UNCHANGED <<started, jsonEnabled, watchdogThreshold, strayTimer,
                   clearing, agent>>

(* Mistakes for ProfilerOnWhenEnabled and ThresholdTakesEffect to catch:   *)
(* the profile is collected and the profiler not started again; the stop   *)
(* does not delete the watchdog.                                           *)
GatherDataOnce ==
    /\ turn = 0
    /\ timer = "active" \/ strayTimer
    /\ IF enabled THEN StopTheProfiler ELSE UNCHANGED v8
    /\ UNCHANGED <<started, enabled, jsonEnabled, watchdogThreshold, uv, turn,
                   clearing, agent>>

GatherDataKeepingWatchdog ==
    /\ turn = 0
    /\ timer = "active" \/ strayTimer
    /\ StartCpuProfiling(FALSE, watchdog)
    /\ UNCHANGED <<started, enabled, jsonEnabled, watchdogThreshold, uv, turn,
                   clearing, agent>>

(* OnGatherDataOnV8Thread: collectData stops the profiler only while       *)
(* enabled; the profiler is started again in any case.                     *)
GatherData ==
    /\ turn = 0
    /\ timer = "active" \/ strayTimer
    /\ IF enabled THEN StartCpuProfiling(FALSE, 0) ELSE StartTheProfiler
    /\ UNCHANGED <<started, enabled, jsonEnabled, watchdogThreshold, uv, turn,
                   clearing, agent>>

-----------------------------------------------------------------------------
(* Control messages, handled by receiveMessage: on the loop's thread       *)
(* between two turns, or on a core thread at any moment.                   *)
MayCommand ==
    /\ started
    /\ commands < MaxCommands
    /\ turn = 0 \/ (RemoteClient /\ ~clearing)
    /\ commands' = commands + 1
    /\ remote' = (remote \/ turn # 0)

CommandOn ==
    /\ MayCommand
    /\ pending' = pending \cup
          {IF jsonEnabled THEN "asyncStartProfiler" ELSE "asyncEnable"}
    /\ asked' = "on"
    /\ UNCHANGED <<started, enabled, jsonEnabled, watchdogThreshold, timer,
                   strayTimer, turn, v8, clearing, jsonSeen, starts>>

(* setEnabled(false) clears the threshold at once, while the profiler may  *)
(* still run; a core thread does so a moment after it sent the handle.     *)
CommandOff ==
    /\ MayCommand
    /\ pending' = pending \cup
          {IF jsonEnabled THEN "asyncStopProfiler" ELSE "asyncDisable"}
    /\ asked' = "off"
    /\ \/ turn = 0 /\ watchdogThreshold' = 0 /\ UNCHANGED clearing
       \/ /\ RemoteClient
          /\ ~clearing
          /\ clearing' = TRUE
          /\ UNCHANGED watchdogThreshold
    /\ UNCHANGED <<started, enabled, jsonEnabled, timer, strayTimer, turn, v8,
                   jsonSeen, starts>>

ClearThreshold ==
    /\ clearing
    /\ clearing' = FALSE
    /\ watchdogThreshold' = 0
    /\ UNCHANGED <<started, enabled, jsonEnabled, uv, turn, v8, agent>>

CommandJson ==
    /\ MayCommand
    /\ JsonUsed
    /\ jsonEnabled' \in BOOLEAN
    /\ jsonSeen' = (jsonSeen \/ jsonEnabled')
    /\ UNCHANGED <<started, enabled, watchdogThreshold, uv, turn, v8, clearing,
                   asked, starts>>

CommandThreshold ==
    /\ MayCommand
    /\ watchdogThreshold' \in Thresholds
    /\ UNCHANGED <<started, enabled, jsonEnabled, uv, turn, v8, clearing,
                   asked, jsonSeen, starts>>

-----------------------------------------------------------------------------
(* agent.start() and agent.stop(), on the loop's thread.                   *)

(* registerPushSource reads the property, plugin_start makes a new timer   *)
(* and new handles, and starts the profiler when enabled.                  *)
PluginStart ==
    /\ turn = 0
    /\ ~started
    /\ starts < MaxStarts
    /\ starts' = starts + 1
    /\ started' = TRUE
    /\ enabled' \in BOOLEAN
    /\ strayTimer' = (strayTimer \/ timer = "active")
    /\ pending' = {}
    /\ IF enabled' THEN StartTheProfiler /\ timer' = "active"
                   ELSE UNCHANGED v8 /\ timer' = "idle"
    /\ asked' = IF enabled' THEN "on" ELSE "off"
    /\ UNCHANGED <<jsonEnabled, watchdogThreshold, turn, clearing, jsonSeen,
                   remote, commands>>

(* A mistake for QuietWhenStopped to catch: only the handles are closed.   *)
CloseHandles ==
    /\ turn = 0
    /\ started
    /\ started' = FALSE
    /\ pending' = {}
    /\ asked' = "off"
    /\ UNCHANGED <<enabled, jsonEnabled, watchdogThreshold, timer, strayTimer,
                   turn, v8, clearing, jsonSeen, remote, commands, starts>>

(* plugin_stop closes the handles, and the timer only when enabled.        *)
PluginStop ==
    /\ turn = 0
    /\ started
    /\ started' = FALSE
    /\ IF enabled
       THEN /\ enabled' = FALSE
            /\ timer' = "none"
            /\ StopTheProfiler
       ELSE UNCHANGED <<enabled, timer, v8>>
    /\ pending' = {}
    /\ asked' = "off"
    /\ UNCHANGED <<jsonEnabled, watchdogThreshold, strayTimer, turn, clearing,
                   jsonSeen, remote, commands, starts>>

-----------------------------------------------------------------------------
Command == CommandOn \/ CommandOff \/ CommandJson \/ CommandThreshold

Pass == BeginPass \/ VisitHandle

Next ==
    \/ Pass \/ GatherData
    \/ Command \/ ClearThreshold
    \/ PluginStart \/ PluginStop

SafeSpec == Init /\ [][Next]_vars

(* libuv visits the handles and fires the timers; setEnabled returns.      *)
(* Nobody has to send a message or to start or stop the agent.             *)
Spec ==
    /\ SafeSpec
    /\ WF_vars(Pass)
    /\ WF_vars(GatherData)
    /\ WF_vars(ClearThreshold)

-----------------------------------------------------------------------------
(* The profiler runs only while profiling is enabled ("Check if we just    *)
(* got disabled and the profiler isn't running", nodeprofplugin.cpp:253):  *)
(* what the timer, the four callbacks and plugin_stop leave behind when    *)
(* profiling is off is a stopped profiler, with no watchdog armed.  That   *)
(* is so in text mode: it is part of TextInv.                              *)
ProfilerOffWhenDisabled == ~enabled => ~profiler /\ watchdog = 0

(* While profiling is enabled the profiler runs, in whatever mode and      *)
(* however on and off were interleaved (if the watchdog is built in).      *)
ProfilerOnWhenEnabled == WatchdogBuilt /\ enabled => profiler

(* The agent once stopped profiles nothing: no restart, and no timer that  *)
(* a restart has replaced, leaves the profiler or a timer running (as long *)
(* as json mode has not been used).                                        *)
QuietWhenStopped ==
    ~jsonSeen /\ ~started => ~profiler /\ timer # "active" /\ ~strayTimer

(* A request to turn profiling off is obeyed: if the last message asked    *)
(* for off, profiling is off from some point on (unless a core thread sent *)
(* a message into a pass over the handles).                                *)
OffIsObeyed ==
    []~jsonSeen /\ []~remote /\ <>[](asked = "off") => <>[]~enabled

(* A request to turn profiling on is obeyed, likewise.                     *)
OnIsObeyed == <>[](asked = "on") => <>[]enabled

(* A watchdog threshold set while profiling is enabled in text mode takes  *)
(* effect: the profiler ends up waiting for just that threshold.           *)
ThresholdTakesEffect ==
    \A th \in Thresholds :
        []~jsonSeen /\ <>[](enabled /\ watchdogThreshold = th)
            => <>[](watchdog = th)

(* The inductive invariant of text mode, until json mode is first switched *)
(* to: no handle of json mode is pending, and the timer, the profiler and  *)
(* `enabled' move together.                                                *)
TextInv ==
    /\ TypeOK
    /\ ~jsonEnabled
    /\ pending \subseteq {"asyncEnable", "asyncDisable"}
    /\ timer = "active" <=> enabled
    /\ ~strayTimer
    /\ enabled => started
    /\ pending # {} => started
    /\ ProfilerOffWhenDisabled

TextModeInv == TypeOK /\ (~jsonSeen => TextInv)
=============================================================================
