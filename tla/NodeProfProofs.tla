--------------------------- MODULE NodeProfProofs ---------------------------
(***************************************************************************)
(* Proofs about NodeProf in text mode, with or without a remote client or  *)
(* the watchdog, for any number of messages and restarts.                  *)
(***************************************************************************)
EXTENDS NodeProf, TLAPS

LEMMA TextInvInit ==
    Init => TextInv
  <1> SUFFICES ASSUME Init PROVE TextInv
    OBVIOUS
  <1>1. commands \in 0..MaxCommands /\ starts \in 0..MaxStarts
    BY ProfConstants DEF Init
  <1>2. TypeOK
    <2>1. /\ turn \in 0..4
          /\ watchdogThreshold \in Thresholds /\ watchdog \in Thresholds
      BY ProfConstants DEF Init
    <2>2. pending \subseteq Handles
      BY DEF Init
    <2> QED
      BY <1>1, <2>1, <2>2 DEF Init, TypeOK
  <1>3. timer # "active" /\ ~enabled /\ pending = {}
    BY DEF Init
  <1>4. ~jsonEnabled /\ ~strayTimer /\ ~profiler /\ watchdog = 0
    BY DEF Init
  <1> QED
    BY <1>2, <1>3, <1>4 DEF TextInv, ProfilerOffWhenDisabled

LEMMA TextInvStep ==
    ASSUME TextInv, [Next]_vars, ~jsonSeen'
    PROVE  TextInv'
  <1> USE ProfConstants DEF TextInv, TypeOK, ProfilerOffWhenDisabled, Handles,
          Handle
  <1>1. ASSUME BeginPass PROVE TextInv'
    BY <1>1 DEF BeginPass, uv, v8, agent
  <1>2. ASSUME VisitHandle PROVE TextInv'
    <2>1. /\ turn \in 1..4
          /\ turn' = (turn + 1) % 5
          /\ pending' = pending \ {Handle[turn]}
          /\ UNCHANGED <<started, jsonEnabled, watchdogThreshold, strayTimer,
                         clearing, agent>>
      BY <1>2 DEF VisitHandle
    <2>2. turn' \in 0..4
      BY <2>1
    <2>3. CASE turn = 2 /\ Handle[turn] \in pending
      <3>1. EnableOnV8Thread
        BY <1>2, <2>3 DEF VisitHandle, Callback
      <3>2. started
        BY <2>3
      <3> QED
        BY <2>1, <2>2, <3>1, <3>2 DEF EnableOnV8Thread, StartTheProfiler,
                                StartCpuProfiling, v8, agent
    <2>4. CASE turn = 4 /\ Handle[turn] \in pending
      <3>1. DisableOnV8Thread
        BY <1>2, <2>4 DEF VisitHandle, Callback
      <3> QED
        BY <2>1, <2>2, <3>1 DEF DisableOnV8Thread, StopTheProfiler, v8, agent
    <2>5. CASE Handle[turn] \notin pending
      <3>1. UNCHANGED <<enabled, profiler, watchdog, timer>>
        BY <1>2, <2>5 DEF VisitHandle, v8
      <3>2. pending' = pending
        BY <2>1, <2>5
      <3> QED
        BY <2>1, <2>2, <3>1, <3>2 DEF agent
    <2> QED
      BY <2>1, <2>3, <2>4, <2>5
  <1>3. ASSUME GatherData PROVE TextInv'
    BY <1>3 DEF GatherData, StartCpuProfiling, uv, agent
  <1> DEFINE counted == commands' \in 0..MaxCommands /\ remote' \in BOOLEAN
  <1>c. MayCommand => started /\ counted
    BY DEF MayCommand
  <1> HIDE DEF counted
  <1>4. ASSUME CommandOn PROVE TextInv'
    <2>1. started /\ counted
      BY <1>4, <1>c DEF CommandOn
    <2>2. pending' = pending \cup {"asyncEnable"}
      BY <1>4 DEF CommandOn
    <2> QED
      BY <1>4, <2>1, <2>2 DEF CommandOn, v8, counted
  <1>5. ASSUME CommandOff PROVE TextInv'
    <2>1. started /\ counted
      BY <1>5, <1>c DEF CommandOff
    <2>2. pending' = pending \cup {"asyncDisable"}
      BY <1>5 DEF CommandOff
    <2> QED
      <3>1. /\ watchdogThreshold' \in Thresholds
            /\ clearing' \in BOOLEAN
            /\ asked' = "off"
            /\ UNCHANGED <<started, enabled, jsonEnabled, timer, strayTimer,
                           turn, profiler, watchdog, jsonSeen, starts>>
        BY <1>5 DEF CommandOff, v8
      <3> QED
        BY <2>1, <2>2, <3>1 DEF counted
  <1>6. ASSUME CommandJson PROVE TextInv'
    BY <1>6, <1>c DEF CommandJson, uv, v8, counted
  <1>7. ASSUME CommandThreshold PROVE TextInv'
    BY <1>7, <1>c DEF CommandThreshold, uv, v8, counted
  <1>8. ASSUME ClearThreshold PROVE TextInv'
    BY <1>8 DEF ClearThreshold, uv, v8, agent
  <1>9. ASSUME PluginStart PROVE TextInv'
    <2>1. /\ started' = TRUE /\ enabled' \in BOOLEAN /\ pending' = {}
          /\ starts' \in 0..MaxStarts /\ asked' \in {"on", "off"}
          /\ UNCHANGED <<jsonEnabled, watchdogThreshold, turn, clearing,
                         jsonSeen, remote, commands>>
      BY <1>9 DEF PluginStart
    <2>2. ~enabled /\ timer # "active"
      BY <1>9 DEF PluginStart
    <2>3. ~strayTimer' /\ strayTimer' \in BOOLEAN
      BY <1>9, <2>2 DEF PluginStart
    <2>4. CASE enabled'
      <3>1. StartTheProfiler /\ timer' = "active"
        BY <1>9, <2>4 DEF PluginStart
      <3> QED
        BY <2>1, <2>3, <2>4, <3>1 DEF StartTheProfiler, StartCpuProfiling
    <2>5. CASE ~enabled'
      <3>1. UNCHANGED <<profiler, watchdog>> /\ timer' = "idle"
        BY <1>9, <2>5 DEF PluginStart, v8
      <3> QED
        BY <2>1, <2>2, <2>3, <2>5, <3>1
    <2> QED
      BY <2>4, <2>5
  <1>10. ASSUME PluginStop PROVE TextInv'
    BY <1>10 DEF PluginStop, StopTheProfiler, v8
  <1>11. CASE UNCHANGED vars
    BY <1>11 DEF vars, uv, v8, agent
  <1> QED
    BY <1>1, <1>2, <1>3, <1>4, <1>5, <1>6, <1>7, <1>8, <1>9, <1>10, <1>11
    DEF Next, Pass, Command

-----------------------------------------------------------------------------
(* In either mode: types, and the profiler runs while profiling is on.     *)
OnInv == TypeOK /\ ProfilerOnWhenEnabled

LEMMA OnInvStep ==
    ASSUME OnInv, [Next]_vars
    PROVE  OnInv'
  <1> USE ProfConstants DEF OnInv, TypeOK, ProfilerOnWhenEnabled
  <1>1. ASSUME BeginPass PROVE OnInv'
    BY <1>1 DEF BeginPass, uv, v8, agent
  <1>2. ASSUME VisitHandle PROVE OnInv'
    <2>1. /\ turn' = (turn + 1) % 5 /\ turn' \in 0..4
          /\ pending' \subseteq Handles
          /\ UNCHANGED <<started, jsonEnabled, watchdogThreshold, strayTimer,
                         clearing, asked, jsonSeen, remote, commands, starts>>
      BY <1>2 DEF VisitHandle, agent
    <2>2. CASE Handle[turn] \notin pending
      BY <1>2, <2>1, <2>2 DEF VisitHandle, v8
    <2>3. CASE Handle[turn] \in pending
      <3>1. \/ StartProfilerWithoutTiming \/ EnableOnV8Thread
            \/ StopProfilerWithoutTiming \/ DisableOnV8Thread
        <4>1. Callback(Handle[turn]) /\ turn \in 1..4
          BY <1>2, <2>3 DEF VisitHandle
        <4>2. CASE turn = 1
          BY <4>1, <4>2 DEF Callback, Handle
        <4>3. CASE turn = 2
          BY <4>1, <4>3 DEF Callback, Handle
        <4>4. CASE turn = 3
          BY <4>1, <4>4 DEF Callback, Handle
        <4>5. CASE turn = 4
          BY <4>1, <4>5 DEF Callback, Handle
        <4> QED
          BY <4>1, <4>2, <4>3, <4>4, <4>5
      <3>s. StartTheProfiler =>
               /\ profiler' \in BOOLEAN /\ watchdog' \in Thresholds
               /\ WatchdogBuilt => profiler'
        BY DEF StartTheProfiler, StartCpuProfiling
      <3>2. CASE StartProfilerWithoutTiming
        <4>1. CASE enabled
          BY <2>1, <3>2, <4>1 DEF StartProfilerWithoutTiming, v8
        <4>2. CASE ~enabled
          <5>1. enabled' = TRUE /\ StartTheProfiler /\ timer' = timer
            BY <3>2, <4>2 DEF StartProfilerWithoutTiming
          <5> QED
            BY <2>1, <3>s, <5>1
        <4> QED
          BY <4>1, <4>2
      <3>3. CASE EnableOnV8Thread
        <4>1. CASE enabled
          BY <2>1, <3>3, <4>1 DEF EnableOnV8Thread, v8
        <4>2. CASE ~enabled
          <5>1. enabled' = TRUE /\ StartTheProfiler /\ timer' = "active"
            BY <3>3, <4>2 DEF EnableOnV8Thread
          <5> QED
            BY <2>1, <3>s, <5>1
        <4> QED
          BY <4>1, <4>2
      <3>4. CASE StopProfilerWithoutTiming
        <4>1. /\ enabled' = FALSE /\ timer' = timer
              /\ \/ profiler' = FALSE /\ watchdog' = 0
                 \/ profiler' = profiler /\ watchdog' = watchdog
          BY <3>4 DEF StopProfilerWithoutTiming, StopTheProfiler, v8
        <4>2. profiler' \in BOOLEAN /\ watchdog' \in Thresholds
          BY <4>1
        <4> QED
          BY <2>1, <4>1, <4>2
      <3>5. CASE DisableOnV8Thread
        <4>1. /\ enabled' = FALSE /\ timer' \in {timer, "idle"}
              /\ \/ profiler' = FALSE /\ watchdog' = 0
                 \/ profiler' = profiler /\ watchdog' = watchdog
          BY <3>5 DEF DisableOnV8Thread, StopTheProfiler, v8
        <4>2. profiler' \in BOOLEAN /\ watchdog' \in Thresholds
          BY <4>1
        <4> QED
          BY <2>1, <4>1, <4>2
      <3> QED
        BY <3>1, <3>2, <3>3, <3>4, <3>5
    <2> QED
      BY <2>2, <2>3
  <1>3. ASSUME GatherData PROVE OnInv'
    <2>1. TypeOK'
      BY <1>3 DEF GatherData, StartTheProfiler, StartCpuProfiling, uv, agent
    <2>2. ProfilerOnWhenEnabled'
      BY <1>3 DEF GatherData, StartTheProfiler, StartCpuProfiling, uv, agent
    <2> QED
      BY <2>1, <2>2
  <1> DEFINE counted == commands' \in 0..MaxCommands /\ remote' \in BOOLEAN
  <1>c. MayCommand => counted
    BY DEF MayCommand
  <1> HIDE DEF counted
  <1>4. ASSUME CommandOn \/ CommandOff PROVE OnInv'
    <2>1. /\ counted
          /\ watchdogThreshold' \in Thresholds /\ clearing' \in BOOLEAN
          /\ asked' \in {"on", "off"}
          /\ UNCHANGED <<started, enabled, jsonEnabled, timer, strayTimer,
                         turn, profiler, watchdog, jsonSeen, starts>>
      BY <1>4, <1>c DEF CommandOn, CommandOff, v8
    <2>2. pending' \subseteq Handles
      BY <1>4 DEF CommandOn, CommandOff, Handles, Handle
    <2> QED
      BY <2>1, <2>2 DEF counted
  <1>5. ASSUME CommandJson \/ CommandThreshold PROVE OnInv'
    BY <1>5, <1>c DEF CommandJson, CommandThreshold, uv, v8, counted
  <1>6. ASSUME ClearThreshold PROVE OnInv'
    <2>1. /\ clearing' = FALSE /\ watchdogThreshold' = 0
          /\ UNCHANGED <<started, enabled, jsonEnabled, turn, profiler,
                         watchdog, timer, strayTimer, pending, asked,
                         jsonSeen, remote, commands, starts>>
      BY <1>6, Zenon DEF ClearThreshold, uv, v8, agent
    <2>2. clearing' \in BOOLEAN /\ watchdogThreshold' \in Thresholds
      BY <2>1
    <2>3. TypeOK'
      BY <2>1, <2>2
    <2>4. ProfilerOnWhenEnabled'
      BY <2>1
    <2> QED
      BY <2>3, <2>4
  <1>7. ASSUME PluginStart PROVE OnInv'
    <2>1. /\ started' = TRUE /\ enabled' \in BOOLEAN /\ pending' = {}
          /\ starts' \in 0..MaxStarts /\ asked' \in {"on", "off"}
          /\ strayTimer' \in BOOLEAN
          /\ UNCHANGED <<jsonEnabled, watchdogThreshold, turn, clearing,
                         jsonSeen, remote, commands>>
      BY <1>7 DEF PluginStart
    <2>2. CASE enabled'
      <3>1. StartTheProfiler /\ timer' = "active"
        BY <1>7, <2>2 DEF PluginStart
      <3> QED
        BY <2>1, <2>2, <3>1 DEF StartTheProfiler, StartCpuProfiling
    <2>3. CASE ~enabled'
      <3>1. UNCHANGED <<profiler, watchdog>> /\ timer' = "idle"
        BY <1>7, <2>3 DEF PluginStart, v8
      <3> QED
        BY <2>1, <2>3, <3>1
    <2> QED
      BY <2>2, <2>3
  <1>8. ASSUME PluginStop PROVE OnInv'
    BY <1>8 DEF PluginStop, StopTheProfiler, v8
  <1>9. CASE UNCHANGED vars
    BY <1>9 DEF vars, uv, v8, agent
  <1> QED
    BY <1>1, <1>2, <1>3, <1>4, <1>5, <1>6, <1>7, <1>8, <1>9
    DEF Next, Pass, Command

(* The profiler runs while profiling is enabled, in whatever mode, if the  *)
(* watchdog is built in.                                                   *)
THEOREM ProfilerStaysOn ==
    SafeSpec => []ProfilerOnWhenEnabled
  <1>1. Init => OnInv
    BY TextInvInit DEF Init, TextInv, OnInv, ProfilerOnWhenEnabled
  <1>2. OnInv /\ [Next]_vars => OnInv'
    BY OnInvStep
  <1>3. OnInv => ProfilerOnWhenEnabled
    BY DEF OnInv
  <1> QED
    BY <1>1, <1>2, <1>3, PTL DEF SafeSpec

-----------------------------------------------------------------------------
(* In text mode the timer, the profiler and `enabled' move together.       *)
THEOREM TextModeInvariant == SafeSpec => []TextModeInv
  <1>1. Init => TextModeInv /\ OnInv
    BY TextInvInit DEF Init, TextModeInv, TextInv, OnInv,
                       ProfilerOnWhenEnabled
  <1>2. TextModeInv /\ OnInv /\ [Next]_vars => TextModeInv' /\ OnInv'
    <2>1. [Next]_vars /\ jsonSeen => jsonSeen'
      BY DEF Next, Pass, Command, BeginPass, VisitHandle, GatherData,
             CommandOn, CommandOff, CommandJson, CommandThreshold,
             ClearThreshold, PluginStart, PluginStop, vars, agent
    <2> QED
      BY <2>1, TextInvStep, OnInvStep DEF TextModeInv, OnInv
  <1> QED
    BY <1>1, <1>2, PTL DEF SafeSpec

(* As long as json mode has not been used, the V8 profiler never runs, nor *)
(* is the watchdog armed, while profiling is disabled: not after           *)
(* disable(), not after a late timer, not after plugin_stop, whoever sends *)
(* the messages.                                                           *)
THEOREM TextProfilerOff ==
    SafeSpec => [](~jsonSeen => ProfilerOffWhenDisabled)
  <1>1. TextModeInv => (~jsonSeen => ProfilerOffWhenDisabled)
    BY DEF TextModeInv, TextInv
  <1> QED
    BY <1>1, TextModeInvariant, PTL

(* As long as json mode has not been used, a stopped agent profiles        *)
(* nothing, however often it was started and stopped.                      *)
THEOREM TextQuiet ==
    SafeSpec => []QuietWhenStopped
  <1>1. TextModeInv => QuietWhenStopped
    BY DEF TextModeInv, TextInv, QuietWhenStopped, ProfilerOffWhenDisabled
  <1> QED
    BY <1>1, TextModeInvariant, PTL
=============================================================================
