-------------------------- MODULE EventLoopProofs --------------------------
(***************************************************************************)
(* Proofs about EventLoop, for any latencies and any number of starts and  *)
(* enablings: handles follow the switches, and an agent that is started    *)
(* once measures each turn of the loop and each collection once.           *)
(***************************************************************************)
EXTENDS EventLoop, TLAPS

LEMMA LoopInvInit == Init => LoopInv
<1> SUFFICES ASSUME Init PROVE LoopInv
  OBVIOUS
<1> USE EventLoopConstants
<1>1. latencyLoops \in 0..MaxEnables /\ starts \in 0..MaxStarts
  BY DEF Init
<1>2. num \in 0..MaxTicks
  BY DEF Init
<1>3. intervals \subseteq Interval /\ keepAlive \subseteq Interval
  BY DEF Init, Interval
<1>4. latencyData \in [count : Nat, min : Nat, max : Nat, total : Nat]
  BY DEF Init, NoSamples
<1>5. samples \in Seq(Latency)
  BY DEF Init
<1>6. checks \in Nat /\ gcHooks \in Nat /\ gcReports \in Nat
      /\ heapTimers \in Nat /\ heapClosing \in Nat
  BY DEF Init
<1>7. TypeOK
  BY Zenon, <1>1, <1>2, <1>3, <1>4, <1>5, <1>6 DEF Init, TypeOK
<1>8. IntervalsMatch
  BY DEF Init, IntervalsMatch
<1>9. PluginsFollow
  BY DEF Init, PluginsFollow
<1> QED BY <1>7, <1>8, <1>9 DEF LoopInv

(* What the parts of the module leave to each other: the latency samples,  *)
(* the intervals and the agent.                                            *)
LatencyType ==
    /\ checks \in Nat
    /\ latencyData \in [count : Nat, min : Nat, max : Nat, total : Nat]
    /\ samples \in Seq(Latency)

IntervalType ==
    /\ latencyRunning \in BOOLEAN
    /\ latencyLoops \in 0..MaxEnables
    /\ intervals \subseteq Interval
    /\ keepAlive \subseteq Interval

AgentType ==
    /\ running \in BOOLEAN
    /\ starts \in 0..MaxStarts
    /\ ticking \in BOOLEAN
    /\ tickStart \in {"unset", "lastCheck", "earlier"}
    /\ num \in 0..MaxTicks
    /\ longTick \in BOOLEAN
    /\ gcHooks \in Nat /\ gcReports \in Nat
    /\ heapTimers \in Nat /\ heapClosing \in Nat

PhaseType ==
    /\ phase \in {"timers", "prepare", "poll", "immediates",
                  "closing", "exit", "exited"}
    /\ application \in BOOLEAN

AgentInv == AgentType /\ PluginsFollow
IntervalInv == IntervalType /\ IntervalsMatch

LEMMA StopKeeps == AgentInv /\ StopAgent => AgentInv'
<1> SUFFICES ASSUME AgentInv, StopAgent PROVE AgentInv'
  OBVIOUS
<1> USE DEF AgentInv, AgentType, PluginsFollow, StopAgent
<1>1. CASE running
  <2>1. heapTimers' = 0 /\ heapClosing' \in Nat
    BY <1>1 DEF StopPlugins
  <2> QED BY <1>1, <2>1 DEF StopPlugins, gc
<1>2. CASE ~running
  BY <1>2 DEF ticks, gc, heap
<1> QED BY <1>1, <1>2

LEMMA StartKeeps == AgentInv /\ Start => AgentInv'
<1> SUFFICES ASSUME AgentInv, Start PROVE AgentInv'
  OBVIOUS
<1> USE EventLoopConstants
        DEF AgentInv, AgentType, PluginsFollow, Start, StartPlugins
<1>1. starts' \in 0..MaxStarts /\ gcHooks' = starts' /\ heapTimers' = 1
  OBVIOUS
<1> QED BY <1>1

LEMMA ClearKeeps ==
    ASSUME IntervalInv, latencyRunning, phase # "exited", ClearIntervals
    PROVE  /\ intervals' = {} /\ keepAlive' = {}
BY DEF IntervalInv, IntervalType, IntervalsMatch, ClearIntervals

-----------------------------------------------------------------------------
LEMMA LoopInvStep == LoopInv /\ [Next]_vars => LoopInv'
<1> SUFFICES ASSUME PhaseType, LatencyType, IntervalInv, AgentInv,
                    [Next]_vars
             PROVE  PhaseType' /\ LatencyType' /\ IntervalInv' /\ AgentInv'
  BY DEF LoopInv, TypeOK, PhaseType, LatencyType, IntervalInv, IntervalType,
         AgentInv, AgentType
<1> USE EventLoopConstants
<1>a. UNCHANGED agent => AgentInv'
  BY DEF AgentInv, AgentType, PluginsFollow, agent, ticks, gc, heap
<1>b. ASSUME UNCHANGED <<latencyRunning, latencyLoops, intervals, keepAlive>>,
             phase # "exited"
      PROVE  IntervalInv'
  BY <1>b DEF IntervalInv, IntervalType, IntervalsMatch
<1>c. UNCHANGED <<checks, latencyData, samples>> => LatencyType'
  BY DEF LatencyType
<1>d. UNCHANGED <<phase, application>> => PhaseType'
  BY DEF PhaseType
<1>1. ASSUME NEW i \in intervals, FireInterval(i)
      PROVE  PhaseType' /\ LatencyType' /\ IntervalInv' /\ AgentInv'
  <2>1. LatencyType'
    <3>1. CASE i[1] = "check"
      BY <1>1, <3>1 DEF FireInterval, LatencyCheck, LatencyType
    <3>2. CASE i[1] # "check"
      BY <1>1, <3>2 DEF FireInterval, LatencyReport, LatencyType, NoSamples
    <3> QED BY <3>1, <3>2
  <2> QED BY <1>1, <2>1, <1>a, <1>b, <1>d DEF FireInterval
<1>2. ASSUME NEW l \in Latency, RunImmediate(l)
      PROVE  PhaseType' /\ LatencyType' /\ IntervalInv' /\ AgentInv'
  <2>1. checks' \in Nat /\ samples' \in Seq(Latency)
    BY <1>2 DEF RunImmediate, LatencyType
  <2>2. latencyData' \in [count : Nat, min : Nat, max : Nat, total : Nat]
    BY <1>2 DEF RunImmediate, Measure, LatencyType
  <2> QED BY <1>2, <2>1, <2>2, <1>a, <1>b, <1>d
          DEF RunImmediate, LatencyType
<1>3. CASE GetLoopInformation
  <2>1. AgentInv'
    <3>1. num' = 0 /\ 0 \in 0..MaxTicks
      BY <1>3 DEF GetLoopInformation
    <3> QED BY <1>3, <3>1
            DEF GetLoopInformation, AgentInv, AgentType, PluginsFollow, gc,
                heap
  <2> QED BY <1>3, <2>1, <1>b, <1>c, <1>d DEF GetLoopInformation, latency
<1>4. CASE CollectGarbage
  BY <1>4, <1>b, <1>c, <1>d
     DEF CollectGarbage, latency, AgentInv, AgentType, PluginsFollow, ticks,
         heap
<1>5. CASE StartCall
  BY <1>5, <1>b, <1>c, <1>d, StartKeeps DEF StartCall, InCallback, latency
<1>6. CASE StopCall
  BY <1>6, <1>b, <1>c, <1>d, StopKeeps DEF StopCall, InCallback, latency
<1>7. CASE EnableEventLoop
  <2> DEFINE n == latencyLoops + 1
  <2>1. n \in 0..MaxEnables /\ n > 0
    BY <1>7 DEF EnableEventLoop, IntervalInv, IntervalType
  <2>2. intervals = {} /\ keepAlive = {}
    BY <1>7 DEF EnableEventLoop, InCallback, IntervalInv, IntervalsMatch
  <2>3. /\ latencyRunning' = TRUE /\ latencyLoops' = n
        /\ intervals' = Kind \X {n} /\ keepAlive' = Kind \X {n}
        /\ UNCHANGED <<phase, application, checks, latencyData, samples,
                       agent>>
    BY <1>7, <2>2 DEF EnableEventLoop
  <2>4. Kind \X {n} \subseteq Interval
    BY <2>1 DEF Interval
  <2> HIDE DEF n
  <2>5. {i \in Kind \X {n} : i[2] > 0} = Kind \X {n}
    BY <2>1
  <2>6. IntervalInv'
    BY <2>1, <2>3, <2>4, <2>5 DEF IntervalInv, IntervalType, IntervalsMatch
  <2> QED BY <2>3, <2>6, <1>a, <1>c, <1>d
<1>8. CASE DisableEventLoop
  <2>1. intervals' = {} /\ keepAlive' = {}
    BY <1>8, ClearKeeps DEF DisableEventLoop, InCallback
  <2>2. /\ latencyRunning' = FALSE /\ latencyLoops' = latencyLoops
        /\ UNCHANGED <<phase, application, checks, latencyData, samples,
                       agent>>
    BY <1>8 DEF DisableEventLoop
  <2>3. IntervalInv'
    BY <2>1, <2>2 DEF IntervalInv, IntervalType, IntervalsMatch
  <2> QED BY <2>2, <2>3, <1>a, <1>c, <1>d
<1>9. CASE ApplicationEnds
  BY <1>9, <1>a, <1>b, <1>c
     DEF ApplicationEnds, InCallback, latency, PhaseType
<1>10. CASE Prepare \/ Poll \/ Check \/ Close \/ NextIteration
  <2>1. PhaseType' /\ phase # "exited"
    BY <1>10 DEF Prepare, Poll, Check, Close, NextIteration, Go, PhaseType
  <2>2. UNCHANGED latency
    BY <1>10 DEF Prepare, Poll, Check, Close, NextIteration
  <2>3. AgentInv'
    <3>1. CASE Prepare
      BY <3>1 DEF Prepare, OnPrepare, AgentInv, AgentType, PluginsFollow,
                  ticks, gc, heap
    <3>2. CASE Check
      BY <3>2 DEF Check, OnCheck, AgentInv, AgentType, PluginsFollow, gc, heap
    <3>3. CASE NextIteration
      BY <3>3 DEF NextIteration, AgentInv, AgentType, PluginsFollow, ticks, gc
    <3>4. CASE Poll \/ Close
      BY <3>4, <1>a DEF Poll, Close
    <3> QED BY <1>10, <3>1, <3>2, <3>3, <3>4
  <2> QED BY <2>1, <2>2, <2>3, <1>b, <1>c DEF latency
<1>11. CASE Exit
  <2>1. phase = "exit" /\ phase' = "exited" /\ UNCHANGED application
    BY <1>11 DEF Exit, Go
  <2>2. UNCHANGED <<checks, latencyData, samples, latencyRunning,
                    latencyLoops>>
    BY <1>11 DEF Exit, latency
  <2>3. intervals' \subseteq Interval /\ keepAlive' \subseteq Interval
    BY <1>11 DEF Exit, ClearIntervals, IntervalInv, IntervalType, latency
  <2>4. AgentInv'
    BY <1>11, <1>a, StopKeeps DEF Exit
  <2>5. IntervalInv'
    BY <2>1, <2>2, <2>3 DEF IntervalInv, IntervalType, IntervalsMatch
  <2> QED BY <2>1, <2>2, <2>4, <2>5, <1>c DEF PhaseType
<1>12. CASE UNCHANGED vars
  <2>1. UNCHANGED <<phase, application, checks, latencyData, samples,
                    latencyRunning, latencyLoops, intervals, keepAlive, agent>>
    BY <1>12 DEF vars, latency
  <2> QED BY <2>1, <1>a, <1>c, <1>d
          DEF IntervalInv, IntervalType, IntervalsMatch
<1> QED BY <1>1, <1>2, <1>3, <1>4, <1>5, <1>6, <1>7, <1>8, <1>9, <1>10, <1>11,
           <1>12 DEF Next, LoopStep

(* Handles follow the switches, for any number of starts and enablings.    *)
THEOREM LoopInvariant == Spec => []LoopInv
<1>1. Init => LoopInv
  BY LoopInvInit
<1>2. LoopInv /\ [Next]_vars => LoopInv'
  BY LoopInvStep
<1> QED BY <1>1, <1>2, PTL DEF Spec

-----------------------------------------------------------------------------
(* While the agent has been started only once: tick_start is older than    *)
(* the last check phase only once the handles are stopped for good.        *)
TickInv ==
    /\ running => starts > 0
    /\ starts = 0 => tickStart = "unset"
    /\ starts <= 1 /\ ticking => tickStart # "earlier"
    /\ starts <= 1 => ~longTick
    /\ gcReports <= starts

LEMMA TickInvStep ==
    ASSUME LoopInv, TickInv, [Next]_vars
    PROVE  TickInv'
<1> USE DEF TickInv, LoopInv, TypeOK, PluginsFollow
<1>1. CASE UNCHANGED <<running, starts, ticks, gcReports>>
  BY <1>1 DEF ticks
<1>2. CASE GetLoopInformation
  BY <1>2 DEF GetLoopInformation, gc
<1>3. CASE CollectGarbage
  BY <1>3 DEF CollectGarbage, ticks
<1>4. CASE Start
  BY <1>4 DEF Start, StartPlugins
<1>5. CASE StopAgent
  BY <1>5 DEF StopAgent, StopPlugins, ticks, gc
<1>6. CASE Prepare
  BY <1>6 DEF Prepare, OnPrepare, ticks, gc
<1>7. CASE Check
  BY <1>7 DEF Check, OnCheck, gc
<1>8. CASE Exit
  BY <1>1, <1>5, <1>8 DEF Exit, agent, gc
<1>9. CASE UNCHANGED vars
  BY <1>1, <1>9 DEF vars, agent, gc
<1> QED BY <1>1, <1>2, <1>3, <1>4, <1>5, <1>6, <1>7, <1>8, <1>9
        DEF Next, LoopStep, FireInterval, RunImmediate, StartCall, StopCall,
            EnableEventLoop, DisableEventLoop, ApplicationEnds, Poll, Close,
            NextIteration, agent, gc

(* An agent that was started once measures each turn of the loop and       *)
(* reports each collection once, whenever it is stopped.                   *)
THEOREM OnceWhenStartedOnce == Spec => []MonitoredOnce
<1>1. Init => LoopInv /\ TickInv
  BY LoopInvInit DEF Init, TickInv
<1>2. LoopInv /\ TickInv /\ [Next]_vars => LoopInv' /\ TickInv'
  BY LoopInvStep, TickInvStep
<1>3. LoopInv /\ TickInv => MonitoredOnce
  BY DEF TickInv, MonitoredOnce, LoopInv, TypeOK
<1> QED BY <1>1, <1>2, <1>3, PTL DEF Spec

-----------------------------------------------------------------------------
(* f is Sums(s): that there is such a function, and only one, is not       *)
(* proved for all sequences, but of the samples as they are taken.         *)
AreSums(s, f) ==
    f = [i \in 0..Len(s) |-> IF i = 0 THEN 0 ELSE f[i - 1] + s[i]]

LEMMA SumsAreSums ==
    ASSUME NEW s, \E f : AreSums(s, f)
    PROVE  AreSums(s, Sums(s))
  <1>1. PICK f : AreSums(s, f)
    OBVIOUS
  <1>2. Sums(s) = CHOOSE g : AreSums(s, g)
    BY Zenon DEF Sums, AreSums
  <1> QED
    BY <1>1, <1>2, Zenon

(* One number more adds one sum.                                           *)
LEMMA SumsExtend ==
    ASSUME NEW S \in SUBSET Nat, NEW s \in Seq(S), NEW l \in S, NEW f,
           AreSums(s, f)
    PROVE  AreSums(Append(s, l),
                   [i \in 0..Len(s) + 1 |->
                        IF i = Len(s) + 1 THEN f[Len(s)] + l ELSE f[i]])
  <1> DEFINE t == Append(s, l)
             g == [i \in 0..Len(s) + 1 |->
                       IF i = Len(s) + 1 THEN f[Len(s)] + l ELSE f[i]]
  <1>1. PICK n \in Nat : n = Len(s)
    OBVIOUS
  <1>2. Len(t) = n + 1 /\ t[n + 1] = l /\ \A i \in 1..n : t[i] = s[i]
    BY <1>1
  <1>3. f = [i \in 0..n |-> IF i = 0 THEN 0 ELSE f[i - 1] + s[i]]
    BY <1>1 DEF AreSums
  <1>4. g = [i \in 0..n + 1 |-> IF i = n + 1 THEN f[n] + l ELSE f[i]]
    BY <1>1
  <1> HIDE DEF t, g
  <1>5. ASSUME NEW i \in 0..n + 1
        PROVE  g[i] = IF i = 0 THEN 0 ELSE g[i - 1] + t[i]
    <2>1. CASE i = n + 1
      <3>1. i # 0 /\ i - 1 = n /\ n \in 0..n + 1 /\ n # n + 1
        BY <2>1, <1>1
      <3> QED
        BY <2>1, <3>1, <1>2, <1>4
    <2>2. CASE i # n + 1 /\ i # 0
      <3>1. i \in 0..n /\ i \in 1..n /\ i - 1 \in 0..n + 1 /\ i - 1 # n + 1
        BY <2>2, <1>1
      <3> QED
        BY <2>2, <3>1, <1>2, <1>3, <1>4
    <2>3. CASE i = 0
      <3>1. 0 \in 0..n /\ 0 # n + 1
        BY <1>1
      <3> QED
        BY <2>3, <3>1, <1>3, <1>4
    <2> QED
      BY <2>1, <2>2, <2>3
  <1>6. g = [i \in 0..n + 1 |-> IF i = 0 THEN 0 ELSE g[i - 1] + t[i]]
    BY <1>4, <1>5
  <1> QED
    BY <1>2, <1>6 DEF AreSums, t, g

LEMMA SumsShrink ==
    ASSUME NEW S \in SUBSET Nat, NEW s \in Seq(S), NEW l \in S, NEW g,
           AreSums(Append(s, l), g)
    PROVE  /\ AreSums(s, [i \in 0..Len(s) |-> g[i]])
           /\ g[Len(s) + 1] = g[Len(s)] + l
  <1> DEFINE t == Append(s, l)
             f == [i \in 0..Len(s) |-> g[i]]
  <1>1. PICK n \in Nat : n = Len(s)
    OBVIOUS
  <1>2. Len(t) = n + 1 /\ t[n + 1] = l /\ \A i \in 1..n : t[i] = s[i]
    BY <1>1
  <1>3. g = [i \in 0..n + 1 |-> IF i = 0 THEN 0 ELSE g[i - 1] + t[i]]
    BY <1>2 DEF AreSums
  <1>4. f = [i \in 0..n |-> g[i]]
    BY <1>1
  <1> HIDE DEF t, f
  <1>5. g[n + 1] = g[n] + l
    <2>1. n + 1 \in 0..n + 1 /\ n + 1 # 0 /\ (n + 1) - 1 = n
      BY <1>1
    <2> QED
      BY <2>1, <1>2, <1>3
  <1>6. ASSUME NEW i \in 0..n
        PROVE  f[i] = IF i = 0 THEN 0 ELSE f[i - 1] + s[i]
    <2>1. i \in 0..n + 1
      BY <1>1
    <2>2. CASE i = 0
      BY <2>1, <2>2, <1>3, <1>4
    <2>3. CASE i # 0
      <3>1. i \in 1..n /\ i - 1 \in 0..n
        BY <2>3, <1>1
      <3> QED
        BY <2>1, <2>3, <3>1, <1>2, <1>3, <1>4
    <2> QED
      BY <2>2, <2>3
  <1>7. f = [i \in 0..n |-> IF i = 0 THEN 0 ELSE f[i - 1] + s[i]]
    BY <1>4, <1>6
  <1> QED
    BY <1>1, <1>5, <1>7 DEF AreSums, f

(* latencyData says of the samples what a report is to say of them.        *)
SampleInv ==
    /\ latencyData.count = Len(samples)
    /\ \E f : AreSums(samples, f)
    /\ \A f : AreSums(samples, f) => latencyData.total = f[Len(samples)]
    /\ latencyData.min <= Minute
    /\ \A i \in 1..Len(samples) :
          latencyData.min <= samples[i] /\ samples[i] <= latencyData.max
    /\ \/ samples = <<>> /\ latencyData.max = 0
       \/ \E i \in 1..Len(samples) : latencyData.max = samples[i]
    /\ \/ latencyData.min = Minute
       \/ \E i \in 1..Len(samples) : latencyData.min = samples[i]

(* It does when there is none.                                             *)
LEMMA NoSampleIsTaken ==
    /\ samples = <<>> /\ latencyData = NoSamples => SampleInv
    /\ samples' = <<>> /\ latencyData' = NoSamples => SampleInv'
  <1>1. /\ Len(<<>>) = 0
        /\ NoSamples.count = 0 /\ NoSamples.total = 0 /\ NoSamples.max = 0
        /\ NoSamples.min = Minute /\ Minute <= Minute
    BY EventLoopConstants DEF NoSamples
  <1>2. \E f : AreSums(<<>>, f)
    <2> DEFINE f == [i \in 0..0 |-> 0]
    <2>1. f = [i \in 0..Len(<<>>) |-> IF i = 0 THEN 0 ELSE f[i - 1] + <<>>[i]]
      BY <1>1
    <2> QED
      BY <2>1 DEF AreSums
  <1>3. ASSUME NEW f, AreSums(<<>>, f) PROVE f[0] = 0
    BY <1>1, <1>3 DEF AreSums
  <1>4. \A i \in 1..0 : FALSE
    OBVIOUS
  <1> QED
    BY <1>1, <1>2, <1>3, <1>4 DEF SampleInv

LEMMA SampleStep ==
    ASSUME LoopInv, SampleInv, [Next]_vars
    PROVE  SampleInv'
  <1>0. /\ samples \in Seq(Latency) /\ Latency \subseteq Nat /\ Minute \in Nat
        /\ latencyData \in [count : Nat, min : Nat, max : Nat, total : Nat]
    BY EventLoopConstants DEF LoopInv, TypeOK
  <1>1. ASSUME UNCHANGED <<latencyData, samples>> PROVE SampleInv'
    BY <1>1 DEF SampleInv
  <1>2. CASE LatencyReport
    BY <1>2, NoSampleIsTaken DEF LatencyReport
  <1>3. ASSUME NEW l \in Latency, RunImmediate(l) PROVE SampleInv'
    <2> DEFINE low == latencyData.min  high == latencyData.max
               total == latencyData.total
    <2>1. /\ samples' = Append(samples, l)
          /\ latencyData' =
                 [count |-> latencyData.count + 1,
                  min |-> IF l < low THEN l ELSE low,
                  max |-> IF l > high THEN l ELSE high,
                  total |-> total + l]
      BY <1>3 DEF RunImmediate, Measure
    <2>2. PICK n \in Nat : n = Len(samples)
      BY <1>0
    <2>3. /\ Len(samples') = n + 1 /\ samples'[n + 1] = l
          /\ \A i \in 1..n : samples'[i] = samples[i] /\ samples[i] \in Nat
          /\ \A i \in 1..(n + 1) : i \in 1..n \/ i = n + 1
      <3>1. Len(samples') = n + 1 /\ samples'[n + 1] = l
            /\ \A i \in 1..n : samples'[i] = samples[i]
        BY <1>0, <2>1, <2>2
      <3>2. \A i \in 1..n : samples[i] \in Latency
        BY <1>0, <2>2
      <3>3. \A i \in 1..(n + 1) : i \in 1..n \/ i = n + 1
        BY <2>2
      <3> QED
        BY <1>0, <3>1, <3>2, <3>3
    <2>4. low \in Nat /\ high \in Nat /\ total \in Nat /\ l \in Nat
      BY <1>0
    <2>5. /\ latencyData.count = n
          /\ \E f : AreSums(samples, f)
          /\ \A f : AreSums(samples, f) => total = f[n]
          /\ low <= Minute
          /\ \A i \in 1..n : low <= samples[i] /\ samples[i] <= high
          /\ \/ n = 0 /\ high = 0
             \/ \E i \in 1..n : high = samples[i]
          /\ \/ low = Minute
             \/ \E i \in 1..n : low = samples[i]
      BY <2>2 DEF SampleInv
    <2>6. /\ latencyData'.count = n + 1
          /\ latencyData'.min = IF l < low THEN l ELSE low
          /\ latencyData'.max = IF l > high THEN l ELSE high
          /\ latencyData'.total = total + l
      BY <2>1, <2>5
    <2> HIDE DEF low, high, total
    <2>7. \E f : AreSums(samples', f)
      <3>1. PICK f : AreSums(samples, f)
        BY <2>5
      <3> QED
        BY <3>1, <1>0, <2>1, SumsExtend
    <2>8. ASSUME NEW g, AreSums(samples', g)
          PROVE  latencyData'.total = g[n + 1]
      <3>1. /\ AreSums(samples, [i \in 0..n |-> g[i]])
            /\ g[n + 1] = g[n] + l
        <4>1. AreSums(Append(samples, l), g)
          BY <2>8, <2>1
        <4>2. /\ AreSums(samples, [i \in 0..Len(samples) |-> g[i]])
              /\ g[Len(samples) + 1] = g[Len(samples)] + l
          BY <4>1, <1>0, SumsShrink
        <4> QED BY <4>2, <2>2
      <3>2. total = [i \in 0..n |-> g[i]][n]
        BY <2>5, <3>1
      <3>3. n \in 0..n
        BY <2>2
      <3> QED
        BY <2>6, <3>1, <3>2, <3>3
    <2>9. latencyData'.min <= Minute
      BY <1>0, <2>4, <2>5, <2>6
    <2>10. ASSUME NEW i \in 1..(n + 1)
           PROVE  /\ latencyData'.min <= samples'[i]
                  /\ samples'[i] <= latencyData'.max
      <3>1. CASE i = n + 1
        BY <3>1, <2>3, <2>4, <2>6
      <3>2. CASE i \in 1..n
        BY <3>2, <2>3, <2>4, <2>5, <2>6
      <3> QED
        BY <2>3, <3>1, <3>2
    <2>11. \E i \in 1..(n + 1) : latencyData'.max = samples'[i]
      <3>1. n + 1 \in 1..(n + 1) /\ \A i \in 1..n : i \in 1..(n + 1)
        BY <2>2
      <3>2. CASE l > high
        BY <3>1, <3>2, <2>3, <2>6
      <3>3. CASE ~(l > high) /\ high = 0
        <4>1. l = high
          BY <3>3, <2>4
        <4> QED
          BY <3>1, <3>3, <4>1, <2>3, <2>6
      <3>4. CASE ~(l > high) /\ \E i \in 1..n : high = samples[i]
        BY <3>1, <3>4, <2>3, <2>6
      <3> QED
        BY <2>5, <3>2, <3>3, <3>4
    <2>12. \/ latencyData'.min = Minute
           \/ \E i \in 1..(n + 1) : latencyData'.min = samples'[i]
      <3>1. n + 1 \in 1..(n + 1) /\ \A i \in 1..n : i \in 1..(n + 1)
        BY <2>2
      <3>2. CASE l < low
        BY <3>1, <3>2, <2>3, <2>6
      <3>3. CASE ~(l < low)
        BY <3>1, <3>3, <2>3, <2>5, <2>6
      <3> QED
        BY <3>2, <3>3
    <2> QED
      BY <2>3, <2>6, <2>7, <2>8, <2>9, <2>10, <2>11, <2>12 DEF SampleInv
  <1>4. CASE UNCHANGED vars
    BY <1>1, <1>4 DEF vars, latency
  <1> QED
    BY <1>1, <1>2, <1>3, <1>4
    DEF Next, LoopStep, FireInterval, LatencyCheck, GetLoopInformation,
        CollectGarbage, StartCall, StopCall, EnableEventLoop,
        DisableEventLoop, ApplicationEnds, Prepare, Poll, Check, Close,
        NextIteration, Exit, latency

(* A report says of the samples taken since the last one how many they     *)
(* were, their total, their minimum (if one is below a minute) and their   *)
(* maximum, whatever intervals are made and cleared meanwhile and however  *)
(* late an immediate runs.                                                 *)
THEOREM ReportsAreRight == Spec => []ReportsTheSamples
  <1>1. Init => SampleInv
    BY NoSampleIsTaken DEF Init
  <1>2. LoopInv /\ SampleInv /\ [Next]_vars => SampleInv'
    BY SampleStep
  <1>3. ASSUME LoopInv, SampleInv PROVE ReportsTheSamples
    <2> DEFINE taken == {samples[i] : i \in DOMAIN samples}
               n == Len(samples)
    <2>1. /\ samples \in Seq(Latency) /\ Latency \subseteq Nat
          /\ Minute \in Nat
          /\ latencyData \in [count : Nat, min : Nat, max : Nat, total : Nat]
      BY <1>3, EventLoopConstants DEF LoopInv, TypeOK
    <2>2. DOMAIN samples = 1..n
      BY <2>1
    <2>3. AreSums(samples, Sums(samples))
      BY <1>3, SumsAreSums DEF SampleInv
    <2>4. latencyData.total = Sums(samples)[n]
      BY <1>3, <2>3 DEF SampleInv
    <2>5. \A l \in taken : latencyData.min <= l /\ l <= latencyData.max
      BY <1>3, <2>2 DEF SampleInv
    <2>6. samples # <<>> => latencyData.max \in taken
      BY <1>3, <2>2 DEF SampleInv
    <2>7. ASSUME NEW l \in taken, l < Minute
          PROVE  latencyData.min \in taken
      <3>1. latencyData.min <= l /\ latencyData.min \in Nat
        BY <2>1, <2>5
      <3>2. l \in Nat
        <4>1. PICK i \in 1..n : l = samples[i]
          BY <2>2
        <4>2. samples[i] \in Latency
          BY <2>1
        <4> QED
          BY <2>1, <4>1, <4>2
      <3>3. latencyData.min # Minute
        BY <2>1, <2>7, <3>1, <3>2
      <3> QED
        BY <1>3, <2>2, <3>3 DEF SampleInv
    <2> QED
      BY <1>3, <2>4, <2>5, <2>6, <2>7 DEF SampleInv, ReportsTheSamples
  <1> QED
    BY <1>1, <1>2, <1>3, LoopInvariant, PTL DEF Spec
=============================================================================
