----------------------------- MODULE ProbeCalls -----------------------------
(***************************************************************************)
(* The life of a call that a probe measures (src/probes, lib/aspect.js):   *)
(* hooks woven into the methods of a module start a timer and a request    *)
(* and end them when the call is over, which may be when it returns, when  *)
(* its callback is called, or when a response is ended.  Requests are      *)
(* those of module Requests, on whose variables this module acts.          *)
(*                                                                         *)
(* What a hook knows of its call is in an object, probeData; a probe that  *)
(* measures the messages a listener receives uses one object for all of    *)
(* them.  A timer is an object, too: the request started with it keeps a   *)
(* reference, and stop() of the request, or of one above it, stops it.     *)
(*                                                                         *)
(* Calls are numbered, and a timer has the number of the call that made    *)
(* it; 0 stands for undefined.  An object probeData has the number of the  *)
(* first call that uses it.                                                *)
(*                                                                         *)
(* Abstracted: arguments and results, filters, strong-trace links, which   *)
(* methods are instrumented, and the switches of single probes.            *)
(***************************************************************************)
EXTENDS Requests

CONSTANTS
    Ops,            \* the instrumented operations that are called
    MaxCalls,       \* bound on the calls of a behaviour, a request each
    MaxSwitches,    \* bound on switching metrics or requests
    MaxEnds         \* bound on how often one call ends, if it may end again

VARIABLES
    metricsOn,      \* metricsProbeStart and -End are installed
    requestsOn,     \* requestProbeStart and -End are installed
    switches,       \* how often either was switched
    call,           \* the calls begun so far
    frames,         \* those that have not returned, innermost last
    ends,           \* how often the end hooks of each call have run
    probeData,      \* the timer and the request of each such object
    requestTimer,   \* the timer each request was given
    stopped,        \* the timers that are stopped
    threw,          \* the calls into which a hook has thrown
    events          \* history: the metrics events

timers == <<probeData, requestTimer, stopped>>
callVars == <<vars, metricsOn, requestsOn, switches, call, frames, ends,
              timers, threw, events>>

Call == 1..MaxCalls

-----------------------------------------------------------------------------
(* The instrumented operations.  `until' says when a call is over:         *)
(*   "callback"   when its callback is called; without one, never;         *)
(*   "return"     when it returns;                                         *)
(*   "either"     when its callback is called or, without one, when it     *)
(*                returns;                                                 *)
(*   "response"   when its response is ended, which may happen again;      *)
(*   "cursor"     when the callback of the cursor it returned is called,   *)
(*                which may happen again, or when it returned none.        *)
(* `incoming': the loop calls it, for a request or message from outside.   *)
(* `shared': calls share one probeData.  `timed': the request is given the *)
(* timer of the call.  `throws': the hook that throws.                     *)

Operation(until) ==
    [until |-> until, root |-> FALSE, incoming |-> FALSE, shared |-> FALSE,
     traced |-> FALSE, timed |-> TRUE, throws |-> "none"]

Listener(root) ==
    [Operation("return") EXCEPT !.root = root, !.incoming = TRUE,
                                !.shared = TRUE]

Server == [Operation("response") EXCEPT !.root = TRUE, !.incoming = TRUE]

(* The two ways of aspect.js to measure a call that takes a callback.      *)
Before == Operation("callback")
Around == Operation("either")

Http == Server
Https == Server
HttpOutbound == Around
HttpsOutbound == Around
Memcached == Around
MongoFind == Operation("cursor")
MongoMethod == Around
MySql == Before
Postgres == Before
OracleDB == Around
StrongOracle == Around
Redis == Around
Riak == Around
Loopback == [Before EXCEPT !.timed = FALSE]

(* requestStart assigns to a variable nobody has declared, in strict mode. *)
Leveldown == [Loopback EXCEPT !.throws = "start"]

(* requestEnd stops a request that it does not know to be there.           *)
Oracle == [Around EXCEPT !.throws = "end"]

AxonSend == Around
AxonOn(event) == Listener(event = "message")
MqttPublish == Around
MqttMessage == Listener(TRUE)
MQLightSend == Around
MQLightMessage == Listener(TRUE)
StrongMQPublish == Around
StrongMQMessage == Listener(TRUE)
SocketioEmit == Operation("return")
SocketioReceive == Listener(TRUE)

(* A method of the application, with the trace probe: a request without a  *)
(* type, whether requests are enabled or not, and no metrics.  The send()  *)
(* or render() of a response it is passed counts as its callback.          *)
TraceMethod == [Around EXCEPT !.traced = TRUE]

AllOps ==
    {Http, Https, HttpOutbound, HttpsOutbound, Memcached, MongoFind,
     MongoMethod, MySql, Postgres, OracleDB, StrongOracle, Redis, Riak,
     Loopback, Leveldown, Oracle, AxonSend, AxonOn("message"), AxonOn("other"),
     MqttPublish, MqttMessage, MQLightSend, MQLightMessage, StrongMQPublish,
     StrongMQMessage, SocketioEmit, SocketioReceive, TraceMethod}

ASSUME CallConstants ==
    /\ Ops \subseteq AllOps
    /\ MaxCalls \in 0..MaxRequests
    /\ MaxSwitches \in Nat
    /\ MaxEnds \in Nat \ {0}

-----------------------------------------------------------------------------
CallTypeOK ==
    /\ TypeOK
    /\ metricsOn \in BOOLEAN
    /\ requestsOn \in BOOLEAN
    /\ switches \in 0..MaxSwitches
    /\ call \in Seq([op : Ops, callback : BOOLEAN, data : Call,
                     req : 0..MaxRequests])
    /\ Len(call) <= MaxCalls
    /\ frames \in Seq(1..Len(call))
    /\ ends \in [Call -> 0..MaxEnds]
    /\ probeData \in [Call -> [timer : 0..Len(call), req : 0..Len(request)]]
    /\ requestTimer \in Seq(0..Len(call))
    /\ Len(requestTimer) = Len(request)
    /\ stopped \subseteq 1..Len(call)
    /\ threw \subseteq 1..Len(call)
    /\ events \in Seq([call : 1..Len(call), timer : 1..Len(call),
                       whole : BOOLEAN])

CallInit ==
    /\ Init
    /\ metricsOn \in BOOLEAN
    /\ requestsOn \in BOOLEAN
    /\ switches = 0
    /\ call = <<>>
    /\ frames = <<>>
    /\ ends = [c \in Call |-> 0]
    /\ probeData = [d \in Call |-> [timer |-> 0, req |-> 0]]
    /\ requestTimer = <<>>
    /\ stopped = {}
    /\ threw = {}
    /\ events = <<>>

-----------------------------------------------------------------------------
(* The start hooks: metricsProbeStart, then requestProbeStart.             *)

(* A message finds the probeData of the first one its listener received.   *)
DataOf(c, op) ==
    LET before == {e \in 1..Len(call) : op.shared /\ call[e].op = op}
    IN  IF before = {} THEN c ELSE call[CHOOSE e \in before : TRUE].data

Measures(op) == metricsOn /\ ~op.traced

Tracks(op) == requestsOn \/ op.traced

(* A mistake for MeasuredByItself to catch: a timer once made is kept.     *)
KeepTimer(c, op, data) ==
    IF data.timer = 0 /\ Measures(op) THEN c ELSE data.timer

StartTimer(c, op, data) == IF Measures(op) THEN c ELSE data.timer

(* The request is given the timer of the call, or makes its own.           *)
StartRequest(op, timer) ==
    IF Tracks(op)
    THEN /\ Start(op.root, ~op.traced)
         /\ requestTimer' =
               Append(requestTimer, IF op.timed THEN timer ELSE 0)
    ELSE UNCHANGED <<vars, requestTimer>>

(* A call of an operation, with or without a callback.                     *)
BeginCall(op, callback) ==
    LET c == Len(call) + 1
        d == DataOf(c, op)
        timer == StartTimer(c, op, probeData[d])
        fails == op.throws = "start" /\ requestsOn
    IN  /\ inTurn
        /\ c <= MaxCalls
        /\ op.incoming => frames = <<>>
        /\ op.until = "response" => callback
        /\ op.until = "return" => ~callback
        /\ StartRequest(op, timer)
        /\ probeData' = [probeData EXCEPT ![d] =
              [timer |-> timer,
               req |-> IF Tracks(op) /\ ~fails THEN Len(request) + 1
                       ELSE probeData[d].req]]
        /\ call' = Append(call,
              [op |-> op, callback |-> callback, data |-> d,
               req |-> IF Tracks(op) THEN Len(request) + 1 ELSE 0])
        /\ IF fails THEN threw' = threw \cup {c} /\ UNCHANGED frames
                    ELSE frames' = Append(frames, c) /\ UNCHANGED threw
        /\ UNCHANGED <<metricsOn, requestsOn, switches, ends, stopped, events>>

-----------------------------------------------------------------------------
(* The end hooks: metricsProbeEnd, then requestProbeEnd.                   *)

(* The timers that stop with request r and the requests below it.          *)
TimersBelow(r) == {requestTimer[q] : q \in StoppedWith(r)} \ {0}

(* A mistake for RootIsWhole to catch: the request is ended first.         *)
EndRequestFirst(c) ==
    LET op == call[c].op
        t == probeData[call[c].data].timer
        r == probeData[call[c].data].req
        reports == Measures(op) /\ t # 0
        stops == Tracks(op) /\ r # 0 /\ MayStop(r)
        below == IF stops THEN TimersBelow(r) ELSE {}
    IN  /\ events' = IF reports
              THEN Append(events, [call |-> c, timer |-> t,
                                   whole |-> t \notin stopped \cup below])
              ELSE events
        /\ IF stops THEN Stop(r) ELSE UNCHANGED vars
        /\ stopped' = stopped \cup below \cup (IF reports THEN {t} ELSE {})
        /\ ends' = [ends EXCEPT ![c] = @ + 1]
        /\ threw' = threw

(* A mistake for EndedIsStopped to catch: the request of a call that is    *)
(* not measured is not ended.                                              *)
EndMeasured(c) ==
    LET op == call[c].op
        t == probeData[call[c].data].timer
        r == probeData[call[c].data].req
        reports == Measures(op) /\ t # 0
        stops == Tracks(op) /\ r # 0 /\ MayStop(r) /\ t # 0
    IN  /\ events' = IF reports
              THEN Append(events, [call |-> c, timer |-> t,
                                   whole |-> ends[c] # 0 \/ t \notin stopped])
              ELSE events
        /\ IF stops THEN Stop(r) ELSE UNCHANGED vars
        /\ stopped' = stopped \cup (IF reports THEN {t} ELSE {})
                              \cup (IF stops THEN TimersBelow(r) ELSE {})
        /\ ends' = [ends EXCEPT ![c] = @ + 1]
        /\ threw' = threw

(* The event says how long the call took; that is the whole of it unless   *)
(* the timer was stopped before.                                           *)
EndHooks(c) ==
    LET op == call[c].op
        t == probeData[call[c].data].timer
        r == probeData[call[c].data].req
        reports == Measures(op) /\ t # 0
        stops == Tracks(op) /\ r # 0 /\ MayStop(r)
    IN  /\ events' = IF reports
              THEN Append(events, [call |-> c, timer |-> t,
                                   whole |-> ends[c] # 0 \/ t \notin stopped])
              ELSE events
        /\ IF stops THEN Stop(r) ELSE UNCHANGED vars
        /\ stopped' = stopped \cup (IF reports THEN {t} ELSE {})
                              \cup (IF stops THEN TimersBelow(r) ELSE {})
        /\ ends' = [ends EXCEPT ![c] = @ + 1]
        /\ threw' = IF op.throws = "end" /\ requestsOn /\ r = 0
                    THEN threw \cup {c} ELSE threw

(* The innermost call returns.                                             *)
Return ==
    /\ frames # <<>>
    /\ LET c == frames[Len(frames)]
       IN  IF ~call[c].callback /\ call[c].op.until # "callback"
           THEN EndHooks(c)
           ELSE UNCHANGED <<vars, events, stopped, ends, threw>>
    /\ frames' = SubSeq(frames, 1, Len(frames) - 1)
    /\ UNCHANGED <<metricsOn, requestsOn, switches, call, probeData,
                   requestTimer>>

(* The callback of call c is called: at any time, even before the call     *)
(* returns, and in whatever domain the loop is in then, which need not be  *)
(* that of the call if connections are pooled.                             *)
CallBack(c) ==
    /\ inTurn
    /\ call[c].callback
    /\ ends[c] < IF call[c].op.until \in {"response", "cursor"}
                 THEN MaxEnds ELSE 1
    /\ c \notin threw
    /\ EndHooks(c)
    /\ UNCHANGED <<metricsOn, requestsOn, switches, call, frames, probeData,
                   requestTimer>>

-----------------------------------------------------------------------------
(* enable() and disable(), see Appmetrics.                                 *)
SwitchMetrics ==
    /\ switches < MaxSwitches
    /\ switches' = switches + 1
    /\ metricsOn' = ~metricsOn
    /\ UNCHANGED <<vars, requestsOn, call, frames, ends, timers, threw,
                   events>>

SwitchRequests ==
    /\ switches < MaxSwitches
    /\ switches' = switches + 1
    /\ requestsOn' = ~requestsOn
    /\ UNCHANGED <<vars, metricsOn, call, frames, ends, timers, threw,
                   events>>

(* The loop runs one callback after another.                               *)
Turn ==
    /\ \/ \E d \in {0} \cup {r \in Requests : request[r].root} :
             BeginTurn(d)
       \/ frames = <<>> /\ EndTurn
    /\ UNCHANGED <<metricsOn, requestsOn, switches, call, frames, ends, timers,
                   threw, events>>

CallNext ==
    \/ Turn
    \/ \E op \in Ops, callback \in BOOLEAN : BeginCall(op, callback)
    \/ Return
    \/ \E c \in 1..Len(call) : CallBack(c)
    \/ SwitchMetrics \/ SwitchRequests

CallSpec == CallInit /\ [][CallNext]_callVars

-----------------------------------------------------------------------------
(* Only a callback can stop a request in a foreign domain, where it makes  *)
(* a stranger current.  Until one does, however calls nest and in whatever *)
(* order callbacks come, the end hooks of a call that has not returned     *)
(* find a request of the present domain, or one that has been stopped: a   *)
(* domain that was left, by its root's stop(), has no active request.      *)
(* (Not if requests are switched off and on again meanwhile: a message     *)
(* that comes while they are off finds the request of the one before in    *)
(* the data of its listener, and stops it in whatever domain it runs.)     *)
ReturnsAtHome ==
    switches < 2 /\ ~foreign =>
        \A k \in 1..Len(frames) :
            LET r == probeData[call[frames[k]].data].req
            IN  Tracks(call[frames[k]].op) /\ r \in active =>
                    request[r].domain = Domain

CallInv == CallTypeOK /\ ReturnsAtHome

(* A call that is over leaves no active request behind, whatever order the *)
(* requests above and below it ended in (if requests are not switched      *)
(* meanwhile).                                                             *)
EndedIsStopped ==
    switches = 0 => \A c \in 1..Len(call) :
                        ends[c] # 0 => call[c].req \notin active

(* An event is about the call it is reported for and not an earlier one    *)
(* with the same probeData, and no call that is over goes unreported (if   *)
(* metrics are not switched meanwhile).                                    *)
MeasuredByItself ==
    switches = 0 /\ metricsOn =>
        /\ \A i \in 1..Len(events) : events[i].timer = events[i].call
        /\ \A c \in 1..Len(call) :
              ends[c] # 0 /\ ~call[c].op.traced =>
                  \E i \in 1..Len(events) : events[i].call = c

(* The time a root call took, an incoming http request say, is measured to *)
(* its end.  (That of another call may end with a request above it, whose  *)
(* stop() stops the timer of the request, which is that of the event.)     *)
RootIsWhole ==
    switches = 0 => \A i \in 1..Len(events) :
                        call[events[i].call].op.root => events[i].whole
=============================================================================
