------------------------------- MODULE EventApi -------------------------------
(***************************************************************************)
(* The API object that monitor() returns (appmetrics-api.js, index.js) and *)
(* the calls of the native agent behind it (appmetrics.cpp): the two kinds *)
(* of environment messages, the count-down to the `initialized' event, and *)
(* what the probes emit.                                                   *)
(*                                                                         *)
(* Messages reach the listener of the API as EventStream promises.  The    *)
(* core is external: a message pushed to it is handed to sendData() when   *)
(* one is registered.  Abstracted: other topics, whose handlers only parse *)
(* text, and the contents of messages.                                     *)
(***************************************************************************)
EXTENDS Integers, Sequences, FiniteSets

CONSTANTS
    MaxStarts,      \* bound on the starts of the native agent
    MaxOS           \* bound on the messages about the operating system

ASSUME EventApiConstants == MaxStarts \in Nat /\ MaxOS \in Nat

VARIABLES
    loads,          \* the library of the monitoring API can be loaded
    running,        \* appmetrics.cpp
    starts,         \* history: how often the native agent was started
    functions,      \* monitorApi holds the functions of that library
    asyncs,         \* calls of GetNodeInformation on their way
    sent,           \* the messages handed to sendData, a stream
    received,       \* those the listener was called with
    open,           \* the process is alive
    api,            \* this.api is defined
    environment,    \* the kinds of data in API.environment
    initialized,    \* API.initialized
    raised,         \* history: how often `initialized' was emitted
    threw,          \* history: a listener of `environment' has thrown
    missed,         \* history: data about node came when nobody listened
    crashed         \* a null pointer was called

native == <<loads, running, starts, functions, asyncs>>
stream == <<sent, received, open>>
object == <<api, environment, initialized, raised, threw, missed>>
vars == <<native, stream, object, crashed>>

Kind == {"os", "node"}
Message == Kind \X Nat

Stream == INSTANCE EventStream

TypeOK ==
    /\ loads \in BOOLEAN
    /\ running \in BOOLEAN
    /\ starts \in 0..MaxStarts
    /\ functions \in BOOLEAN
    /\ asyncs \in 0..starts
    /\ sent \in Seq(Message)
    /\ received \in Seq(Message)
    /\ open \in BOOLEAN
    /\ api \in BOOLEAN
    /\ environment \subseteq Kind
    /\ initialized \in Int
    /\ raised \in Nat
    /\ threw \in BOOLEAN
    /\ missed \in BOOLEAN
    /\ crashed \in BOOLEAN

Init ==
    /\ loads \in BOOLEAN
    /\ running = FALSE
    /\ starts = 0
    /\ functions = FALSE
    /\ asyncs = 0
    /\ Stream!Init
    /\ api = FALSE
    /\ environment = {}
    /\ initialized = 2
    /\ raised = 0
    /\ threw = FALSE
    /\ missed = FALSE
    /\ crashed = FALSE
-----------------------------------------------------------------------------
(* agent.start(): the plugins are started unless the agent runs; that of   *)
(* the environment sends an async.  The functions are looked up each time. *)
StartAgent ==
    /\ running \/ starts < MaxStarts
    /\ running' = TRUE
    /\ starts' = IF running THEN starts ELSE starts + 1
    /\ asyncs' = IF running THEN asyncs ELSE asyncs + 1
    /\ functions' = loads
    /\ UNCHANGED loads

Start ==
    /\ open
    /\ StartAgent
    /\ UNCHANGED <<stream, object, crashed>>

(* A mistake for EmitReachesTheCore to catch: the functions are dropped.   *)
StopAndUnload ==
    /\ open
    /\ running' = FALSE
    /\ functions' = FALSE
    /\ UNCHANGED <<loads, starts, asyncs, stream, object, crashed>>

(* The probes are not told, and the functions stay.                        *)
Stop ==
    /\ open
    /\ running' = FALSE
    /\ UNCHANGED <<loads, starts, functions, asyncs, stream, object, crashed>>

(* monitor(): localConnect throws when a function is missing, and then     *)
(* there is no API object, but the agent has been started.                 *)
Monitor ==
    /\ open
    /\ ~api
    /\ StartAgent
    /\ api' = functions'
    /\ UNCHANGED <<stream, environment, initialized, raised, threw, missed,
                   crashed>>

-----------------------------------------------------------------------------
(* The core is handed a message, and passes it on if there is a listener.  *)
Push(kind) ==
    IF api THEN /\ Stream!Submit(<<kind, Len(sent) + 1>>)
                /\ UNCHANGED missed
    ELSE /\ missed' = (missed \/ kind = "node")
         /\ UNCHANGED stream

(* On the loop, after a start; a core that was stopped may drop it.        *)
GetNodeInformation ==
    /\ open
    /\ asyncs > 0
    /\ asyncs' = asyncs - 1
    /\ \/ Push("node")
       \/ ~running /\ missed' = TRUE /\ UNCHANGED stream
    /\ UNCHANGED <<loads, running, starts, functions, api,
                   environment, initialized, raised, threw, crashed>>

(* The core's own plugin sends data about the operating system.            *)
PushOSEnvironment ==
    /\ running
    /\ api
    /\ Cardinality({i \in DOMAIN sent : sent[i][1] = "os"}) < MaxOS
    /\ Push("os")
    /\ UNCHANGED <<native, api, environment, initialized, raised, threw,
                   crashed>>

-----------------------------------------------------------------------------
Known(kind) == environment' = environment \cup {kind}

(* A mistake for ApiInv to catch: any count that is not positive.          *)
CountDownBelow ==
    /\ initialized' = initialized - 1
    /\ raised' = IF initialized' <= 0 THEN raised + 1 ELSE raised

CountDown ==
    /\ initialized' = initialized - 1
    /\ raised' = IF initialized' = 0 THEN raised + 1 ELSE raised

(* A mistake for InitializedComes to catch: only node's data is counted.   *)
KnowOSEnv(throws) ==
    /\ Known("os")
    /\ UNCHANGED <<initialized, raised>>

(* formatOSEnv counts down before it emits `environment', and so does not  *)
(* emit `initialized' when a listener of that throws ...                   *)
FormatOSEnv(throws) ==
    /\ Known("os")
    /\ IF throws THEN initialized' = initialized - 1 /\ UNCHANGED raised
       ELSE CountDown

(* A mistake for InitializedKnowsBoth to catch: the data is not kept.      *)
ForgetRuntimeEnv(throws) ==
    /\ UNCHANGED environment
    /\ IF throws THEN UNCHANGED <<initialized, raised>> ELSE CountDown

(* ... and formatRuntimeEnv afterwards.                                    *)
FormatRuntimeEnv(throws) ==
    /\ Known("node")
    /\ IF throws THEN UNCHANGED <<initialized, raised>> ELSE CountDown

RaiseEvent(throws) ==
    /\ Stream!Deliver
    /\ ~throws => open'
    /\ threw' = (threw \/ throws)
    /\ IF sent[Len(received) + 1][1] = "os" THEN FormatOSEnv(throws)
       ELSE FormatRuntimeEnv(throws)
    /\ UNCHANGED <<native, api, missed, crashed>>

(* emit() of a topic that goes to the core, by a probe that start() has    *)
(* started, before or after stop(), or by the application at any time:     *)
(* nativeEmit throws when a function is missing, but goes on to call it.   *)
Emit ==
    /\ open
    /\ crashed' = ~functions
    /\ open' = functions
    /\ UNCHANGED <<native, sent, received, object>>

Exit ==
    /\ Stream!Close
    /\ UNCHANGED <<native, object, crashed>>

-----------------------------------------------------------------------------
Next ==
    \/ Start \/ Stop \/ Monitor
    \/ GetNodeInformation \/ PushOSEnvironment
    \/ \E throws \in BOOLEAN : RaiseEvent(throws)
    \/ Emit \/ Exit

Spec ==
    /\ Init /\ [][Next]_vars
    /\ WF_vars(GetNodeInformation)
    /\ WF_vars(PushOSEnvironment)
    /\ WF_vars(\E throws \in BOOLEAN : RaiseEvent(throws))

-----------------------------------------------------------------------------
(* However often the agent is restarted and messages are repeated, and     *)
(* whatever a listener throws, `initialized' is emitted once at most, and  *)
(* not before two messages have come.                                      *)
InitializedOnce ==
    /\ raised <= 1
    /\ raised = 1 => initialized <= 0 /\ Len(received) >= 2

NoneTwice ==
    \A i, j \in DOMAIN received : received[i][1] = received[j][1] => i = j

(* `initialized' means that both kinds of data are there, as long as none  *)
(* has come twice: the count does not tell them apart, and each start of   *)
(* the agent sends those of node again.                                    *)
InitializedKnowsBoth == raised > 0 /\ NoneTwice => environment = Kind

(* From the first start() on, also when the agent has been stopped and its *)
(* probes go on: nativeEmit never finds a null pointer, if the library of  *)
(* the monitoring API could be loaded.                                     *)
EmitReachesTheCore == loads /\ starts > 0 => ~crashed

(* These are inductive together: the count comes down by one message at a  *)
(* time, what has come is known, and functions once found are kept.        *)
ApiInv ==
    /\ TypeOK
    /\ InitializedOnce
    /\ initialized >= 2 - Len(received)
    /\ \A i \in DOMAIN received : received[i][1] \in environment
    /\ loads /\ starts > 0 => functions
    /\ crashed => ~open

(* nativeEmit throws "Monitoring API is not initialized"                   *)
(* (src/appmetrics.cpp:478) instead of calling a null pointer.             *)
EmitThrows == ~crashed

(* An application that calls monitor() before it starts the agent gets the *)
(* event, while the agent runs and no listener throws.                     *)
InitializedComes ==
    api /\ ~missed ~> raised = 1 \/ threw \/ ~open \/ ~running \/ missed
=============================================================================
