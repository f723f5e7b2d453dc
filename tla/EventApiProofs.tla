---------------------------- MODULE EventApiProofs ----------------------------
(***************************************************************************)
(* Proofs about EventApi, for any number of starts and messages: the event *)
(* `initialized' is emitted once at most and, while no kind of message     *)
(* comes twice, with both kinds of data there; nativeEmit is safe once the *)
(* agent has been started.                                                 *)
(***************************************************************************)
EXTENDS EventApi, TLAPS

LEMMA ApiInvInit == Init => ApiInv
<1> SUFFICES ASSUME Init PROVE ApiInv
  OBVIOUS
<1>1. sent = <<>> /\ received = <<>> /\ open = TRUE
  BY DEF Init, Stream!Init
<1>2. /\ sent \in Seq(Message) /\ received \in Seq(Message)
      /\ starts \in 0..MaxStarts /\ asyncs \in 0..starts
  BY <1>1, EventApiConstants, SMT DEF Init
<1>3. /\ initialized \in Int /\ raised \in Nat /\ environment \subseteq Kind
  BY SMT DEF Init
<1>4. TypeOK
  BY <1>1, <1>2, <1>3, Zenon DEF Init, TypeOK
<1> QED BY <1>1, <1>4 DEF Init, ApiInv, InitializedOnce

(* A step that delivers nothing leaves what the invariant says of the API. *)
LEMMA NotDelivered ==
    ASSUME ApiInv, TypeOK',
           UNCHANGED <<received, environment, initialized, raised>>,
           (loads /\ starts > 0 => functions)', (crashed => ~open)'
    PROVE  ApiInv'
BY DEF ApiInv, InitializedOnce, TypeOK

LEMMA StartKeeps ==
    ASSUME ApiInv, StartAgent
    PROVE  /\ loads' \in BOOLEAN /\ running' \in BOOLEAN
           /\ starts' \in 0..MaxStarts /\ functions' \in BOOLEAN
           /\ asyncs' \in 0..starts'
           /\ (loads /\ starts > 0 => functions)'
BY EventApiConstants DEF ApiInv, TypeOK, StartAgent

(* What a message does to the event: it counts down by one at most.        *)
LEMMA RaiseEventKeeps ==
    ASSUME ApiInv, NEW throws \in BOOLEAN, RaiseEvent(throws)
    PROVE  ApiInv'
<1> DEFINE kind == sent[Len(received) + 1][1]
<1>1. /\ Len(received) + 1 \in DOMAIN sent
      /\ received' = Append(received, sent[Len(received) + 1])
      /\ sent' = sent /\ open = TRUE /\ open' \in BOOLEAN
  BY DEF RaiseEvent, Stream!Deliver, ApiInv, TypeOK
<1>2. sent[Len(received) + 1] \in Message /\ kind \in Kind
  BY <1>1 DEF ApiInv, TypeOK, Message
<1>3. /\ received' \in Seq(Message)
      /\ Len(received') = Len(received) + 1
      /\ \A i \in DOMAIN received' :
            received'[i][1] = kind \/ \E j \in DOMAIN received :
                                         received'[i][1] = received[j][1]
  BY <1>1, <1>2 DEF ApiInv, TypeOK
<1>4. environment' = environment \cup {kind}
  BY <1>2 DEF RaiseEvent, FormatOSEnv, FormatRuntimeEnv, Known, Kind
<1>5. /\ initialized' \in Int /\ raised' \in Nat
      /\ initialized' >= initialized - 1 /\ initialized' <= initialized
      /\ \/ raised' = raised
         \/ raised' = raised + 1 /\ initialized = 1 /\ initialized' = 0
  BY DEF RaiseEvent, FormatOSEnv, FormatRuntimeEnv, CountDown, ApiInv, TypeOK
<1>6. InitializedOnce' /\ (initialized >= 2 - Len(received))'
  BY <1>3, <1>5 DEF ApiInv, InitializedOnce, TypeOK
<1>7. (\A i \in DOMAIN received : received[i][1] \in environment)'
  BY <1>3, <1>4 DEF ApiInv
<1>8. UNCHANGED <<native, api, missed, crashed>> /\ threw' \in BOOLEAN
  BY DEF RaiseEvent, ApiInv, TypeOK
<1>9. TypeOK'
  BY <1>1, <1>2, <1>3, <1>4, <1>5, <1>8 DEF TypeOK, ApiInv, native
<1> QED BY <1>1, <1>6, <1>7, <1>8, <1>9 DEF ApiInv, native

LEMMA PushKeeps ==
    ASSUME ApiInv, NEW kind \in Kind, Push(kind)
    PROVE  /\ sent' \in Seq(Message) /\ missed' \in BOOLEAN
           /\ UNCHANGED <<received, open>>
<1>1. CASE api
  <2>1. <<kind, Len(sent) + 1>> \in Message
    BY DEF ApiInv, TypeOK, Message
  <2>2. /\ sent' = Append(sent, <<kind, Len(sent) + 1>>)
        /\ UNCHANGED <<received, open, missed>>
    BY <1>1 DEF Push, Stream!Submit
  <2> QED BY <2>1, <2>2 DEF ApiInv, TypeOK
<1>2. CASE ~api
  BY <1>2 DEF Push, stream, ApiInv, TypeOK
<1> QED BY <1>1, <1>2

LEMMA ApiInvStep == ApiInv /\ [Next]_vars => ApiInv'
<1> SUFFICES ASSUME ApiInv, [Next]_vars PROVE ApiInv'
  OBVIOUS
<1> USE DEF stream, object
<1>1. CASE Start
  BY <1>1, StartKeeps, NotDelivered DEF Start, ApiInv, TypeOK
<1>2. CASE Stop
  BY <1>2, NotDelivered DEF Stop, ApiInv, TypeOK
<1>3. CASE Monitor
  BY <1>3, StartKeeps, NotDelivered DEF Monitor, ApiInv, TypeOK
<1>4. CASE GetNodeInformation
  <2>1. /\ sent' \in Seq(Message) /\ missed' \in BOOLEAN
        /\ UNCHANGED <<received, open>>
    BY <1>4, PushKeeps DEF GetNodeInformation, Kind, ApiInv, TypeOK
  <2>2. asyncs' \in 0..starts
    BY <1>4 DEF GetNodeInformation, ApiInv, TypeOK
  <2> QED BY <1>4, <2>1, <2>2, NotDelivered
          DEF GetNodeInformation, ApiInv, TypeOK
<1>5. CASE PushOSEnvironment
  <2>1. /\ sent' \in Seq(Message) /\ missed' \in BOOLEAN
        /\ UNCHANGED <<received, open>>
    BY <1>5, PushKeeps DEF PushOSEnvironment, Kind
  <2> QED BY <1>5, <2>1, NotDelivered
          DEF PushOSEnvironment, native, ApiInv, TypeOK
<1>6. ASSUME NEW throws \in BOOLEAN, RaiseEvent(throws)
      PROVE  ApiInv'
  BY <1>6, RaiseEventKeeps
<1>7. CASE Emit
  <2>1. crashed' \in BOOLEAN /\ open' \in BOOLEAN /\ (crashed => ~open)'
    BY <1>7 DEF Emit, ApiInv, TypeOK
  <2> QED BY <1>7, <2>1, NotDelivered DEF Emit, native, ApiInv, TypeOK
<1>8. CASE Exit
  BY <1>8, NotDelivered DEF Exit, Stream!Close, native, ApiInv, TypeOK
<1>9. CASE UNCHANGED vars
  BY <1>9, NotDelivered DEF vars, native, ApiInv, TypeOK
<1> QED BY <1>1, <1>2, <1>3, <1>4, <1>5, <1>6, <1>7, <1>8, <1>9 DEF Next

(* The invariant is inductive: among its parts that `initialized' is       *)
(* emitted once at most, after two messages at least.                      *)
THEOREM ApiInvariant == Spec => []ApiInv
BY ApiInvInit, ApiInvStep, PTL DEF Spec

(* While no kind of data has come twice, `initialized' means that both     *)
(* kinds are there.                                                        *)
THEOREM KnowsBoth == Spec => []InitializedKnowsBoth
<1>1. ApiInv => InitializedKnowsBoth
  <2> SUFFICES ASSUME ApiInv, raised > 0, NoneTwice
               PROVE  environment = Kind
    BY DEF InitializedKnowsBoth
  <2>1. 1 \in DOMAIN received /\ 2 \in DOMAIN received
    BY DEF ApiInv, InitializedOnce, TypeOK
  <2>2. received[1][1] # received[2][1]
    BY <2>1 DEF NoneTwice
  <2>3. received[1][1] \in environment /\ received[2][1] \in environment
    BY <2>1 DEF ApiInv
  <2>4. environment \subseteq {"os", "node"}
    BY DEF ApiInv, TypeOK, Kind
  <2>5. "os" \in environment /\ "node" \in environment
    <3>1. CASE received[1][1] = "os"
      BY <2>2, <2>3, <2>4, <3>1
    <3>2. CASE received[1][1] = "node"
      BY <2>2, <2>3, <2>4, <3>2
    <3> QED BY <2>3, <2>4, <3>1, <3>2
  <2> QED BY <2>4, <2>5 DEF Kind
<1> QED BY <1>1, ApiInvariant, PTL

(* Once the agent has been started nativeEmit does not call a null         *)
(* pointer, unless the library could not be loaded.                        *)
LEMMA EmitStep ==
    ASSUME ApiInv, EmitReachesTheCore, [Next]_vars
    PROVE  EmitReachesTheCore'
<1> USE DEF ApiInv, TypeOK, EmitReachesTheCore, native, object, stream
<1>1. CASE Start \/ Monitor
  BY <1>1 DEF Start, Monitor, StartAgent
<1>2. CASE Emit
  BY <1>2 DEF Emit
<1>3. CASE UNCHANGED <<loads, starts, crashed>>
  BY <1>3
<1> QED BY <1>1, <1>2, <1>3
        DEF Next, Stop, GetNodeInformation, PushOSEnvironment, RaiseEvent,
            Exit, vars

THEOREM EmitIsSafe == Spec => []EmitReachesTheCore
<1>1. Init => EmitReachesTheCore
  BY DEF Init, EmitReachesTheCore
<1> QED BY <1>1, ApiInvariant, EmitStep, PTL DEF Spec
=============================================================================
