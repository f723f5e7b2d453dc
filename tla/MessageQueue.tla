---------------------------- MODULE MessageQueue ----------------------------
(***************************************************************************)
(* The queue between the threads of the monitoring core and the JavaScript *)
(* listener (src/src/appmetrics.cpp).                                      *)
(*                                                                         *)
(* A core thread calls sendData(), which copies the message into a         *)
(* MessageData, links it at the end of the list `messageList' under        *)
(* `messageListMutex' and then, with the mutex released, calls             *)
(* uv_async_send().  libuv coalesces sends, so the callback emitMessage()  *)
(* detaches the whole list under the mutex, and then, without the mutex,   *)
(* calls the listener for each payload, frees it and moves to the next.    *)
(*                                                                         *)
(* The list is modelled at the level of its pointers: `link' holds the     *)
(* `next' field of every payload and, at ListHead, the variable            *)
(* messageList, so that sendData's  MessageData** tail  is the cell it     *)
(* points to.  A payload stands for one allocation: an address that malloc *)
(* hands out again is a new payload.                                       *)
(***************************************************************************)
EXTENDS Naturals, Sequences

CONSTANTS
    Thread,     \* the core's threads that call sendData
    Payload,    \* the MessageData objects they may allocate
    NULL,       \* the null pointer, and the holder of a free mutex
    ListHead,   \* the address of messageList
    Loop        \* the thread of the event loop

ASSUME QueueConstants ==
    /\ NULL \notin Payload /\ ListHead \notin Payload
    /\ NULL \notin Thread /\ Loop \notin Thread
    /\ NULL # Loop /\ NULL # ListHead

VARIABLES
    registered,         \* localConnect has registered sendData with the core
    link,               \* the cells: messageList and every payload's next
    memory,             \* "unused", "live" or "freed", for each payload
    messageListMutex,   \* who holds the mutex
    messageAsync,       \* the async handle is pending
    pc,                 \* where each core thread is in sendData
    payload,            \* sendData's local: the payload it builds
    tail,               \* sendData's local: the cell it looks at
    loop,               \* where the loop thread is in emitMessage
    currentMessage,     \* emitMessage's local
    order,              \* history: payloads in the order they were linked
    taken,              \* history: how many of them emitMessage has detached
    delivered,          \* history: what the listener was called with
    freed               \* history: how many of those have been freed

threadVars == <<pc, payload, tail>>
history == <<order, taken, delivered, freed>>
vars == <<registered, link, memory, messageListMutex, messageAsync, threadVars,
          loop, currentMessage, history>>

Cell == Payload \cup {ListHead}

TypeOK ==
    /\ registered \in BOOLEAN
    /\ link \in [Cell -> Payload \cup {NULL}]
    /\ memory \in [Payload -> {"unused", "live", "freed"}]
    /\ messageListMutex \in Thread \cup {Loop, NULL}
    /\ messageAsync \in BOOLEAN
    /\ pc \in [Thread -> {"idle", "lock", "walk", "unlock", "send"}]
    /\ payload \in [Thread -> Payload \cup {NULL}]
    /\ tail \in [Thread -> Cell]
    /\ loop \in {"poll", "lock", "take", "unlock", "deliver", "free", "gone"}
    /\ currentMessage \in Payload \cup {NULL}
    /\ order \in Seq(Payload)
    /\ taken \in Nat
    /\ delivered \in Seq(Payload)
    /\ freed \in Nat

Init ==
    /\ registered = FALSE
    /\ link = [c \in Cell |-> NULL]
    /\ memory = [m \in Payload |-> "unused"]
    /\ messageListMutex = NULL
    /\ messageAsync = FALSE
    /\ pc = [t \in Thread |-> "idle"]
    /\ payload = [t \in Thread |-> NULL]
    /\ tail = [t \in Thread |-> ListHead]
    /\ loop = "poll"
    /\ currentMessage = NULL
    /\ order = <<>>
    /\ taken = 0
    /\ delivered = <<>>
    /\ freed = 0

-----------------------------------------------------------------------------
(* sendData, on a thread t of the core.  A message of size 0 returns at    *)
(* once and changes nothing.                                               *)

(* The payload is allocated and filled; nobody else can see it.            *)
CopyMessage(t, m) ==
    /\ registered
    /\ pc[t] = "idle"
    /\ memory[m] = "unused"
    /\ memory' = [memory EXCEPT ![m] = "live"]
    /\ link' = [link EXCEPT ![m] = NULL]
    /\ payload' = [payload EXCEPT ![t] = m]
    /\ pc' = [pc EXCEPT ![t] = "lock"]
    /\ UNCHANGED <<registered, messageListMutex, messageAsync, tail, loop,
                   currentMessage, history>>

(* The data or the source cannot be copied: the payload is freed again and *)
(* the message is dropped.                                                 *)
CopyFails(t, m) ==
    /\ registered
    /\ pc[t] = "idle"
    /\ memory[m] = "unused"
    /\ memory' = [memory EXCEPT ![m] = "freed"]
    /\ UNCHANGED <<registered, link, messageListMutex, messageAsync,
                   threadVars, loop, currentMessage, history>>

(* A mistake for QueueInv to catch: the list is walked without the mutex.  *)
LockNothing(t) ==
    /\ pc[t] = "lock"
    /\ messageListMutex' = t
    /\ tail' = [tail EXCEPT ![t] = ListHead]
    /\ pc' = [pc EXCEPT ![t] = "walk"]
    /\ UNCHANGED <<registered, link, memory, messageAsync, payload, loop,
                   currentMessage, history>>

LockList(t) ==
    /\ pc[t] = "lock"
    /\ messageListMutex = NULL
    /\ messageListMutex' = t
    /\ tail' = [tail EXCEPT ![t] = ListHead]
    /\ pc' = [pc EXCEPT ![t] = "walk"]
    /\ UNCHANGED <<registered, link, memory, messageAsync, payload, loop,
                   currentMessage, history>>

(* One turn of the while loop: tail moves to the next cell.                *)
WalkList(t) ==
    /\ pc[t] = "walk"
    /\ link[tail[t]] # NULL
    /\ tail' = [tail EXCEPT ![t] = link[tail[t]]]
    /\ UNCHANGED <<registered, link, memory, messageListMutex, messageAsync,
                   pc, payload, loop, currentMessage, history>>

(* A mistake for StreamSpec to catch: the payload is linked at the         *)
(* head, in constant time.                                                 *)
LinkAtHead(t) ==
    /\ pc[t] = "walk"
    /\ link[tail[t]] = NULL
    /\ link' = [link EXCEPT ![payload[t]] = link[ListHead],
                            ![ListHead] = payload[t]]
    /\ order' = Append(order, payload[t])
    /\ pc' = [pc EXCEPT ![t] = "unlock"]
    /\ UNCHANGED <<registered, memory, messageListMutex, messageAsync, payload,
                   tail, loop, currentMessage, taken, delivered, freed>>

(* The cell found holds NULL: it now holds the payload.                    *)
LinkPayload(t) ==
    /\ pc[t] = "walk"
    /\ link[tail[t]] = NULL
    /\ link' = [link EXCEPT ![tail[t]] = payload[t]]
    /\ order' = Append(order, payload[t])
    /\ pc' = [pc EXCEPT ![t] = "unlock"]
    /\ UNCHANGED <<registered, memory, messageListMutex, messageAsync, payload,
                   tail, loop, currentMessage, taken, delivered, freed>>

(* A mistake for NoLostWakeup to catch: no wakeup is sent while the loop   *)
(* is inside emitMessage, which "is going to look at the list anyway".     *)
UnlockAndMaybeSend(t) ==
    /\ pc[t] = "unlock"
    /\ messageListMutex' = NULL
    /\ pc' = [pc EXCEPT ![t] = IF loop = "poll" THEN "send" ELSE "idle"]
    /\ UNCHANGED <<registered, link, memory, messageAsync, payload, tail, loop,
                   currentMessage, history>>

UnlockList(t) ==
    /\ pc[t] = "unlock"
    /\ messageListMutex' = NULL
    /\ pc' = [pc EXCEPT ![t] = "send"]
    /\ UNCHANGED <<registered, link, memory, messageAsync, payload, tail, loop,
                   currentMessage, history>>

(* uv_async_send: a handle that is pending already stays pending.          *)
SendAsync(t) ==
    /\ pc[t] = "send"
    /\ messageAsync' = TRUE
    /\ pc' = [pc EXCEPT ![t] = "idle"]
    /\ payload' = [payload EXCEPT ![t] = NULL]
    /\ UNCHANGED <<registered, link, memory, messageListMutex, tail, loop,
                   currentMessage, history>>

-----------------------------------------------------------------------------
(* The thread of the event loop.                                           *)

(* JavaScript calls localConnect between two turns of the loop: from here  *)
(* on the core may call sendData.                                          *)
LocalConnect ==
    /\ loop = "poll"
    /\ registered' = TRUE
    /\ UNCHANGED <<link, memory, messageListMutex, messageAsync, threadVars,
                   loop, currentMessage, history>>

(* libuv clears the pending flag and then calls emitMessage.               *)
WakeUp ==
    /\ loop = "poll"
    /\ messageAsync
    /\ messageAsync' = FALSE
    /\ loop' = "lock"
    /\ UNCHANGED <<registered, link, memory, messageListMutex, threadVars,
                   currentMessage, history>>

LockToTake ==
    /\ loop = "lock"
    /\ messageListMutex = NULL
    /\ messageListMutex' = Loop
    /\ loop' = "take"
    /\ UNCHANGED <<registered, link, memory, messageAsync, threadVars,
                   currentMessage, history>>

(* A mistake for NoUseAfterFree to catch: messageList keeps its value.     *)
TakeListAndKeepIt ==
    /\ loop = "take"
    /\ currentMessage' = link[ListHead]
    /\ taken' = Len(order)
    /\ loop' = "unlock"
    /\ UNCHANGED <<registered, link, memory, messageListMutex, messageAsync,
                   threadVars, order, delivered, freed>>

(* currentMessage = messageList; messageList = NULL.                       *)
TakeList ==
    /\ loop = "take"
    /\ currentMessage' = link[ListHead]
    /\ link' = [link EXCEPT ![ListHead] = NULL]
    /\ taken' = Len(order)
    /\ loop' = "unlock"
    /\ UNCHANGED <<registered, memory, messageListMutex, messageAsync,
                   threadVars, order, delivered, freed>>

UnlockTaken ==
    /\ loop = "unlock"
    /\ messageListMutex' = NULL
    /\ loop' = "deliver"
    /\ UNCHANGED <<registered, link, memory, messageAsync, threadVars,
                   currentMessage, history>>

(* The listener is called.  An exception it throws is reported and, when   *)
(* an uncaughtException handler exists, the loop over the list goes on.    *)
CallListener ==
    /\ loop = "deliver"
    /\ currentMessage # NULL
    /\ delivered' = Append(delivered, currentMessage)
    /\ loop' = "free"
    /\ UNCHANGED <<registered, link, memory, messageListMutex, messageAsync,
                   threadVars, currentMessage, order, taken, freed>>

(* The listener throws and nobody handles it: FatalException ends the      *)
(* process.                                                                *)
ListenerThrows ==
    /\ loop = "deliver"
    /\ currentMessage # NULL
    /\ delivered' = Append(delivered, currentMessage)
    /\ loop' = "gone"
    /\ UNCHANGED <<registered, link, memory, messageListMutex, messageAsync,
                   threadVars, currentMessage, order, taken, freed>>

(* A mistake for NothingLeaks to catch: the payload is left allocated.     *)
SkipPayload ==
    /\ loop = "free"
    /\ link' = [link EXCEPT ![currentMessage] = NULL]
    /\ currentMessage' = link[currentMessage]
    /\ freed' = freed + 1
    /\ loop' = "deliver"
    /\ UNCHANGED <<registered, memory, messageListMutex, messageAsync,
                   threadVars, order, taken, delivered>>

(* nextMessage = currentMessage->next, then freePayload clears the fields. *)
FreePayload ==
    /\ loop = "free"
    /\ memory' = [memory EXCEPT ![currentMessage] = "freed"]
    /\ link' = [link EXCEPT ![currentMessage] = NULL]
    /\ currentMessage' = link[currentMessage]
    /\ freed' = freed + 1
    /\ loop' = "deliver"
    /\ UNCHANGED <<registered, messageListMutex, messageAsync, threadVars,
                   order, taken, delivered>>

(* A mistake for EveryMessageArrives to catch: the pending flag is cleared *)
(* at the end of emitMessage.                                              *)
ListDeliveredAndClear ==
    /\ loop = "deliver"
    /\ currentMessage = NULL
    /\ messageAsync' = FALSE
    /\ loop' = "poll"
    /\ UNCHANGED <<registered, link, memory, messageListMutex, threadVars,
                   currentMessage, history>>

ListDelivered ==
    /\ loop = "deliver"
    /\ currentMessage = NULL
    /\ loop' = "poll"
    /\ UNCHANGED <<registered, link, memory, messageListMutex, messageAsync,
                   threadVars, currentMessage, history>>

(* The handle is unref'd: with nothing else to do the loop ends, even if   *)
(* the handle is pending.                                                  *)
LoopEnds ==
    /\ loop = "poll"
    /\ loop' = "gone"
    /\ UNCHANGED <<registered, link, memory, messageListMutex, messageAsync,
                   threadVars, currentMessage, history>>

(* The process is over and no thread is inside sendData.                   *)
Finished ==
    /\ loop = "gone"
    /\ \A t \in Thread : pc[t] = "idle"
    /\ UNCHANGED vars

-----------------------------------------------------------------------------
InSendData(t) ==
    \/ LockList(t) \/ WalkList(t) \/ LinkPayload(t) \/ UnlockList(t)
    \/ SendAsync(t)

EmitMessage ==
    \/ WakeUp \/ LockToTake \/ TakeList \/ UnlockTaken \/ CallListener
    \/ ListenerThrows \/ FreePayload \/ ListDelivered

Next ==
    \/ \E t \in Thread, m \in Payload : CopyMessage(t, m) \/ CopyFails(t, m)
    \/ \E t \in Thread : InSendData(t)
    \/ EmitMessage
    \/ LocalConnect
    \/ LoopEnds
    \/ Finished

(* A thread inside sendData goes on, and so does the loop: libuv polls its *)
(* handles every turn.  Nothing forces a thread to send, or the loop to    *)
(* end.                                                                    *)
Fairness ==
    /\ \A t \in Thread : WF_vars(InSendData(t))
    /\ WF_vars(EmitMessage)

SafeSpec == Init /\ [][Next]_vars

Spec == SafeSpec /\ Fairness

-----------------------------------------------------------------------------
ListEmpty == link[ListHead] = NULL

(* The order of delivery (appmetrics.cpp: "So they are sent in the same    *)
(* order we added them"): the listener has been called with an initial     *)
(* part of the messages that were linked, in that order, each once, none   *)
(* skipped, whatever sends libuv coalesces.                                *)
DeliveredInOrder ==
    /\ Len(delivered) <= Len(order)
    /\ \A i \in 1..Len(delivered) : delivered[i] = order[i]

(* No wakeup is lost: whenever the list is not empty, emitMessage is going *)
(* to look at it: the handle is pending, or the loop is on its way to      *)
(* detach the list, or a thread that has linked its payload has not called *)
(* uv_async_send yet (or the loop has ended).                              *)
NoLostWakeup ==
    \/ ListEmpty
    \/ messageAsync
    \/ loop \in {"lock", "take", "gone"}
    \/ \E t \in Thread : pc[t] \in {"unlock", "send"}

(* No payload is used after freePayload: what sendData walks over, what    *)
(* emitMessage delivers and frees, and everything the list holds is live;  *)
(* so none is freed twice ("guard against the same payload being freed     *)
(* twice").                                                                *)
NoUseAfterFree ==
    /\ \A t \in Thread :
          pc[t] = "walk" => \/ tail[t] = ListHead
                            \/ tail[t] \in Payload /\ memory[tail[t]] = "live"
    /\ loop \in {"deliver", "free"} =>
          currentMessage = NULL \/ memory[currentMessage] = "live"
    /\ \A c \in Cell : link[c] # NULL => memory[link[c]] = "live"

(* No payload leaks: when no thread is inside sendData and the loop is     *)
(* idle with an empty list, every payload allocated has been freed.        *)
NothingLeaks ==
    (ListEmpty /\ loop = "poll" /\ \A t \in Thread : pc[t] = "idle") =>
        \A m \in Payload : memory[m] # "live"

(* Every message that was linked reaches the listener, unless the process  *)
(* ends first.                                                             *)
EveryMessageArrives ==
    \A m \in Payload :
        (\E i \in 1..Len(order) : order[i] = m)
            ~> \/ \E i \in 1..Len(delivered) : delivered[i] = m
               \/ loop = "gone"

-----------------------------------------------------------------------------
(* The inductive invariant: where every payload is.                        *)

(* The mutex is held by whoever is between lock and unlock.                *)
MutexInv ==
    /\ \A t \in Thread : pc[t] \in {"walk", "unlock"} <=> messageListMutex = t
    /\ loop \in {"take", "unlock"} <=> messageListMutex = Loop

(* A payload being built belongs to one thread; nothing points to it.      *)
Building(t) == pc[t] \in {"lock", "walk"}

BuildingInv ==
    /\ \A t \in Thread : Building(t) =>
          /\ payload[t] \in Payload
          /\ memory[payload[t]] = "live"
          /\ link[payload[t]] = NULL
          /\ \A i \in 1..Len(order) : order[i] # payload[t]
    /\ \A t, u \in Thread :
          Building(t) /\ Building(u) /\ payload[t] = payload[u] => t = u

(* The messages in order are cut in four: freed, delivered, detached and   *)
(* linked.                                                                 *)
OrderInv ==
    /\ \A i, j \in 1..Len(order) : order[i] = order[j] => i = j
    /\ freed <= Len(delivered)
    /\ Len(delivered) <= taken
    /\ taken <= Len(order)
    /\ \A i \in 1..Len(delivered) : delivered[i] = order[i]
    /\ loop = "free" => Len(delivered) = freed + 1
    /\ loop \notin {"free", "gone"} => Len(delivered) = freed
    /\ loop \in {"poll", "lock", "take"} => Len(delivered) = taken
    /\ \A i \in 1..Len(order) :
          memory[order[i]] = IF i <= freed THEN "freed" ELSE "live"

(* Cut by cut, the links follow the order; no other cell points anywhere.  *)
LinkInv ==
    /\ link[ListHead] = IF taken < Len(order) THEN order[taken + 1] ELSE NULL
    /\ \A i \in 1..Len(order) :
          link[order[i]] =
              IF i <= freed \/ i = taken \/ i = Len(order)
              THEN NULL ELSE order[i + 1]
    /\ \A m \in Payload :
          link[m] # NULL => \E i \in 1..Len(order) : order[i] = m

(* sendData walks the linked part, emitMessage the detached one.           *)
CursorInv ==
    /\ \A t \in Thread : pc[t] = "walk" =>
          \/ tail[t] = ListHead
          \/ \E i \in taken + 1 .. Len(order) : tail[t] = order[i]
    /\ loop \in {"unlock", "deliver"} =>
          currentMessage =
              IF Len(delivered) < taken THEN order[Len(delivered) + 1]
                                        ELSE NULL
    /\ loop = "free" => currentMessage = order[Len(delivered)]

QueueInv ==
    /\ TypeOK
    /\ MutexInv
    /\ BuildingInv
    /\ OrderInv
    /\ LinkInv
    /\ CursorInv
    /\ NoLostWakeup

-----------------------------------------------------------------------------
(* The queue implements the abstract stream.                               *)
Stream == INSTANCE EventStream WITH
    Message <- Payload,
    sent <- order,
    received <- delivered,
    open <- loop # "gone"

StreamSafe == Stream!SafeSpec
StreamSpec == Stream!Spec
=============================================================================
