------------------------- MODULE MessageQueueProofs -------------------------
(***************************************************************************)
(* Proofs about MessageQueue, for any number of core threads and messages. *)
(* The invariant QueueInv of MessageQueue is inductive; the properties of  *)
(* the queue and the refinement of EventStream follow from it.             *)
(***************************************************************************)
EXTENDS MessageQueue, TLAPS

(* The cell in which sendData finds NULL is the last one: messageList      *)
(* itself when nothing is linked, else the next field of the last payload. *)
LEMMA TailIsLast ==
    ASSUME TypeOK, OrderInv, LinkInv, CursorInv, NEW t \in Thread,
           pc[t] = "walk", link[tail[t]] = NULL
    PROVE  \/ tail[t] = ListHead /\ taken = Len(order)
           \/ tail[t] = order[Len(order)] /\ taken < Len(order)
  <1>1. CASE tail[t] = ListHead
    BY <1>1, QueueConstants DEF TypeOK, OrderInv, LinkInv
  <1>2. CASE \E i \in taken + 1 .. Len(order) : tail[t] = order[i]
    <2>1. PICK i \in taken + 1 .. Len(order) : tail[t] = order[i]
      BY <1>2
    <2>2. /\ Len(order) \in Nat /\ taken \in Nat /\ freed \in Nat
          /\ freed <= taken
          /\ \A j \in 1..Len(order) : order[j] \in Payload
      BY DEF TypeOK, OrderInv
    <2>3. i = Len(order)
      <3>1. i \in 1..Len(order) /\ i > taken
        BY <2>1, <2>2
      <3>2. i # Len(order) => link[order[i]] = order[i + 1]
        BY <2>2, <3>1 DEF LinkInv
      <3> QED
        BY <2>1, <2>2, <3>1, <3>2, QueueConstants
    <2> QED
      BY <2>1, <2>2, <2>3
  <1> QED
    BY <1>1, <1>2 DEF CursorInv

(* Linking a payload there keeps the links in step with the order.         *)
LEMMA LinkPayloadLinks ==
    ASSUME TypeOK, BuildingInv, OrderInv, LinkInv, CursorInv,
           NEW t \in Thread, LinkPayload(t)
    PROVE  LinkInv'
  <1> DEFINE n == Len(order)
  <1>1. /\ pc[t] = "walk"
        /\ link' = [link EXCEPT ![tail[t]] = payload[t]]
        /\ order' = Append(order, payload[t])
        /\ UNCHANGED <<taken, freed, payload>>
    BY DEF LinkPayload
  <1>2. /\ payload[t] \in Payload
        /\ link[payload[t]] = NULL
        /\ \A i \in 1..n : order[i] # payload[t]
    BY <1>1 DEF BuildingInv, Building
  <1>3. /\ n \in Nat /\ taken \in Nat /\ freed \in Nat
        /\ freed <= taken /\ taken <= n
        /\ \A i \in 1..n : order[i] \in Payload
    BY DEF TypeOK, OrderInv
  <1>4. /\ Len(order') = n + 1
        /\ order'[n + 1] = payload[t]
        /\ \A i \in 1..n : order'[i] = order[i]
    BY <1>1, <1>2 DEF TypeOK
  <1>5. /\ tail[t] \in Cell
        /\ \/ tail[t] = ListHead /\ taken = n
           \/ tail[t] = order[n] /\ taken < n
    BY <1>1, TailIsLast DEF TypeOK, LinkPayload
  <1>6. tail[t] # payload[t]
    BY <1>2, <1>3, <1>5, QueueConstants
  <1>7. /\ link'[tail[t]] = payload[t]
        /\ \A c \in Cell : c # tail[t] => link'[c] = link[c]
    BY <1>1, <1>5 DEF TypeOK
  <1>8. link'[ListHead] =
            IF taken < n + 1 THEN order'[taken + 1] ELSE NULL
    <2>1. CASE tail[t] = ListHead /\ taken = n
      BY <2>1, <1>3, <1>4, <1>7
    <2>2. CASE tail[t] = order[n] /\ taken < n
      <3>1. tail[t] # ListHead
        BY <2>2, <1>3, QueueConstants
      <3>2. link'[ListHead] = order[taken + 1]
        BY <3>1, <2>2, <1>7 DEF Cell, LinkInv
      <3> QED
        BY <3>2, <2>2, <1>3, <1>4
    <2> QED
      BY <2>1, <2>2, <1>5
  <1>9. ASSUME NEW i \in 1..(n + 1)
        PROVE  link'[order'[i]] =
                   IF i <= freed \/ i = taken \/ i = n + 1
                   THEN NULL ELSE order'[i + 1]
    <2>1. CASE i = n + 1
      BY <2>1, <1>2, <1>4, <1>6, <1>7 DEF Cell
    <2>2. CASE i <= n /\ order[i] = tail[t]
      <3>1. i = n /\ taken < n
        BY <2>2, <1>3, <1>5, QueueConstants DEF OrderInv
      <3> QED
        BY <3>1, <2>2, <1>3, <1>4, <1>7
    <2>3. CASE i <= n /\ order[i] # tail[t]
      <3>1. link'[order'[i]] = link[order[i]]
        BY <2>3, <1>3, <1>4, <1>7 DEF Cell
      <3>2. i = n => taken = n
        BY <2>3, <1>5
      <3> QED
        BY <3>1, <3>2, <2>3, <1>3, <1>4 DEF LinkInv
    <2> QED
      BY <2>1, <2>2, <2>3, <1>3
  <1>10. ASSUME NEW m \in Payload, link'[m] # NULL
         PROVE  \E i \in 1..(n + 1) : order'[i] = m
    <2>1. CASE m = tail[t]
      BY <2>1, <1>3, <1>4, <1>5, QueueConstants
    <2>2. CASE m # tail[t]
      BY <2>2, <1>3, <1>4, <1>7, <1>10 DEF Cell, LinkInv
    <2> QED
      BY <2>1, <2>2
  <1>11. \A i \in 1..Len(order') :
             link'[order'[i]] =
                 IF i <= freed' \/ i = taken' \/ i = Len(order')
                 THEN NULL ELSE order'[i + 1]
    BY <1>1, <1>4, <1>9
  <1>12. \A m \in Payload :
             link'[m] # NULL => \E i \in 1..Len(order') : order'[i] = m
    BY <1>4, <1>10
  <1> QED
    BY <1>1, <1>4, <1>8, <1>11, <1>12 DEF LinkInv

-----------------------------------------------------------------------------
(* The invariant holds initially, and every step keeps it.                 *)
LEMMA QueueInvInit ==
    Init => QueueInv
  <1> SUFFICES ASSUME Init PROVE QueueInv
    OBVIOUS
  <1>1. TypeOK
    <2>1. <<>> \in Seq(Payload)
      OBVIOUS
    <2>2. /\ link \in [Cell -> Payload \cup {NULL}]
          /\ memory \in [Payload -> {"unused", "live", "freed"}]
          /\ tail \in [Thread -> Cell]
          /\ payload \in [Thread -> Payload \cup {NULL}]
          /\ pc \in [Thread -> {"idle", "lock", "walk", "unlock", "send"}]
      BY DEF Init, Cell
    <2> QED
      BY <2>1, <2>2 DEF Init, TypeOK
  <1>2. Len(order) = 0 /\ Len(delivered) = 0
    BY DEF Init
  <1>3. MutexInv
    BY QueueConstants DEF Init, MutexInv
  <1>4. BuildingInv /\ CursorInv
    BY DEF Init, BuildingInv, Building, CursorInv
  <1>5. NoLostWakeup
    BY DEF Init, Cell, NoLostWakeup, ListEmpty
  <1>6. OrderInv /\ LinkInv
    BY <1>2 DEF Init, Cell, OrderInv, LinkInv
  <1> QED
    BY <1>1, <1>3, <1>4, <1>5, <1>6 DEF QueueInv

LEMMA QueueInvStep ==
    QueueInv /\ [Next]_vars => QueueInv'
  <1> SUFFICES ASSUME TypeOK, MutexInv, BuildingInv, OrderInv, LinkInv,
                      CursorInv, NoLostWakeup, [Next]_vars
               PROVE  QueueInv'
    BY DEF QueueInv
  <1>1. ASSUME NEW t \in Thread, NEW m \in Payload, CopyMessage(t, m)
        PROVE QueueInv'
    <2>1. TypeOK'
      BY <1>1 DEF CopyMessage, TypeOK, history
    <2>2. MutexInv'
      BY <1>1 DEF CopyMessage, MutexInv
    <2>3. BuildingInv'
      BY <1>1 DEF CopyMessage, Cell, TypeOK, BuildingInv, Building, OrderInv,
                  history
    <2>4. OrderInv'
      BY <1>1 DEF CopyMessage, OrderInv, history
    <2>5. LinkInv'
      BY <1>1 DEF CopyMessage, OrderInv, LinkInv, history
    <2>6. CursorInv'
      BY <1>1 DEF CopyMessage, CursorInv, history
    <2>7. NoLostWakeup'
      BY <1>1 DEF CopyMessage, NoLostWakeup, ListEmpty
    <2> QED
      BY <2>1, <2>2, <2>3, <2>4, <2>5, <2>6, <2>7 DEF QueueInv
  <1>2. ASSUME NEW t \in Thread, NEW m \in Payload, CopyFails(t, m)
        PROVE QueueInv'
    <2>1. TypeOK'
      BY <1>2 DEF CopyFails, TypeOK, threadVars, history
    <2>2. BuildingInv'
      BY <1>2 DEF CopyFails, BuildingInv, Building, threadVars, history
    <2>3. OrderInv'
      BY <1>2 DEF CopyFails, OrderInv, history
    <2>4. MutexInv' /\ LinkInv' /\ CursorInv' /\ NoLostWakeup'
      BY <1>2 DEF CopyFails, MutexInv, LinkInv, CursorInv, NoLostWakeup,
                  ListEmpty, threadVars, history
    <2> QED
      BY <2>1, <2>2, <2>3, <2>4 DEF QueueInv
  <1>3. ASSUME NEW t \in Thread, LockList(t)
        PROVE QueueInv'
    <2>1. TypeOK'
      BY <1>3 DEF LockList, Cell, TypeOK, history
    <2>2. MutexInv'
      BY <1>3, QueueConstants DEF LockList, TypeOK, MutexInv
    <2>3. BuildingInv'
      BY <1>3 DEF LockList, BuildingInv, Building, history
    <2>4. CursorInv'
      BY <1>3 DEF LockList, TypeOK, CursorInv, history
    <2>5. NoLostWakeup'
      BY <1>3 DEF LockList, NoLostWakeup, ListEmpty
    <2>6. OrderInv' /\ LinkInv'
      BY <1>3 DEF LockList, OrderInv, LinkInv, history
    <2> QED
      BY <2>1, <2>2, <2>3, <2>4, <2>5, <2>6 DEF QueueInv
  <1>4. ASSUME NEW t \in Thread, WalkList(t)
        PROVE QueueInv'
    <2>1. TypeOK'
      BY <1>4 DEF WalkList, Cell, TypeOK, history
    <2>2. CursorInv'
      <3>1. tail'[t] = link[tail[t]] /\ link[tail[t]] # NULL /\ pc[t] = "walk"
        BY <1>4 DEF WalkList, TypeOK
      <3>2. \E i \in taken + 1 .. Len(order) : link[tail[t]] = order[i]
        <4>1. /\ Len(order) \in Nat /\ taken \in Nat /\ freed \in Nat
              /\ freed <= taken
          BY DEF TypeOK, OrderInv
        <4>2. CASE tail[t] = ListHead
          BY <3>1, <4>1, <4>2 DEF LinkInv
        <4>3. ASSUME NEW i \in taken + 1 .. Len(order), tail[t] = order[i]
              PROVE  \E j \in taken + 1 .. Len(order) :
                        link[tail[t]] = order[j]
          <5>1. i # Len(order) /\ link[tail[t]] = order[i + 1]
            BY <3>1, <4>1, <4>3 DEF LinkInv
          <5> QED
            BY <4>1, <5>1
        <4> QED
          BY <3>1, <4>2, <4>3 DEF CursorInv
      <3> QED
        BY <1>4, <3>1, <3>2 DEF WalkList, TypeOK, CursorInv, history
    <2>3. MutexInv' /\ BuildingInv' /\ OrderInv' /\ LinkInv' /\ NoLostWakeup'
      BY <1>4 DEF WalkList, MutexInv, BuildingInv, Building, OrderInv, LinkInv,
                  NoLostWakeup, ListEmpty, history
    <2> QED
      BY <2>1, <2>2, <2>3 DEF QueueInv
  <1>5. ASSUME NEW t \in Thread, LinkPayload(t)
        PROVE QueueInv'
    <2>1. TypeOK'
      BY <1>5 DEF LinkPayload, TypeOK, BuildingInv, Building
    <2>2. MutexInv'
      BY <1>5 DEF LinkPayload, MutexInv
    <2>3. BuildingInv'
      BY <1>5, QueueConstants DEF LinkPayload, Cell, TypeOK, BuildingInv,
                                  Building, CursorInv, NoLostWakeup, ListEmpty
    <2>4. OrderInv'
      BY <1>5 DEF LinkPayload, TypeOK, BuildingInv, Building, OrderInv
    <2>5. LinkInv'
      BY <1>5, LinkPayloadLinks
    <2>6. CursorInv'
      BY <1>5 DEF LinkPayload, TypeOK, OrderInv, CursorInv
    <2>7. NoLostWakeup'
      BY <1>5 DEF LinkPayload, TypeOK, NoLostWakeup, ListEmpty
    <2> QED
      BY <2>1, <2>2, <2>3, <2>4, <2>5, <2>6, <2>7 DEF QueueInv
  <1>6. ASSUME NEW t \in Thread, UnlockList(t)
        PROVE QueueInv'
    <2>1. TypeOK'
      BY <1>6 DEF UnlockList, TypeOK, history
    <2>2. MutexInv'
      BY <1>6, QueueConstants DEF UnlockList, TypeOK, MutexInv
    <2>3. BuildingInv'
      BY <1>6 DEF UnlockList, BuildingInv, Building, history
    <2>4. CursorInv'
      BY <1>6 DEF UnlockList, CursorInv, history
    <2>5. NoLostWakeup'
      BY <1>6 DEF UnlockList, NoLostWakeup, ListEmpty
    <2>6. OrderInv' /\ LinkInv'
      BY <1>6 DEF UnlockList, OrderInv, LinkInv, history
    <2> QED
      BY <2>1, <2>2, <2>3, <2>4, <2>5, <2>6 DEF QueueInv
  <1>7. ASSUME NEW t \in Thread, SendAsync(t)
        PROVE QueueInv'
    <2>1. TypeOK'
      BY <1>7 DEF SendAsync, TypeOK, history
    <2>2. MutexInv'
      BY <1>7 DEF SendAsync, MutexInv
    <2>3. BuildingInv'
      BY <1>7 DEF SendAsync, BuildingInv, Building, history
    <2>4. CursorInv'
      BY <1>7 DEF SendAsync, CursorInv, history
    <2>5. NoLostWakeup'
      BY <1>7 DEF SendAsync, NoLostWakeup, ListEmpty
    <2>6. OrderInv' /\ LinkInv'
      BY <1>7 DEF SendAsync, OrderInv, LinkInv, history
    <2> QED
      BY <2>1, <2>2, <2>3, <2>4, <2>5, <2>6 DEF QueueInv
  <1>8. ASSUME WakeUp
        PROVE QueueInv'
    <2>1. TypeOK'
      BY <1>8 DEF WakeUp, TypeOK, threadVars, history
    <2>2. MutexInv'
      BY <1>8 DEF WakeUp, MutexInv, threadVars
    <2>3. OrderInv'
      BY <1>8 DEF WakeUp, OrderInv, history
    <2>4. CursorInv'
      BY <1>8 DEF WakeUp, CursorInv, threadVars, history
    <2>5. NoLostWakeup'
      BY <1>8 DEF WakeUp, NoLostWakeup, ListEmpty
    <2>6. BuildingInv' /\ LinkInv'
      BY <1>8 DEF WakeUp, BuildingInv, Building, LinkInv, threadVars, history
    <2> QED
      BY <2>1, <2>2, <2>3, <2>4, <2>5, <2>6 DEF QueueInv
  <1>9. ASSUME LockToTake
        PROVE QueueInv'
    <2>1. TypeOK'
      BY <1>9 DEF LockToTake, TypeOK, threadVars, history
    <2>2. MutexInv'
      BY <1>9, QueueConstants DEF LockToTake, MutexInv, threadVars
    <2>3. OrderInv'
      BY <1>9 DEF LockToTake, OrderInv, history
    <2>4. CursorInv'
      BY <1>9, QueueConstants DEF LockToTake, MutexInv, CursorInv, threadVars
    <2>5. NoLostWakeup'
      BY <1>9 DEF LockToTake, NoLostWakeup, ListEmpty
    <2>6. BuildingInv' /\ LinkInv'
      BY <1>9 DEF LockToTake, BuildingInv, Building, LinkInv, threadVars,
                  history
    <2> QED
      BY <2>1, <2>2, <2>3, <2>4, <2>5, <2>6 DEF QueueInv
  <1>10. ASSUME TakeList
        PROVE QueueInv'
    <2>1. TypeOK'
      BY <1>10 DEF TakeList, Cell, TypeOK, threadVars
    <2>2. MutexInv'
      BY <1>10 DEF TakeList, MutexInv, threadVars
    <2>3. BuildingInv'
      BY <1>10 DEF TakeList, BuildingInv, Building, threadVars
    <2>4. OrderInv'
      BY <1>10 DEF TakeList, OrderInv
    <2>5. LinkInv'
      BY <1>10 DEF TakeList, Cell, TypeOK, OrderInv, LinkInv
    <2>6. CursorInv'
      BY <1>10, QueueConstants DEF TakeList, MutexInv, OrderInv, LinkInv,
                                   CursorInv, threadVars
    <2>7. NoLostWakeup'
      BY <1>10 DEF TakeList, Cell, TypeOK, NoLostWakeup, ListEmpty
    <2> QED
      BY <2>1, <2>2, <2>3, <2>4, <2>5, <2>6, <2>7 DEF QueueInv
  <1>11. ASSUME UnlockTaken
        PROVE QueueInv'
    <2>1. TypeOK'
      BY <1>11 DEF UnlockTaken, TypeOK, threadVars, history
    <2>2. MutexInv'
      BY <1>11, QueueConstants DEF UnlockTaken, MutexInv, threadVars
    <2>3. OrderInv'
      BY <1>11 DEF UnlockTaken, OrderInv, history
    <2>4. CursorInv'
      BY <1>11 DEF UnlockTaken, CursorInv, threadVars, history
    <2>5. NoLostWakeup'
      BY <1>11 DEF UnlockTaken, NoLostWakeup, ListEmpty, threadVars
    <2>6. BuildingInv' /\ LinkInv'
      BY <1>11 DEF UnlockTaken, BuildingInv, Building, LinkInv, threadVars,
                   history
    <2> QED
      BY <2>1, <2>2, <2>3, <2>4, <2>5, <2>6 DEF QueueInv
  <1>12. ASSUME CallListener
        PROVE QueueInv'
    <2>1. TypeOK'
      BY <1>12 DEF CallListener, TypeOK, threadVars
    <2>2. MutexInv'
      BY <1>12 DEF CallListener, MutexInv, threadVars
    <2>3. OrderInv'
      BY <1>12 DEF CallListener, TypeOK, OrderInv, CursorInv
    <2>4. CursorInv'
      BY <1>12 DEF CallListener, CursorInv, threadVars
    <2>5. NoLostWakeup'
      BY <1>12 DEF CallListener, NoLostWakeup, ListEmpty, threadVars
    <2>6. BuildingInv' /\ LinkInv'
      BY <1>12 DEF CallListener, BuildingInv, Building, LinkInv, threadVars
    <2> QED
      BY <2>1, <2>2, <2>3, <2>4, <2>5, <2>6 DEF QueueInv
  <1>13. ASSUME ListenerThrows
        PROVE QueueInv'
    <2>1. TypeOK'
      BY <1>13 DEF ListenerThrows, TypeOK, threadVars
    <2>2. MutexInv'
      BY <1>13 DEF ListenerThrows, MutexInv, threadVars
    <2>3. OrderInv'
      BY <1>13 DEF ListenerThrows, TypeOK, OrderInv, CursorInv
    <2>4. CursorInv'
      BY <1>13 DEF ListenerThrows, CursorInv, threadVars
    <2>5. NoLostWakeup'
      BY <1>13 DEF ListenerThrows, NoLostWakeup, ListEmpty
    <2>6. BuildingInv' /\ LinkInv'
      BY <1>13 DEF ListenerThrows, BuildingInv, Building, LinkInv, threadVars
    <2> QED
      BY <2>1, <2>2, <2>3, <2>4, <2>5, <2>6 DEF QueueInv
  <1>14. ASSUME FreePayload
        PROVE QueueInv'
    <2>1. TypeOK'
      BY <1>14 DEF FreePayload, Cell, TypeOK, OrderInv, CursorInv, threadVars
    <2>2. MutexInv'
      BY <1>14 DEF FreePayload, MutexInv, threadVars
    <2>3. BuildingInv'
      BY <1>14 DEF FreePayload, TypeOK, BuildingInv, Building, OrderInv,
                   CursorInv, threadVars
    <2>4. OrderInv'
      BY <1>14 DEF FreePayload, TypeOK, BuildingInv, OrderInv, CursorInv
    <2>5. LinkInv'
      BY <1>14 DEF FreePayload, Cell, TypeOK, MutexInv, OrderInv, LinkInv,
                   CursorInv, NoLostWakeup
    <2>6. CursorInv'
      BY <1>14 DEF FreePayload, TypeOK, OrderInv, LinkInv, CursorInv,
                   threadVars
    <2>7. NoLostWakeup'
      BY <1>14 DEF FreePayload, NoLostWakeup, ListEmpty, threadVars
    <2> QED
      BY <2>1, <2>2, <2>3, <2>4, <2>5, <2>6, <2>7 DEF QueueInv
  <1>15. ASSUME ListDelivered
        PROVE QueueInv'
    <2>1. TypeOK'
      BY <1>15 DEF ListDelivered, TypeOK, threadVars, history
    <2>2. MutexInv'
      BY <1>15 DEF ListDelivered, MutexInv, threadVars
    <2>3. OrderInv'
      BY <1>15, QueueConstants DEF ListDelivered, TypeOK, OrderInv, CursorInv,
                                   history
    <2>4. CursorInv'
      BY <1>15 DEF ListDelivered, CursorInv, threadVars, history
    <2>5. NoLostWakeup'
      BY <1>15 DEF ListDelivered, NoLostWakeup, ListEmpty, threadVars
    <2>6. BuildingInv' /\ LinkInv'
      BY <1>15 DEF ListDelivered, BuildingInv, Building, LinkInv, threadVars,
                   history
    <2> QED
      BY <2>1, <2>2, <2>3, <2>4, <2>5, <2>6 DEF QueueInv
  <1>16. ASSUME LocalConnect
        PROVE QueueInv'
    <2>1. TypeOK'
      BY <1>16 DEF LocalConnect, TypeOK, threadVars, history
    <2>2. /\ MutexInv' /\ BuildingInv' /\ OrderInv' /\ LinkInv'
          /\ CursorInv' /\ NoLostWakeup'
      BY <1>16 DEF LocalConnect, MutexInv, BuildingInv, Building, OrderInv,
                   LinkInv, CursorInv, NoLostWakeup, ListEmpty, threadVars,
                   history
    <2> QED
      BY <2>1, <2>2 DEF QueueInv
  <1>17. ASSUME LoopEnds
        PROVE QueueInv'
    <2>1. TypeOK'
      BY <1>17 DEF LoopEnds, TypeOK, threadVars, history
    <2>2. MutexInv'
      BY <1>17 DEF LoopEnds, MutexInv, threadVars
    <2>3. OrderInv'
      BY <1>17 DEF LoopEnds, OrderInv, history
    <2>4. CursorInv'
      BY <1>17 DEF LoopEnds, CursorInv, threadVars, history
    <2>5. NoLostWakeup'
      BY <1>17 DEF LoopEnds, NoLostWakeup, ListEmpty
    <2>6. BuildingInv' /\ LinkInv'
      BY <1>17 DEF LoopEnds, BuildingInv, Building, LinkInv, threadVars,
                   history
    <2> QED
      BY <2>1, <2>2, <2>3, <2>4, <2>5, <2>6 DEF QueueInv
  <1>18. CASE UNCHANGED vars
    BY <1>18 DEF vars, threadVars, history, QueueInv, TypeOK, MutexInv,
                 BuildingInv, Building, OrderInv, LinkInv, CursorInv,
                 NoLostWakeup, ListEmpty
  <1> QED
    BY <1>1, <1>2, <1>3, <1>4, <1>5, <1>6, <1>7, <1>8, <1>9, <1>10, <1>11,
       <1>12, <1>13, <1>14, <1>15, <1>16, <1>17, <1>18
    DEF Next, InSendData, EmitMessage, Finished

(* QueueInv: where every payload is at every moment; it says in particular *)
(* that messageListMutex is held by the one thread between lock and unlock *)
(* in sendData or emitMessage.                                             *)
THEOREM QueueInvariant == SafeSpec => []QueueInv
  BY QueueInvInit, QueueInvStep, PTL DEF SafeSpec

-----------------------------------------------------------------------------
(* The listener is called with the messages in the order in which sendData *)
(* linked them, each once, none skipped.                                   *)
THEOREM InOrder == SafeSpec => []DeliveredInOrder
  <1>1. ASSUME QueueInv PROVE DeliveredInOrder
    <2>1. /\ Len(delivered) \in Nat /\ taken \in Nat /\ Len(order) \in Nat
          /\ Len(delivered) <= taken /\ taken <= Len(order)
      BY <1>1 DEF QueueInv, TypeOK, OrderInv
    <2> QED
      BY <1>1, <2>1 DEF QueueInv, OrderInv, DeliveredInOrder
  <1> QED
    BY <1>1, QueueInvariant, PTL

(* A message in the list always has a wakeup on its way to emitMessage.    *)
THEOREM WakeupOnItsWay == SafeSpec => []NoLostWakeup
  <1>1. QueueInv => NoLostWakeup
    BY DEF QueueInv
  <1> QED
    BY <1>1, QueueInvariant, PTL

(* Neither sendData nor emitMessage touches a payload that freePayload has *)
(* released, and no cell points to one.                                    *)
THEOREM MemorySafe == SafeSpec => []NoUseAfterFree
  <1>1. ASSUME QueueInv PROVE NoUseAfterFree
    <2> USE <1>1 DEF QueueInv
    <2>1. ASSUME NEW i \in 1..Len(order), i > freed
          PROVE  order[i] \in Payload /\ memory[order[i]] = "live"
      BY <2>1 DEF TypeOK, OrderInv
    <2>2. ASSUME NEW t \in Thread, pc[t] = "walk"
          PROVE  \/ tail[t] = ListHead
                 \/ tail[t] \in Payload /\ memory[tail[t]] = "live"
      <3>1. CASE tail[t] = ListHead
        BY <3>1
      <3>2. CASE \E i \in taken + 1 .. Len(order) : tail[t] = order[i]
        BY <2>1, <3>2 DEF TypeOK, OrderInv
      <3> QED
        BY <2>2, <3>1, <3>2 DEF CursorInv
    <2>3. ASSUME loop \in {"deliver", "free"}
          PROVE  currentMessage = NULL \/ memory[currentMessage] = "live"
      <3>1. CASE loop = "deliver"
        BY <2>1, <3>1 DEF TypeOK, OrderInv, CursorInv
      <3>2. CASE loop = "free"
        BY <2>1, <3>2 DEF TypeOK, OrderInv, CursorInv
      <3> QED
        BY <2>3, <3>1, <3>2
    <2>4. ASSUME NEW c \in Cell, link[c] # NULL
          PROVE  memory[link[c]] = "live"
      <3>1. CASE c = ListHead
        BY <2>1, <2>4, <3>1 DEF TypeOK, OrderInv, LinkInv
      <3>2. CASE c \in Payload
        <4>1. PICK i \in 1..Len(order) : order[i] = c
          BY <2>4, <3>2 DEF LinkInv
        <4>2. /\ i > freed /\ i # Len(order)
              /\ link[c] = order[i + 1]
          BY <2>4, <4>1 DEF TypeOK, LinkInv
        <4> QED
          BY <2>1, <4>1, <4>2 DEF TypeOK
      <3> QED
        BY <3>1, <3>2 DEF Cell
    <2> QED
      BY <2>2, <2>3, <2>4 DEF NoUseAfterFree
  <1> QED
    BY <1>1, QueueInvariant, PTL

-----------------------------------------------------------------------------
(* Somebody holds every live payload: the thread that builds it, or the    *)
(* part of the order that is not freed.                                    *)
Held(m) ==
    \/ \E t \in Thread : Building(t) /\ payload[t] = m
    \/ \E i \in 1..Len(order) : i > freed /\ order[i] = m

HeldInv == \A m \in Payload : memory[m] = "live" => Held(m)

LEMMA HeldStep ==
    ASSUME QueueInv, HeldInv, [Next]_vars
    PROVE  HeldInv'
  <1> SUFFICES ASSUME NEW m \in Payload, memory'[m] = "live"
               PROVE  Held(m)'
    BY DEF HeldInv
  <1>a. /\ memory \in [Payload -> {"unused", "live", "freed"}]
        /\ pc \in [Thread -> {"idle", "lock", "walk", "unlock", "send"}]
        /\ payload \in [Thread -> Payload \cup {NULL}]
        /\ order \in Seq(Payload)
        /\ Len(order) \in Nat /\ freed \in Nat /\ freed <= Len(order)
    BY DEF QueueInv, TypeOK, OrderInv
  <1>b. ASSUME memory[m] = "live" PROVE Held(m)
    BY <1>b DEF HeldInv
  <1>c. ASSUME memory' = memory, UNCHANGED <<order, freed>>,
               \A t \in Thread : Building(t) =>
                   Building(t)' /\ payload'[t] = payload[t]
        PROVE  Held(m)'
    BY <1>b, <1>c DEF Held
  <1>1. ASSUME NEW t \in Thread, NEW p \in Payload, CopyMessage(t, p)
        PROVE  Held(m)'
    <2>1. /\ pc[t] = "idle" /\ memory' = [memory EXCEPT ![p] = "live"]
          /\ payload' = [payload EXCEPT ![t] = p]
          /\ pc' = [pc EXCEPT ![t] = "lock"]
          /\ UNCHANGED <<order, freed>>
      BY <1>1 DEF CopyMessage, history
    <2>2. CASE m = p
      <3>1. Building(t)' /\ payload'[t] = m
        BY <2>1, <2>2, <1>a DEF Building
      <3> QED
        BY <3>1 DEF Held
    <2>3. CASE m # p
      <3>1. Held(m)
        BY <2>1, <2>3, <1>a, <1>b
      <3>2. \A u \in Thread : Building(u) =>
                Building(u)' /\ payload'[u] = payload[u]
        BY <2>1, <1>a DEF Building
      <3> QED
        BY <2>1, <3>1, <3>2 DEF Held
    <2> QED
      BY <2>2, <2>3
  <1>2. ASSUME NEW t \in Thread, NEW p \in Payload, CopyFails(t, p)
        PROVE  Held(m)'
    <2>1. /\ memory' = [memory EXCEPT ![p] = "freed"]
          /\ UNCHANGED <<pc, payload, order, freed>>
      BY <1>2 DEF CopyFails, threadVars, history
    <2>2. m # p /\ Held(m)
      BY <2>1, <1>a, <1>b
    <2> QED
      BY <2>1, <2>2 DEF Held, Building
  <1>3. ASSUME NEW t \in Thread,
               LockList(t) \/ WalkList(t) \/ UnlockList(t) \/ SendAsync(t)
        PROVE  Held(m)'
    <2>1. memory' = memory /\ UNCHANGED <<order, freed>>
      BY <1>3 DEF LockList, WalkList, UnlockList, SendAsync, history
    <2>2. \A u \in Thread : Building(u) =>
              Building(u)' /\ payload'[u] = payload[u]
      BY <1>3, <1>a DEF LockList, WalkList, UnlockList, SendAsync, Building
    <2> QED
      BY <2>1, <2>2, <1>c
  <1>4. ASSUME NEW t \in Thread, LinkPayload(t)
        PROVE  Held(m)'
    <2>1. /\ pc[t] = "walk" /\ order' = Append(order, payload[t])
          /\ pc' = [pc EXCEPT ![t] = "unlock"]
          /\ UNCHANGED <<memory, payload, freed>>
      BY <1>4 DEF LinkPayload
    <2>2. payload[t] \in Payload
      BY <2>1 DEF QueueInv, BuildingInv, Building
    <2>3. /\ Len(order') = Len(order) + 1
          /\ order'[Len(order) + 1] = payload[t]
          /\ \A i \in 1..Len(order) : order'[i] = order[i]
      BY <2>1, <2>2, <1>a
    <2>4. CASE \E u \in Thread : Building(u) /\ payload[u] = m
      <3>1. PICK u \in Thread : Building(u) /\ payload[u] = m
        BY <2>4
      <3>2. CASE u = t
        <4>1. Len(order) + 1 \in 1..Len(order') /\ Len(order) + 1 > freed
          BY <2>3, <1>a
        <4> QED
          BY <2>1, <2>3, <3>1, <3>2, <4>1 DEF Held
      <3>3. CASE u # t
        BY <2>1, <3>1, <3>3, <1>a DEF Held, Building
      <3> QED
        BY <3>2, <3>3
    <2>5. CASE \E i \in 1..Len(order) : i > freed /\ order[i] = m
      <3>1. PICK i \in 1..Len(order) : i > freed /\ order[i] = m
        BY <2>5
      <3>2. i \in 1..Len(order')
        BY <2>3, <1>a
      <3> QED
        BY <2>1, <2>3, <3>1, <3>2 DEF Held
    <2> QED
      BY <2>1, <2>4, <2>5, <1>b DEF Held
  <1>5. CASE FreePayload
    <2>1. /\ loop = "free"
          /\ memory' = [memory EXCEPT ![currentMessage] = "freed"]
          /\ freed' = freed + 1
          /\ UNCHANGED <<pc, payload, order>>
      BY <1>5 DEF FreePayload, threadVars
    <2>2. /\ currentMessage = order[freed + 1]
          /\ freed + 1 \in 1..Len(order)
      BY <2>1, <1>a DEF QueueInv, TypeOK, OrderInv, CursorInv
    <2>3. m # order[freed + 1] /\ memory[m] = "live"
      BY <2>1, <2>2, <1>a
    <2>4. CASE \E u \in Thread : Building(u) /\ payload[u] = m
      BY <2>1, <2>4 DEF Held, Building
    <2>5. CASE \E i \in 1..Len(order) : i > freed /\ order[i] = m
      <3>1. PICK i \in 1..Len(order) : i > freed /\ order[i] = m
        BY <2>5
      <3>2. i > freed + 1
        BY <2>3, <3>1, <1>a
      <3> QED
        BY <2>1, <3>1, <3>2 DEF Held
    <2> QED
      BY <2>3, <2>4, <2>5, <1>b DEF Held
  <1>6. ASSUME \/ WakeUp \/ LockToTake \/ TakeList \/ UnlockTaken
               \/ CallListener \/ ListenerThrows \/ ListDelivered
               \/ LocalConnect \/ LoopEnds \/ UNCHANGED vars
        PROVE  Held(m)'
    <2>1. UNCHANGED <<memory, pc, payload, order, freed>>
      BY <1>6 DEF WakeUp, LockToTake, TakeList, UnlockTaken, CallListener,
                  ListenerThrows, ListDelivered, LocalConnect, LoopEnds,
                  vars, threadVars, history
    <2> QED
      BY <2>1, <1>c DEF Building
  <1> QED
    BY <1>1, <1>2, <1>3, <1>4, <1>5, <1>6
    DEF Next, InSendData, EmitMessage, Finished

(* No payload is lost to both sides: when sendData is not at work and the  *)
(* list has been delivered, all that was allocated has been freed, however *)
(* the threads and emitMessage take turns.                                 *)
THEOREM AllIsFreed == SafeSpec => []NothingLeaks
  <1>1. Init => HeldInv
    BY DEF Init, HeldInv
  <1>2. QueueInv /\ HeldInv /\ [Next]_vars => HeldInv'
    BY HeldStep
  <1>3. ASSUME QueueInv, HeldInv PROVE NothingLeaks
    <2> SUFFICES ASSUME ListEmpty, loop = "poll",
                        \A t \in Thread : pc[t] = "idle",
                        NEW m \in Payload, memory[m] = "live"
                 PROVE  FALSE
      BY DEF NothingLeaks
    <2>1. PICK i \in 1..Len(order) : i > freed /\ order[i] = m
      BY <1>3 DEF HeldInv, Held, Building
    <2>2. freed = taken
      BY <1>3 DEF QueueInv, OrderInv
    <2>3. /\ Len(order) \in Nat /\ taken \in Nat /\ taken < Len(order)
      BY <1>3, <2>1, <2>2 DEF QueueInv, TypeOK
    <2>4. link[ListHead] = order[taken + 1] /\ order[taken + 1] \in Payload
      BY <1>3, <2>3 DEF QueueInv, TypeOK, LinkInv
    <2> QED
      BY <2>4, QueueConstants DEF ListEmpty
  <1> QED
    BY <1>1, <1>2, <1>3, QueueInvariant, PTL DEF SafeSpec

-----------------------------------------------------------------------------
(* MessageQueue implements EventStream: linking a payload is Submit,       *)
(* calling the listener is Deliver, the end of the loop is Close, and      *)
(* every other step of sendData and emitMessage is invisible.              *)
THEOREM ImplementsStream == SafeSpec => StreamSafe
  <1>1. Init => Stream!Init
    BY DEF Init, Stream!Init
  <1>2. ASSUME QueueInv, [Next]_vars
        PROVE  [Stream!Next]_(Stream!vars)
    <2> USE <1>2 DEF QueueInv, Stream!vars
    <2>1. ASSUME NEW t \in Thread, LinkPayload(t)
          PROVE  \E m \in Payload : Stream!Submit(m)
      <3>1. /\ payload[t] \in Payload
            /\ \A i \in 1..Len(order) : order[i] # payload[t]
        BY <2>1 DEF LinkPayload, BuildingInv, Building
      <3>2. Stream!Submit(payload[t])
        BY <2>1, <3>1 DEF LinkPayload, Stream!Submit
      <3> QED
        BY <3>1, <3>2
    <2>2. ASSUME CallListener \/ ListenerThrows
          PROVE  Stream!Deliver
      <3>1. /\ Len(delivered) < taken
            /\ currentMessage = order[Len(delivered) + 1]
        BY <2>2 DEF CallListener, ListenerThrows, CursorInv
      <3>2. Len(delivered) < Len(order)
        BY <3>1 DEF TypeOK, OrderInv
      <3> QED
        BY <2>2, <3>1, <3>2
        DEF CallListener, ListenerThrows, Stream!Deliver
    <2>3. ASSUME LoopEnds
          PROVE  Stream!Close
      BY <2>3 DEF LoopEnds, history, Stream!Close
    <2>4. ASSUME \E t \in Thread, m \in Payload :
                     CopyMessage(t, m) \/ CopyFails(t, m)
          PROVE  UNCHANGED Stream!vars
      BY <2>4 DEF CopyMessage, CopyFails, history
    <2>5. ASSUME \E t \in Thread :
                     \/ LockList(t) \/ WalkList(t)
                     \/ UnlockList(t) \/ SendAsync(t)
          PROVE  UNCHANGED Stream!vars
      BY <2>5 DEF LockList, WalkList, UnlockList, SendAsync, history
    <2>6. ASSUME WakeUp \/ LockToTake \/ TakeList \/ UnlockTaken
          PROVE  UNCHANGED Stream!vars
      BY <2>6 DEF WakeUp, LockToTake, TakeList, UnlockTaken, history
    <2>7. ASSUME FreePayload \/ ListDelivered \/ LocalConnect
          PROVE  UNCHANGED Stream!vars
      BY <2>7 DEF FreePayload, ListDelivered, LocalConnect, history
    <2>8. CASE UNCHANGED vars
      BY <2>8 DEF vars, history
    <2> QED
      BY <2>1, <2>2, <2>3, <2>4, <2>5, <2>6, <2>7, <2>8
      DEF Next, InSendData, EmitMessage, Finished, Stream!Next
  <1> QED
    BY <1>1, <1>2, QueueInvariant, PTL
    DEF SafeSpec, StreamSafe, Stream!SafeSpec
=============================================================================
