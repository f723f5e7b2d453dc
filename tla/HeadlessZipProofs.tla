-------------------------- MODULE HeadlessZipProofs --------------------------
(***************************************************************************)
(* Proofs about HeadlessZip, for any number of runs, starts and files: the *)
(* handing over of runs by one string and one flag (HandOver), the files   *)
(* that are kept (Newest), and the directories that the handlers of `exit' *)
(* find (NothingLeft).                                                     *)
(***************************************************************************)
EXTENDS HeadlessZip, FiniteSetTheorems, TLAPS

(* What the thread and the loop know of one another: a run that is being   *)
(* handed over is the last one, its directory's name is in outputDir from  *)
(* the time it is assigned, and nothing is sent by an agent that is off.   *)
CoreInv ==
    /\ handedOver \subseteq 1..run
    /\ tmp \subseteq 1..run
    /\ outputDir \in 0..run
    /\ core # "idle" => running
    /\ ~running => ~pending
    /\ core = "collecting" => outputDir # run
    /\ core = "sending" => outputDir = run

(* If requests are read one by one, outputDir names a directory that       *)
(* exists from the request to its reading.                                 *)
RequestInv ==
    ~overrun =>
        /\ pending \/ loop = "woken" =>
              outputDir \in tmp /\ core \in {"idle", "collecting"}
        /\ ~(pending /\ loop = "woken")
        /\ core # "idle" => run \in tmp

(* The names are in the order of their times, and what fs.unlink was told  *)
(* to delete is older than the present second.                             *)
FilesInv ==
    Prompt /\ ~clash =>
        /\ KeepsTheNewest
        /\ \A i \in 1..Len(filesWritten) : filesWritten[i] <= second
        /\ \A i, j \in 1..Len(filesWritten) :
              i < j => filesWritten[i] < filesWritten[j]
        /\ \A name \in unlinking : name < second

(* The directories that the core still writes, or has handed over; and     *)
(* those that nothing but a handler of `exit' will find.                   *)
Underway ==
    {d \in tmp : \/ d = run /\ core # "idle"
                 \/ d = outputDir /\ (pending \/ loop = "woken")}

Left == tmp \ Underway

(* There is a handler for every directory left, and one more while the     *)
(* agent runs, for the directory that its end will leave.                  *)
LeftInv ==
    Prompt /\ ~dropped =>
        /\ Cardinality(Left) + (IF running THEN 1 ELSE 0) <= handlers
        /\ NothingIsLeft

(* Every directory is numbered, so there are finitely many.                *)
LEMMA TmpIsFinite ==
    ASSUME TypeOK
    PROVE  /\ IsFiniteSet(tmp)
           /\ \A D \in SUBSET tmp : IsFiniteSet(D) /\ Cardinality(D) \in Nat
  <1>1. IsFiniteSet(Run)
    <2>1. MaxRuns \in Int
      BY HeadlessZipConstants
    <2> QED
      BY <2>1, FS_Interval DEF Run
  <1>2. tmp \in SUBSET Run
    BY DEF TypeOK
  <1>3. IsFiniteSet(tmp)
    BY <1>1, <1>2, FS_Subset
  <1>4. ASSUME NEW D \in SUBSET tmp
        PROVE  IsFiniteSet(D) /\ Cardinality(D) \in Nat
    <2>1. IsFiniteSet(D)
      BY <1>3, FS_Subset
    <2> QED
      BY <2>1, FS_CardinalityType
  <1> QED
    BY <1>3, <1>4

LEMMA TypeInit ==
    Init => TypeOK
  <1> SUFFICES ASSUME Init PROVE TypeOK
    OBVIOUS
  <1>1. 0 \in 0..MaxStarts /\ 0 \in 0..MaxRuns /\ 0 \in Second
    BY HeadlessZipConstants DEF Second
  <1>2. filesWritten \in Seq(Second)
    <2> HIDE DEF Second
    <2> QED
      BY DEF Init
  <1>3. disk \in [Second -> 0..MaxRuns]
    BY <1>1 DEF Init
  <1> QED
    BY <1>1, <1>2, <1>3 DEF Init, TypeOK

(* Remembering a name keeps the types of the files.                        *)
LEMMA RememberTypes ==
    ASSUME TypeOK, NEW dir \in 0..MaxRuns, HeadlessZip(dir)
    PROVE  /\ filesWritten' \in Seq(Second)
           /\ disk' \in [Second -> 0..MaxRuns]
           /\ unlinking' \subseteq Second
           /\ tmp' \subseteq Run
           /\ packed' \in Seq(Run)
           /\ clash \in BOOLEAN => clash' \in BOOLEAN
  <1>1. /\ second \in Second /\ filesWritten \in Seq(Second)
        /\ disk \in [Second -> 0..MaxRuns] /\ unlinking \subseteq Second
        /\ tmp \subseteq Run /\ packed \in Seq(Run)
    BY DEF TypeOK
  <1>2. filesWritten # <<>> =>
            /\ Tail(filesWritten) \in Seq(Second)
            /\ Head(filesWritten) \in Second
    <2> HIDE DEF Second
    <2> QED
      BY <1>1
  <1>3. Full => filesWritten # <<>>
    BY <1>1, HeadlessZipConstants DEF Full
  <1>4. /\ filesWritten' = Append(IF Full THEN Tail(filesWritten)
                                  ELSE filesWritten, second)
        /\ unlinking' = IF Full /\ ~UnlinkThrows
                        THEN unlinking \cup {Head(filesWritten)}
                        ELSE unlinking
        /\ clash' = (clash \/ \E i \in DOMAIN filesWritten :
                                  filesWritten[i] = second)
        /\ IF dir \in tmp /\ ~Throws
           THEN /\ disk' = [disk EXCEPT ![second] = dir] /\ tmp' = tmp \ {dir}
                /\ packed' = Append(packed, dir)
           ELSE disk' = disk /\ tmp' = tmp /\ packed' = packed
    BY DEF HeadlessZip, Remember
  <1>5. filesWritten' \in Seq(Second)
    <2> HIDE DEF Second
    <2>1. CASE Full
      BY <2>1, <1>1, <1>2, <1>3, <1>4
    <2>2. CASE ~Full
      BY <2>2, <1>1, <1>4
    <2> QED
      BY <2>1, <2>2
  <1>6. unlinking' \subseteq Second
    BY <1>1, <1>2, <1>3, <1>4
  <1>7. disk' \in [Second -> 0..MaxRuns] /\ tmp' \subseteq Run
    BY <1>1, <1>4
  <1>8. packed' \in Seq(Run)
    <2>1. CASE dir \in tmp /\ ~Throws
      <3>1. dir \in Run /\ packed' = Append(packed, dir)
        BY <2>1, <1>1, <1>4
      <3> HIDE DEF Run
      <3> QED
        BY <3>1, <1>1
    <2>2. CASE ~(dir \in tmp /\ ~Throws)
      BY <2>2, <1>1, <1>4
    <2> QED
      BY <2>1, <2>2
  <1> QED
    BY <1>4, <1>5, <1>6, <1>7, <1>8

(* A step, as the list of its actions.                                     *)
LEMMA Steps ==
    ASSUME [Next]_vars
    PROVE  \/ BeginRun /\ loop \notin {"exited", "aborted"}
           \/ AssignOutputDir /\ loop \notin {"exited", "aborted"}
           \/ OutputDirAssigned /\ loop \notin {"exited", "aborted"}
           \/ SendAsync /\ loop \notin {"exited", "aborted"}
           \/ WakeUp \/ AsyncFunc \/ FinishClose \/ LoopEnds \/ OnExit
           \/ Exited \/ Start \/ Stop
           \/ \E name \in unlinking : Unlink(name)
           \/ Tick
           \/ UNCHANGED vars
  BY DEF Next, Core

LEMMA TypeStep ==
    ASSUME TypeOK, CoreInv, [Next]_vars
    PROVE  TypeOK'
  <1> USE HeadlessZipConstants
  <1>1. ASSUME BeginRun PROVE TypeOK'
    BY <1>1 DEF BeginRun, TypeOK, Run, Second, async, files, history
  <1>2. ASSUME AssignOutputDir PROVE TypeOK'
    <2>1. overrun' \in BOOLEAN
      BY <1>2 DEF AssignOutputDir, TypeOK
    <2>2. core = "collecting" /\ core' = "writing" /\ outputDir' = 0
      BY <1>2 DEF AssignOutputDir
    <2>3. handedOver' \subseteq Run
      <3>1. run \in 0..MaxRuns /\ outputDir \in 0..run /\ outputDir # run
        BY <2>2 DEF TypeOK, CoreInv
      <3>2. run \in Run
        BY <3>1 DEF Run
      <3> QED
        BY <1>2, <3>2 DEF AssignOutputDir, TypeOK
    <2> QED
      BY <1>2, <2>1, <2>2, <2>3 DEF AssignOutputDir, TypeOK, files
  <1>3. ASSUME OutputDirAssigned PROVE TypeOK'
    BY <1>3 DEF OutputDirAssigned, TypeOK, files, history
  <1>4. ASSUME SendAsync PROVE TypeOK'
    BY <1>4 DEF SendAsync, TypeOK, files, history
  <1>5. ASSUME WakeUp PROVE TypeOK'
    BY <1>5 DEF WakeUp, TypeOK, coreVars, files, history
  <1>6. ASSUME AsyncFunc PROVE TypeOK'
    <2>1. outputDir \in 0..MaxRuns /\ HeadlessZip(outputDir)
      BY <1>6 DEF AsyncFunc, TypeOK
    <2>2. /\ filesWritten' \in Seq(Second)
          /\ disk' \in [Second -> 0..MaxRuns]
          /\ unlinking' \subseteq Second /\ tmp' \subseteq Run
          /\ packed' \in Seq(Run) /\ clash' \in BOOLEAN
      BY <2>1, RememberTypes DEF TypeOK
    <2>3. loop' \in {"polling", "exit"}
      BY <1>6 DEF AsyncFunc
    <2> QED
      BY <1>6, <2>2, <2>3 DEF AsyncFunc, TypeOK, async
  <1>7. ASSUME FinishClose PROVE TypeOK'
    BY <1>7 DEF FinishClose, TypeOK, coreVars, files, history
  <1>8. ASSUME LoopEnds PROVE TypeOK'
    BY <1>8 DEF LoopEnds, TypeOK, coreVars, async, files, history
  <1>9. ASSUME StopAgent
        PROVE  /\ running' \in BOOLEAN /\ run' = run
               /\ core' \in {"idle", "collecting", "writing", "sending"}
               /\ handle' \in {"none", "open", "closing", "corrupt"}
               /\ pending' \in BOOLEAN /\ outputDir' = outputDir
               /\ handedOver' = handedOver
               /\ overrun' = overrun /\ dropped' \in BOOLEAN
    BY <1>9 DEF StopAgent, TypeOK
  <1>10. ASSUME OnExit PROVE TypeOK'
    <2>1. /\ filesWritten' \in Seq(Second)
          /\ disk' \in [Second -> 0..MaxRuns]
          /\ unlinking' \subseteq Second /\ tmp' \subseteq Run
          /\ packed' \in Seq(Run) /\ clash' \in BOOLEAN
      <3>1. CASE tmp = {} /\ UNCHANGED <<tmp, files, clash>>
        BY <3>1 DEF TypeOK, files
      <3>2. ASSUME NEW dir \in tmp, HeadlessZip(dir)
            PROVE  /\ filesWritten' \in Seq(Second)
                   /\ disk' \in [Second -> 0..MaxRuns]
                   /\ unlinking' \subseteq Second /\ tmp' \subseteq Run
                   /\ packed' \in Seq(Run) /\ clash' \in BOOLEAN
        <4>1. dir \in 0..MaxRuns
          BY DEF TypeOK, Run
        <4> QED
          BY <3>2, <4>1, RememberTypes DEF TypeOK
      <3> QED
        BY <1>10, <3>1, <3>2 DEF OnExit
    <2>2. handlers' \in 0..MaxStarts
      BY <1>10 DEF OnExit, TypeOK
    <2>3. loop' = loop /\ second' = second /\ StopAgent
      BY <1>10 DEF OnExit
    <2> QED
      BY <2>1, <2>2, <2>3, <1>9 DEF TypeOK
  <1>11. ASSUME Exited PROVE TypeOK'
    BY <1>11 DEF Exited, TypeOK, coreVars, async, files, history
  <1>12. ASSUME Start PROVE TypeOK'
    <2>1. /\ handlers' \in 0..MaxStarts /\ running' = TRUE
          /\ UNCHANGED <<coreVars, loop, second, files, history>>
      BY <1>12 DEF Start, TypeOK
    <2>2. /\ handle' \in {"none", "open", "closing", "corrupt"}
          /\ pending' \in BOOLEAN /\ outputDir' = outputDir
      BY <1>12 DEF Start, TypeOK, async
    <2> QED
      BY <2>1, <2>2 DEF TypeOK, coreVars, files, history
  <1>13. ASSUME Stop PROVE TypeOK'
    <2>1. /\ UNCHANGED <<handlers, tmp, loop, second, files, clash>>
          /\ StopAgent
      BY <1>13 DEF Stop
    <2> QED
      BY <2>1, <1>9 DEF TypeOK, files
  <1>14. ASSUME NEW name \in unlinking, Unlink(name) PROVE TypeOK'
    <2>1. disk' \in [Second -> 0..MaxRuns]
      BY <1>14 DEF Unlink, TypeOK
    <2>2. unlinking' \subseteq Second
      BY <1>14 DEF Unlink, TypeOK
    <2> QED
      BY <1>14, <2>1, <2>2 DEF Unlink, TypeOK, coreVars, async, history
  <1>15. ASSUME Tick PROVE TypeOK'
    BY <1>15 DEF Tick, TypeOK, Second, coreVars, async, files, history
  <1>16. ASSUME UNCHANGED vars PROVE TypeOK'
    BY <1>16 DEF vars, TypeOK, coreVars, async, files, history
  <1> QED
    BY <1>1, <1>2, <1>3, <1>4, <1>5, <1>6, <1>7, <1>8, <1>10, <1>11, <1>12,
       <1>13, <1>14, <1>15, <1>16, Steps

LEMMA CoreInit ==
    Init => CoreInv /\ RequestInv
  BY DEF Init, CoreInv, RequestInv

(* What packing does to the directories.                                   *)
LEMMA Packs ==
    ASSUME NEW dir, HeadlessZip(dir)
    PROVE  /\ tmp' \subseteq tmp
           /\ dir \in tmp /\ ~UnlinkThrows => tmp' = tmp \ {dir}
           /\ \A d \in tmp : d # dir => d \in tmp'
  BY DEF HeadlessZip, Throws

(* What is left alone by a handler of `exit' that packs, or that finds     *)
(* nothing.                                                                *)
LEMMA ExitPacks ==
    ASSUME OnExit
    PROVE  /\ StopAgent /\ loop' = loop /\ second' = second
           /\ tmp' \subseteq tmp
  BY Packs DEF OnExit

LEMMA CoreStep ==
    ASSUME TypeOK, CoreInv, RequestInv, [Next]_vars
    PROVE  CoreInv' /\ RequestInv'
  <1> USE DEF CoreInv, RequestInv
  <1>0. /\ run \in Nat /\ outputDir \in Nat /\ running \in BOOLEAN
        /\ core \in {"idle", "collecting", "writing", "sending"}
    BY HeadlessZipConstants DEF TypeOK
  <1>1. ASSUME BeginRun PROVE CoreInv' /\ RequestInv'
    BY <1>0, <1>1 DEF BeginRun, async, history
  <1>2. ASSUME AssignOutputDir PROVE CoreInv' /\ RequestInv'
    <2>1. run >= 1
      BY <1>0, <1>2 DEF AssignOutputDir
    <2>2. CoreInv'
      BY <1>0, <1>2, <2>1 DEF AssignOutputDir
    <2>3. /\ core = "collecting" /\ core' = "writing" /\ run' = run
          /\ tmp' = tmp /\ loop' = loop /\ pending' = pending
          /\ overrun' = (overrun \/ pending \/ loop = "woken")
      BY <1>2 DEF AssignOutputDir
    <2>4. RequestInv'
      BY <2>3
    <2> QED
      BY <2>2, <2>4
  <1>3. ASSUME OutputDirAssigned PROVE CoreInv' /\ RequestInv'
    BY <1>0, <1>3 DEF OutputDirAssigned, history
  <1>4. ASSUME SendAsync PROVE CoreInv' /\ RequestInv'
    BY <1>0, <1>4 DEF SendAsync, history
  <1>5. ASSUME WakeUp PROVE CoreInv' /\ RequestInv'
    BY <1>0, <1>5 DEF WakeUp, coreVars, history
  <1>6. ASSUME AsyncFunc PROVE CoreInv' /\ RequestInv'
    <2>1. /\ tmp' \subseteq tmp
          /\ \A d \in tmp : d # outputDir => d \in tmp'
      BY <1>6, Packs DEF AsyncFunc
    <2> QED
      BY <1>0, <1>6, <2>1 DEF AsyncFunc, async
  <1>7. ASSUME FinishClose PROVE CoreInv' /\ RequestInv'
    BY <1>0, <1>7 DEF FinishClose, coreVars, history
  <1>8. ASSUME LoopEnds PROVE CoreInv' /\ RequestInv'
    BY <1>0, <1>8 DEF LoopEnds, coreVars, async, history
  <1>9. ASSUME StopAgent, tmp' \subseteq tmp, loop' = loop, loop # "woken"
        PROVE  CoreInv' /\ RequestInv'
    BY <1>0, <1>9 DEF StopAgent
  <1>10. ASSUME OnExit PROVE CoreInv' /\ RequestInv'
    BY <1>9, <1>10, ExitPacks DEF OnExit
  <1>11. ASSUME Exited PROVE CoreInv' /\ RequestInv'
    BY <1>0, <1>11 DEF Exited, coreVars, async, history
  <1>12. ASSUME Start PROVE CoreInv' /\ RequestInv'
    BY <1>0, <1>12 DEF Start, coreVars, async, history
  <1>13. ASSUME Stop PROVE CoreInv' /\ RequestInv'
    BY <1>9, <1>13 DEF Stop
  <1>14. ASSUME NEW name \in unlinking, Unlink(name)
         PROVE  CoreInv' /\ RequestInv'
    BY <1>0, <1>14 DEF Unlink, coreVars, async, history
  <1>15. ASSUME Tick PROVE CoreInv' /\ RequestInv'
    BY <1>0, <1>15 DEF Tick, coreVars, async, history
  <1>16. ASSUME UNCHANGED vars PROVE CoreInv' /\ RequestInv'
    BY <1>0, <1>16 DEF vars, coreVars, async, history
  <1> QED
    BY <1>1, <1>2, <1>3, <1>4, <1>5, <1>6, <1>7, <1>8, <1>10, <1>11, <1>12,
       <1>13, <1>14, <1>15, <1>16, Steps

-----------------------------------------------------------------------------
(* Types, and what the threads know of one another, together.              *)
ZipInv == TypeOK /\ CoreInv /\ RequestInv

(* When the agent is stopped and no request is dropped by that, none is on *)
(* its way.                                                                *)
LEMMA StopsQuietly ==
    ASSUME ZipInv, StopAgent, ~overrun, ~dropped', loop # "woken"
    PROVE  /\ ~pending /\ ~pending' /\ ~dropped
           /\ core \in {"idle", "collecting"} /\ core' = "idle"
           /\ ~running'
  <1>1. /\ ~running => ~pending /\ core = "idle"
        /\ running \in BOOLEAN /\ pending \in BOOLEAN
        /\ dropped \in BOOLEAN
    BY DEF ZipInv, CoreInv, TypeOK
  <1>2. CASE running
    <2>1. core' = "idle" /\ pending' = FALSE /\ dropped' = (dropped \/ pending)
          /\ running' = FALSE /\ core \in {"idle", "collecting"}
      BY <1>2 DEF StopAgent
    <2> QED
      BY <2>1
  <1>3. CASE ~running
    <2>1. core' = core /\ pending' = pending /\ dropped' = dropped
          /\ running' = FALSE
      BY <1>3 DEF StopAgent
    <2> QED
      BY <1>1, <1>3, <2>1
  <1> QED
    BY <1>2, <1>3

LEMMA LostStep ==
    ASSUME ZipInv, NoRunIsLost, [Next]_vars
    PROVE  NoRunIsLost'
  <1> SUFFICES ASSUME ~overrun', ~UnlinkThrows, ~dropped',
                      NEW d \in handedOver' \cap tmp'
               PROVE  OnItsWay(d)'
    BY DEF NoRunIsLost, Prompt
  <1> DEFINE Before == ~overrun /\ ~dropped /\ d \in handedOver /\ d \in tmp
  <1>0. /\ overrun \in BOOLEAN /\ dropped \in BOOLEAN
        /\ handedOver \subseteq 1..run /\ run \in Nat
        /\ pending \in BOOLEAN
    BY HeadlessZipConstants DEF ZipInv, CoreInv, TypeOK
  <1>a. ASSUME Before PROVE OnItsWay(d)
    BY <1>a DEF NoRunIsLost, Prompt
  <1>b. ASSUME ~overrun
        PROVE  /\ pending \/ loop = "woken" =>
                    outputDir \in tmp /\ core \in {"idle", "collecting"}
               /\ ~(pending /\ loop = "woken")
    BY <1>b DEF ZipInv, RequestInv
  <1>c. ASSUME StopAgent, tmp' \subseteq tmp, loop' = loop, loop # "woken"
        PROVE  OnItsWay(d)'
    <2>1. ~overrun /\ handedOver' = handedOver
      BY <1>c DEF StopAgent
    <2>2. /\ ~pending /\ ~dropped /\ core \in {"idle", "collecting"}
      BY <2>1, <1>c, StopsQuietly
    <2>3. Before
      BY <2>1, <2>2, <1>c
    <2> QED
      BY <1>a, <2>2, <2>3, <1>c DEF OnItsWay
  <1>1. ASSUME BeginRun PROVE OnItsWay(d)'
    <2>1. /\ ~overrun /\ ~dropped /\ d \in handedOver /\ core = "idle"
          /\ pending' = pending /\ loop' = loop /\ outputDir' = outputDir
      BY <1>1 DEF BeginRun, async, history
    <2>2. d # run + 1
      BY <1>0, <2>1
    <2>3. d \in tmp
      BY <1>1, <2>2 DEF BeginRun
    <2> QED
      BY <1>a, <2>1, <2>3 DEF OnItsWay
  <1>2. ASSUME AssignOutputDir PROVE OnItsWay(d)'
    <2>1. /\ run' = run /\ core' = "writing" /\ tmp' = tmp
          /\ handedOver' = handedOver \cup {run} /\ dropped' = dropped
          /\ overrun' = (overrun \/ pending \/ loop = "woken")
          /\ core = "collecting"
      BY <1>2 DEF AssignOutputDir
    <2>2. ~overrun /\ ~pending /\ loop # "woken"
      BY <2>1
    <2>3. CASE d = run
      BY <2>1, <2>3 DEF OnItsWay
    <2>4. CASE d # run
      BY <2>1, <2>2, <2>4, <1>a DEF OnItsWay
    <2> QED
      BY <2>3, <2>4
  <1>3. ASSUME OutputDirAssigned PROVE OnItsWay(d)'
    <2>1. /\ Before /\ core = "writing" /\ core' = "sending" /\ run' = run
      BY <1>3 DEF OutputDirAssigned, history
    <2> QED
      BY <2>1, <1>a, <1>b DEF OnItsWay
  <1>4. ASSUME SendAsync PROVE OnItsWay(d)'
    <2>1. /\ Before /\ core = "sending" /\ pending' = TRUE
          /\ outputDir' = outputDir
      BY <1>4 DEF SendAsync, history
    <2>2. outputDir = run
      BY <2>1 DEF ZipInv, CoreInv
    <2> QED
      BY <2>1, <2>2, <1>a, <1>b DEF OnItsWay
  <1>5. ASSUME WakeUp PROVE OnItsWay(d)'
    <2>1. /\ Before /\ loop' = "woken" /\ run' = run /\ core' = core
          /\ outputDir' = outputDir
      BY <1>5 DEF WakeUp, coreVars, history
    <2> QED
      BY <2>1, <1>a DEF OnItsWay
  <1>6. ASSUME AsyncFunc PROVE OnItsWay(d)'
    <2>1. /\ ~overrun /\ ~dropped /\ d \in handedOver /\ loop = "woken"
          /\ run' = run /\ core' = core /\ HeadlessZip(outputDir)
      BY <1>6 DEF AsyncFunc
    <2>2. outputDir \in tmp /\ ~pending
      BY <2>1, <1>b, <1>0
    <2>3. tmp' = tmp \ {outputDir}
      BY <2>1, <2>2, Packs
    <2> QED
      BY <2>1, <2>2, <2>3, <1>a DEF OnItsWay
  <1>7. ASSUME FinishClose PROVE OnItsWay(d)'
    <2>1. /\ Before /\ loop = "polling" /\ UNCHANGED <<core, run, pending,
                                                       outputDir>>
      BY <1>7 DEF FinishClose, coreVars, history
    <2> QED
      BY <2>1, <1>a DEF OnItsWay
  <1>8. ASSUME LoopEnds PROVE OnItsWay(d)'
    <2>1. /\ Before /\ loop = "polling" /\ UNCHANGED <<core, run, pending,
                                                       outputDir>>
      BY <1>8 DEF LoopEnds, coreVars, async, history
    <2> QED
      BY <2>1, <1>a DEF OnItsWay
  <1>10. ASSUME OnExit PROVE OnItsWay(d)'
    BY <1>10, <1>c, ExitPacks DEF OnExit
  <1>11. ASSUME Exited PROVE OnItsWay(d)'
    <2>1. /\ Before /\ loop = "exit" /\ UNCHANGED <<core, run, pending,
                                                    outputDir>>
      BY <1>11 DEF Exited, coreVars, async, history
    <2> QED
      BY <2>1, <1>a DEF OnItsWay
  <1>12. ASSUME Start PROVE OnItsWay(d)'
    <2>1. /\ Before /\ UNCHANGED <<core, run, loop>>
      BY <1>12 DEF Start, coreVars, history
    <2>2. outputDir' = outputDir /\ (~pending \/ pending' = pending)
      BY <1>12 DEF Start, async, ZipInv, CoreInv
    <2> QED
      BY <2>1, <2>2, <1>a DEF OnItsWay
  <1>13. ASSUME Stop PROVE OnItsWay(d)'
    BY <1>13, <1>c DEF Stop
  <1>14. ASSUME NEW name \in unlinking, Unlink(name) PROVE OnItsWay(d)'
    <2>1. /\ Before /\ UNCHANGED <<core, run, pending, outputDir, loop>>
      BY <1>14 DEF Unlink, coreVars, async, history
    <2> QED
      BY <2>1, <1>a DEF OnItsWay
  <1>15. ASSUME Tick PROVE OnItsWay(d)'
    <2>1. /\ Before /\ UNCHANGED <<core, run, pending, outputDir, loop>>
      BY <1>15 DEF Tick, coreVars, async, history
    <2> QED
      BY <2>1, <1>a DEF OnItsWay
  <1>16. ASSUME UNCHANGED vars PROVE OnItsWay(d)'
    <2>1. /\ Before /\ UNCHANGED <<core, run, pending, outputDir, loop>>
      BY <1>16 DEF vars, coreVars, async, history
    <2> QED
      BY <2>1, <1>a DEF OnItsWay
  <1> QED
    BY <1>1, <1>2, <1>3, <1>4, <1>5, <1>6, <1>7, <1>8, <1>10, <1>11, <1>12,
       <1>13, <1>14, <1>15, <1>16, Steps

LEMMA ZipAlways ==
    Spec => []ZipInv
  <1>1. Init => ZipInv
    BY TypeInit, CoreInit DEF ZipInv
  <1>2. ZipInv /\ [Next]_vars => ZipInv'
    BY TypeStep, CoreStep DEF ZipInv
  <1> QED
    BY <1>1, <1>2, PTL DEF Spec

(* A run that was handed over is packed, or is on its way: the one string  *)
(* and the one flag by which the core's thread hands its directories to    *)
(* the loop (headlessutils.cpp) lose none, whatever the loop, the thread   *)
(* and the application do, as long as each request is read before the next *)
(* comes, packing does not throw and stop() does not drop one.             *)
THEOREM HandOver ==
    Spec => []HandOverInv
  <1>1. Init => NoRunIsLost
    BY DEF Init, NoRunIsLost
  <1>2. ZipInv /\ NoRunIsLost /\ [Next]_vars => NoRunIsLost'
    BY LostStep
  <1>3. ZipInv /\ NoRunIsLost => HandOverInv
    BY DEF ZipInv, HandOverInv
  <1> QED
    BY <1>1, <1>2, <1>3, ZipAlways, PTL DEF Spec

-----------------------------------------------------------------------------
Names(s) == {s[i] : i \in DOMAIN s}

(* t is s with one more name, whose time is later than all of s, and       *)
(* without the first if that is too many.                                  *)
NameAdded(s, now, drop, t) ==
    /\ \A i \in 1..Len(s) : s[i] < now
    /\ \A i, j \in 1..Len(s) : i < j => s[i] < s[j]
    /\ drop => Len(s) > 0
    /\ t = Append(IF drop THEN Tail(s) ELSE s, now)

(* It is in the order of its times too, and its names are those there      *)
(* were, less the first, with the new one at the end.                      *)
NamesKept(s, now, drop, t) ==
    /\ Len(t) = IF drop THEN Len(s) ELSE Len(s) + 1
    /\ \A i \in 1..Len(t) :
          t[i] = IF i = Len(t) THEN now ELSE s[IF drop THEN i + 1 ELSE i]
    /\ \A i \in 1..Len(t) : t[i] <= now
    /\ \A i, j \in 1..Len(t) : i < j => t[i] < t[j]
    /\ Names(t) = (Names(s) \cup {now}) \ (IF drop THEN {s[1]} ELSE {})

LEMMA NamesInOrder ==
    ASSUME NEW s \in Seq(Nat), NEW now \in Nat, NEW drop \in BOOLEAN, NEW t,
           NameAdded(s, now, drop, t)
    PROVE  NamesKept(s, now, drop, t)
  <1> USE DEF NameAdded
  <1>0. PICK n \in Nat : n = Len(s)
    OBVIOUS
  <1>a. /\ \A i \in 1..n : s[i] < now
        /\ \A i, j \in 1..n : i < j => s[i] < s[j]
    BY <1>0
  <1>1. CASE drop
    <2>1. /\ n > 0 /\ s # <<>>
      BY <1>0, <1>1
    <2>2. /\ Tail(s) \in Seq(Nat) /\ Len(Tail(s)) = n - 1
          /\ \A i \in 1..n - 1 : Tail(s)[i] = s[i + 1]
      BY <1>0, <2>1
    <2>3. /\ Len(t) = n /\ t[n] = now
          /\ \A i \in 1..n - 1 : t[i] = s[i + 1]
          /\ DOMAIN t = 1..n /\ DOMAIN s = 1..n
      BY <1>0, <1>1, <2>1, <2>2
    <2>4. \A i \in 1..n : s[i] \in Nat
      BY <1>0
    <2>5. \A i \in 1..Len(t) : t[i] <= now
      <3> SUFFICES ASSUME NEW i \in 1..n PROVE t[i] <= now
        BY <2>3
      <3>1. CASE i = n
        BY <3>1, <2>3
      <3>2. CASE i # n
        <4>1. i \in 1..n - 1 /\ i + 1 \in 1..n
          BY <3>2, <2>1
        <4> QED
          BY <4>1, <2>3, <2>4
      <3> QED
        BY <3>1, <3>2
    <2>6. \A i, j \in 1..Len(t) : i < j => t[i] < t[j]
      <3> SUFFICES ASSUME NEW i \in 1..n, NEW j \in 1..n, i < j
                   PROVE  t[i] < t[j]
        BY <2>3
      <3>1. /\ i \in 1..n - 1 /\ i + 1 \in 1..n
            /\ t[i] = s[i + 1]
        BY <2>1, <2>3
      <3>2. CASE j = n
        BY <3>1, <3>2, <2>3, <1>a
      <3>3. CASE j # n
        <4>1. /\ j \in 1..n - 1 /\ j + 1 \in 1..n
              /\ i + 1 < j + 1
          BY <3>3, <2>1
        <4> QED
          BY <3>1, <4>1, <2>3, <1>a
      <3> QED
        BY <3>2, <3>3
    <2>7. ASSUME NEW x
          PROVE  x \in {t[i] : i \in DOMAIN t} <=>
                     x \in ({s[i] : i \in DOMAIN s} \cup {now}) \ {s[1]}
      <3>1. ASSUME x \in {t[i] : i \in DOMAIN t}
            PROVE  x \in ({s[i] : i \in DOMAIN s} \cup {now}) \ {s[1]}
        <4>1. PICK i \in 1..n : x = t[i]
          BY <3>1, <2>3
        <4>2. CASE i = n
          <5>1. x = now /\ s[1] # now
            BY <4>1, <4>2, <2>1, <2>3, <2>4
          <5> QED
            BY <5>1
        <4>3. CASE i # n
          <5>1. i \in 1..n - 1 /\ i + 1 \in 1..n /\ 1 \in 1..n
                /\ 1 < i + 1
            BY <4>3, <2>1
          <5>2. x = s[i + 1] /\ s[1] < s[i + 1]
            BY <5>1, <4>1, <2>3
          <5>3. x # s[1]
            BY <5>1, <5>2, <2>4
          <5> QED
            BY <5>1, <5>2, <5>3, <2>3
        <4> QED
          BY <4>2, <4>3
      <3>2. ASSUME x \in ({s[i] : i \in DOMAIN s} \cup {now}) \ {s[1]}
            PROVE  x \in {t[i] : i \in DOMAIN t}
        <4>1. CASE x = now
          BY <4>1, <2>1, <2>3
        <4>2. CASE x # now
          <5>1. PICK i \in 1..n : x = s[i]
            BY <3>2, <4>2, <2>3
          <5>2. i # 1
            BY <3>2, <5>1
          <5>3. i - 1 \in 1..n - 1 /\ i - 1 \in 1..n
                /\ (i - 1) + 1 = i
            BY <5>2, <2>1
          <5>4. t[i - 1] = x
            BY <5>1, <5>3, <2>3
          <5> QED
            BY <5>3, <5>4, <2>3
        <4> QED
          BY <4>1, <4>2
      <3> QED
        BY <3>1, <3>2
    <2>8. {t[i] : i \in DOMAIN t} =
              ({s[i] : i \in DOMAIN s} \cup {now}) \ {s[1]}
      BY <2>7, Zenon
    <2>9. \A i \in 1..Len(t) : t[i] = IF i = Len(t) THEN now ELSE s[i + 1]
      <3> SUFFICES ASSUME NEW i \in 1..n
                   PROVE  t[i] = IF i = n THEN now ELSE s[i + 1]
        BY <2>3
      <3>1. i # n => i \in 1..n - 1
        BY <2>1
      <3> QED
        BY <3>1, <2>3
    <2> QED
      BY <1>0, <1>1, <2>3, <2>5, <2>6, <2>8, <2>9 DEF Names, NamesKept
  <1>2. CASE ~drop
    <2>1. /\ Len(t) = n + 1 /\ t[n + 1] = now
          /\ \A i \in 1..n : t[i] = s[i]
          /\ DOMAIN t = 1..n + 1 /\ DOMAIN s = 1..n
      BY <1>0, <1>2
    <2>2. \A i \in 1..n : s[i] \in Nat
      BY <1>0
    <2>3. \A i \in 1..Len(t) : i = n + 1 \/ i \in 1..n
      BY <2>1
    <2>4. \A i \in 1..Len(t) : t[i] <= now
      BY <2>1, <2>2, <2>3
    <2>5. \A i, j \in 1..Len(t) : i < j => t[i] < t[j]
      <3> SUFFICES ASSUME NEW i \in 1..Len(t), NEW j \in 1..Len(t), i < j
                   PROVE  t[i] < t[j]
        OBVIOUS
      <3>1. i \in 1..n
        BY <2>1
      <3>2. CASE j = n + 1
        BY <3>1, <3>2, <2>1
      <3>3. CASE j \in 1..n
        BY <3>1, <3>3, <2>1
      <3> QED
        BY <3>2, <3>3, <2>3
    <2>6. {t[i] : i \in DOMAIN t} = {s[i] : i \in DOMAIN s} \cup {now}
      <3>1. ASSUME NEW x \in {t[i] : i \in DOMAIN t}
            PROVE  x \in {s[i] : i \in DOMAIN s} \cup {now}
        <4>1. PICK i \in 1..Len(t) : x = t[i]
          BY <2>1
        <4> QED
          BY <4>1, <2>1, <2>3
      <3>2. ASSUME NEW x \in {s[i] : i \in DOMAIN s} \cup {now}
            PROVE  x \in {t[i] : i \in DOMAIN t}
        <4>1. CASE x = now
          BY <4>1, <2>1
        <4>2. CASE x # now
          <5>1. PICK i \in 1..n : x = s[i]
            BY <3>2, <4>2, <2>1
          <5>2. i \in 1..n + 1
            BY <2>1
          <5> QED
            BY <5>1, <5>2, <2>1
        <4> QED
          BY <4>1, <4>2
      <3> QED
        BY <3>1, <3>2, Zenon
    <2>7. \A i \in 1..Len(t) : t[i] = IF i = Len(t) THEN now ELSE s[i]
      BY <2>1, <2>3
    <2> QED
      BY <1>0, <1>2, <2>1, <2>4, <2>5, <2>6, <2>7 DEF Names, NamesKept
  <1> QED
    BY <1>1, <1>2

(* Packing a directory that exists keeps the newest files.                 *)
LEMMA PackedInOrder ==
    ASSUME TypeOK, FilesInv, ~overrun, ~UnlinkThrows,
           NEW dir \in tmp, HeadlessZip(dir), ~clash', second' = second
    PROVE  FilesInv'
  <1> DEFINE held == {s \in Second : disk[s] # 0}
             names == {filesWritten[i] : i \in DOMAIN filesWritten}
             gone == IF Full THEN {filesWritten[1]} ELSE {}
  <1>1. /\ second \in Second /\ filesWritten \in Seq(Second)
        /\ disk \in [Second -> 0..MaxRuns] /\ dir # 0
        /\ clash \in BOOLEAN /\ second \in Nat /\ FilesToKeep \in Nat \ {0}
    BY HeadlessZipConstants DEF TypeOK, Run, Second
  <1>a. packed \in Seq(Run) /\ dir \in Run
    BY DEF TypeOK
  <1>2. /\ filesWritten' = Append(IF Full THEN Tail(filesWritten)
                                  ELSE filesWritten, second)
        /\ unlinking' = IF Full THEN unlinking \cup {Head(filesWritten)}
                        ELSE unlinking
        /\ clash' = (clash \/ \E i \in DOMAIN filesWritten :
                                  filesWritten[i] = second)
        /\ disk' = [disk EXCEPT ![second] = dir]
        /\ packed' = Append(packed, dir)
    BY DEF HeadlessZip, Remember, Throws
  <1>3. ~clash /\ \A i \in DOMAIN filesWritten : filesWritten[i] # second
    BY <1>1, <1>2
  <1>4. PICK n \in Nat : n = Len(filesWritten)
    BY <1>1
  <1>b. PICK all \in Nat : all = Len(packed)
    BY <1>a
  <1>5. /\ n = IF all < FilesToKeep THEN all ELSE FilesToKeep
        /\ \A i \in 1..n : disk[filesWritten[i]] = packed[all - n + i]
        /\ held \ unlinking = names
        /\ \A i \in 1..n : filesWritten[i] <= second
        /\ \A i, j \in 1..n : i < j => filesWritten[i] < filesWritten[j]
        /\ \A name \in unlinking : name < second
    BY <1>3, <1>4, <1>b DEF FilesInv, Prompt, KeepsTheNewest
  <1>6. /\ DOMAIN filesWritten = 1..n
        /\ \A i \in 1..n :
              filesWritten[i] \in Nat /\ filesWritten[i] \in Second
    <2>1. \A i \in 1..n : filesWritten[i] \in Second
      BY <1>1, <1>4
    <2>2. Second \subseteq Nat
      BY HeadlessZipConstants DEF Second
    <2>3. DOMAIN filesWritten = 1..n
      <3> HIDE DEF Second
      <3> QED
        BY <1>1, <1>4
    <2> QED
      BY <2>1, <2>2, <2>3
  <1>7. \A i \in 1..n : filesWritten[i] < second
    <2> SUFFICES ASSUME NEW i \in 1..n PROVE filesWritten[i] < second
      OBVIOUS
    <2>1. filesWritten[i] # second /\ filesWritten[i] <= second
          /\ filesWritten[i] \in Nat
      BY <1>3, <1>5, <1>6
    <2> QED
      BY <2>1, <1>1
  <1>8. filesWritten \in Seq(Nat) /\ Full \in BOOLEAN
        /\ (Full => n > 0 /\ n >= FilesToKeep)
    <2>1. filesWritten \in Seq(Nat)
      <3>1. Second \subseteq Nat
        BY HeadlessZipConstants DEF Second
      <3> HIDE DEF Second
      <3>2. filesWritten = [i \in 1..n |-> filesWritten[i]]
        BY <1>1, <1>4
      <3> QED
        BY <1>6, <3>2
    <2> QED
      BY <2>1, <1>1, <1>4 DEF Full
  <1>9. Full => Head(filesWritten) = filesWritten[1]
    BY <1>1, <1>4, <1>8
  <1> HIDE DEF gone, names
  <1>10. /\ Len(filesWritten') = IF Full THEN n ELSE n + 1
         /\ \A i \in 1..Len(filesWritten') :
               filesWritten'[i] = IF i = Len(filesWritten') THEN second
                                  ELSE filesWritten[IF Full THEN i + 1 ELSE i]
         /\ \A i \in 1..Len(filesWritten') : filesWritten'[i] <= second
         /\ \A i, j \in 1..Len(filesWritten') :
                i < j => filesWritten'[i] < filesWritten'[j]
         /\ {filesWritten'[i] : i \in DOMAIN filesWritten'} =
                (names \cup {second}) \ gone
    <2>1. /\ \A i \in 1..Len(filesWritten) : filesWritten[i] < second
          /\ \A i, j \in 1..Len(filesWritten) :
                 i < j => filesWritten[i] < filesWritten[j]
          /\ Full => Len(filesWritten) > 0
      BY <1>4, <1>5, <1>7, <1>8
    <2> HIDE DEF Full
    <2>2. second \in Nat /\ filesWritten \in Seq(Nat) /\ Full \in BOOLEAN
          /\ filesWritten' = Append(IF Full THEN Tail(filesWritten)
                                    ELSE filesWritten, second)
      BY <1>1, <1>2, <1>8
    <2>3. PICK drop \in BOOLEAN : drop = Full
      BY <2>2
    <2>a. PICK t : t = filesWritten'
      OBVIOUS
    <2>4. PICK f \in Seq(Nat) : f = filesWritten
      BY <2>2
    <2>5. NameAdded(f, second, drop, t)
      BY <2>1, <2>2, <2>3, <2>4, <2>a DEF NameAdded
    <2>6. NamesKept(f, second, drop, t)
      BY <2>2, <2>5, NamesInOrder
    <2>7. \A i \in 1..Len(t) :
              t[i] = IF i = Len(t) THEN second
                     ELSE f[IF drop THEN i + 1 ELSE i]
      BY <2>6 DEF NamesKept
    <2>8. /\ Len(t) = IF drop THEN Len(f) ELSE Len(f) + 1
          /\ \A i \in 1..Len(t) : t[i] <= second
          /\ \A i, j \in 1..Len(t) : i < j => t[i] < t[j]
      BY <2>6 DEF NamesKept
    <2>9. Names(t) = (Names(f) \cup {second}) \ (IF drop THEN {f[1]} ELSE {})
      BY <2>6 DEF NamesKept
    <2>10. /\ Len(filesWritten') = IF Full THEN n ELSE n + 1
           /\ \A i \in 1..Len(filesWritten') : filesWritten'[i] <= second
           /\ \A i, j \in 1..Len(filesWritten') :
                  i < j => filesWritten'[i] < filesWritten'[j]
      BY <1>4, <2>3, <2>4, <2>a, <2>8
    <2>11. {filesWritten'[i] : i \in DOMAIN filesWritten'} =
               (names \cup {second}) \ gone
      <3>1. Names(f) = names /\ Names(t) = Names(filesWritten')
        BY <2>4, <2>a DEF names, Names
      <3>2. (IF drop THEN {f[1]} ELSE {}) = gone
        BY <2>3, <2>4 DEF gone
      <3>3. Names(filesWritten') = (names \cup {second}) \ gone
        BY <2>9, <3>1, <3>2
      <3> QED
        BY <3>3 DEF Names
    <2>12. \A i \in 1..Len(filesWritten') :
               filesWritten'[i] = IF i = Len(filesWritten') THEN second
                                  ELSE filesWritten[IF Full THEN i + 1 ELSE i]
      BY <2>3, <2>4, <2>a, <2>7
    <2> QED
      BY <2>10, <2>11, <2>12
  <1>c. /\ Len(packed') = all + 1 /\ packed'[all + 1] = dir
        /\ \A j \in 1..all : packed'[j] = packed[j]
    <2> HIDE DEF Run
    <2> QED
      BY <1>2, <1>a, <1>b
  <1>d. Full <=> n >= FilesToKeep
    BY <1>4 DEF Full
  <1>11. Len(filesWritten') = IF all + 1 < FilesToKeep THEN all + 1
                              ELSE FilesToKeep
    BY <1>1, <1>5, <1>10, <1>d
  <1>e. PICK k \in Nat : /\ k = Len(filesWritten')
                        /\ k = IF Full THEN n ELSE n + 1
    BY <1>10
  <1>f. ASSUME NEW i \in 1..k
        PROVE  disk'[filesWritten'[i]] = packed'[all + 1 - k + i]
    <2>1. CASE i = k
      <3>1. filesWritten'[i] = second /\ disk'[second] = dir
        BY <1>1, <1>2, <1>10, <1>e, <2>1
      <3>2. all + 1 - k + i = all + 1
        BY <1>e, <2>1
      <3> QED
        BY <3>1, <3>2, <1>c
    <2>2. CASE i # k
      <3>1. PICK j \in 1..n : /\ j = IF Full THEN i + 1 ELSE i
                              /\ all + 1 - k + i = all - n + j
        BY <1>e, <2>2
      <3>2. filesWritten'[i] = filesWritten[j]
        BY <1>10, <1>e, <2>2, <3>1
      <3>3. filesWritten[j] \in Second /\ filesWritten[j] # second
        BY <1>3, <1>6
      <3>4. disk'[filesWritten[j]] = disk[filesWritten[j]]
        BY <1>1, <1>2, <3>3
      <3>5. all - n + j \in 1..all
        BY <1>1, <1>5
      <3> QED
        BY <1>5, <1>c, <3>1, <3>2, <3>4, <3>5
    <2> QED
      BY <2>1, <2>2
  <1>12. gone \subseteq names /\ second \notin gone
    BY <1>3, <1>6, <1>8 DEF gone, names
  <1>13. \A name \in unlinking' : name < second
    <2>1. Full => Head(filesWritten) < second
      BY <1>4, <1>7, <1>8, <1>9
    <2> QED
      BY <2>1, <1>2, <1>5
  <1>14. second \notin unlinking'
    <2>1. ~(second < second)
      BY <1>1
    <2> QED
      BY <2>1, <1>13
  <1>15. unlinking' = unlinking \cup gone
    BY <1>2, <1>9 DEF gone
  <1>16. {s \in Second : disk'[s] # 0} = held \cup {second}
    BY <1>1, <1>2
  <1>17. {s \in Second : disk'[s] # 0} \ unlinking' =
             (names \cup {second}) \ gone
    <2> HIDE DEF held
    <2>1. held \ unlinking = names
      BY <1>5
    <2> QED
      BY <2>1, <1>12, <1>14, <1>15, <1>16
  <1>18. KeepsTheNewest'
    <2>1. {s \in Second : disk'[s] # 0} \ unlinking' =
              {filesWritten'[i] : i \in DOMAIN filesWritten'}
      BY <1>10, <1>17
    <2>2. k = IF all + 1 < FilesToKeep THEN all + 1 ELSE FilesToKeep
      BY <1>11, <1>e
    <2>3. k = Len(filesWritten') /\ Len(packed') = all + 1
      BY <1>c, <1>e
    <2>4. \A i \in 1..Len(filesWritten') :
              disk'[filesWritten'[i]] =
                  packed'[Len(packed') - Len(filesWritten') + i]
      BY <1>f, <2>3
    <2>5. Len(filesWritten') = IF Len(packed') < FilesToKeep
                               THEN Len(packed') ELSE FilesToKeep
      BY <2>2, <2>3
    <2> QED
      BY <2>1, <2>4, <2>5 DEF KeepsTheNewest
  <1> QED
    BY <1>10, <1>13, <1>18 DEF FilesInv

LEMMA FilesStep ==
    ASSUME ZipInv, FilesInv, [Next]_vars
    PROVE  FilesInv'
  <1> SUFFICES ASSUME ~overrun', ~UnlinkThrows, ~clash'
               PROVE  FilesInv'
    BY DEF FilesInv, Prompt
  <1>a. ASSUME UNCHANGED <<files, second>>, ~overrun, ~clash
        PROVE  FilesInv'
    BY <1>a DEF FilesInv, KeepsTheNewest, Prompt, files
  <1>b. TypeOK /\ overrun \in BOOLEAN
    BY DEF ZipInv, TypeOK
  <1>1. ASSUME BeginRun PROVE FilesInv'
    BY <1>1, <1>a DEF BeginRun, history
  <1>2. ASSUME AssignOutputDir PROVE FilesInv'
    <2>1. ~overrun
      BY <1>2, <1>b DEF AssignOutputDir
    <2> QED
      BY <1>2, <2>1, <1>a DEF AssignOutputDir
  <1>3. ASSUME OutputDirAssigned PROVE FilesInv'
    BY <1>3, <1>a DEF OutputDirAssigned, history
  <1>4. ASSUME SendAsync PROVE FilesInv'
    BY <1>4, <1>a DEF SendAsync, history
  <1>5. ASSUME WakeUp PROVE FilesInv'
    BY <1>5, <1>a DEF WakeUp, history
  <1>6. ASSUME AsyncFunc PROVE FilesInv'
    <2>1. ~overrun /\ HeadlessZip(outputDir) /\ second' = second
          /\ loop = "woken"
      BY <1>6 DEF AsyncFunc
    <2>2. outputDir \in tmp
      BY <2>1 DEF ZipInv, RequestInv
    <2> QED
      BY <2>1, <2>2, <1>b, PackedInOrder
  <1>7. ASSUME FinishClose PROVE FilesInv'
    BY <1>7, <1>a DEF FinishClose, history
  <1>8. ASSUME LoopEnds PROVE FilesInv'
    BY <1>8, <1>a DEF LoopEnds, history
  <1>10. ASSUME OnExit PROVE FilesInv'
    <2>1. ~overrun /\ second' = second
      BY <1>10 DEF OnExit, StopAgent
    <2>2. CASE UNCHANGED <<tmp, files, clash>>
      BY <2>1, <2>2, <1>a
    <2>3. ASSUME NEW dir \in tmp, HeadlessZip(dir) PROVE FilesInv'
      BY <2>1, <2>3, <1>b, PackedInOrder
    <2> QED
      BY <1>10, <2>2, <2>3 DEF OnExit
  <1>11. ASSUME Exited PROVE FilesInv'
    BY <1>11, <1>a DEF Exited, history
  <1>12. ASSUME Start PROVE FilesInv'
    BY <1>12, <1>a DEF Start, history
  <1>13. ASSUME Stop PROVE FilesInv'
    BY <1>13, <1>a DEF Stop, StopAgent
  <1>14. ASSUME NEW name \in unlinking, Unlink(name) PROVE FilesInv'
    <2>1. /\ unlinking' = unlinking \ {name} /\ second' = second
          /\ disk' = [disk EXCEPT ![name] = 0]
          /\ filesWritten' = filesWritten /\ packed' = packed
          /\ ~overrun /\ ~clash
      BY <1>14 DEF Unlink, history
    <2>2. disk \in [Second -> 0..MaxRuns]
      BY <1>b DEF TypeOK
    <2>3. {s \in Second : disk'[s] # 0} \ unlinking' =
              {s \in Second : disk[s] # 0} \ unlinking
      BY <2>1, <2>2
    <2>5. /\ {s \in Second : disk[s] # 0} \ unlinking =
                 {filesWritten[i] : i \in DOMAIN filesWritten}
          /\ DOMAIN filesWritten = 1..Len(filesWritten)
      <3>1. filesWritten \in Seq(Second)
        BY <1>b DEF TypeOK
      <3>2. DOMAIN filesWritten = 1..Len(filesWritten)
        BY <3>1
      <3> QED
        BY <2>1, <3>2 DEF FilesInv, Prompt, KeepsTheNewest
    <2>6. \A i \in 1..Len(filesWritten) :
              disk'[filesWritten[i]] = disk[filesWritten[i]]
      <3> SUFFICES ASSUME NEW i \in 1..Len(filesWritten)
                   PROVE  disk'[filesWritten[i]] = disk[filesWritten[i]]
        OBVIOUS
      <3>1. filesWritten[i] \in {filesWritten[j] : j \in DOMAIN filesWritten}
        BY <2>5
      <3>2. filesWritten[i] \in Second /\ filesWritten[i] \notin unlinking
        BY <2>5, <3>1
      <3> QED
        BY <2>1, <2>2, <3>2
    <2>4. KeepsTheNewest'
      BY <2>1, <2>3, <2>6 DEF FilesInv, Prompt, KeepsTheNewest
    <2> QED
      BY <2>1, <2>4 DEF FilesInv, Prompt
  <1>15. ASSUME Tick PROVE FilesInv'
    <2>1. /\ UNCHANGED files /\ second' = second + 1 /\ ~overrun /\ ~clash
      BY <1>15 DEF Tick, history
    <2>2. second \in Nat
      BY <1>b, HeadlessZipConstants DEF TypeOK, Second
    <2>3. \A i \in 1..Len(filesWritten) : filesWritten[i] \in Nat
      <3>1. filesWritten \in Seq(Second)
        BY <1>b DEF TypeOK
      <3>2. \A i \in 1..Len(filesWritten) : filesWritten[i] \in Second
        BY <3>1
      <3> QED
        BY <3>2, HeadlessZipConstants DEF Second
    <2>4. \A name \in unlinking : name \in Nat
      BY <1>b, HeadlessZipConstants DEF TypeOK, Second
    <2>5. KeepsTheNewest'
      BY <2>1 DEF FilesInv, Prompt, KeepsTheNewest, files
    <2>6. /\ \A i \in 1..Len(filesWritten) : filesWritten[i] <= second
          /\ \A i, j \in 1..Len(filesWritten) :
                 i < j => filesWritten[i] < filesWritten[j]
          /\ \A name \in unlinking : name < second
      BY <2>1 DEF FilesInv, Prompt
    <2>7. /\ \A i \in 1..Len(filesWritten) : filesWritten[i] <= second + 1
          /\ \A name \in unlinking : name < second + 1
      BY <2>2, <2>3, <2>4, <2>6
    <2> QED
      BY <2>1, <2>5, <2>6, <2>7 DEF FilesInv, files
  <1>16. ASSUME UNCHANGED vars PROVE FilesInv'
    BY <1>16, <1>a DEF vars, history
  <1> QED
    BY <1>1, <1>2, <1>3, <1>4, <1>5, <1>6, <1>7, <1>8, <1>10, <1>11, <1>12,
       <1>13, <1>14, <1>15, <1>16, Steps

(* The last filesToKeep of the runs packed, or all while they are fewer,   *)
(* are in the files whose names headless_zip.js remembers, oldest first,   *)
(* and there are no other files but those that fs.unlink is deleting:      *)
(* although it remembers a name before it knows that there is something to *)
(* pack.                                                                   *)
THEOREM Newest ==
    Spec => []KeepsTheNewest
  <1>1. Init => FilesInv
    <2> SUFFICES ASSUME Init PROVE FilesInv
      OBVIOUS
    <2>1. /\ filesWritten = <<>> /\ unlinking = {} /\ packed = <<>>
          /\ disk = [s \in Second |-> 0]
      BY DEF Init
    <2>2. {s \in Second : disk[s] # 0} = {} /\ DOMAIN filesWritten = {}
          /\ Len(filesWritten) = 0 /\ Len(packed) = 0
      BY <2>1
    <2>3. KeepsTheNewest
      BY <2>1, <2>2, HeadlessZipConstants DEF KeepsTheNewest
    <2> QED
      BY <2>1, <2>2, <2>3 DEF FilesInv
  <1>2. ZipInv /\ FilesInv /\ [Next]_vars => FilesInv'
    BY FilesStep
  <1>3. FilesInv => KeepsTheNewest
    BY DEF FilesInv, KeepsTheNewest
  <1> QED
    BY <1>1, <1>2, <1>3, ZipAlways, PTL DEF Spec

-----------------------------------------------------------------------------
(* One directory at most is the core's while the agent runs, none when it  *)
(* does not: if no request is on its way, counting what is left and the    *)
(* running agent counts every directory.                                   *)
LEMMA LeftCounts ==
    ASSUME ZipInv, ~pending, loop # "woken"
    PROVE  Cardinality(tmp) <= Cardinality(Left) + (IF running THEN 1 ELSE 0)
  <1>1. IsFiniteSet(tmp) /\ Left \in SUBSET tmp
    BY TmpIsFinite DEF ZipInv, Left
  <1>2. IsFiniteSet(Left) /\ Cardinality(Left) \in Nat
    BY <1>1, TmpIsFinite DEF ZipInv
  <1>3. CASE running
    <2>1. tmp \subseteq Left \cup {run}
      BY DEF Left, Underway
    <2>2. /\ IsFiniteSet(Left \cup {run})
          /\ Cardinality(Left \cup {run}) <= Cardinality(Left) + 1
      BY <1>2, FS_AddElement
    <2>3. Cardinality(tmp) <= Cardinality(Left \cup {run})
      BY <2>1, <2>2, FS_Subset
    <2>4. Cardinality(tmp) \in Nat /\ Cardinality(Left \cup {run}) \in Nat
      BY <1>1, <2>2, FS_CardinalityType
    <2> QED
      BY <1>2, <1>3, <2>2, <2>3, <2>4
  <1>4. CASE ~running
    <2>1. core = "idle"
      BY <1>4 DEF ZipInv, CoreInv
    <2>2. Left = tmp
      BY <2>1 DEF Left, Underway
    <2> QED
      BY <1>2, <1>4, <2>2
  <1> QED
    BY <1>3, <1>4

LEMMA LeftStep ==
    ASSUME ZipInv, LeftInv, [Next]_vars
    PROVE  LeftInv'
  <1> SUFFICES ASSUME ~overrun', ~UnlinkThrows, ~dropped'
               PROVE  LeftInv'
    BY DEF LeftInv, Prompt
  <1>z. ZipInv'
    BY TypeStep, CoreStep DEF ZipInv
  <1>a. /\ run \in Nat /\ running \in BOOLEAN /\ handlers \in Nat
        /\ pending \in BOOLEAN /\ outputDir \in 0..run
        /\ overrun \in BOOLEAN /\ dropped \in BOOLEAN
        /\ tmp \subseteq 1..run
        /\ core # "idle" => running
        /\ ~running => ~pending
    BY HeadlessZipConstants DEF ZipInv, TypeOK, CoreInv
  <1>b. ASSUME ~overrun
        PROVE  /\ pending \/ loop = "woken" =>
                    outputDir \in tmp /\ core \in {"idle", "collecting"}
               /\ ~(pending /\ loop = "woken")
    BY <1>b DEF ZipInv, RequestInv
  <1>c. ASSUME ~overrun, ~dropped
        PROVE  /\ Cardinality(Left) + (IF running THEN 1 ELSE 0) <= handlers
               /\ NothingIsLeft
    BY <1>c DEF LeftInv, Prompt
  <1>d. Cardinality(Left) \in Nat
    BY TmpIsFinite DEF ZipInv, Left
  <1>e. ASSUME ~overrun, ~dropped, Left' = Left, running' = running,
               handlers' = handlers, loop' # "exited"
        PROVE  LeftInv'
    BY <1>c, <1>e DEF LeftInv, NothingIsLeft
  <1>f. ASSUME ~overrun, ~dropped,
               UNCHANGED <<run, core, tmp, outputDir, pending, loop, running,
                           handlers>>
        PROVE  LeftInv'
    <2>1. Left' = Left
      BY <1>f DEF Left, Underway
    <2>2. NothingIsLeft'
      BY <1>c, <1>f DEF NothingIsLeft, Prompt
    <2> QED
      BY <1>c, <1>f, <2>1, <2>2 DEF LeftInv
  <1>g. ASSUME StopAgent, loop # "woken"
        PROVE  /\ ~running' /\ ~overrun
               /\ Cardinality(tmp) \in Nat /\ Cardinality(tmp) <= handlers
    <2>1. ~overrun
      BY <1>g DEF StopAgent
    <2>2. ~pending /\ ~dropped /\ ~running'
      BY <2>1, <1>g, StopsQuietly
    <2>3. Cardinality(tmp) <= Cardinality(Left) + (IF running THEN 1 ELSE 0)
      BY <2>2, <1>g, LeftCounts
    <2>4. Cardinality(tmp) \in Nat
      BY TmpIsFinite DEF ZipInv
    <2> QED
      BY <2>1, <2>2, <2>3, <2>4, <1>a, <1>c, <1>d
  <1>h. ASSUME ~running', loop' # "exited", Cardinality(tmp') <= handlers',
               Cardinality(tmp') \in Nat, handlers' \in Nat
        PROVE  LeftInv'
    <2>1. IsFiniteSet(Run)
      <3>1. MaxRuns \in Int
        BY HeadlessZipConstants
      <3> QED
        BY <3>1, FS_Interval DEF Run
    <2>2. IsFiniteSet(tmp') /\ Left' \in SUBSET tmp'
      <3>1. tmp' \in SUBSET Run
        BY <1>z DEF ZipInv, TypeOK
      <3> QED
        BY <2>1, <3>1, FS_Subset DEF Left
    <2>3. /\ Cardinality(Left') <= Cardinality(tmp')
          /\ Cardinality(Left') \in Nat
      BY <2>2, FS_Subset, FS_CardinalityType
    <2> QED
      BY <1>h, <2>3 DEF LeftInv, NothingIsLeft
  <1>1. ASSUME BeginRun, loop \notin {"exited", "aborted"} PROVE LeftInv'
    <2>1. /\ core = "idle" /\ core' = "collecting" /\ run' = run + 1
          /\ tmp' = tmp \cup {run + 1}
          /\ ~overrun /\ ~dropped
          /\ UNCHANGED <<running, handlers, outputDir, pending, loop>>
      BY <1>1 DEF BeginRun, async, history
    <2>2. run + 1 \notin tmp /\ run + 1 # outputDir
      BY <1>a
    <2>3. Left' = Left
      BY <2>1, <2>2 DEF Left, Underway
    <2> QED
      BY <1>1, <1>e, <2>1, <2>3
  <1>2. ASSUME AssignOutputDir, loop \notin {"exited", "aborted"}
        PROVE  LeftInv'
    <2>1. /\ core = "collecting" /\ core' = "writing"
          /\ overrun' = (overrun \/ pending \/ loop = "woken") /\ ~dropped
          /\ UNCHANGED <<running, handlers, run, tmp, pending, loop>>
      BY <1>2 DEF AssignOutputDir
    <2>2. ~overrun /\ ~pending /\ loop # "woken"
      BY <2>1
    <2>3. Left' = Left
      BY <2>1, <2>2 DEF Left, Underway
    <2> QED
      BY <1>2, <1>e, <2>1, <2>2, <2>3
  <1>3. ASSUME OutputDirAssigned, loop \notin {"exited", "aborted"}
        PROVE  LeftInv'
    <2>1. /\ core = "writing" /\ core' = "sending" /\ ~overrun /\ ~dropped
          /\ UNCHANGED <<running, handlers, run, tmp, pending, loop>>
      BY <1>3 DEF OutputDirAssigned, history
    <2>2. ~pending /\ loop # "woken"
      BY <1>b, <2>1
    <2>3. Left' = Left
      BY <2>1, <2>2 DEF Left, Underway
    <2> QED
      BY <1>3, <1>e, <2>1, <2>3
  <1>4. ASSUME SendAsync, loop \notin {"exited", "aborted"} PROVE LeftInv'
    <2>1. /\ core = "sending" /\ core' = "idle" /\ ~overrun /\ ~dropped
          /\ pending' = TRUE
          /\ UNCHANGED <<running, handlers, run, tmp, outputDir, loop>>
      BY <1>4 DEF SendAsync, history
    <2>2. ~pending /\ loop # "woken" /\ outputDir = run
      BY <1>b, <2>1 DEF ZipInv, CoreInv
    <2>3. Left' = Left
      BY <2>1, <2>2 DEF Left, Underway
    <2> QED
      BY <1>4, <1>e, <2>1, <2>3
  <1>5. ASSUME WakeUp PROVE LeftInv'
    <2>1. /\ pending /\ loop' = "woken" /\ ~overrun /\ ~dropped
          /\ UNCHANGED <<running, handlers, run, core, tmp, outputDir>>
      BY <1>5 DEF WakeUp, coreVars, history
    <2>2. Left' = Left
      BY <2>1 DEF Left, Underway
    <2> QED
      BY <1>e, <2>1, <2>2
  <1>6. ASSUME AsyncFunc PROVE LeftInv'
    <2>1. /\ loop = "woken" /\ loop' \in {"polling", "exit"}
          /\ ~overrun /\ ~dropped /\ HeadlessZip(outputDir)
          /\ UNCHANGED <<running, handlers, run, core, pending, outputDir>>
      BY <1>6 DEF AsyncFunc, async
    <2>2. outputDir \in tmp /\ ~pending
      BY <1>a, <1>b, <2>1
    <2>3. tmp' = tmp \ {outputDir}
      BY <2>1, <2>2, Packs
    <2>4. Left' = Left
      BY <2>1, <2>2, <2>3 DEF Left, Underway
    <2> QED
      BY <1>e, <2>1, <2>4
  <1>7. ASSUME FinishClose PROVE LeftInv'
    <2>1. /\ loop = "polling" /\ loop' \in {"polling", "aborted"}
          /\ ~overrun /\ ~dropped
          /\ UNCHANGED <<running, handlers, run, core, tmp, pending,
                         outputDir>>
      BY <1>7 DEF FinishClose, coreVars, history
    <2>2. Left' = Left
      BY <2>1 DEF Left, Underway
    <2> QED
      BY <1>e, <2>1, <2>2
  <1>8. ASSUME LoopEnds PROVE LeftInv'
    <2>1. /\ loop = "polling" /\ loop' = "exit" /\ ~overrun /\ ~dropped
          /\ UNCHANGED <<running, handlers, run, core, tmp, pending,
                         outputDir>>
      BY <1>8 DEF LoopEnds, coreVars, async, history
    <2>2. Left' = Left
      BY <2>1 DEF Left, Underway
    <2> QED
      BY <1>e, <2>1, <2>2
  <1>10. ASSUME OnExit PROVE LeftInv'
    <2>1. /\ StopAgent /\ loop = "exit" /\ loop' = loop /\ handlers > 0
          /\ handlers' = handlers - 1
      BY <1>10 DEF OnExit, Throws
    <2>2. /\ ~running' /\ ~overrun
          /\ Cardinality(tmp) \in Nat /\ Cardinality(tmp) <= handlers
      BY <1>g, <2>1
    <2>3. IsFiniteSet(tmp)
      BY TmpIsFinite DEF ZipInv
    <2>4. /\ Cardinality(tmp') \in Nat
          /\ Cardinality(tmp') <= handlers - 1
      <3>1. CASE tmp = {} /\ UNCHANGED <<tmp, files, clash>>
        <4>1. tmp' = {} /\ Cardinality(tmp') = 0
          BY <3>1, FS_EmptySet
        <4> QED
          BY <4>1, <1>a, <2>1
      <3>2. ASSUME NEW dir \in tmp, HeadlessZip(dir)
            PROVE  /\ Cardinality(tmp') \in Nat
                   /\ Cardinality(tmp') <= handlers - 1
        <4>1. tmp' = tmp \ {dir}
          BY <3>2, Packs
        <4>2. Cardinality(tmp \ {dir}) = Cardinality(tmp) - 1
              /\ IsFiniteSet(tmp \ {dir})
          BY <2>3, FS_RemoveElement
        <4>3. Cardinality(tmp \ {dir}) \in Nat
          BY <4>2, FS_CardinalityType
        <4> QED
          BY <4>1, <4>2, <4>3, <1>a, <2>1, <2>2
      <3> QED
        BY <1>10, <3>1, <3>2 DEF OnExit
    <2>5. handlers - 1 \in Nat
      BY <1>a, <2>1
    <2> QED
      BY <1>h, <2>1, <2>2, <2>4, <2>5
  <1>11. ASSUME Exited PROVE LeftInv'
    <2>1. /\ loop = "exit" /\ handlers = 0 /\ ~overrun /\ ~dropped
          /\ UNCHANGED <<running, handlers, run, core, tmp, pending,
                         outputDir>>
      BY <1>11 DEF Exited, coreVars, async, history
    <2>2. ~running /\ Cardinality(Left) = 0
      BY <1>c, <1>d, <2>1
    <2>3. core = "idle" /\ ~pending /\ loop # "woken"
      BY <1>a, <2>1, <2>2
    <2>4. Left = tmp /\ Left' = Left
      <3>1. Underway = {}
        BY <2>3 DEF Underway
      <3>2. loop' = "exited"
        BY <1>11 DEF Exited
      <3>3. Underway' = {}
        BY <2>1, <2>3, <3>2 DEF Underway
      <3> QED
        BY <2>1, <3>1, <3>3 DEF Left
    <2>5. IsFiniteSet(tmp)
      BY TmpIsFinite DEF ZipInv
    <2>6. tmp = {}
      BY <2>2, <2>4, <2>5, FS_EmptySet
    <2> QED
      BY <1>c, <2>1, <2>4, <2>6 DEF LeftInv, NothingIsLeft
  <1>12. ASSUME Start PROVE LeftInv'
    <2>1. /\ loop = "polling" /\ loop' = loop /\ ~overrun /\ ~dropped
          /\ handlers' = handlers + 1 /\ running' = TRUE
          /\ UNCHANGED <<run, core, tmp, outputDir>>
      BY <1>12 DEF Start, coreVars, async, history
    <2>2. ~pending \/ pending' = pending
      BY <1>12, <1>a DEF Start, async
    <2>3. pending' => pending
      BY <1>12, <1>a DEF Start, async
    <2>4. Left' = Left
      BY <2>1, <2>2, <2>3 DEF Left, Underway
    <2> QED
      BY <1>a, <1>c, <1>d, <2>1, <2>4 DEF LeftInv, NothingIsLeft
  <1>13. ASSUME Stop PROVE LeftInv'
    <2>1. /\ StopAgent /\ loop = "polling" /\ loop' = loop
          /\ tmp' = tmp /\ handlers' = handlers
      BY <1>13 DEF Stop
    <2> QED
      BY <1>a, <1>g, <1>h, <2>1
  <1>14. ASSUME NEW name \in unlinking, Unlink(name) PROVE LeftInv'
    BY <1>14, <1>f DEF Unlink, coreVars, async, history
  <1>15. ASSUME Tick PROVE LeftInv'
    BY <1>15, <1>f DEF Tick, coreVars, async, history
  <1>16. ASSUME UNCHANGED vars PROVE LeftInv'
    BY <1>16, <1>f DEF vars, coreVars, async, history
  <1> QED
    BY <1>1, <1>2, <1>3, <1>4, <1>5, <1>6, <1>7, <1>8, <1>10, <1>11, <1>12,
       <1>13, <1>14, <1>15, <1>16, Steps

(* When the process has exited no temporary directory is left: index.js    *)
(* adds a handler of `exit' at every start() and a handler packs one       *)
(* directory only, and that suffices however often the agent is started,   *)
(* stopped while it collects, or both.                                     *)
THEOREM NothingLeft ==
    Spec => []NothingIsLeft
  <1>1. Init => LeftInv
    <2> SUFFICES ASSUME Init PROVE LeftInv
      OBVIOUS
    <2>1. Left = {} /\ ~running /\ handlers = 0 /\ tmp = {}
      BY DEF Init, Left, Underway
    <2> QED
      BY <2>1, FS_EmptySet DEF LeftInv, NothingIsLeft
  <1>2. ZipInv /\ LeftInv /\ [Next]_vars => LeftInv'
    BY LeftStep
  <1>3. LeftInv => NothingIsLeft
    BY DEF LeftInv, NothingIsLeft
  <1> QED
    BY <1>1, <1>2, <1>3, ZipAlways, PTL DEF Spec
=============================================================================
