----------------------------- MODULE HeadlessZip -----------------------------
(***************************************************************************)
(* Headless mode (headlessutils.cpp, headless_zip.js, index.js): the core  *)
(* collects each of its runs in a temporary directory of its own; at the   *)
(* end of a run its thread hands the directory over, and the event loop    *)
(* packs it into a file and removes it.  Files beyond filesToKeep are      *)
(* deleted, oldest first.  What is left when the process exits is packed   *)
(* by the handlers of `exit'.                                              *)
(*                                                                         *)
(* The core is external: its runs follow one another, and stop() waits for *)
(* its thread.  Abstracted: names of files but for their time stamp, in    *)
(* seconds, contents, and errors of the file system.                       *)
(***************************************************************************)
EXTENDS Integers, Sequences

CONSTANTS
    MaxRuns,        \* bound on the runs of the core, and so on directories
    MaxSeconds,     \* bound on the clock
    MaxStarts,      \* bound on the calls of start()
    FilesToKeep,    \* setFilesToKeep, 10 by default
    UnlinkThrows    \* fs.unlink() without a callback throws, since node 10

ASSUME HeadlessZipConstants ==
    /\ MaxRuns \in Nat /\ MaxSeconds \in Nat /\ MaxStarts \in Nat
    /\ FilesToKeep \in Nat \ {0}
    /\ UnlinkThrows \in BOOLEAN

VARIABLES
    running,        \* the agent runs
    handlers,       \* the handlers of `exit' that have not run
    run,            \* the number of the core's last run
    core,           \* what the core's thread does
    tmp,            \* the temporary directories that exist
    handle,         \* async_zip
    pending,        \* uv_async_send was called since the last wakeup
    outputDir,      \* 0 while the string is being written
    loop,           \* what the event loop does
    second,         \* the clock
    filesWritten,   \* headless_zip.js: names, oldest first
    disk,           \* the files there are, and the run each one holds
    unlinking,      \* names handed to fs.unlink, whose turn has not come
    packed,         \* history: the runs that were packed, in that order
    handedOver,     \* history: the runs whose zipping was requested
    overrun,        \* history: a request came before the last was read
    dropped,        \* history: stop() dropped a request on its way
    clash           \* history: two files were named in the same second

coreVars == <<run, core, tmp>>
async == <<handle, pending, outputDir>>
files == <<filesWritten, disk, unlinking, packed>>
history == <<handedOver, overrun, dropped, clash>>
vars == <<running, handlers, coreVars, async, loop, second, files, history>>

Run == 1..MaxRuns
Second == 0..MaxSeconds

TypeOK ==
    /\ running \in BOOLEAN
    /\ handlers \in 0..MaxStarts
    /\ run \in 0..MaxRuns
    /\ core \in {"idle", "collecting", "writing", "sending"}
    /\ tmp \subseteq Run
    /\ handle \in {"none", "open", "closing", "corrupt"}
    /\ pending \in BOOLEAN
    /\ outputDir \in 0..MaxRuns
    /\ loop \in {"polling", "woken", "exit", "exited", "aborted"}
    /\ second \in Second
    /\ filesWritten \in Seq(Second)
    /\ disk \in [Second -> 0..MaxRuns]
    /\ unlinking \subseteq Second
    /\ packed \in Seq(Run)
    /\ handedOver \subseteq Run
    /\ overrun \in BOOLEAN /\ dropped \in BOOLEAN /\ clash \in BOOLEAN

Init ==
    /\ running = FALSE
    /\ handlers = 0
    /\ run = 0
    /\ core = "idle"
    /\ tmp = {}
    /\ handle = "none"
    /\ pending = FALSE
    /\ outputDir = 0
    /\ loop = "polling"
    /\ second = 0
    /\ filesWritten = <<>>
    /\ disk = [s \in Second |-> 0]
    /\ unlinking = {}
    /\ packed = <<>>
    /\ handedOver = {}
    /\ overrun = FALSE /\ dropped = FALSE /\ clash = FALSE
-----------------------------------------------------------------------------
(* The core's thread.  A run begins with a directory of its own.           *)
BeginRun ==
    /\ running
    /\ core = "idle"
    /\ run < MaxRuns
    /\ run' = run + 1
    /\ core' = "collecting"
    /\ tmp' = tmp \cup {run + 1}
    /\ UNCHANGED <<running, handlers, async, loop, second, files, history>>

(* The run ends and zip() is called, which assigns to outputDir ...        *)
AssignOutputDir ==
    /\ core = "collecting"
    /\ core' = "writing"
    /\ outputDir' = 0
    /\ handedOver' = handedOver \cup {run}
    /\ overrun' = (overrun \/ pending \/ loop = "woken")
    /\ UNCHANGED <<running, handlers, run, tmp, handle, pending, loop, second,
                   files, dropped, clash>>

OutputDirAssigned ==
    /\ core = "writing"
    /\ core' = "sending"
    /\ outputDir' = run
    /\ UNCHANGED <<running, handlers, run, tmp, handle, pending, loop, second,
                   files, history>>

(* ... and wakes the loop.                                                 *)
SendAsync ==
    /\ core = "sending"
    /\ core' = "idle"
    /\ pending' = TRUE
    /\ UNCHANGED <<running, handlers, run, tmp, handle, outputDir, loop,
                   second, files, history>>

-----------------------------------------------------------------------------
(* libuv clears the pending flag before it calls asyncfunc.                *)
WakeUp ==
    /\ loop = "polling"
    /\ handle = "open"
    /\ pending
    /\ pending' = FALSE
    /\ loop' = "woken"
    /\ UNCHANGED <<running, handlers, coreVars, handle, outputDir, second,
                   files, history>>

Full == Len(filesWritten) >= FilesToKeep

Throws == Full /\ UnlinkThrows

(* A mistake for KeepsTheNewest to catch: pop() instead of shift(), before *)
(* the name is added.                                                      *)
ForgetTheNewest(name) ==
    /\ filesWritten' = Append(IF Full
                              THEN SubSeq(filesWritten, 1, FilesToKeep - 1)
                              ELSE filesWritten, name)
    /\ unlinking' = IF Full /\ ~UnlinkThrows
                    THEN unlinking \cup {filesWritten[FilesToKeep]}
                    ELSE unlinking
    /\ clash' = (clash \/ \E i \in DOMAIN filesWritten :
                             filesWritten[i] = name)

(* headlessZip(): the name is remembered, and the earliest one dropped,    *)
(* before it is known whether there is a directory to zip.  fs.unlink      *)
(* either throws, or deletes the file some time later.                     *)
Remember(name) ==
    /\ filesWritten' = Append(IF Full THEN Tail(filesWritten)
                              ELSE filesWritten, name)
    /\ unlinking' = IF Full /\ ~UnlinkThrows
                    THEN unlinking \cup {Head(filesWritten)} ELSE unlinking
    /\ clash' = (clash \/ \E i \in DOMAIN filesWritten :
                             filesWritten[i] = name)

(* A mistake for RunsArePacked to catch: the directory is not removed.     *)
PackButKeep(dir) ==
    /\ Remember(second)
    /\ IF dir \in tmp /\ ~Throws
       THEN /\ disk' = [disk EXCEPT ![second] = dir]
            /\ packed' = Append(packed, dir)
       ELSE UNCHANGED <<disk, packed>>
    /\ UNCHANGED tmp

HeadlessZip(dir) ==
    /\ Remember(second)
    /\ IF dir \in tmp /\ ~Throws
       THEN /\ disk' = [disk EXCEPT ![second] = dir]
            /\ tmp' = tmp \ {dir}
            /\ packed' = Append(packed, dir)
       ELSE UNCHANGED <<disk, tmp, packed>>

(* asyncfunc() zips what outputDir says by now.  If that throws, the       *)
(* process exits unless the application catches it.                        *)
AsyncFunc ==
    /\ loop = "woken"
    /\ loop' \in IF Throws THEN {"polling", "exit"} ELSE {"polling"}
    /\ HeadlessZip(outputDir)
    /\ UNCHANGED <<running, handlers, run, core, async, second, handedOver,
                   overrun, dropped>>

(* The thread pool deletes a file.                                         *)
Unlink(name) ==
    /\ name \in unlinking
    /\ unlinking' = unlinking \ {name}
    /\ disk' = [disk EXCEPT ![name] = 0]
    /\ UNCHANGED <<running, handlers, coreVars, async, loop, second,
                   filesWritten, packed, history>>

Tick ==
    /\ second < MaxSeconds
    /\ second' = second + 1
    /\ UNCHANGED <<running, handlers, coreVars, async, loop, files, history>>

-----------------------------------------------------------------------------
(* A mistake for HandOverInv to catch: initialised at every start.         *)
StartAfresh ==
    /\ loop = "polling"
    /\ handlers < MaxStarts
    /\ handlers' = handlers + 1
    /\ running' = TRUE
    /\ handle' = "open"
    /\ pending' = FALSE
    /\ UNCHANGED <<coreVars, outputDir, loop, second, files, history>>

(* A mistake for NothingIsLeft to catch: one handler serves every start.   *)
StartWithOneHandler ==
    /\ loop = "polling"
    /\ ~running
    /\ handlers' = 1
    /\ running' = TRUE
    /\ handle' = IF handle = "none" THEN "open" ELSE "corrupt"
    /\ pending' = FALSE
    /\ UNCHANGED <<coreVars, outputDir, loop, second, files, history>>

(* start(): every call adds a handler of `exit'.  The handle is one static *)
(* structure: initialised while it is being closed it is corrupt.          *)
Start ==
    /\ loop = "polling"
    /\ handlers < MaxStarts
    /\ handlers' = handlers + 1
    /\ running' = TRUE
    /\ IF running THEN UNCHANGED async
       ELSE /\ handle' = IF handle = "none" THEN "open" ELSE "corrupt"
            /\ pending' = FALSE
            /\ UNCHANGED outputDir
    /\ UNCHANGED <<coreVars, loop, second, files, history>>

(* The native stop() stops the core, whose run is left as it is, and then  *)
(* closes the handle, whether a request is on its way or not.              *)
StopAgent ==
    /\ core \in {"idle", "collecting"}
    /\ running' = FALSE
    /\ IF ~running THEN UNCHANGED <<core, handle, pending, dropped>>
       ELSE /\ core' = "idle"
            /\ handle' = IF handle = "open" THEN "closing" ELSE "corrupt"
            /\ pending' = FALSE
            /\ dropped' = (dropped \/ pending)
    /\ UNCHANGED <<run, outputDir, handedOver, overrun>>

Stop ==
    /\ loop = "polling"
    /\ StopAgent
    /\ UNCHANGED <<handlers, tmp, loop, second, files, clash>>

(* The closing phase of the loop; libuv aborts when it finds a handle that *)
(* is not closing any more, if its assertions are compiled in.             *)
FinishClose ==
    /\ loop = "polling"
    /\ handle \in {"closing", "corrupt"}
    /\ handle' = IF running THEN "open" ELSE "none"
    /\ loop' \in IF handle = "corrupt" THEN {"polling", "aborted"}
                 ELSE {"polling"}
    /\ UNCHANGED <<running, handlers, coreVars, pending, outputDir, second,
                   files, history>>

(* The application has nothing to do any more: the handle is unref'd.      *)
LoopEnds ==
    /\ loop = "polling"
    /\ loop' = "exit"
    /\ UNCHANGED <<running, handlers, coreVars, async, second, files, history>>

(* A handler of `exit': stop(), and the first directory found is zipped.   *)
(* If that throws, the others are not called.                              *)
OnExit ==
    /\ loop = "exit"
    /\ handlers > 0
    /\ StopAgent
    /\ \/ tmp = {} /\ UNCHANGED <<tmp, files, clash>>
       \/ \E dir \in tmp : HeadlessZip(dir)
    /\ handlers' = IF tmp # {} /\ Throws THEN 0 ELSE handlers - 1
    /\ UNCHANGED <<loop, second>>

Exited ==
    /\ loop = "exit"
    /\ handlers = 0
    /\ loop' = "exited"
    /\ UNCHANGED <<running, handlers, coreVars, async, second, files, history>>

-----------------------------------------------------------------------------
Core == BeginRun \/ AssignOutputDir \/ OutputDirAssigned \/ SendAsync

Next ==
    \/ Core /\ loop \notin {"exited", "aborted"}
    \/ WakeUp \/ AsyncFunc \/ FinishClose \/ LoopEnds \/ OnExit \/ Exited
    \/ Start \/ Stop
    \/ \E name \in unlinking : Unlink(name)
    \/ Tick

Fairness ==
    /\ WF_vars((OutputDirAssigned \/ SendAsync) /\ loop # "aborted")
    /\ WF_vars(WakeUp)
    /\ WF_vars(AsyncFunc)
    /\ WF_vars(FinishClose)
    /\ WF_vars(OnExit \/ Exited)

Spec == Init /\ [][Next]_vars /\ Fairness

-----------------------------------------------------------------------------
(* The requests are read one by one: no run ends before the request of the *)
(* run before has been read (runs last minutes).  And each is carried out: *)
(* fs.unlink() does not throw before the run is packed.                    *)
Prompt == ~overrun /\ ~UnlinkThrows

(* A run that was handed over is packed, or its request is still on its    *)
(* way, if requests are read one by one, packing does not throw and the    *)
(* agent is not stopped meanwhile.                                         *)
OnItsWay(d) ==
    \/ d = run /\ core \in {"writing", "sending"}
    \/ d = outputDir /\ (pending \/ loop = "woken")

NoRunIsLost ==
    Prompt /\ ~dropped =>
        \A d \in handedOver \cap tmp : OnItsWay(d)

HandOverInv == TypeOK /\ NoRunIsLost

(* The last FilesToKeep of the runs packed, or all while they are fewer,   *)
(* are in the files whose names are remembered, oldest first; and there is *)
(* no other file, once the thread pool has deleted what it was told to;    *)
(* if no two were packed within a second.                                  *)
KeepsTheNewest ==
    Prompt /\ ~clash =>
        LET kept == Len(filesWritten)
            all == Len(packed)
        IN  /\ kept = IF all < FilesToKeep THEN all ELSE FilesToKeep
            /\ \A i \in 1..kept :
                  disk[filesWritten[i]] = packed[all - kept + i]
            /\ {s \in Second : disk[s] # 0} \ unlinking
                   = {filesWritten[i] : i \in DOMAIN filesWritten}

(* Every start() leaves at most one unfinished directory behind and adds   *)
(* one handler, so that although a handler packs one directory only none   *)
(* is left when the process has exited.                                    *)
NothingIsLeft ==
    Prompt /\ ~dropped /\ loop = "exited" => tmp = {}

(* A run that was handed over is packed in the end, under the same         *)
(* conditions, unless the process ends.                                    *)
RunsArePacked ==
    \A d \in Run : d \in handedOver ~>
        d \notin tmp \/ ~Prompt \/ dropped \/ loop \in {"exited", "aborted"}
=============================================================================
