------------------------------ MODULE HeapDump ------------------------------
(***************************************************************************)
(* appmetrics.writeSnapshot() on POSIX (index.js, heapdump.js,             *)
(* src/src/heapdump): a heap snapshot is written either by the loop's      *)
(* thread itself (nofork, the default) or by a forked child, whose end the *)
(* loop learns from SIGCHLD.  SIGUSR2 asks for a snapshot too.  There is   *)
(* one `on_complete_callback', one `snapshot_filename', one `child_pid'.   *)
(*                                                                         *)
(* Calls are numbered; call n writes file n, and the callback it passes,   *)
(* if any, is n as well.  A signal takes a number of its own.              *)
(*                                                                         *)
(* Abstracted: the snapshot, file names, and a waitpid that fails for      *)
(* another reason than ECHILD.                                             *)
(***************************************************************************)
EXTENDS Naturals, Sequences

CONSTANTS
    Forms,          \* the arguments callers use, see Arguments
    MaxCalls        \* bound on the calls and SIGUSR2 signals of a behaviour

(* No argument, a file name, a callback, or a file name and a callback.    *)
Arguments == {"none", "file", "callback", "file+callback"}

ASSUME DumpConstants ==
    /\ Forms \subseteq Arguments
    /\ MaxCalls \in Nat

VARIABLES
    nofork,                 \* set once, from NODE_HEAPDUMP_OPTIONS
    calls,                  \* how many calls and signals there were
    on_complete_callback,   \* 0: empty
    snapshot_filename,      \* 0: never set
    child,                  \* "none", "running", "exited" or "reaped"
    childFile,              \* the file the child writes
    sigchld_handle,         \* the watcher of SIGCHLD is active
    sigchld,                \* a SIGCHLD awaits dispatch to the watcher
    loop,                   \* "idle", "forked": writeSnapshot has forked and
                            \* not started the watcher, "callback": inside
                            \* OnSIGCHLD, the callback has been called
    form,                   \* history: the arguments of each call
    file,                   \* history: what has become of each file
    result,                 \* history: what each call returned
    missed,                 \* history: the child exited before its SIGCHLD
                            \* was watched
    invoked                 \* history: the callbacks made, with the file each
                            \* was told of

dump == <<on_complete_callback, snapshot_filename, child, childFile>>
signals == <<sigchld_handle, sigchld>>
history == <<form, file, result, invoked>>
vars == <<nofork, calls, dump, signals, loop, history, missed>>

Call == 1..MaxCalls

TypeOK ==
    /\ nofork \in BOOLEAN
    /\ calls \in 0..MaxCalls
    /\ on_complete_callback \in 0..calls
    /\ snapshot_filename \in 0..calls
    /\ child \in {"none", "running", "exited", "reaped"}
    /\ childFile \in 0..calls
    /\ sigchld_handle \in BOOLEAN
    /\ sigchld \in BOOLEAN
    /\ loop \in {"idle", "forked", "callback"}
    /\ form \in [Call -> Arguments \cup {"signal"}]
    /\ file \in [Call -> {"absent", "complete", "failed"}]
    /\ result \in [Call -> {"none", "true", "false"}]
    /\ missed \in BOOLEAN
    /\ invoked \in Seq([callback : 1..calls, file : 1..calls])

Init ==
    /\ nofork \in BOOLEAN
    /\ calls = 0
    /\ on_complete_callback = 0
    /\ snapshot_filename = 0
    /\ child = "none"
    /\ childFile = 0
    /\ sigchld_handle = FALSE
    /\ sigchld = FALSE
    /\ loop = "idle"
    /\ form = [n \in Call |-> "none"]
    /\ file = [n \in Call |-> "absent"]
    /\ result = [n \in Call |-> "none"]
    /\ invoked = <<>>
    /\ missed = FALSE

-----------------------------------------------------------------------------
(* InvokeCallback: the callback stays registered.                          *)
InvokeCallback(callback, f) ==
    invoked' = IF callback = 0 THEN invoked
               ELSE Append(invoked, [callback |-> callback, file |-> f])

(* What the native WriteSnapshot(isolate, filename) does for call n, with  *)
(* `callback' registered.                                                  *)

(* A mistake for CallbackContract to catch: the callback is forgotten when *)
(* the file cannot be written.                                             *)
WriteHereIfPossible(n, callback) ==
    /\ nofork
    /\ \E outcome \in {"complete", "failed"} :
          /\ file' = [file EXCEPT ![n] = outcome]
          /\ IF outcome = "complete" THEN InvokeCallback(callback, n)
             ELSE UNCHANGED invoked
    /\ result' = [result EXCEPT ![n] = "true"]
    /\ UNCHANGED <<snapshot_filename, child, childFile, loop>>

(* nofork: the file is written, or cannot be, and the callback is called,  *)
(* before true is returned.  (A call made by that callback comes next.)    *)
WriteHere(n, callback) ==
    /\ nofork
    /\ \E outcome \in {"complete", "failed"} :
          file' = [file EXCEPT ![n] = outcome]
    /\ InvokeCallback(callback, n)
    /\ result' = [result EXCEPT ![n] = "true"]
    /\ UNCHANGED <<snapshot_filename, child, childFile, loop>>

(* The watcher is active: "Already busy writing a snapshot".               *)
Busy(n) ==
    /\ ~nofork
    /\ sigchld_handle
    /\ result' = [result EXCEPT ![n] = "false"]
    /\ UNCHANGED <<child, childFile, loop, file, invoked>>

(* fork() fails.                                                           *)
ForkFails(n) ==
    /\ ~nofork
    /\ ~sigchld_handle
    /\ snapshot_filename' = n
    /\ child' = "none"
    /\ result' = [result EXCEPT ![n] = "false"]
    /\ UNCHANGED <<childFile, loop, file, invoked>>

(* fork() succeeds: true is returned once the watcher is started.          *)
ForkChild(n) ==
    /\ ~nofork
    /\ ~sigchld_handle
    /\ snapshot_filename' = n
    /\ child' = "running"
    /\ childFile' = n
    /\ loop' = "forked"
    /\ UNCHANGED <<file, result, invoked>>

-----------------------------------------------------------------------------
(* A call from JavaScript: from the idle loop, or from the callback that   *)
(* OnSIGCHLD invokes.  index.js hands on the first argument only, and      *)
(* WriteSnapshot registers it when it is a function.                       *)
Registers(arguments) == arguments = "callback"

WriteSnapshot(arguments) ==
    LET n == calls + 1
        callback == IF Registers(arguments) THEN n ELSE on_complete_callback
    IN  /\ loop \in {"idle", "callback"}
        /\ n <= MaxCalls
        /\ calls' = n
        /\ form' = [form EXCEPT ![n] = arguments]
        /\ on_complete_callback' = callback
        /\ \/ WriteHere(n, callback)
           \/ Busy(n) /\ UNCHANGED snapshot_filename
           \/ ForkFails(n)
           \/ ForkChild(n)
        /\ UNCHANGED <<nofork, signals, missed>>

(* OnSIGUSR2 forgets the callback, and puts a new name in                  *)
(* snapshot_filename before it knows whether a snapshot can be written.    *)
OnSIGUSR2 ==
    LET n == calls + 1
    IN  /\ loop = "idle"
        /\ n <= MaxCalls
        /\ calls' = n
        /\ form' = [form EXCEPT ![n] = "signal"]
        /\ on_complete_callback' = 0
        /\ snapshot_filename' = n
        /\ \/ /\ nofork
              /\ \E outcome \in {"complete", "failed"} :
                    file' = [file EXCEPT ![n] = outcome]
              /\ UNCHANGED <<child, childFile, loop, result, invoked>>
           \/ Busy(n)
           \/ ForkFails(n)
           \/ ForkChild(n)
        /\ UNCHANGED <<nofork, signals, missed>>

(* The parent goes on after fork(): uv_signal_start, then return true.     *)
StartWatcher ==
    /\ loop = "forked"
    /\ sigchld_handle' = TRUE
    /\ sigchld' = FALSE
    /\ loop' = "idle"
    /\ result' = [result EXCEPT ![calls] = "true"]
    /\ UNCHANGED <<nofork, calls, dump, form, file, invoked, missed>>

(* The child has written its file, or failed to, and exits.  A SIGCHLD     *)
(* that no watcher waits for is discarded.                                 *)
ChildExits ==
    /\ child = "running"
    /\ child' = "exited"
    /\ \E outcome \in {"complete", "failed"} :
          file' = [file EXCEPT ![childFile] = outcome]
    /\ sigchld' = (sigchld \/ sigchld_handle)
    /\ missed' = ~sigchld_handle
    /\ UNCHANGED <<nofork, calls, on_complete_callback, snapshot_filename,
                   childFile, sigchld_handle, loop, form, result, invoked>>

(* Another child of the application exits.                                 *)
OtherChildExits ==
    /\ sigchld_handle
    /\ sigchld' = TRUE
    /\ UNCHANGED <<nofork, calls, dump, sigchld_handle, loop, history, missed>>

(* A mistake for DumpInv to catch: any child's end is taken for that of    *)
(* the dump (waitpid's 0 is not looked at).                                *)
OnSIGCHLDOfAnyChild ==
    /\ loop = "idle"
    /\ sigchld_handle
    /\ sigchld
    /\ sigchld' = FALSE
    /\ InvokeCallback(on_complete_callback, snapshot_filename)
    /\ loop' = "callback"
    /\ UNCHANGED <<nofork, calls, dump, sigchld_handle, form, file, result,
                   missed>>

(* OnSIGCHLD, up to the return of the callback.                            *)
OnSIGCHLD ==
    /\ loop = "idle"
    /\ sigchld_handle
    /\ sigchld
    /\ sigchld' = FALSE
    /\ IF child = "running"
       THEN UNCHANGED <<child, loop, invoked>>
       ELSE /\ child' = "reaped"
            /\ InvokeCallback(on_complete_callback, snapshot_filename)
            /\ loop' = "callback"
    /\ UNCHANGED <<nofork, calls, on_complete_callback, snapshot_filename,
                   childFile, sigchld_handle, form, file, result, missed>>

(* A mistake for BusyEnds to catch: the watcher stays.                     *)
KeepWatching ==
    /\ loop = "callback"
    /\ loop' = "idle"
    /\ UNCHANGED <<nofork, calls, dump, signals, history, missed>>

(* The rest of OnSIGCHLD: the watcher is stopped.                          *)
StopWatcher ==
    /\ loop = "callback"
    /\ loop' = "idle"
    /\ sigchld_handle' = FALSE
    /\ sigchld' = FALSE
    /\ missed' = FALSE
    /\ UNCHANGED <<nofork, calls, dump, history>>

Next ==
    \/ \E arguments \in Forms : WriteSnapshot(arguments)
    \/ OnSIGUSR2
    \/ StartWatcher \/ ChildExits \/ OtherChildExits
    \/ OnSIGCHLD \/ StopWatcher

SafeSpec == Init /\ [][Next]_vars

(* writeSnapshot and OnSIGCHLD return, a child exits, the loop dispatches  *)
(* the signals it has caught.                                              *)
Spec ==
    /\ SafeSpec
    /\ WF_vars(StartWatcher)
    /\ WF_vars(ChildExits)
    /\ WF_vars(OnSIGCHLD)
    /\ WF_vars(StopWatcher)

-----------------------------------------------------------------------------
(* A callback is told of a file that is finished: never of one that the    *)
(* child still writes, or that nobody writes.  (SIGUSR2 changes the saved  *)
(* name also while a child writes, so signals are set aside.)              *)
CallbackAfterDump ==
    (\A n \in Call : form[n] # "signal") =>
        \A i \in 1..Len(invoked) : file[invoked[i].file] # "absent"

(* When every caller passes a callback, none is called twice, although     *)
(* on_complete_callback is never cleared and other children die.           *)
CallbackOnce ==
    (\A n \in 1..calls : form[n] \in {"callback", "signal"}) =>
        \A i, j \in 1..Len(invoked) :
            invoked[i].callback = invoked[j].callback => i = j

(* There is never a second dump beside a running one: the watcher that     *)
(* makes writeSnapshot refuse is active as long as the child runs.         *)
OneDumpAtATime == child = "running" => sigchld_handle \/ loop = "forked"

(* Together with this it is inductive: the watcher is stopped only when    *)
(* the child of the dump has been waited for, whatever the callback calls, *)
(* nothing was forked by a process that is to write itself, and there is a *)
(* name to tell the callback.                                              *)
DumpInv ==
    /\ TypeOK
    /\ OneDumpAtATime
    /\ loop = "callback" => sigchld_handle /\ child # "running"
    /\ loop = "forked" => ~sigchld_handle /\ calls > 0
    /\ nofork => child = "none" /\ loop = "idle" /\ ~sigchld_handle
    /\ child # "none" => childFile > 0
    /\ sigchld_handle \/ loop = "forked" =>
          snapshot_filename > 0 /\ child # "none"

(* In nofork mode every callback is told of the file of its own call, and  *)
(* has been called when writeSnapshot returns true.  (Not one that follows *)
(* a file name, README.md:188: index.js:335 drops it.)                     *)
CallbackOnReturn ==
    \A n \in Call :
        nofork /\ result[n] = "true" /\ form[n] = "callback" =>
            \E i \in 1..Len(invoked) :
                invoked[i] = [callback |-> n, file |-> n]

(* What callers are promised of their callbacks.                           *)
CallbackContract == CallbackAfterDump /\ CallbackOnce /\ CallbackOnReturn

(* The watcher does not stay active for ever: a dump that was started ends *)
(* and writeSnapshot accepts the next one.  Unless the child exits before  *)
(* its SIGCHLD is watched: then writeSnapshot refuses until another child  *)
(* of the application exits.                                               *)
BusyEnds == sigchld_handle ~> ~sigchld_handle \/ missed
=============================================================================
