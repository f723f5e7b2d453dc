--------------------------- MODULE HeapDumpProofs ---------------------------
(***************************************************************************)
(* Proofs about HeapDump, for any number of calls and signals: one dump at *)
(* a time, in either mode, whatever children exit; and what callers are    *)
(* promised of their callbacks.                                            *)
(***************************************************************************)
EXTENDS HeapDump, TLAPS

LEMMA DumpInvInit == Init => DumpInv
<1> SUFFICES ASSUME Init PROVE DumpInv
  OBVIOUS
<1> USE DumpConstants
<1>1. /\ form \in [Call -> Arguments \cup {"signal"}]
      /\ file \in [Call -> {"absent", "complete", "failed"}]
      /\ result \in [Call -> {"none", "true", "false"}]
  BY DEF Init, Arguments
<1>2. calls \in 0..MaxCalls /\ invoked \in Seq([callback : 1..calls,
                                                file : 1..calls])
  BY DEF Init
<1>3. 0 \in 0..calls
  BY DEF Init
<1>4. TypeOK
  BY Zenon, <1>1, <1>2, <1>3 DEF Init, TypeOK
<1> QED BY <1>4 DEF Init, DumpInv, OneDumpAtATime

(* What a call, or SIGUSR2, does with its number n.                        *)
LEMMA NewCall ==
    ASSUME TypeOK, NEW n, n = calls + 1, n <= MaxCalls
    PROVE  /\ n \in Call /\ n \in Nat /\ n > 0
           /\ \A x \in 0..calls : x \in 0..n
           /\ n \in 0..MaxCalls
           /\ invoked \in Seq([callback : 1..n, file : 1..n])
<1>1. calls \in Nat /\ n \in Nat
  BY DumpConstants DEF TypeOK
<1>2. [callback : 1..calls, file : 1..calls]
         \subseteq [callback : 1..n, file : 1..n]
  BY <1>1
<1>3. invoked \in Seq([callback : 1..calls, file : 1..calls])
  BY DEF TypeOK
<1> DEFINE Before == [callback : 1..calls, file : 1..calls]
           After == [callback : 1..n, file : 1..n]
<1>4. invoked \in Seq(Before) /\ Before \subseteq After
  BY <1>2, <1>3
<1> HIDE DEF Before, After
<1>5. invoked \in Seq(After)
  BY <1>4
<1> QED BY <1>1, <1>5, DumpConstants DEF Call, After

LEMMA InvokeKeeps ==
    ASSUME NEW n \in Nat, NEW callback \in 0..n, NEW f \in 1..n,
           invoked \in Seq([callback : 1..n, file : 1..n]),
           InvokeCallback(callback, f)
    PROVE  invoked' \in Seq([callback : 1..n, file : 1..n])
<1> DEFINE new == [callback |-> callback, file |-> f]
           After == [callback : 1..n, file : 1..n]
<1>1. CASE callback = 0
  BY <1>1 DEF InvokeCallback
<1>2. CASE callback # 0
  <2>1. new \in After
    BY <1>2
  <2>2. invoked' = Append(invoked, new) /\ invoked \in Seq(After)
    BY <1>2 DEF InvokeCallback
  <2> HIDE DEF new, After
  <2>3. invoked' \in Seq(After)
    BY <2>1, <2>2
  <2> QED BY <2>3 DEF After
<1> QED BY <1>1, <1>2

LEMMA DumpInvStep == DumpInv /\ [Next]_vars => DumpInv'
<1> SUFFICES ASSUME DumpInv, [Next]_vars PROVE DumpInv'
  OBVIOUS
<1> USE DEF DumpInv, OneDumpAtATime
<1>1. ASSUME NEW n, n = calls + 1, n <= MaxCalls, calls' = n,
             NEW a \in Arguments \cup {"signal"},
             form' = [form EXCEPT ![n] = a],
             on_complete_callback' \in 0..n, snapshot_filename' \in 0..n,
             snapshot_filename' = snapshot_filename \/ snapshot_filename' > 0,
             invoked' \in Seq([callback : 1..n, file : 1..n]),
             file' \in [Call -> {"absent", "complete", "failed"}],
             result' \in [Call -> {"none", "true", "false"}],
             UNCHANGED <<nofork, signals, missed>>,
             \/ UNCHANGED <<child, childFile, loop>> /\ loop # "forked"
             \/ /\ ~nofork /\ ~sigchld_handle
                /\ child' = "none"
                /\ UNCHANGED <<childFile, loop>> /\ loop # "forked"
             \/ /\ ~nofork /\ ~sigchld_handle
                /\ child' = "running" /\ childFile' = n /\ loop' = "forked"
                /\ snapshot_filename' > 0
      PROVE  DumpInv'
  <2>1. /\ n \in Call /\ n \in Nat /\ n > 0 /\ n \in 0..MaxCalls
        /\ \A x \in 0..calls : x \in 0..n
    BY <1>1, NewCall
  <2>2. form' \in [Call -> Arguments \cup {"signal"}]
    BY <1>1, <2>1 DEF TypeOK
  <2>3. childFile' \in 0..n
    BY <1>1, <2>1 DEF TypeOK
  <2>4. /\ child' \in {"none", "running", "exited", "reaped"}
        /\ loop' \in {"idle", "forked", "callback"}
    BY <1>1 DEF TypeOK
  <2>5. TypeOK'
    BY <1>1, <2>1, <2>2, <2>3, <2>4 DEF TypeOK, signals
  <2> QED BY <1>1, <2>1, <2>5 DEF signals
<1>2. ASSUME NEW arguments \in Forms, WriteSnapshot(arguments)
      PROVE  DumpInv'
  <2> DEFINE n == calls + 1
             callback == IF Registers(arguments) THEN n
                         ELSE on_complete_callback
  <2>1. /\ loop # "forked" /\ n <= MaxCalls /\ calls' = n
        /\ form' = [form EXCEPT ![n] = arguments]
        /\ on_complete_callback' = callback
        /\ UNCHANGED <<nofork, signals, missed>>
        /\ \/ WriteHere(n, callback)
           \/ Busy(n) /\ UNCHANGED snapshot_filename
           \/ ForkFails(n)
           \/ ForkChild(n)
    BY <1>2 DEF WriteSnapshot
  <2>2. /\ n \in Call /\ n \in Nat /\ n > 0
        /\ \A x \in 0..calls : x \in 0..n
        /\ invoked \in Seq([callback : 1..n, file : 1..n])
    BY <2>1, NewCall
  <2>3. callback \in 0..n /\ snapshot_filename \in 0..n
    BY <2>2 DEF TypeOK
  <2>4. arguments \in Arguments
    BY DumpConstants
  <2> HIDE DEF n, callback
  <2>5. CASE WriteHere(n, callback)
    <3>1. n \in 1..n
      BY <2>2
    <3>2. invoked' \in Seq([callback : 1..n, file : 1..n])
      BY <2>2, <2>3, <2>5, <3>1, InvokeKeeps DEF WriteHere
    <3>3. /\ file' \in [Call -> {"absent", "complete", "failed"}]
          /\ result' \in [Call -> {"none", "true", "false"}]
          /\ UNCHANGED <<snapshot_filename, child, childFile, loop>>
      BY <2>2, <2>5 DEF WriteHere, TypeOK
    <3> QED BY <1>1, <2>1, <2>3, <2>4, <3>2, <3>3 DEF n
  <2>6. CASE Busy(n) /\ UNCHANGED snapshot_filename
    <3>1. /\ result' \in [Call -> {"none", "true", "false"}]
          /\ file' \in [Call -> {"absent", "complete", "failed"}]
          /\ UNCHANGED <<child, childFile, loop, invoked>>
      BY <2>2, <2>6 DEF Busy, TypeOK
    <3> QED BY <1>1, <2>1, <2>2, <2>3, <2>4, <2>6, <3>1 DEF n
  <2>7. CASE ForkFails(n)
    <3>1. /\ result' \in [Call -> {"none", "true", "false"}]
          /\ file' \in [Call -> {"absent", "complete", "failed"}]
          /\ snapshot_filename' \in 0..n /\ snapshot_filename' > 0
          /\ ~nofork /\ ~sigchld_handle /\ child' = "none"
          /\ UNCHANGED <<childFile, loop, invoked>>
      BY <2>2, <2>7 DEF ForkFails, TypeOK
    <3> QED BY <1>1, <2>1, <2>2, <2>3, <2>4, <3>1 DEF n
  <2>8. CASE ForkChild(n)
    <3>1. /\ result' \in [Call -> {"none", "true", "false"}]
          /\ file' \in [Call -> {"absent", "complete", "failed"}]
          /\ snapshot_filename' \in 0..n /\ snapshot_filename' > 0
          /\ ~nofork /\ ~sigchld_handle
          /\ child' = "running" /\ childFile' = n /\ loop' = "forked"
          /\ UNCHANGED invoked
      BY <2>2, <2>8 DEF ForkChild, TypeOK
    <3> QED BY <1>1, <2>1, <2>2, <2>3, <2>4, <3>1 DEF n
  <2> QED BY <2>1, <2>5, <2>6, <2>7, <2>8
<1>3. CASE OnSIGUSR2
  <2> DEFINE n == calls + 1
  <2>1. /\ loop = "idle" /\ n <= MaxCalls /\ calls' = n
        /\ form' = [form EXCEPT ![n] = "signal"]
        /\ on_complete_callback' = 0
        /\ snapshot_filename' = n
        /\ UNCHANGED <<nofork, signals, missed>>
    BY <1>3 DEF OnSIGUSR2
  <2>2. /\ n \in Call /\ n \in Nat /\ n > 0
        /\ invoked \in Seq([callback : 1..n, file : 1..n])
    BY <2>1, NewCall
  <2>3. 0 \in 0..n /\ n \in 0..n
    BY <2>2
  <2>4. /\ file' \in [Call -> {"absent", "complete", "failed"}]
        /\ result' \in [Call -> {"none", "true", "false"}]
        /\ UNCHANGED invoked
    <3> HIDE DEF n
    <3> QED BY <1>3, <2>2
            DEF OnSIGUSR2, Busy, ForkFails, ForkChild, TypeOK, n
  <2>5. \/ UNCHANGED <<child, childFile, loop>>
        \/ /\ ~nofork /\ ~sigchld_handle
           /\ child' = "none"
           /\ UNCHANGED <<childFile, loop>>
        \/ /\ ~nofork /\ ~sigchld_handle
           /\ child' = "running" /\ childFile' = n /\ loop' = "forked"
    BY <1>3 DEF OnSIGUSR2, Busy, ForkFails, ForkChild
  <2> HIDE DEF n
  <2> QED BY <1>1, <2>1, <2>2, <2>3, <2>4, <2>5 DEF n
<1>4. CASE StartWatcher
  <2>1. result' \in [Call -> {"none", "true", "false"}]
    BY <1>4 DEF StartWatcher, TypeOK
  <2> QED BY <1>4, <2>1 DEF StartWatcher, TypeOK, dump
<1>5. CASE ChildExits
  <2>1. file' \in [Call -> {"absent", "complete", "failed"}]
    BY <1>5 DEF ChildExits, TypeOK
  <2> QED BY <1>5, <2>1 DEF ChildExits, TypeOK
<1>6. CASE OtherChildExits
  BY <1>6 DEF OtherChildExits, TypeOK, dump, history
<1>7. CASE OnSIGCHLD
  <2>1. CASE child = "running"
    BY <1>7, <2>1 DEF OnSIGCHLD, TypeOK
  <2>2. CASE child # "running"
    <3>1. InvokeCallback(on_complete_callback, snapshot_filename)
      BY <1>7, <2>2 DEF OnSIGCHLD
    <3>2. /\ calls \in Nat
          /\ on_complete_callback \in 0..calls
          /\ snapshot_filename \in 1..calls
          /\ invoked \in Seq([callback : 1..calls, file : 1..calls])
      BY <1>7, DumpConstants DEF OnSIGCHLD, TypeOK
    <3>3. invoked' \in Seq([callback : 1..calls, file : 1..calls])
      BY <3>1, <3>2, InvokeKeeps
    <3>4. /\ child' = "reaped" /\ loop' = "callback" /\ sigchld' = FALSE
          /\ sigchld_handle /\ loop = "idle"
          /\ UNCHANGED <<nofork, calls, on_complete_callback,
                         snapshot_filename, childFile, sigchld_handle, form,
                         file, result, missed>>
      BY <1>7, <2>2 DEF OnSIGCHLD
    <3>5. TypeOK'
      BY <3>3, <3>4 DEF TypeOK
    <3>6. childFile' > 0
      BY <3>4 DEF TypeOK
    <3> QED BY <3>4, <3>5, <3>6
  <2> QED BY <2>1, <2>2
<1>8. CASE StopWatcher
  BY <1>8 DEF StopWatcher, TypeOK, dump, history
<1>9. CASE UNCHANGED vars
  BY <1>9 DEF vars, TypeOK, dump, signals, history
<1> QED BY <1>2, <1>3, <1>4, <1>5, <1>6, <1>7, <1>8, <1>9 DEF Next

(* One dump at a time, for any number of calls and signals.                *)
THEOREM DumpInvariant == SafeSpec => []DumpInv
<1>1. Init => DumpInv
  BY DumpInvInit
<1>2. DumpInv /\ [Next]_vars => DumpInv'
  BY DumpInvStep
<1> QED BY <1>1, <1>2, PTL DEF SafeSpec

-----------------------------------------------------------------------------
(* No call has been made yet under a number above `calls'.                 *)
FreshInv == \A n \in Call : n > calls => form[n] = "none"

(* With no signal, the file OnSIGCHLD tells of is the child's, which is    *)
(* finished when the child has exited.                                     *)
ToldInv ==
    (\A n \in Call : form[n] # "signal") =>
        /\ \A i \in 1..Len(invoked) : file[invoked[i].file] # "absent"
        /\ child \in {"exited", "reaped"} => file[childFile] # "absent"
        /\ sigchld_handle \/ loop = "forked" => snapshot_filename = childFile

(* When every call passes a callback, the one registered while a dump is   *)
(* under way has not been called.                                          *)
OnceInv ==
    (\A n \in 1..calls : form[n] \in {"callback", "signal"}) =>
        /\ \A i, j \in 1..Len(invoked) :
               invoked[i].callback = invoked[j].callback => i = j
        /\ (sigchld_handle /\ loop # "callback") \/ loop = "forked" =>
               \A i \in 1..Len(invoked) :
                   invoked[i].callback # on_complete_callback

CallbackInv == FreshInv /\ ToldInv /\ OnceInv /\ CallbackOnReturn

(* What one more invocation adds.                                          *)
LEMMA Invoked ==
    ASSUME TypeOK, NEW callback, NEW f, InvokeCallback(callback, f),
           callback # 0
    PROVE  /\ Len(invoked) \in Nat /\ Len(invoked') = Len(invoked) + 1
           /\ \A i \in 1..Len(invoked) : invoked'[i] = invoked[i]
           /\ invoked'[Len(invoked) + 1] = [callback |-> callback, file |-> f]
  <1> DEFINE Entry == [callback : 1..calls, file : 1..calls]
             new == [callback |-> callback, file |-> f]
  <1>1. invoked \in Seq(Entry)
    BY DEF TypeOK
  <1>2. invoked' = Append(invoked, new)
    BY DEF InvokeCallback
  <1> HIDE DEF Entry, new
  <1>3. /\ Len(invoked) \in Nat /\ Len(invoked') = Len(invoked) + 1
        /\ \A i \in 1..Len(invoked) : invoked'[i] = invoked[i]
        /\ invoked'[Len(invoked) + 1] = new
    BY <1>1, <1>2
  <1> QED
    BY <1>3 DEF new

(* Every callback called, and every file told of, is one of the calls'.    *)
LEMMA InvokedTypes ==
    ASSUME TypeOK
    PROVE  \A i \in 1..Len(invoked) :
               invoked[i].callback \in 1..calls /\ invoked[i].file \in 1..calls
  <1> DEFINE Entry == [callback : 1..calls, file : 1..calls]
  <1>1. invoked \in Seq(Entry)
    BY DEF TypeOK
  <1>2. \A i \in 1..Len(invoked) : invoked[i] \in Entry
    <2> HIDE DEF Entry
    <2> QED
      BY <1>1
  <1> QED
    BY <1>2

(* A new number leaves what was asked before as it was.                    *)
FormsKept(n, a) ==
    /\ FreshInv'
    /\ form'[n] = a
    /\ \A m \in Call : m # n => form'[m] = form[m]
    /\ (\A m \in Call : form'[m] # "signal") =>
           a # "signal" /\ \A m \in Call : form[m] # "signal"
    /\ (\A m \in 1..n : form'[m] \in {"callback", "signal"}) =>
           /\ a \in {"callback", "signal"}
           /\ \A m \in 1..calls : form[m] \in {"callback", "signal"}

LEMMA FormsBefore ==
    ASSUME TypeOK, FreshInv, NEW n \in Call, n = calls + 1, NEW a,
           calls' = n, form' = [form EXCEPT ![n] = a]
    PROVE  FormsKept(n, a)
  <1>1. /\ calls \in Nat /\ n > calls /\ MaxCalls \in Nat /\ n <= MaxCalls
        /\ form \in [Call -> Arguments \cup {"signal"}]
    BY DumpConstants DEF TypeOK, Call
  <1>2. /\ form'[n] = a /\ \A m \in Call : m # n => form'[m] = form[m]
    BY <1>1
  <1>3. FreshInv'
    BY <1>1, <1>2 DEF FreshInv, Call
  <1>4. form[n] = "none"
    BY <1>1 DEF FreshInv
  <1>5. ASSUME \A m \in Call : form'[m] # "signal", NEW m \in Call
        PROVE  form[m] # "signal"
    BY <1>2, <1>4, <1>5
  <1>6. ASSUME \A m \in 1..n : form'[m] \in {"callback", "signal"},
               NEW m \in 1..calls
        PROVE  form[m] \in {"callback", "signal"}
    BY <1>1, <1>2, <1>6 DEF Call
  <1>7. n \in 1..n
    BY <1>1
  <1> QED
    BY <1>2, <1>3, <1>5, <1>6, <1>7 DEF FormsKept

(* A call, or SIGUSR2, that calls nothing back: it writes no file, or that *)
(* of its own number, and leaves the watcher and the dump alone or forks.  *)
LEMMA QuietCall ==
    ASSUME DumpInv, CallbackInv,
           NEW n, n = calls + 1, n <= MaxCalls, calls' = n,
           NEW a \in Arguments \cup {"signal"},
           form' = [form EXCEPT ![n] = a],
           a \in {"callback", "signal"} => on_complete_callback' \in {0, n},
           UNCHANGED <<nofork, sigchld_handle, invoked>>,
           ~nofork \/ a # "callback",
           UNCHANGED result \/ \E r : result' = [result EXCEPT ![n] = r],
           \/ UNCHANGED file
           \/ \E outcome \in {"complete", "failed"} :
                  file' = [file EXCEPT ![n] = outcome],
           \/ /\ UNCHANGED <<child, childFile, loop>> /\ loop # "forked"
              /\ \/ UNCHANGED snapshot_filename \/ a = "signal"
                 \/ ~sigchld_handle
           \/ /\ ~sigchld_handle /\ child' = "none"
              /\ UNCHANGED <<childFile, loop>> /\ loop # "forked"
           \/ /\ ~nofork /\ ~sigchld_handle /\ child' = "running"
              /\ childFile' = n /\ loop' = "forked"
              /\ snapshot_filename' = n
    PROVE  CallbackInv'
  <1>1. /\ n \in Call /\ n \in Nat /\ n > 0 /\ calls \in Nat
    <2>1. TypeOK /\ calls \in Nat
      BY DumpConstants DEF DumpInv, TypeOK
    <2> QED
      BY <2>1, NewCall
  <1>a. TypeOK /\ FreshInv
    BY DEF DumpInv, CallbackInv
  <1>b. FormsKept(n, a)
    BY <1>1, <1>a, FormsBefore
  <1>2. /\ FreshInv' /\ form'[n] = a
        /\ \A m \in Call : m # n => form'[m] = form[m]
        /\ (\A m \in Call : form'[m] # "signal") =>
               a # "signal" /\ \A m \in Call : form[m] # "signal"
        /\ (\A m \in 1..n : form'[m] \in {"callback", "signal"}) =>
               /\ a \in {"callback", "signal"}
               /\ \A m \in 1..calls : form[m] \in {"callback", "signal"}
    BY <1>b DEF FormsKept
  <1>3. \A i \in 1..Len(invoked) :
            /\ invoked[i].callback \in 1..calls
            /\ invoked[i].file \in 1..calls
    BY InvokedTypes DEF DumpInv
  <1>4. \A f \in 1..calls : f # n /\ f \in Call /\ file'[f] = file[f]
    BY <1>1, DumpConstants DEF DumpInv, TypeOK, Call
  <1>5. ToldInv'
    <2> SUFFICES ASSUME \A m \in Call : form'[m] # "signal"
                 PROVE  /\ \A i \in 1..Len(invoked') :
                               file'[invoked'[i].file] # "absent"
                        /\ child' \in {"exited", "reaped"} =>
                               file'[childFile'] # "absent"
                        /\ sigchld_handle' \/ loop' = "forked" =>
                               snapshot_filename' = childFile'
      BY DEF ToldInv
    <2>1. /\ a # "signal"
          /\ \A i \in 1..Len(invoked) : file[invoked[i].file] # "absent"
          /\ child \in {"exited", "reaped"} => file[childFile] # "absent"
          /\ sigchld_handle \/ loop = "forked" => snapshot_filename = childFile
      BY <1>2 DEF CallbackInv, ToldInv
    <2>2. \A i \in 1..Len(invoked') : file'[invoked'[i].file] # "absent"
      BY <1>3, <1>4, <2>1
    <2>3. child # "none" => childFile \in 1..calls
      BY <1>1 DEF DumpInv, TypeOK
    <2>4. child' \in {"exited", "reaped"} => file'[childFile'] # "absent"
      BY <1>4, <2>1, <2>3
    <2> QED
      BY <2>1, <2>2, <2>4
  <1>6. OnceInv'
    <2> SUFFICES ASSUME \A m \in 1..n : form'[m] \in {"callback", "signal"}
                 PROVE  /\ \A i, j \in 1..Len(invoked') :
                               invoked'[i].callback = invoked'[j].callback
                                   => i = j
                        /\ \A i \in 1..Len(invoked') :
                               invoked'[i].callback # on_complete_callback'
      BY DEF OnceInv
    <2>1. /\ on_complete_callback' \in {0, n}
          /\ \A i, j \in 1..Len(invoked) :
                 invoked[i].callback = invoked[j].callback => i = j
      BY <1>2 DEF CallbackInv, OnceInv
    <2>2. \A i \in 1..Len(invoked) : invoked[i].callback # 0
                                     /\ invoked[i].callback # n
      BY <1>1, <1>3
    <2> QED
      BY <2>1, <2>2
  <1>7. CallbackOnReturn'
    <2>1. \A m \in Call : m # n => result'[m] = result[m]
      BY <1>1 DEF DumpInv, TypeOK
    <2> QED
      BY <1>1, <1>2, <2>1 DEF CallbackInv, CallbackOnReturn
  <1> QED
    BY <1>2, <1>5, <1>6, <1>7 DEF CallbackInv

(* A call in nofork mode that finds a callback registered.                 *)
LEMMA CallWritesHere ==
    ASSUME DumpInv, CallbackInv,
           NEW n, n = calls + 1, n <= MaxCalls, calls' = n,
           NEW a \in Arguments, form' = [form EXCEPT ![n] = a],
           NEW callback \in 1..n, a = "callback" => callback = n,
           WriteHere(n, callback), UNCHANGED <<nofork, sigchld_handle>>
    PROVE  CallbackInv'
  <1>0. TypeOK /\ calls \in Nat
    BY DumpConstants DEF DumpInv, TypeOK
  <1>1. n \in Call /\ n \in Nat /\ n > 0
    BY <1>0, NewCall
  <1>a. FreshInv
    BY DEF CallbackInv
  <1>b. FormsKept(n, a)
    BY <1>0, <1>1, <1>a, FormsBefore
  <1>2. /\ FreshInv' /\ form'[n] = a
        /\ \A m \in Call : m # n => form'[m] = form[m]
        /\ (\A m \in Call : form'[m] # "signal") =>
               a # "signal" /\ \A m \in Call : form[m] # "signal"
        /\ (\A m \in 1..n : form'[m] \in {"callback", "signal"}) =>
               /\ a \in {"callback", "signal"}
               /\ \A m \in 1..calls : form[m] \in {"callback", "signal"}
    BY <1>b DEF FormsKept
  <1>3. \A i \in 1..Len(invoked) :
            /\ invoked[i].callback \in 1..calls
            /\ invoked[i].file \in 1..calls
    BY <1>0, InvokedTypes
  <1>4. /\ nofork /\ InvokeCallback(callback, n)
        /\ \E outcome \in {"complete", "failed"} :
               file' = [file EXCEPT ![n] = outcome]
        /\ result' = [result EXCEPT ![n] = "true"]
        /\ child' = child /\ loop' = loop
    BY DEF WriteHere
  <1>5. child = "none" /\ loop = "idle" /\ ~sigchld_handle
    BY <1>4 DEF DumpInv
  <1>6. PICK k \in Nat : k = Len(invoked)
    <2>1. Len(invoked) \in Nat
      <3>1. callback # 0
        BY <1>1
      <3> QED
        BY <3>1, <1>0, <1>4, Invoked
    <2> QED
      BY <2>1
  <1>7. /\ Len(invoked') = k + 1
        /\ \A i \in 1..k : invoked'[i] = invoked[i]
        /\ invoked'[k + 1] = [callback |-> callback, file |-> n]
    BY <1>0, <1>1, <1>4, <1>6, Invoked
  <1>8. \A i \in 1..(k + 1) : i \in 1..k \/ i = k + 1
    BY <1>6
  <1>9. file'[n] # "absent" /\ \A f \in 1..calls : file'[f] = file[f]
    BY <1>0, <1>1, <1>4, DumpConstants DEF TypeOK, Call
  <1>10. ToldInv'
    <2> SUFFICES ASSUME \A m \in Call : form'[m] # "signal",
                        NEW i \in 1..(k + 1)
                 PROVE  file'[invoked'[i].file] # "absent"
      BY <1>4, <1>5, <1>7 DEF ToldInv
    <2>1. CASE i = k + 1
      BY <2>1, <1>7, <1>9
    <2>2. CASE i \in 1..k
      BY <2>2, <1>2, <1>3, <1>6, <1>7, <1>9 DEF CallbackInv, ToldInv
    <2> QED
      BY <1>8, <2>1, <2>2
  <1>11. OnceInv'
    <2> SUFFICES ASSUME \A m \in 1..n : form'[m] \in {"callback", "signal"},
                        NEW i \in 1..(k + 1), NEW j \in 1..(k + 1),
                        invoked'[i].callback = invoked'[j].callback
                 PROVE  i = j
      BY <1>4, <1>5, <1>7 DEF OnceInv
    <2>1. callback = n /\ \A l \in 1..k : invoked'[l].callback # n
      <3>1. \A l \in 1..k : invoked[l].callback \in 1..calls
        BY <1>3, <1>6
      <3>2. a = "callback"
        BY <1>2 DEF Arguments
      <3> QED
        BY <3>1, <3>2, <1>0, <1>7
    <2>2. CASE i = k + 1 \/ j = k + 1
      BY <2>1, <2>2, <1>7, <1>8
    <2>3. CASE i \in 1..k /\ j \in 1..k
      BY <2>3, <1>2, <1>6, <1>7 DEF CallbackInv, OnceInv
    <2> QED
      BY <1>8, <2>2, <2>3
  <1>12. CallbackOnReturn'
    <2> SUFFICES ASSUME NEW m \in Call, result'[m] = "true",
                        form'[m] = "callback"
                 PROVE  \E i \in 1..(k + 1) :
                            invoked'[i] = [callback |-> m, file |-> m]
      BY <1>7 DEF CallbackOnReturn
    <2>1. CASE m = n
      <3>1. callback = n /\ k + 1 \in 1..(k + 1)
        BY <2>1, <1>2
      <3> QED
        BY <2>1, <3>1, <1>7
    <2>2. CASE m # n
      <3>1. result[m] = "true" /\ form[m] = "callback"
        BY <2>2, <1>0, <1>1, <1>2, <1>4 DEF TypeOK
      <3>2. PICK i \in 1..k : invoked[i] = [callback |-> m, file |-> m]
        BY <3>1, <1>4, <1>6 DEF CallbackInv, CallbackOnReturn
      <3> QED
        BY <3>2, <1>7
    <2> QED
      BY <2>1, <2>2
  <1> QED
    BY <1>2, <1>10, <1>11, <1>12 DEF CallbackInv

LEMMA CallbackStep ==
    ASSUME DumpInv, CallbackInv, [Next]_vars
    PROVE  CallbackInv'
  <1>1. ASSUME NEW arguments \in Forms, WriteSnapshot(arguments)
        PROVE  CallbackInv'
    <2> DEFINE n == calls + 1
               callback == IF Registers(arguments) THEN n
                           ELSE on_complete_callback
    <2>0. TypeOK /\ calls \in Nat /\ n \in Nat
      BY DumpConstants DEF DumpInv, TypeOK
    <2>1. /\ loop # "forked" /\ n <= MaxCalls /\ calls' = n
          /\ form' = [form EXCEPT ![n] = arguments]
          /\ on_complete_callback' = callback
          /\ UNCHANGED <<nofork, sigchld_handle>>
          /\ \/ WriteHere(n, callback)
             \/ Busy(n) /\ UNCHANGED snapshot_filename
             \/ ForkFails(n)
             \/ ForkChild(n)
      BY <1>1 DEF WriteSnapshot, signals
    <2>2. arguments \in Arguments /\ arguments # "signal"
      BY DumpConstants DEF Arguments
    <2>3. arguments = "callback" => callback = n
      BY DEF Registers
    <2>4. callback \in 0..n
      BY <2>0 DEF TypeOK
    <2> HIDE DEF n, callback
    <2>5. CASE WriteHere(n, callback)
      <3>1. CASE callback = 0
        <4>1. arguments # "callback"
          BY <2>0, <2>3, <3>1 DEF n
        <4>2. /\ UNCHANGED <<invoked, snapshot_filename, child, childFile,
                             loop>>
              /\ \E outcome \in {"complete", "failed"} :
                     file' = [file EXCEPT ![n] = outcome]
              /\ \E r : result' = [result EXCEPT ![n] = r]
          BY <2>5, <3>1 DEF WriteHere, InvokeCallback
        <4> QED
          BY <2>1, <2>2, <4>1, <4>2, QuietCall DEF n
      <3>2. CASE callback # 0
        <4>1. callback \in 1..n
          BY <2>0, <2>4, <3>2
        <4> QED
          BY <2>1, <2>2, <2>3, <2>5, <4>1, CallWritesHere DEF n
      <3> QED
        BY <3>1, <3>2
    <2>6. CASE Busy(n) /\ UNCHANGED snapshot_filename
      <3>1. /\ ~nofork /\ \E r : result' = [result EXCEPT ![n] = r]
            /\ UNCHANGED <<child, childFile, loop, file, invoked>>
        BY <2>6 DEF Busy
      <3> QED
        BY <2>1, <2>2, <2>3, <2>6, <3>1, QuietCall DEF n
    <2>7. CASE ForkFails(n)
      <3>1. /\ ~nofork /\ ~sigchld_handle /\ child' = "none"
            /\ \E r : result' = [result EXCEPT ![n] = r]
            /\ UNCHANGED <<childFile, loop, file, invoked>>
        BY <2>7 DEF ForkFails
      <3> QED
        BY <2>1, <2>2, <2>3, <3>1, QuietCall DEF n
    <2>8. CASE ForkChild(n)
      <3>1. /\ ~nofork /\ ~sigchld_handle /\ child' = "running"
            /\ snapshot_filename' = n /\ childFile' = n /\ loop' = "forked"
            /\ UNCHANGED <<result, file, invoked>>
        BY <2>8 DEF ForkChild
      <3> QED
        BY <2>1, <2>2, <2>3, <3>1, QuietCall DEF n
    <2> QED
      BY <2>1, <2>5, <2>6, <2>7, <2>8
  <1>2. ASSUME OnSIGUSR2 PROVE CallbackInv'
    <2> DEFINE n == calls + 1
    <2>1. /\ loop # "forked" /\ n <= MaxCalls /\ calls' = n
          /\ form' = [form EXCEPT ![n] = "signal"]
          /\ on_complete_callback' = 0
          /\ UNCHANGED <<nofork, sigchld_handle>>
      BY <1>2 DEF OnSIGUSR2, signals
    <2>2. /\ UNCHANGED invoked
          /\ UNCHANGED result \/ \E r : result' = [result EXCEPT ![n] = r]
          /\ \/ UNCHANGED file
             \/ \E outcome \in {"complete", "failed"} :
                    file' = [file EXCEPT ![n] = outcome]
          /\ \/ UNCHANGED <<child, childFile, loop>>
             \/ /\ ~sigchld_handle /\ child' = "none"
                /\ UNCHANGED <<childFile, loop>>
             \/ /\ ~nofork /\ ~sigchld_handle /\ child' = "running"
                /\ childFile' = n /\ loop' = "forked"
                /\ snapshot_filename' = n
      <3> HIDE DEF n
      <3> QED
        BY <1>2 DEF OnSIGUSR2, Busy, ForkFails, ForkChild, n
    <2> HIDE DEF n
    <2> QED
      BY <2>1, <2>2, QuietCall DEF n
  <1>3. ASSUME UNCHANGED <<nofork, calls, form, file, invoked,
                           on_complete_callback, snapshot_filename,
                           childFile>>,
               \/ UNCHANGED result
               \/ ~nofork,
               child' \in {"exited", "reaped"} =>
                   child \in {"exited", "reaped"},
               sigchld_handle' => sigchld_handle \/ loop = "forked",
               loop' = "forked" => loop = "forked",
               sigchld_handle' /\ loop' # "callback" =>
                   loop # "callback"
        PROVE  CallbackInv'
    <2>1. FreshInv'
      BY <1>3 DEF CallbackInv, FreshInv
    <2>2. ToldInv'
      BY <1>3 DEF CallbackInv, ToldInv
    <2>3. OnceInv'
      BY <1>3 DEF CallbackInv, OnceInv
    <2>4. CallbackOnReturn'
      BY <1>3 DEF CallbackInv, CallbackOnReturn
    <2> QED
      BY <2>1, <2>2, <2>3, <2>4 DEF CallbackInv
  <1>4. CASE StartWatcher
    <2>1. ~nofork
      BY <1>4 DEF StartWatcher, DumpInv
    <2> QED
      BY <1>4, <2>1, <1>3 DEF StartWatcher, dump
  <1>5. CASE ChildExits
    <2>1. /\ child = "running" /\ ~nofork
          /\ childFile \in 0..calls /\ childFile > 0
          /\ file \in [Call -> {"absent", "complete", "failed"}]
          /\ calls \in Nat /\ MaxCalls \in Nat /\ calls <= MaxCalls
      BY <1>5, DumpConstants DEF ChildExits, DumpInv, TypeOK
    <2>2. childFile \in Call
      BY <2>1 DEF Call
    <2>3. /\ file'[childFile] # "absent"
          /\ \A f \in Call : file[f] # "absent" => file'[f] # "absent"
      BY <1>5, <2>1, <2>2 DEF ChildExits
    <2>4. UNCHANGED <<nofork, calls, form, on_complete_callback, loop,
                      snapshot_filename, childFile, sigchld_handle, result,
                      invoked>>
      BY <1>5 DEF ChildExits
    <2>5. \A i \in 1..Len(invoked) : invoked[i].file \in Call
      BY <2>1, InvokedTypes DEF DumpInv, Call
    <2>6. FreshInv'
      BY <2>4 DEF CallbackInv, FreshInv
    <2>7. ToldInv'
      BY <2>3, <2>4, <2>5 DEF CallbackInv, ToldInv
    <2>8. OnceInv'
      BY <2>4 DEF CallbackInv, OnceInv
    <2>9. CallbackOnReturn'
      BY <2>4 DEF CallbackInv, CallbackOnReturn
    <2> QED
      BY <2>6, <2>7, <2>8, <2>9 DEF CallbackInv
  <1>6. CASE OtherChildExits
    BY <1>6, <1>3 DEF OtherChildExits, dump, history
  <1>7. CASE OnSIGCHLD
    <2>1. CASE child = "running"
      BY <1>7, <2>1, <1>3 DEF OnSIGCHLD
    <2>2. CASE child # "running"
      <3>0. TypeOK /\ ~nofork
        BY <1>7 DEF OnSIGCHLD, DumpInv
      <3>1. /\ loop = "idle" /\ sigchld_handle /\ sigchld_handle'
            /\ child' = "reaped" /\ loop' = "callback"
            /\ InvokeCallback(on_complete_callback, snapshot_filename)
            /\ UNCHANGED <<nofork, calls, on_complete_callback,
                           snapshot_filename, childFile, form, file, result>>
        BY <1>7, <2>2 DEF OnSIGCHLD
      <3>2. child \in {"exited", "reaped"}
        BY <3>0, <3>1, <2>2 DEF DumpInv, TypeOK
      <3>3. FreshInv' /\ CallbackOnReturn'
        BY <3>0, <3>1 DEF CallbackInv, FreshInv, CallbackOnReturn
      <3>4. CASE on_complete_callback = 0
        <4>1. invoked' = invoked
          BY <3>1, <3>4 DEF InvokeCallback
        <4>2. ToldInv'
          BY <3>1, <3>2, <4>1 DEF CallbackInv, ToldInv
        <4>3. OnceInv'
          BY <3>1, <4>1 DEF CallbackInv, OnceInv
        <4> QED
          BY <3>3, <4>2, <4>3 DEF CallbackInv
      <3>5. CASE on_complete_callback # 0
        <4>1. PICK k \in Nat : k = Len(invoked)
          BY <3>0, <3>1, <3>5, Invoked
        <4>2. /\ Len(invoked') = k + 1
              /\ \A i \in 1..k : invoked'[i] = invoked[i]
              /\ invoked'[k + 1] = [callback |-> on_complete_callback,
                                    file |-> snapshot_filename]
          BY <3>0, <3>1, <3>5, <4>1, Invoked
        <4>3. \A i \in 1..(k + 1) : i \in 1..k \/ i = k + 1
          BY <4>1
        <4>4. ToldInv'
          <5> SUFFICES ASSUME \A m \in Call : form[m] # "signal"
                       PROVE  /\ \A i \in 1..(k + 1) :
                                     file[invoked'[i].file] # "absent"
                              /\ file[childFile] # "absent"
                              /\ snapshot_filename = childFile
            BY <3>1, <4>2 DEF ToldInv
          <5>1. /\ \A i \in 1..k : file[invoked[i].file] # "absent"
                /\ file[childFile] # "absent"
                /\ snapshot_filename = childFile
            BY <3>1, <3>2, <4>1 DEF CallbackInv, ToldInv
          <5> QED
            BY <4>2, <4>3, <5>1
        <4>5. OnceInv'
          <5> SUFFICES ASSUME \A m \in 1..calls :
                                  form[m] \in {"callback", "signal"},
                              NEW i \in 1..(k + 1), NEW j \in 1..(k + 1),
                              invoked'[i].callback = invoked'[j].callback
                       PROVE  i = j
            BY <3>1, <4>2 DEF OnceInv
          <5>1. /\ \A l, m \in 1..k :
                       invoked[l].callback = invoked[m].callback => l = m
                /\ \A l \in 1..k : invoked[l].callback # on_complete_callback
            BY <3>1, <4>1 DEF CallbackInv, OnceInv
          <5> QED
            BY <4>2, <4>3, <5>1
        <4> QED
          BY <3>3, <4>4, <4>5 DEF CallbackInv
      <3> QED
        BY <3>4, <3>5
    <2> QED
      BY <2>1, <2>2
  <1>8. CASE StopWatcher
    BY <1>8, <1>3 DEF StopWatcher, dump, history
  <1>9. CASE UNCHANGED vars
    BY <1>9, <1>3 DEF vars, dump, signals, history
  <1> QED
    BY <1>1, <1>2, <1>4, <1>5, <1>6, <1>7, <1>8, <1>9 DEF Next

(* What callers are promised of their callbacks, with any number of them   *)
(* and of signals, in either mode: the one on_complete_callback, which is  *)
(* never cleared, is called once per call that passes one and for a        *)
(* finished file, and before writeSnapshot returns if it does not fork.    *)
THEOREM CallbacksAreKept ==
    SafeSpec => []CallbackContract
  <1>1. Init => CallbackInv
    <2> SUFFICES ASSUME Init PROVE CallbackInv
      OBVIOUS
    <2>1. invoked = <<>> /\ Len(invoked) = 0 /\ ~sigchld_handle
          /\ child = "none" /\ loop = "idle"
          /\ \A n \in Call : form[n] = "none" /\ result[n] = "none"
      BY DEF Init
    <2> QED
      BY <2>1 DEF CallbackInv, FreshInv, ToldInv, OnceInv, CallbackOnReturn
  <1>2. DumpInv /\ CallbackInv /\ [Next]_vars => CallbackInv'
    BY CallbackStep
  <1>3. CallbackInv => CallbackContract
    BY DEF CallbackInv, ToldInv, OnceInv, CallbackContract, CallbackAfterDump,
           CallbackOnce
  <1> QED
    BY <1>1, <1>2, <1>3, DumpInvariant, PTL DEF SafeSpec
=============================================================================
