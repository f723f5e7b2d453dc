------------------------------ MODULE Requests ------------------------------
(***************************************************************************)
(* Request tracking (lib/request.js): probes start and stop requests, and  *)
(* the requests that belong together form a tree, whose root is reported   *)
(* in a `request' event when it stops.                                     *)
(*                                                                         *)
(* The request under way is kept in process.domain.currentRequest.  A root *)
(* request (an incoming http request, say) creates a domain and enters it; *)
(* node runs the callbacks scheduled inside in that domain again, and a    *)
(* request started there becomes a child of currentRequest.  stop() stops  *)
(* the children that are still active, makes the parent current again and, *)
(* when there is no parent, leaves the domain and emits the event.         *)
(*                                                                         *)
(* Requests are numbered in the order they are created, and a domain by    *)
(* the root request that created it; 0 stands for undefined.  `children'   *)
(* is the inverse of `parent'.                                             *)
(*                                                                         *)
(* Abstracted: names, contexts, timers and stack traces, and the marks of  *)
(* delayed tracing, which nothing reads.                                   *)
(***************************************************************************)
EXTENDS Naturals, Sequences

CONSTANT
    MaxRequests     \* bound on the requests of a behaviour

ASSUME RequestConstants == MaxRequests \in Nat

VARIABLES
    nextRequestId,
    nextEventId,
    request,        \* the requests created so far
    active,         \* those not stopped yet
    currentRequest, \* process.domain.currentRequest, for each domain
    inTurn,         \* the loop runs a callback
    stack,          \* the domains entered, innermost last
    emitted,        \* history: the requests reported, in order
    foreign         \* history: a callback in another domain than the one a
                    \* request was started in has stopped it

ids == <<nextRequestId, nextEventId>>
vars == <<ids, request, active, currentRequest, inTurn, stack, emitted,
          foreign>>

Number == 1..MaxRequests
Requests == 1..Len(request)

TypeOK ==
    /\ nextRequestId \in 1..Len(request) + 1
    /\ nextEventId = Len(request) + 1
    /\ Len(request) <= MaxRequests
    /\ request \in Seq([parent : 0..MaxRequests, top : Number, id : Number,
                        typed : BOOLEAN, root : BOOLEAN,
                        domain : 0..MaxRequests])
    /\ active \subseteq Requests
    /\ currentRequest \in [Number -> 0..Len(request)]
    /\ inTurn \in BOOLEAN
    /\ stack \in Seq(Requests)
    /\ emitted \in Seq(Requests)
    /\ foreign \in BOOLEAN

Init ==
    /\ nextRequestId = 1
    /\ nextEventId = 1
    /\ request = <<>>
    /\ active = {}
    /\ currentRequest = [d \in Number |-> 0]
    /\ inTurn = FALSE
    /\ stack = <<>>
    /\ emitted = <<>>
    /\ foreign = FALSE

(* process.domain                                                          *)
Domain == IF stack = <<>> THEN 0 ELSE stack[Len(stack)]

-----------------------------------------------------------------------------
(* The event loop runs one callback, in domain d or in none.               *)
BeginTurn(d) ==
    /\ ~inTurn
    /\ inTurn' = TRUE
    /\ stack' = IF d = 0 THEN <<>> ELSE <<d>>
    /\ UNCHANGED <<ids, request, active, currentRequest, emitted, foreign>>

EndTurn ==
    /\ inTurn
    /\ inTurn' = FALSE
    /\ stack' = <<>>
    /\ UNCHANGED <<ids, request, active, currentRequest, emitted, foreign>>

-----------------------------------------------------------------------------
(* A mistake for RootKeepsItsTree to catch: a domain only when none is     *)
(* entered.                                                                *)
DomainIfNeeded(n, root) == IF root /\ Domain = 0 THEN n ELSE Domain

(* A root request gets a domain of its own.                                *)
DomainOf(n, root) == IF root THEN n ELSE Domain

(* Only a typed request at the top counts as a request.                    *)
Counts(parent, typed) == parent = 0 /\ typed

(* A mistake for RequestInv to catch: each takes one id only.              *)
UseOneId(counts) ==
    /\ nextEventId' = nextEventId + (IF counts THEN 0 ELSE 1)
    /\ nextRequestId' = nextRequestId + (IF counts THEN 1 ELSE 0)

(* An event id is used up in any case, a request id by those that count.   *)
UseIds(counts) ==
    /\ nextEventId' = nextEventId + 1
    /\ nextRequestId' = nextRequestId + (IF counts THEN 1 ELSE 0)

(* startRequest(type, name, root) and, with no type, startMethod(name).    *)
Start(root, typed) ==
    LET n == Len(request) + 1
        domain == DomainOf(n, root)
        parent == IF domain = 0 THEN 0 ELSE currentRequest[domain]
        counts == Counts(parent, typed)
    IN  /\ inTurn
        /\ n <= MaxRequests
        /\ request' = Append(request,
              [parent |-> parent,
               top |-> IF parent = 0 THEN n ELSE request[parent].top,
               id |-> IF counts THEN nextRequestId ELSE nextEventId,
               typed |-> typed, root |-> root, domain |-> domain])
        /\ UseIds(counts)
        /\ active' = active \cup {n}
        /\ currentRequest' = IF domain = 0 THEN currentRequest
                             ELSE [currentRequest EXCEPT ![domain] = n]
        /\ stack' = IF root THEN Append(stack, n) ELSE stack
        /\ UNCHANGED <<inTurn, emitted, foreign>>

-----------------------------------------------------------------------------
(* A mistake for EmittedOnce to catch: stop() does its work every time.    *)
StopAgain(r) == r \in Requests

MayStop(r) == r \in active

(* A mistake for EmittedIsOver to catch: the children go on.               *)
StopAlone(r) == {r}

(* The requests that r.stop() stops: r, and with every request those of    *)
(* its children that are active.                                           *)
StoppedWith(r) ==
    LET Closed(S) ==
            r \in S /\ \A c \in active : request[c].parent \in S => c \in S
    IN  {c \in Requests : \A S \in SUBSET Requests : Closed(S) => c \in S}

(* Mistakes for CurrentIsActive and EveryRootEmitted to catch: r stays     *)
(* current; only the end of the outermost request is reported.             *)
LeaveCurrent(r) ==
    /\ currentRequest' = currentRequest
    /\ IF Domain # 0 /\ request[r].parent = 0
       THEN /\ stack' = SubSeq(stack, 1, Len(stack) - 1)
            /\ emitted' = Append(emitted, r)
       ELSE UNCHANGED <<stack, emitted>>

LeaveAndReportOutermost(r) ==
    /\ currentRequest' =
          IF Domain = 0 THEN currentRequest
          ELSE [currentRequest EXCEPT ![Domain] = request[r].parent]
    /\ IF Domain # 0 /\ request[r].parent = 0
       THEN /\ stack' = SubSeq(stack, 1, Len(stack) - 1)
            /\ emitted' = IF Len(stack) > 1 THEN emitted
                          ELSE Append(emitted, r)
       ELSE UNCHANGED <<stack, emitted>>

(* What stop() does to the domain of the callback.  (The calls for the     *)
(* children leave r current, which r's own call overwrites.)               *)
Leave(r) ==
    /\ currentRequest' =
          IF Domain = 0 THEN currentRequest
          ELSE [currentRequest EXCEPT ![Domain] = request[r].parent]
    /\ IF Domain # 0 /\ request[r].parent = 0
       THEN /\ stack' = SubSeq(stack, 1, Len(stack) - 1)
            /\ emitted' = Append(emitted, r)
       ELSE UNCHANGED <<stack, emitted>>

Stop(r) ==
    /\ inTurn
    /\ MayStop(r)
    /\ foreign' = (foreign \/ Domain # request[r].domain)
    /\ active' = active \ StoppedWith(r)
    /\ Leave(r)
    /\ UNCHANGED <<ids, request, inTurn>>

-----------------------------------------------------------------------------
Next ==
    \/ \E d \in {0} \cup {r \in Requests : request[r].root} : BeginTurn(d)
    \/ EndTurn
    \/ \E root, typed \in BOOLEAN : (root => typed) /\ Start(root, typed)
    \/ \E r \in Requests : Stop(r)

Spec == Init /\ [][Next]_vars

-----------------------------------------------------------------------------
Counted(r) == request[r].parent = 0 /\ request[r].typed

(* Ids of two kinds share one field ("It doesn't matter what the event ID  *)
(* is as long as its unique inside a request", request.js:27): no two      *)
(* requests of a tree have the same id.                                    *)
UniqueIds ==
    \A r, q \in Requests :
        (request[r].top = request[q].top /\ request[r].id = request[q].id)
            => r = q

(* The ids of top requests are linear, so that they can be used for        *)
(* sampling (request.js:26): they grow, and none is left out.              *)
LinearIds ==
    /\ \A r, q \in Requests :
          Counted(r) /\ Counted(q) /\ r < q => request[r].id < request[q].id
    /\ \A k \in 1..(nextRequestId - 1) :
          \E r \in Requests : Counted(r) /\ request[r].id = k

RequestInv == TypeOK /\ UniqueIds /\ LinearIds

(* A request is reported at most once, however often and wherever the      *)
(* probes stop it.                                                         *)
EmittedOnce ==
    \A i, j \in 1..Len(emitted) : emitted[i] = emitted[j] => i = j

(* The following hold as long as every request is stopped in the domain it *)
(* was started in; a callback of a pooled connection, say, may run in the  *)
(* domain of whoever opened the connection.                                *)

(* A request that is reported is complete: nothing in its tree is active   *)
(* then or becomes active later, whatever order callbacks stop siblings    *)
(* in and however late they come.                                          *)
EmittedIsOver ==
    ~foreign => \A i \in 1..Len(emitted) : \A r \in active :
                     request[r].top # emitted[i]

(* The current request of a domain is active, and was started there: a     *)
(* new request never becomes the child of one that has stopped.            *)
CurrentIsActive ==
    ~foreign => \A d \in Number :
        currentRequest[d] # 0 =>
            /\ currentRequest[d] \in active
            /\ request[currentRequest[d]].domain = d

(* What is started in the domain of an active root ends up in the tree of  *)
(* that root.                                                              *)
RootKeepsItsTree ==
    ~foreign => \A d \in active :
        request[d].root => /\ currentRequest[d] # 0
                           /\ request[currentRequest[d]].top = d

(* No root request is lost: once stopped, it has been reported.            *)
EveryRootEmitted ==
    ~foreign => \A r \in Requests \ active :
        request[r].root => \E i \in 1..Len(emitted) : emitted[i] = r
=============================================================================
