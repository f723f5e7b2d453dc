--------------------------- MODULE RequestsProofs ---------------------------
(***************************************************************************)
(* Proofs about Requests and ProbeCalls, for any number of requests and    *)
(* calls.  Wherever the callbacks run, ids are unique inside a request and *)
(* linear, and no request is reported twice; when requests are stopped at  *)
(* home, a root collects what is started in its domain, stops with all of  *)
(* it and is reported.  Probes stop the requests of calls that are over,   *)
(* and measure each call by its own timer; when a call returns, its        *)
(* request is stopped at home, unless a callback strayed before.           *)
(***************************************************************************)
EXTENDS ProbeCalls, TLAPS

(* Where ids come from: an event id is the number of the request, and a    *)
(* request id is at most that.                                             *)
NodeInv(r) ==
    /\ request[r].parent \in 0..(r - 1)
    /\ request[r].top \in 1..r
    /\ request[r].top = r <=> request[r].parent = 0
    /\ ~Counted(r) => request[r].id = r
    /\ Counted(r) => request[r].id \in 1..r /\ request[r].id < nextRequestId

TreeInv ==
    /\ nextEventId = Len(request) + 1
    /\ nextRequestId \in 1..Len(request) + 1
    /\ \A r \in Requests : NodeInv(r)

IdInv ==
    /\ request \in Seq([parent : Nat, top : Nat, id : Nat, typed : BOOLEAN,
                        root : BOOLEAN, domain : Nat])
    /\ Len(request) <= MaxRequests
    /\ currentRequest \in [Number -> 0..Len(request)]
    /\ stack \in Seq(Number)
    /\ TreeInv
    /\ LinearIds

(* What has been reported is no longer active, and is reported once.       *)
ReportInv ==
    /\ emitted \in Seq(Requests)
    /\ active \subseteq Requests
    /\ \A i \in 1..Len(emitted) : emitted[i] \notin active
    /\ EmittedOnce

(* Within a tree only the top can have a request id, and every other       *)
(* request has an event id greater than the top's id.                      *)
LEMMA UniqueFromTree == TreeInv => UniqueIds
<1> SUFFICES ASSUME TreeInv,
                    NEW r \in Requests, NEW q \in Requests,
                    request[r].top = request[q].top,
                    request[r].id = request[q].id
             PROVE  r = q
  BY DEF UniqueIds
<1> r \in Nat /\ q \in Nat
  BY DEF Requests
<1>1. \A s \in Requests : Counted(s) => request[s].top = s
  BY DEF TreeInv, NodeInv, Counted
<1>2. CASE ~Counted(r) /\ ~Counted(q)
  BY <1>2 DEF TreeInv, NodeInv
<1>3. CASE Counted(r)
  <2>1. request[q].top = r /\ request[r].id <= r
    BY <1>1, <1>3 DEF TreeInv, NodeInv, Requests
  <2>2. CASE Counted(q)
    BY <1>1, <2>1, <2>2
  <2>3. CASE ~Counted(q)
    <3>1. request[q].id = q /\ r <= q
      BY <2>1, <2>3 DEF TreeInv, NodeInv, Requests
    <3> QED BY <2>1, <3>1
  <2> QED BY <2>2, <2>3
<1>4. CASE Counted(q)
  <2>1. request[r].top = q /\ request[q].id <= q
    BY <1>1, <1>4 DEF TreeInv, NodeInv, Requests
  <2>2. CASE ~Counted(r)
    <3>1. request[r].id = r /\ q <= r
      BY <2>1, <2>2 DEF TreeInv, NodeInv, Requests
    <3> QED BY <2>1, <3>1
  <2> QED BY <1>3, <2>2
<1> QED BY <1>2, <1>3, <1>4

LEMMA IdInvInit == Init => IdInv
BY RequestConstants
   DEF Init, IdInv, TreeInv, LinearIds, Requests, Number

LEMMA IdInvStep == IdInv /\ [Next]_vars => IdInv'
<1> SUFFICES ASSUME IdInv, [Next]_vars PROVE IdInv'
  OBVIOUS
<1> USE RequestConstants
<1>1. ASSUME NEW d \in {0} \cup {r \in Requests : request[r].root},
             BeginTurn(d)
      PROVE  IdInv'
  <2>1. stack' \in Seq(Number)
    <3>1. CASE d = 0
      BY <1>1, <3>1 DEF BeginTurn
    <3>2. CASE d # 0
      <4>1. d \in Number
        BY <3>2 DEF IdInv, Requests, Number
      <4>2. stack' = <<d>>
        BY <1>1, <3>2 DEF BeginTurn
      <4> QED BY <4>1, <4>2
    <3> QED BY <3>1, <3>2
  <2> QED BY <1>1, <2>1 DEF BeginTurn, IdInv, TreeInv, NodeInv, LinearIds,
                            Requests, Counted, ids
<1>2. CASE EndTurn
  BY <1>2 DEF EndTurn, IdInv, TreeInv, NodeInv, LinearIds, Requests, Counted,
              ids
<1>3. ASSUME NEW root \in BOOLEAN, NEW typed \in BOOLEAN, Start(root, typed)
      PROVE  IdInv'
  <2>0. PICK n \in Nat : n = Len(request) + 1
    BY DEF IdInv
  <2> DEFINE domain == DomainOf(n, root)
             parent == IF domain = 0 THEN 0 ELSE currentRequest[domain]
             counts == Counts(parent, typed)
             new == [parent |-> parent,
                     top |-> IF parent = 0 THEN n ELSE request[parent].top,
                     id |-> IF counts THEN nextRequestId ELSE nextEventId,
                     typed |-> typed, root |-> root, domain |-> domain]
  <2>1. /\ n \in Number
        /\ domain \in 0..MaxRequests
        /\ domain # 0 => domain \in Number
    <3>1. n \in Number
      BY <1>3, <2>0 DEF Start, Number
    <3>2. Domain = 0 \/ Domain \in Number
      BY DEF Domain, IdInv
    <3>3. domain = 0 \/ domain \in Number
      BY <3>1, <3>2 DEF DomainOf
    <3> QED BY <3>1, <3>3 DEF Number
  <2>2. parent \in 0..Len(request)
    BY <2>1 DEF IdInv
  <2>3. /\ request' = Append(request, new)
        /\ nextEventId' = nextEventId + 1
        /\ nextRequestId' = nextRequestId + (IF counts THEN 1 ELSE 0)
    BY <1>3, <2>0 DEF Start, UseIds
  <2> HIDE DEF domain, parent
  <2>4. /\ new.top \in 1..n
        /\ new.top = n <=> parent = 0
        /\ ~counts => new.id = n
        /\ counts => new.id \in 1..n /\ new.id = nextRequestId
    <3>1. CASE parent = 0
      BY <2>0, <3>1 DEF IdInv, TreeInv, Counts
    <3>2. CASE parent # 0
      <4>1. parent \in Requests
        BY <2>2, <3>2 DEF Requests, IdInv
      <4>2. request[parent].top \in 1..parent
        BY <4>1 DEF IdInv, TreeInv, NodeInv
      <4>3. parent \in Nat /\ parent < n
        BY <2>0, <2>2 DEF IdInv
      <4>4. ~counts /\ nextEventId = n
        BY <2>0, <3>2 DEF Counts, IdInv, TreeInv
      <4> QED BY <3>2, <4>2, <4>3, <4>4
    <3> QED BY <3>1, <3>2
  <2>5. /\ Len(request) \in Nat
        /\ Len(request') = n
        /\ Requests' = Requests \cup {n}
        /\ \A r \in Requests : request'[r] = request[r]
        /\ request'[n] = new
    BY <2>0, <2>3 DEF IdInv, Requests
  <2>6. /\ request' \in Seq([parent : Nat, top : Nat, id : Nat,
                             typed : BOOLEAN, root : BOOLEAN, domain : Nat])
        /\ Len(request') <= MaxRequests
        /\ stack' \in Seq(Number)
    <3>1. new \in [parent : Nat, top : Nat, id : Nat, typed : BOOLEAN,
                   root : BOOLEAN, domain : Nat]
      BY <2>1, <2>2, <2>4
    <3>2. stack' \in Seq(Number)
      BY <1>3, <2>0, <2>1 DEF Start, IdInv
    <3> HIDE DEF new
    <3> QED BY <2>1, <2>3, <2>5, <3>1, <3>2 DEF IdInv, Number
  <2>7. currentRequest' \in [Number -> 0..Len(request')]
    <3>1. currentRequest' = IF domain = 0 THEN currentRequest
                            ELSE [currentRequest EXCEPT ![domain] = n]
      BY <1>3, <2>0 DEF Start, domain
    <3>2. n \in 0..Len(request') /\ 0..Len(request) \subseteq 0..Len(request')
      BY <2>0, <2>5
    <3> QED BY <2>1, <3>1, <3>2 DEF IdInv
  <2>8. /\ \A r \in Requests : Counted(r)' <=> Counted(r)
        /\ Counted(n)' <=> counts
    BY <2>5 DEF Counted, Counts
  <2> HIDE DEF new, counts
  <2>9. TreeInv'
    <3>1. /\ nextEventId' = Len(request') + 1
          /\ nextRequestId' \in 1..Len(request') + 1
          /\ nextRequestId <= nextRequestId'
          /\ counts => nextRequestId' = nextRequestId + 1
      BY <2>0, <2>3, <2>5 DEF IdInv, TreeInv
    <3>2. ASSUME NEW r \in Requests
          PROVE  NodeInv(r)'
      <4>1. request'[r] = request[r] /\ (Counted(r)' <=> Counted(r))
        BY <2>5, <2>8
      <4>2. /\ NodeInv(r) /\ r \in Nat
            /\ nextRequestId \in Nat /\ nextRequestId' \in Nat
        BY <3>1 DEF IdInv, TreeInv, Requests
      <4> QED BY <3>1, <4>1, <4>2 DEF NodeInv
    <3>3. NodeInv(n)'
      <4>1. /\ new.parent \in 0..(n - 1)
            /\ new.parent = parent
        BY <2>0, <2>2 DEF new
      <4>2. nextRequestId \in Nat /\ nextRequestId' \in Nat
        BY <3>1 DEF IdInv, TreeInv
      <4> QED BY <2>4, <2>5, <2>8, <3>1, <4>1, <4>2 DEF NodeInv
    <3> QED BY <2>5, <3>1, <3>2, <3>3 DEF TreeInv
  <2>10. LinearIds'
    <3>1. \A r, q \in Requests' :
             Counted(r)' /\ Counted(q)' /\ r < q
                => request'[r].id < request'[q].id
      <4> SUFFICES ASSUME NEW r \in Requests', NEW q \in Requests',
                          Counted(r)', Counted(q)', r < q
                   PROVE  request'[r].id < request'[q].id
        OBVIOUS
      <4>1. r \in Requests
        BY <2>0, <2>5 DEF Requests
      <4>2. CASE q \in Requests
        BY <2>5, <2>8, <4>1, <4>2 DEF IdInv, LinearIds
      <4>3. CASE q = n
        <5>1. Counted(r) /\ counts
          BY <2>8, <4>1, <4>3
        <5>2. request[r].id < nextRequestId
          BY <4>1, <5>1 DEF IdInv, TreeInv, NodeInv
        <5> QED BY <2>4, <2>5, <4>1, <4>3, <5>1, <5>2
      <4> QED BY <2>5, <4>2, <4>3
    <3>2. \A k \in 1..(nextRequestId' - 1) :
             \E r \in Requests' : Counted(r)' /\ request'[r].id = k
      <4> SUFFICES ASSUME NEW k \in 1..(nextRequestId' - 1)
                   PROVE  \E r \in Requests' :
                             Counted(r)' /\ request'[r].id = k
        OBVIOUS
      <4>0. nextRequestId \in Nat
        BY DEF IdInv, TreeInv
      <4>1. CASE k \in 1..(nextRequestId - 1)
        <5>1. PICK r \in Requests : Counted(r) /\ request[r].id = k
          BY <4>1 DEF IdInv, LinearIds
        <5> QED BY <2>5, <2>8, <5>1
      <4>2. CASE k \notin 1..(nextRequestId - 1)
        <5>1. counts /\ k = nextRequestId
          BY <2>3, <4>0, <4>2
        <5> QED BY <2>4, <2>5, <2>8, <5>1
      <4> QED BY <4>1, <4>2
    <3> QED BY <3>1, <3>2 DEF LinearIds
  <2> QED BY <2>6, <2>7, <2>9, <2>10 DEF IdInv
<1>4. ASSUME NEW r \in Requests, Stop(r)
      PROVE  IdInv'
  <2>1. request[r].parent \in 0..Len(request)
    <3>1. NodeInv(r) /\ r \in Nat /\ r <= Len(request) /\ Len(request) \in Nat
      BY DEF IdInv, TreeInv, Requests
    <3> QED BY <3>1 DEF NodeInv
  <2>2. currentRequest' \in [Number -> 0..Len(request)]
    BY <1>4, <2>1 DEF Stop, Leave, IdInv
  <2>3. stack' \in Seq(Number)
    <3>1. CASE Domain # 0 /\ request[r].parent = 0
      <4>1. stack # <<>> /\ stack' = SubSeq(stack, 1, Len(stack) - 1)
        BY <1>4, <3>1 DEF Stop, Leave, Domain
      <4> QED BY <4>1 DEF IdInv
    <3>2. CASE ~(Domain # 0 /\ request[r].parent = 0)
      BY <1>4, <3>2 DEF Stop, Leave, IdInv
    <3> QED BY <3>1, <3>2
  <2>4. UNCHANGED <<nextRequestId, nextEventId, request>>
    BY <1>4 DEF Stop, ids
  <2> QED BY <2>2, <2>3, <2>4
          DEF IdInv, TreeInv, NodeInv, LinearIds, Requests, Counted
<1>5. CASE UNCHANGED vars
  BY <1>5 DEF vars, IdInv, TreeInv, NodeInv, LinearIds, Requests, Counted, ids
<1> QED BY <1>1, <1>2, <1>3, <1>4, <1>5 DEF Next

-----------------------------------------------------------------------------
(* With the above, the types of the variables that the ids do not depend   *)
(* on.                                                                     *)
LEMMA TypeStep == TypeOK /\ IdInv /\ IdInv' /\ [Next]_vars => TypeOK'
<1> SUFFICES ASSUME TypeOK, IdInv, IdInv', [Next]_vars PROVE TypeOK'
  OBVIOUS
<1> USE RequestConstants
<1> DEFINE Node == [parent : 0..MaxRequests, top : Number, id : Number,
                    typed : BOOLEAN, root : BOOLEAN, domain : 0..MaxRequests]
<1>0. /\ nextRequestId' \in 1..Len(request') + 1
      /\ nextEventId' = Len(request') + 1
      /\ Len(request') <= MaxRequests
      /\ currentRequest' \in [Number -> 0..Len(request')]
  BY DEF IdInv, TreeInv
<1>1. ASSUME NEW d \in {0} \cup {r \in Requests : request[r].root},
             BeginTurn(d)
      PROVE  TypeOK'
  <2>1. stack' \in Seq(Requests)
    <3>1. CASE d = 0
      BY <1>1, <3>1 DEF BeginTurn
    <3>2. CASE d # 0
      <4>1. d \in Requests /\ stack' = <<d>>
        BY <1>1, <3>2 DEF BeginTurn
      <4> QED BY <4>1
    <3> QED BY <3>1, <3>2
  <2> QED BY <1>0, <1>1, <2>1 DEF BeginTurn, TypeOK, Requests
<1>2. CASE EndTurn
  <2>1. stack' \in Seq(Requests)
    <3>1. stack' = <<>>
      BY <1>2 DEF EndTurn
    <3> QED BY <3>1
  <2> QED BY <1>0, <1>2, <2>1 DEF EndTurn, TypeOK, Requests
<1>3. ASSUME NEW root \in BOOLEAN, NEW typed \in BOOLEAN, Start(root, typed)
      PROVE  TypeOK'
  <2>1. PICK n \in Nat : n = Len(request) + 1
    BY DEF IdInv
  <2> DEFINE domain == DomainOf(n, root)
             parent == IF domain = 0 THEN 0 ELSE currentRequest[domain]
             counts == Counts(parent, typed)
             new == [parent |-> parent,
                     top |-> IF parent = 0 THEN n ELSE request[parent].top,
                     id |-> IF counts THEN nextRequestId ELSE nextEventId,
                     typed |-> typed, root |-> root, domain |-> domain]
  <2>2. n \in Number /\ n \in Requests'
    BY <1>3, <2>1 DEF Start, Number, Requests, IdInv
  <2>3. domain \in 0..MaxRequests
    <3>1. Domain = 0 \/ Domain \in Number
      BY DEF Domain, IdInv
    <3> QED BY <2>2, <3>1 DEF DomainOf, Number
  <2>4. parent \in 0..Len(request)
    BY <2>3 DEF IdInv, Number
  <2>5. request' = Append(request, new)
    BY <1>3, <2>1 DEF Start
  <2> HIDE DEF domain, parent
  <2>6. IF parent = 0 THEN n \in Number ELSE request[parent].top \in Number
    <3>1. ASSUME parent # 0 PROVE request[parent].top \in Number
      <4>1. parent \in Requests
        BY <2>4, <3>1 DEF Requests, IdInv
      <4>2. request \in Seq(Node)
        BY DEF TypeOK
      <4> HIDE DEF Node
      <4>3. request[parent] \in Node
        BY <4>1, <4>2 DEF Requests
      <4> QED BY <4>3 DEF Node
    <3> QED BY <2>2, <3>1
  <2>7. nextRequestId \in Number /\ nextEventId \in Number
    BY <2>1, <2>2 DEF TypeOK, Number
  <2>8. new \in Node
    BY <2>1, <2>2, <2>3, <2>4, <2>6, <2>7 DEF IdInv, Number
  <2> HIDE DEF new
  <2>9. request' \in Seq(Node)
    BY <2>5, <2>8 DEF TypeOK
  <2>10. Requests \subseteq Requests'
    BY <2>1, <2>5 DEF Requests, IdInv
  <2>11. stack' \in Seq(Requests') /\ emitted' \in Seq(Requests')
    <3>1. stack \in Seq(Requests') /\ emitted \in Seq(Requests')
      BY <2>10 DEF TypeOK
    <3>2. emitted' = emitted /\ (stack' = Append(stack, n) \/ stack' = stack)
      BY <1>3, <2>1 DEF Start
    <3> QED BY <2>2, <3>1, <3>2
  <2>12. active' \subseteq Requests' /\ UNCHANGED <<inTurn, foreign>>
    BY <1>3, <2>1, <2>2, <2>10 DEF Start, TypeOK
  <2> QED BY <1>0, <2>9, <2>11, <2>12 DEF TypeOK
<1>4. ASSUME NEW r \in Requests, Stop(r)
      PROVE  TypeOK'
  <2>1. UNCHANGED <<ids, request, inTurn, Requests>>
    BY <1>4 DEF Stop, Requests
  <2>2. active' \subseteq Requests' /\ foreign' \in BOOLEAN
    BY <1>4, <2>1 DEF Stop, TypeOK
  <2>3. stack' \in Seq(Requests) /\ emitted' \in Seq(Requests)
    <3>1. CASE Domain # 0 /\ request[r].parent = 0
      <4>1. /\ stack # <<>> /\ stack' = SubSeq(stack, 1, Len(stack) - 1)
            /\ emitted' = Append(emitted, r)
        BY <1>4, <3>1 DEF Stop, Leave, Domain
      <4> QED BY <4>1 DEF TypeOK
    <3>2. CASE ~(Domain # 0 /\ request[r].parent = 0)
      BY <1>4, <3>2 DEF Stop, Leave, TypeOK
    <3> QED BY <3>1, <3>2
  <2> QED BY <1>0, <2>1, <2>2, <2>3 DEF TypeOK, Requests
<1>5. CASE UNCHANGED vars
  BY <1>5 DEF vars, TypeOK, Requests, ids
<1> QED BY <1>1, <1>2, <1>3, <1>4, <1>5 DEF Next

LEMMA TypeInit == Init => TypeOK
<1> SUFFICES ASSUME Init, IdInv PROVE TypeOK
  BY IdInvInit
<1>1. Len(request) = 0 /\ Requests = {}
  BY DEF Init, Requests
<1>2. request = <<>> /\ stack = <<>> /\ emitted = <<>>
  BY DEF Init
<1>3. request \in Seq([parent : 0..MaxRequests, top : Number, id : Number,
                        typed : BOOLEAN, root : BOOLEAN,
                        domain : 0..MaxRequests])
  BY <1>2
<1>4. stack \in Seq(Requests) /\ emitted \in Seq(Requests)
  BY <1>2
<1>5. /\ nextRequestId \in 1..Len(request) + 1
      /\ nextEventId = Len(request) + 1
      /\ Len(request) <= MaxRequests
      /\ currentRequest \in [Number -> 0..Len(request)]
  BY DEF IdInv, TreeInv
<1> QED BY <1>3, <1>4, <1>5 DEF Init, TypeOK

(* Ids are unique inside a request and linear, for any number of requests. *)
THEOREM RequestInvariant == Spec => []RequestInv
<1>1. Init => IdInv /\ TypeOK
  BY IdInvInit, TypeInit
<1>2. IdInv /\ TypeOK /\ [Next]_vars => IdInv' /\ TypeOK'
  BY IdInvStep, TypeStep
<1>3. IdInv /\ TypeOK => RequestInv
  BY UniqueFromTree DEF IdInv, RequestInv
<1> QED BY <1>1, <1>2, <1>3, PTL DEF Spec

-----------------------------------------------------------------------------
(* What stop() stops includes the request itself, so that it can report it *)
(* only once.                                                              *)
LEMMA ReportInvStep == IdInv /\ ReportInv /\ [Next]_vars => ReportInv'
<1> SUFFICES ASSUME IdInv, ReportInv, [Next]_vars PROVE ReportInv'
  OBVIOUS
<1>1. ASSUME NEW d \in {0} \cup {r \in Requests : request[r].root},
             BeginTurn(d)
      PROVE  ReportInv'
  BY <1>1 DEF BeginTurn, ReportInv, EmittedOnce, Requests
<1>2. CASE EndTurn
  BY <1>2 DEF EndTurn, ReportInv, EmittedOnce, Requests
<1>3. ASSUME NEW root \in BOOLEAN, NEW typed \in BOOLEAN, Start(root, typed)
      PROVE  ReportInv'
  <2>1. PICK n \in Nat : n = Len(request) + 1
    BY DEF IdInv
  <2>2. Requests' = Requests \cup {n} /\ n \notin Requests
    BY <1>3, <2>1 DEF Start, Requests, IdInv
  <2>3. active' = active \cup {n} /\ emitted' = emitted
    BY <1>3, <2>1 DEF Start
  <2>4. \A i \in 1..Len(emitted) : emitted[i] \in Requests
    BY DEF ReportInv
  <2>5. emitted' \in Seq(Requests')
    BY <2>2, <2>3 DEF ReportInv
  <2> QED BY <2>2, <2>3, <2>4, <2>5 DEF ReportInv, EmittedOnce
<1>4. ASSUME NEW r \in Requests, Stop(r)
      PROVE  ReportInv'
  <2>1. r \in active /\ r \notin active' /\ active' \subseteq active
    BY <1>4 DEF Stop, MayStop, StoppedWith
  <2>2. Requests' = Requests
    BY <1>4 DEF Stop, Requests
  <2>3. CASE emitted' = emitted
    BY <2>1, <2>2, <2>3 DEF ReportInv, EmittedOnce
  <2>4. CASE emitted' = Append(emitted, r)
    <3>1. /\ emitted' \in Seq(Requests)
          /\ Len(emitted') = Len(emitted) + 1
          /\ \A i \in 1..Len(emitted) : emitted'[i] = emitted[i]
          /\ emitted'[Len(emitted) + 1] = r
      BY <2>4 DEF ReportInv
    <3>2. \A i \in 1..Len(emitted) : emitted[i] # r
      BY <2>1 DEF ReportInv
    <3> QED BY <2>1, <2>2, <3>1, <3>2 DEF ReportInv, EmittedOnce
  <2> QED BY <1>4, <2>3, <2>4 DEF Stop, Leave
<1>5. CASE UNCHANGED vars
  BY <1>5 DEF vars, ReportInv, EmittedOnce, Requests
<1> QED BY <1>1, <1>2, <1>3, <1>4, <1>5 DEF Next

(* No request is reported twice.                                           *)
THEOREM ReportedOnce == Spec => []EmittedOnce
<1>1. Init => IdInv /\ ReportInv
  BY IdInvInit DEF Init, ReportInv, EmittedOnce, Requests
<1>2. IdInv /\ ReportInv /\ [Next]_vars => IdInv' /\ ReportInv'
  BY IdInvStep, ReportInvStep
<1>3. ReportInv => EmittedOnce
  BY DEF ReportInv
<1> QED BY <1>1, <1>2, <1>3, PTL DEF Spec

-----------------------------------------------------------------------------
(* Requests that are stopped at home: each in the domain it was started    *)
(* in.  First what holds wherever they are stopped: domains are those of   *)
(* root requests, which are at the top of their trees, and have a current  *)
(* request only once that root has been created.                           *)
ShapeInv ==
    /\ \A r \in Requests :
          /\ request[r].domain \in 0..r
          /\ request[r].domain # 0 => request[request[r].domain].root
          /\ request[r].root => request[r].domain = r /\ request[r].parent = 0
          /\ request[r].parent # 0 =>
                request[r].top = request[request[r].parent].top
    /\ \A i \in 1..Len(stack) : request[stack[i]].root
    /\ \A d \in Number : d > Len(request) => currentRequest[d] = 0

(* Requests that belong together share a domain, which belongs to the root *)
(* while that is active; what is active hangs on active requests, so that  *)
(* stop() of the top reaches it.                                           *)
HomeInv ==
    /\ \A r \in Requests :
          /\ request[r].parent # 0 =>
                request[r].domain = request[request[r].parent].domain
          /\ request[r].domain \in active =>
                request[r].top = request[r].domain
    /\ \A r \in active :
          /\ request[r].parent # 0 => request[r].parent \in active
          /\ r \in StoppedWith(request[r].top)

TreesInv ==
    /\ ShapeInv
    /\ ~foreign => HomeInv
    /\ EmittedIsOver /\ CurrentIsActive /\ RootKeepsItsTree
    /\ EveryRootEmitted

(* StoppedWith(r) is the least set with r and, of the active requests, the *)
(* children of its members.                                                *)
LEMMA StoppedFacts ==
    ASSUME TypeOK, NEW r \in Requests
    PROVE  /\ StoppedWith(r) \subseteq Requests
           /\ r \in StoppedWith(r)
           /\ \A c \in active :
                 request[c].parent \in StoppedWith(r) => c \in StoppedWith(r)
           /\ \A S \in SUBSET Requests :
                 /\ r \in S
                 /\ \A c \in active : request[c].parent \in S => c \in S
                 => StoppedWith(r) \subseteq S
<1>1. active \subseteq Requests
  BY DEF TypeOK
<1>2. ASSUME NEW c \in active, request[c].parent \in StoppedWith(r)
      PROVE  c \in StoppedWith(r)
  BY <1>1, <1>2, Zenon DEF StoppedWith
<1>3. StoppedWith(r) \subseteq Requests /\ r \in StoppedWith(r)
  BY DEF StoppedWith
<1>4. ASSUME NEW S \in SUBSET Requests, r \in S,
             \A c \in active : request[c].parent \in S => c \in S
      PROVE  StoppedWith(r) \subseteq S
  BY <1>4, Zenon DEF StoppedWith
<1> QED BY <1>2, <1>3, <1>4

(* In whatever domain it runs, stop() stops no other root: a root is below *)
(* no request.                                                             *)
LEMMA NoRootBelow ==
    ASSUME TypeOK, ShapeInv, NEW r \in Requests, NEW q \in StoppedWith(r),
           request[q].root
    PROVE  q = r
<1> DEFINE S == {c \in Requests : c = r \/ ~request[c].root}
<1>1. /\ active \subseteq Requests /\ 0 \notin Requests
      /\ \A c \in Requests : request[c].root => request[c].parent = 0
  <2>1. active \subseteq Requests
    BY DEF TypeOK
  <2>2. 0 \notin Requests
    BY DEF TypeOK, Requests
  <2>3. \A c \in Requests : request[c].root => request[c].parent = 0
    BY DEF ShapeInv
  <2> QED BY <2>1, <2>2, <2>3
<1>2. \A c \in active : request[c].parent \in S => c \in S
  BY <1>1
<1>3. S \in SUBSET Requests /\ r \in S
  OBVIOUS
<1> HIDE DEF S
<1>4. StoppedWith(r) \subseteq S
  BY <1>2, <1>3, StoppedFacts
<1> QED BY <1>4 DEF S

(* What stop() stops is of the same tree and domain and was started later. *)
LEMMA StoppedBelow ==
    ASSUME TypeOK, IdInv, ShapeInv, HomeInv,
           NEW r \in Requests, NEW c \in StoppedWith(r)
    PROVE  /\ c \in Requests
           /\ c >= r
           /\ request[c].domain = request[r].domain
           /\ request[c].top = request[r].top
           /\ request[c].root => c = r
<1>0. active \subseteq Requests /\ Requests \subseteq Nat
  <2>1. active \subseteq Requests
    BY DEF TypeOK
  <2>2. Requests \subseteq Nat
    BY DEF IdInv, Requests
  <2> QED BY <2>1, <2>2
<1>1. c \in {q \in Requests : q >= r}
  <2> DEFINE S == {q \in Requests : q >= r}
  <2>1. ASSUME NEW q \in active, request[q].parent \in S PROVE q \in S
    <3>1. q \in Requests /\ q \in Nat /\ r \in Nat
      BY <1>0
    <3>2. request[q].parent \in 0..(q - 1)
      BY <3>1 DEF IdInv, TreeInv, NodeInv
    <3>3. request[q].parent >= r
      BY <2>1
    <3>4. q >= r
      <4> DEFINE p == request[q].parent
      <4>1. p \in 0..(q - 1) /\ p >= r
        BY <3>2, <3>3
      <4> HIDE DEF p
      <4> QED BY <3>1, <4>1
    <3> QED BY <3>1, <3>4
  <2>2. r \in S /\ S \subseteq Requests
    BY <1>0
  <2> HIDE DEF S
  <2> QED BY <2>1, <2>2, StoppedFacts DEF S
<1>2. c \in {q \in Requests : /\ request[q].domain = request[r].domain
                              /\ request[q].top = request[r].top}
  <2> DEFINE S == {q \in Requests : /\ request[q].domain = request[r].domain
                                    /\ request[q].top = request[r].top}
  <2>1. ASSUME NEW q \in active, request[q].parent \in S PROVE q \in S
    <3>1. request[q].parent # 0
      BY <2>1 DEF Requests
    <3> QED BY <1>0, <2>1, <3>1 DEF ShapeInv, HomeInv
  <2>2. r \in S /\ S \subseteq Requests
    OBVIOUS
  <2> HIDE DEF S
  <2> QED BY <2>1, <2>2, StoppedFacts DEF S
<1>3. request[c].root => c = r
  <2> DEFINE S == {q \in Requests : request[q].root => q = r}
  <2>1. ASSUME NEW q \in active, request[q].parent \in S PROVE q \in S
    <3>1. request[q].parent # 0
      BY <2>1 DEF Requests
    <3> QED BY <1>0, <2>1, <3>1 DEF ShapeInv
  <2>2. r \in S /\ S \subseteq Requests
    OBVIOUS
  <2> HIDE DEF S
  <2> QED BY <2>1, <2>2, StoppedFacts DEF S
<1> QED BY <1>1, <1>2, <1>3

(* What startRequest does, with d the domain and p the parent of the new   *)
(* request n.                                                              *)
LEMMA StartFacts ==
    ASSUME TypeOK, IdInv, ShapeInv,
           NEW root \in BOOLEAN, NEW typed \in BOOLEAN, Start(root, typed),
           NEW n, n = Len(request) + 1,
           NEW d, d = DomainOf(n, root),
           NEW p, p = IF d = 0 THEN 0 ELSE currentRequest[d]
    PROVE  /\ n \in Number /\ n \in Nat /\ n \notin Requests
           /\ Requests' = Requests \cup {n} /\ Len(request') = n
           /\ \A r \in Requests : request'[r] = request[r]
           /\ request'[n].parent = p /\ request'[n].domain = d
           /\ request'[n].root = root
           /\ request'[n].top = IF p = 0 THEN n ELSE request[p].top
           /\ IF root THEN d = n /\ p = 0
              ELSE d = 0 \/ (d \in Requests /\ request[d].root)
           /\ p # 0 => p \in Requests /\ d # 0 /\ p = currentRequest[d]
           /\ active' = active \cup {n} /\ UNCHANGED <<emitted, foreign>>
           /\ currentRequest' = IF d = 0 THEN currentRequest
                                ELSE [currentRequest EXCEPT ![d] = n]
           /\ stack' = IF root THEN Append(stack, n) ELSE stack
<1>1. /\ n \in Nat /\ n \in Number /\ n \notin Requests
      /\ Len(request) \in Nat
  BY DEF Start, IdInv, Requests, Number
<1>2. IF root THEN d = n ELSE d = 0 \/ (d \in Requests /\ request[d].root)
  <2>1. Domain = 0 \/ (Domain \in Requests /\ request[Domain].root)
    <3>1. CASE stack = <<>>
      <4>1. Domain = 0
        BY <3>1 DEF Domain
      <4> QED BY <4>1
    <3>2. CASE stack # <<>>
      <4>1. stack \in Seq(Requests)
        BY DEF TypeOK
      <4>2. Len(stack) \in 1..Len(stack) /\ stack[Len(stack)] \in Requests
        BY <3>2, <4>1
      <4> QED BY <3>2, <4>2 DEF Domain, ShapeInv
    <3> QED BY <3>1, <3>2
  <2> QED BY <2>1 DEF DomainOf
<1>3. d # 0 => d \in Number
  <2>1. Requests \subseteq Number
    BY RequestConstants DEF IdInv, Requests, Number
  <2> QED BY <1>1, <1>2, <2>1
<1>4. root => p = 0
  <2>1. n > Len(request)
    BY <1>1
  <2> QED BY <1>1, <1>2, <2>1 DEF ShapeInv
<1>5. p # 0 => p \in Requests /\ d # 0 /\ p = currentRequest[d]
  BY <1>3 DEF IdInv, Requests
<1> DEFINE new == [parent |-> p,
                   top |-> IF p = 0 THEN n ELSE request[p].top,
                   id |-> IF Counts(p, typed) THEN nextRequestId
                          ELSE nextEventId,
                   typed |-> typed, root |-> root, domain |-> d]
<1>6. /\ request' = Append(request, new)
      /\ active' = active \cup {n} /\ UNCHANGED <<emitted, foreign>>
      /\ currentRequest' = IF d = 0 THEN currentRequest
                           ELSE [currentRequest EXCEPT ![d] = n]
      /\ stack' = IF root THEN Append(stack, n) ELSE stack
  BY DEF Start
<1>7. /\ new.parent = p /\ new.domain = d /\ new.root = root
      /\ new.top = IF p = 0 THEN n ELSE request[p].top
  OBVIOUS
<1> HIDE DEF new
<1>8. /\ Requests' = Requests \cup {n} /\ Len(request') = n
      /\ \A r \in Requests : request'[r] = request[r]
      /\ request'[n] = new
  BY <1>1, <1>6 DEF IdInv, Requests
<1> QED BY <1>1, <1>2, <1>4, <1>5, <1>6, <1>7, <1>8

(* What stop() does, in the domain d of the callback.                      *)
LEMMA StopFacts ==
    ASSUME TypeOK, IdInv, ShapeInv, NEW r \in Requests, Stop(r)
    PROVE  /\ r \in active /\ active' = active \ StoppedWith(r)
           /\ UNCHANGED request /\ Requests' = Requests
           /\ foreign' = (foreign \/ Domain # request[r].domain)
           /\ Domain # 0 => Domain \in Number /\ Domain \in Requests
           /\ currentRequest' =
                 IF Domain = 0 THEN currentRequest
                 ELSE [currentRequest EXCEPT ![Domain] = request[r].parent]
           /\ emitted' = IF Domain # 0 /\ request[r].parent = 0
                         THEN Append(emitted, r) ELSE emitted
           /\ stack' = IF Domain # 0 /\ request[r].parent = 0
                       THEN SubSeq(stack, 1, Len(stack) - 1) ELSE stack
<1>1. Domain # 0 => Domain \in Requests
  <2>1. stack \in Seq(Requests)
    BY DEF TypeOK
  <2> QED BY <2>1 DEF Domain
<1>2. Requests \subseteq Number
  BY RequestConstants DEF IdInv, Requests, Number
<1> QED BY <1>1, <1>2 DEF Stop, MayStop, Leave, Requests
LEMMA ShapeStart ==
    ASSUME TypeOK, IdInv, ShapeInv,
           NEW root \in BOOLEAN, NEW typed \in BOOLEAN, Start(root, typed)
    PROVE  ShapeInv'
<1> DEFINE n == Len(request) + 1
           d == DomainOf(n, root)
           p == IF d = 0 THEN 0 ELSE currentRequest[d]
<1>1. /\ n \in Number /\ n \in Nat /\ n \notin Requests
      /\ Requests' = Requests \cup {n} /\ Len(request') = n
      /\ \A r \in Requests : request'[r] = request[r]
      /\ request'[n].parent = p /\ request'[n].domain = d
      /\ request'[n].root = root
      /\ request'[n].top = IF p = 0 THEN n ELSE request[p].top
      /\ IF root THEN d = n /\ p = 0
         ELSE d = 0 \/ (d \in Requests /\ request[d].root)
      /\ p # 0 => p \in Requests /\ d # 0 /\ p = currentRequest[d]
      /\ currentRequest' = IF d = 0 THEN currentRequest
                           ELSE [currentRequest EXCEPT ![d] = n]
      /\ stack' = IF root THEN Append(stack, n) ELSE stack
  BY StartFacts
<1> HIDE DEF n, d, p
<1>0. Requests \subseteq Nat /\ n > Len(request) /\ Len(request) \in Nat
  BY DEF IdInv, Requests, n
<1>2. ASSUME NEW r \in Requests
      PROVE  /\ request'[r].domain \in 0..r
             /\ request'[r].domain # 0 =>
                   request'[request'[r].domain].root
             /\ request'[r].root =>
                   request'[r].domain = r /\ request'[r].parent = 0
             /\ request'[r].parent # 0 =>
                   request'[r].top = request'[request'[r].parent].top
  <2>1. /\ request'[r] = request[r]
        /\ request[r].parent # 0 => request[r].parent \in Requests
        /\ request[r].domain # 0 => request[r].domain \in Requests
    <3>1. r \in Nat /\ r <= Len(request)
      BY <1>0 DEF Requests
    <3>2. request[r].domain \in 0..r /\ request[r].parent \in 0..(r - 1)
      BY DEF ShapeInv, IdInv, TreeInv, NodeInv
    <3> QED BY <1>0, <1>1, <3>1, <3>2 DEF Requests
  <2> QED BY <1>1, <2>1 DEF ShapeInv
<1>3. /\ request'[n].domain \in 0..n
      /\ request'[n].domain # 0 => request'[request'[n].domain].root
      /\ request'[n].root => request'[n].domain = n /\ request'[n].parent = 0
      /\ request'[n].parent # 0 =>
            request'[n].top = request'[request'[n].parent].top
  <2>1. d \in 0..n
    BY <1>0, <1>1 DEF Requests
  <2>2. d # 0 => request'[d].root
    BY <1>1
  <2> QED BY <1>1, <2>1, <2>2
<1>4. \A i \in 1..Len(stack') : request'[stack'[i]].root
  <2>1. stack \in Seq(Requests)
    BY DEF TypeOK
  <2>2. \A i \in 1..Len(stack) : request'[stack[i]].root
    BY <1>1, <2>1 DEF ShapeInv
  <2>3. CASE root
    <3>1. stack' = Append(stack, n) /\ request'[n].root
      BY <1>1, <2>3
    <3> QED BY <2>1, <2>2, <3>1
  <2>4. CASE ~root
    BY <1>1, <2>2, <2>4
  <2> QED BY <2>3, <2>4
<1>5. \A e \in Number : e > Len(request') => currentRequest'[e] = 0
  <2> SUFFICES ASSUME NEW e \in Number, e > n PROVE currentRequest'[e] = 0
    BY <1>1
  <2>1. e \in Nat /\ e > Len(request)
    BY <1>0, <1>1 DEF Number, n
  <2>2. currentRequest[e] = 0
    BY <2>1 DEF ShapeInv
  <2>3. e # d
    BY <1>0, <1>1, <2>1 DEF Requests
  <2> QED BY <1>1, <2>2, <2>3 DEF IdInv
<1> QED BY <1>1, <1>2, <1>3, <1>4, <1>5 DEF ShapeInv

LEMMA ShapeStop ==
    ASSUME TypeOK, IdInv, ShapeInv, NEW r \in Requests, Stop(r)
    PROVE  ShapeInv'
<1>1. /\ UNCHANGED request /\ Requests' = Requests
      /\ Domain # 0 => Domain \in Number /\ Domain \in Requests
      /\ currentRequest' =
            IF Domain = 0 THEN currentRequest
            ELSE [currentRequest EXCEPT ![Domain] = request[r].parent]
      /\ stack' = IF Domain # 0 /\ request[r].parent = 0
                  THEN SubSeq(stack, 1, Len(stack) - 1) ELSE stack
  BY StopFacts
<1>2. \A i \in 1..Len(stack') : request[stack'[i]].root
  <2>1. stack \in Seq(Requests)
    BY DEF TypeOK
  <2>2. CASE Domain # 0 /\ request[r].parent = 0
    <3>1. stack # <<>> /\ stack' = SubSeq(stack, 1, Len(stack) - 1)
      BY <1>1, <2>2 DEF Domain
    <3>2. \A i \in 1..Len(stack') : i \in 1..Len(stack) /\ stack'[i] = stack[i]
      BY <2>1, <3>1
    <3> QED BY <3>2 DEF ShapeInv
  <2>3. CASE ~(Domain # 0 /\ request[r].parent = 0)
    BY <1>1, <2>3 DEF ShapeInv
  <2> QED BY <2>2, <2>3
<1>3. \A e \in Number : e > Len(request) => currentRequest'[e] = 0
  <2> SUFFICES ASSUME NEW e \in Number, e > Len(request)
               PROVE  currentRequest'[e] = 0
    OBVIOUS
  <2>1. currentRequest[e] = 0
    BY DEF ShapeInv
  <2>2. e # Domain
    <3>1. Len(request) \in Nat
      BY DEF IdInv
    <3>2. Domain = 0 \/ Domain \in 1..Len(request)
      BY <1>1 DEF Requests
    <3> QED BY <3>1, <3>2 DEF Number
  <2> QED BY <1>1, <2>1, <2>2 DEF IdInv
<1> QED BY <1>1, <1>2, <1>3 DEF ShapeInv

LEMMA ShapeStep ==
    TypeOK /\ IdInv /\ ShapeInv /\ [Next]_vars => ShapeInv'
<1> SUFFICES ASSUME TypeOK, IdInv, ShapeInv, [Next]_vars PROVE ShapeInv'
  OBVIOUS
<1>1. ASSUME NEW d \in {0} \cup {r \in Requests : request[r].root},
             BeginTurn(d)
      PROVE  ShapeInv'
  <2>1. \A i \in 1..Len(stack') : request[stack'[i]].root
    <3>1. CASE d = 0
      BY <1>1, <3>1 DEF BeginTurn
    <3>2. CASE d # 0
      <4>1. request[d].root /\ stack' = <<d>>
        BY <1>1, <3>2 DEF BeginTurn
      <4> QED BY <4>1
    <3> QED BY <3>1, <3>2
  <2> QED BY <1>1, <2>1 DEF BeginTurn, ShapeInv, Requests
<1>2. CASE EndTurn
  <2>1. \A i \in 1..Len(stack') : request[stack'[i]].root
    BY <1>2 DEF EndTurn
  <2> QED BY <1>2, <2>1 DEF EndTurn, ShapeInv, Requests
<1>3. CASE UNCHANGED vars
  BY <1>3 DEF vars, ShapeInv, Requests
<1> QED BY <1>1, <1>2, <1>3, ShapeStart, ShapeStop DEF Next

(* A closed set of requests with the top of an active one holds it.        *)
LEMMA Reached ==
    ASSUME TypeOK, HomeInv, NEW q \in active, NEW S \in SUBSET Requests,
           request[q].top \in S,
           \A c \in active : request[c].parent \in S => c \in S
    PROVE  q \in S
<1>1. request[q].top \in Requests
  OBVIOUS
<1>2. q \in StoppedWith(request[q].top)
  BY DEF HomeInv
<1> QED BY <1>1, <1>2, StoppedFacts

(* A new request hangs on the current request of its domain.               *)
LEMMA HomeStart ==
    ASSUME TypeOK, TypeOK', IdInv, IdInv', ShapeInv, HomeInv, ~foreign,
           CurrentIsActive, RootKeepsItsTree,
           NEW root \in BOOLEAN, NEW typed \in BOOLEAN, Start(root, typed)
    PROVE  HomeInv'
<1> DEFINE n == Len(request) + 1
           d == DomainOf(n, root)
           p == IF d = 0 THEN 0 ELSE currentRequest[d]
<1>1. /\ n \in Number /\ n \in Nat /\ n \notin Requests
      /\ Requests' = Requests \cup {n} /\ Len(request') = n
      /\ \A r \in Requests : request'[r] = request[r]
      /\ request'[n].parent = p /\ request'[n].domain = d
      /\ request'[n].root = root
      /\ request'[n].top = IF p = 0 THEN n ELSE request[p].top
      /\ IF root THEN d = n /\ p = 0
         ELSE d = 0 \/ (d \in Requests /\ request[d].root)
      /\ p # 0 => p \in Requests /\ d # 0 /\ p = currentRequest[d]
      /\ active' = active \cup {n}
  BY StartFacts
<1> HIDE DEF n, d, p
<1>0. /\ active \subseteq Requests /\ Requests \subseteq Number
      /\ Requests \subseteq Nat /\ 0 \notin Requests
      /\ n > Len(request) /\ Len(request) \in Nat
  <2>1. active \subseteq Requests
    BY DEF TypeOK
  <2>2. Requests \subseteq Number
    BY RequestConstants DEF IdInv, Requests, Number
  <2>3. Requests \subseteq Nat /\ 0 \notin Requests
    BY DEF IdInv, Requests
  <2>4. n > Len(request) /\ Len(request) \in Nat
    BY DEF IdInv, n
  <2> QED BY <2>1, <2>2, <2>3, <2>4
<1>2. p # 0 => p \in active /\ request[p].domain = d
  <2> SUFFICES ASSUME p # 0 PROVE p \in active /\ request[p].domain = d
    OBVIOUS
  <2>1. d \in Number /\ p = currentRequest[d]
    BY <1>0, <1>1
  <2> QED BY <2>1 DEF CurrentIsActive
<1>3. ASSUME NEW r \in Requests
      PROVE  /\ request[r].parent # 0 => request[r].parent \in Requests
             /\ request[r].domain # 0 => request[r].domain \in Requests
             /\ request[r].top \in Requests
  <2>1. r \in Nat /\ r <= Len(request)
    BY <1>0 DEF Requests
  <2>2. /\ request[r].domain \in 0..r /\ request[r].parent \in 0..(r - 1)
        /\ request[r].top \in 1..r
    BY DEF ShapeInv, IdInv, TreeInv, NodeInv
  <2> QED BY <1>0, <2>1, <2>2 DEF Requests
<1>4. ASSUME NEW r \in Requests
      PROVE  /\ request'[r].parent # 0 =>
                   request'[r].domain = request'[request'[r].parent].domain
             /\ request'[r].domain \in active' =>
                   request'[r].top = request'[r].domain
  <2>1. request'[r] = request[r]
    BY <1>1
  <2>2. request[r].domain \in active' => request[r].domain \in active
    <3>1. request[r].domain # n
      BY <1>0, <1>1, <1>3
    <3> QED BY <1>1, <3>1
  <2> QED BY <1>1, <1>3, <2>1, <2>2 DEF HomeInv
<1>5. p # 0 => d = request'[p].domain
  BY <1>1, <1>2
<1>6. d \in active' => request'[n].top = d
  <2>1. CASE root
    BY <1>1, <2>1
  <2>2. CASE ~root /\ d \in active'
    <3>1. d \in active /\ request[d].root
      BY <1>0, <1>1, <2>2
    <3>2. currentRequest[d] # 0 /\ request[currentRequest[d]].top = d
      BY <3>1 DEF RootKeepsItsTree
    <3>3. p = currentRequest[d]
      BY <1>0, <3>1 DEF p
    <3> QED BY <1>1, <3>2, <3>3
  <2> QED BY <2>1, <2>2
<1>7. ASSUME NEW q \in active'
      PROVE  request'[q].parent # 0 => request'[q].parent \in active'
  <2>1. CASE q = n
    BY <1>1, <1>2, <2>1
  <2>2. CASE q \in active
    BY <1>0, <1>1, <2>2 DEF HomeInv
  <2> QED BY <1>1, <2>1, <2>2
<1>8. ASSUME NEW q \in active', NEW S \in SUBSET Requests',
             request'[q].top \in S,
             \A c \in active' : request'[c].parent \in S => c \in S
      PROVE  q \in S
  <2> DEFINE T == S \cap Requests
  <2>1. ASSUME NEW c \in active, request[c].parent \in T PROVE c \in T
    <3>1. c \in Requests /\ c \in active' /\ request'[c] = request[c]
      BY <1>0, <1>1
    <3> QED BY <1>8, <2>1, <3>1
  <2>2. ASSUME NEW c \in active, request[c].top \in S PROVE c \in S
    <3>1. c \in Requests
      BY <1>0
    <3>2. request[c].top \in T
      BY <1>3, <2>2, <3>1
    <3>3. T \in SUBSET Requests
      OBVIOUS
    <3> HIDE DEF T
    <3>4. c \in T
      BY <2>1, <3>2, <3>3, Reached
    <3> QED BY <3>4 DEF T
  <2>3. CASE q \in active
    <3>1. request'[q] = request[q]
      BY <1>0, <1>1, <2>3
    <3> QED BY <1>8, <2>2, <2>3, <3>1
  <2>4. CASE q = n /\ p = 0
    BY <1>1, <1>8, <2>4
  <2>5. CASE q = n /\ p # 0
    <3>1. p \in S
      BY <1>1, <1>2, <1>8, <2>2, <2>5
    <3> QED BY <1>1, <1>8, <2>5, <3>1
  <2> QED BY <1>1, <2>3, <2>4, <2>5
<1>9. ASSUME NEW q \in active' PROVE q \in StoppedWith(request[q].top)'
  <2>1. q \in Requests'
    BY <1>0, <1>1
  <2>2. \A S \in SUBSET Requests' :
           request'[q].top \in S
           /\ (\A c \in active' : request'[c].parent \in S => c \in S)
              => q \in S
    BY <1>8, Zenon
  <2> QED BY <2>1, <2>2, Zenon DEF StoppedWith
<1>10. \A q \in Requests' :
          /\ request'[q].parent # 0 =>
                request'[q].domain = request'[request'[q].parent].domain
          /\ request'[q].domain \in active' =>
                request'[q].top = request'[q].domain
  BY <1>1, <1>4, <1>5, <1>6
<1> QED BY <1>7, <1>9, <1>10, Zenon DEF HomeInv

(* What is left active hangs on what is left, and its tops still reach it. *)
LEMMA HomeStop ==
    ASSUME TypeOK, IdInv, ShapeInv, HomeInv, NEW r \in Requests, Stop(r)
    PROVE  HomeInv'
<1> DEFINE W == StoppedWith(r)
<1>1. /\ active' = active \ W /\ UNCHANGED request /\ Requests' = Requests
      /\ active \subseteq Requests
  BY StopFacts DEF TypeOK
<1>2. /\ W \subseteq Requests
      /\ \A c \in active : request[c].parent \in W => c \in W
  BY StoppedFacts
<1> HIDE DEF W
<1>3. ASSUME NEW q \in active'
      PROVE  request[q].parent # 0 => request[q].parent \in active'
  BY <1>1, <1>2, <1>3 DEF HomeInv
<1>4. ASSUME NEW q \in active', NEW S \in SUBSET Requests,
             request[q].top \in S,
             \A c \in active' : request[c].parent \in S => c \in S
      PROVE  q \in S
  <2> DEFINE T == S \cup W
  <2>1. ASSUME NEW c \in active, request[c].parent \in T PROVE c \in T
    BY <1>1, <1>2, <1>4, <2>1
  <2>2. T \in SUBSET Requests /\ request[q].top \in T /\ q \in active
    BY <1>1, <1>2, <1>4
  <2> HIDE DEF T
  <2>3. q \in T
    BY <2>1, <2>2, Reached
  <2> QED BY <1>1, <1>4, <2>3 DEF T
<1>5. ASSUME NEW q \in active' PROVE q \in StoppedWith(request[q].top)'
  <2>1. q \in Requests
    BY <1>1
  <2>2. \A S \in SUBSET Requests :
           request[q].top \in S
           /\ (\A c \in active' : request[c].parent \in S => c \in S)
              => q \in S
    BY <1>4, Zenon
  <2> QED BY <1>1, <2>1, <2>2, Zenon DEF StoppedWith
<1>6. \A q \in Requests' :
         /\ request'[q].parent # 0 =>
               request'[q].domain = request'[request'[q].parent].domain
         /\ request'[q].domain \in active' =>
               request'[q].top = request'[q].domain
  BY <1>1 DEF HomeInv
<1>7. \A q \in active' : /\ request'[q].parent # 0 =>
                               request'[q].parent \in active'
                         /\ q \in StoppedWith(request[q].top)'
  BY <1>1, <1>3, <1>5
<1> QED BY <1>6, <1>7, Zenon DEF HomeInv

(* The four properties and startRequest: the new request joins a tree      *)
(* whose current request is active, and so has not been reported.          *)
LEMMA TreesStart ==
    ASSUME TypeOK, TypeOK', IdInv, ShapeInv, HomeInv, ReportInv, ~foreign,
           EmittedIsOver, CurrentIsActive, RootKeepsItsTree,
           EveryRootEmitted,
           NEW root \in BOOLEAN, NEW typed \in BOOLEAN, Start(root, typed)
    PROVE  /\ EmittedIsOver' /\ CurrentIsActive' /\ RootKeepsItsTree'
           /\ EveryRootEmitted'
<1> DEFINE n == Len(request) + 1
           d == DomainOf(n, root)
           p == IF d = 0 THEN 0 ELSE currentRequest[d]
<1>1. /\ n \in Number /\ n \in Nat /\ n \notin Requests
      /\ Requests' = Requests \cup {n} /\ Len(request') = n
      /\ \A r \in Requests : request'[r] = request[r]
      /\ request'[n].parent = p /\ request'[n].domain = d
      /\ request'[n].root = root
      /\ request'[n].top = IF p = 0 THEN n ELSE request[p].top
      /\ IF root THEN d = n /\ p = 0
         ELSE d = 0 \/ (d \in Requests /\ request[d].root)
      /\ p # 0 => p \in Requests /\ d # 0 /\ p = currentRequest[d]
      /\ active' = active \cup {n} /\ emitted' = emitted
      /\ currentRequest' = IF d = 0 THEN currentRequest
                           ELSE [currentRequest EXCEPT ![d] = n]
  BY StartFacts
<1> HIDE DEF n, d, p
<1>0. /\ active \subseteq Requests /\ Requests \subseteq Number
      /\ Requests \subseteq Nat /\ 0 \notin Requests
      /\ currentRequest \in [Number -> 0..Len(request)]
      /\ \A i \in 1..Len(emitted) : emitted[i] \in Requests
  <2>1. active \subseteq Requests
    BY DEF TypeOK
  <2>2. Requests \subseteq Number
    BY RequestConstants DEF IdInv, Requests, Number
  <2>3. Requests \subseteq Nat /\ 0 \notin Requests
    BY DEF IdInv, Requests
  <2>4. \A i \in 1..Len(emitted) : emitted[i] \in Requests
    BY DEF ReportInv
  <2> QED BY <2>1, <2>2, <2>3, <2>4 DEF IdInv
<1>2. /\ d # 0 => d \in Number
      /\ p # 0 => p \in active
  <2>1. d # 0 => d \in Number
    BY <1>0, <1>1
  <2> QED BY <1>1, <2>1 DEF CurrentIsActive
<1>3. \A e \in Number :
         /\ e = d => currentRequest'[e] = n
         /\ e # d => currentRequest'[e] = currentRequest[e]
  <2>1. d = 0 => d \notin Number
    BY DEF Number
  <2> QED BY <1>0, <1>1, <1>2, <2>1
<1>4. EmittedIsOver'
  <2> SUFFICES ASSUME NEW i \in 1..Len(emitted), NEW r \in active'
               PROVE  request'[r].top # emitted[i]
    BY <1>1 DEF EmittedIsOver
  <2>1. CASE r \in active
    BY <1>0, <1>1, <2>1 DEF EmittedIsOver
  <2>2. CASE r = n /\ p = 0
    BY <1>0, <1>1, <2>2
  <2>3. CASE r = n /\ p # 0
    <3>1. p \in active /\ request'[r].top = request[p].top
      BY <1>1, <1>2, <2>3
    <3> QED BY <3>1 DEF EmittedIsOver
  <2> QED BY <1>1, <2>1, <2>2, <2>3
<1>5. CurrentIsActive'
  <2> SUFFICES ASSUME NEW e \in Number, currentRequest'[e] # 0
               PROVE  /\ currentRequest'[e] \in active'
                      /\ request'[currentRequest'[e]].domain = e
    BY DEF CurrentIsActive
  <2>1. CASE e = d
    <3>1. currentRequest'[e] = n
      BY <1>3, <2>1
    <3>2. n \in active' /\ request'[n].domain = e
      BY <1>1, <2>1
    <3> QED BY <3>1, <3>2
  <2>2. CASE e # d
    <3>1. currentRequest'[e] = currentRequest[e]
      BY <1>3, <2>2
    <3>2. currentRequest[e] \in active /\ request[currentRequest[e]].domain = e
      BY <3>1 DEF CurrentIsActive
    <3> QED BY <1>0, <1>1, <3>1, <3>2
  <2> QED BY <2>1, <2>2
<1>6. RootKeepsItsTree'
  <2> SUFFICES ASSUME NEW e \in active', request'[e].root
               PROVE  /\ currentRequest'[e] # 0
                      /\ request'[currentRequest'[e]].top = e
    BY DEF RootKeepsItsTree
  <2>1. CASE e = n
    <3>1. d = n /\ p = 0
      BY <1>1, <2>1
    <3>2. currentRequest'[e] = n
      BY <1>1, <1>3, <2>1, <3>1
    <3>3. n # 0 /\ request'[n].top = n
      BY <1>1, <3>1 DEF Number
    <3> QED BY <2>1, <3>2, <3>3
  <2>2. CASE e \in active
    <3>1. /\ e \in Number /\ request[e].root
          /\ currentRequest[e] # 0 /\ request[currentRequest[e]].top = e
      BY <1>0, <1>1, <2>2 DEF RootKeepsItsTree
    <3>2. currentRequest[e] \in Requests
      BY <1>0, <3>1 DEF CurrentIsActive
    <3>3. CASE e = d
      <4>1. p = currentRequest[e]
        BY <1>0, <2>2, <3>3 DEF p
      <4>2. currentRequest'[e] = n
        BY <1>3, <3>1, <3>3
      <4>3. n # 0 /\ request'[n].top = e
        BY <1>1, <3>1, <4>1 DEF Number
      <4> QED BY <4>2, <4>3
    <3>4. CASE e # d
      BY <1>1, <1>3, <3>1, <3>2, <3>4
    <3> QED BY <3>3, <3>4
  <2> QED BY <1>1, <2>1, <2>2
<1>7. EveryRootEmitted'
  <2> SUFFICES ASSUME NEW r \in Requests' \ active', request'[r].root
               PROVE  \E i \in 1..Len(emitted) : emitted[i] = r
    BY <1>1 DEF EveryRootEmitted
  <2>1. r \in Requests \ active /\ request[r].root
    BY <1>1
  <2> QED BY <2>1 DEF EveryRootEmitted
<1> QED BY <1>4, <1>5, <1>6, <1>7

(* The four properties and stop() at home: all of the tree below the       *)
(* request stops with it, and nothing else, and only the root of a domain  *)
(* leaves it.                                                              *)
LEMMA TreesStop ==
    ASSUME TypeOK, IdInv, ShapeInv, HomeInv, ReportInv,
           EmittedIsOver, CurrentIsActive, RootKeepsItsTree,
           EveryRootEmitted, ~foreign,
           NEW r \in Requests, Stop(r), ~foreign'
    PROVE  /\ EmittedIsOver' /\ CurrentIsActive' /\ RootKeepsItsTree'
           /\ EveryRootEmitted'
<1> DEFINE W == StoppedWith(r)
           d == request[r].domain
           p == request[r].parent
<1>1. /\ active' = active \ W /\ UNCHANGED request /\ Requests' = Requests
      /\ active \subseteq Requests /\ r \in active /\ r \in W
      /\ d = Domain /\ (d # 0 => d \in Number)
      /\ currentRequest' = IF d = 0 THEN currentRequest
                           ELSE [currentRequest EXCEPT ![d] = p]
      /\ emitted' = IF d # 0 /\ p = 0 THEN Append(emitted, r) ELSE emitted
  BY StopFacts, StoppedFacts DEF TypeOK
<1>2. \A c \in W : /\ c >= r /\ request[c].domain = d
                   /\ request[c].root => c = r
  BY StoppedBelow
<1>3. W = StoppedWith(r) /\ d = request[r].domain /\ p = request[r].parent
  OBVIOUS
<1> HIDE DEF W, d, p
<1>4. /\ p \in 0..(r - 1) /\ r \in Nat /\ r # 0
      /\ p # 0 => p \in active' /\ request[p].domain = d
                  /\ request[r].top = request[p].top
      /\ p = 0 <=> request[r].top = r
  <2>1. r \in Nat /\ r # 0
    BY DEF Requests, IdInv
  <2>2. p \in 0..(r - 1) /\ (p = 0 <=> request[r].top = r)
    BY <1>3 DEF IdInv, TreeInv, NodeInv
  <2>3. p # 0 => p \in active /\ request[p].domain = d
                 /\ request[r].top = request[p].top
    BY <1>1, <1>3 DEF HomeInv, ShapeInv
  <2>4. p \notin W
    BY <1>2, <2>1, <2>2
  <2> QED BY <1>1, <2>1, <2>2, <2>3, <2>4
<1>5. \A e \in Number :
         /\ e = d => currentRequest'[e] = p
         /\ e # d => currentRequest'[e] = currentRequest[e]
  <2>1. d = 0 => d \notin Number
    BY DEF Number
  <2> QED BY <1>1, <2>1 DEF IdInv
<1>6. emitted \in Seq(Requests)
  BY DEF ReportInv
<1>7. EmittedIsOver'
  <2> SUFFICES ASSUME NEW i \in 1..Len(emitted'), NEW q \in active'
               PROVE  request[q].top # emitted'[i]
    BY <1>1 DEF EmittedIsOver
  <2>1. CASE i \in 1..Len(emitted)
    <3>1. emitted'[i] = emitted[i]
      BY <1>1, <1>6, <2>1
    <3>2. q \in active
      BY <1>1
    <3> QED BY <2>1, <3>1, <3>2 DEF EmittedIsOver
  <2>2. CASE i \notin 1..Len(emitted)
    <3>1. emitted'[i] = r
      BY <1>1, <1>6, <2>2
    <3>2. q \in StoppedWith(request[q].top) /\ q \notin W
      BY <1>1 DEF HomeInv
    <3> QED BY <1>3, <3>1, <3>2
  <2> QED BY <2>1, <2>2
<1>8. CurrentIsActive'
  <2> SUFFICES ASSUME NEW e \in Number, currentRequest'[e] # 0
               PROVE  /\ currentRequest'[e] \in active'
                      /\ request[currentRequest'[e]].domain = e
    BY <1>1 DEF CurrentIsActive
  <2>1. CASE e = d
    BY <1>4, <1>5, <2>1
  <2>2. CASE e # d
    <3>1. currentRequest'[e] = currentRequest[e]
      BY <1>5, <2>2
    <3>2. currentRequest[e] \in active /\ request[currentRequest[e]].domain = e
      BY <3>1 DEF CurrentIsActive
    <3>3. currentRequest[e] \notin W
      BY <1>2, <2>2, <3>2
    <3> QED BY <1>1, <3>1, <3>2, <3>3
  <2> QED BY <2>1, <2>2
<1>9. RootKeepsItsTree'
  <2> SUFFICES ASSUME NEW e \in active', request[e].root
               PROVE  /\ currentRequest'[e] # 0
                      /\ request[currentRequest'[e]].top = e
    BY <1>1 DEF RootKeepsItsTree
  <2>1. e \in active /\ e \notin W /\ e # r
    BY <1>1
  <2>2. e \in Number
    <3>1. Requests \subseteq Number
      BY RequestConstants DEF IdInv, Requests, Number
    <3> QED BY <1>1, <2>1, <3>1
  <2>3. CASE e = d
    <3>1. request[r].top = e
      BY <1>3, <2>1, <2>3 DEF HomeInv
    <3>2. p # 0 /\ request[p].top = e
      BY <1>4, <2>1, <3>1
    <3> QED BY <1>5, <2>2, <2>3, <3>2
  <2>4. CASE e # d
    <3>1. currentRequest[e] # 0 /\ request[currentRequest[e]].top = e
      BY <2>1 DEF RootKeepsItsTree
    <3> QED BY <1>5, <2>2, <2>4, <3>1
  <2> QED BY <2>3, <2>4
<1>10. EveryRootEmitted'
  <2> SUFFICES ASSUME NEW q \in Requests \ active', request[q].root
               PROVE  \E i \in 1..Len(emitted') : emitted'[i] = q
    BY <1>1 DEF EveryRootEmitted
  <2>1. CASE q \notin active
    <3>1. PICK i \in 1..Len(emitted) : emitted[i] = q
      BY <2>1 DEF EveryRootEmitted
    <3>2. i \in 1..Len(emitted') /\ emitted'[i] = q
      BY <1>1, <1>6, <3>1
    <3> QED BY <3>2
  <2>2. CASE q \in active
    <3>1. q = r
      BY <1>1, <1>2, <2>2
    <3>2. d # 0 /\ p = 0
      BY <1>3, <1>4, <3>1 DEF ShapeInv
    <3>3. emitted' = Append(emitted, r)
      BY <1>1, <3>2
    <3>4. /\ Len(emitted) + 1 \in 1..Len(emitted')
          /\ emitted'[Len(emitted) + 1] = r
      BY <1>6, <3>3
    <3> QED BY <3>1, <3>4
  <2> QED BY <2>1, <2>2
<1> QED BY <1>7, <1>8, <1>9, <1>10

LEMMA TreesStep ==
    TypeOK /\ TypeOK' /\ IdInv /\ IdInv' /\ ReportInv /\ TreesInv
        /\ [Next]_vars => TreesInv'
<1> SUFFICES ASSUME TypeOK, TypeOK', IdInv, IdInv', ReportInv, TreesInv,
                    [Next]_vars
             PROVE  TreesInv'
  OBVIOUS
<1>1. ShapeInv'
  BY ShapeStep DEF TreesInv
<1>2. CASE UNCHANGED <<request, active, currentRequest, emitted, foreign>>
  <2>1. Requests' = Requests
    BY <1>2 DEF Requests
  <2>2. foreign \/ HomeInv'
    BY <1>2, <2>1 DEF TreesInv, HomeInv, StoppedWith
  <2>3. EmittedIsOver' /\ CurrentIsActive'
    BY <1>2, <2>1 DEF TreesInv, EmittedIsOver, CurrentIsActive
  <2>4. RootKeepsItsTree' /\ EveryRootEmitted'
    BY <1>2, <2>1 DEF TreesInv, RootKeepsItsTree, EveryRootEmitted
  <2> QED BY <1>1, <1>2, <2>2, <2>3, <2>4 DEF TreesInv
<1>3. CASE foreign'
  BY <1>1, <1>3
     DEF TreesInv, EmittedIsOver, CurrentIsActive, RootKeepsItsTree,
         EveryRootEmitted
<1>4. ASSUME NEW root \in BOOLEAN, NEW typed \in BOOLEAN, Start(root, typed),
             ~foreign'
      PROVE  TreesInv'
  <2>1. ~foreign
    BY <1>4 DEF Start
  <2>2. HomeInv'
    BY <1>4, <2>1, HomeStart DEF TreesInv
  <2>3. /\ EmittedIsOver' /\ CurrentIsActive' /\ RootKeepsItsTree'
        /\ EveryRootEmitted'
    BY <1>4, <2>1, TreesStart DEF TreesInv
  <2> QED BY <1>1, <2>2, <2>3 DEF TreesInv
<1>5. ASSUME NEW r \in Requests, Stop(r), ~foreign'
      PROVE  TreesInv'
  <2>1. ~foreign
    BY <1>5 DEF Stop
  <2>2. HomeInv'
    BY <1>5, <2>1, HomeStop DEF TreesInv
  <2>3. /\ EmittedIsOver' /\ CurrentIsActive' /\ RootKeepsItsTree'
        /\ EveryRootEmitted'
    BY <1>5, <2>1, TreesStop DEF TreesInv
  <2> QED BY <1>1, <2>2, <2>3 DEF TreesInv
<1>6. ASSUME NEW d \in {0} \cup {r \in Requests : request[r].root},
             BeginTurn(d)
      PROVE  TreesInv'
  BY <1>2, <1>6 DEF BeginTurn
<1>7. CASE EndTurn
  BY <1>2, <1>7 DEF EndTurn
<1>8. CASE UNCHANGED vars
  BY <1>2, <1>8 DEF vars
<1> QED BY <1>3, <1>4, <1>5, <1>6, <1>7, <1>8 DEF Next

LEMMA TreesInit == Init => TreesInv
<1> SUFFICES ASSUME Init PROVE TreesInv
  OBVIOUS
<1>1. Requests = {} /\ active = {} /\ Len(stack) = 0 /\ Len(emitted) = 0
  BY DEF Init, Requests
<1>2. \A d \in Number : currentRequest[d] = 0
  BY DEF Init
<1> QED BY <1>1, <1>2
        DEF TreesInv, ShapeInv, HomeInv, EmittedIsOver, CurrentIsActive,
            RootKeepsItsTree, EveryRootEmitted

LEMMA TreesInvariant == Spec => []TreesInv
<1>1. Init => TypeOK /\ IdInv /\ ReportInv
  BY IdInvInit, TypeInit DEF Init, ReportInv, EmittedOnce, Requests
<1>2. Init => TreesInv
  BY TreesInit
<1>3. TypeOK /\ IdInv /\ ReportInv /\ TreesInv /\ [Next]_vars
        => TypeOK' /\ IdInv' /\ ReportInv' /\ TreesInv'
  BY IdInvStep, TypeStep, ReportInvStep, TreesStep
<1> QED BY <1>1, <1>2, <1>3, PTL DEF Spec

(* As long as every request is stopped in the domain it was started in:    *)
(* nothing is active in the tree of a request that has been reported.      *)
THEOREM ReportedIsOver == Spec => []EmittedIsOver
<1>1. TreesInv => EmittedIsOver
  BY DEF TreesInv
<1> QED BY <1>1, TreesInvariant, PTL

(* A request never becomes the child of one that has stopped, or of one    *)
(* that was started in another domain.                                     *)
THEOREM ParentsAreActive == Spec => []CurrentIsActive
<1>1. TreesInv => CurrentIsActive
  BY DEF TreesInv
<1> QED BY <1>1, TreesInvariant, PTL

(* What is started in the domain of an active root hangs in its tree.      *)
THEOREM RootsKeepTheirTrees == Spec => []RootKeepsItsTree
<1>1. TreesInv => RootKeepsItsTree
  BY DEF TreesInv
<1> QED BY <1>1, TreesInvariant, PTL

(* A root request that has stopped has been reported.                      *)
THEOREM RootsAreReported == Spec => []EveryRootEmitted
<1>1. TreesInv => EveryRootEmitted
  BY DEF TreesInv
<1> QED BY <1>1, TreesInvariant, PTL

-----------------------------------------------------------------------------
(* What the operations of ProbeCalls have in common: only what the loop    *)
(* calls gets a domain or shares its probeData, and a shared call ends     *)
(* when it returns.                                                        *)
Sound(op) ==
    /\ op.root \in BOOLEAN /\ op.traced \in BOOLEAN
    /\ op.shared \in BOOLEAN /\ op.incoming \in BOOLEAN
    /\ op.timed \in BOOLEAN
    /\ op.root => op.incoming /\ ~op.traced
    /\ op.shared => /\ op.incoming /\ ~op.traced
                    /\ op.until = "return" /\ op.throws = "none"
    /\ op.throws = "start" => ~op.traced

(* A stack with one element more, and without its top.                     *)
LEMMA Pushed ==
    ASSUME NEW S, NEW s \in Seq(S), NEW e \in S
    PROVE  Append(s, e) \in Seq(S)
OBVIOUS

LEMMA Popped ==
    ASSUME NEW S, NEW s \in Seq(S), s # <<>>
    PROVE  SubSeq(s, 1, Len(s) - 1) \in Seq(S)
OBVIOUS

LEMMA OpFacts == \A op \in Ops : Sound(op)
<1> SUFFICES ASSUME NEW op \in AllOps PROVE Sound(op)
  BY CallConstants
<1>1. ASSUME NEW until, op = Operation(until)
      PROVE  Sound(op)
  BY <1>1 DEF Sound, Operation
<1>2. CASE op \in {HttpOutbound, HttpsOutbound, Memcached, MongoMethod,
                   OracleDB, StrongOracle, Redis, Riak, AxonSend, MqttPublish,
                   MQLightSend, StrongMQPublish}
  <2>1. op = Operation("either")
    BY <1>2 DEF HttpOutbound, HttpsOutbound, Memcached, MongoMethod, OracleDB,
                StrongOracle, Redis, Riak, AxonSend, MqttPublish, MQLightSend,
                StrongMQPublish, Around
  <2> QED BY <1>1, <2>1
<1>3. CASE op \in {MySql, Postgres}
  <2>1. op = Operation("callback")
    BY <1>3 DEF MySql, Postgres, Before
  <2> QED BY <1>1, <2>1
<1>4. CASE op \in {MongoFind, SocketioEmit}
  BY <1>1, <1>4, Zenon DEF MongoFind, SocketioEmit
<1>5. CASE op \in {AxonOn("message"), AxonOn("other"), MqttMessage,
                   MQLightMessage, StrongMQMessage, SocketioReceive}
  <2>1. ASSUME NEW root \in BOOLEAN, op = Listener(root)
        PROVE  Sound(op)
    BY <2>1 DEF Sound, Listener, Operation
  <2>2. op = Listener(TRUE) \/ op = Listener(FALSE)
    BY <1>5 DEF AxonOn, MqttMessage, MQLightMessage, StrongMQMessage,
                SocketioReceive
  <2> QED BY <2>1, <2>2
<1>6. CASE op \in {Http, Https}
  <2>1. op = Server
    BY <1>6 DEF Http, Https
  <2> QED BY <2>1 DEF Sound, Server, Operation
<1>7. CASE op \in {Loopback, Leveldown}
  BY <1>7 DEF Sound, Loopback, Leveldown, Before, Operation
<1>8. CASE op = Oracle
  BY <1>8 DEF Sound, Oracle, Around, Operation
<1>9. CASE op = TraceMethod
  BY <1>9 DEF Sound, TraceMethod, Around, Operation
<1> QED BY <1>2, <1>3, <1>4, <1>5, <1>6, <1>7, <1>8, <1>9, Zenon DEF AllOps

-----------------------------------------------------------------------------
(* Calls act on requests as module Requests says they may: what is proved  *)
(* of requests above holds of those the probes start and stop.             *)
LEMMA CallStep == TypeOK /\ [CallNext]_callVars => [Next]_vars
<1> SUFFICES ASSUME TypeOK, [CallNext]_callVars PROVE [Next]_vars
  OBVIOUS
<1>1. CASE Turn
  BY <1>1 DEF Turn, Next
<1>2. ASSUME NEW op \in Ops, NEW callback \in BOOLEAN, BeginCall(op, callback)
      PROVE  [Next]_vars
  <2>1. Sound(op)
    BY OpFacts
  <2>2. CASE Start(op.root, ~op.traced)
    BY <2>1, <2>2 DEF Sound, Next
  <2>3. CASE UNCHANGED vars
    BY <2>3
  <2> QED BY <1>2, <2>2, <2>3 DEF BeginCall, StartRequest
<1>3. ASSUME NEW c, EndHooks(c)
      PROVE  [Next]_vars
  <2>1. UNCHANGED vars \/ \E r \in active : Stop(r)
    BY <1>3 DEF EndHooks, MayStop
  <2>2. active \subseteq Requests
    BY DEF TypeOK
  <2> QED BY <2>1, <2>2 DEF Next
<1>4. CASE Return
  BY <1>3, <1>4 DEF Return
<1>5. ASSUME NEW c \in 1..Len(call), CallBack(c)
      PROVE  [Next]_vars
  BY <1>3, <1>5 DEF CallBack
<1>6. CASE SwitchMetrics \/ SwitchRequests
  BY <1>6 DEF SwitchMetrics, SwitchRequests
<1>7. CASE UNCHANGED callVars
  BY <1>7 DEF callVars
<1> QED BY <1>1, <1>2, <1>4, <1>5, <1>6, <1>7 DEF CallNext

(* The active requests of a domain are those of one tree, that of its      *)
(* current request: once the top has stopped, none is left.                *)
OneTree ==
    \A r \in active :
        LET d == request[r].domain
        IN  d # 0 => /\ currentRequest[d] # 0
                     /\ request[currentRequest[d]].top = request[r].top

BaseInv ==
    /\ TypeOK /\ IdInv /\ ReportInv /\ TreesInv
    /\ ~foreign => OneTree

LEMMA OneTreeStart ==
    ASSUME TypeOK, IdInv, TreesInv, OneTree, ~foreign,
           NEW root \in BOOLEAN, NEW typed \in BOOLEAN, Start(root, typed)
    PROVE  OneTree'
<1> DEFINE n == Len(request) + 1
           d == DomainOf(n, root)
           p == IF d = 0 THEN 0 ELSE currentRequest[d]
<1>1. /\ n \in Number /\ n \in Nat /\ n \notin Requests
      /\ Requests' = Requests \cup {n}
      /\ \A r \in Requests : request'[r] = request[r]
      /\ request'[n].domain = d
      /\ request'[n].top = IF p = 0 THEN n ELSE request[p].top
      /\ IF root THEN d = n /\ p = 0
         ELSE d = 0 \/ (d \in Requests /\ request[d].root)
      /\ p # 0 => p \in Requests /\ d # 0 /\ p = currentRequest[d]
      /\ active' = active \cup {n}
      /\ currentRequest' = IF d = 0 THEN currentRequest
                           ELSE [currentRequest EXCEPT ![d] = n]
  BY StartFacts DEF TreesInv
<1>2. n # 0 /\ p = IF d = 0 THEN 0 ELSE currentRequest[d]
  BY <1>1 DEF Number
<1> HIDE DEF n, d, p
<1>3. active \subseteq Requests /\ Requests \subseteq Number
  <2>1. Requests \subseteq Number
    BY RequestConstants DEF IdInv, Requests, Number
  <2> QED BY <2>1 DEF TypeOK
<1>4. \A e \in Number :
         /\ e = d => currentRequest'[e] = n
         /\ e # d => currentRequest'[e] = currentRequest[e]
  <2>1. d = 0 => d \notin Number
    BY DEF Number
  <2>2. d # 0 => d \in Number
    BY <1>1, <1>3
  <2> QED BY <1>1, <2>1, <2>2 DEF IdInv
<1>5. ASSUME NEW r \in active
      PROVE  /\ request[r].domain \in Number \cup {0}
             /\ request[r].domain # 0 =>
                   currentRequest[request[r].domain] \in Requests
  <2>1. r \in Number /\ request[r].domain \in 0..r
    BY <1>3 DEF TreesInv, ShapeInv
  <2>2. request[r].domain \in Number \cup {0}
    BY <2>1, RequestConstants DEF Number
  <2>3. CurrentIsActive
    BY DEF TreesInv
  <2> QED BY <1>3, <2>2, <2>3 DEF OneTree, CurrentIsActive
<1> SUFFICES ASSUME NEW r \in active', request'[r].domain # 0
             PROVE  /\ currentRequest'[request'[r].domain] # 0
                    /\ request'[currentRequest'[request'[r].domain]].top
                          = request'[r].top
  BY DEF OneTree
<1>6. CASE r = n
  <2>1. d \in Number
    BY <1>1, <1>3, <1>6
  <2> QED BY <1>1, <1>2, <1>4, <1>6, <2>1
<1>7. CASE r \in active
  <2> DEFINE e == request[r].domain
  <2>1. /\ request'[r] = request[r] /\ e # 0 /\ e \in Number
        /\ currentRequest[e] \in Requests /\ currentRequest[e] # 0
        /\ request[currentRequest[e]].top = request[r].top
    <3>1. r \in Requests
      BY <1>3, <1>7
    <3>2. request'[r] = request[r]
      BY <1>1, <3>1
    <3> QED BY <1>5, <1>7, <3>2 DEF OneTree
  <2> HIDE DEF e
  <2>2. CASE e = d
    <3>1. p = currentRequest[e]
      BY <1>2, <2>1, <2>2
    <3>2. currentRequest'[e] = n /\ request'[n].top = request[r].top
      BY <1>1, <1>4, <2>1, <2>2, <3>1
    <3> QED BY <1>2, <2>1, <3>2 DEF e
  <2>3. CASE e # d
    <3>1. currentRequest'[e] = currentRequest[e]
      BY <1>4, <2>1, <2>3
    <3> QED BY <1>1, <2>1, <3>1 DEF e
  <2> QED BY <2>2, <2>3
<1> QED BY <1>1, <1>6, <1>7

LEMMA OneTreeStop ==
    ASSUME TypeOK, IdInv, TreesInv, OneTree, ~foreign,
           NEW r \in Requests, Stop(r), ~foreign'
    PROVE  OneTree'
<1> DEFINE W == StoppedWith(r)
           d == request[r].domain
           p == request[r].parent
<1>1. /\ active' = active \ W /\ UNCHANGED request
      /\ active \subseteq Requests /\ r \in active /\ r \in W
      /\ d = Domain /\ (d # 0 => d \in Number)
      /\ currentRequest' = IF d = 0 THEN currentRequest
                           ELSE [currentRequest EXCEPT ![d] = p]
  BY StopFacts, StoppedFacts DEF TypeOK, TreesInv
<1>2. W = StoppedWith(r) /\ d = request[r].domain /\ p = request[r].parent
  OBVIOUS
<1> HIDE DEF W, d, p
<1>3. /\ p # 0 => request[p].top = request[r].top
      /\ p = 0 => request[r].top = r
  BY <1>2 DEF TreesInv, ShapeInv, IdInv, TreeInv, NodeInv
<1> SUFFICES ASSUME NEW q \in active', request[q].domain # 0
             PROVE  /\ currentRequest'[request[q].domain] # 0
                    /\ request[currentRequest'[request[q].domain]].top
                          = request[q].top
  BY <1>1 DEF OneTree
<1>4. /\ q \in active /\ q \notin W
      /\ currentRequest[request[q].domain] # 0
      /\ request[currentRequest[request[q].domain]].top = request[q].top
  BY <1>1 DEF OneTree
<1>5. CASE request[q].domain = d
  <2>1. request[q].top = request[r].top
    BY <1>1, <1>2, <1>4, <1>5 DEF OneTree
  <2>2. request[q].top # r
    <3>1. q \in StoppedWith(request[q].top)
      BY <1>4 DEF TreesInv, HomeInv
    <3> QED BY <1>2, <1>4, <3>1
  <2>3. currentRequest'[d] = p
    BY <1>1, <1>5 DEF IdInv
  <2> QED BY <1>3, <1>5, <2>1, <2>2, <2>3
<1>6. CASE request[q].domain # d
  <2>1. currentRequest'[request[q].domain] = currentRequest[request[q].domain]
    BY <1>1, <1>6 DEF IdInv
  <2> QED BY <1>4, <2>1
<1> QED BY <1>5, <1>6

LEMMA BaseStep == BaseInv /\ [Next]_vars => BaseInv'
<1> SUFFICES ASSUME BaseInv, [Next]_vars PROVE BaseInv'
  OBVIOUS
<1>1. TypeOK' /\ IdInv' /\ ReportInv' /\ TreesInv'
  BY IdInvStep, TypeStep, ReportInvStep, TreesStep DEF BaseInv
<1>2. foreign \/ OneTree
  BY DEF BaseInv
<1>3. CASE UNCHANGED <<request, active, currentRequest, foreign>>
  BY <1>1, <1>2, <1>3 DEF BaseInv, OneTree
<1>4. ASSUME NEW root \in BOOLEAN, NEW typed \in BOOLEAN, Start(root, typed)
      PROVE  BaseInv'
  <2>1. foreign' = foreign
    BY <1>4 DEF Start
  <2> QED BY <1>1, <1>2, <1>4, <2>1, OneTreeStart DEF BaseInv
<1>5. ASSUME NEW r \in Requests, Stop(r)
      PROVE  BaseInv'
  <2>1. ~foreign' => ~foreign
    BY <1>5 DEF Stop
  <2> QED BY <1>1, <1>2, <1>5, <2>1, OneTreeStop DEF BaseInv
<1> QED BY <1>3, <1>4, <1>5 DEF Next, BeginTurn, EndTurn, vars

LEMMA BaseInit == Init => BaseInv
BY IdInvInit, TypeInit, TreesInit
   DEF Init, BaseInv, ReportInv, EmittedOnce, OneTree, Requests

(* The requests of the probes are requests of module Requests: a behaviour *)
(* of calls is one of requests.                                            *)
THEOREM CallsTrackRequests == CallSpec => Spec
<1>1. CallInit => Init /\ BaseInv
  BY BaseInit DEF CallInit
<1>2. BaseInv /\ [CallNext]_callVars => [Next]_vars /\ BaseInv'
  BY CallStep, BaseStep DEF BaseInv
<1> QED BY <1>1, <1>2, PTL DEF CallSpec, Spec

-----------------------------------------------------------------------------
Calls == 1..Len(call)

(* What a hook finds in its probeData: the request of its own call, if the *)
(* call does not share it, unless the start hook threw.                    *)
Failed(c) == call[c].op.throws = "start" /\ c \in threw /\ ends[c] = 0

DataInv ==
    /\ \A c \in Calls :
          /\ call[c].data \in 1..c
          /\ call[call[c].data].op = call[c].op
          /\ call[c].op.shared => ~call[c].callback
          /\ call[c].req \in 0..Len(request)
          /\ call[c].req # 0 =>
                request[call[c].req].root = call[c].op.root
          /\ ~call[c].op.shared =>
                /\ call[c].data = c
                /\ probeData[c].req \in {0, call[c].req}
                /\ Failed(c) \/ probeData[c].req = call[c].req
    /\ \A c \in Call \ Calls : ends[c] = 0 /\ probeData[c].req = 0
    /\ \A c, e \in Calls : call[c].req = call[e].req /\ c # e
                              => call[c].req = 0

(* A turn begins and ends without frames, what comes from outside is the   *)
(* outermost one, and what ends when it returns has not ended.             *)
FramesInv ==
    /\ frames # <<>> => inTurn
    /\ \A k \in 1..Len(frames) :
          /\ frames[k] \in Calls
          /\ call[frames[k]].op.incoming => k = 1
          /\ call[frames[k]].op.throws = "start" => frames[k] \notin threw
          /\ ~call[frames[k]].callback => ends[frames[k]] = 0
    /\ \A j, k \in 1..Len(frames) : frames[j] = frames[k] => j = k

(* Shared data is that of the message being handled, or of one that was    *)
(* stopped long ago, as long as requests have not been switched off and on *)
(* again.                                                                  *)
SharedInv ==
    /\ switches = 0 /\ ~requestsOn =>
          \A c \in Calls : ~call[c].op.traced =>
             probeData[c].req = 0 /\ call[c].req = 0
    /\ switches < 2 /\ requestsOn =>
          \A k \in 1..Len(frames) :
             LET c == frames[k]
             IN  call[c].op.shared =>
                    probeData[call[c].data].req \in {0, call[c].req}

(* The calls under way whose requests are active are in their domain.      *)
FramesAtHome ==
    ~foreign =>
        \A k \in 1..Len(frames) :
           LET r == call[frames[k]].req
           IN  r \in active => request[r].domain = Domain

HooksInv ==
    /\ DataInv /\ FramesInv /\ SharedInv /\ FramesAtHome
    /\ switches \in Nat

LEMMA StartSimple ==
    ASSUME TypeOK, IdInv, ShapeInv,
           NEW root \in BOOLEAN, NEW typed \in BOOLEAN, Start(root, typed),
           NEW n, n = Len(request) + 1
    PROVE  /\ Requests' = Requests \cup {n} /\ Len(request') = n
           /\ \A r \in Requests : request'[r] = request[r]
           /\ request'[n].root = root
           /\ request'[n].domain = DomainOf(n, root)
           /\ active' = active \cup {n} /\ foreign' = foreign
           /\ stack' = IF root THEN Append(stack, n) ELSE stack
<1> DEFINE d == DomainOf(n, root)
           p == IF d = 0 THEN 0 ELSE currentRequest[d]
<1> QED BY StartFacts

(* What the start hooks do, with c the call, d its probeData, t its timer  *)
(* and n the request it starts.                                            *)
LEMMA BeginFacts ==
    ASSUME BaseInv, CallTypeOK, DataInv,
           NEW op \in Ops, NEW callback \in BOOLEAN, BeginCall(op, callback),
           NEW c, c = Len(call) + 1, NEW d, d = DataOf(c, op),
           NEW t, t = StartTimer(c, op, probeData[d]),
           NEW n, n = Len(request) + 1
    PROVE  /\ c \in Call /\ c \in Nat /\ c \notin Calls /\ n \notin Requests
           /\ Calls' = Calls \cup {c} /\ Len(call') = c
           /\ \A e \in Calls : call'[e] = call[e]
           /\ call'[c].op = op /\ call'[c].callback = callback
           /\ call'[c].data = d
           /\ call'[c].req = IF Tracks(op) THEN n ELSE 0
           /\ d \in 1..c /\ call'[d].op = op /\ (~op.shared => d = c)
           /\ probeData' = [probeData EXCEPT ![d] =
                 [timer |-> t,
                  req |-> IF Tracks(op) /\ ~(op.throws = "start" /\ requestsOn)
                          THEN n ELSE probeData[d].req]]
           /\ inTurn /\ inTurn' = inTurn /\ (op.incoming => frames = <<>>)
           /\ op.until = "return" => ~callback
           /\ IF op.throws = "start" /\ requestsOn
              THEN threw' = threw \cup {c} /\ frames' = frames
              ELSE threw' = threw /\ frames' = Append(frames, c)
           /\ UNCHANGED <<metricsOn, requestsOn, switches, ends, stopped,
                          events, foreign>>
           /\ IF Tracks(op)
              THEN /\ Requests' = Requests \cup {n} /\ Len(request') = n
                   /\ \A r \in Requests : request'[r] = request[r]
                   /\ request'[n].root = op.root
                   /\ request'[n].domain = Domain'
                   /\ active' = active \cup {n}
                   /\ ~op.root => Domain' = Domain
                   /\ requestTimer' = Append(requestTimer,
                         IF op.timed THEN t ELSE 0)
              ELSE UNCHANGED <<request, active, Domain, requestTimer>>
<1>1. /\ call \in Seq([op : Ops, callback : BOOLEAN, data : Call,
                       req : 0..MaxRequests])
      /\ Len(call) \in Nat
  BY DEF CallTypeOK
<1> DEFINE new == [op |-> op, callback |-> callback, data |-> d,
                   req |-> IF Tracks(op) THEN Len(request) + 1 ELSE 0]
<1>2. /\ c <= MaxCalls /\ call' = Append(call, new)
      /\ probeData' = [probeData EXCEPT ![d] =
            [timer |-> t,
             req |-> IF Tracks(op) /\ ~(op.throws = "start" /\ requestsOn)
                     THEN n ELSE probeData[d].req]]
      /\ inTurn /\ (op.incoming => frames = <<>>)
      /\ op.until = "return" => ~callback
      /\ IF op.throws = "start" /\ requestsOn
         THEN threw' = threw \cup {c} /\ frames' = frames
         ELSE threw' = threw /\ frames' = Append(frames, c)
      /\ UNCHANGED <<metricsOn, requestsOn, switches, ends, stopped, events>>
      /\ StartRequest(op, t)
  BY Zenon DEF BeginCall
<1>3. /\ new.op = op /\ new.callback = callback /\ new.data = d
      /\ new.req = IF Tracks(op) THEN n ELSE 0
  OBVIOUS
<1> HIDE DEF new
<1>4. /\ c \in Call /\ c \in Nat /\ c \notin Calls
      /\ Calls' = Calls \cup {c} /\ Len(call') = c
      /\ \A e \in Calls : call'[e] = call[e]
      /\ call'[c] = new
  BY <1>1, <1>2, CallConstants DEF Call, Calls
<1>5. d \in 1..c /\ call'[d].op = op /\ (~op.shared => d = c)
  <2> DEFINE before == {e \in 1..Len(call) : op.shared /\ call[e].op = op}
  <2>1. CASE before = {}
    <3>1. d = c
      BY <2>1 DEF DataOf
    <3> QED BY <1>3, <1>4, <3>1
  <2>2. CASE before # {}
    <3>1. PICK e \in before : d = call[e].data
      BY <2>2 DEF DataOf
    <3>2. e \in Calls /\ op.shared /\ call[e].op = op
      BY <3>1 DEF Calls
    <3>3. d \in 1..e /\ call[d].op = op
      BY <3>1, <3>2 DEF DataInv
    <3>4. ASSUME NEW m \in 1..e PROVE m \in Calls /\ m \in 1..c
      BY <1>1, <3>2 DEF Calls
    <3>5. d \in Calls /\ d \in 1..c
      BY <3>3, <3>4
    <3> QED BY <1>4, <3>2, <3>3, <3>5
  <2> QED BY <2>1, <2>2
<1>6. n \notin Requests
  BY DEF Requests, BaseInv, IdInv
<1>7. CASE Tracks(op)
  <2>1. /\ Start(op.root, ~op.traced)
        /\ requestTimer' = Append(requestTimer,
              IF op.timed THEN t ELSE 0)
    BY <1>2, <1>7 DEF StartRequest
  <2>2. PICK root \in BOOLEAN, typed \in BOOLEAN :
           root = op.root /\ Start(root, typed)
    <3>1. op.root \in BOOLEAN /\ (~op.traced) \in BOOLEAN
      BY OpFacts DEF Sound
    <3> QED BY <2>1, <3>1, Zenon
  <2>3. /\ Requests' = Requests \cup {n} /\ Len(request') = n
        /\ \A r \in Requests : request'[r] = request[r]
        /\ request'[n].root = op.root
        /\ request'[n].domain = DomainOf(n, op.root)
        /\ active' = active \cup {n} /\ foreign' = foreign
        /\ stack' = IF op.root THEN Append(stack, n) ELSE stack
    BY <2>2, StartSimple DEF BaseInv, TreesInv
  <2>4. Domain' = DomainOf(n, op.root) /\ (~op.root => Domain' = Domain)
    <3>1. stack \in Seq(Requests)
      BY DEF BaseInv, TypeOK
    <3>2. CASE op.root
      BY <2>3, <3>1, <3>2 DEF Domain, DomainOf
    <3>3. CASE ~op.root
      BY <2>3, <3>3 DEF Domain, DomainOf
    <3> QED BY <3>2, <3>3
  <2>5. inTurn' = inTurn
    BY <2>1 DEF Start
  <2> QED BY <1>2, <1>3, <1>4, <1>5, <1>6, <1>7, <2>1, <2>3, <2>4, <2>5
<1>8. CASE ~Tracks(op)
  <2>1. UNCHANGED <<vars, requestTimer>>
    BY <1>2, <1>8 DEF StartRequest
  <2>2. UNCHANGED <<request, active, Domain, requestTimer, foreign, inTurn>>
    BY <2>1 DEF vars, Domain
  <2> QED BY <1>2, <1>3, <1>4, <1>5, <1>6, <1>8, <2>2
<1> QED BY <1>7, <1>8

(* What the end hooks of call c do, with t and r the timer and the request *)
(* they find.                                                              *)
LEMMA EndFacts ==
    ASSUME BaseInv, CallTypeOK, DataInv, NEW c \in Calls, EndHooks(c),
           NEW t, t = probeData[call[c].data].timer,
           NEW r, r = probeData[call[c].data].req
    PROVE  /\ t \in 0..Len(call) /\ r \in 0..Len(request)
           /\ UNCHANGED request /\ Requests' = Requests
           /\ ends' = [ends EXCEPT ![c] = @ + 1]
           /\ threw \subseteq threw'
           /\ \A e \in threw' \ threw : call[e].op.throws = "end"
           /\ events' = IF Measures(call[c].op) /\ t # 0
                        THEN Append(events, [call |-> c, timer |-> t,
                                whole |-> ends[c] # 0 \/ t \notin stopped])
                        ELSE events
           /\ IF Tracks(call[c].op) /\ r \in active
              THEN /\ Stop(r) /\ r \in Requests /\ r # 0
                   /\ active' = active \ StoppedWith(r) /\ r \notin active'
                   /\ foreign' = (foreign \/ Domain # request[r].domain)
                   /\ stopped' =
                         stopped \cup (IF Measures(call[c].op) /\ t # 0
                                       THEN {t} ELSE {}) \cup TimersBelow(r)
              ELSE /\ UNCHANGED vars
                   /\ stopped' =
                         stopped \cup (IF Measures(call[c].op) /\ t # 0
                                       THEN {t} ELSE {})
<1>1. t \in 0..Len(call) /\ r \in 0..Len(request)
  <2>1. call[c].data \in Call
    <3>1. call[c].data \in 1..c /\ c \in 1..Len(call)
      BY DEF DataInv, Calls
    <3>2. Len(call) \in Nat /\ Len(call) <= MaxCalls /\ MaxCalls \in Nat
      BY CallConstants, RequestConstants DEF CallTypeOK
    <3> QED BY <3>1, <3>2 DEF Call
  <2>2. probeData[call[c].data]
           \in [timer : 0..Len(call), req : 0..Len(request)]
    BY <2>1 DEF CallTypeOK
  <2> QED BY <2>2
<1>2. active \subseteq Requests /\ 0 \notin active
  <2>1. active \subseteq Requests
    BY DEF BaseInv, TypeOK
  <2> QED BY <2>1 DEF Requests
<1>3. (r # 0 /\ MayStop(r)) <=> r \in active
  BY <1>2 DEF MayStop
<1>4. /\ ends' = [ends EXCEPT ![c] = @ + 1]
      /\ threw' = threw \/ (threw' = threw \cup {c}
                            /\ call[c].op.throws = "end")
      /\ events' = IF Measures(call[c].op) /\ t # 0
                   THEN Append(events, [call |-> c, timer |-> t,
                           whole |-> ends[c] # 0 \/ t \notin stopped])
                   ELSE events
      /\ IF Tracks(call[c].op) /\ r \in active THEN Stop(r)
         ELSE UNCHANGED vars
      /\ stopped' = stopped
            \cup (IF Measures(call[c].op) /\ t # 0 THEN {t} ELSE {})
            \cup (IF Tracks(call[c].op) /\ r \in active
                  THEN TimersBelow(r) ELSE {})
  BY <1>3, Zenon DEF EndHooks
<1>5. CASE Tracks(call[c].op) /\ r \in active
  <2>1. Stop(r) /\ r \in Requests /\ r # 0
    BY <1>2, <1>4, <1>5
  <2>2. /\ UNCHANGED request /\ Requests' = Requests
        /\ active' = active \ StoppedWith(r)
        /\ foreign' = (foreign \/ Domain # request[r].domain)
    BY <2>1, StopFacts DEF BaseInv, TreesInv
  <2>3. r \in StoppedWith(r)
    BY <2>1, StoppedFacts DEF BaseInv
  <2> QED BY <1>1, <1>4, <1>5, <2>1, <2>2, <2>3
<1>6. CASE ~(Tracks(call[c].op) /\ r \in active)
  <2>1. UNCHANGED request /\ Requests' = Requests
    BY <1>4, <1>6 DEF vars, Requests
  <2> QED BY <1>1, <1>4, <1>6, <2>1
<1> QED BY <1>5, <1>6

(* Every step begins a call, ends one or leaves calls and requests alone.  *)
Pop == frames # <<>> /\ frames' = SubSeq(frames, 1, Len(frames) - 1)

Ending(c) ==
    /\ EndHooks(c)
    /\ UNCHANGED <<metricsOn, requestsOn, switches, call, probeData,
                   requestTimer, inTurn>>
    /\ call[c].op.throws = "start" => c \notin threw
    /\ ends[c] < MaxEnds
    /\ \/ Pop /\ c = frames[Len(frames)] /\ ~call[c].callback
       \/ /\ call[c].callback
          /\ frames' = frames

SwitchStep ==
    \/ UNCHANGED <<metricsOn, requestsOn, switches>>
    \/ /\ switches' = switches + 1 /\ switches < MaxSwitches
       /\ \/ metricsOn' = ~metricsOn /\ UNCHANGED requestsOn
          \/ requestsOn' = ~requestsOn /\ UNCHANGED metricsOn

Quiet ==
    /\ UNCHANGED <<request, active, foreign, call, ends, timers, threw,
                   events>>
    /\ SwitchStep
    /\ \/ frames = <<>> /\ frames' = frames
       \/ Pop /\ UNCHANGED <<inTurn, stack, metricsOn, requestsOn, switches>>
       \/ UNCHANGED <<inTurn, stack, frames>>

LEMMA CallCases ==
    ASSUME CallTypeOK, FramesInv, [CallNext]_callVars
    PROVE  \/ \E op \in Ops, callback \in BOOLEAN : BeginCall(op, callback)
           \/ \E c \in Calls : Ending(c)
           \/ Quiet
<1>0. ASSUME NEW c, EndHooks(c) PROVE inTurn' = inTurn
  BY <1>0 DEF EndHooks, Stop, vars
<1>1. CASE Turn
  <2>1. frames = <<>> /\ frames' = frames
    BY <1>1 DEF Turn, BeginTurn, FramesInv
  <2>2. UNCHANGED <<request, active, foreign>>
    BY <1>1 DEF Turn, BeginTurn, EndTurn
  <2> QED BY <1>1, <2>1, <2>2 DEF Turn, Quiet, SwitchStep
<1>2. CASE Return
  <2> DEFINE c == frames[Len(frames)]
  <2>1. /\ Pop
        /\ UNCHANGED <<metricsOn, requestsOn, switches, call, probeData,
                       requestTimer>>
        /\ \/ EndHooks(c) /\ ~call[c].callback
           \/ UNCHANGED <<vars, events, stopped, ends, threw>>
    BY <1>2 DEF Return, Pop
  <2>2. CASE EndHooks(c) /\ ~call[c].callback
    <3>1. /\ c \in Calls /\ (call[c].op.throws = "start" => c \notin threw)
          /\ ends[c] < MaxEnds
      <4>1. Len(frames) \in 1..Len(frames)
        BY <2>1 DEF Pop, CallTypeOK
      <4> QED BY <2>2, <4>1, CallConstants DEF FramesInv
    <3>2. Ending(c)
      BY <1>0, <2>1, <2>2, <3>1 DEF Ending
    <3> QED BY <3>1, <3>2
  <2>3. CASE UNCHANGED <<vars, events, stopped, ends, threw>>
    <3>1. UNCHANGED <<request, active, foreign, inTurn, stack>>
      BY <2>3 DEF vars
    <3> QED BY <2>1, <2>3, <3>1 DEF Quiet, SwitchStep, timers
  <2> QED BY <2>1, <2>2, <2>3
<1>3. ASSUME NEW c \in Calls, CallBack(c)
      PROVE  Ending(c)
  <2>1. ends[c] < MaxEnds
    <3>1. c \in Call
      BY CallConstants DEF CallTypeOK, Calls, Call
    <3>2. ends[c] \in Nat /\ MaxEnds \in Nat \ {0}
      BY <3>1, CallConstants DEF CallTypeOK
    <3> QED BY <1>3, <3>2 DEF CallBack
  <2> QED BY <1>0, <1>3, <2>1 DEF CallBack, Ending
<1>4. CASE SwitchMetrics \/ SwitchRequests
  <2>1. UNCHANGED <<request, active, foreign, inTurn, stack>>
    BY <1>4 DEF SwitchMetrics, SwitchRequests, vars
  <2> QED BY <1>4, <2>1 DEF SwitchMetrics, SwitchRequests, Quiet, SwitchStep
<1>5. CASE UNCHANGED callVars
  <2>1. UNCHANGED <<request, active, foreign, inTurn, stack>>
    BY <1>5 DEF callVars, vars
  <2> QED BY <1>5, <2>1 DEF callVars, Quiet, SwitchStep
<1> QED BY <1>1, <1>2, <1>3, <1>4, <1>5 DEF CallNext, Calls

LEMMA CallTypeStep ==
    ASSUME BaseInv, BaseInv', CallTypeOK, DataInv, FramesInv,
           [CallNext]_callVars
    PROVE  CallTypeOK'
<1> DEFINE Event == [call : 1..Len(call), timer : 1..Len(call),
                     whole : BOOLEAN]
           Record == [op : Ops, callback : BOOLEAN, data : Call,
                      req : 0..MaxRequests]
<1>0. /\ TypeOK /\ TypeOK' /\ Len(call) \in Nat /\ Len(request) \in Nat
      /\ MaxCalls \in Nat
  <2>1. Len(request) \in Nat
    BY DEF BaseInv, TypeOK
  <2> QED BY <2>1, CallConstants, RequestConstants DEF BaseInv, CallTypeOK
<1>a. /\ switches \in 0..MaxSwitches /\ MaxSwitches \in Nat
      /\ metricsOn \in BOOLEAN /\ requestsOn \in BOOLEAN
  BY CallConstants DEF CallTypeOK
<1>b. frames \in Seq(Calls) /\ requestTimer \in Seq(0..Len(call))
  BY DEF CallTypeOK, Calls
<1>c. ends \in [Call -> 0..MaxEnds] /\ MaxEnds \in Nat
  BY CallConstants DEF CallTypeOK
<1>1. ASSUME NEW op \in Ops, NEW callback \in BOOLEAN, BeginCall(op, callback)
      PROVE  CallTypeOK'
  <2> DEFINE c == Len(call) + 1
             d == DataOf(c, op)
             t == StartTimer(c, op, probeData[d])
             n == Len(request) + 1
             q == IF Tracks(op) /\ ~(op.throws = "start" /\ requestsOn)
                  THEN n ELSE probeData[d].req
  <2>1. /\ c \in Call /\ c \in Nat /\ Calls' = Calls \cup {c} /\ Len(call') = c
        /\ d \in 1..c
        /\ probeData' = [probeData EXCEPT ![d] = [timer |-> t, req |-> q]]
        /\ IF op.throws = "start" /\ requestsOn
           THEN threw' = threw \cup {c} /\ frames' = frames
           ELSE threw' = threw /\ frames' = Append(frames, c)
        /\ UNCHANGED <<metricsOn, requestsOn, switches, ends, stopped, events>>
        /\ IF Tracks(op)
           THEN Len(request') = n
                /\ requestTimer' = Append(requestTimer,
                      IF op.timed THEN t ELSE 0)
           ELSE UNCHANGED <<request, requestTimer>>
    BY <1>1, BeginFacts
  <2>2. call' = Append(call, [op |-> op, callback |-> callback, data |-> d,
                              req |-> IF Tracks(op) THEN n ELSE 0])
    BY <1>1, Zenon DEF BeginCall
  <2>3. c = Len(call) + 1 /\ n = Len(request) + 1
    OBVIOUS
  <2>4. d \in Call
    BY <1>0, <2>1 DEF Call
  <2>5. /\ probeData[d] \in [timer : 0..Len(call), req : 0..Len(request)]
        /\ t \in 0..c /\ q \in 0..n
    <3>1. probeData[d] \in [timer : 0..Len(call), req : 0..Len(request)]
      BY <2>4 DEF CallTypeOK
    <3>2. t = c \/ t = probeData[d].timer
      BY DEF StartTimer
    <3>3. q = n \/ q = probeData[d].req
      OBVIOUS
    <3> HIDE DEF t, q, d, c, n
    <3> QED BY <1>0, <2>1, <2>3, <3>1, <3>2, <3>3
  <2> HIDE DEF t, q, d, c, n
  <2>6. call' \in Seq(Record) /\ Len(call') <= MaxCalls
    <3>2. (IF Tracks(op) THEN n ELSE 0) \in 0..MaxRequests
      <4>1. Len(request') <= MaxRequests
        BY <1>0 DEF TypeOK
      <4> QED BY <1>0, <2>1, <2>3, <4>1, RequestConstants
    <3> DEFINE new == [op |-> op, callback |-> callback, data |-> d,
                       req |-> IF Tracks(op) THEN n ELSE 0]
    <3>3. new \in Record
      BY <2>4, <3>2
    <3>4. call' = Append(call, new)
      BY <2>2
    <3> HIDE DEF new, Record
    <3>5. call \in Seq(Record)
      BY DEF CallTypeOK, Record
    <3> QED BY <1>0, <2>1, <3>3, <3>4, <3>5 DEF Call
  <2>7. frames' \in Seq(1..Len(call'))
    <3>1. frames \in Seq(1..c)
      BY <1>0, <2>3 DEF CallTypeOK
    <3>2. c \in 1..c
      BY <1>0, <2>1, <2>3
    <3>3. /\ frames' = frames \/ frames' = Append(frames, c)
          /\ Len(call') = c
      BY <2>1
    <3>4. frames' \in Seq(1..c)
      BY <3>1, <3>2, <3>3, Pushed
    <3> QED BY <3>3, <3>4
  <2>8. probeData' \in [Call -> [timer : 0..Len(call'),
                                 req : 0..Len(request')]]
    <3> DEFINE D == [timer : 0..c, req : 0..Len(request')]
    <3>1. q \in 0..Len(request') /\ Len(request) <= Len(request')
      <4>1. CASE Tracks(op)
        BY <1>0, <2>1, <2>3, <2>5, <4>1
      <4>2. CASE ~Tracks(op)
        <5>1. q = probeData[d].req /\ Len(request') = Len(request)
          BY <2>1, <4>2 DEF q
        <5> QED BY <1>0, <2>5, <5>1
      <4> QED BY <4>1, <4>2
    <3>2. [timer |-> t, req |-> q] \in D
      BY <2>5, <3>1
    <3>3. \A e \in Call : probeData[e] \in D
      <4>1. /\ 0..Len(call) \subseteq 0..c
            /\ 0..Len(request) \subseteq 0..Len(request')
        BY <1>0, <2>1, <2>3, <3>1
      <4> QED BY <4>1 DEF CallTypeOK
    <3>4. probeData = [e \in Call |-> probeData[e]]
      BY DEF CallTypeOK
    <3> HIDE DEF D
    <3>5. probeData' \in [Call -> D]
      BY <2>1, <3>2, <3>3, <3>4
    <3> QED BY <2>1, <3>5 DEF D
  <2>9. /\ requestTimer' \in Seq(0..Len(call'))
        /\ Len(requestTimer') = Len(request')
    <3>1. requestTimer \in Seq(0..c) /\ Len(requestTimer) = Len(request)
      <4>1. 0..Len(call) \subseteq 0..c
        BY <1>0, <2>1, <2>3
      <4> DEFINE Small == 0..Len(call)
                 Large == 0..c
      <4>3. requestTimer \in Seq(Small) /\ Small \subseteq Large
        BY <1>b, <4>1
      <4> HIDE DEF Small, Large
      <4>4. requestTimer \in Seq(Large)
        BY <4>3
      <4>2. requestTimer \in Seq(0..c)
        BY <4>4 DEF Large
      <4> QED BY <4>2 DEF CallTypeOK
    <3>2. CASE Tracks(op)
      <4> DEFINE x == IF op.timed THEN t ELSE 0
      <4>1. x \in 0..c
        BY <2>1, <2>5
      <4>2. requestTimer' = Append(requestTimer, x)
        BY <2>1, <3>2
      <4>3. Len(call') = c /\ Len(request') = Len(request) + 1
        BY <2>1, <2>3, <3>2
      <4> HIDE DEF x
      <4> QED BY <1>0, <3>1, <4>1, <4>2, <4>3
    <3>3. CASE ~Tracks(op)
      BY <2>1, <3>1, <3>3
    <3> QED BY <3>2, <3>3
  <2>10. stopped' \subseteq 1..Len(call') /\ threw' \subseteq 1..Len(call')
    <3>1. 1..Len(call) \subseteq 1..c /\ c \in 1..c
      BY <1>0, <2>1, <2>3
    <3> QED BY <2>1, <3>1 DEF CallTypeOK
  <2>11. events' \in Seq([call : 1..Len(call'), timer : 1..Len(call'),
                          whole : BOOLEAN])
    <3>1. 1..Len(call) \subseteq 1..c
      BY <1>0, <2>1, <2>3
    <3> DEFINE New == [call : 1..c, timer : 1..c, whole : BOOLEAN]
    <3>2. Event \subseteq New
      BY <3>1
    <3>3. events \in Seq(Event)
      BY DEF CallTypeOK
    <3> HIDE DEF Event, New
    <3>4. events' \in Seq(New)
      BY <2>1, <3>2, <3>3
    <3> QED BY <2>1, <3>4 DEF New
  <2> QED BY <1>0, <2>1, <2>6, <2>7, <2>8, <2>9, <2>10, <2>11 DEF CallTypeOK
<1>2. ASSUME NEW c \in Calls, Ending(c)
      PROVE  CallTypeOK'
  <2> DEFINE t == probeData[call[c].data].timer
             r == probeData[call[c].data].req
  <2>1. /\ t \in 0..Len(call)
        /\ UNCHANGED request
        /\ ends' = [ends EXCEPT ![c] = @ + 1]
        /\ events' = IF Measures(call[c].op) /\ t # 0
                     THEN Append(events, [call |-> c, timer |-> t,
                             whole |-> ends[c] # 0 \/ t \notin stopped])
                     ELSE events
        /\ IF Tracks(call[c].op) /\ r \in active
           THEN r \in Requests /\ stopped' =
                   stopped \cup (IF Measures(call[c].op) /\ t # 0
                                 THEN {t} ELSE {}) \cup TimersBelow(r)
           ELSE stopped' =
                   stopped \cup (IF Measures(call[c].op) /\ t # 0
                                 THEN {t} ELSE {})
    BY <1>2, EndFacts DEF Ending
  <2> HIDE DEF t, r
  <2>2. ends' \in [Call -> 0..MaxEnds]
    <3>1. c \in Call /\ ends[c] + 1 \in 0..MaxEnds
      <4>1. c \in Call
        BY <1>0 DEF Calls, Call, CallTypeOK
      <4> QED BY <1>2, <1>c, <4>1 DEF Ending
    <3> QED BY <1>c, <2>1, <3>1
  <2>3. stopped' \subseteq 1..Len(call)
    <3>1. t # 0 => t \in 1..Len(call)
      BY <1>0, <2>1
    <3>2. r \in Requests => TimersBelow(r) \subseteq 1..Len(call)
      <4> SUFFICES ASSUME r \in Requests, NEW q \in StoppedWith(r),
                          requestTimer[q] # 0
                   PROVE  requestTimer[q] \in 1..Len(call)
        BY DEF TimersBelow
      <4>1. q \in 1..Len(requestTimer)
        BY <1>0, StoppedFacts DEF CallTypeOK, Requests
      <4>2. requestTimer[q] \in 0..Len(call)
        BY <4>1 DEF CallTypeOK
      <4> QED BY <1>0, <4>2
    <3> QED BY <2>1, <3>1, <3>2 DEF CallTypeOK
  <2>4. events' \in Seq(Event)
    <3> DEFINE e == [call |-> c, timer |-> t,
                     whole |-> ends[c] # 0 \/ t \notin stopped]
    <3>1. t # 0 => e \in Event
      BY <1>0, <2>1 DEF Calls
    <3>2. events' = IF Measures(call[c].op) /\ t # 0 THEN Append(events, e)
                    ELSE events
      BY <2>1
    <3>3. events \in Seq(Event)
      BY DEF CallTypeOK
    <3> HIDE DEF e, Event
    <3> QED BY <3>1, <3>2, <3>3
  <2>5. threw' \subseteq 1..Len(call)
    BY <1>2 DEF Ending, EndHooks, CallTypeOK, Calls
  <2>6. frames' \in Seq(1..Len(call))
    <3>1. frames' \in Seq(Calls)
      <4>1. frames' = frames \/ Pop
        BY <1>2, Zenon DEF Ending
      <4> QED BY <1>b, <4>1, Popped DEF Pop
    <3> QED BY <3>1 DEF Calls
  <2> QED BY <1>0, <1>2, <2>1, <2>2, <2>3, <2>4, <2>5, <2>6
          DEF Ending, CallTypeOK
<1>3. CASE Quiet
  <2>1. frames' \in Seq(1..Len(call))
    <3>1. frames' \in Seq(Calls)
      <4>1. frames' = frames \/ Pop
        BY <1>3, Zenon DEF Quiet
      <4> QED BY <1>b, <4>1, Popped DEF Pop
    <3> QED BY <3>1 DEF Calls
  <2>2. /\ metricsOn' \in BOOLEAN /\ requestsOn' \in BOOLEAN
        /\ switches' \in 0..MaxSwitches
    <3>1. SwitchStep
      BY <1>3 DEF Quiet
    <3>2. switches' \in 0..MaxSwitches
      BY <1>a, <3>1 DEF SwitchStep
    <3>3. metricsOn' \in BOOLEAN /\ requestsOn' \in BOOLEAN
      BY <1>a, <3>1, Zenon DEF SwitchStep
    <3> QED BY <3>2, <3>3
  <2> QED BY <1>0, <1>3, <2>1, <2>2 DEF Quiet, CallTypeOK, timers
<1> QED BY <1>1, <1>2, <1>3, CallCases

LEMMA DataStep ==
    ASSUME BaseInv, BaseInv', CallTypeOK, CallTypeOK', DataInv, FramesInv,
           [CallNext]_callVars
    PROVE  DataInv'
<1>0. /\ Len(request) \in Nat /\ Len(call) \in Nat /\ Calls \subseteq Call
      /\ \A d \in Call : probeData[d] \in [timer : 0..Len(call),
                                           req : 0..Len(request)]
      /\ probeData = [d \in Call |-> probeData[d]]
      /\ ends \in [Call -> 0..MaxEnds]
  <2>1. Len(request) \in Nat
    BY DEF BaseInv, TypeOK
  <2>2. Calls \subseteq Call
    BY CallConstants, RequestConstants DEF CallTypeOK, Calls, Call
  <2> QED BY <2>1, <2>2 DEF CallTypeOK
<1>a. Calls \subseteq Nat /\ \A c \in Calls : 1..c \subseteq Calls
  BY <1>0 DEF Calls
<1>1. ASSUME NEW op \in Ops, NEW callback \in BOOLEAN, BeginCall(op, callback)
      PROVE  DataInv'
  <2>0. PICK c \in Nat : c = Len(call) + 1
    BY <1>0
  <2> DEFINE d == DataOf(c, op)
             t == StartTimer(c, op, probeData[d])
             n == Len(request) + 1
             fails == op.throws = "start" /\ requestsOn
             q == IF Tracks(op) /\ ~fails THEN n ELSE probeData[d].req
  <2>1. /\ c \in Call /\ c \in Nat /\ c \notin Calls /\ n \notin Requests
        /\ Calls' = Calls \cup {c} /\ Len(call') = c
        /\ \A e \in Calls : call'[e] = call[e]
        /\ call'[c].op = op /\ call'[c].callback = callback
        /\ call'[c].data = d
        /\ call'[c].req = IF Tracks(op) THEN n ELSE 0
        /\ d \in 1..c /\ call'[d].op = op /\ (~op.shared => d = c)
        /\ probeData' = [probeData EXCEPT ![d] = [timer |-> t, req |-> q]]
        /\ op.until = "return" => ~callback
        /\ IF fails THEN threw' = threw \cup {c} ELSE threw' = threw
        /\ ends' = ends
        /\ IF Tracks(op)
           THEN /\ Requests' = Requests \cup {n} /\ Len(request') = n
                /\ \A r \in Requests : request'[r] = request[r]
                /\ request'[n].root = op.root
           ELSE request' = request
    BY <1>1, <2>0, BeginFacts
  <2>2. c = Len(call) + 1 /\ n = Len(request) + 1
    BY <2>0
  <2>3. q = IF Tracks(op) /\ ~fails THEN n ELSE probeData[d].req
    OBVIOUS
  <2>4. fails => Tracks(op) /\ ~op.shared /\ op.throws = "start"
    BY OpFacts DEF Sound, Tracks
  <2>5. d \in Call /\ (d = c \/ d \in Calls)
    <3>1. d \in Calls'
      BY <1>0, <2>1 DEF Calls
    <3> QED BY <1>0, <2>1, <3>1
  <2>6. ASSUME d = c PROVE probeData[d].req = 0
    BY <2>1, <2>6 DEF DataInv
  <2> HIDE DEF t, q, d, n, fails
  <2>7. /\ n # 0 /\ n \in Nat /\ Len(request') \in Nat
        /\ Len(request) <= Len(request')
        /\ Tracks(op) => Len(request') = n
    BY <1>0, <2>1, <2>2
  <2>8. \A e \in Call : probeData'[e] = IF e = d THEN [timer |-> t, req |-> q]
                                        ELSE probeData[e]
    BY <1>0, <2>1, <2>5
  <2>9. ASSUME NEW e \in Calls
        PROVE  /\ call'[e].data \in 1..e
               /\ call'[call'[e].data].op = call'[e].op
               /\ call'[e].op.shared => ~call'[e].callback
               /\ call'[e].req \in 0..Len(request')
               /\ call'[e].req # 0 =>
                     request'[call'[e].req].root = call'[e].op.root
               /\ ~call'[e].op.shared =>
                     /\ call'[e].data = e
                     /\ probeData'[e].req \in {0, call'[e].req}
                     /\ Failed(e)' \/ probeData'[e].req = call'[e].req
    <3>1. call'[e] = call[e] /\ e # c /\ e \in Call
      BY <1>0, <2>1
    <3>2. call[e].data \in Calls
      <4>1. call[e].data \in 1..e
        BY DEF DataInv
      <4> QED BY <1>a, <4>1
    <3>3. call'[call[e].data] = call[call[e].data]
      BY <2>1, <3>2
    <3>4. /\ call[e].data \in 1..e /\ call[call[e].data].op = call[e].op
          /\ call[e].op.shared => ~call[e].callback
          /\ call[e].req \in 0..Len(request)
      BY DEF DataInv
    <3>5. call[e].req # 0 =>
             request'[call[e].req].root = call[e].op.root
      <4>1. call[e].req # 0 => call[e].req \in Requests
        BY <1>0, <3>4 DEF Requests
      <4>2. call[e].req # 0 => request'[call[e].req] = request[call[e].req]
        BY <2>1, <4>1
      <4> QED BY <4>2 DEF DataInv
    <3>6. ASSUME ~call[e].op.shared
          PROVE  /\ call[e].data = e
                 /\ probeData'[e].req \in {0, call[e].req}
                 /\ Failed(e)' \/ probeData'[e].req = call[e].req
      <4>1. e # d
        <5>1. CASE e = d
          <6>1. call'[e].op = op
            BY <2>1, <5>1
          <6> QED BY <2>1, <3>1, <3>6, <5>1, <6>1
        <5> QED BY <5>1
      <4>2. probeData'[e] = probeData[e]
        BY <2>8, <3>1, <4>1
      <4>3. Failed(e) => Failed(e)'
        BY <2>1, <3>1 DEF Failed
      <4> QED BY <3>6, <4>2, <4>3 DEF DataInv
    <3> QED BY <1>0, <2>7, <3>1, <3>3, <3>4, <3>5, <3>6
  <2>10. /\ call'[c].data \in 1..c
         /\ call'[call'[c].data].op = call'[c].op
         /\ call'[c].op.shared => ~call'[c].callback
         /\ call'[c].req \in 0..Len(request')
         /\ call'[c].req # 0 =>
               request'[call'[c].req].root = call'[c].op.root
         /\ ~call'[c].op.shared =>
               /\ call'[c].data = c
               /\ probeData'[c].req \in {0, call'[c].req}
               /\ Failed(c)' \/ probeData'[c].req = call'[c].req
    <3>1. op.shared => ~callback
      BY <2>1, OpFacts DEF Sound
    <3>2. call'[c].req \in 0..Len(request')
      BY <2>1, <2>7
    <3>3. call'[c].req # 0 =>
             request'[call'[c].req].root = call'[c].op.root
      BY <2>1
    <3>4. ASSUME ~op.shared
          PROVE  /\ probeData'[c].req \in {0, call'[c].req}
                 /\ Failed(c)' \/ probeData'[c].req = call'[c].req
      <4>1. d = c /\ probeData'[c].req = q
        BY <2>1, <2>8, <3>4
      <4>2. CASE fails
        <5>1. q = 0
          BY <2>3, <2>6, <4>1, <4>2
        <5>2. Failed(c)'
          <6>1. ends[c] = 0
            BY <2>1 DEF DataInv
          <6> QED BY <2>1, <2>4, <4>2, <6>1 DEF Failed
        <5> QED BY <4>1, <5>1, <5>2
      <4>3. CASE ~fails
        BY <2>1, <2>3, <2>6, <4>1, <4>3
      <4> QED BY <4>2, <4>3
    <3> QED BY <2>1, <3>1, <3>2, <3>3, <3>4
  <2>11. ASSUME NEW e \in Calls', NEW f \in Calls',
                call'[e].req = call'[f].req, e # f
         PROVE  call'[e].req = 0
    <3>1. \A g \in Calls : call'[g].req = call[g].req /\ call[g].req # n
      <4>1. \A g \in Calls : call[g].req \in 0..Len(request)
        BY DEF DataInv
      <4>2. \A g \in Calls : call'[g] = call[g]
        BY <2>1
      <4>3. n \notin 0..Len(request)
        BY <1>0, <2>2
      <4> QED BY <4>1, <4>2, <4>3
    <3>2. CASE e \in Calls /\ f \in Calls
      BY <2>11, <3>1, <3>2 DEF DataInv
    <3>3. CASE e = c \/ f = c
      BY <2>1, <2>11, <3>1, <3>3
    <3> QED BY <2>1, <3>2, <3>3
  <2>12. \A e \in Call \ Calls' : ends'[e] = 0 /\ probeData'[e].req = 0
    BY <2>1, <2>5, <2>8 DEF DataInv
  <2>13. Calls' = Calls \cup {c}
    BY <2>1
  <2> QED BY <2>9, <2>10, <2>11, <2>12, <2>13 DEF DataInv
<1>2. ASSUME NEW c \in Calls, Ending(c)
      PROVE  DataInv'
  <2>1. /\ UNCHANGED <<request, call, probeData>> /\ Calls' = Calls
        /\ threw \subseteq threw' /\ ends' = [ends EXCEPT ![c] = @ + 1]
    BY <1>2, EndFacts DEF Ending, Calls
  <2>2. \A e \in Call : e # c => ends'[e] = ends[e]
    BY <1>0, <2>1
  <2>3. ~Failed(c)
    BY <1>2 DEF Ending, Failed
  <2>4. \A e \in Calls : Failed(e) => Failed(e)'
    BY <1>0, <2>1, <2>2, <2>3 DEF Failed
  <2>5. \A e \in Calls : Failed(e)' \/ ~Failed(e)
    BY <2>4
  <2>6. \A e \in Call \ Calls : ends'[e] = 0 /\ probeData'[e].req = 0
    BY <2>1, <2>2 DEF DataInv
  <2> QED BY <2>1, <2>5, <2>6 DEF DataInv
<1>3. CASE Quiet
  <2>1. /\ UNCHANGED <<request, call, probeData, threw, ends>>
        /\ Calls' = Calls
    BY <1>3 DEF Quiet, timers, Calls
  <2> QED BY <2>1 DEF DataInv, Failed
<1> QED BY <1>1, <1>2, <1>3, CallCases

(* frames, when its last call has returned.                                *)
LEMMA PopFacts ==
    ASSUME FramesInv, CallTypeOK, Pop
    PROVE  /\ Len(frames) \in Nat /\ Len(frames') \in Nat
           /\ Len(frames') = Len(frames) - 1
           /\ Len(frames) \in 1..Len(frames)
           /\ \A k \in 1..Len(frames') :
                 /\ k \in 1..Len(frames) /\ k # Len(frames)
                 /\ frames'[k] = frames[k]
<1>1. frames \in Seq(Calls) /\ frames # <<>>
  BY DEF CallTypeOK, Calls, Pop
<1>2. frames' = SubSeq(frames, 1, Len(frames) - 1)
  BY DEF Pop
<1>3. Len(frames) \in Nat /\ Len(frames) # 0
  BY <1>1
<1>4. PICK m \in Nat : m = Len(frames) - 1
  BY <1>3
<1>5. frames' = [k \in 1..m |-> frames[k]]
  BY <1>1, <1>2, <1>3, <1>4
<1>6. frames' \in Seq(Calls)
  BY <1>1, <1>3, <1>4, <1>5
<1>7. DOMAIN frames' = 1..m
  BY <1>5
<1>8. Len(frames') = m
  BY <1>4, <1>6, <1>7
<1> QED BY <1>3, <1>4, <1>5, <1>8

LEMMA PushFacts ==
    ASSUME CallTypeOK, NEW c, frames' = Append(frames, c)
    PROVE  /\ Len(frames) \in Nat /\ Len(frames') = Len(frames) + 1
           /\ frames'[Len(frames')] = c
           /\ \A k \in 1..Len(frames') :
                 k # Len(frames') => k \in 1..Len(frames)
                                     /\ frames'[k] = frames[k]
<1>1. frames \in Seq(Calls)
  BY DEF CallTypeOK, Calls
<1> QED BY <1>1

LEMMA FramesStep ==
    ASSUME BaseInv, CallTypeOK, DataInv, FramesInv, [CallNext]_callVars
    PROVE  FramesInv'
<1>0. /\ Len(call) \in Nat /\ Calls \subseteq Call
      /\ ends \in [Call -> 0..MaxEnds] /\ frames \in Seq(Calls)
  <2>1. Calls \subseteq Call
    BY CallConstants, RequestConstants DEF CallTypeOK, Calls, Call
  <2> QED BY <2>1 DEF CallTypeOK, Calls
<1>1. ASSUME NEW op \in Ops, NEW callback \in BOOLEAN, BeginCall(op, callback)
      PROVE  FramesInv'
  <2>0. PICK c \in Nat : c = Len(call) + 1
    BY <1>0
  <2>1. /\ c \in Call /\ c \notin Calls
        /\ Calls' = Calls \cup {c}
        /\ \A e \in Calls : call'[e] = call[e]
        /\ call'[c].op = op
        /\ inTurn /\ inTurn' = inTurn /\ (op.incoming => frames = <<>>)
        /\ IF op.throws = "start" /\ requestsOn
           THEN threw' = threw \cup {c} /\ frames' = frames
           ELSE threw' = threw /\ frames' = Append(frames, c)
        /\ ends' = ends
    BY <1>1, <2>0, BeginFacts
  <2>2. ends[c] = 0 /\ c \notin threw
    BY <1>0, <2>0, <2>1 DEF DataInv, CallTypeOK
  <2>3. ASSUME NEW k \in 1..Len(frames)
        PROVE  /\ frames[k] \in Calls' /\ frames[k] # c
               /\ call'[frames[k]] = call[frames[k]]
               /\ call'[frames[k]].op.incoming => k = 1
               /\ call'[frames[k]].op.throws = "start"
                     => frames[k] \notin threw'
               /\ ~call'[frames[k]].callback => ends'[frames[k]] = 0
    BY <2>1 DEF FramesInv
  <2>4. CASE frames' = frames
    BY <2>1, <2>3, <2>4 DEF FramesInv
  <2>5. CASE frames' = Append(frames, c) /\ threw' = threw
    <3> DEFINE m == Len(frames')
    <3>1. /\ Len(frames) \in Nat /\ m = Len(frames) + 1 /\ frames'[m] = c
          /\ \A k \in 1..m : k # m => k \in 1..Len(frames)
                                      /\ frames'[k] = frames[k]
      BY <2>5, PushFacts
    <3> HIDE DEF m
    <3>2. op.incoming => m = 1
      BY <2>1, <3>1
    <3>3. ASSUME NEW k \in 1..m
          PROVE  /\ frames'[k] \in Calls'
                 /\ call'[frames'[k]].op.incoming => k = 1
                 /\ call'[frames'[k]].op.throws = "start"
                       => frames'[k] \notin threw'
                 /\ ~call'[frames'[k]].callback => ends'[frames'[k]] = 0
      <4>1. CASE k = m
        BY <2>1, <2>2, <2>5, <3>1, <3>2, <4>1
      <4>2. CASE k # m
        BY <2>3, <3>1, <4>2
      <4> QED BY <4>1, <4>2
    <3>4. ASSUME NEW j \in 1..m, NEW k \in 1..m, frames'[j] = frames'[k]
          PROVE  j = k
      <4>1. CASE j # m /\ k # m
        BY <3>1, <3>4, <4>1 DEF FramesInv
      <4>2. CASE j = m \/ k = m
        BY <2>3, <3>1, <3>4, <4>2
      <4> QED BY <4>1, <4>2
    <3> QED BY <2>1, <3>3, <3>4 DEF FramesInv, m
  <2> QED BY <2>1, <2>4, <2>5
<1>2. ASSUME Pop, UNCHANGED <<call, inTurn>>,
             \A k \in 1..Len(frames') :
                /\ ends'[frames'[k]] = ends[frames'[k]]
                /\ call[frames'[k]].op.throws = "start"
                      /\ frames'[k] \in threw' => frames'[k] \in threw
      PROVE  FramesInv'
  <2>1. Calls' = Calls
    BY <1>2 DEF Calls
  <2>2. /\ Len(frames) \in Nat
        /\ \A k \in 1..Len(frames') :
              k \in 1..Len(frames) /\ frames'[k] = frames[k]
    BY <1>2, PopFacts
  <2>3. inTurn'
    BY <1>2 DEF Pop, FramesInv
  <2> QED BY <1>2, <2>1, <2>2, <2>3 DEF FramesInv
<1>3. ASSUME NEW c \in Calls, Ending(c)
      PROVE  FramesInv'
  <2>1. /\ UNCHANGED <<call, inTurn>>
        /\ ends' = [ends EXCEPT ![c] = @ + 1]
        /\ \A e \in threw' \ threw : call[e].op.throws = "end"
    BY <1>3, EndFacts DEF Ending
  <2>2. \A e \in Calls : e # c => ends'[e] = ends[e]
    BY <1>0, <2>1
  <2>3. CASE Pop /\ c = frames[Len(frames)]
    <3>1. \A k \in 1..Len(frames') :
             /\ k \in 1..Len(frames) /\ k # Len(frames)
             /\ frames'[k] = frames[k] /\ Len(frames) \in 1..Len(frames)
      BY <2>3, PopFacts
    <3>2. \A k \in 1..Len(frames') : frames'[k] # c /\ frames'[k] \in Calls
      BY <2>3, <3>1 DEF FramesInv
    <3> QED BY <1>2, <2>1, <2>2, <2>3, <3>2
  <2>4. CASE call[c].callback /\ frames' = frames
    <3>1. Calls' = Calls
      BY <2>1 DEF Calls
    <3>2. ASSUME NEW k \in 1..Len(frames), ~call[frames[k]].callback
          PROVE  ends'[frames[k]] = 0
      BY <2>2, <2>4, <3>2 DEF FramesInv
    <3> QED BY <2>1, <2>4, <3>1, <3>2 DEF FramesInv
  <2> QED BY <1>3, <2>3, <2>4 DEF Ending
<1>4. CASE Quiet
  <2>1. UNCHANGED <<call, threw, ends>> /\ Calls' = Calls
    BY <1>4 DEF Quiet, Calls
  <2>2. CASE frames = <<>> /\ frames' = frames
    BY <2>1, <2>2 DEF FramesInv
  <2>3. CASE UNCHANGED <<inTurn, stack, frames>>
    BY <2>1, <2>3 DEF FramesInv
  <2>4. CASE Pop /\ inTurn' = inTurn
    BY <1>2, <2>1, <2>4
  <2> QED BY <1>4, <2>2, <2>3, <2>4 DEF Quiet
<1> QED BY <1>1, <1>3, <1>4, CallCases

LEMMA OpOf ==
    ASSUME CallTypeOK, NEW c \in Calls
    PROVE  call[c].op \in Ops /\ Sound(call[c].op)
<1> DEFINE Record == [op : Ops, callback : BOOLEAN, data : Call,
                      req : 0..MaxRequests]
<1>1. \A x \in Record : x.op \in Ops
  OBVIOUS
<1>2. call \in Seq(Record)
  BY DEF CallTypeOK
<1> HIDE DEF Record
<1>3. call[c] \in Record
  BY <1>2 DEF Calls
<1> QED BY <1>1, <1>3, OpFacts

(* The request that a hook of an ending call finds in its data is its own, *)
(* or it is switched off, unless requests were switched twice.             *)
LEMMA OwnRequest ==
    ASSUME BaseInv, CallTypeOK, DataInv, FramesInv, SharedInv, switches < 2,
           NEW c \in Calls, Ending(c), Tracks(call[c].op)
    PROVE  probeData[call[c].data].req \in {0, call[c].req}
<1>1. CASE ~call[c].op.shared
  BY <1>1 DEF DataInv
<1>2. CASE call[c].op.shared
  <2>1. ~call[c].callback /\ ~call[c].op.traced
    <3>1. Sound(call[c].op)
      BY OpOf
    <3> QED BY <1>2, <3>1 DEF DataInv, Sound
  <2>2. requestsOn
    BY <2>1 DEF Tracks
  <2>3. Len(frames) \in 1..Len(frames) /\ c = frames[Len(frames)]
    BY <2>1, PopFacts DEF Ending
  <2> QED BY <1>2, <2>2, <2>3 DEF SharedInv
<1> QED BY <1>1, <1>2

LEMMA SharedStep ==
    ASSUME BaseInv, CallTypeOK, DataInv, FramesInv, SharedInv,
           [CallNext]_callVars
    PROVE  SharedInv'
<1>0. /\ Len(call) \in Nat /\ Calls \subseteq Call /\ Calls \subseteq Nat
      /\ \A d \in Call : probeData[d] \in [timer : 0..Len(call),
                                           req : 0..Len(request)]
      /\ probeData = [d \in Call |-> probeData[d]]
      /\ switches \in Nat
      /\ \A e \in Calls : 1..e \subseteq Calls
  <2>1. Calls \subseteq Call
    BY CallConstants, RequestConstants DEF CallTypeOK, Calls, Call
  <2> QED BY <2>1, CallConstants DEF CallTypeOK, Calls
<1>1. ASSUME NEW op \in Ops, NEW callback \in BOOLEAN, BeginCall(op, callback)
      PROVE  SharedInv'
  <2>0. PICK c \in Nat : c = Len(call) + 1
    BY <1>0
  <2> DEFINE d == DataOf(c, op)
             t == StartTimer(c, op, probeData[d])
             n == Len(request) + 1
             fails == op.throws = "start" /\ requestsOn
             q == IF Tracks(op) /\ ~fails THEN n ELSE probeData[d].req
  <2>1. /\ c \in Call /\ c \notin Calls
        /\ Calls' = Calls \cup {c}
        /\ \A e \in Calls : call'[e] = call[e]
        /\ call'[c].op = op /\ call'[c].data = d
        /\ call'[c].req = IF Tracks(op) THEN n ELSE 0
        /\ d \in 1..c /\ call'[d].op = op /\ (~op.shared => d = c)
        /\ probeData' = [probeData EXCEPT ![d] = [timer |-> t, req |-> q]]
        /\ op.incoming => frames = <<>>
        /\ frames' = frames \/ frames' = Append(frames, c)
        /\ UNCHANGED <<requestsOn, switches>>
    BY <1>1, <2>0, BeginFacts
  <2>2. q = IF Tracks(op) /\ ~fails THEN n ELSE probeData[d].req
    OBVIOUS
  <2>3. (fails <=> op.throws = "start" /\ requestsOn) /\ Sound(op)
    BY OpFacts
  <2>4. d \in Call /\ (d = c \/ d \in Calls)
    <3>1. d \in Calls'
      BY <1>0, <2>0, <2>1 DEF Calls
    <3> QED BY <1>0, <2>1, <3>1
  <2> HIDE DEF t, q, d, n, fails
  <2>5. \A e \in Call : probeData'[e] = IF e = d THEN [timer |-> t, req |-> q]
                                        ELSE probeData[e]
    BY <1>0, <2>1, <2>4
  <2>6. ASSUME switches = 0, ~requestsOn, NEW e \in Calls',
               ~call'[e].op.traced
        PROVE  probeData'[e].req = 0 /\ call'[e].req = 0
    <3>1. CASE e = d
      <4>1. ~op.traced /\ ~Tracks(op)
        BY <2>1, <2>6, <3>1 DEF Tracks
      <4>2. probeData[d].req = 0
        <5>1. CASE d = c
          BY <2>1, <5>1 DEF DataInv
        <5>2. CASE d \in Calls
          BY <2>1, <2>6, <4>1, <5>2 DEF SharedInv
        <5> QED BY <2>4, <5>1, <5>2
      <4>3. call'[e].req = 0
        BY <2>1, <2>4, <2>6, <3>1, <4>1 DEF SharedInv
      <4> QED BY <2>2, <2>4, <2>5, <3>1, <4>1, <4>2, <4>3
    <3>2. CASE e # d /\ e \in Calls
      BY <1>0, <2>1, <2>5, <2>6, <3>2 DEF SharedInv
    <3>3. CASE e # d /\ e = c
      <4>1. ~Tracks(op)
        BY <2>1, <2>6, <3>3 DEF Tracks
      <4>2. probeData[c].req = 0
        BY <2>1 DEF DataInv
      <4> QED BY <2>1, <2>5, <3>3, <4>1, <4>2
    <3> QED BY <2>1, <3>1, <3>2, <3>3
  <2>7. ASSUME switches < 2, requestsOn, NEW k \in 1..Len(frames'),
               call'[frames'[k]].op.shared
        PROVE  probeData'[call'[frames'[k]].data].req
                  \in {0, call'[frames'[k]].req}
    <3>1. CASE frames' = Append(frames, c) /\ k = Len(frames')
      <4>1. frames'[k] = c
        BY <3>1, PushFacts
      <4>2. Tracks(op) /\ ~fails
        BY <2>1, <2>3, <2>7, <4>1 DEF Tracks, Sound
      <4> QED BY <2>1, <2>2, <2>4, <2>5, <4>1, <4>2
    <3>2. CASE k \in 1..Len(frames) /\ frames'[k] = frames[k]
      <4>1. frames[k] \in Calls /\ call'[frames[k]] = call[frames[k]]
        BY <2>1, <3>2 DEF FramesInv
      <4>2. call[frames[k]].data \in Calls
            /\ call[call[frames[k]].data].op.shared
        <5>1. /\ call[frames[k]].data \in 1..frames[k]
              /\ call[call[frames[k]].data].op = call[frames[k]].op
          BY <4>1 DEF DataInv
        <5> QED BY <1>0, <2>7, <3>2, <4>1, <5>1
      <4>3. ~op.shared /\ d = c
        <5>1. frames # <<>>
          BY <3>2
        <5> QED BY <2>1, <2>3, <5>1 DEF Sound
      <4>4. probeData'[call[frames[k]].data] = probeData[call[frames[k]].data]
        BY <1>0, <2>1, <2>5, <4>2, <4>3
      <4> QED BY <2>7, <3>2, <4>1, <4>4 DEF SharedInv
    <3> QED BY <2>1, <2>7, <3>1, <3>2, PushFacts
  <2> QED BY <2>1, <2>6, <2>7 DEF SharedInv
<1>2. CASE UNCHANGED <<call, probeData, requestsOn, switches>>
           /\ (frames' = frames \/ Pop)
  <2>1. Calls' = Calls
    BY <1>2 DEF Calls
  <2>2. \A k \in 1..Len(frames') :
           k \in 1..Len(frames) /\ frames'[k] = frames[k]
    BY <1>2, PopFacts
  <2> QED BY <1>2, <2>1, <2>2 DEF SharedInv
<1>3. ASSUME NEW c \in Calls, Ending(c)
      PROVE  SharedInv'
  BY <1>2, <1>3 DEF Ending
<1>4. CASE Quiet
  <2>1. UNCHANGED <<call, probeData>> /\ Calls' = Calls
    BY <1>4 DEF Quiet, timers, Calls
  <2>2. CASE UNCHANGED <<requestsOn, switches>>
    BY <1>2, <1>4, <2>1, <2>2 DEF Quiet
  <2>3. CASE switches' = switches + 1 /\ frames' = frames
             /\ (UNCHANGED requestsOn \/ requestsOn' = ~requestsOn)
    <3>1. switches' # 0
      BY <1>0, <2>3
    <3>2. ASSUME switches' < 2, requestsOn', NEW k \in 1..Len(frames),
                 call[frames[k]].op.shared
          PROVE  probeData[call[frames[k]].data].req
                    \in {0, call[frames[k]].req}
      <4>1. switches = 0
        BY <1>0, <2>3, <3>2
      <4>2. CASE requestsOn
        BY <3>2, <4>1, <4>2 DEF SharedInv
      <4>3. CASE ~requestsOn
        <5>1. frames[k] \in Calls /\ Sound(call[frames[k]].op)
          BY OpOf DEF FramesInv
        <5>2. ~call[frames[k]].op.traced
          BY <3>2, <5>1 DEF Sound
        <5>3. /\ call[frames[k]].data \in Calls
              /\ call[call[frames[k]].data].op = call[frames[k]].op
          BY <1>0, <5>1 DEF DataInv
        <5> QED BY <4>1, <4>3, <5>2, <5>3 DEF SharedInv
      <4> QED BY <4>2, <4>3
    <3> QED BY <2>1, <2>3, <3>1, <3>2 DEF SharedInv
  <2> QED BY <1>4, <2>2, <2>3 DEF Quiet, SwitchStep
<1> QED BY <1>1, <1>3, <1>4, CallCases

(* Until a request is stopped in a foreign domain, a call whose request is *)
(* active does not see its domain left: what is stopped at the top takes   *)
(* the rest of its domain along.                                           *)
LEMMA HomeStep ==
    ASSUME BaseInv, BaseInv', CallTypeOK, HooksInv, [CallNext]_callVars
    PROVE  FramesAtHome'
<1>0. DataInv /\ FramesInv /\ FramesAtHome
  BY DEF HooksInv
<1>a. active \subseteq Requests /\ 0 \notin Requests
  BY DEF BaseInv, TypeOK, Requests
<1>1. ASSUME NEW op \in Ops, NEW callback \in BOOLEAN, BeginCall(op, callback)
      PROVE  FramesAtHome'
  <2>0. PICK c \in Nat : c = Len(call) + 1
    BY DEF CallTypeOK
  <2> DEFINE d == DataOf(c, op)
             t == StartTimer(c, op, probeData[d])
             n == Len(request) + 1
  <2>1. /\ c \notin Calls /\ n \notin Requests
        /\ \A e \in Calls : call'[e] = call[e]
        /\ call'[c].req = IF Tracks(op) THEN n ELSE 0
        /\ op.incoming => frames = <<>>
        /\ frames' = frames \/ frames' = Append(frames, c)
        /\ foreign' = foreign
        /\ IF Tracks(op)
           THEN /\ \A r \in Requests : request'[r] = request[r]
                /\ request'[n].domain = Domain'
                /\ active' = active \cup {n}
                /\ ~op.root => Domain' = Domain
           ELSE UNCHANGED <<request, active, Domain>>
    BY <1>0, <1>1, <2>0, BeginFacts
  <2>2. n # 0 /\ n \notin 0..Len(request) /\ Sound(op)
    <3>1. Len(request) \in Nat
      BY DEF BaseInv, TypeOK
    <3> QED BY <3>1, OpFacts
  <2> HIDE DEF d, t, n
  <2>3. ASSUME ~foreign, NEW k \in 1..Len(frames),
               call'[frames[k]].req \in active'
        PROVE  request'[call'[frames[k]].req].domain = Domain'
    <3>1. frames[k] \in Calls /\ frames # <<>>
      BY <1>0 DEF FramesInv
    <3>2. /\ call'[frames[k]] = call[frames[k]]
          /\ call[frames[k]].req \in 0..Len(request)
      BY <1>0, <2>1, <3>1 DEF DataInv
    <3>3. ~op.root
      BY <2>1, <2>2, <3>1 DEF Sound
    <3>4. call[frames[k]].req \in active
      BY <2>1, <2>2, <2>3, <3>2
    <3>5. request[call[frames[k]].req].domain = Domain
      BY <1>0, <2>3, <3>4 DEF FramesAtHome
    <3> QED BY <1>a, <2>1, <3>2, <3>3, <3>4, <3>5
  <2>4. CASE frames' = frames
    BY <1>0, <2>1, <2>3, <2>4 DEF FramesAtHome
  <2>5. CASE frames' = Append(frames, c)
    <3>1. ASSUME ~foreign, NEW k \in 1..Len(frames'),
                 call'[frames'[k]].req \in active'
          PROVE  request'[call'[frames'[k]].req].domain = Domain'
      <4>1. CASE k = Len(frames')
        <5>1. frames'[k] = c
          BY <2>5, <4>1, PushFacts
        <5> QED BY <1>a, <2>1, <3>1, <5>1
      <4>2. CASE k # Len(frames')
        <5>1. k \in 1..Len(frames) /\ frames'[k] = frames[k]
          BY <2>5, <4>2, PushFacts
        <5> QED BY <2>3, <3>1, <5>1
      <4> QED BY <4>1, <4>2
    <3> QED BY <1>0, <2>1, <3>1 DEF FramesAtHome
  <2> QED BY <2>1, <2>4, <2>5
<1>2. ASSUME frames' = frames \/ Pop, UNCHANGED <<call, request, Domain>>,
             active' \subseteq active, ~foreign' => ~foreign
      PROVE  FramesAtHome'
  <2>1. \A k \in 1..Len(frames') :
           k \in 1..Len(frames) /\ frames'[k] = frames[k]
    BY <1>0, <1>2, PopFacts
  <2> QED BY <1>0, <1>2, <2>1 DEF FramesAtHome
<1>3. ASSUME NEW c \in Calls, Ending(c)
      PROVE  FramesAtHome'
  <2> DEFINE r == probeData[call[c].data].req
             t == probeData[call[c].data].timer
  <2>1. /\ UNCHANGED <<call, request>> /\ (frames' = frames \/ Pop)
        /\ IF Tracks(call[c].op) /\ r \in active
           THEN /\ Stop(r) /\ r \in Requests /\ r # 0
                /\ active' = active \ StoppedWith(r)
                /\ foreign' = (foreign \/ Domain # request[r].domain)
           ELSE UNCHANGED vars
    <3>1. EndHooks(c) /\ UNCHANGED call /\ (frames' = frames \/ Pop)
      BY <1>3 DEF Ending
    <3> QED BY <1>0, <3>1, EndFacts
  <2> HIDE DEF r, t
  <2>3. CASE UNCHANGED vars
    <3>1. UNCHANGED <<active, foreign, Domain>>
      BY <2>3 DEF vars, Domain
    <3> QED BY <1>0, <1>2, <2>1, <3>1
  <2>4. CASE Tracks(call[c].op) /\ r \in active
    <3>1. /\ stack' = IF Domain # 0 /\ request[r].parent = 0
                      THEN SubSeq(stack, 1, Len(stack) - 1) ELSE stack
      BY <2>1, <2>4, StopFacts DEF BaseInv, TreesInv
    <3>a. /\ ~foreign' => ~foreign /\ Domain = request[r].domain
          /\ active' \subseteq active
      BY <2>1, <2>4
    <3>2. ASSUME Domain # 0 /\ request[r].parent = 0
          PROVE  FramesAtHome'
      <4>1. ASSUME ~foreign', NEW k \in 1..Len(frames'),
                   call'[frames'[k]].req \in active'
            PROVE  FALSE
        <5>1. k \in 1..Len(frames) /\ frames'[k] = frames[k]
          BY <1>0, <2>1, <4>1, PopFacts
        <5>2. PICK q \in active : q = call[frames[k]].req /\ q \in active'
          BY <2>1, <2>4, <4>1, <5>1
        <5>3. request[q].domain = Domain /\ ~foreign
              /\ Domain = request[r].domain
          BY <1>0, <2>1, <2>4, <4>1, <5>1, <5>2 DEF FramesAtHome
        <5>4. request[q].top = request[r].top
          BY <2>4, <3>2, <5>2, <5>3 DEF BaseInv, OneTree
        <5>5. request[r].top = r
          BY <2>1, <2>4, <3>2 DEF BaseInv, IdInv, TreeInv, NodeInv
        <5>6. q \in StoppedWith(request[q].top)
          BY <5>2, <5>3 DEF BaseInv, TreesInv, HomeInv
        <5> QED BY <2>1, <2>4, <5>2, <5>4, <5>5, <5>6
      <4> QED BY <4>1 DEF FramesAtHome
    <3>3. ASSUME ~(Domain # 0 /\ request[r].parent = 0)
          PROVE  FramesAtHome'
      <4>1. Domain' = Domain
        BY <3>1, <3>3 DEF Domain
      <4> QED BY <1>2, <2>1, <3>a, <4>1
    <3> QED BY <3>2, <3>3
  <2> QED BY <2>1, <2>3, <2>4
<1>4. CASE Quiet
  <2>1. UNCHANGED <<call, request, active, foreign>>
    BY <1>4 DEF Quiet
  <2>2. CASE frames = <<>> /\ frames' = frames
    BY <2>2 DEF FramesAtHome
  <2>3. CASE UNCHANGED stack /\ (frames' = frames \/ Pop)
    <3>1. Domain' = Domain
      BY <2>3 DEF Domain
    <3> QED BY <1>2, <2>1, <2>3, <3>1
  <2> QED BY <1>4, <2>2, <2>3 DEF Quiet
<1> QED BY <1>0, <1>1, <1>3, <1>4, CallCases

LEMMA HooksStep ==
    ASSUME BaseInv, BaseInv', CallTypeOK, CallTypeOK', HooksInv,
           [CallNext]_callVars
    PROVE  HooksInv'
<1>1. FramesAtHome'
  BY HomeStep
<1>2. DataInv' /\ FramesInv' /\ SharedInv'
  BY DataStep, FramesStep, SharedStep DEF HooksInv
<1>3. switches' \in Nat
  BY CallConstants DEF CallTypeOK
<1> QED BY <1>1, <1>2, <1>3 DEF HooksInv

(* What the probes keep, all together.                                     *)
CallsInv == BaseInv /\ CallTypeOK /\ HooksInv

LEMMA CallsInit == CallInit => CallsInv
<1> SUFFICES ASSUME CallInit PROVE CallsInv
  OBVIOUS
<1>1. BaseInv /\ request = <<>> /\ active = {} /\ foreign = FALSE
  BY BaseInit DEF CallInit, Init
<1>2. /\ metricsOn \in BOOLEAN /\ requestsOn \in BOOLEAN
      /\ switches = 0 /\ call = <<>> /\ frames = <<>>
      /\ ends = [c \in Call |-> 0]
      /\ probeData = [d \in Call |-> [timer |-> 0, req |-> 0]]
      /\ requestTimer = <<>> /\ stopped = {} /\ threw = {} /\ events = <<>>
  BY DEF CallInit
<1>3. CallTypeOK
  BY <1>1, <1>2, CallConstants, RequestConstants DEF CallTypeOK, BaseInv
<1>4. Calls = {}
  BY <1>2 DEF Calls
<1>5. DataInv /\ FramesInv
  BY <1>2, <1>4 DEF DataInv, FramesInv
<1>6. SharedInv /\ FramesAtHome
  BY <1>2, <1>4 DEF SharedInv, FramesAtHome
<1> QED BY <1>1, <1>2, <1>3, <1>5, <1>6 DEF CallsInv, HooksInv

LEMMA CallsStep == CallsInv /\ [CallNext]_callVars => CallsInv'
<1> SUFFICES ASSUME CallsInv, [CallNext]_callVars PROVE CallsInv'
  OBVIOUS
<1>1. BaseInv'
  BY CallStep, BaseStep DEF CallsInv, BaseInv
<1>2. CallTypeOK'
  BY <1>1, CallTypeStep DEF CallsInv, HooksInv
<1>3. HooksInv'
  BY <1>1, <1>2, HooksStep DEF CallsInv
<1> QED BY <1>1, <1>2, <1>3 DEF CallsInv

LEMMA CallsInvariant == CallSpec => []CallsInv
BY CallsInit, CallsStep, PTL DEF CallSpec

(* Until a callback strays, the end hooks of every call that has not       *)
(* returned find a request of the present domain, or none that is active.  *)
THEOREM ReturnsStopAtHome == CallSpec => []CallInv
<1>1. ASSUME CallsInv PROVE ReturnsAtHome
  <2> SUFFICES ASSUME switches < 2, ~foreign, NEW k \in 1..Len(frames),
                      NEW c, c = frames[k], Tracks(call[c].op),
                      probeData[call[c].data].req \in active
               PROVE  request[probeData[call[c].data].req].domain = Domain
    BY DEF ReturnsAtHome
  <2>1. /\ DataInv /\ FramesInv /\ SharedInv /\ FramesAtHome
        /\ CallTypeOK /\ c \in Calls /\ 0 \notin active
    BY <1>1 DEF CallsInv, HooksInv, FramesInv, BaseInv, TypeOK, Requests
  <2>2. probeData[call[c].data].req \in {0, call[c].req}
    <3>1. CASE ~call[c].op.shared
      BY <2>1, <3>1 DEF DataInv
    <3>2. CASE call[c].op.shared
      <4>1. requestsOn
        BY <2>1, <3>2, OpOf DEF Sound, Tracks
      <4> QED BY <2>1, <3>2, <4>1 DEF SharedInv
    <3> QED BY <3>1, <3>2
  <2>3. call[c].req \in active /\ probeData[call[c].data].req = call[c].req
    BY <2>1, <2>2
  <2> QED BY <2>1, <2>3 DEF FramesAtHome
<1>2. CallsInv => CallInv
  BY <1>1 DEF CallsInv, CallInv
<1> QED BY <1>2, CallsInvariant, PTL

(* The first request that is stopped in a foreign domain is stopped by a   *)
(* callback: no call does that when it returns, and no start of a call or  *)
(* turn of the loop (unless requests were switched off and on again).      *)
THEOREM OnlyCallbacksStray ==
    CallSpec => [][foreign' /\ ~foreign /\ switches < 2 =>
                      \E c \in 1..Len(call) : CallBack(c)]_callVars
<1>1. ASSUME CallsInv, ReturnsAtHome, [CallNext]_callVars,
             foreign', ~foreign, switches < 2
      PROVE  \E c \in 1..Len(call) : CallBack(c)
  <2>1. CASE Return
    <3> DEFINE c == frames[Len(frames)]
               r == probeData[call[c].data].req
               t == probeData[call[c].data].timer
    <3>1. foreign' # foreign
      BY <1>1
    <3>2. EndHooks(c) /\ Len(frames) \in 1..Len(frames)
      <4>1. EndHooks(c)
        BY <2>1, <3>1 DEF Return, vars
      <4>2. frames # <<>> /\ frames \in Seq(1..Len(call))
        BY <1>1, <2>1 DEF Return, CallsInv, CallTypeOK
      <4> QED BY <4>1, <4>2
    <3>3. c \in Calls
      BY <1>1, <3>2 DEF CallsInv, HooksInv, FramesInv
    <3>4. IF Tracks(call[c].op) /\ r \in active
          THEN foreign' = (foreign \/ Domain # request[r].domain)
          ELSE UNCHANGED vars
      BY <1>1, <3>2, <3>3, EndFacts DEF CallsInv, HooksInv
    <3>5. Tracks(call[c].op) /\ r \in active /\ Domain # request[r].domain
      BY <1>1, <3>1, <3>4 DEF vars
    <3>6. request[r].domain = Domain
      BY <1>1, <3>2, <3>5 DEF ReturnsAtHome
    <3> QED BY <3>5, <3>6
  <2>2. ASSUME NEW op, NEW callback, BeginCall(op, callback)
        PROVE  FALSE
    <3>1. foreign' = foreign
      BY <2>2 DEF BeginCall, StartRequest, Start, vars
    <3> QED BY <1>1, <3>1
  <2>3. CASE Turn
    BY <1>1, <2>3 DEF Turn, BeginTurn, EndTurn
  <2>4. CASE SwitchMetrics \/ SwitchRequests \/ UNCHANGED callVars
    BY <1>1, <2>4 DEF SwitchMetrics, SwitchRequests, callVars, vars
  <2> QED BY <1>1, <2>1, <2>2, <2>3, <2>4 DEF CallNext
<1>2. CallsInv /\ CallInv /\ [CallNext]_callVars
         => [foreign' /\ ~foreign /\ switches < 2 =>
                \E c \in 1..Len(call) : CallBack(c)]_callVars
  BY <1>1 DEF CallInv
<1> QED BY <1>2, CallsInvariant, ReturnsStopAtHome, PTL DEF CallSpec

-----------------------------------------------------------------------------
(* Without a switch, the end hooks of a call find its own request, and the *)
(* data that a listener shares is that of the message being handled.       *)
SharedIsOwn ==
    \A k \in 1..Len(frames) :
       LET c == frames[k]
       IN  call[c].op.shared => probeData[call[c].data].req = call[c].req

UnswitchedInv == switches = 0 => EndedIsStopped /\ SharedIsOwn

LEMMA CallNumbers ==
    ASSUME CallTypeOK
    PROVE  /\ Calls \subseteq Call /\ Calls \subseteq Nat /\ Len(call) \in Nat
           /\ \A c \in Calls : 1..c \subseteq Calls
<1>1. Calls \subseteq Call /\ Len(call) \in Nat
  BY CallConstants, RequestConstants DEF CallTypeOK, Calls, Call
<1> QED BY <1>1 DEF Calls

(* The data of a call that shares it is not touched while it is under way: *)
(* whatever begins then does not come from outside.                        *)
LEMMA SharedDataKept ==
    ASSUME CallsInv, NEW op \in Ops, NEW callback \in BOOLEAN,
           BeginCall(op, callback),
           NEW k \in 1..Len(frames), call[frames[k]].op.shared
    PROVE  probeData'[call[frames[k]].data] = probeData[call[frames[k]].data]
<1>0. PICK c \in Nat : c = Len(call) + 1
  BY DEF CallsInv, CallTypeOK
<1> DEFINE d == DataOf(c, op)
           t == StartTimer(c, op, probeData[d])
           n == Len(request) + 1
<1>1. /\ c \notin Calls
      /\ ~op.shared => d = c
      /\ op.incoming => frames = <<>>
      /\ probeData' = [probeData EXCEPT ![d] =
            [timer |-> t,
             req |-> IF Tracks(op) /\ ~(op.throws = "start" /\ requestsOn)
                     THEN n ELSE probeData[d].req]]
  BY <1>0, BeginFacts DEF CallsInv, HooksInv
<1> HIDE DEF d, t, n
<1>2. ~op.shared
  BY <1>1, OpFacts DEF Sound
<1>3. /\ frames[k] \in Calls /\ call[frames[k]].data \in 1..frames[k]
      /\ Calls \subseteq Call /\ Len(call) \in Nat
  <2>1. frames[k] \in Calls
    BY DEF CallsInv, HooksInv, FramesInv
  <2>2. Calls \subseteq Call /\ Len(call) \in Nat
    BY CallNumbers DEF CallsInv
  <2> QED BY <2>1, <2>2 DEF CallsInv, HooksInv, DataInv
<1>4. call[frames[k]].data \in Calls
  BY <1>3 DEF Calls
<1>5. probeData = [e \in Call |-> probeData[e]]
  BY DEF CallsInv, CallTypeOK
<1> QED BY <1>1, <1>2, <1>3, <1>4, <1>5

LEMMA UnswitchedStep ==
    ASSUME CallsInv, UnswitchedInv, [CallNext]_callVars
    PROVE  UnswitchedInv'
<1>0. /\ DataInv /\ FramesInv /\ SharedInv /\ BaseInv /\ CallTypeOK
      /\ switches \in Nat /\ Len(call) \in Nat
      /\ Calls \subseteq Call
  BY CallNumbers DEF CallsInv, HooksInv
<1>a. active \subseteq Requests /\ 0 \notin Requests
  BY <1>0 DEF BaseInv, TypeOK, Requests
<1>b. \A c \in Calls : /\ call[c].data \in Calls
                       /\ call[call[c].data].op = call[c].op
  <2>1. \A c \in Calls : 1..c \subseteq Calls
    BY <1>0 DEF Calls
  <2> QED BY <1>0, <2>1 DEF DataInv
<1>1. ASSUME NEW op \in Ops, NEW callback \in BOOLEAN,
             BeginCall(op, callback), switches' = 0
      PROVE  EndedIsStopped' /\ SharedIsOwn'
  <2>0. PICK c \in Nat : c = Len(call) + 1
    BY <1>0
  <2> DEFINE d == DataOf(c, op)
             t == StartTimer(c, op, probeData[d])
             n == Len(request) + 1
             fails == op.throws = "start" /\ requestsOn
             q == IF Tracks(op) /\ ~fails THEN n ELSE probeData[d].req
  <2>1. /\ c \in Call /\ c \notin Calls /\ n \notin Requests
        /\ Calls' = Calls \cup {c}
        /\ \A e \in Calls : call'[e] = call[e]
        /\ call'[c].op = op /\ call'[c].data = d
        /\ call'[c].req = IF Tracks(op) THEN n ELSE 0
        /\ d \in 1..c /\ call'[d].op = op
        /\ probeData' = [probeData EXCEPT ![d] = [timer |-> t, req |-> q]]
        /\ frames' = frames \/ frames' = Append(frames, c)
        /\ UNCHANGED <<requestsOn, switches, ends>>
        /\ active' = active \/ active' = active \cup {n}
    BY <1>0, <1>1, <2>0, BeginFacts
  <2>2. /\ Sound(op) /\ n \notin 0..Len(request)
        /\ q = IF Tracks(op) /\ ~fails THEN n ELSE probeData[d].req
        /\ fails => op.throws = "start"
    <3>1. Len(request) \in Nat
      BY <1>0 DEF BaseInv, TypeOK
    <3> QED BY <3>1, OpFacts
  <2> HIDE DEF d, t, n, fails, q
  <2>3. d \in Call /\ (d = c \/ d \in Calls)
    <3>1. d \in Calls'
      BY <1>0, <2>0, <2>1 DEF Calls
    <3> QED BY <1>0, <2>1, <3>1
  <2>4. probeData'[d].req = q
    <3>1. probeData = [e \in Call |-> probeData[e]]
      BY <1>0 DEF CallTypeOK
    <3> QED BY <2>1, <2>3, <3>1
  <2>5. ASSUME NEW e \in Calls', ends'[e] # 0
        PROVE  call'[e].req \notin active'
    <3>1. e \in Calls
      BY <1>0, <2>1, <2>5 DEF DataInv
    <3>2. call[e].req \notin active /\ call[e].req \in 0..Len(request)
      BY <1>0, <1>1, <2>1, <2>5, <3>1
         DEF UnswitchedInv, EndedIsStopped, Calls, DataInv
    <3> QED BY <2>1, <2>2, <3>1, <3>2
  <2>6. ASSUME NEW k \in 1..Len(frames'), call'[frames'[k]].op.shared
        PROVE  probeData'[call'[frames'[k]].data].req = call'[frames'[k]].req
    <3>1. CASE frames' = Append(frames, c) /\ k = Len(frames')
      <4>1. frames'[k] = c
        BY <1>0, <3>1, PushFacts
      <4>2. op.shared /\ ~op.traced /\ ~fails
        BY <2>1, <2>2, <2>6, <4>1 DEF Sound
      <4>3. CASE Tracks(op)
        BY <2>1, <2>2, <2>4, <4>1, <4>2, <4>3
      <4>4. CASE ~Tracks(op)
        <5>1. probeData[d].req = 0
          <6>1. CASE d = c
            BY <1>0, <2>1, <6>1 DEF DataInv
          <6>2. CASE d \in Calls
            <7>1. call[d].op = op
              BY <2>1, <6>2
            <7> QED BY <1>0, <1>1, <2>1, <4>2, <4>4, <6>2, <7>1
                    DEF SharedInv, Tracks
          <6> QED BY <2>3, <6>1, <6>2
        <5> QED BY <2>1, <2>2, <2>4, <4>1, <4>4, <5>1
      <4> QED BY <4>3, <4>4
    <3>2. CASE k \in 1..Len(frames) /\ frames'[k] = frames[k]
      <4>1. frames[k] \in Calls /\ call'[frames[k]] = call[frames[k]]
        BY <1>0, <2>1, <3>2 DEF FramesInv
      <4>2. probeData'[call[frames[k]].data] = probeData[call[frames[k]].data]
        BY <1>1, <2>6, <3>2, <4>1, SharedDataKept
      <4> QED BY <1>1, <2>1, <2>6, <3>2, <4>1, <4>2
              DEF UnswitchedInv, SharedIsOwn
    <3> QED BY <1>0, <2>1, <2>6, <3>1, <3>2, PushFacts
  <2> QED BY <2>5, <2>6 DEF EndedIsStopped, SharedIsOwn, Calls
<1>2. ASSUME UNCHANGED <<call, probeData>>, frames' = frames \/ Pop,
             switches = 0
      PROVE  SharedIsOwn'
  <2>1. \A k \in 1..Len(frames') :
           k \in 1..Len(frames) /\ frames'[k] = frames[k]
    BY <1>0, <1>2, PopFacts
  <2> QED BY <1>2, <2>1 DEF UnswitchedInv, SharedIsOwn
<1>3. ASSUME NEW c \in Calls, Ending(c), switches' = 0
      PROVE  EndedIsStopped' /\ SharedIsOwn'
  <2> DEFINE r == probeData[call[c].data].req
             t == probeData[call[c].data].timer
  <2>1. /\ UNCHANGED <<call, probeData, switches>>
        /\ frames' = frames \/ Pop
        /\ ends' = [ends EXCEPT ![c] = @ + 1]
        /\ IF Tracks(call[c].op) /\ r \in active
           THEN active' = active \ StoppedWith(r) /\ r # 0 /\ r \notin active'
           ELSE UNCHANGED vars
        /\ Sound(call[c].op)
    <3>1. EndHooks(c) /\ UNCHANGED <<call, probeData, switches>>
          /\ (frames' = frames \/ Pop)
      BY <1>3 DEF Ending
    <3>2. Sound(call[c].op)
      BY <1>0, OpOf
    <3> QED BY <1>0, <3>1, <3>2, EndFacts
  <2>2. r = probeData[call[c].data].req /\ switches = 0
    BY <1>3, <2>1
  <2> HIDE DEF r, t
  <2>3. active' \subseteq active
    BY <2>1 DEF vars
  <2>4. call[c].req \notin active'
    <3>1. CASE ~Tracks(call[c].op)
      <4>1. ~requestsOn /\ ~call[c].op.traced
        BY <2>1, <3>1 DEF Tracks, Sound
      <4> QED BY <1>0, <1>a, <2>2, <2>3, <4>1 DEF SharedInv
    <3>2. CASE Tracks(call[c].op)
      <4>1. r = call[c].req
        <5>1. CASE call[c].op.shared
          <6>1. ~call[c].callback
            BY <1>0, <5>1 DEF DataInv
          <6>2. Len(frames) \in 1..Len(frames) /\ c = frames[Len(frames)]
            BY <1>0, <1>3, <6>1, PopFacts DEF Ending
          <6> QED BY <2>2, <5>1, <6>2 DEF UnswitchedInv, SharedIsOwn
        <5>2. CASE ~call[c].op.shared
          <6>1. ~Failed(c)
            BY <1>3 DEF Ending, Failed
          <6> QED BY <1>0, <2>2, <5>2, <6>1 DEF DataInv
        <5> QED BY <5>1, <5>2
      <4>2. CASE r \in active
        BY <2>1, <3>2, <4>1, <4>2
      <4>3. CASE r \notin active
        BY <2>3, <4>1, <4>3
      <4> QED BY <4>2, <4>3
    <3> QED BY <3>1, <3>2
  <2>5. \A e \in Calls : e # c => ends'[e] = ends[e]
    <3>1. ends = [e \in Call |-> ends[e]]
      BY <1>0 DEF CallTypeOK
    <3> QED BY <1>0, <2>1, <3>1
  <2>6. EndedIsStopped'
    <3>1. \A e \in Calls : ends[e] # 0 => call[e].req \notin active
      BY <2>2 DEF UnswitchedInv, EndedIsStopped, Calls
    <3>2. \A e \in Calls : ends'[e] # 0 => call[e].req \notin active'
      BY <2>3, <2>4, <2>5, <3>1
    <3> QED BY <2>1, <3>2 DEF EndedIsStopped, Calls
  <2> QED BY <1>2, <2>1, <2>2, <2>6
<1>4. ASSUME Quiet, switches' = 0
      PROVE  EndedIsStopped' /\ SharedIsOwn'
  <2>1. switches = 0 /\ UNCHANGED <<call, ends, active, probeData>>
        /\ (frames' = frames \/ Pop)
    BY <1>0, <1>4 DEF Quiet, SwitchStep, timers
  <2>2. EndedIsStopped'
    BY <2>1 DEF UnswitchedInv, EndedIsStopped
  <2> QED BY <1>2, <2>1, <2>2
<1> QED BY <1>0, <1>1, <1>3, <1>4, CallCases DEF UnswitchedInv

LEMMA UnswitchedInit == CallInit => UnswitchedInv
<1> SUFFICES ASSUME CallInit PROVE UnswitchedInv
  OBVIOUS
<1>1. call = <<>> /\ frames = <<>>
  BY DEF CallInit
<1> QED BY <1>1 DEF UnswitchedInv, EndedIsStopped, SharedIsOwn

(* Without a switch, no call that is over leaves an active request behind. *)
THEOREM EndedCallsAreStopped == CallSpec => []EndedIsStopped
<1>1. UnswitchedInv => EndedIsStopped
  BY DEF UnswitchedInv, EndedIsStopped
<1> QED BY <1>1, CallsInvariant, UnswitchedInit, UnswitchedStep, PTL
        DEF CallSpec

(* While metrics are on, each call has made its timer, and the data that a *)
(* listener shares has that of the message being handled.                  *)
OwnTimers ==
    /\ \A c \in Calls :
          ~call[c].op.shared /\ ~call[c].op.traced => probeData[c].timer = c
    /\ \A k \in 1..Len(frames) :
          LET c == frames[k]
          IN  call[c].op.shared => probeData[call[c].data].timer = c

TimersInv == switches = 0 /\ metricsOn => MeasuredByItself /\ OwnTimers

LEMMA TimersStep ==
    ASSUME CallsInv, TimersInv, [CallNext]_callVars
    PROVE  TimersInv'
<1>0. /\ DataInv /\ FramesInv /\ BaseInv /\ CallTypeOK
      /\ switches \in Nat /\ Len(call) \in Nat
      /\ Calls \subseteq Call /\ Calls \subseteq Nat
      /\ probeData = [e \in Call |-> probeData[e]]
      /\ ends = [e \in Call |-> ends[e]]
  <2>1. CallTypeOK
    BY DEF CallsInv
  <2>2. /\ probeData = [e \in Call |-> probeData[e]]
        /\ ends = [e \in Call |-> ends[e]]
    BY <2>1 DEF CallTypeOK
  <2> QED BY <2>1, <2>2, CallNumbers DEF CallsInv, HooksInv
<1>1. ASSUME NEW op \in Ops, NEW callback \in BOOLEAN,
             BeginCall(op, callback), switches' = 0, metricsOn'
      PROVE  MeasuredByItself' /\ OwnTimers'
  <2>0. PICK c \in Nat : c = Len(call) + 1
    BY <1>0
  <2>a. BeginCall(op, callback)
    BY <1>1
  <2> DEFINE d == DataOf(c, op)
             t == StartTimer(c, op, probeData[d])
             n == Len(request) + 1
             q == IF Tracks(op) /\ ~(op.throws = "start" /\ requestsOn)
                  THEN n ELSE probeData[d].req
  <2>1. /\ c \in Call /\ c \notin Calls
        /\ Calls' = Calls \cup {c}
        /\ \A e \in Calls : call'[e] = call[e]
        /\ call'[c].op = op /\ call'[c].data = d
        /\ d \in 1..c /\ call'[d].op = op /\ (~op.shared => d = c)
        /\ probeData' = [probeData EXCEPT ![d] = [timer |-> t, req |-> q]]
        /\ frames' = frames \/ frames' = Append(frames, c)
        /\ UNCHANGED <<metricsOn, switches, ends, events>>
    BY <1>0, <2>a, <2>0, BeginFacts
  <2>2. Sound(op) /\ t = IF ~op.traced THEN c ELSE probeData[d].timer
    BY <1>1, <2>1, OpFacts DEF StartTimer, Measures
  <2> HIDE DEF d, t, n, q
  <2>3. d \in Call /\ (d = c \/ d \in Calls)
    <3>1. d \in Calls'
      BY <1>0, <2>0, <2>1 DEF Calls
    <3> QED BY <1>0, <2>1, <3>1
  <2>4. \A e \in Call : probeData'[e] = IF e = d THEN [timer |-> t, req |-> q]
                                        ELSE probeData[e]
    BY <1>0, <2>1, <2>3
  <2>5. MeasuredByItself'
    <3>1. \A i \in 1..Len(events) : events[i].timer = events[i].call
      BY <1>1, <2>1 DEF TimersInv, MeasuredByItself
    <3>2. ASSUME NEW e \in Calls', ends[e] # 0, ~call'[e].op.traced
          PROVE  \E i \in 1..Len(events) : events[i].call = e
      <4>1. e \in Calls
        BY <1>0, <2>1, <3>2 DEF DataInv
      <4> QED BY <1>1, <2>1, <3>2, <4>1 DEF TimersInv, MeasuredByItself, Calls
    <3> QED BY <2>1, <3>1, <3>2 DEF MeasuredByItself, Calls
  <2>6. ASSUME NEW e \in Calls', ~call'[e].op.shared, ~call'[e].op.traced
        PROVE  probeData'[e].timer = e
    <3>1. CASE e = c
      BY <2>1, <2>2, <2>4, <2>6, <3>1
    <3>2. CASE e \in Calls
      <4>1. e # d
        BY <2>1, <2>6, <3>2
      <4> QED BY <1>0, <1>1, <2>1, <2>4, <2>6, <3>2, <4>1
              DEF TimersInv, OwnTimers
    <3> QED BY <2>1, <3>1, <3>2
  <2>7. ASSUME NEW k \in 1..Len(frames'), call'[frames'[k]].op.shared
        PROVE  probeData'[call'[frames'[k]].data].timer = frames'[k]
    <3>1. CASE frames' = Append(frames, c) /\ k = Len(frames')
      <4>1. frames'[k] = c
        BY <1>0, <3>1, PushFacts
      <4> QED BY <2>1, <2>2, <2>3, <2>4, <2>7, <4>1 DEF Sound
    <3>2. CASE k \in 1..Len(frames) /\ frames'[k] = frames[k]
      <4>1. frames[k] \in Calls /\ call'[frames[k]] = call[frames[k]]
        BY <1>0, <2>1, <3>2 DEF FramesInv
      <4>2. probeData'[call[frames[k]].data] = probeData[call[frames[k]].data]
        BY <1>1, <2>7, <3>2, <4>1, SharedDataKept
      <4> QED BY <1>1, <2>1, <2>7, <3>2, <4>1, <4>2 DEF TimersInv, OwnTimers
    <3> QED BY <1>0, <2>1, <2>7, <3>1, <3>2, PushFacts
  <2> QED BY <2>5, <2>6, <2>7 DEF OwnTimers
<1>2. ASSUME UNCHANGED <<call, probeData>>, frames' = frames \/ Pop,
             switches = 0, metricsOn
      PROVE  OwnTimers'
  <2>1. \A k \in 1..Len(frames') :
           k \in 1..Len(frames) /\ frames'[k] = frames[k]
    BY <1>0, <1>2, PopFacts
  <2> QED BY <1>2, <2>1 DEF TimersInv, OwnTimers, Calls
<1>3. ASSUME NEW c \in Calls, Ending(c), switches' = 0, metricsOn'
      PROVE  MeasuredByItself' /\ OwnTimers'
  <2> DEFINE t == probeData[call[c].data].timer
             r == probeData[call[c].data].req
             event == [call |-> c, timer |-> t,
                       whole |-> ends[c] # 0 \/ t \notin stopped]
  <2>1. /\ UNCHANGED <<call, probeData, switches, metricsOn>>
        /\ frames' = frames \/ Pop
        /\ ends' = [ends EXCEPT ![c] = @ + 1]
        /\ events' = IF ~call[c].op.traced /\ t # 0
                     THEN Append(events, event) ELSE events
    BY <1>0, <1>3, EndFacts DEF Ending, Measures
  <2>2. t = probeData[call[c].data].timer /\ switches = 0 /\ metricsOn
        /\ event.call = c /\ event.timer = t
    BY <1>3, <2>1
  <2> HIDE DEF t, r, event
  <2>3. ASSUME ~call[c].op.traced PROVE t = c
    <3>1. CASE call[c].op.shared
      <4>1. ~call[c].callback
        BY <1>0, <3>1 DEF DataInv
      <4>2. Len(frames) \in 1..Len(frames) /\ c = frames[Len(frames)]
        BY <1>0, <1>3, <4>1, PopFacts DEF Ending
      <4> QED BY <2>2, <3>1, <4>2 DEF TimersInv, OwnTimers
    <3>2. CASE ~call[c].op.shared
      BY <1>0, <2>2, <2>3, <3>2 DEF TimersInv, OwnTimers, DataInv
    <3> QED BY <3>1, <3>2
  <2>4. \A e \in Calls : e # c => ends'[e] = ends[e]
    BY <1>0, <2>1
  <2>5. /\ \A i \in 1..Len(events) : events[i].timer = events[i].call
        /\ \A e \in Calls : ends[e] # 0 /\ ~call[e].op.traced =>
              \E i \in 1..Len(events) : events[i].call = e
    BY <2>2 DEF TimersInv, MeasuredByItself, Calls
  <2>6. CASE call[c].op.traced
    <3>1. events' = events
      BY <2>1, <2>6
    <3>2. \A e \in Calls : ends'[e] # 0 /\ ~call[e].op.traced =>
             \E i \in 1..Len(events) : events[i].call = e
      BY <2>4, <2>5, <2>6
    <3>3. MeasuredByItself'
      BY <2>1, <2>5, <3>1, <3>2 DEF MeasuredByItself, Calls
    <3> QED BY <1>2, <2>1, <2>2, <3>3
  <2>7. CASE ~call[c].op.traced
    <3> DEFINE Event == [call : 1..Len(call), timer : 1..Len(call),
                         whole : BOOLEAN]
    <3>1. events \in Seq(Event)
      BY <1>0 DEF CallTypeOK
    <3> HIDE DEF Event
    <3>2. events' = Append(events, event) /\ event.timer = event.call
      BY <1>0, <2>1, <2>2, <2>3, <2>7 DEF Calls
    <3>3. /\ Len(events) \in Nat /\ Len(events') = Len(events) + 1
          /\ events'[Len(events')] = event
          /\ \A i \in 1..Len(events) : events'[i] = events[i]
      BY <3>1, <3>2
    <3>4. \A i \in 1..Len(events') : events'[i].timer = events'[i].call
      BY <2>5, <3>2, <3>3
    <3>5. ASSUME NEW e \in Calls, ends'[e] # 0, ~call[e].op.traced
          PROVE  \E i \in 1..Len(events') : events'[i].call = e
      <4>1. CASE e = c
        BY <2>2, <3>3, <4>1
      <4>2. CASE e # c
        BY <2>4, <2>5, <3>3, <3>5, <4>2
      <4> QED BY <4>1, <4>2
    <3>6. MeasuredByItself'
      BY <2>1, <3>4, <3>5 DEF MeasuredByItself, Calls
    <3> QED BY <1>2, <2>1, <2>2, <3>6
  <2> QED BY <2>6, <2>7
<1>4. ASSUME Quiet, switches' = 0, metricsOn'
      PROVE  MeasuredByItself' /\ OwnTimers'
  <2>0. Quiet /\ switches' = 0
    BY <1>4
  <2>a. /\ switches = 0 /\ metricsOn' = metricsOn
        /\ UNCHANGED <<call, ends, events, probeData>>
        /\ frames' = frames \/ Pop
    BY <1>0, <2>0 DEF Quiet, SwitchStep, timers
  <2>1. /\ switches = 0 /\ metricsOn
        /\ UNCHANGED <<call, ends, events, probeData>>
        /\ frames' = frames \/ Pop
    BY <1>4, <2>a
  <2>2. MeasuredByItself'
    BY <2>1 DEF TimersInv, MeasuredByItself
  <2> QED BY <1>2, <2>1, <2>2
<1> QED BY <1>0, <1>1, <1>3, <1>4, CallCases DEF TimersInv

LEMMA TimersInit == CallInit => TimersInv
<1> SUFFICES ASSUME CallInit PROVE TimersInv
  OBVIOUS
<1>1. call = <<>> /\ frames = <<>> /\ events = <<>>
  BY DEF CallInit
<1> QED BY <1>1 DEF TimersInv, MeasuredByItself, OwnTimers, Calls

(* Without a switch, an event is about its own call, and every call that   *)
(* is over has one.                                                        *)
THEOREM CallsMeasureThemselves == CallSpec => []MeasuredByItself
<1>1. TimersInv => MeasuredByItself
  BY DEF TimersInv, MeasuredByItself
<1> QED BY <1>1, CallsInvariant, TimersInit, TimersStep, PTL DEF CallSpec

(* The request of a call has the timer of that call, if any, and until a   *)
(* root call is over nothing has stopped its timer: its request is below   *)
(* no other.                                                               *)
RequestTimersInv ==
    /\ ~metricsOn => \A d \in Call : probeData[d].timer = 0
    /\ \A c \in Call \ Calls : probeData[c].timer = 0
    /\ \A c \in Calls : call[c].op.traced => probeData[c].timer = 0
    /\ \A q \in Requests : requestTimer[q] # 0 =>
          /\ requestTimer[q] \in Calls
          /\ call[requestTimer[q]].req = q

RootsRun ==
    metricsOn => \A c \in Calls :
                     call[c].op.root /\ ends[c] = 0 => c \notin stopped

WholeInv == switches = 0 => RequestTimersInv /\ RootsRun /\ RootIsWhole

(* The end hooks of a call find its own timer while metrics are on.        *)
LEMMA OwnTimer ==
    ASSUME CallsInv, TimersInv, switches = 0, NEW c \in Calls, Ending(c),
           Measures(call[c].op)
    PROVE  probeData[call[c].data].timer = c
<1>0. DataInv /\ FramesInv /\ CallTypeOK /\ OwnTimers /\ ~call[c].op.traced
  BY DEF CallsInv, HooksInv, TimersInv, Measures
<1>1. CASE call[c].op.shared
  <2>1. ~call[c].callback
    BY <1>0, <1>1 DEF DataInv
  <2>2. Len(frames) \in 1..Len(frames) /\ c = frames[Len(frames)]
    BY <1>0, <2>1, PopFacts DEF Ending
  <2> QED BY <1>0, <1>1, <2>2 DEF OwnTimers
<1>2. CASE ~call[c].op.shared
  BY <1>0, <1>2 DEF OwnTimers, DataInv
<1> QED BY <1>1, <1>2

LEMMA WholeBegin ==
    ASSUME CallsInv, WholeInv, switches = 0,
           NEW op \in Ops, NEW callback \in BOOLEAN, BeginCall(op, callback)
    PROVE  RequestTimersInv' /\ RootsRun' /\ RootIsWhole'
<1>0. /\ DataInv /\ BaseInv /\ CallTypeOK
      /\ Len(call) \in Nat /\ Calls \subseteq Call
      /\ probeData = [e \in Call |-> probeData[e]]
      /\ requestTimer \in Seq(0..Len(call))
      /\ Len(requestTimer) = Len(request)
      /\ stopped \subseteq Calls
      /\ \A i \in 1..Len(events) : events[i].call \in Calls
  <2>1. CallTypeOK
    BY DEF CallsInv
  <2>2. /\ probeData = [e \in Call |-> probeData[e]]
        /\ requestTimer \in Seq(0..Len(call))
        /\ Len(requestTimer) = Len(request)
        /\ stopped \subseteq Calls
    BY <2>1 DEF CallTypeOK, Calls
  <2>3. \A i \in 1..Len(events) : events[i].call \in Calls
    <3> DEFINE Event == [call : 1..Len(call), timer : 1..Len(call),
                         whole : BOOLEAN]
    <3>1. \A x \in Event : x.call \in Calls
      BY DEF Calls
    <3>2. events \in Seq(Event)
      BY <2>1 DEF CallTypeOK
    <3> HIDE DEF Event
    <3> QED BY <3>1, <3>2
  <2> QED BY <2>1, <2>2, <2>3, CallNumbers DEF CallsInv, HooksInv
<1>1. /\ RequestTimersInv /\ RootsRun /\ RootIsWhole
  BY DEF WholeInv
<1>2. PICK c \in Nat : c = Len(call) + 1
  BY <1>0
<1> DEFINE d == DataOf(c, op)
           t == StartTimer(c, op, probeData[d])
           n == Len(request) + 1
           q == IF Tracks(op) /\ ~(op.throws = "start" /\ requestsOn)
                THEN n ELSE probeData[d].req
<1>3. /\ c \in Call /\ c \notin Calls /\ n \notin Requests
      /\ Calls' = Calls \cup {c}
      /\ \A e \in Calls : call'[e] = call[e]
      /\ call'[c].op = op /\ call'[c].data = d
      /\ call'[c].req = IF Tracks(op) THEN n ELSE 0
      /\ d \in 1..c /\ call'[d].op = op /\ (~op.shared => d = c)
      /\ probeData' = [probeData EXCEPT ![d] = [timer |-> t, req |-> q]]
      /\ UNCHANGED <<metricsOn, switches, ends, stopped, events>>
      /\ IF Tracks(op)
         THEN /\ Requests' = Requests \cup {n}
              /\ requestTimer' = Append(requestTimer,
                    IF op.timed THEN t ELSE 0)
         ELSE UNCHANGED <<request, requestTimer>>
  BY <1>0, <1>2, BeginFacts
<1>4. /\ n = Len(request) + 1 /\ Sound(op)
      /\ t = IF metricsOn /\ ~op.traced THEN c ELSE probeData[d].timer
  BY OpFacts DEF StartTimer, Measures
<1> HIDE DEF d, t, n, q
<1>5. d \in Call /\ (d = c \/ d \in Calls)
  <2>1. d \in Calls'
    BY <1>0, <1>2, <1>3 DEF Calls
  <2> QED BY <1>0, <1>3, <2>1
<1>6. \A e \in Call : probeData'[e] = IF e = d THEN [timer |-> t, req |-> q]
                                      ELSE probeData[e]
  BY <1>0, <1>3, <1>5
<1>7. t \in {0, c}
  <2>1. CASE op.traced
    BY <1>1, <1>3, <1>4, <2>1 DEF RequestTimersInv, Sound
  <2>2. CASE ~op.traced
    BY <1>1, <1>4, <1>5, <2>2 DEF RequestTimersInv
  <2> QED BY <2>1, <2>2
<1>8. ~metricsOn \/ op.traced => t = 0
  <2>1. CASE op.traced
    BY <1>1, <1>3, <1>4, <2>1 DEF RequestTimersInv, Sound
  <2>2. CASE ~metricsOn
    BY <1>1, <1>4, <1>5, <2>2 DEF RequestTimersInv
  <2> QED BY <2>1, <2>2
<1>9. RequestTimersInv'
  <2>1. ~metricsOn => \A e \in Call : probeData'[e].timer = 0
    BY <1>1, <1>6, <1>8 DEF RequestTimersInv
  <2>2. \A e \in Call \ Calls' : probeData'[e].timer = 0
    BY <1>1, <1>3, <1>5, <1>6 DEF RequestTimersInv
  <2>3. ASSUME NEW e \in Calls', call'[e].op.traced
        PROVE  probeData'[e].timer = 0
    <3>1. CASE e = d
      BY <1>3, <1>5, <1>6, <1>8, <2>3, <3>1
    <3>2. CASE e # d /\ e \in Calls
      BY <1>0, <1>1, <1>3, <1>6, <2>3, <3>2 DEF RequestTimersInv
    <3>3. CASE e # d /\ e = c
      BY <1>1, <1>3, <1>6, <3>3 DEF RequestTimersInv
    <3> QED BY <1>3, <3>1, <3>2, <3>3
  <2>4. ASSUME NEW s \in Requests, requestTimer[s] # 0
        PROVE  /\ requestTimer[s] \in Calls'
               /\ call'[requestTimer[s]].req = s
    BY <1>1, <1>3, <2>4 DEF RequestTimersInv
  <2>5. ASSUME NEW s \in Requests', requestTimer'[s] # 0
        PROVE  /\ requestTimer'[s] \in Calls'
               /\ call'[requestTimer'[s]].req = s
    <3>1. CASE Tracks(op)
      <4>1. /\ requestTimer'[n] = IF op.timed THEN t ELSE 0
            /\ \A p \in Requests : requestTimer'[p] = requestTimer[p]
        <5> DEFINE x == IF op.timed THEN t ELSE 0
                   S == 0..Len(call)
        <5>1. requestTimer' = Append(requestTimer, x)
          BY <1>3, <3>1
        <5>2. requestTimer \in Seq(S)
          BY <1>0
        <5> HIDE DEF x, S
        <5>3. /\ requestTimer'[Len(requestTimer) + 1] = x
              /\ \A p \in 1..Len(requestTimer) :
                    requestTimer'[p] = requestTimer[p]
          BY <5>1, <5>2
        <5> QED BY <1>0, <1>4, <5>3 DEF Requests, x
      <4>2. CASE s = n
        BY <1>3, <1>7, <2>5, <3>1, <4>1, <4>2
      <4>3. CASE s \in Requests
        BY <2>4, <2>5, <4>1, <4>3
      <4> QED BY <1>3, <3>1, <4>2, <4>3
    <3>2. CASE ~Tracks(op)
      BY <1>3, <2>4, <2>5, <3>2 DEF Requests
    <3> QED BY <3>1, <3>2
  <2> QED BY <1>3, <2>1, <2>2, <2>3, <2>5 DEF RequestTimersInv
<1>10. RootsRun'
  <2>1. c \notin stopped
    BY <1>0, <1>3
  <2> QED BY <1>1, <1>3, <2>1 DEF RootsRun
<1>11. RootIsWhole'
  <2>1. events' = events /\ switches' = switches
    BY <1>3
  <2>2. \A i \in 1..Len(events) : call'[events[i].call] = call[events[i].call]
    BY <1>0, <1>3
  <2> QED BY <1>1, <2>1, <2>2 DEF RootIsWhole
<1> QED BY <1>9, <1>10, <1>11

LEMMA WholeEnd ==
    ASSUME CallsInv, TimersInv, WholeInv, switches = 0,
           NEW c \in Calls, Ending(c)
    PROVE  RequestTimersInv' /\ RootsRun' /\ RootIsWhole'
<1>0. /\ DataInv /\ FramesInv /\ SharedInv /\ BaseInv /\ CallTypeOK
      /\ Calls \subseteq Call
      /\ ends = [e \in Call |-> ends[e]]
  <2>1. CallTypeOK
    BY DEF CallsInv
  <2>2. ends = [e \in Call |-> ends[e]]
    BY <2>1 DEF CallTypeOK
  <2> QED BY <2>1, <2>2, CallNumbers DEF CallsInv, HooksInv
<1>1. RequestTimersInv /\ RootsRun /\ RootIsWhole
  BY DEF WholeInv
<1> DEFINE t == probeData[call[c].data].timer
           r == probeData[call[c].data].req
           event == [call |-> c, timer |-> t,
                     whole |-> ends[c] # 0 \/ t \notin stopped]
           own == IF Measures(call[c].op) /\ t # 0 THEN {t} ELSE {}
<1>2. /\ UNCHANGED <<call, probeData, switches, metricsOn, requestTimer>>
      /\ UNCHANGED request
      /\ ends' = [ends EXCEPT ![c] = @ + 1]
      /\ events' = IF Measures(call[c].op) /\ t # 0
                   THEN Append(events, event) ELSE events
      /\ IF Tracks(call[c].op) /\ r \in active
         THEN r \in Requests /\ r # 0
              /\ stopped' = stopped \cup own \cup TimersBelow(r)
         ELSE stopped' = stopped \cup own
  BY <1>0, EndFacts DEF Ending
<1>3. Calls' = Calls /\ Requests' = Requests
  BY <1>2 DEF Calls, Requests
<1>4. Measures(call[c].op) => t = c
  BY OwnTimer
<1>5. ends[c] \in Nat /\ \A e \in Calls : e # c => ends'[e] = ends[e]
  <2>1. ends[c] \in 0..MaxEnds
    BY <1>0 DEF CallTypeOK
  <2> QED BY <1>0, <1>2, <2>1
<1>6. r = probeData[call[c].data].req /\ own \subseteq {c}
      /\ event.call = c
  BY <1>4
<1>7. (ends[c] # 0 \/ t \notin stopped) => event.whole
  BY Zenon
<1> HIDE DEF t, r, event, own
<1>8. RequestTimersInv'
  BY <1>1, <1>2, <1>3 DEF RequestTimersInv
<1>9. RootsRun'
  <2> SUFFICES ASSUME metricsOn, NEW e \in Calls, call[e].op.root,
                      ends'[e] = 0, e \in stopped'
               PROVE  FALSE
    BY <1>2, <1>3 DEF RootsRun
  <2>1. e # c
    BY <1>0, <1>2, <1>5
  <2>2. e \notin stopped /\ e \notin own
    BY <1>1, <1>5, <1>6, <2>1 DEF RootsRun
  <2>3. /\ Tracks(call[c].op) /\ r \in active /\ r \in Requests /\ r # 0
        /\ e \in TimersBelow(r)
    BY <1>2, <2>2
  <2>4. PICK q \in StoppedWith(r) : requestTimer[q] = e /\ e # 0
    BY <2>3 DEF TimersBelow
  <2>5. q \in Requests
    BY <2>3, <2>4, StoppedFacts, <1>0 DEF BaseInv
  <2>6. call[e].req = q /\ q # 0
    BY <1>1, <2>4, <2>5 DEF RequestTimersInv, Requests
  <2>7. request[q].root
    BY <1>0, <2>6 DEF DataInv
  <2>8. q = r
    BY <1>0, <2>3, <2>4, <2>7, NoRootBelow DEF BaseInv, TreesInv
  <2>9. r = call[c].req
    BY <1>0, <1>6, <2>3, OwnRequest
  <2> QED BY <1>0, <2>1, <2>6, <2>8, <2>9 DEF DataInv
<1>10. RootIsWhole'
  <2>1. CASE ~(Measures(call[c].op) /\ t # 0)
    BY <1>1, <1>2, <2>1 DEF RootIsWhole
  <2>2. CASE Measures(call[c].op) /\ t # 0
    <3> DEFINE Event == [call : 1..Len(call), timer : 1..Len(call),
                         whole : BOOLEAN]
    <3>1. events \in Seq(Event)
      BY <1>0 DEF CallTypeOK
    <3> HIDE DEF Event
    <3>2. /\ Len(events) \in Nat /\ Len(events') = Len(events) + 1
          /\ events'[Len(events')] = event
          /\ \A i \in 1..Len(events) : events'[i] = events[i]
      BY <1>2, <2>2, <3>1
    <3>3. call[c].op.root => event.whole
      BY <1>1, <1>4, <1>7, <2>2 DEF RootsRun, Measures
    <3>4. ASSUME NEW i \in 1..Len(events'), call[events'[i].call].op.root
          PROVE  events'[i].whole
      <4>1. CASE i = Len(events')
        <5>1. events'[i] = event
          BY <3>2, <4>1
        <5> QED BY <1>6, <3>3, <3>4, <5>1, Zenon
      <4>2. CASE i # Len(events')
        <5>1. i \in 1..Len(events) /\ events'[i] = events[i]
          BY <3>2, <4>2
        <5> QED BY <1>1, <3>4, <5>1, Zenon DEF RootIsWhole
      <4> QED BY <4>1, <4>2
    <3> QED BY <1>2, <3>4 DEF RootIsWhole
  <2> QED BY <2>1, <2>2
<1> QED BY <1>8, <1>9, <1>10

LEMMA WholeStep ==
    ASSUME CallsInv, TimersInv, WholeInv, [CallNext]_callVars
    PROVE  WholeInv'
<1>0. FramesInv /\ CallTypeOK /\ switches \in Nat
  BY DEF CallsInv, HooksInv
<1>1. ASSUME NEW op \in Ops, NEW callback \in BOOLEAN,
             BeginCall(op, callback)
      PROVE  WholeInv'
  <2>1. switches' = switches
    BY <1>1 DEF BeginCall
  <2> QED BY <1>1, <2>1, WholeBegin DEF WholeInv
<1>2. ASSUME NEW c \in Calls, Ending(c)
      PROVE  WholeInv'
  <2>1. switches' = switches
    BY <1>2 DEF Ending
  <2> QED BY <1>2, <2>1, WholeEnd DEF WholeInv
<1>3. CASE Quiet
  <2>1. SwitchStep /\ UNCHANGED <<request, call, ends, timers, events>>
    BY <1>3 DEF Quiet
  <2>2. CASE switches' = switches + 1
    BY <1>0, <2>2 DEF WholeInv
  <2>3. CASE UNCHANGED <<metricsOn, switches>>
    <3>1. UNCHANGED <<probeData, requestTimer, stopped>>
      BY <2>1 DEF timers
    <3> QED BY <2>1, <2>3, <3>1
            DEF WholeInv, RequestTimersInv, RootsRun, RootIsWhole, Calls,
                Requests
  <2> QED BY <2>1, <2>2, <2>3 DEF SwitchStep
<1> QED BY <1>0, <1>1, <1>2, <1>3, CallCases

LEMMA WholeInit == CallInit => WholeInv
<1> SUFFICES ASSUME CallInit PROVE WholeInv
  OBVIOUS
<1>1. /\ call = <<>> /\ events = <<>> /\ request = <<>>
      /\ probeData = [d \in Call |-> [timer |-> 0, req |-> 0]]
  BY DEF CallInit, Init
<1> QED BY <1>1
        DEF WholeInv, RequestTimersInv, RootsRun, RootIsWhole, Calls, Requests

(* Without a switch, the time of a root call is measured to its end.       *)
THEOREM RootCallsAreWhole == CallSpec => []RootIsWhole
<1>1. WholeInv => RootIsWhole
  BY DEF WholeInv, RootIsWhole
<1> QED BY <1>1, CallsInvariant, TimersInit, TimersStep, WholeInit, WholeStep,
           PTL DEF CallSpec
=============================================================================
