--------------------------- MODULE NodePoolProof ---------------------------
(* Theorems about NodePool for any nodes, clusters and clients: types, and  *)
(* which nodes get no meeting whatever the ORM cache holds.                 *)
EXTENDS NodePool, WellFoundedInduction, TLAPS

-----------------------------------------------------------------------------
(* The loop over the nodes of a cluster.                                    *)

\* Some member of a set that is not empty has the lowest load.
LEMMA LeastExists ==
    ASSUME NEW U, NEW l, \A n \in U : l[n] \in Nat, U # {}
    PROVE  \E n \in U : \A m \in U : l[n] <= l[m]
<1> DEFINE T == {l[n] : n \in U}
<1>1. T \subseteq Nat /\ T # {}
  OBVIOUS
<1>2. \E x \in T : \A y \in T : ~(<<y, x>> \in OpToRel(<, Nat))
  BY <1>1, NatLessThanWellFounded, WFMin
<1>3. \E x \in T : \A y \in T : x <= y
  <2>1. PICK x \in T : \A y \in T : ~(<<y, x>> \in OpToRel(<, Nat))
    BY <1>2
  <2>2. ASSUME NEW y \in T PROVE x <= y
    <3>1. x \in Nat /\ y \in Nat
      BY <1>1
    <3>2. ~(y < x)
      BY <2>1, <3>1 DEF OpToRel
    <3> QED BY <3>1, <3>2
  <2> QED BY <2>2
<1> QED BY <1>3

\* A load of zero or more is that of a healthy node out of maintenance.
LEMMA LoadOf ==
    ASSUME NEW r \in Row
    PROVE  Load(r) \in Int /\ (0 <= Load(r) => ~r.err /\ ~r.maint)
<1>1. /\ r.work \in Int /\ r.cpu \in Int /\ Scale \in Nat \ {0}
      /\ r.maint \in BOOLEAN /\ r.err \in BOOLEAN
  <2>1. CpuLoads \subseteq Nat /\ MaxWork \in Nat
    BY PoolConstantsOK
  <2>2. r.work \in 0 .. MaxWork /\ r.cpu \in CpuLoads
    BY DEF Row
  <2>3. r.maint \in BOOLEAN /\ r.err \in BOOLEAN
    BY DEF Row
  <2>4. r.work \in Int
    BY <2>1, <2>2
  <2>5. r.cpu \in Int
    <3>1. \A x \in Nat : x \in Int
      OBVIOUS
    <3> QED BY <3>1, <2>1, <2>2, Zenon
  <2> QED BY <2>3, <2>4, <2>5, PoolConstantsOK
<1>2. CASE r.maint
  BY <1>2 DEF Load
<1>3. CASE ~r.maint /\ r.err
  BY <1>3 DEF Load
<1>4. CASE ~r.maint /\ ~r.err
  BY <1>1, <1>4 DEF Load
<1> QED BY <1>1, <1>2, <1>3, <1>4

\* What the loop returns, and which nodes it can add.
LEMMA LowestFacts ==
    ASSUME NEW q \in Request, NEW k \in Clusters,
           NEW l, DOMAIN l = Members(k), \A n \in Members(k) : l[n] \in Int
    PROVE  /\ Lowest(q, k, l) \in Request
           /\ Lowest(q, k, l).pc = "choose"
           /\ Lowest(q, k, l).node = q.node
           /\ \A n \in Lowest(q, k, l).best \ q.best : n \in Members(k) /\ 0 <= l[n]
<1> DEFINE p == [lowest |-> q.lowest, best |-> q.best]
           usable == {n \in DOMAIN l : 0 <= l[n] /\ l[n] <= q.lowest}
           least  == {n \in usable : \A m \in usable : l[n] <= l[m]}
           after  == LookedAt(p, l)
<1>1. q.lowest \in Int /\ q.best \subseteq Nodes /\ q.todo \subseteq Clusters
      /\ q.node \in Nodes \cup {NoView}
  BY DEF Request
<1>2. least \subseteq Members(k) /\ Members(k) \subseteq Nodes
  BY DEF Members
<1>3. /\ after.lowest \in Int /\ after.best \subseteq q.best \cup least
  <2>1. CASE usable = {}
    <3>1. after = p
      BY <2>1 DEF LookedAt
    <3> QED BY <1>1, <3>1
  <2>2. CASE usable # {}
    <3>1. \A n \in usable : l[n] \in Nat
      BY <1>1
    <3>2. least # {}
      BY <3>1, <2>2, LeastExists
    <3>3. (CHOOSE n \in least : TRUE) \in least
      BY <3>2
    <3>4. \A n \in least : l[n] \in Int
      BY <3>1
    <3> DEFINE low == l[CHOOSE n \in least : TRUE]
    <3>5. low \in Int
      BY <3>3, <3>4
    <3>6. after = [lowest |-> low, best |-> IF low = q.lowest THEN q.best \cup least ELSE least]
      BY <2>2 DEF LookedAt
    <3> HIDE DEF usable, least, after, low
    <3> QED BY <3>5, <3>6
  <2> QED BY <2>1, <2>2
<1>4. Lowest(q, k, l) = [q EXCEPT !.pc = "choose", !.todo = q.todo \ {k},
                                  !.lowest = after.lowest, !.best = after.best,
                                  !.from = NoView, !.view = NoView]
  BY DEF Lowest
<1>5. after.best \subseteq Nodes /\ q.todo \ {k} \subseteq Clusters
  BY <1>1, <1>2, <1>3
<1>6. \A n \in after.best \ q.best : n \in Members(k) /\ 0 <= l[n]
  BY <1>3
<1> HIDE DEF usable, least, after, p
<1> QED BY <1>1, <1>3, <1>4, <1>5, <1>6 DEF Request

\* The same for a view of the rows.
LEMMA ConsideredFacts ==
    ASSUME NEW q \in Request, NEW k \in Clusters, NEW v, IsView(v, k)
    PROVE  /\ Considered(q, k, v) \in Request
           /\ Considered(q, k, v).pc = "choose"
           /\ Considered(q, k, v).node = q.node
           /\ \A n \in Considered(q, k, v).best \ q.best :
                 n \in Members(k) /\ ~v[n].err /\ ~v[n].maint
<1> DEFINE l == [n \in Members(k) |-> Load(v[n])]
<1>1. \A n \in Members(k) : v[n] \in Row
  BY DEF IsView
<1>2. \A n \in Members(k) : l[n] \in Int /\ (0 <= l[n] => ~v[n].err /\ ~v[n].maint)
  BY <1>1, LoadOf
<1>3. Considered(q, k, v) = Lowest(q, k, l) /\ DOMAIN l = Members(k)
  BY DEF Considered
<1> HIDE DEF l
<1> QED BY <1>2, <1>3, LowestFacts

\* A query's answer is a view.
LEMMA ViewIsView ==
    ASSUME table \in [Nodes -> Row], NEW k \in Clusters
    PROVE  IsView(View(k), k) /\ View(k) \in Views
BY DEF IsView, View, Views, Members

-----------------------------------------------------------------------------
(* Types.                                                                   *)

\* The part of TypeOK about requests, for those of one client.
OkRequest(q) ==
    /\ q \in Request
    /\ q.pc = "store" => q.from \in Clusters /\ IsView(q.view, q.from)
    /\ q.pc = "insert" => q.node \in Nodes

OkCache(x, k) == x \in Views \cup {NoView} /\ (x = NoView \/ IsView(x, k))

\* TypeOK, said with the operators above.
LEMMA TypeParts ==
    TypeOK <=> /\ table \in [Nodes -> Row]
               /\ cached \in [Clusters -> Views \cup {NoView}]
               /\ \A k \in Clusters : OkCache(cached[k], k)
               /\ req \in [Clients -> Request]
               /\ \A c \in Clients : OkRequest(req[c])
               /\ check \in [Nodes -> Check]
               /\ form = NoForm \/ form \in [node : Nodes, row : Row]
BY DEF TypeOK, OkRequest, OkCache

\* One client's request, one cluster's cache entry, one node's row, one check.
LEMMA ReqBecomes ==
    ASSUME TypeOK, NEW c \in Clients, NEW q, OkRequest(q),
           req' = [req EXCEPT ![c] = q]
    PROVE  /\ req' \in [Clients -> Request]
           /\ \A d \in Clients : OkRequest(req'[d])
BY TypeParts DEF OkRequest

LEMMA CacheBecomes ==
    ASSUME TypeOK, NEW k \in Clusters, NEW x, OkCache(x, k),
           cached' = [cached EXCEPT ![k] = x]
    PROVE  /\ cached' \in [Clusters -> Views \cup {NoView}]
           /\ \A j \in Clusters : OkCache(cached'[j], j)
BY TypeParts DEF OkCache

LEMMA SaveTyped ==
    ASSUME TypeOK, NEW n \in Nodes, NEW r \in Row, Save(n, r)
    PROVE  table' \in [Nodes -> Row] /\ UNCHANGED cached
BY TypeParts DEF Save

LEMMA CheckBecomes ==
    ASSUME TypeOK, NEW n \in Nodes, NEW x \in Check,
           check' = [check EXCEPT ![n] = x]
    PROVE  check' \in [Nodes -> Check]
BY TypeParts

LEMMA InitTypeOK == Init => TypeOK
<1> SUFFICES ASSUME Init PROVE TypeOK
  OBVIOUS
<1>1. [work : {0}, cpu : {0}, err : {TRUE}, maint : BOOLEAN] \subseteq Row
  <2>1. 0 \in 0 .. MaxWork /\ 0 \in CpuLoads
    BY PoolConstantsOK
  <2> QED BY <2>1 DEF Row
<1>2. OkRequest(NoRequest)
  BY PoolConstantsOK, LoadCapAssumption DEF OkRequest, NoRequest, Request
<1>3. NoCheck \in Check
  BY PoolConstantsOK DEF NoCheck, Check
<1>4. table \in [Nodes -> Row] /\ req \in [Clients -> Request]
      /\ check \in [Nodes -> Check] /\ form = NoForm
  BY <1>1, <1>2, <1>3 DEF Init, OkRequest
<1>5. \A c \in Clients : OkRequest(req[c])
  BY <1>2 DEF Init
<1>6. cached \in [Clusters -> Views \cup {NoView}]
      /\ \A k \in Clusters : OkCache(cached[k], k)
  BY DEF Init, OkCache
<1> QED BY <1>4, <1>5, <1>6, TypeParts

\* Every variable stays in its type, step by step.
LEMMA NextTypeOK == TypeOK /\ [Next]_vars => TypeOK'
<1> SUFFICES ASSUME TypeOK, [Next]_vars PROVE TypeOK'
  OBVIOUS
<1> USE DEF Next
<1> DEFINE
      TableOK == table' \in [Nodes -> Row]
      CachedOK == /\ cached' \in [Clusters -> Views \cup {NoView}]
                  /\ \A j \in Clusters : OkCache(cached'[j], j)
      ReqOK == /\ req' \in [Clients -> Request]
               /\ \A d \in Clients : OkRequest(req'[d])
      CheckOK == check' \in [Nodes -> Check]
      FormOK == form' = NoForm \/ form' \in [node : Nodes, row : Row]
<1>0. TypeOK' <=> TableOK /\ CachedOK /\ ReqOK /\ CheckOK /\ FormOK
  BY TypeParts DEF TypeOK, OkRequest, OkCache
<1>1. /\ UNCHANGED table => TableOK
      /\ UNCHANGED cached => CachedOK
      /\ UNCHANGED req => ReqOK
      /\ UNCHANGED check => CheckOK
      /\ UNCHANGED form => FormOK
  BY TypeParts
<1>2. OkRequest(NoRequest) /\ NoCheck \in Check
  BY PoolConstantsOK, LoadCapAssumption DEF OkRequest, NoRequest, Request, NoCheck, Check
<1>3. \A n \in Nodes : table[n] \in Row
  BY TypeParts
<1> HIDE DEF TableOK, CachedOK, ReqOK, CheckOK, FormOK
<1>4. ASSUME NEW c \in Clients, ChooseStep(c) PROVE TypeOK'
  <2>0. req[c] \in Request /\ OkRequest(req[c])
    BY TypeParts
  <2>1. CASE ChooseBegin(c)
    <3>1. OkRequest([NoRequest EXCEPT !.pc = "choose", !.todo = Clusters])
      BY <1>2 DEF OkRequest, NoRequest, Request
    <3> QED BY <3>1, <2>1, ReqBecomes, <1>0, <1>1 DEF ChooseBegin, ReqOK
  <2>2. ASSUME NEW k \in Clusters, ChooseHit(c, k) PROVE TypeOK'
    <3>1. IsView(cached[k], k)
      BY <2>2, TypeParts DEF ChooseHit, OkCache
    <3>2. OkRequest(Considered(req[c], k, cached[k]))
      BY <2>0, <3>1, ConsideredFacts DEF OkRequest
    <3>3. req' = [req EXCEPT ![c] = Considered(req[c], k, cached[k])]
      BY <2>2 DEF ChooseHit
    <3> QED BY <2>2, <3>2, <3>3, ReqBecomes, <1>0, <1>1 DEF ChooseHit, ReqOK
  <2>3. ASSUME NEW k \in Clusters, ChooseQuery(c, k) PROVE TypeOK'
    <3>1. IsView(View(k), k) /\ View(k) \in Views
      BY TypeParts, ViewIsView
    <3> DEFINE q == [req[c] EXCEPT !.pc = "store", !.from = k, !.view = View(k)]
    <3>2. OkRequest(q)
      BY <2>0, <3>1 DEF OkRequest, Request
    <3>3. req' = [req EXCEPT ![c] = q] /\ UNCHANGED cached
      BY <2>3 DEF ChooseQuery
    <3> HIDE DEF q
    <3> QED BY <2>3, <3>2, <3>3, ReqBecomes, <1>0, <1>1 DEF ChooseQuery, ReqOK
  <2>4. CASE ChooseStore(c)
    <3>1. req[c].from \in Clusters /\ IsView(req[c].view, req[c].from)
          /\ req[c].view \in Views \cup {NoView}
      BY <2>0, <2>4 DEF ChooseStore, OkRequest, Request
    <3>2. OkRequest(Considered(req[c], req[c].from, req[c].view))
      BY <2>0, <3>1, ConsideredFacts DEF OkRequest
    <3>3. /\ req' = [req EXCEPT ![c] = Considered(req[c], req[c].from, req[c].view)]
          /\ cached' = [cached EXCEPT ![req[c].from] = req[c].view]
      BY <2>4 DEF ChooseStore
    <3>4. ReqOK
      BY <3>2, <3>3, ReqBecomes DEF ReqOK
    <3>5. OkCache(req[c].view, req[c].from)
      BY <3>1 DEF OkCache
    <3>6. CachedOK
      BY <3>1, <3>3, <3>5, CacheBecomes DEF CachedOK
    <3> QED BY <2>4, <3>4, <3>6, <1>0, <1>1 DEF ChooseStore
  <2>8. CASE ChooseNoStore(c)
    <3>1. req[c].from \in Clusters /\ IsView(req[c].view, req[c].from)
      BY <2>0, <2>8 DEF ChooseNoStore, OkRequest
    <3>2. OkRequest(Considered(req[c], req[c].from, req[c].view))
      BY <2>0, <3>1, ConsideredFacts DEF OkRequest
    <3>3. req' = [req EXCEPT ![c] = Considered(req[c], req[c].from, req[c].view)]
      BY <2>8 DEF ChooseNoStore
    <3> QED BY <2>8, <3>2, <3>3, ReqBecomes, <1>0, <1>1 DEF ChooseNoStore, ReqOK
  <2>5. ASSUME NEW n \in Nodes, ChoosePick(c, n) PROVE TypeOK'
    <3> DEFINE q == [req[c] EXCEPT !.pc = "insert", !.node = n]
    <3>1. OkRequest(q)
      BY <2>0 DEF OkRequest, Request
    <3>2. req' = [req EXCEPT ![c] = q]
      BY <2>5 DEF ChoosePick
    <3> HIDE DEF q
    <3> QED BY <2>5, <3>1, <3>2, ReqBecomes, <1>0, <1>1 DEF ChoosePick, ReqOK
  <2>6. CASE Penalty(c)
    <3>1. req[c].node \in Nodes /\ Charged(req[c].node).work <= MaxWork
      BY <2>0, <2>6 DEF Penalty, OkRequest
    <3>2. Charged(req[c].node) \in Row
      <4> DEFINE r == table[req[c].node]
                 w == r.work + Charge[ClusterOf[req[c].node]]
      <4>1. r \in Row
        BY <3>1, <1>3
      <4>2. Charge[ClusterOf[req[c].node]] \in Nat
        BY <3>1, PoolConstantsOK
      <4>3. Charged(req[c].node) = [r EXCEPT !.work = w]
        BY DEF Charged
      <4>4. Charged(req[c].node).work = w
        BY <4>1, <4>3 DEF Row
      <4>5. w \in 0 .. MaxWork
        <5>1. r.work \in 0 .. MaxWork /\ MaxWork \in Nat
          BY <4>1, PoolConstantsOK DEF Row
        <5>2. w <= MaxWork
          BY <3>1, <4>4
        <5> HIDE DEF r
        <5> QED BY <4>2, <5>1, <5>2
      <4> HIDE DEF r, w
      <4> QED BY <4>1, <4>3, <4>5 DEF Row
    <3>3. TableOK /\ CachedOK
      BY <2>6, <3>1, <3>2, <1>1, SaveTyped DEF Penalty, TableOK
    <3>4. ReqOK
      BY <2>6, <1>2, ReqBecomes DEF Penalty, ReqOK
    <3> QED BY <2>6, <3>3, <3>4, <1>0, <1>1 DEF Penalty
  <2>7. CASE ChooseEnd(c)
    BY <2>7, <1>2, ReqBecomes, <1>0, <1>1 DEF ChooseEnd, ReqOK
  <2> QED BY <1>4, <2>1, <2>2, <2>3, <2>4, <2>5, <2>6, <2>7, <2>8 DEF ChooseStep
<1>5. ASSUME NEW n \in Nodes, PollStep(n) PROVE TypeOK'
  <2>0. check[n] \in Check
    BY TypeParts
  <2>1. ASSUME NEW v \in CpuLoads, PollCpu(n, v) PROVE TypeOK'
    <3>1. [table[n] EXCEPT !.cpu = v] \in Row
      BY <1>3 DEF Row
    <3>2. Save(n, [table[n] EXCEPT !.cpu = v]) => TableOK /\ CachedOK
      BY <3>1, <1>1, SaveTyped DEF TableOK
    <3>3. [NoCheck EXCEPT !.pc = "fetch"] \in Check
      BY <1>2 DEF Check
    <3>4. CheckOK
      BY <2>1, <3>3, CheckBecomes DEF PollCpu, CheckOK
    <3> QED BY <2>1, <3>2, <3>4, <1>0, <1>1 DEF PollCpu
  <2>2. ASSUME NEW ok \in BOOLEAN, NEW w \in 0 .. MaxWork, PollFetch(n, ok, w)
        PROVE TypeOK'
    <3>1. [pc |-> "write", ok |-> ok, work |-> w] \in Check
      BY DEF Check
    <3> QED BY <2>2, <3>1, CheckBecomes, <1>0, <1>1 DEF PollFetch, CheckOK
  <2>3. CASE PollWrite(n)
    <3> DEFINE r == [table[n] EXCEPT !.err = ~check[n].ok, !.work = check[n].work]
    <3>1. r \in Row
      BY <1>3, <2>0 DEF Row, Check
    <3>2. Save(n, r)
      BY <2>3 DEF PollWrite
    <3> HIDE DEF r
    <3>3. TableOK /\ CachedOK
      BY <3>1, <3>2, <1>1, SaveTyped DEF TableOK
    <3>4. CheckOK
      BY <2>3, <1>2, CheckBecomes DEF PollWrite, CheckOK
    <3> QED BY <2>3, <3>3, <3>4, <1>0, <1>1 DEF PollWrite
  <2>4. CASE PollCrash(n)
    BY <2>4, <1>2, CheckBecomes, <1>0, <1>1 DEF PollCrash, CheckOK
  <2> QED BY <1>5, <2>1, <2>2, <2>3, <2>4 DEF PollStep
<1>6. CASE AdminStep
  <2>1. ASSUME NEW S \in SUBSET Nodes, NEW value \in BOOLEAN,
               SetMaintenance(S, value)
        PROVE TypeOK'
    <3>1. \A n \in Nodes : [table[n] EXCEPT !.maint = value] \in Row
      BY <1>3 DEF Row
    <3>2. TableOK
      BY <2>1, <3>1, <1>3 DEF SetMaintenance, TableOK
    <3> QED BY <2>1, <3>2, <1>0, <1>1 DEF SetMaintenance
  <2>2. ASSUME NEW n \in Nodes, FormOpen(n) PROVE TypeOK'
    <3>1. FormOK
      BY <2>2, <1>3 DEF FormOpen, FormOK
    <3> QED BY <2>2, <3>1, <1>0, <1>1 DEF FormOpen
  <2>3. ASSUME NEW value \in BOOLEAN, FormSave(value) PROVE TypeOK'
    <3>1. form.node \in Nodes /\ form.row \in Row
      BY <2>3, TypeParts DEF FormSave
    <3>2. [form.row EXCEPT !.maint = value] \in Row
      BY <3>1 DEF Row
    <3>3. TableOK /\ CachedOK
      BY <2>3, <3>1, <3>2, <1>1, SaveTyped DEF FormSave, TableOK
    <3>4. FormOK
      BY <2>3 DEF FormSave, FormOK
    <3> QED BY <2>3, <3>3, <3>4, <1>0, <1>1 DEF FormSave
  <2>4. CASE FormClose
    <3>1. FormOK
      BY <2>4 DEF FormClose, FormOK
    <3> QED BY <2>4, <3>1, <1>0, <1>1 DEF FormClose
  <2> QED BY <1>6, <2>1, <2>2, <2>3, <2>4 DEF AdminStep
<1>7. ASSUME NEW k \in Clusters, CacheDrop(k) PROVE TypeOK'
  <2>1. OkCache(NoView, k)
    BY DEF OkCache
  <2>2. CachedOK
    BY <1>7, <2>1, CacheBecomes DEF CacheDrop, CachedOK
  <2> QED BY <1>7, <2>2, <1>0, <1>1 DEF CacheDrop
<1>8. CASE UNCHANGED vars
  BY <1>8, <1>0, <1>1 DEF vars
<1> QED BY <1>4, <1>5, <1>6, <1>7, <1>8

\* Every variable stays in its type, however the requests, checks, cache and
\* admin interleave.
THEOREM PoolTypeCorrect == Spec => []TypeOK
<1>1. Init => TypeOK
  BY InitTypeOK
<1>2. TypeOK /\ [Next]_vars => TypeOK'
  BY NextTypeOK
<1> QED BY <1>1, <1>2, PTL DEF Spec

-----------------------------------------------------------------------------
(* Nodes that wait.                                                         *)

\* The cached rows of n, and those a request is about to cache, are unusable.
Unusable(n) ==
    /\ \A k \in Clusters : n \in Members(k) /\ cached[k] # NoView =>
          cached[k][n].err \/ cached[k][n].maint
    /\ \A c \in Clients : req[c].pc = "store" /\ n \in Members(req[c].from) =>
          req[c].view[n].err \/ req[c].view[n].maint

\* No request has n in its list or has chosen it.
Passed(n) == \A c \in Clients : n \notin req[c].best /\ req[c].node # n

\* Requests pass a node by while what they are shown of it is unusable.
LEMMA StepPasses ==
    ASSUME TypeOK, NEW n \in Nodes, Unusable(n), Passed(n), [Next]_vars
    PROVE  Passed(n)'
<1>0. /\ req \in [Clients -> Request]
      /\ NoRequest.best = {} /\ NoRequest.node = NoView /\ NoView # n
  BY PoolConstantsOK DEF TypeOK, NoRequest
<1>1. UNCHANGED req => Passed(n)'
  BY DEF Passed
<1>2. ASSUME NEW c \in Clients, NEW q, req' = [req EXCEPT ![c] = q],
             n \notin q.best, q.node # n
      PROVE  Passed(n)'
  BY <1>0, <1>2 DEF Passed
<1>3. ASSUME NEW c \in Clients, NEW k \in Clusters, NEW v, IsView(v, k),
             n \in Members(k) => v[n].err \/ v[n].maint,
             req' = [req EXCEPT ![c] = Considered(req[c], k, v)]
      PROVE  Passed(n)'
  <2>1. req[c] \in Request /\ n \notin req[c].best /\ req[c].node # n
    BY <1>0 DEF Passed
  <2>2. /\ Considered(req[c], k, v).node = req[c].node
        /\ \A m \in Considered(req[c], k, v).best \ req[c].best :
              m \in Members(k) /\ ~v[m].err /\ ~v[m].maint
    BY <1>3, <2>1, ConsideredFacts
  <2>3. n \notin Considered(req[c], k, v).best
    BY <1>3, <2>1, <2>2
  <2> QED BY <1>2, <1>3, <2>1, <2>2, <2>3
<1>4. ASSUME NEW c \in Clients, ChooseStep(c) PROVE Passed(n)'
  <2>0. req[c] \in Request /\ n \notin req[c].best /\ req[c].node # n
    BY <1>0 DEF Passed
  <2>1. CASE ChooseBegin(c)
    <3>1. /\ [NoRequest EXCEPT !.pc = "choose", !.todo = Clusters].best = {}
          /\ [NoRequest EXCEPT !.pc = "choose", !.todo = Clusters].node = NoView
      BY DEF NoRequest
    <3> QED BY <1>0, <1>2, <2>1, <3>1 DEF ChooseBegin
  <2>2. ASSUME NEW k \in Clusters, ChooseHit(c, k) PROVE Passed(n)'
    BY <1>3, <2>2 DEF ChooseHit, TypeOK, Unusable
  <2>3. ASSUME NEW k \in Clusters, ChooseQuery(c, k) PROVE Passed(n)'
    <3> DEFINE q == [req[c] EXCEPT !.pc = "store", !.from = k, !.view = View(k)]
    <3>1. q.best = req[c].best /\ q.node = req[c].node
      BY <2>0 DEF Request
    <3>2. req' = [req EXCEPT ![c] = q]
      BY <2>3 DEF ChooseQuery
    <3> HIDE DEF q
    <3> QED BY <1>2, <2>0, <3>1, <3>2
  <2>4. CASE ChooseStore(c) \/ ChooseNoStore(c)
    <3>1. /\ req[c].pc = "store"
          /\ req' = [req EXCEPT ![c] = Considered(req[c], req[c].from, req[c].view)]
      BY <2>4 DEF ChooseStore, ChooseNoStore
    <3>2. /\ req[c].from \in Clusters /\ IsView(req[c].view, req[c].from)
          /\ n \in Members(req[c].from) => req[c].view[n].err \/ req[c].view[n].maint
      BY <3>1 DEF TypeOK, Unusable
    <3> QED BY <1>3, <3>1, <3>2
  <2>5. ASSUME NEW m \in Nodes, ChoosePick(c, m) PROVE Passed(n)'
    <3> DEFINE q == [req[c] EXCEPT !.pc = "insert", !.node = m]
    <3>1. q.best = req[c].best /\ q.node = m
      BY <2>0 DEF Request
    <3>2. m # n /\ req' = [req EXCEPT ![c] = q]
      BY <2>0, <2>5 DEF ChoosePick
    <3> HIDE DEF q
    <3> QED BY <1>2, <2>0, <3>1, <3>2
  <2>6. CASE Penalty(c) \/ ChooseEnd(c)
    BY <1>0, <1>2, <2>6 DEF Penalty, ChooseEnd
  <2> QED BY <1>4, <2>1, <2>2, <2>3, <2>4, <2>5, <2>6 DEF ChooseStep
<1>5. ASSUME NEW m \in Nodes, PollStep(m) PROVE UNCHANGED req
  BY <1>5 DEF PollStep, PollCpu, PollFetch, PollWrite, PollCrash
<1>6. CASE AdminStep
  BY <1>1, <1>6 DEF AdminStep, SetMaintenance, FormOpen, FormSave, FormClose
<1>7. ASSUME NEW k \in Clusters, CacheDrop(k) PROVE UNCHANGED req
  BY <1>7 DEF CacheDrop
<1>8. CASE UNCHANGED vars
  BY <1>1, <1>8 DEF vars
<1> QED BY <1>1, <1>4, <1>5, <1>6, <1>7, <1>8 DEF Next

\* A flag of the row and its copies.
Flag(r, f) == IF f = "err" THEN r.err ELSE r.maint

\* The rows of n that the cache has, or a request is about to cache, have it.
Shown(n, f) ==
    /\ \A k \in Clusters : n \in Members(k) /\ cached[k] # NoView => Flag(cached[k][n], f)
    /\ \A c \in Clients : req[c].pc = "store" /\ n \in Members(req[c].from) => Flag(req[c].view[n], f)

\* They get it from the table.
LEMMA StepShows ==
    ASSUME TypeOK, NEW n \in Nodes, NEW f, Shown(n, f), Flag(table[n], f), [Next]_vars
    PROVE  Shown(n, f)'
<1>0. /\ req \in [Clients -> Request] /\ cached \in [Clusters -> Views \cup {NoView}]
      /\ NoRequest.pc = "idle"
  BY DEF TypeOK, NoRequest
<1>1. UNCHANGED <<cached, req>> => Shown(n, f)'
  BY DEF Shown, Members, Flag
<1>2. ASSUME NEW c \in Clients, NEW q, req' = [req EXCEPT ![c] = q],
             q.pc = "store" /\ n \in Members(q.from) => Flag(q.view[n], f),
             \A k \in Clusters : n \in Members(k) /\ cached'[k] # NoView => Flag(cached'[k][n], f)
      PROVE  Shown(n, f)'
  <2>1. req'[c] = q /\ \A d \in Clients : d # c => req'[d] = req[d]
    BY <1>0, <1>2
  <2> QED BY <1>2, <2>1 DEF Shown, Members, Flag
<1>3. UNCHANGED cached =>
        \A k \in Clusters : n \in Members(k) /\ cached'[k] # NoView => Flag(cached'[k][n], f)
  BY DEF Shown
<1>4. ASSUME NEW c \in Clients, ChooseStep(c) PROVE Shown(n, f)'
  <2>0. req[c] \in Request
    BY <1>0
  <2>1. CASE ChooseBegin(c)
    <3>1. [NoRequest EXCEPT !.pc = "choose", !.todo = Clusters].pc # "store"
      BY DEF NoRequest
    <3> QED BY <1>2, <1>3, <2>1, <3>1 DEF ChooseBegin
  <2>2. ASSUME NEW k \in Clusters, ChooseHit(c, k) PROVE Shown(n, f)'
    <3>1. Considered(req[c], k, cached[k]).pc # "store"
      BY <2>0, <2>2, ConsideredFacts DEF ChooseHit, TypeOK
    <3> QED BY <1>2, <1>3, <2>2, <3>1 DEF ChooseHit
  <2>3. ASSUME NEW k \in Clusters, ChooseQuery(c, k) PROVE Shown(n, f)'
    <3> DEFINE q == [req[c] EXCEPT !.pc = "store", !.from = k, !.view = View(k)]
    <3>1. q.from = k /\ q.view = View(k)
      BY <2>0 DEF Request
    <3>2. n \in Members(k) => View(k)[n] = table[n]
      BY DEF View
    <3>3. req' = [req EXCEPT ![c] = q] /\ UNCHANGED cached
      BY <2>3 DEF ChooseQuery
    <3> HIDE DEF q
    <3> QED BY <1>2, <1>3, <3>1, <3>2, <3>3
  <2>4. CASE ChooseStore(c) \/ ChooseNoStore(c)
    <3>1. /\ req[c].pc = "store"
          /\ req' = [req EXCEPT ![c] = Considered(req[c], req[c].from, req[c].view)]
          /\ UNCHANGED cached \/ cached' = [cached EXCEPT ![req[c].from] = req[c].view]
      BY <2>4 DEF ChooseStore, ChooseNoStore
    <3>2. req[c].from \in Clusters /\ IsView(req[c].view, req[c].from)
      BY <3>1 DEF TypeOK
    <3>3. n \in Members(req[c].from) => Flag(req[c].view[n], f)
      BY <3>1 DEF Shown
    <3>4. Considered(req[c], req[c].from, req[c].view).pc # "store"
      BY <2>0, <3>2, ConsideredFacts
    <3>5. \A k \in Clusters : n \in Members(k) /\ cached'[k] # NoView => Flag(cached'[k][n], f)
      BY <1>0, <3>1, <3>2, <3>3 DEF Shown
    <3> QED BY <1>2, <3>1, <3>4, <3>5
  <2>5. ASSUME NEW m \in Nodes, ChoosePick(c, m) PROVE Shown(n, f)'
    <3>1. [req[c] EXCEPT !.pc = "insert", !.node = m].pc # "store"
      BY <2>0 DEF Request
    <3> QED BY <1>2, <1>3, <2>5, <3>1 DEF ChoosePick
  <2>6. CASE Penalty(c) \/ ChooseEnd(c)
    BY <1>0, <1>2, <1>3, <2>6 DEF Penalty, ChooseEnd, Save
  <2> QED BY <1>4, <2>1, <2>2, <2>3, <2>4, <2>5, <2>6 DEF ChooseStep
<1>5. ASSUME NEW m \in Nodes, PollStep(m) PROVE UNCHANGED <<cached, req>>
  BY <1>5 DEF PollStep, PollCpu, PollFetch, PollWrite, PollCrash, Save
<1>6. CASE AdminStep
  BY <1>1, <1>6 DEF AdminStep, SetMaintenance, FormOpen, FormSave, FormClose, Save
<1>7. ASSUME NEW k \in Clusters, CacheDrop(k) PROVE Shown(n, f)'
  <2>1. UNCHANGED req /\ cached' = [cached EXCEPT ![k] = NoView]
    BY <1>7 DEF CacheDrop
  <2> QED BY <1>0, <2>1 DEF Shown, Members, Flag
<1>8. CASE UNCHANGED vars
  BY <1>1, <1>8 DEF vars
<1> QED BY <1>1, <1>4, <1>5, <1>6, <1>7, <1>8 DEF Next

\* While no check finds n healthy, its row and the admin's copy are in error.
LEMMA StepErr ==
    ASSUME TypeOK, NEW n \in Nodes, ~check[n].ok, table[n].err,
           form.node = n => form.row.err, [Next]_vars
    PROVE  table'[n].err /\ (form'.node = n => form'.row.err)
<1>0. table \in [Nodes -> Row] /\ table[n] \in Row
  BY DEF TypeOK
<1>1. NoForm.node # n
  BY PoolConstantsOK DEF NoForm
<1>2. ASSUME NEW m \in Nodes, NEW r, Save(m, r), m = n => r.err
      PROVE  table'[n].err
  BY <1>0, <1>2 DEF Save
<1>3. ASSUME NEW c \in Clients, ChooseStep(c)
      PROVE  table'[n].err /\ (form'.node = n => form'.row.err)
  <2>1. CASE Penalty(c)
    <3>1. req[c].node \in Nodes /\ (req[c].node = n => Charged(req[c].node).err)
      BY <1>0, <2>1 DEF Penalty, TypeOK, Charged, Row
    <3> QED BY <1>2, <2>1, <3>1 DEF Penalty
  <2>2. CASE ~Penalty(c)
    BY <1>3, <2>2 DEF ChooseStep, ChooseBegin, ChooseHit, ChooseQuery, ChooseStore,
                      ChooseNoStore, ChoosePick, ChooseEnd
  <2> QED BY <2>1, <2>2
<1>4. ASSUME NEW m \in Nodes, PollStep(m)
      PROVE  table'[n].err /\ (form'.node = n => form'.row.err)
  <2>1. UNCHANGED form
    BY <1>4 DEF PollStep, PollCpu, PollFetch, PollWrite, PollCrash
  <2>2. CASE UNCHANGED table
    BY <2>1, <2>2
  <2>3. ASSUME NEW v \in CpuLoads, Save(m, [table[m] EXCEPT !.cpu = v])
        PROVE  table'[n].err
    <3>1. m = n => [table[m] EXCEPT !.cpu = v].err
      BY <1>0 DEF Row
    <3> QED BY <1>2, <2>3, <3>1
  <2>4. ASSUME PollWrite(m) PROVE table'[n].err
    <3>1. m = n => [table[m] EXCEPT !.err = ~check[m].ok, !.work = check[m].work].err
      BY <1>0 DEF Row
    <3> QED BY <1>2, <2>4, <3>1 DEF PollWrite
  <2> QED BY <1>4, <2>1, <2>2, <2>3, <2>4 DEF PollStep, PollCpu, PollFetch, PollCrash
<1>5. CASE AdminStep
  <2>1. ASSUME NEW S \in SUBSET Nodes, NEW value \in BOOLEAN, SetMaintenance(S, value)
        PROVE  table'[n].err /\ (form'.node = n => form'.row.err)
    BY <1>0, <2>1 DEF SetMaintenance, Row
  <2>2. ASSUME NEW m \in Nodes, FormOpen(m)
        PROVE  table'[n].err /\ (form'.node = n => form'.row.err)
    BY <2>2 DEF FormOpen
  <2>3. ASSUME NEW value \in BOOLEAN, FormSave(value)
        PROVE  table'[n].err /\ (form'.node = n => form'.row.err)
    <3>1. form.node \in Nodes /\ form.row \in Row
      BY <2>3 DEF FormSave, TypeOK
    <3>2. form.node = n => [form.row EXCEPT !.maint = value].err
      BY <3>1 DEF Row
    <3> QED BY <1>1, <1>2, <2>3, <3>1, <3>2 DEF FormSave
  <2>4. CASE FormClose
    BY <1>1, <2>4 DEF FormClose
  <2> QED BY <1>5, <2>1, <2>2, <2>3, <2>4 DEF AdminStep
<1>6. ASSUME NEW k \in Clusters, CacheDrop(k)
      PROVE  table'[n].err /\ (form'.node = n => form'.row.err)
  BY <1>6 DEF CacheDrop
<1>7. CASE UNCHANGED vars
  BY <1>7 DEF vars
<1> QED BY <1>3, <1>4, <1>5, <1>6, <1>7 DEF Next

\* What holds of a node that no check has found to be healthy, and of one that
\* has been in maintenance from the beginning.
Unproven(n) == table[n].err /\ (form.node = n => form.row.err) /\ Shown(n, "err") /\ Passed(n)

Kept(n) == Shown(n, "maint") /\ Passed(n)

LEMMA InitWaits ==
    ASSUME Init, NEW n \in Nodes
    PROVE  Unproven(n) /\ Kept(n)
<1>1. /\ table[n].err /\ form.node # n
      /\ \A k \in Clusters : cached[k] = NoView
      /\ \A c \in Clients : req[c].pc = "idle" /\ req[c].best = {} /\ req[c].node # n
  BY PoolConstantsOK DEF Init, NoForm, NoRequest
<1> QED BY <1>1 DEF Unproven, Kept, Shown, Passed

\* A node that no check has found to be healthy, or that was added in
\* maintenance and is kept there, gets no meeting, whatever copies of its row
\* the cache, requests and the admin's form hold (models.py:102, addnode.py:44-49,
\* admin.py:187, api.py:553-568).
THEOREM NewNodesAreLeftOut == Spec => NewNodesWait
<1>1. ASSUME NEW n \in Nodes
      PROVE  Spec => (([](~check[n].ok) \/ [](table[n].maint))
                        => [](\A c \in Clients : req[c].node # n))
  <2>1. Init => TypeOK /\ Unproven(n) /\ Kept(n)
    BY InitTypeOK, InitWaits
  <2>2. TypeOK /\ [Next]_vars => TypeOK'
    BY NextTypeOK
  <2>3. TypeOK /\ ~check[n].ok /\ Unproven(n) /\ [Next]_vars => Unproven(n)'
    <3> SUFFICES ASSUME TypeOK, ~check[n].ok, Unproven(n), [Next]_vars PROVE Unproven(n)'
      OBVIOUS
    <3>1. table'[n].err /\ (form'.node = n => form'.row.err)
      BY StepErr DEF Unproven
    <3>2. Shown(n, "err")'
      BY StepShows DEF Unproven, Flag
    <3>3. Passed(n)'
      BY StepPasses DEF Unproven, Unusable, Shown, Flag
    <3> QED BY <3>1, <3>2, <3>3 DEF Unproven
  <2>4. TypeOK /\ table[n].maint /\ Kept(n) /\ [Next]_vars => Kept(n)'
    <3> SUFFICES ASSUME TypeOK, table[n].maint, Kept(n), [Next]_vars PROVE Kept(n)'
      OBVIOUS
    <3>1. Shown(n, "maint")'
      BY StepShows DEF Kept, Flag
    <3>2. Passed(n)'
      BY StepPasses DEF Kept, Unusable, Shown, Flag
    <3> QED BY <3>1, <3>2 DEF Kept
  <2>5. Unproven(n) \/ Kept(n) => \A c \in Clients : req[c].node # n
    BY DEF Unproven, Kept, Passed
  <2> QED BY <2>1, <2>2, <2>3, <2>4, <2>5, PTL DEF Spec
<1> QED BY <1>1 DEF NewNodesWait

=============================================================================
