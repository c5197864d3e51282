------------------------------ MODULE NodePool ------------------------------
(***************************************************************************)
(* The Node table and who reads and writes it: 'create' requests that look *)
(* for the node of lowest load through the ORM cache and charge it with    *)
(* penalty points (rest/classes/api.py, rest/b3lb/metrics.py), the checks  *)
(* that overwrite load and error flag (rest/task/core.py), and the admin   *)
(* site that sets maintenance, row by row or in bulk (rest/admin.py).      *)
(*                                                                         *)
(* The load of a node's attendees and meetings is one number, 'work', the  *)
(* CPU's share another, 'cpu'.  Both count in fractions of a point of      *)
(* load, Scale to the point, for the clusters' factors are floats: a new   *)
(* meeting with its first attendee is worth what its node's cluster says.  *)
(***************************************************************************)
EXTENDS Choice, FiniteSets

CONSTANTS
    Nodes,        \* rows of the Node table
    Clusters,     \* rows of the Cluster table, all in the tenant's group
    ClusterOf,    \* Node.cluster
    Clients,      \* 'create' requests under way at the same time
    CpuLoads,     \* contributions of the CPU to a node's load
    Scale,        \* fractions of a point
    Charge,       \* per cluster load_a_factor + load_m_factor
    MaxWork,      \* bound: work of a node
    NoView        \* no cached result

ASSUME PoolConstantsOK ==
    /\ ClusterOf \in [Nodes -> Clusters]
    /\ CpuLoads \subseteq Nat /\ 0 \in CpuLoads
    /\ Scale \in Nat \ {0}
    /\ Charge \in [Clusters -> Nat]
    /\ MaxWork \in Nat
    /\ NoView \notin Nodes

VARIABLES
    table,    \* the Node table
    cached,   \* ORM cache: the result of the query for a cluster's nodes
    req,      \* the node choice of each request
    check,    \* the check_node task of each node
    form      \* the admin's change form: a node and its row when it was opened

vars == <<table, cached, req, check, form>>

-----------------------------------------------------------------------------
Row == [work : 0 .. MaxWork, cpu : CpuLoads, err : BOOLEAN, maint : BOOLEAN]

\* Node.load, and what it makes of the flags: int() of the sum.
Load(r) == IF r.maint THEN -2 ELSE IF r.err THEN -1 ELSE (r.work + r.cpu) \div Scale

Members(k) == {n \in Nodes : ClusterOf[n] = k}

View(k) == [n \in Members(k) |-> table[n]]

IsView(v, k) == v \in [Members(k) -> Row]

Views == UNION {[Members(k) -> Row] : k \in Clusters}

\* lowest and best are the local variables lowest and lowest_node_list;
\* 'from' is the cluster whose nodes were queried and await caching.
NoRequest == [pc |-> "idle", todo |-> {}, lowest |-> LoadCap, best |-> {},
              node |-> NoView, from |-> NoView, view |-> NoView]

NoCheck == [pc |-> "idle", ok |-> FALSE, work |-> 0]

NoForm == [node |-> NoView, row |-> NoView]

Request == [pc : {"idle", "choose", "store", "insert"}, todo : SUBSET Clusters,
            lowest : Int, best : SUBSET Nodes, node : Nodes \cup {NoView},
            from : Clusters \cup {NoView}, view : Views \cup {NoView}]

Check == [pc : {"idle", "fetch", "write"}, ok : BOOLEAN, work : 0 .. MaxWork]

\* Every variable has its type; a request that inserts has chosen a node.
TypeOK ==
    /\ table \in [Nodes -> Row]
    /\ cached \in [Clusters -> Views \cup {NoView}]
    /\ \A k \in Clusters : cached[k] = NoView \/ IsView(cached[k], k)
    /\ req \in [Clients -> Request]
    /\ \A c \in Clients :
         /\ req[c].pc = "store" => /\ req[c].from \in Clusters
                                   /\ IsView(req[c].view, req[c].from)
         /\ req[c].pc = "insert" => req[c].node \in Nodes
    /\ check \in [Nodes -> Check]
    /\ form = NoForm \/ form \in [node : Nodes, row : Row]

\* Nodes as the admin site (maintenance off) or addnode (on) add them.
Init ==
    /\ table \in [Nodes -> [work : {0}, cpu : {0}, err : {TRUE}, maint : BOOLEAN]]
    /\ cached = [k \in Clusters |-> NoView]
    /\ req = [c \in Clients |-> NoRequest]
    /\ check = [n \in Nodes |-> NoCheck]
    /\ form = NoForm

-----------------------------------------------------------------------------
(* The cache.  save() commits a row and then invalidates the results with  *)
(* it: at once, late, or not at all when Redis does not answer, as         *)
(* settings.CACHEOPS_DEGRADE_ON_FAILURE has it.  update() of a queryset    *)
(* never does.  So no write is sure to reach the cache, and only the 15 s  *)
(* of settings.CACHEOPS bound how long it shows what is no longer true.    *)

\* The commit.
Save(n, r) ==
    /\ table' = [table EXCEPT ![n] = r]
    /\ UNCHANGED cached

\* The row of n with the points of one more meeting and its attendee.
Charged(n) == [table[n] EXCEPT !.work = @ + Charge[ClusterOf[n]]]

\* A result expires, or a save() invalidates it.
CacheDrop(k) ==
    /\ cached[k] # NoView
    /\ cached' = [cached EXCEPT ![k] = NoView]
    /\ UNCHANGED <<table, req, check, form>>

-----------------------------------------------------------------------------
(* A create looks for a node.                                              *)

ChooseBegin(c) ==
    /\ req[c].pc = "idle"
    /\ req' = [req EXCEPT ![c] = [NoRequest EXCEPT !.pc = "choose",
                                                   !.todo = Clusters]]
    /\ UNCHANGED <<table, cached, check, form>>

\* The loop over the nodes of one cluster k, whose loads are l.
Lowest(q, k, l) ==
    LET after == LookedAt([lowest |-> q.lowest, best |-> q.best], l)
    IN  [q EXCEPT !.pc = "choose", !.todo = @ \ {k}, !.lowest = after.lowest,
                  !.best = after.best, !.from = NoView, !.view = NoView]

\* Mutant: nodes in error are not told from idle ones.
ConsideredAll(q, k, v) ==
    Lowest(q, k, [n \in Members(k) |-> Load([v[n] EXCEPT !.err = FALSE])])

\* Mutant: maintenance does not show in the load.
ConsideredMaintained(q, k, v) ==
    Lowest(q, k, [n \in Members(k) |-> Load([v[n] EXCEPT !.maint = FALSE])])

\* The loads are those of the rows the query returned, or the cache.
Considered(q, k, v) == Lowest(q, k, [n \in Members(k) |-> Load(v[n])])

\* Node.objects.filter(cluster=...) is answered from the cache ...
ChooseHit(c, k) ==
    /\ req[c].pc = "choose"
    /\ k \in req[c].todo
    /\ cached[k] # NoView
    /\ req' = [req EXCEPT ![c] = Considered(@, k, cached[k])]
    /\ UNCHANGED <<table, cached, check, form>>

\* ... or by the database, ...
ChooseQuery(c, k) ==
    /\ req[c].pc = "choose"
    /\ k \in req[c].todo
    /\ cached[k] = NoView
    /\ req' = [req EXCEPT ![c].pc = "store", ![c].from = k, ![c].view = View(k)]
    /\ UNCHANGED <<table, cached, check, form>>

\* ... whose answer is then put into the cache.
ChooseStore(c) ==
    /\ req[c].pc = "store"
    /\ cached' = [cached EXCEPT ![req[c].from] = req[c].view]
    /\ req' = [req EXCEPT ![c] = Considered(@, @.from, @.view)]
    /\ UNCHANGED <<table, check, form>>

\* Redis does not take it.
ChooseNoStore(c) ==
    /\ req[c].pc = "store"
    /\ req' = [req EXCEPT ![c] = Considered(@, @.from, @.view)]
    /\ UNCHANGED <<table, cached, check, form>>

\* Mutant: the list of nodes is not checked for being empty.
ChoosePickAny(c, n) ==
    /\ req[c].pc = "choose" /\ req[c].todo = {}
    /\ req' = [req EXCEPT ![c].pc = "insert",
                         ![c].node = IF req[c].best = {} THEN NoView ELSE n]
    /\ UNCHANGED <<table, cached, check, form>>

\* One of the nodes of lowest load, at random.
ChoosePick(c, n) ==
    /\ req[c].pc = "choose" /\ req[c].todo = {}
    /\ n \in req[c].best
    /\ req' = [req EXCEPT ![c].pc = "insert", ![c].node = n]
    /\ UNCHANGED <<table, cached, check, form>>

\* update_create_metrics, after the create has inserted the meeting's row:
\* the database adds the penalty points to the values the row has then.
Penalty(c) ==
    /\ req[c].pc = "insert"
    /\ Charged(req[c].node).work <= MaxWork
    /\ Save(req[c].node, Charged(req[c].node))
    /\ req' = [req EXCEPT ![c] = NoRequest]
    /\ UNCHANGED <<check, form>>

\* No node is free, a limit is reached, another request has inserted the row,
\* the request fails.
ChooseEnd(c) ==
    /\ req[c].pc # "idle"
    /\ req' = [req EXCEPT ![c] = NoRequest]
    /\ UNCHANGED <<table, cached, check, form>>

-----------------------------------------------------------------------------
(* check_node.  Its reads of the row lock it and bypass the cache.         *)

\* The load file gives the CPU load, or gives nothing.
PollCpu(n, v) ==
    /\ check[n].pc = "idle"
    /\ \/ Save(n, [table[n] EXCEPT !.cpu = v])
       \/ UNCHANGED <<table, cached>>
    /\ check' = [check EXCEPT ![n] = [NoCheck EXCEPT !.pc = "fetch"]]
    /\ UNCHANGED <<req, form>>

\* getMeetings answers with the node's work now, or fails, perhaps when some
\* of it has been counted.
PollFetch(n, ok, w) ==
    /\ check[n].pc = "fetch"
    /\ check' = [check EXCEPT ![n] = [pc |-> "write", ok |-> ok, work |-> w]]
    /\ UNCHANGED <<table, cached, req, form>>

\* Mutant: a failure does not set the flag.
PollWriteClears(n) ==
    /\ check[n].pc = "write"
    /\ Save(n, [table[n] EXCEPT !.err = @ /\ ~check[n].ok, !.work = check[n].work])
    /\ check' = [check EXCEPT ![n] = NoCheck]
    /\ UNCHANGED <<req, form>>

\* The row's error flag and counts are what this check found, in one
\* transaction: penalty points added since the answer are gone.
PollWrite(n) ==
    /\ check[n].pc = "write"
    /\ Save(n, [table[n] EXCEPT !.err = ~check[n].ok, !.work = check[n].work])
    /\ check' = [check EXCEPT ![n] = NoCheck]
    /\ UNCHANGED <<req, form>>

PollCrash(n) ==
    /\ check[n].pc # "idle"
    /\ check' = [check EXCEPT ![n] = NoCheck]
    /\ UNCHANGED <<table, cached, req, form>>

-----------------------------------------------------------------------------
(* The admin site.                                                         *)

\* maintenance_on and _off, for the nodes selected or those of a cluster.
SetMaintenance(S, value) ==
    /\ table' = [n \in Nodes |-> IF n \in S THEN [table[n] EXCEPT !.maint = value]
                                 ELSE table[n]]
    /\ UNCHANGED <<cached, req, check, form>>

\* The change form shows every column of the row ...
FormOpen(n) ==
    /\ form = NoForm
    /\ form' = [node |-> n, row |-> table[n]]
    /\ UNCHANGED <<table, cached, req, check>>

\* ... and writes them all, the ones the admin did not touch included.
FormSave(value) ==
    /\ form # NoForm
    /\ Save(form.node, [form.row EXCEPT !.maint = value])
    /\ form' = NoForm
    /\ UNCHANGED <<req, check>>

FormClose ==
    /\ form # NoForm
    /\ form' = NoForm
    /\ UNCHANGED <<table, cached, req, check>>

-----------------------------------------------------------------------------
ChooseStep(c) ==
    \/ ChooseBegin(c)
    \/ \E k \in Clusters : ChooseHit(c, k) \/ ChooseQuery(c, k)
    \/ ChooseStore(c) \/ ChooseNoStore(c)
    \/ \E n \in Nodes : ChoosePick(c, n)
    \/ Penalty(c)
    \/ ChooseEnd(c)

PollStep(n) ==
    \/ \E v \in CpuLoads : PollCpu(n, v)
    \/ \E ok \in BOOLEAN, w \in 0 .. MaxWork : PollFetch(n, ok, w)
    \/ PollWrite(n)
    \/ PollCrash(n)

AdminStep ==
    \/ \E S \in SUBSET Nodes, value \in BOOLEAN : SetMaintenance(S, value)
    \/ \E n \in Nodes : FormOpen(n)
    \/ \E value \in BOOLEAN : FormSave(value)
    \/ FormClose

Next ==
    \/ \E c \in Clients : ChooseStep(c)
    \/ \E n \in Nodes : PollStep(n)
    \/ AdminStep
    \/ \E k \in Clusters : CacheDrop(k)

Spec == Init /\ [][Next]_vars

\* Cached results expire; the beat has every node checked again and again.
Fairness ==
    /\ \A k \in Clusters : WF_vars(CacheDrop(k))
    /\ \A n \in Nodes :
         /\ SF_vars(\E v \in CpuLoads : PollCpu(n, v))
         /\ SF_vars(\E ok \in BOOLEAN, w \in 0 .. MaxWork : PollFetch(n, ok, w))
         /\ SF_vars(PollWrite(n))

FairSpec == Spec /\ Fairness

-----------------------------------------------------------------------------
(* Safety.                                                                 *)

\* A node that no check has found to be healthy, or that was added in
\* maintenance and is kept there, gets no meeting: whatever copies of its row
\* the cache, a request or the admin's form hold, and however late or never
\* the cache learns of what is written, none of them makes it usable
\* (models.py:102, addnode.py:44-49, admin.py:187, api.py:553-568).
NewNodesWait ==
    \A n \in Nodes :
        ([](~check[n].ok) \/ [](table[n].maint)) => [](\A c \in Clients : req[c].node # n)

(* Liveness, under FairSpec.                                               *)

ChosenNever(n) ==
    <>[][\A c \in Clients : req'[c].node = n => req[c].node = n]_vars

\* A node that is put into maintenance for good is out of service in the
\* end, however the bulk update passed by the cache (admin.py:213-219).
MaintenanceTakesEffect ==
    \A n \in Nodes : <>[](table[n].maint) => ChosenNever(n)

\* So is a node whose checks fail from some time on, unless the admin keeps
\* saving its form (core.py:96-106).
FailingNodesLeave ==
    \A n \in Nodes :
        <>[](~check[n].ok /\ form = NoForm) => ChosenNever(n)

=============================================================================
