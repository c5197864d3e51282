------------------------------ MODULE Meetings ------------------------------
(***************************************************************************)
(* The life of a BigBlueButton meeting behind B3LB: concurrent 'create'    *)
(* requests of the API (rest/classes/api.py), the periodic node check of   *)
(* the Celery workers (rest/task/core.py) and the end callbacks the nodes  *)
(* send back, all working on one Meeting table without a lock.  Every      *)
(* database call of the code is one atomic step here, so that two of them  *)
(* interleave in every order the deployment allows.                        *)
(*                                                                         *)
(* Left to other modules: which of the usable nodes is chosen (load,       *)
(* maintenance, ORM cache), recordings after the upload, metrics.          *)
(***************************************************************************)
EXTENDS Integers, FiniteSets

CONSTANTS
    Nodes,          \* BigBlueButton servers, the rows of the Node table
    Ids,            \* meeting ids chosen by the clients
    Secrets,        \* API secrets of the (one) tenant
    Clients,        \* API requests that can be under way at the same time
    Handlers,       \* end callbacks that can be handled at the same time
    TenantLimit,    \* Tenant.meeting_limit, 0 = unlimited
    SecretLimit,    \* Secret.meeting_limit, 0 = unlimited
    RecordEnabled,  \* Secret.is_record_enabled
    MaxNonce,       \* bound: how many Meeting rows are ever created
    NoOverlap,      \* assumption: creates overlap neither checks nor endings
    None            \* no node, no id, no secret

ASSUME ConstantsOK ==
    /\ None \notin Nodes \cup Ids \cup Secrets
    /\ TenantLimit \in Nat /\ SecretLimit \in Nat /\ MaxNonce \in Nat
    /\ RecordEnabled \in BOOLEAN /\ NoOverlap \in BOOLEAN

VARIABLES
    rows,        \* the Meeting table
    recordSets,  \* nonces of the rows of the RecordSet table
    hasErrors,   \* Node.has_errors, a column per node
    nextNonce,   \* nonces (and row uuids) below this one have been drawn
    running,     \* the meetings the BigBlueButton servers really run
    callbacks,   \* end callbacks on their way from a server to B3LB
    req,         \* the 'create' request each client has under way
    poll,        \* the check_node task of each node
    ending       \* the end callbacks being handled

vars == <<rows, recordSets, hasErrors, nextNonce, running, callbacks,
          req, poll, ending>>

database == <<rows, recordSets, hasErrors, nextNonce>>
external == <<running, callbacks>>

-----------------------------------------------------------------------------
(* The rows and records the variables range over.  A nonce names one row   *)
(* for ever: the uuid and the nonce of a row are drawn together.  0 is no  *)
(* nonce.  'old' stands for an age above 5 s.                              *)

Row == [id : Ids, secret : Secrets, node : Nodes, nonce : Nat, old : BOOLEAN]

Instance == [id : Ids, secret : Secrets, node : Nodes, nonce : Nat, tag : Nat]

Callback == [id : Ids, nonce : Nat, marks : BOOLEAN]

Request ==
    {q \in [pc : {"idle", "place", "limit", "insert", "params", "check", "send"},
            id : Ids \cup {None}, secret : Secrets \cup {None},
            node : Nodes \cup {None}, nonce : Nat, created : BOOLEAN, tag : Nat] :
       /\ q.pc # "idle" => q.id \in Ids /\ q.secret \in Secrets
       /\ q.pc \in {"limit", "insert", "send"} => q.node \in Nodes}

Check == [pc : {"idle", "write", "read", "loop"}, ok : BOOLEAN,
          stats : SUBSET Ids, todo : SUBSET Row]

Ending == [pc : {"idle", "purge", "delete"}, nonce : Nat, marks : BOOLEAN]

NoRequest == [pc |-> "idle", id |-> None, secret |-> None, node |-> None,
              nonce |-> 0, created |-> FALSE, tag |-> 0]

NoCheck == [pc |-> "idle", ok |-> FALSE, stats |-> {}, todo |-> {}]

NoEnding == [pc |-> "idle", nonce |-> 0, marks |-> FALSE]

TypeOK ==
    /\ rows \subseteq Row
    /\ recordSets \subseteq Nat
    /\ hasErrors \in [Nodes -> BOOLEAN]
    /\ nextNonce \in Nat \ {0}
    /\ running \subseteq Instance
    /\ callbacks \subseteq Callback
    /\ req \in [Clients -> Request]
    /\ poll \in [Nodes -> Check]
    /\ ending \in [Handlers -> Ending]

\* An empty installation whose nodes have passed their first check.
Init ==
    /\ rows = {}
    /\ recordSets = {}
    /\ hasErrors = [n \in Nodes |-> FALSE]
    /\ nextNonce = 1
    /\ running = {}
    /\ callbacks = {}
    /\ req = [c \in Clients |-> NoRequest]
    /\ poll = [n \in Nodes |-> NoCheck]
    /\ ending = [h \in Handlers |-> NoEnding]

-----------------------------------------------------------------------------
(* Queries of the Meeting table.                                           *)

RowsOf(i, s) == {r \in rows : r.id = i /\ r.secret = s}

Exists(nonce) == \E r \in rows : r.nonce = nonce

\* set_node_by_meeting_id: the meeting, if its node is not in error.
Reachable(i, s) == {r \in RowsOf(i, s) : ~hasErrors[r.node]}

\* is_in_limit, for the meeting limits of the tenant and of the secret.
InLimit(s) ==
    /\ TenantLimit > 0 => Cardinality(rows) < TenantLimit
    /\ SecretLimit > 0 => Cardinality({r \in rows : r.secret = s}) < SecretLimit

\* The next state of a request, a check, a callback's handling.
ReqBecomes(c, q) == req' = [req EXCEPT ![c] = q]
PollBecomes(n, q) == poll' = [poll EXCEPT ![n] = q]
EndBecomes(h, q) == ending' = [ending EXCEPT ![h] = q]

\* What NoOverlap looks at: what is under way for the meeting id i.
CreateUnderWay(i) == \E c \in Clients : req[c].id = i

EndUnderWay(i) ==
    \/ \E m \in callbacks : m.id = i
    \/ \E h \in Handlers : ending[h] # NoEnding

-----------------------------------------------------------------------------
(* The 'create' endpoint, one action per database or network call.         *)

\* is_meeting: go straight to the row, or look for a node first.
CreateBegin(c, i, s) ==
    /\ req[c] = NoRequest
    /\ NoOverlap => ~EndUnderWay(i) /\ \A n \in Nodes : poll[n] = NoCheck
    /\ \/ \E r \in Reachable(i, s) :
            ReqBecomes(c, [NoRequest EXCEPT !.pc = "insert", !.id = i,
                                            !.secret = s, !.node = r.node])
       \/ /\ Reachable(i, s) = {}
          /\ ReqBecomes(c, [NoRequest EXCEPT !.pc = "place", !.id = i,
                                            !.secret = s])
    /\ UNCHANGED <<database, external, poll, ending>>

\* Mutant: a create that finds no free node goes on without one.
CreatePlaceNone(c, n) ==
    /\ req[c].pc = "place"
    /\ ReqBecomes(c, [req[c] EXCEPT !.pc = "limit",
                                   !.node = IF hasErrors[n] THEN None ELSE n])
    /\ UNCHANGED <<database, external, poll, ending>>

\* is_node_free: one of the nodes without errors.
CreatePlace(c, n) ==
    /\ req[c].pc = "place"
    /\ ~hasErrors[n]
    /\ ReqBecomes(c, [req[c] EXCEPT !.pc = "limit", !.node = n])
    /\ UNCHANGED <<database, external, poll, ending>>

CreateLimit(c) ==
    /\ req[c].pc = "limit"
    /\ InLimit(req[c].secret)
    /\ ReqBecomes(c, [req[c] EXCEPT !.pc = "insert"])
    /\ UNCHANGED <<database, external, poll, ending>>

\* Mutant: get_or_create(id=...) forgets the secret.
CreateGetById(c, r) ==
    /\ req[c].pc = "insert"
    /\ r.id = req[c].id
    /\ ReqBecomes(c, [req[c] EXCEPT !.pc = "params", !.nonce = r.nonce,
                                   !.node = None])
    /\ UNCHANGED <<database, external, poll, ending>>

\* Mutant: a request that finds the row keeps the node it had chosen itself.
CreateGetOwnNode(c, r) ==
    /\ req[c].pc = "insert"
    /\ r \in RowsOf(req[c].id, req[c].secret)
    /\ ReqBecomes(c, [req[c] EXCEPT !.pc = "send", !.nonce = r.nonce])
    /\ UNCHANGED <<database, external, poll, ending>>

\* Meeting.objects.get_or_create, which finds a row ...  (From here to the
\* next is_meeting the request's node only serves the metrics.)
CreateGet(c, r) ==
    /\ req[c].pc = "insert"
    /\ r \in RowsOf(req[c].id, req[c].secret)
    /\ ReqBecomes(c, [req[c] EXCEPT !.pc = "params", !.nonce = r.nonce,
                                   !.node = None])
    /\ UNCHANGED <<database, external, poll, ending>>

\* ... or inserts one on the node the request has chosen.
CreateInsert(c) ==
    /\ req[c].pc = "insert"
    /\ RowsOf(req[c].id, req[c].secret) = {}
    /\ nextNonce <= MaxNonce
    /\ rows' = rows \cup {[id |-> req[c].id, secret |-> req[c].secret,
                           node |-> req[c].node, nonce |-> nextNonce,
                           old |-> FALSE]}
    /\ nextNonce' = nextNonce + 1
    /\ ReqBecomes(c, [req[c] EXCEPT !.pc = "params", !.nonce = nextNonce,
                                   !.created = TRUE, !.node = None])
    /\ UNCHANGED <<recordSets, hasErrors, external, poll, ending>>

\* Mutant: every request sets the tag, the first one opens the RecordSet.
CreateParamsTagsAll(c) ==
    /\ req[c].pc = "params"
    /\ recordSets' = IF RecordEnabled /\ req[c].created
                     THEN recordSets \cup {req[c].nonce} ELSE recordSets
    /\ ReqBecomes(c, [req[c] EXCEPT !.pc = "check",
                      !.tag = IF RecordEnabled THEN req[c].nonce ELSE 0])
    /\ UNCHANGED <<rows, hasErrors, nextNonce, external, poll, ending>>

\* check_parameters: only the request that created the row opens a RecordSet,
\* whose foreign key needs the row to be still there; its nonce is the tag.
CreateParams(c) ==
    /\ req[c].pc = "params"
    /\ \/ /\ RecordEnabled /\ req[c].created
          /\ Exists(req[c].nonce)
          /\ recordSets' = recordSets \cup {req[c].nonce}
          /\ ReqBecomes(c, [req[c] EXCEPT !.pc = "check", !.tag = req[c].nonce])
       \/ /\ ~(RecordEnabled /\ req[c].created)
          /\ ReqBecomes(c, [req[c] EXCEPT !.pc = "check"])
          /\ UNCHANGED recordSets
    /\ UNCHANGED <<rows, hasErrors, nextNonce, external, poll, ending>>

\* pass_through reads the row again and takes the node from it.
CreateCheck(c, r) ==
    /\ req[c].pc = "check"
    /\ r \in Reachable(req[c].id, req[c].secret)
    /\ ReqBecomes(c, [req[c] EXCEPT !.pc = "send", !.node = r.node])
    /\ UNCHANGED <<database, external, poll, ending>>

\* The node answers a create for a meeting it runs without changing it.
CreateSend(c) ==
    /\ req[c].pc = "send"
    /\ running' =
         IF \E x \in running : x.node = req[c].node /\ x.id = req[c].id
         THEN running
         ELSE running \cup {[id |-> req[c].id, secret |-> req[c].secret,
                             node |-> req[c].node, nonce |-> req[c].nonce,
                             tag |-> req[c].tag]}
    /\ ReqBecomes(c, NoRequest)
    /\ UNCHANGED <<database, callbacks, poll, ending>>

\* The request ends without a further step: no node is free, a limit is
\* reached, the meeting is gone, the node cannot be reached, a database
\* error, the client disconnects, the server stops.
CreateAbort(c) ==
    /\ req[c] # NoRequest
    /\ ReqBecomes(c, NoRequest)
    /\ UNCHANGED <<database, external, poll, ending>>

-----------------------------------------------------------------------------
(* core_check_node.  The singleton lock allows one check per node.         *)

\* getMeetings answers with the ids the node runs now ...
PollFetch(n) ==
    /\ poll[n] = NoCheck
    /\ NoOverlap => \A c \in Clients : req[c] = NoRequest
    /\ PollBecomes(n, [NoCheck EXCEPT !.pc = "write", !.ok = TRUE,
                      !.stats = {x.id : x \in {y \in running : y.node = n}}])
    /\ UNCHANGED <<database, external, req, ending>>

\* ... or fails, times out, or is no proper answer.
PollFail(n) ==
    /\ poll[n] = NoCheck
    /\ NoOverlap => \A c \in Clients : req[c] = NoRequest
    /\ PollBecomes(n, [poll[n] EXCEPT !.pc = "write"])
    /\ UNCHANGED <<database, external, req, ending>>

\* Mutant: a check that failed goes on to the meetings, too.
PollWriteGoesOn(n) ==
    /\ poll[n].pc = "write"
    /\ hasErrors' = [hasErrors EXCEPT ![n] = ~poll[n].ok]
    /\ PollBecomes(n, [poll[n] EXCEPT !.pc = "read"])
    /\ UNCHANGED <<rows, recordSets, nextNonce, external, req, ending>>

\* The node's row is written; a check that failed leaves the meetings alone.
PollWrite(n) ==
    /\ poll[n].pc = "write"
    /\ hasErrors' = [hasErrors EXCEPT ![n] = ~poll[n].ok]
    /\ PollBecomes(n, IF poll[n].ok THEN [poll[n] EXCEPT !.pc = "read"]
                                   ELSE NoCheck)
    /\ UNCHANGED <<rows, recordSets, nextNonce, external, req, ending>>

\* Mutant: the meetings of all nodes are compared with one node's answer.
PollReadAll(n) ==
    /\ poll[n].pc = "read"
    /\ PollBecomes(n, [poll[n] EXCEPT !.pc = "loop", !.todo = rows])
    /\ UNCHANGED <<database, external, req, ending>>

\* Meeting.objects.filter(node=check.node), read at once.
PollRead(n) ==
    /\ poll[n].pc = "read"
    /\ PollBecomes(n, [poll[n] EXCEPT !.pc = "loop",
                                     !.todo = {r \in rows : r.node = n}])
    /\ UNCHANGED <<database, external, req, ending>>

\* Mutant: no unique constraint on id and secret.
PollSaveUnconstrained(n, r) ==
    /\ poll[n].pc = "loop"
    /\ r \in poll[n].todo
    /\ r.id \in poll[n].stats
    /\ rows' = IF Exists(r.nonce) THEN rows ELSE rows \cup {r}
    /\ PollBecomes(n, [poll[n] EXCEPT !.todo = @ \ {r}])
    /\ UNCHANGED <<recordSets, hasErrors, nextNonce, external, req, ending>>

\* Mutant: the row is looked up by meeting, and written over its successor.
PollSaveByName(n, r) ==
    /\ poll[n].pc = "loop"
    /\ r \in poll[n].todo
    /\ r.id \in poll[n].stats
    /\ rows' = IF Exists(r.nonce) THEN rows
               ELSE (rows \ RowsOf(r.id, r.secret)) \cup {r}
    /\ PollBecomes(n, [poll[n] EXCEPT !.todo = @ \ {r}])
    /\ UNCHANGED <<recordSets, hasErrors, nextNonce, external, req, ending>>

\* meeting.save() for a meeting the node reported.  It updates the row it
\* read; where that row is gone it inserts it again, and where the meeting
\* has a new row by then the unique constraint ends the whole task.
PollSave(n, r) ==
    /\ poll[n].pc = "loop"
    /\ r \in poll[n].todo
    /\ r.id \in poll[n].stats
    /\ \/ /\ Exists(r.nonce)
          /\ PollBecomes(n, [poll[n] EXCEPT !.todo = @ \ {r}])
          /\ UNCHANGED rows
       \/ /\ ~Exists(r.nonce) /\ RowsOf(r.id, r.secret) = {}
          /\ rows' = rows \cup {r}
          /\ PollBecomes(n, [poll[n] EXCEPT !.todo = @ \ {r}])
       \/ /\ ~Exists(r.nonce) /\ RowsOf(r.id, r.secret) # {}
          /\ PollBecomes(n, NoCheck)
          /\ UNCHANGED rows
    /\ UNCHANGED <<recordSets, hasErrors, nextNonce, external, req, ending>>

\* Mutant: the meeting is deleted by its id.
PollRemoveById(n, r) ==
    /\ poll[n].pc = "loop"
    /\ r \in poll[n].todo
    /\ r.id \notin poll[n].stats
    /\ rows' = {x \in rows : ~(x.id = r.id /\ r.old)}
    /\ PollBecomes(n, [poll[n] EXCEPT !.todo = @ \ {r}])
    /\ UNCHANGED <<recordSets, hasErrors, nextNonce, external, req, ending>>

\* Mutant: the age test is the wrong way round.
PollRemoveYoung(n, r) ==
    /\ poll[n].pc = "loop"
    /\ r \in poll[n].todo
    /\ r.id \notin poll[n].stats
    /\ rows' = {x \in rows : ~(x.nonce = r.nonce /\ ~x.old)}
    /\ PollBecomes(n, [poll[n] EXCEPT !.todo = @ \ {r}])
    /\ UNCHANGED <<recordSets, hasErrors, nextNonce, external, req, ending>>

\* A meeting the node did not report: its row goes, unless it is too young.
PollRemove(n, r) ==
    /\ poll[n].pc = "loop"
    /\ r \in poll[n].todo
    /\ r.id \notin poll[n].stats
    /\ rows' = {x \in rows : ~(x.nonce = r.nonce /\ x.old)}
    /\ PollBecomes(n, [poll[n] EXCEPT !.todo = @ \ {r}])
    /\ UNCHANGED <<recordSets, hasErrors, nextNonce, external, req, ending>>

PollDone(n) ==
    /\ poll[n].pc = "loop"
    /\ poll[n].todo = {}
    /\ PollBecomes(n, NoCheck)
    /\ UNCHANGED <<database, external, req, ending>>

\* The worker is stopped; a later beat starts a new check.
PollCrash(n) ==
    /\ poll[n] # NoCheck
    /\ PollBecomes(n, NoCheck)
    /\ UNCHANGED <<database, external, req, ending>>

\* More than 5 s pass since Meeting.age.
Age(r) ==
    /\ r \in rows
    /\ ~r.old
    /\ rows' = (rows \ {r}) \cup {[r EXCEPT !.old = TRUE]}
    /\ UNCHANGED <<recordSets, hasErrors, nextNonce, external, req, poll, ending>>

-----------------------------------------------------------------------------
(* BigBlueButton ends meetings and reports it once or several times.       *)

MeetingEnds(x, marks) ==
    /\ x \in running
    /\ NoOverlap => ~CreateUnderWay(x.id)
    /\ marks => RecordEnabled
    /\ running' = running \ {x}
    /\ callbacks' = callbacks \cup {[id |-> x.id, nonce |-> x.nonce,
                                     marks |-> marks]}
    /\ UNCHANGED <<database, req, poll, ending>>

\* The callback never arrives, or no row has its id and nonce.
CallbackLost(m) ==
    /\ m \in callbacks
    /\ callbacks' = callbacks \ {m}
    /\ UNCHANGED <<database, running, req, poll, ending>>

\* end_meeting finds the row; the same callback may arrive again.
EndFind(h, m, again) ==
    /\ ending[h] = NoEnding
    /\ m \in callbacks
    /\ \E r \in rows : r.id = m.id /\ r.nonce = m.nonce
    /\ EndBecomes(h, [pc |-> "purge", nonce |-> m.nonce, marks |-> m.marks])
    /\ callbacks' = IF again THEN callbacks ELSE callbacks \ {m}
    /\ UNCHANGED <<database, running, req, poll>>

\* Without recording marks there will be no recording: the RecordSet goes.
EndPurge(h) ==
    /\ ending[h].pc = "purge"
    /\ recordSets' = IF ending[h].marks THEN recordSets
                     ELSE recordSets \ {ending[h].nonce}
    /\ EndBecomes(h, [ending[h] EXCEPT !.pc = "delete"])
    /\ UNCHANGED <<rows, hasErrors, nextNonce, external, req, poll>>

\* meeting.delete() of the row that was read, by its primary key.
EndDelete(h) ==
    /\ ending[h].pc = "delete"
    /\ rows' = {x \in rows : x.nonce # ending[h].nonce}
    /\ EndBecomes(h, NoEnding)
    /\ UNCHANGED <<recordSets, hasErrors, nextNonce, external, req, poll>>

EndCrash(h) ==
    /\ ending[h] # NoEnding
    /\ EndBecomes(h, NoEnding)
    /\ UNCHANGED <<database, external, req, poll>>

-----------------------------------------------------------------------------
CreateStep(c) ==
    \/ \E i \in Ids, s \in Secrets : CreateBegin(c, i, s)
    \/ \E n \in Nodes : CreatePlace(c, n)
    \/ CreateLimit(c)
    \/ \E r \in rows : CreateGet(c, r) \/ CreateCheck(c, r)
    \/ CreateInsert(c)
    \/ CreateParams(c)
    \/ CreateSend(c)
    \/ CreateAbort(c)

PollStep(n) ==
    \/ PollFetch(n) \/ PollFail(n) \/ PollWrite(n) \/ PollRead(n)
    \/ \E r \in poll[n].todo : PollSave(n, r) \/ PollRemove(n, r)
    \/ PollDone(n) \/ PollCrash(n)

EndStep(h) ==
    \/ \E m \in callbacks, again \in BOOLEAN : EndFind(h, m, again)
    \/ EndPurge(h) \/ EndDelete(h) \/ EndCrash(h)

Environment ==
    \/ \E r \in rows : Age(r)
    \/ \E x \in running, marks \in BOOLEAN : MeetingEnds(x, marks)
    \/ \E m \in callbacks : CallbackLost(m)

Next ==
    \/ \E c \in Clients : CreateStep(c)
    \/ \E n \in Nodes : PollStep(n)
    \/ \E h \in Handlers : EndStep(h)
    \/ Environment

Spec == Init /\ [][Next]_vars

\* The beat starts a check of every node again and again and the worker runs
\* it; checks fail and workers stop, but not every time.  Time passes.
\* Requests, callbacks and the nodes' meetings promise nothing.
Fairness ==
    /\ \A n \in Nodes :
         /\ SF_vars(PollFetch(n))
         /\ WF_vars(PollWrite(n)) /\ SF_vars(poll[n].ok /\ PollWrite(n))
         /\ SF_vars(PollRead(n))
         /\ SF_vars(\E r \in poll[n].todo : PollSave(n, r) \/ PollRemove(n, r))
         /\ SF_vars(PollDone(n))
    /\ WF_vars(\E r \in rows : Age(r))

FairSpec == Spec /\ Fairness

-----------------------------------------------------------------------------
(* Safety, whatever overlaps.                                              *)

\* The rows of the table and the copies of rows the checks still hold.
KnownRows == rows \cup UNION {poll[n].todo : n \in Nodes}

SameMeeting(r, q) == r.id = q.id /\ r.secret = q.secret

\* Whoever holds a nonce - a row, a check's copy of a row, a request, a
\* callback on its way, a running meeting - means the same meeting by it, and
\* the copies mean the same node.  Re-inserted rows and late callbacks can
\* therefore never be taken for a meeting of another name or another node
\* (core.py:143, api.py:434, api.py:625).
NonceNamesOneMeeting ==
    /\ \A r, q \in KnownRows : r.nonce = q.nonce => SameMeeting(r, q) /\ r.node = q.node
    /\ \A r \in KnownRows :
         /\ \A c \in Clients : req[c].nonce = r.nonce => SameMeeting(r, req[c])
         /\ \A x \in running : x.nonce = r.nonce => SameMeeting(r, x)
         /\ \A m \in callbacks : m.nonce = r.nonce => m.id = r.id

\* The database never holds two rows for one meeting: not when two creates
\* race for the first insert, not when a check inserts a row again that was
\* deleted under it (models.py:339, api.py:133, core.py:143).
UniqueMeeting ==
    \A r, q \in rows : SameMeeting(r, q) => r = q

\* A meeting's row disappears only by an end callback that carries the row's
\* own nonce, or by a check of the row's own node that reached the node, did
\* not see the meeting there and finds the row older than 5 s.  A node that
\* fails, a late callback of an earlier meeting of the same name and a check
\* of another node never cost a meeting its row (api.py:635-642,
\* core.py:109-152).
RemovedForCause ==
    [][\A r \in rows :
         \/ \E q \in rows' : q.nonce = r.nonce
         \/ \E h \in Handlers : ending[h].pc = "delete" /\ ending[h].nonce = r.nonce
         \/ /\ poll[r.node].pc = "loop" /\ ~hasErrors[r.node]
            /\ r.id \notin poll[r.node].stats
            /\ r.old]_vars

\* The inductive invariant behind the three: nonces in use have been drawn,
\* a check only holds rows of its node, and a check that goes on to the
\* meetings has just cleared its node's error.
NoncesDrawn ==
    /\ \A r \in KnownRows : r.nonce \in 1 .. nextNonce - 1
    /\ \A c \in Clients : req[c].nonce < nextNonce
    /\ \A x \in running : x.nonce < nextNonce
    /\ \A m \in callbacks : m.nonce < nextNonce

ChecksKnowTheirNode ==
    \A n \in Nodes :
      /\ \A r \in poll[n].todo : r.node = n
      /\ poll[n].pc \in {"read", "loop"} => ~hasErrors[n]

IInv ==
    /\ TypeOK
    /\ UniqueMeeting
    /\ NonceNamesOneMeeting
    /\ NoncesDrawn
    /\ ChecksKnowTheirNode

Routing == INSTANCE Routing
    WITH next <- nextNonce,
         routes <- {[id |-> r.id, secret |-> r.secret, node |-> r.node,
                     serial |-> r.nonce] : r \in rows}

\* Whatever overlaps, the table implements the abstract routing: no step moves
\* a meeting from one node, or from one end callback, straight to another,
\* or touches two meetings, and a nonce is never on two meetings' routes
\* (models.py:339, api.py:133, 547-549, 642, core.py:143-152).
RoutesKept == Routing!Spec

(* Safety, when creates overlap neither checks nor endings.                *)

\* Every running meeting has its row, on the node that runs it: joins and
\* later creates find it there (api.py:133-138, 547-549).
RunningIsRouted ==
    \A x \in running : \E r \in rows : SameMeeting(r, x) /\ r.node = x.node

\* "Creates a new meeting on a node if not exists." (api.py:116): no two
\* nodes run the same meeting.
OneServerPerMeeting ==
    \A x, y \in running : SameMeeting(x, y) => x.node = y.node

\* A running meeting that was given a record tag has the RecordSet its
\* recording will be uploaded to (api.py:425-428, 638-641, 680-682).
TagHasRecordSet ==
    \A x \in running : x.tag # 0 => x.tag \in recordSets

(* Liveness, under FairSpec.                                               *)

\* A row whose node does not run the meeting: its callback was lost, or its
\* create never reached the node.
Ghost(i, s) ==
    \E r \in RowsOf(i, s) : ~\E x \in running : x.id = i /\ x.node = r.node

\* The checks remove such a row in the end (core.py:144-152), unless the
\* meeting is started after all.
GhostsDisappear ==
    \A i \in Ids, s \in Secrets : Ghost(i, s) ~> ~Ghost(i, s)

=============================================================================
