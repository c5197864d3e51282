--------------------------- MODULE MeetingsProof ---------------------------
(* Proofs about Meetings, for any number of nodes, meetings, clients and   *)
(* callback handlers, any limits and whatever overlaps.                    *)
EXTENDS Meetings, TLAPS

LEMMA NullRecords ==
    NoRequest \in Request /\ NoCheck \in Check /\ NoEnding \in Ending
BY DEF NoRequest, NoCheck, NoEnding, Request, Check, Ending

LEMMA TypeStep == TypeOK /\ [Next]_vars => TypeOK'
<1>0. SUFFICES ASSUME TypeOK, [Next]_vars PROVE TypeOK'
  OBVIOUS
<1> USE <1>0, NullRecords DEF TypeOK, database, external
<1>1. ASSUME NEW c \in Clients, CreateStep(c) PROVE TypeOK'
  <2>0. req[c] \in Request
    OBVIOUS
  <2> HIDE DEF TypeOK
  <2>a. ASSUME NEW q \in Request, ReqBecomes(c, q)
        PROVE  req' \in [Clients -> Request]
    BY <2>a DEF ReqBecomes, TypeOK
  <2>1. CASE \E i \in Ids, s \in Secrets : CreateBegin(c, i, s)
    <3> PICK i \in Ids, s \in Secrets : CreateBegin(c, i, s)
      BY <2>1
    <3>1. ASSUME NEW n \in Nodes
          PROVE  [NoRequest EXCEPT !.pc = "insert", !.id = i, !.secret = s,
                                   !.node = n] \in Request
      BY DEF NoRequest, Request
    <3>2. [NoRequest EXCEPT !.pc = "place", !.id = i, !.secret = s] \in Request
      BY DEF NoRequest, Request
    <3>3. \A r \in Reachable(i, s) : r.node \in Nodes
      BY DEF Reachable, RowsOf, Row, TypeOK
    <3>4. req' \in [Clients -> Request]
      BY <3>1, <3>2, <3>3, <2>a DEF CreateBegin
    <3>5. QED
      BY <3>4 DEF CreateBegin, TypeOK
  <2>2. CASE \E n \in Nodes : CreatePlace(c, n)
    <3> PICK n \in Nodes : CreatePlace(c, n)
      BY <2>2
    <3>1. [req[c] EXCEPT !.pc = "limit", !.node = n] \in Request
      BY <2>0 DEF Request, CreatePlace
    <3>2. QED
      BY <3>1, <2>a DEF CreatePlace, TypeOK
  <2>3. CASE CreateLimit(c)
    <3>1. [req[c] EXCEPT !.pc = "insert"] \in Request
      BY <2>0, <2>3 DEF Request, CreateLimit
    <3>2. QED
      BY <2>3, <3>1, <2>a DEF CreateLimit, TypeOK
  <2>4. CASE \E r \in rows : CreateGet(c, r)
    <3> PICK r \in rows : CreateGet(c, r)
      BY <2>4
    <3>1. r.nonce \in Nat
      BY DEF TypeOK, Row
    <3>2. [req[c] EXCEPT !.pc = "params", !.nonce = r.nonce,
                         !.node = None] \in Request
      BY <2>0, <3>1 DEF Request, CreateGet
    <3>3. QED
      BY <3>2, <2>a DEF CreateGet, TypeOK
  <2>5. CASE \E r \in rows : CreateCheck(c, r)
    <3> PICK r \in rows : CreateCheck(c, r)
      BY <2>5
    <3>1. r.node \in Nodes
      BY DEF TypeOK, Row
    <3>2. [req[c] EXCEPT !.pc = "send", !.node = r.node] \in Request
      BY <2>0, <3>1 DEF Request, CreateCheck
    <3>3. QED
      BY <3>2, <2>a DEF CreateCheck, TypeOK
  <2>6. CASE CreateInsert(c)
    <3>1. [req[c] EXCEPT !.pc = "params", !.nonce = nextNonce,
                         !.created = TRUE, !.node = None] \in Request
      BY <2>0, <2>6 DEF CreateInsert, Request, TypeOK
    <3>2. [id |-> req[c].id, secret |-> req[c].secret, node |-> req[c].node,
           nonce |-> nextNonce, old |-> FALSE] \in Row
      BY <2>0, <2>6 DEF CreateInsert, Request, Row, TypeOK
    <3>3. rows' \subseteq Row
      BY <2>6, <3>2 DEF CreateInsert, TypeOK
    <3>4. req' \in [Clients -> Request]
      BY <2>6, <3>1, <2>a DEF CreateInsert
    <3>5. nextNonce' \in Nat \ {0}
      BY <2>6 DEF CreateInsert, TypeOK
    <3>6. QED
      BY <2>6, <3>3, <3>4, <3>5 DEF CreateInsert, TypeOK
  <2>7. CASE CreateParams(c)
    <3>1. [req[c] EXCEPT !.pc = "check", !.tag = req[c].nonce] \in Request
      BY <2>0, <2>7 DEF CreateParams, Request
    <3>2. [req[c] EXCEPT !.pc = "check"] \in Request
      BY <2>0, <2>7 DEF CreateParams, Request
    <3>3. req[c].nonce \in Nat
      BY <2>0 DEF Request
    <3>4. QED
      BY <2>7, <3>1, <3>2, <3>3, <2>a DEF CreateParams, TypeOK
  <2>8. CASE CreateSend(c)
    <3>1. [id |-> req[c].id, secret |-> req[c].secret, node |-> req[c].node,
           nonce |-> req[c].nonce, tag |-> req[c].tag] \in Instance
      BY <2>0, <2>8 DEF CreateSend, Request, Instance, TypeOK
    <3>2. QED
      BY <2>8, <3>1, <2>a DEF CreateSend, TypeOK
  <2>9. CASE CreateAbort(c)
    BY <2>9, <2>a DEF CreateAbort, TypeOK
  <2>10. QED
    <3>1. \/ \E i \in Ids, s \in Secrets : CreateBegin(c, i, s)
          \/ \E n \in Nodes : CreatePlace(c, n)
          \/ CreateLimit(c)
          \/ \E r \in rows : CreateGet(c, r)
          \/ \E r \in rows : CreateCheck(c, r)
          \/ CreateInsert(c) \/ CreateParams(c) \/ CreateSend(c)
          \/ CreateAbort(c)
      BY <1>1 DEF CreateStep
    <3>2. QED
      BY <3>1, <2>1, <2>2, <2>3, <2>4, <2>5, <2>6, <2>7, <2>8, <2>9
<1>2. ASSUME NEW n \in Nodes, PollStep(n) PROVE TypeOK'
  <2> USE DEF PollBecomes
  <2>1. CASE PollFetch(n)
    <3> DEFINE seen == {x.id : x \in {y \in running : y.node = n}}
    <3>1. seen \in SUBSET Ids
      BY DEF Instance
    <3>2. [NoCheck EXCEPT !.pc = "write", !.ok = TRUE, !.stats = seen] \in Check
      BY <3>1 DEF Check, NoCheck
    <3>3. QED
      BY <2>1, <3>2 DEF PollFetch
  <2>2. CASE PollFail(n)
    BY <2>2 DEF PollFail, Check
  <2>3. CASE PollWrite(n)
    BY <2>3 DEF PollWrite, Check
  <2>4. CASE PollRead(n)
    BY <2>4 DEF PollRead, Check
  <2>5. CASE \E r \in poll[n].todo : PollSave(n, r)
    BY <2>5 DEF PollSave, Check
  <2>6. CASE \E r \in poll[n].todo : PollRemove(n, r)
    BY <2>6 DEF PollRemove, Check
  <2>7. CASE PollDone(n) \/ PollCrash(n)
    BY <2>7 DEF PollDone, PollCrash
  <2>8. QED
    BY <1>2, <2>1, <2>2, <2>3, <2>4, <2>5, <2>6, <2>7 DEF PollStep
<1>3. ASSUME NEW h \in Handlers, EndStep(h) PROVE TypeOK'
  <2> USE DEF EndBecomes
  <2>1. CASE \E m \in callbacks, again \in BOOLEAN : EndFind(h, m, again)
    BY <2>1 DEF EndFind, Callback, Ending
  <2>2. CASE EndPurge(h)
    BY <2>2 DEF EndPurge, Ending
  <2>3. CASE EndDelete(h) \/ EndCrash(h)
    BY <2>3 DEF EndDelete, EndCrash
  <2>4. QED
    BY <1>3, <2>1, <2>2, <2>3 DEF EndStep
<1>4. ASSUME Environment PROVE TypeOK'
  <2>1. CASE \E r \in rows : Age(r)
    BY <2>1 DEF Age, Row
  <2>2. CASE \E x \in running, marks \in BOOLEAN : MeetingEnds(x, marks)
    BY <2>2 DEF MeetingEnds, Instance, Callback
  <2>3. CASE \E m \in callbacks : CallbackLost(m)
    BY <2>3 DEF CallbackLost
  <2>4. QED
    BY <1>4, <2>1, <2>2, <2>3 DEF Environment
<1>5. CASE UNCHANGED vars
  BY <1>5 DEF vars
<1>6. QED
  BY <1>1, <1>2, <1>3, <1>4, <1>5 DEF Next

(***************************************************************************)
(* Every variable keeps its type: in particular what the requests, checks  *)
(* and end callbacks remember between two database calls are meetings,     *)
(* nodes and nonces of the installation (api.py:113-138, core.py:37-169,   *)
(* api.py:631-643).                                                        *)
(***************************************************************************)
THEOREM TypeCorrect == Spec => []TypeOK
<1>1. Init => TypeOK
  BY NullRecords DEF Init, TypeOK
<1>2. QED
  BY <1>1, TypeStep, PTL DEF Spec

-----------------------------------------------------------------------------
\* r and q are copies of one row: 'old' may differ.
SameRow(r, q) == SameMeeting(r, q) /\ r.node = q.node /\ r.nonce = q.nonce

\* A step that names nothing new: every row, request, running meeting and
\* callback after it has its nonce from one before it.
NamesNothingNew ==
    /\ nextNonce' = nextNonce
    /\ \A r \in KnownRows' : \E q \in KnownRows : SameRow(r, q)
    /\ \A c \in Clients :
         \/ req'[c].nonce = 0
         \/ req'[c].nonce = req[c].nonce /\ SameMeeting(req'[c], req[c])
         \/ \E q \in KnownRows :
              req'[c].nonce = q.nonce /\ SameMeeting(req'[c], q)
    /\ \A x \in running' :
         \/ x \in running
         \/ \E c \in Clients : x.nonce = req[c].nonce /\ SameMeeting(x, req[c])
    /\ \A m \in callbacks' :
         \/ m \in callbacks
         \/ \E x \in running : m.nonce = x.nonce /\ m.id = x.id

LEMMA NamesPreserved ==
    ASSUME NonceNamesOneMeeting, NoncesDrawn, TypeOK, NamesNothingNew
    PROVE  NonceNamesOneMeeting' /\ NoncesDrawn'
<1> USE DEF SameRow, SameMeeting
<1>1. NoncesDrawn'
  <2>1. \A r \in KnownRows' : r.nonce \in 1 .. nextNonce' - 1
    BY DEF NoncesDrawn, NamesNothingNew
  <2>2. \A c \in Clients : req'[c].nonce < nextNonce'
    BY DEF NoncesDrawn, NamesNothingNew, TypeOK
  <2>3. \A x \in running' : x.nonce < nextNonce'
    BY DEF NoncesDrawn, NamesNothingNew
  <2>4. \A m \in callbacks' : m.nonce < nextNonce'
    BY DEF NoncesDrawn, NamesNothingNew
  <2>5. QED
    BY <2>1, <2>2, <2>3, <2>4 DEF NoncesDrawn
<1>2. \A r, q \in KnownRows' :
         r.nonce = q.nonce => SameMeeting(r, q) /\ r.node = q.node
  BY DEF NonceNamesOneMeeting, NamesNothingNew
<1>3. ASSUME NEW r \in KnownRows'
      PROVE  /\ \A c \in Clients :
                  req'[c].nonce = r.nonce => SameMeeting(r, req'[c])
             /\ \A x \in running' : x.nonce = r.nonce => SameMeeting(r, x)
             /\ \A m \in callbacks' : m.nonce = r.nonce => m.id = r.id
  <2> PICK q \in KnownRows : SameRow(r, q)
    BY DEF NamesNothingNew
  <2>1. q.nonce # 0
    BY DEF NoncesDrawn
  <2>2. \A c \in Clients : req'[c].nonce = r.nonce => SameMeeting(r, req'[c])
    BY <2>1 DEF NonceNamesOneMeeting, NamesNothingNew
  <2>3. \A x \in running' : x.nonce = r.nonce => SameMeeting(r, x)
    BY DEF NonceNamesOneMeeting, NamesNothingNew
  <2>4. \A m \in callbacks' : m.nonce = r.nonce => m.id = r.id
    BY DEF NonceNamesOneMeeting, NamesNothingNew
  <2>5. QED
    BY <2>2, <2>3, <2>4
<1>4. QED
  BY <1>1, <1>2, <1>3 DEF NonceNamesOneMeeting

\* What a step of one kind leaves of the rows that are known.
LEMMA KnownRowsUnchanged ==
    ASSUME rows' \subseteq rows, poll' = poll
    PROVE  \A r \in KnownRows' : \E q \in KnownRows : SameRow(r, q)
BY DEF KnownRows, SameRow, SameMeeting

\* The steps of a create other than its insert name nothing new.
LEMMA CreateNames ==
    ASSUME TypeOK, NEW c \in Clients, CreateStep(c), ~CreateInsert(c)
    PROVE  NamesNothingNew
<1> USE DEF database, external, ReqBecomes
<1>0. req \in [Clients -> Request] /\ NoRequest.nonce = 0
  BY DEF TypeOK, NoRequest
<1> DEFINE Kept == /\ nextNonce' = nextNonce /\ rows' = rows /\ poll' = poll
                   /\ callbacks' = callbacks
           Named == \/ req'[c].nonce = 0
                    \/ req'[c].nonce = req[c].nonce /\ SameMeeting(req'[c], req[c])
                    \/ \E q \in KnownRows :
                         req'[c].nonce = q.nonce /\ SameMeeting(req'[c], q)
           Others == \A d \in Clients \ {c} : req'[d] = req[d]
<1>1. SUFFICES Kept /\ Named /\ Others
               /\ \A x \in running' : \/ x \in running
                                       \/ /\ x.nonce = req[c].nonce
                                          /\ SameMeeting(x, req[c])
  BY KnownRowsUnchanged DEF NamesNothingNew, SameMeeting
<1>2. CASE \E i \in Ids, s \in Secrets : CreateBegin(c, i, s)
  BY <1>0, <1>2 DEF CreateBegin, NoRequest
<1>3. CASE \E n \in Nodes : CreatePlace(c, n)
  BY <1>0, <1>3 DEF CreatePlace, SameMeeting, Request
<1>4. CASE CreateLimit(c)
  BY <1>0, <1>4 DEF CreateLimit, SameMeeting, Request
<1>5. CASE \E r \in rows : CreateGet(c, r)
  BY <1>0, <1>5 DEF CreateGet, RowsOf, SameMeeting, KnownRows, Request
<1>6. CASE \E r \in rows : CreateCheck(c, r)
  BY <1>0, <1>6 DEF CreateCheck, SameMeeting, Request
<1>7. CASE CreateParams(c)
  BY <1>0, <1>7 DEF CreateParams, SameMeeting, Request
<1>8. CASE CreateSend(c)
  BY <1>0, <1>8 DEF CreateSend, SameMeeting
<1>9. CASE CreateAbort(c)
  BY <1>0, <1>9 DEF CreateAbort
<1>10. QED
  BY <1>2, <1>3, <1>4, <1>5, <1>6, <1>7, <1>8, <1>9 DEF CreateStep

\* Nor do the checks: a row they insert again is one they know.
LEMMA PollNames ==
    ASSUME TypeOK, NEW n \in Nodes, PollStep(n)
    PROVE  NamesNothingNew
<1> USE DEF database, external, PollBecomes, KnownRows, SameRow, SameMeeting
<1>0. poll \in [Nodes -> Check] /\ NoCheck.todo = {}
  BY DEF TypeOK, NoCheck
<1>1. SUFFICES \A r \in KnownRows' : \E q \in KnownRows : SameRow(r, q)
  <2>1. UNCHANGED <<nextNonce, req, running, callbacks>>
    BY DEF PollStep, PollFetch, PollFail, PollWrite, PollRead, PollSave,
       PollRemove, PollDone, PollCrash
  <2>2. QED
    BY <2>1 DEF NamesNothingNew
<1>2. CASE PollFetch(n) \/ PollFail(n)
  <2>1. rows' = rows /\ \A m \in Nodes : poll'[m].todo \subseteq poll[m].todo
    <3>1. CASE PollFetch(n)
      <4> DEFINE seen == {x.id : x \in {y \in running : y.node = n}}
      <4>1. PollBecomes(n, [NoCheck EXCEPT !.pc = "write", !.ok = TRUE,
                                           !.stats = seen])
        BY <3>1 DEF PollFetch
      <4> HIDE DEF seen
      <4>2. [NoCheck EXCEPT !.pc = "write", !.ok = TRUE,
                            !.stats = seen].todo = {}
        BY DEF NoCheck
      <4>3. QED
        BY <1>0, <3>1, <4>1, <4>2 DEF PollFetch
    <3>2. CASE PollFail(n)
      BY <1>0, <3>2 DEF PollFail, Check
    <3>3. QED
      BY <1>2, <3>1, <3>2
  <2>2. QED
    BY <2>1
<1>3. CASE PollWrite(n)
  BY <1>0, <1>3 DEF PollWrite, Check
<1>4. CASE PollRead(n)
  BY <1>0, <1>4 DEF PollRead, Check
<1>5. CASE \E r \in poll[n].todo : PollSave(n, r)
  BY <1>0, <1>5 DEF PollSave, Check
<1>6. CASE \E r \in poll[n].todo : PollRemove(n, r)
  BY <1>0, <1>6 DEF PollRemove, Check
<1>7. CASE PollDone(n) \/ PollCrash(n)
  BY <1>0, <1>7 DEF PollDone, PollCrash
<1>8. QED
  <2>1. \/ PollFetch(n) \/ PollFail(n) \/ PollWrite(n) \/ PollRead(n)
        \/ \E r \in poll[n].todo : PollSave(n, r)
        \/ \E r \in poll[n].todo : PollRemove(n, r)
        \/ PollDone(n) \/ PollCrash(n)
    BY DEF PollStep
  <2>2. QED
    BY <2>1, <1>2, <1>3, <1>4, <1>5, <1>6, <1>7

\* Nor do the end callbacks and the environment.
LEMMA OtherNames ==
    ASSUME TypeOK,
           (\E h \in Handlers : EndStep(h)) \/ Environment \/ UNCHANGED vars
    PROVE  NamesNothingNew
<1> USE DEF database, external, SameRow, SameMeeting
<1>1. CASE \E h \in Handlers : EndStep(h)
  <2> PICK h \in Handlers : EndStep(h)
    BY <1>1
  <2>1. /\ UNCHANGED <<nextNonce, req, running, poll>>
        /\ rows' \subseteq rows /\ callbacks' \subseteq callbacks
    BY DEF EndStep, EndFind, EndPurge, EndDelete, EndCrash
  <2>2. QED
    BY <2>1, KnownRowsUnchanged DEF NamesNothingNew
<1>2. CASE \E r \in rows : Age(r)
  <2> PICK r \in rows : Age(r)
    BY <1>2
  <2>1. SameRow([r EXCEPT !.old = TRUE], r)
    BY DEF TypeOK, Row
  <2>2. \A q \in KnownRows' : \E p \in KnownRows : SameRow(q, p)
    BY <2>1 DEF Age, KnownRows
  <2>3. QED
    BY <2>2 DEF Age, NamesNothingNew
<1>3. CASE \E x \in running, marks \in BOOLEAN : MeetingEnds(x, marks)
  BY <1>3, KnownRowsUnchanged DEF MeetingEnds, NamesNothingNew
<1>4. CASE \E m \in callbacks : CallbackLost(m)
  BY <1>4, KnownRowsUnchanged DEF CallbackLost, NamesNothingNew
<1>5. CASE UNCHANGED vars
  BY <1>5, KnownRowsUnchanged DEF vars, NamesNothingNew
<1>6. QED
  <2>1. \/ \E h \in Handlers : EndStep(h)
        \/ \E r \in rows : Age(r)
        \/ \E x \in running, marks \in BOOLEAN : MeetingEnds(x, marks)
        \/ \E m \in callbacks : CallbackLost(m)
        \/ UNCHANGED vars
    BY DEF Environment
  <2>2. QED
    BY <2>1, <1>1, <1>2, <1>3, <1>4, <1>5

\* The insert of a create draws a nonce that nobody holds.
LEMMA InsertNames ==
    ASSUME TypeOK, NonceNamesOneMeeting, NoncesDrawn,
           NEW c \in Clients, CreateInsert(c)
    PROVE  NonceNamesOneMeeting' /\ NoncesDrawn'
<1> DEFINE new == [id |-> req[c].id, secret |-> req[c].secret,
                   node |-> req[c].node, nonce |-> nextNonce, old |-> FALSE]
<1>1. KnownRows' = KnownRows \cup {new}
  BY DEF CreateInsert, KnownRows
<1>2. /\ nextNonce' = nextNonce + 1 /\ nextNonce \in Nat \ {0}
      /\ running' = running /\ callbacks' = callbacks
  BY DEF CreateInsert, external, TypeOK
<1>3. /\ req'[c].nonce = nextNonce /\ SameMeeting(req'[c], new)
      /\ \A d \in Clients \ {c} : req'[d] = req[d]
  BY DEF CreateInsert, ReqBecomes, TypeOK, Request, SameMeeting
<1>4. NoncesDrawn'
  <2>1. \A r \in KnownRows' : r.nonce \in 1 .. nextNonce' - 1
    BY <1>1, <1>2 DEF NoncesDrawn
  <2>2. \A d \in Clients : req'[d].nonce < nextNonce'
    <3>1. \A d \in Clients : req[d].nonce \in Nat
      BY DEF TypeOK, Request
    <3>2. QED
      BY <3>1, <1>2, <1>3 DEF NoncesDrawn
  <2>3. /\ \A x \in running : x.nonce \in Nat
        /\ \A m \in callbacks : m.nonce \in Nat
    BY DEF TypeOK, Instance, Callback
  <2>4. QED
    BY <1>2, <2>1, <2>2, <2>3 DEF NoncesDrawn
<1>5. NonceNamesOneMeeting'
  <2>1. \A r \in KnownRows : r.nonce # nextNonce
    BY <1>2 DEF NoncesDrawn
  <2>2. /\ \A d \in Clients : req[d].nonce # nextNonce
        /\ \A x \in running : x.nonce # nextNonce
        /\ \A m \in callbacks : m.nonce # nextNonce
    BY <1>2 DEF NoncesDrawn
  <2>3. \A r, q \in KnownRows' :
           r.nonce = q.nonce => SameMeeting(r, q) /\ r.node = q.node
    BY <1>1, <2>1 DEF NonceNamesOneMeeting, SameMeeting
  <2>4. ASSUME NEW r \in KnownRows'
        PROVE  /\ \A d \in Clients :
                    req'[d].nonce = r.nonce => SameMeeting(r, req'[d])
               /\ \A x \in running' : x.nonce = r.nonce => SameMeeting(r, x)
               /\ \A m \in callbacks' : m.nonce = r.nonce => m.id = r.id
    <3>1. CASE r = new
      BY <3>1, <1>2, <1>3, <2>2 DEF SameMeeting
    <3>2. CASE r \in KnownRows
      BY <3>2, <1>2, <1>3, <2>1 DEF NonceNamesOneMeeting
    <3>3. QED
      BY <1>1, <3>1, <3>2
  <2>5. QED
    BY <2>3, <2>4 DEF NonceNamesOneMeeting
<1>6. QED
  BY <1>4, <1>5

-----------------------------------------------------------------------------
\* Every write to the table respects the unique constraint.
LEMMA UniqueStep ==
    ASSUME TypeOK, UniqueMeeting, [Next]_vars
    PROVE  UniqueMeeting'
<1> USE DEF database, UniqueMeeting, SameMeeting
<1>1. ASSUME NEW c \in Clients, CreateStep(c) PROVE UniqueMeeting'
  <2>1. CASE CreateInsert(c)
    <3> DEFINE new == [id |-> req[c].id, secret |-> req[c].secret,
                       node |-> req[c].node, nonce |-> nextNonce, old |-> FALSE]
    <3>1. rows' = rows \cup {new}
      BY <2>1 DEF CreateInsert
    <3>2. \A r \in rows : ~(r.id = new.id /\ r.secret = new.secret)
      BY <2>1 DEF CreateInsert, RowsOf
    <3> HIDE DEF new
    <3>3. QED
      BY <3>1, <3>2
  <2>2. CASE ~CreateInsert(c)
    <3>1. rows' = rows
      BY <1>1, <2>2 DEF CreateStep, CreateBegin, CreatePlace, CreateLimit,
           CreateGet, CreateCheck, CreateParams, CreateSend, CreateAbort
    <3>2. QED
      BY <3>1
  <2>3. QED
    BY <2>1, <2>2
<1>2. ASSUME NEW n \in Nodes, PollStep(n) PROVE UniqueMeeting'
  <2>1. CASE \E r \in poll[n].todo : PollSave(n, r)
    BY <2>1 DEF PollSave, RowsOf
  <2>2. CASE ~\E r \in poll[n].todo : PollSave(n, r)
    <3>1. rows' \subseteq rows
      BY <1>2, <2>2 DEF PollStep, PollFetch, PollFail, PollWrite, PollRead,
           PollRemove, PollDone, PollCrash
    <3>2. QED
      BY <3>1
  <2>3. QED
    BY <2>1, <2>2
<1>3. ASSUME NEW h \in Handlers, EndStep(h) PROVE UniqueMeeting'
  <2>1. rows' \subseteq rows
    BY <1>3 DEF EndStep, EndFind, EndPurge, EndDelete, EndCrash
  <2>2. QED
    BY <2>1
<1>4. ASSUME Environment PROVE UniqueMeeting'
  <2>1. CASE \E r \in rows : Age(r)
    BY <2>1 DEF Age, TypeOK, Row
  <2>2. CASE ~\E r \in rows : Age(r)
    BY <1>4, <2>2 DEF Environment, MeetingEnds, CallbackLost
  <2>3. QED
    BY <2>1, <2>2
<1>5. CASE UNCHANGED vars
  BY <1>5 DEF vars
<1>6. QED
  BY <1>1, <1>2, <1>3, <1>4, <1>5 DEF Next

LEMMA ChecksStep ==
    ASSUME TypeOK, ChecksKnowTheirNode, [Next]_vars
    PROVE  ChecksKnowTheirNode'
<1> USE DEF database, external
<1>1. CASE poll' = poll /\ hasErrors' = hasErrors
  BY <1>1 DEF ChecksKnowTheirNode
<1>2. ASSUME NEW n \in Nodes, PollStep(n) PROVE ChecksKnowTheirNode'
  <2> DEFINE Good == /\ \A r \in poll'[n].todo : r.node = n
                     /\ poll'[n].pc \in {"read", "loop"} => ~hasErrors'[n]
                     /\ \A m \in Nodes \ {n} :
                          poll'[m] = poll[m] /\ hasErrors'[m] = hasErrors[m]
  <2>0. /\ poll \in [Nodes -> Check] /\ poll[n] \in Check
        /\ hasErrors \in [Nodes -> BOOLEAN]
    BY DEF TypeOK
  <2>1. SUFFICES Good
    BY DEF ChecksKnowTheirNode
  <2> USE <2>0 DEF PollBecomes
  <2>2. CASE PollFetch(n)
    <3> DEFINE seen == {x.id : x \in {y \in running : y.node = n}}
    <3>1. PollBecomes(n, [NoCheck EXCEPT !.pc = "write", !.ok = TRUE,
                                         !.stats = seen])
      BY <2>2 DEF PollFetch
    <3> HIDE DEF seen
    <3>2. QED
      BY <2>2, <3>1 DEF PollFetch, NoCheck
  <2>3. CASE PollFail(n)
    BY <2>3 DEF PollFail, Check, ChecksKnowTheirNode
  <2>4. CASE PollWrite(n)
    BY <2>4 DEF PollWrite, Check, NoCheck, ChecksKnowTheirNode
  <2>5. CASE PollRead(n)
    BY <2>5 DEF PollRead, Check, ChecksKnowTheirNode
  <2>6. CASE \E r \in poll[n].todo : PollSave(n, r)
    <3> PICK r \in poll[n].todo : PollSave(n, r)
      BY <2>6
    <3>1. CASE PollBecomes(n, NoCheck)
      BY <3>1 DEF PollSave, NoCheck, ChecksKnowTheirNode
    <3>2. CASE PollBecomes(n, [poll[n] EXCEPT !.todo = @ \ {r}])
      BY <3>2 DEF PollSave, Check, ChecksKnowTheirNode
    <3>3. QED
      BY <3>1, <3>2 DEF PollSave
  <2>7. CASE \E r \in poll[n].todo : PollRemove(n, r)
    BY <2>7 DEF PollRemove, Check, ChecksKnowTheirNode
  <2>8. CASE PollDone(n) \/ PollCrash(n)
    BY <2>8 DEF PollDone, PollCrash, NoCheck
  <2>9. QED
    <3>1. \/ PollFetch(n) \/ PollFail(n) \/ PollWrite(n) \/ PollRead(n)
          \/ \E r \in poll[n].todo : PollSave(n, r)
          \/ \E r \in poll[n].todo : PollRemove(n, r)
          \/ PollDone(n) \/ PollCrash(n)
      BY <1>2 DEF PollStep
    <3>2. QED
      BY <3>1, <2>2, <2>3, <2>4, <2>5, <2>6, <2>7, <2>8
<1>3. ASSUME NEW c \in Clients, CreateStep(c)
      PROVE  poll' = poll /\ hasErrors' = hasErrors
  BY <1>3 DEF CreateStep, CreateBegin, CreatePlace, CreateLimit, CreateGet,
       CreateInsert, CreateCheck, CreateParams, CreateSend, CreateAbort
<1>4. ASSUME NEW h \in Handlers, EndStep(h)
      PROVE  poll' = poll /\ hasErrors' = hasErrors
  BY <1>4 DEF EndStep, EndFind, EndPurge, EndDelete, EndCrash
<1>5. Environment \/ UNCHANGED vars => poll' = poll /\ hasErrors' = hasErrors
  BY DEF Environment, Age, MeetingEnds, CallbackLost, vars
<1>6. QED
  BY <1>1, <1>2, <1>3, <1>4, <1>5 DEF Next

LEMMA IInvInit == Init => IInv
<1>1. Init => TypeOK
  BY NullRecords DEF Init, TypeOK
<1>2. Init => KnownRows = {}
  BY DEF Init, KnownRows, NoCheck
<1>3. QED
  BY <1>1, <1>2 DEF Init, IInv, UniqueMeeting, NonceNamesOneMeeting,
     NoncesDrawn, ChecksKnowTheirNode, NoCheck, NoRequest

LEMMA IInvStep == IInv /\ [Next]_vars => IInv'
<1>1. SUFFICES ASSUME IInv, [Next]_vars PROVE IInv'
  OBVIOUS
<1> USE <1>1 DEF IInv
<1>2. NonceNamesOneMeeting' /\ NoncesDrawn'
  <2>1. CASE \E c \in Clients : CreateStep(c) /\ CreateInsert(c)
    BY <2>1, InsertNames
  <2>2. CASE \E c \in Clients : CreateStep(c) /\ ~CreateInsert(c)
    BY <2>2, CreateNames, NamesPreserved
  <2>3. CASE \E n \in Nodes : PollStep(n)
    BY <2>3, PollNames, NamesPreserved
  <2>4. CASE (\E h \in Handlers : EndStep(h)) \/ Environment \/ UNCHANGED vars
    BY <2>4, OtherNames, NamesPreserved
  <2>5. QED
    BY <2>1, <2>2, <2>3, <2>4 DEF Next
<1>3. QED
  BY <1>2, TypeStep, UniqueStep, ChecksStep

(***************************************************************************)
(* The inductive invariant holds: the database, the requests, the checks,  *)
(* the callbacks and the nodes agree on what every nonce means, whatever   *)
(* the interleaving (api.py:113-138, 631-643, core.py:37-169).             *)
(***************************************************************************)
THEOREM Inductive == Spec => []IInv
BY IInvInit, IInvStep, PTL DEF Spec

(***************************************************************************)
(* There is never a second row for a meeting (models.py:339): the guards   *)
(* of get_or_create and of the re-inserting save are enough.               *)
(***************************************************************************)
THEOREM MeetingsAreUnique == Spec => []UniqueMeeting
BY Inductive, PTL DEF IInv

(***************************************************************************)
(* A nonce names one meeting on one node for ever, so that a late end      *)
(* callback or a stale copy of a row is never taken for another meeting    *)
(* (api.py:434, 625, core.py:143).                                         *)
(***************************************************************************)
THEOREM NoncesNameMeetings == Spec => []NonceNamesOneMeeting
BY Inductive, PTL DEF IInv

(***************************************************************************)
(* Rows disappear only for cause: by an end callback with the row's nonce  *)
(* or by a check of the row's own node that reached it and did not see the *)
(* meeting (api.py:635-642, core.py:109-152).                              *)
(***************************************************************************)
THEOREM RowsRemovedForCause == Spec => RemovedForCause
<1> DEFINE Gone(r) == ~\E q \in rows' : q.nonce = r.nonce
           Cause(r) ==
             \/ \E h \in Handlers : ending[h].pc = "delete" /\ ending[h].nonce = r.nonce
             \/ /\ poll[r.node].pc = "loop" /\ ~hasErrors[r.node]
                /\ r.id \notin poll[r.node].stats
                /\ r.old
<1>1. ASSUME IInv, Next, NEW r \in rows, Gone(r) PROVE Cause(r)
  <2>1. ~(rows \subseteq rows')
    BY <1>1
  <2> USE DEF database
  <2>2. CASE \E c \in Clients : CreateStep(c)
    BY <2>1, <2>2 DEF CreateStep, CreateBegin, CreatePlace, CreateLimit,
       CreateGet, CreateInsert, CreateCheck, CreateParams, CreateSend, CreateAbort
  <2>3. ASSUME NEW n \in Nodes, PollStep(n) PROVE Cause(r)
    <3>1. PICK t \in poll[n].todo : PollRemove(n, t)
      BY <2>1, <2>3 DEF PollStep, PollFetch, PollFail, PollWrite, PollRead,
         PollSave, PollDone, PollCrash
    <3>2. t.nonce = r.nonce /\ r.old
      BY <1>1, <3>1 DEF PollRemove
    <3>3. t \in KnownRows /\ r \in KnownRows
      BY DEF KnownRows
    <3>4. t.id = r.id /\ t.node = r.node
      BY <1>1, <3>2, <3>3 DEF IInv, NonceNamesOneMeeting, SameMeeting
    <3>5. t.node = n /\ (poll[n].pc = "loop" => ~hasErrors[n])
      BY <1>1 DEF IInv, ChecksKnowTheirNode
    <3>6. QED
      BY <3>1, <3>2, <3>4, <3>5 DEF PollRemove
  <2>4. ASSUME NEW h \in Handlers, EndStep(h) PROVE Cause(r)
    <3>1. EndDelete(h)
      BY <2>1, <2>4 DEF EndStep, EndFind, EndPurge, EndCrash
    <3>2. QED
      BY <1>1, <3>1 DEF EndDelete
  <2>5. CASE Environment
    <3>1. CASE \E t \in rows : Age(t)
      <4> PICK t \in rows : Age(t)
        BY <3>1
      <4>1. [t EXCEPT !.old = TRUE].nonce = t.nonce
        BY <1>1 DEF IInv, TypeOK, Row
      <4>2. QED
        BY <1>1, <4>1 DEF Age
    <3>2. CASE ~\E t \in rows : Age(t)
      BY <2>1, <2>5, <3>2 DEF Environment, MeetingEnds, CallbackLost
    <3>3. QED
      BY <3>1, <3>2
  <2>6. QED
    BY <1>1, <2>2, <2>3, <2>4, <2>5 DEF Next
<1>2. IInv /\ [Next]_vars =>
        [\A r \in rows :
           \/ \E q \in rows' : q.nonce = r.nonce
           \/ \E h \in Handlers : ending[h].pc = "delete" /\ ending[h].nonce = r.nonce
           \/ /\ poll[r.node].pc = "loop" /\ ~hasErrors[r.node]
              /\ r.id \notin poll[r.node].stats
              /\ r.old]_vars
  BY <1>1
<1>3. QED
  BY <1>2, Inductive, PTL DEF RemovedForCause, Spec

-----------------------------------------------------------------------------
(* The table implements the abstract routing.                              *)

\* The route a row stands for; Meetings maps the table to these.
RouteOf(r) == [id |-> r.id, secret |-> r.secret, node |-> r.node,
               serial |-> r.nonce]

MappedRoutes == {RouteOf(r) : r \in rows}

\* Rows of one meeting have one route, and unequal rows have unequal ones.
LEMMA RoutesAreRows ==
    ASSUME UniqueMeeting, NEW r \in rows, NEW q \in rows, RouteOf(r) = RouteOf(q)
    PROVE  r = q
BY DEF UniqueMeeting, SameMeeting, RouteOf

\* A row that is inserted gives its meeting a route.
LEMMA RowAdded ==
    ASSUME NEW r, rows' = rows \cup {r}
    PROVE  MappedRoutes' = MappedRoutes \cup {RouteOf(r)}
BY DEF MappedRoutes, RouteOf

LEMMA NotRouted ==
    ASSUME NEW i, NEW s, RowsOf(i, s) = {}
    PROVE  ~\E x \in MappedRoutes : x.id = i /\ x.secret = s
BY DEF MappedRoutes, RouteOf, RowsOf

\* A statement that deletes the rows of one nonce takes one route, or none.
LEMMA RowsDeleted ==
    ASSUME IInv, NEW k, rows' \subseteq rows,
           \A r \in rows \ rows' : r.nonce = k
    PROVE  \/ MappedRoutes' = MappedRoutes
           \/ \E x \in MappedRoutes : MappedRoutes' = MappedRoutes \ {x}
<1>1. CASE rows' = rows
  BY <1>1 DEF MappedRoutes, RouteOf
<1>2. CASE rows' # rows
  <2>1. PICK r \in rows : r \notin rows'
    BY <1>2
  <2>2. ASSUME NEW q \in rows, q \notin rows' PROVE q = r
    <3>1. q.nonce = r.nonce /\ q \in KnownRows /\ r \in KnownRows
      BY <2>1, <2>2 DEF KnownRows
    <3>2. QED
      BY <3>1, <2>1, <2>2 DEF IInv, NonceNamesOneMeeting, UniqueMeeting
  <2>3. rows' = rows \ {r}
    BY <2>1, <2>2
  <2>4. MappedRoutes' = MappedRoutes \ {RouteOf(r)}
    <3>1. \A q \in rows' : RouteOf(q) # RouteOf(r)
      BY <2>1, <2>3, RoutesAreRows DEF IInv
    <3> HIDE DEF IInv
    <3>2. MappedRoutes' = {RouteOf(q) : q \in rows'}
      BY DEF MappedRoutes, RouteOf
    <3>3. QED
      BY <3>1, <3>2, <2>3 DEF MappedRoutes
  <2>5. QED
    BY <2>1, <2>4 DEF MappedRoutes
<1>3. QED
  BY <1>1, <1>2

LEMMA RoutingInit == Init => Routing!Init
BY DEF Init, Routing!Init

LEMMA RoutingStep ==
    ASSUME IInv, [Next]_vars
    PROVE  [Routing!Next]_(Routing!vars)
<1>0. /\ TypeOK /\ NoncesDrawn
      /\ \A r \in rows : r \in KnownRows
  BY DEF IInv, KnownRows
<1> DEFINE Stutter == MappedRoutes' = MappedRoutes /\ nextNonce' = nextNonce
           Lost == /\ \E x \in MappedRoutes : MappedRoutes' = MappedRoutes \ {x}
                   /\ nextNonce' = nextNonce
<1>1. Stutter => Routing!vars' = Routing!vars
  BY DEF Routing!vars, MappedRoutes, RouteOf
<1>2. Lost => Routing!Next
  BY DEF Routing!Next, Routing!Unbind, MappedRoutes, RouteOf
<1>3. rows' = rows /\ nextNonce' = nextNonce => Stutter
  BY DEF MappedRoutes, RouteOf
<1> USE DEF database
<1>4. ASSUME NEW c \in Clients, CreateStep(c)
      PROVE  Stutter \/ Routing!Next
  <2>1. CASE CreateInsert(c)
    <3> DEFINE new == [id |-> req[c].id, secret |-> req[c].secret,
                       node |-> req[c].node, nonce |-> nextNonce, old |-> FALSE]
    <3>1. req[c].id \in Ids /\ req[c].secret \in Secrets /\ req[c].node \in Nodes
      BY <1>0, <2>1 DEF CreateInsert, TypeOK, Request
    <3>2. ~\E x \in MappedRoutes : x.id = req[c].id /\ x.secret = req[c].secret
      BY <2>1, NotRouted DEF CreateInsert
    <3>3. MappedRoutes' = MappedRoutes \cup {RouteOf(new)}
      <4>1. rows' = rows \cup {new}
        BY <2>1 DEF CreateInsert
      <4>2. QED
        BY <4>1, RowAdded
    <3>4. RouteOf(new) = [id |-> req[c].id, secret |-> req[c].secret,
                          node |-> req[c].node, serial |-> nextNonce]
      BY DEF RouteOf
    <3>5. nextNonce' = nextNonce + 1
      BY <2>1 DEF CreateInsert
    <3>6. PICK i \in Ids, s \in Secrets, n \in Nodes :
               i = req[c].id /\ s = req[c].secret /\ n = req[c].node
      BY <3>1
    <3>7. Routing!Bind(i, s, n)
      BY <3>2, <3>3, <3>4, <3>5, <3>6
         DEF Routing!Bind, Routing!Routed, MappedRoutes, RouteOf
    <3>8. QED
      BY <3>7 DEF Routing!Next
  <2>2. CASE ~CreateInsert(c)
    <3>1. rows' = rows /\ nextNonce' = nextNonce
      BY <1>4, <2>2 DEF CreateStep, CreateBegin, CreatePlace, CreateLimit,
           CreateGet, CreateCheck, CreateParams, CreateSend, CreateAbort
    <3>2. QED
      BY <3>1, <1>3
  <2>3. QED
    BY <2>1, <2>2
<1>5. ASSUME NEW n \in Nodes, PollStep(n)
      PROVE  Stutter \/ Lost \/ Routing!Next
  <2>0. nextNonce' = nextNonce
    BY <1>5 DEF PollStep, PollFetch, PollFail, PollWrite, PollRead, PollSave,
       PollRemove, PollDone, PollCrash
  <2>1. ASSUME NEW r \in poll[n].todo, PollSave(n, r)
        PROVE  Stutter \/ Routing!Next
    <3>1. CASE rows' = rows
      BY <3>1, <2>0, <1>3
    <3>2. CASE rows' # rows
      <4>1. /\ ~Exists(r.nonce) /\ RowsOf(r.id, r.secret) = {}
            /\ rows' = rows \cup {r}
        BY <2>1, <3>2 DEF PollSave
      <4>2. /\ r.id \in Ids /\ r.secret \in Secrets /\ r.node \in Nodes
            /\ r.nonce \in 1 .. nextNonce - 1
        <5>1. r \in Row /\ r \in KnownRows
          BY <1>0, <2>1 DEF TypeOK, Check, KnownRows
        <5>2. QED
          BY <5>1, <1>0 DEF Row, NoncesDrawn
      <4>3. ~\E x \in MappedRoutes : x.id = r.id /\ x.secret = r.secret
        BY <4>1, NotRouted
      <4>4. \A x \in MappedRoutes : x.serial # r.nonce
        BY <4>1 DEF Exists, MappedRoutes, RouteOf
      <4>5. MappedRoutes' = MappedRoutes \cup {RouteOf(r)}
        BY <4>1, RowAdded
      <4>6. Routing!Restore(r.id, r.secret, r.node, r.nonce)
        BY <4>3, <4>4, <4>5, <2>0
           DEF Routing!Restore, Routing!Routed, MappedRoutes, RouteOf
      <4>7. QED
        BY <4>2, <4>6 DEF Routing!Next
    <3>3. QED
      BY <3>1, <3>2
  <2>2. ASSUME NEW r \in poll[n].todo, PollRemove(n, r)
        PROVE  Stutter \/ Lost
    <3>1. rows' \subseteq rows /\ \A x \in rows \ rows' : x.nonce = r.nonce
      BY <2>2 DEF PollRemove
    <3>2. QED
      BY <3>1, <2>0, RowsDeleted
  <2>3. CASE ~\E r \in poll[n].todo : PollSave(n, r) \/ PollRemove(n, r)
    <3>1. rows' = rows
      BY <1>5, <2>3 DEF PollStep, PollFetch, PollFail, PollWrite, PollRead,
         PollDone, PollCrash
    <3>2. QED
      BY <3>1, <2>0, <1>3
  <2>4. QED
    BY <2>1, <2>2, <2>3
<1>6. ASSUME NEW h \in Handlers, EndStep(h)
      PROVE  Stutter \/ Lost
  <2>0. nextNonce' = nextNonce
    BY <1>6 DEF EndStep, EndFind, EndPurge, EndDelete, EndCrash
  <2>1. CASE EndDelete(h)
    <3>1. rows' \subseteq rows /\ \A x \in rows \ rows' : x.nonce = ending[h].nonce
      BY <2>1 DEF EndDelete
    <3>2. QED
      BY <3>1, <2>0, RowsDeleted
  <2>2. CASE ~EndDelete(h)
    <3>1. rows' = rows
      BY <1>6, <2>2 DEF EndStep, EndFind, EndPurge, EndCrash
    <3>2. QED
      BY <3>1, <2>0, <1>3
  <2>3. QED
    BY <2>1, <2>2
<1>7. ASSUME Environment PROVE Stutter
  <2>1. ASSUME NEW r \in rows, Age(r) PROVE Stutter
    <3> DEFINE aged == [r EXCEPT !.old = TRUE]
    <3>1. rows' = (rows \ {r}) \cup {aged} /\ nextNonce' = nextNonce
      BY <2>1 DEF Age
    <3>2. RouteOf(aged) = RouteOf(r)
      BY <1>0, <2>1 DEF TypeOK, Row, RouteOf
    <3>3. MappedRoutes' = {RouteOf(q) : q \in rows'}
      BY DEF MappedRoutes, RouteOf
    <3> HIDE DEF aged
    <3>4. QED
      BY <2>1, <3>1, <3>2, <3>3 DEF MappedRoutes
  <2>2. CASE ~\E r \in rows : Age(r)
    <3>1. rows' = rows /\ nextNonce' = nextNonce
      BY <1>7, <2>2 DEF Environment, MeetingEnds, CallbackLost
    <3>2. QED
      BY <3>1, <1>3
  <2>3. QED
    BY <2>1, <2>2
<1>8. UNCHANGED vars => Stutter
  BY <1>3 DEF vars
<1>9. QED
  BY <1>1, <1>2, <1>4, <1>5, <1>6, <1>7, <1>8 DEF Next

(***************************************************************************)
(* The meeting table implements the abstract routing, for any number of    *)
(* nodes, meetings, creates, checks and end callbacks: every statement on  *)
(* it is a step of Routing or leaves all routes alone (models.py:339,      *)
(* api.py:133, 642, core.py:143-152).                                      *)
(***************************************************************************)
THEOREM RoutesAreKept == Spec => RoutesKept
BY RoutingInit, RoutingStep, Inductive, PTL DEF Spec, RoutesKept, Routing!Spec

=============================================================================
