--------------------------- MODULE DeliveryProof ----------------------------
(* Proofs about Delivery, for any number of recordings, tasks and worker   *)
(* processes, whatever is refused, lost, stopped or deleted.               *)
EXTENDS Delivery, FiniteSetTheorems, TLAPS

\* What b3lb-push is about to delete from the node has been stored.
ToDeleteIsStored ==
    push.pc = "delete" => push.todo # <<>> /\ stored[Head(push.todo)] # "nothing"

\* Beside the copies whose lock has expired there is one only under a lock.
LocksCount ==
    \A t \in Tasks : Copies(t) <= outlived[t] + (IF lock[t] THEN 1 ELSE 0)

PushInv == PushTypeOK /\ DeletedIsStored /\ ToDeleteIsStored

WorkersInv == WorkersTypeOK /\ LocksCount

-----------------------------------------------------------------------------
(* The node.                                                               *)

LEMMA IdlePush ==
    Idle \in [pc : {"idle", "loop", "delete"}, todo : Seq(Recordings),
              deletes : SUBSET Recordings]
BY DEF Idle

LEMMA HookKeepsInv ==
    ASSUME PushInv, NEW r \in Recordings, Publish(r) \/ HookInserts(r) \/ HookFails(r)
    PROVE  PushInv'
<1>1. PICK f \in {"published", "queued", "kept"} : folder' = [folder EXCEPT ![r] = f]
  BY DEF Publish, HookInserts, HookFails
<1>2. backlog' = Append(backlog, r) \/ backlog' = backlog
  BY DEF Publish, HookInserts, HookFails
<1>3. UNCHANGED <<push, status, stored>>
  BY DEF Publish, HookInserts, HookFails
<1>4. PushTypeOK'
  <2>1. backlog \in Seq(Recordings)
    BY DEF PushInv, PushTypeOK
  <2>2. Append(backlog, r) \in Seq(Recordings)
    BY <2>1
  <2>3. backlog' \in Seq(Recordings)
    BY <1>2, <2>1, <2>2, Zenon
  <2>4. QED
    BY <2>3, <1>1, <1>3 DEF PushInv, PushTypeOK
<1>5. DeletedIsStored'
  BY <1>1, <1>3 DEF PushInv, PushTypeOK, DeletedIsStored
<1>6. ToDeleteIsStored'
  BY <1>3 DEF PushInv, ToDeleteIsStored
<1>7. QED
  BY <1>4, <1>5, <1>6 DEF PushInv

\* The row at hand is one of a recording.
LEMMA RowAtHand ==
    ASSUME PushTypeOK, push.todo # <<>>
    PROVE  Head(push.todo) \in Recordings /\ Tail(push.todo) \in Seq(Recordings)
BY DEF PushTypeOK

LEMMA PushKeepsInv ==
    ASSUME PushInv, Start \/ PushSteps \/ Reboot
    PROVE  PushInv'
<1> USE DEF PushInv
<1>0. push \in [pc : {"idle", "loop", "delete"}, todo : Seq(Recordings),
                deletes : SUBSET Recordings]
  BY DEF PushTypeOK
<1>1. CASE Start
  BY <1>1 DEF Start, PushTypeOK, DeletedIsStored, ToDeleteIsStored
<1>2. CASE End \/ Reboot
  BY <1>2, IdlePush DEF End, Reboot, Idle, PushTypeOK, DeletedIsStored,
     ToDeleteIsStored
<1>3. CASE NoFolder \/ Refused
  <2>1. push' = [push EXCEPT !.pc = "loop", !.todo = Tail(push.todo)]
        /\ UNCHANGED <<folder, backlog, status, stored>> /\ push.todo # <<>>
    BY <1>3 DEF NoFolder, Refused, PassOver, AtHand
  <2>2. QED
    BY <1>0, <2>1, RowAtHand DEF PushTypeOK, DeletedIsStored, ToDeleteIsStored
<1>4. CASE Uploaded \/ AnswerLost
  <2> DEFINE r == Head(push.todo)
  <2>1. /\ push.todo # <<>> /\ r \in Recordings
        /\ Tail(push.todo) \in Seq(Recordings)
    BY <1>4, RowAtHand DEF Uploaded, AnswerLost, AtHand
  <2>2. PICK a \in {"part", "whole"} :
           /\ status' = [status EXCEPT ![r] = "UPLOADED"]
           /\ stored' = [stored EXCEPT ![r] = a]
           /\ UNCHANGED <<folder, backlog>>
    BY <1>4 DEF Uploaded, AnswerLost, Taken
  <2>3. \/ push' = [push EXCEPT !.pc = "delete"]
        \/ push' = [push EXCEPT !.pc = "loop", !.todo = Tail(push.todo)]
    BY <1>4 DEF Uploaded, AnswerLost, PassOver
  <2>4. PushTypeOK'
    BY <1>0, <2>1, <2>2, <2>3 DEF PushTypeOK
  <2>5. DeletedIsStored'
    BY <2>1, <2>2 DEF DeletedIsStored, PushTypeOK
  <2>6. ToDeleteIsStored'
    BY <1>0, <2>1, <2>2, <2>3 DEF ToDeleteIsStored, PushTypeOK
  <2>7. QED
    BY <2>4, <2>5, <2>6
<1>5. CASE DeleteRecording
  <2> DEFINE r == Head(push.todo)
  <2>1. /\ push.pc = "delete" /\ push.todo # <<>> /\ r \in Recordings
        /\ Tail(push.todo) \in Seq(Recordings)
    BY <1>5, RowAtHand DEF DeleteRecording, AtHand
  <2>2. PICK deleted \in BOOLEAN :
          folder' = [folder EXCEPT ![r] = IF deleted THEN "deleted" ELSE @]
    BY <1>5 DEF DeleteRecording
  <2>3. /\ push' = [pc |-> "loop", todo |-> Tail(push.todo),
                    deletes |-> push.deletes \cup {r}]
        /\ UNCHANGED <<backlog, status, stored>>
    BY <1>5 DEF DeleteRecording
  <2>4. PushTypeOK'
    BY <1>0, <2>1, <2>2, <2>3 DEF PushTypeOK
  <2>5. DeletedIsStored'
    BY <2>1, <2>2, <2>3 DEF DeletedIsStored, ToDeleteIsStored, PushTypeOK
  <2>6. QED
    BY <2>3, <2>4, <2>5 DEF ToDeleteIsStored
<1>6. QED
  BY <1>1, <1>2, <1>3, <1>4, <1>5 DEF PushSteps

\* Renderings and deletions at B3LB change the status alone.
LEMMA StatusKeepsInv ==
    ASSUME PushInv, NEW r \in Recordings, NEW st \in {"RENDERED", "gone"},
           status' = [status EXCEPT ![r] = st],
           UNCHANGED <<folder, backlog, push, stored>>
    PROVE  PushInv'
BY DEF PushInv, PushTypeOK, DeletedIsStored, ToDeleteIsStored

-----------------------------------------------------------------------------
(* The workers.                                                            *)

\* The processes that run t, counted.
Runners(t) == Cardinality({p \in Processes : running[p] = t})

LEMMA RunnersCount ==
    ASSUME NEW f, NEW t
    PROVE  /\ IsFiniteSet({p \in Processes : f[p] = t})
           /\ Cardinality({p \in Processes : f[p] = t}) \in Nat
<1>1. IsFiniteSet(Processes)
  BY TasksAssumption
<1>2. {p \in Processes : f[p] = t} \subseteq Processes
  OBVIOUS
<1>3. QED
  BY <1>1, <1>2, FS_Subset, FS_CardinalityType

\* A process takes a task, ...
LEMMA TakeCounts ==
    ASSUME running \in [Processes -> Tasks \cup {NoTask}],
           NEW p \in Processes, NEW t \in Tasks, running[p] = NoTask,
           running' = [running EXCEPT ![p] = t], NEW u \in Tasks
    PROVE  Runners(u)' = IF u = t THEN Runners(u) + 1 ELSE Runners(u)
<1> DEFINE R == {q \in Processes : running[q] = u}
           S == {q \in Processes : running'[q] = u}
<1>1. IsFiniteSet(R) /\ p \notin R
  BY RunnersCount, TasksAssumption
<1>2. S = IF u = t THEN R \cup {p} ELSE R
  BY TasksAssumption
<1>3. Cardinality(R \cup {p}) = Cardinality(R) + 1
  <2> HIDE DEF R
  <2>1. QED
    BY <1>1, FS_AddElement
<1>4. Runners(u) = Cardinality(R) /\ Runners(u)' = Cardinality(S)
  BY DEF Runners
<1> HIDE DEF R, S
<1>5. QED
  BY <1>2, <1>3, <1>4

\* ... and is rid of it.
LEMMA EndCounts ==
    ASSUME running \in [Processes -> Tasks \cup {NoTask}],
           NEW p \in Processes, running[p] \in Tasks,
           running' = [running EXCEPT ![p] = NoTask], NEW u \in Tasks
    PROVE  Runners(u)' = IF u = running[p] THEN Runners(u) - 1 ELSE Runners(u)
<1> DEFINE R == {q \in Processes : running[q] = u}
           S == {q \in Processes : running'[q] = u}
<1>1. IsFiniteSet(R) /\ (u = running[p] => p \in R)
  BY RunnersCount
<1>2. S = IF u = running[p] THEN R \ {p} ELSE R
  BY TasksAssumption
<1>3. p \in R => Cardinality(R \ {p}) = Cardinality(R) - 1
  <2> HIDE DEF R
  <2>1. QED
    BY <1>1, FS_RemoveElement
<1>4. Runners(u) = Cardinality(R) /\ Runners(u)' = Cardinality(S)
  BY DEF Runners
<1> HIDE DEF R, S
<1>5. QED
  BY <1>1, <1>2, <1>3, <1>4

\* The invariant in numbers.
LEMMA LocksCountIs ==
    ASSUME WorkersTypeOK
    PROVE  /\ \A t \in Tasks : /\ waiting[t] \in Nat /\ Runners(t) \in Nat /\ outlived[t] \in Nat
                               /\ lock[t] \in BOOLEAN /\ Copies(t) = waiting[t] + Runners(t)
           /\ \A t \in Tasks : waiting[t] + Runners(t) = 0 <=> Copies(t) = 0
<1>1. \A t \in Tasks : Runners(t) \in Nat
  BY RunnersCount DEF Runners
<1>2. QED
  BY <1>1 DEF WorkersTypeOK, Copies, Runners

\* Queueing tasks after the lock of one that ends has been deleted; a process
\* less runs that one.
LEMMA SendKeepsInv ==
    ASSUME WorkersInv, NEW ts, NEW ended, Send(ts, ended), UNCHANGED outlived,
           running' \in [Processes -> Tasks \cup {NoTask}],
           \A t \in Tasks : Runners(t)' = IF t = ended THEN Runners(t) - 1 ELSE Runners(t)
    PROVE  WorkersInv'
<1> USE DEF WorkersInv
<1> DEFINE new == {t \in ts : ~lock[t]}
<1>1. /\ waiting' = [t \in Tasks |-> waiting[t] + (IF t \in new THEN 1 ELSE 0)]
      /\ lock' = [t \in Tasks |-> (lock[t] /\ t # ended) \/ t \in new]
  BY DEF Send
<1>2. WorkersTypeOK'
  BY <1>1 DEF WorkersTypeOK
<1>3. ASSUME NEW t \in Tasks
      PROVE  waiting'[t] + Runners(t)' <= outlived'[t] + (IF lock'[t] THEN 1 ELSE 0)
  <2>1. /\ waiting[t] \in Nat /\ Runners(t) \in Nat /\ outlived[t] \in Nat
        /\ waiting[t] + Runners(t) <= outlived[t] + (IF lock[t] THEN 1 ELSE 0)
        /\ outlived'[t] = outlived[t]
    BY LocksCountIs DEF LocksCount
  <2>2. /\ waiting'[t] = waiting[t] + (IF t \in new THEN 1 ELSE 0)
        /\ lock'[t] <=> ((lock[t] /\ t # ended) \/ t \in new)
        /\ t \in new => ~lock[t]
    BY <1>1
  <2>3. Runners(t)' = IF t = ended THEN Runners(t) - 1 ELSE Runners(t)
    OBVIOUS
  <2> HIDE DEF new
  <2>4. CASE t \in new
    BY <2>1, <2>2, <2>3, <2>4
  <2>5. CASE t \notin new /\ lock'[t]
    BY <2>1, <2>2, <2>3, <2>5
  <2>6. CASE t \notin new /\ ~lock'[t]
    BY <2>1, <2>2, <2>3, <2>6
  <2>7. QED
    BY <2>4, <2>5, <2>6
<1>4. LocksCount'
  <2>1. \A t \in Tasks : Copies(t)' = waiting'[t] + Runners(t)'
    BY DEF Copies, Runners
  <2>2. QED
    BY <1>3, <2>1 DEF LocksCount
<1>5. QED
  BY <1>2, <1>4

LEMMA WorkersKeepInv ==
    ASSUME WorkersInv,
           \/ \E t \in Tasks : Beat(t) \/ Expire(t)
           \/ \E p \in Processes : Crash(p) \/ \E t \in Tasks : Take(p, t)
           \/ \E p \in Processes, ts \in SUBSET Tasks : EndTask(p, ts)
    PROVE  WorkersInv'
<1> USE DEF WorkersInv
<1>0. /\ lock \in [Tasks -> BOOLEAN] /\ waiting \in [Tasks -> Nat]
      /\ running \in [Processes -> Tasks \cup {NoTask}] /\ NoTask \notin Tasks
      /\ outlived \in [Tasks -> Nat]
  BY TasksAssumption DEF WorkersTypeOK
<1>1. /\ \A t \in Tasks : Copies(t)' = waiting'[t] + Runners(t)'
      /\ UNCHANGED running => \A t \in Tasks : Runners(t)' = Runners(t)
  BY DEF Copies, Runners
<1>2. \A t \in Tasks : /\ waiting[t] \in Nat /\ Runners(t) \in Nat /\ outlived[t] \in Nat
                       /\ Copies(t) = waiting[t] + Runners(t)
                       /\ waiting[t] + Runners(t) <= outlived[t] + (IF lock[t] THEN 1 ELSE 0)
  BY LocksCountIs DEF LocksCount
<1>3. ASSUME NEW t \in Tasks, Beat(t) PROVE WorkersInv'
  <2>1. Send({t}, NoTask) /\ running' = running /\ UNCHANGED outlived
    BY <1>3 DEF Beat
  <2>2. QED
    BY <1>0, <1>1, <2>1, SendKeepsInv
<1>4. ASSUME NEW t \in Tasks, Expire(t) PROVE WorkersInv'
  <2>1. /\ lock[t] /\ lock' = [lock EXCEPT ![t] = FALSE]
        /\ waiting' = waiting /\ running' = running
        /\ \/ Copies(t) = 0 /\ outlived' = outlived
           \/ outlived' = [outlived EXCEPT ![t] = outlived[t] + 1]
    BY <1>4 DEF Expire
  <2>2. WorkersTypeOK'
    BY <1>0, <2>1 DEF WorkersTypeOK
  <2>3. ASSUME NEW u \in Tasks
        PROVE  waiting'[u] + Runners(u)' <= outlived'[u] + (IF lock'[u] THEN 1 ELSE 0)
    <3>1. waiting'[u] = waiting[u] /\ Runners(u)' = Runners(u)
      BY <1>1, <2>1
    <3>2. CASE u # t
      BY <1>0, <1>2, <2>1, <3>1, <3>2
    <3>3. CASE u = t
      BY <1>0, <1>2, <2>1, <3>1, <3>3
    <3>4. QED
      BY <3>2, <3>3
  <2>4. QED
    BY <1>1, <2>2, <2>3 DEF LocksCount
<1>5. ASSUME NEW p \in Processes, Crash(p) PROVE WorkersInv'
  <2>1. /\ running[p] \in Tasks /\ running' = [running EXCEPT ![p] = NoTask]
        /\ lock' = lock /\ waiting' = waiting /\ outlived' = outlived
    BY <1>0, <1>5 DEF Crash
  <2>2. \A u \in Tasks : Runners(u)' = IF u = running[p] THEN Runners(u) - 1 ELSE Runners(u)
    BY <1>0, <2>1, EndCounts
  <2>3. WorkersTypeOK'
    BY <1>0, <2>1 DEF WorkersTypeOK
  <2>4. ASSUME NEW u \in Tasks
        PROVE  waiting'[u] + Runners(u)' <= outlived'[u] + (IF lock'[u] THEN 1 ELSE 0)
    BY <1>2, <2>1, <2>2
  <2>5. QED
    BY <1>1, <2>3, <2>4 DEF LocksCount
<1>6. ASSUME NEW p \in Processes, NEW t \in Tasks, Take(p, t) PROVE WorkersInv'
  <2>1. /\ running[p] = NoTask /\ waiting[t] > 0
        /\ waiting' = [waiting EXCEPT ![t] = waiting[t] - 1]
        /\ running' = [running EXCEPT ![p] = t]
        /\ lock' = lock /\ outlived' = outlived
    BY <1>6 DEF Take
  <2>2. WorkersTypeOK'
    BY <1>0, <2>1 DEF WorkersTypeOK
  <2>3. \A u \in Tasks : Runners(u)' = IF u = t THEN Runners(u) + 1 ELSE Runners(u)
    BY <1>0, <2>1, TakeCounts
  <2>4. ASSUME NEW u \in Tasks
        PROVE  waiting'[u] + Runners(u)' <= outlived'[u] + (IF lock'[u] THEN 1 ELSE 0)
    <3>1. waiting'[u] = IF u = t THEN waiting[u] - 1 ELSE waiting[u]
      BY <1>0, <2>1
    <3>2. QED
      BY <1>2, <2>1, <2>3, <3>1
  <2>5. QED
    BY <1>1, <2>2, <2>4 DEF LocksCount
<1>7. ASSUME NEW p \in Processes, NEW ts \in SUBSET Tasks, EndTask(p, ts)
      PROVE  WorkersInv'
  <2>1. /\ running[p] \in Tasks /\ Send(ts, running[p]) /\ UNCHANGED outlived
        /\ running' = [running EXCEPT ![p] = NoTask]
    BY <1>0, <1>7 DEF EndTask
  <2>2. \A u \in Tasks : Runners(u)' = IF u = running[p] THEN Runners(u) - 1 ELSE Runners(u)
    BY <1>0, <2>1, EndCounts
  <2>3. QED
    BY <1>0, <2>1, <2>2, SendKeepsInv
<1>8. QED
  BY <1>3, <1>4, <1>5, <1>6, <1>7

-----------------------------------------------------------------------------
(* Both together.                                                          *)

LEMMA InvInit == Init => PushInv /\ WorkersInv
<1>1. PushInit => PushInv
  BY IdlePush DEF PushInit, PushInv, PushTypeOK, DeletedIsStored, ToDeleteIsStored, Idle
<1>2. ASSUME WorkersInit PROVE WorkersInv
  <2>1. WorkersTypeOK
    BY <1>2, TasksAssumption DEF WorkersInit, WorkersTypeOK
  <2>2. ASSUME NEW t \in Tasks PROVE Copies(t) = 0
    <3>1. {p \in Processes : running[p] = t} = {}
      BY <1>2, TasksAssumption DEF WorkersInit
    <3>2. waiting[t] = 0
      BY <1>2 DEF WorkersInit
    <3>3. QED
      BY <3>1, <3>2, FS_EmptySet DEF Copies
  <2>3. \A t \in Tasks : outlived[t] = 0
    BY <1>2 DEF WorkersInit
  <2>4. QED
    BY <2>1, <2>2, <2>3 DEF WorkersInv, LocksCount
<1>3. QED
  BY <1>1, <1>2 DEF Init

LEMMA InvStep == PushInv /\ WorkersInv /\ [Next]_vars => PushInv' /\ WorkersInv'
<1>0. SUFFICES ASSUME PushInv, WorkersInv, [Next]_vars
               PROVE  PushInv' /\ WorkersInv'
  OBVIOUS
<1>1. UNCHANGED pushVars => PushInv'
  BY <1>0 DEF pushVars, PushInv, PushTypeOK, DeletedIsStored, ToDeleteIsStored
<1>2. UNCHANGED workerVars => WorkersInv'
  BY <1>0 DEF workerVars, WorkersInv, WorkersTypeOK, LocksCount, Copies
<1>3. CASE OnNode
  <2>1. PushInv'
    BY <1>0, <1>3, HookKeepsInv, PushKeepsInv DEF OnNode
  <2>2. QED
    BY <2>1, <1>2, <1>3 DEF OnNode
<1>4. ASSUME NEW r \in Recordings, DropSet(r)
      PROVE  PushInv' /\ WorkersInv'
  <2>1. /\ status' = [status EXCEPT ![r] = "gone"]
        /\ UNCHANGED <<folder, backlog, push, stored>>
        /\ UNCHANGED workerVars
    BY <1>4 DEF DropSet
  <2>2. QED
    BY <1>0, <1>2, <2>1, StatusKeepsInv
<1>5. ASSUME NEW p \in Processes,
             EndRenderRecord(p) \/ EndRendering(p) \/ FailRendering(p)
      PROVE  PushInv' /\ WorkersInv'
  <2>1. WorkersInv'
    <3>1. \E ts \in SUBSET Tasks : EndTask(p, ts)
      BY <1>5, DeliveryAssumption
         DEF EndRenderRecord, EndRendering, FailRendering, DeliveryAssumption
    <3>2. QED
      BY <1>0, <3>1, WorkersKeepInv
  <2>2. CASE EndRendering(p)
    <3>1. PICK r \in Recordings :
            /\ status' = [status EXCEPT ![r] = "RENDERED"]
            /\ UNCHANGED <<folder, backlog, push, stored>>
      BY <2>2 DEF EndRendering
    <3>2. QED
      BY <1>0, <2>1, <3>1, StatusKeepsInv
  <2>3. CASE ~EndRendering(p)
    BY <1>1, <1>5, <2>1, <2>3 DEF EndRenderRecord, FailRendering
  <2>4. QED
    BY <2>2, <2>3
<1>6. CASE /\ \/ \E t \in Tasks : Beat(t) \/ Expire(t)
              \/ \E p \in Processes : Crash(p) \/ \E t \in Tasks : Take(p, t)
           /\ UNCHANGED pushVars
  BY <1>0, <1>1, <1>6, WorkersKeepInv
<1>7. CASE UNCHANGED vars
  BY <1>1, <1>2, <1>7 DEF vars
<1>8. QED
  BY <1>0, <1>3, <1>4, <1>5, <1>6, <1>7 DEF Next, OfWorkers

(***************************************************************************)
(* A recording leaves its node only when B3LB has had an archive of it,    *)
(* whole or cut short: the row that is about to be deleted is the one      *)
(* whose upload was answered (b3lb-push:69, 80-82).                        *)
(***************************************************************************)
THEOREM DeletedWasStored == Spec => []DeletedIsStored
<1>1. PushInv => DeletedIsStored
  BY DEF PushInv
<1>2. QED
  BY <1>1, InvInit, InvStep, PTL DEF Spec

(***************************************************************************)
(* A task has one copy in the queue or in a process, and one more for each *)
(* time its lock has expired under it, for any tasks and any number of     *)
(* processes that may be killed at any time and that delete each other's   *)
(* locks (CHANGELOG.md:421, settings.py:140-152).                          *)
(***************************************************************************)
THEOREM BacklogsPrevented == Spec => []NoBacklog
<1>1. WorkersInv => NoBacklog
  BY LocksCountIs DEF WorkersInv, LocksCount, NoBacklog
<1>2. QED
  BY <1>1, InvInit, InvStep, PTL DEF Spec

(***************************************************************************)
(* Every variable keeps its type: b3lb-push only holds recordings it has   *)
(* read from its table, and no queue has less than no message.             *)
(***************************************************************************)
THEOREM DeliveryTypeCorrect == Spec => []TypeOK
<1>1. PushInv /\ WorkersInv => TypeOK
  BY DEF PushInv, WorkersInv, TypeOK
<1>2. QED
  BY <1>1, InvInit, InvStep, PTL DEF Spec

=============================================================================
