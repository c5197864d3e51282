------------------------------ MODULE Delivery ------------------------------
(***************************************************************************)
(* A recording's way from its node to its videos: PushQueue brings it to   *)
(* B3LB, where the task render_record of Workers queues one rendering for  *)
(* every uploaded RecordSet.  What a rendering does is in Recordings; here *)
(* it ends, well or badly, in one step, and a RecordSet is not deleted     *)
(* while it is rendered.                                                   *)
(***************************************************************************)
EXTENDS PushQueue, Workers

CONSTANT RenderRecord    \* the periodic task; a recording stands for the task of its set

ASSUME DeliveryAssumption ==
    /\ Tasks = {RenderRecord} \cup Recordings
    /\ Periodic = {RenderRecord}
    /\ RenderRecord \notin Recordings

vars == <<pushVars, workerVars>>

Init == PushInit /\ WorkersInit

\* tasks.py:67-76.
EndRenderRecord(p) ==
    /\ running[p] = RenderRecord
    /\ EndTask(p, {r \in Recordings : status[r] = "UPLOADED"})
    /\ UNCHANGED pushVars

\* task/recording.py:74-107.
EndRendering(p) ==
    LET r == running[p]
    IN  /\ r \in Recordings /\ status[r] # "gone"
        /\ status' = [status EXCEPT ![r] = "RENDERED"]
        /\ EndTask(p, {})
        /\ UNCHANGED <<folder, backlog, push, stored>>

\* It fails, for its set is gone, an archive cannot be rendered or the ready
\* callback is not answered.
FailRendering(p) ==
    /\ running[p] \in Recordings
    /\ EndTask(p, {})
    /\ UNCHANGED pushVars

\* A client or the housekeeper deletes the RecordSet.
DropSet(r) ==
    /\ status[r] # "gone" /\ \A p \in Processes : running[p] # r
    /\ status' = [status EXCEPT ![r] = "gone"]
    /\ UNCHANGED <<folder, backlog, push, stored, workerVars>>

OnNode ==
    /\ \/ \E r \in Recordings : Publish(r) \/ HookInserts(r) \/ HookFails(r)
       \/ Start \/ PushSteps \/ Reboot
    /\ UNCHANGED workerVars

OfWorkers ==
    \/ /\ \/ \E t \in Tasks : Beat(t) \/ Expire(t)
          \/ \E p \in Processes : Crash(p) \/ \E t \in Tasks : Take(p, t)
       /\ UNCHANGED pushVars
    \/ \E p \in Processes : EndRenderRecord(p) \/ EndRendering(p) \/ FailRendering(p)

Next ==
    \/ OnNode
    \/ OfWorkers
    \/ \E r \in Recordings : DropSet(r)

Spec == Init /\ [][Next]_vars

\* The timer of systemd and the beat never stop; the queue is first in, first
\* out, so that a message that waits is taken in the end; locks expire.
Fairness ==
    /\ WF_vars(Start /\ UNCHANGED workerVars)
    /\ WF_vars(PushSteps /\ UNCHANGED workerVars)
    /\ \A t \in Tasks :
         /\ WF_vars(Beat(t) /\ UNCHANGED pushVars)
         /\ WF_vars(Expire(t) /\ UNCHANGED pushVars)
         /\ SF_vars((\E p \in Processes : Take(p, t)) /\ UNCHANGED pushVars)
    /\ \A p \in Processes : WF_vars(EndRenderRecord(p) \/ EndRendering(p) \/ FailRendering(p))

FairSpec == Spec /\ Fairness

-----------------------------------------------------------------------------
TypeOK == PushTypeOK /\ WorkersTypeOK

\* From some time on no process is stopped, the connection holds, B3LB takes
\* what has a RecordSet, and renders a whole archive.
FailuresEnd ==
    /\ <>[][(Reboot => End) /\ ~AnswerLost]_vars
    /\ <>[][Refused => status[Head(push.todo)] = "gone"]_vars
    /\ \A p \in Processes :
         <>[][~Crash(p) /\ (FailRendering(p) => \/ status[running[p]] # "UPLOADED"
                                               \/ stored[running[p]] = "part")]_vars

\* What the hook has queued is rendered in the end, unless its set is deleted
\* or tar cut the archive short: rows that are refused for ever or whose folder
\* is gone do not hold up the ones behind them, and messages and locks of
\* crashed workers are made up for (b3lb-push:79-88, tasks.py:67-76).
QueuedIsRendered ==
    FailuresEnd =>
    \A r \in Recordings :
        folder[r] = "queued" ~> status[r] \in {"RENDERED", "gone"} \/ stored[r] = "part"

\* The periodic tasks run again and again, although every crash leaves a lock
\* behind under which they are not queued (settings.py:152).
PeriodicTasksRun == \A t \in Periodic : []<>(\E p \in Processes : running[p] = t)

=============================================================================
