------------------------------ MODULE Workers -------------------------------
(***************************************************************************)
(* Celery's tasks as B3LB uses them: the beat sends the periodic ones      *)
(* (rest/tasks.py), which queue one task per row (rest/task/b3lb.py), and  *)
(* all are of the class Singleton: a task - its name with its arguments -  *)
(* is queued only by who gets its lock, which is deleted when it ends and  *)
(* expires after 300 s (loadbalancer/settings.py:152).  A worker takes a   *)
(* message off the queue before it starts, so that a crash loses it.       *)
(***************************************************************************)
EXTENDS Naturals, FiniteSets

CONSTANTS
    Tasks,      \* names with arguments
    Periodic,   \* those the beat sends
    Processes,  \* of the workers
    NoTask,
    MaxOutlived \* bound: per task, how often its lock may expire under it

ASSUME TasksAssumption ==
    /\ Periodic \subseteq Tasks
    /\ NoTask \notin Tasks
    /\ IsFiniteSet(Processes)
    /\ MaxOutlived \in [Tasks -> Nat]

VARIABLES
    lock,       \* whether the task's lock exists
    waiting,    \* the number of its messages in the queue
    running,    \* per process its task, or NoTask
    outlived    \* how often the task's lock has expired under it

workerVars == <<lock, waiting, running, outlived>>

WorkersTypeOK ==
    /\ lock \in [Tasks -> BOOLEAN]
    /\ waiting \in [Tasks -> Nat]
    /\ running \in [Processes -> Tasks \cup {NoTask}]
    /\ outlived \in [Tasks -> Nat]

WorkersInit ==
    /\ lock = [t \in Tasks |-> FALSE]
    /\ waiting = [t \in Tasks |-> 0]
    /\ running = [p \in Processes |-> NoTask]
    /\ outlived = [t \in Tasks |-> 0]

-----------------------------------------------------------------------------
\* Mutant: apply_async does not look at the lock.
SendAlways(ts, ended) ==
    /\ waiting' = [t \in Tasks |-> waiting[t] + (IF t \in ts THEN 1 ELSE 0)]
    /\ lock' = [t \in Tasks |-> (lock[t] /\ t # ended) \/ t \in ts]

\* apply_async of the tasks ts, those whose lock exists not being queued
\* again; after it the lock of 'ended', if that is a task, is deleted.
Send(ts, ended) ==
    LET new == {t \in ts : ~lock[t]}
    IN  /\ waiting' = [t \in Tasks |-> waiting[t] + (IF t \in new THEN 1 ELSE 0)]
        /\ lock' = [t \in Tasks |-> (lock[t] /\ t # ended) \/ t \in new]

Beat(t) ==
    /\ t \in Periodic
    /\ Send({t}, NoTask)
    /\ UNCHANGED <<running, outlived>>

\* Mutant: the queue may be empty.
TakeNoMatter(p, t) ==
    /\ running[p] = NoTask
    /\ waiting' = [waiting EXCEPT ![t] = @ - 1]
    /\ running' = [running EXCEPT ![p] = t]
    /\ UNCHANGED <<lock, outlived>>

\* A process takes a message.
Take(p, t) ==
    /\ running[p] = NoTask /\ waiting[t] > 0
    /\ waiting' = [waiting EXCEPT ![t] = @ - 1]
    /\ running' = [running EXCEPT ![p] = t]
    /\ UNCHANGED <<lock, outlived>>

\* The task of p ends, well or badly; before that it has queued the tasks ts.
EndTask(p, ts) ==
    /\ running[p] # NoTask
    /\ Send(ts, running[p])
    /\ running' = [running EXCEPT ![p] = NoTask]
    /\ UNCHANGED outlived

\* The process is killed: no one deletes the lock.
Crash(p) ==
    /\ running[p] # NoTask
    /\ running' = [running EXCEPT ![p] = NoTask]
    /\ UNCHANGED <<lock, waiting, outlived>>

\* The messages and processes that have the task.
Copies(t) == waiting[t] + Cardinality({p \in Processes : running[p] = t})

\* Mutant: the lock has no expiry.
ExpireNever(t) == FALSE /\ UNCHANGED workerVars

\* The lock's time is over, perhaps before the task has ended.
Expire(t) ==
    /\ lock[t]
    /\ lock' = [lock EXCEPT ![t] = FALSE]
    /\ IF Copies(t) = 0 THEN UNCHANGED outlived
       ELSE /\ outlived[t] < MaxOutlived[t]
            /\ outlived' = [outlived EXCEPT ![t] = @ + 1]
    /\ UNCHANGED <<waiting, running>>

-----------------------------------------------------------------------------
\* "use celery-singleton to prevent task backlogs" (CHANGELOG.md:421): of each
\* task one copy is queued or runs, and one more for each time its lock has
\* expired under it, though a copy that ends late deletes the lock of the next.
NoBacklog == \A t \in Tasks : Copies(t) <= 1 + outlived[t]

=============================================================================
