# B3LB: a verification project

B3LB (`src/b3lb`) puts one BigBlueButton API in front of many BigBlueButton servers
("nodes").  Clients (Greenlight, Moodle, ...) call it as if it were one server; B3LB
decides on which node a meeting runs, routes later calls to that node, polls the nodes,
enforces limits, collects statistics and takes over the recordings.  This directory holds
TLA+ modules that model it, TLC configurations that check them on small instances, and
theorems about them that TLAPS checks for every instance.

Line numbers refer to `src/b3lb/rest/` unless a path is given: `api.py` is
`classes/api.py`, `core.py` is `task/core.py`, `recording.py` is `task/recording.py`.

## 1. The system's parts

| Part | State it keeps | Operations | Modules |
|---|---|---|---|
| **Meeting life cycle** (`ClientB3lbRequest.create`, `pass_through`, `NodeB3lbRequest.end_meeting`, `check_node`) | tables `Meeting`, `RecordSet`; `Node.has_errors` | create a meeting, route a call, poll a node and update or remove its meetings, handle a node's end callback | `Meetings`, `Routing` |
| **Node choice and load** (`set_node_by_lowest_workload`, `Node.load`, `update_create_metrics`, admin actions, the load agent) | `Node`: attendees, meetings, cpu_load, has_errors, maintenance; a copy of it in the ORM cache (Redis, 15 s) | choose the least loaded node, add penalty points for a create, overwrite them by a poll, maintenance on and off | `NodePool`, `Choice`, `Policy` |
| **Recording pipeline** (`upload_record`, `render_record`, `housekeeping_records`, recording endpoints, admin actions) | `RecordSet.status`, the archive, `Record` rows and their files | upload, render, tell the client, list, publish, rename, delete, expire | `Recordings`, `Requests` |
| **Push queue on a node** (`scripts/bbb/push`) | an SQLite table of recordings to upload, the published recordings on disk | enqueue (BigBlueButton hook), upload and delete | `PushQueue`, `Delivery` |
| **Task scheduling** (`tasks.py`, `task/b3lb.py`, celery-singleton) | Celery queues, a lock per task and arguments with an expiry of 300 s | beat, fan out one task per row, run | `Workers`, `Delivery` |
| **Metrics** (`b3lb/metrics.py`, `update_secret_metrics`) | `Metric` rows: counters and gauges per secret and node | add to a counter, set a gauge, render the lists | `Metrics`, `Statistics` |
| **Tenant statistics, meeting lists, dashboard** | `Stats`, `NodeMeetingList`, `SecretMeetingList` | recompute from `Meeting` rows, merge the nodes' answers | `Statistics` |
| **Settings** (`check_parameters`, `is_in_limit`, hold times, `addsecrets`) | `Parameter`, `Tenant`, `Secret` rows | block, set, override parameters; limits; hold times | `Policy` |
| **Request entry and assets** (`views.py`, `endpoint_delegation`) | - | methods, secret, authorization, the answer of every endpoint, slides | `Requests` |
| **Video description** (`make_xges.py`) | - | where and when each layer of a video is shown | `Video` |

### What is hard about it

There are several web workers and several Celery workers, all asynchronous, and no lock
over the `Meeting` table: a create is six database calls and one call to a node, a poll is
an HTTP request, a row update, a query and one statement per meeting, an end callback is
three statements.  Between any two of them every other actor may run.  On top of that,
nodes fail and come back, end callbacks are lost, late or repeated, workers are stopped in
mid-task, the ORM cache answers with data up to 15 s old, and `save()` of a row that was
deleted meanwhile inserts it again.  `PROJECT.json` lists each hazard at the line where it
bites, under "hazards", with the properties aimed at it.

### Modules and runs

The concurrent parts are state machines: `Meetings`, `NodePool`, `Recordings`, `Metrics`, and
`Delivery`, which composes `PushQueue` with `Workers`.  `Routing` is the abstract
specification that `Meetings` implements.  The parts that only compute an answer
from what they are given are operators: `Choice`, `Policy`, `Requests`, `Statistics`, `Video`.
`MCRules` applies them to every input of small domains.  Each `MC...` module instantiates
modules for TLC, each `...Proof` module holds theorems.

| Run | Asks |
|---|---|
| `races` | one meeting name on two nodes, everything overlapping: identity of rows, removal for cause, the refinement of `Routing` |
| `serial` | two secrets with one meeting id, creates apart from checks and endings: running meetings are routed, on one node, with their RecordSet |
| `ghosts` | liveness: dead rows go |
| `pool` | creates, checks, admin and a cache that learns of writes late or never: which nodes are never chosen, and which in the end not any more |
| `records` | uploads, renderings, deletions with failures at any step |
| `one_record` | expects a violation: overlapping renderings and renames make a second record of a profile |
| `renamed` | two sets, renamed records, a storage that renames files |
| `deleting` | liveness: sets to be deleted go, whatever overlaps |
| `delivery` | push queue and workers with reboots, crashes, lost answers, expiring locks |
| `rules` | counters under three callers at once; all functions against their references |
| `empty_id` | expects a violation: an empty entry in `recordID` stands for all |
| `described` | expects a violation: four sentences about the code that it does not keep |

Section 8 has what the last three find.

## 2. Meetings: the core module

`Meetings.tla` models the meeting life cycle.  `MCMeetings.tla` instantiates it for TLC,
`MeetingsProof.tla` holds the theorems.

### State

| Variable | Code |
|---|---|
| `rows` | table `Meeting`: id, secret, node, nonce, and `old`, which stands for `(now - age).seconds > 5` |
| `recordSets` | table `RecordSet`, by nonce (`models.py:346`, created at `api.py:427`) |
| `hasErrors` | `Node.has_errors` |
| `nextNonce` | the uuid and the nonce of a new row are random and unique; the model counts |
| `running` | what the BigBlueButton servers run (external) |
| `callbacks` | end callbacks on their way (external) |
| `req` | per client the local variables of a `create` coroutine between two awaits |
| `poll` | per node the local variables of `check_node` between two database calls |
| `ending` | per handler the local variables of `end_meeting` |

### Actions and code

One action is one database or network call and the code up to the next one.

* create (`api.py:113-138`): `CreateBegin` (is_meeting), `CreatePlace` (is_node_free, the
  choice among nodes without errors is open), `CreateLimit` (is_in_limit; the attendee
  limits compare a sum nobody here writes and are in `Policy`), `CreateGet`/`CreateInsert`
  (get_or_create), `CreateParams` (check_parameters: RecordSet and tag), `CreateCheck`
  (pass_through's is_meeting, which reads the row again and overwrites the node),
  `CreateSend` (the node receives the call), `CreateAbort` (every early return and
  failure).
* check_node (`core.py:37-169`): `PollFetch`/`PollFail`, `PollWrite`, `PollRead`, then per
  row `PollSave` or `PollRemove`, `PollDone`, and `PollCrash` at any point.  `PollSave`
  is Django's `save()`: an UPDATE by primary key, and an INSERT if that found no row.
* end_meeting (`api.py:631-643`): `EndFind`, `EndPurge`, `EndDelete`, `EndCrash`.
* environment: `Age`, `MeetingEnds`, `CallbackLost`.  A server that crashes is a
  `MeetingEnds` whose callbacks are lost.

`Age` is one-way.  In the code `timedelta.seconds` starts again at 0 every 24 h
(`core.py:145`), so that a row a day old counts as young for 5 s; the next check sees it as old again.

### Properties

Whatever overlaps (run `races`; identity across two secrets of one id in `serial`):

* `NonceNamesOneMeeting`, `UniqueMeeting`: identity of rows.
* `RemovedForCause`: the two reasons for which a row may disappear.
* `IInv`: the inductive invariant that proves the three.
* `RoutesKept`: the table implements `Routing`, by the mapping of each row to a route whose serial is
  the row's nonce.  `Routing` says what those who ask the table (join, end, the
  next create) may rely on: a meeting has at most one route, no step replaces a route by
  another one or touches two meetings, and no two routes share a serial.  That a route may also come *back* (`Restore`) is
  the price of `save()` at `core.py:143`.

As long as creates overlap neither checks nor end callbacks (`NoOverlap`, run `serial`):
`RunningIsRouted`, `OneServerPerMeeting`, `TagHasRecordSet`.  Two creates may still race
with each other, requests, checks and callbacks may stop anywhere, nodes may fail and
callbacks get lost.  Nothing in the code guarantees the assumption: a check of every node starts
every 15 s, and only the 5 s grace of `core.py:146` keeps a check from removing the row of a create under way.
The three properties therefore say what stops, failures and racing creates cannot break.  They are
model-checked and not stated as theorems.

Without that assumption they fail.  A meeting may run on two nodes: a create reads the row, a check or
an end callback removes it, another create inserts it for another node, and both creates send
their call.  The model has two more races that no
property excludes: `PollSave` brings back a row that `EndDelete` has
destroyed (its successors are what `races` is about, `GhostsDisappear` says that it goes
again), and two creates that count before either inserts exceed `meeting_limit`
(`CreateLimit`, `CreateInsert`).

Under fairness (run `ghosts`): `GhostsDisappear`.

### Bounds

| Run | Instance | Why it is enough |
|---|---|---|
| `races` | 2 nodes, 1 id, 1 secret, 1 client, 1 handler, 2 rows ever | a row, its copy in a check and its successor of the same name exist together; the other node's check runs against them; a create finds what a check has just brought back |
| `serial` | 2 nodes, 1 id, 2 secrets, 2 clients, recording on, 3 rows ever | two creates choose different nodes for one meeting, or make two meetings of one id; three incarnations of a meeting |
| `ghosts` | 1 node, 1 id, 1 client, 3 rows ever | each row becomes a ghost in each way; no symmetry, because of liveness |

`MaxNonce` bounds the rows ever inserted: when it is used up, creates that would insert
only abort.  Everything else is finite by itself.

### Fairness

`Fairness` asks of the checks what the beat and the workers give: a node is checked again
and again (`tasks.py:43-52`, every 15 s), a started check goes on unless its worker is
stopped, not every check fails, and time passes.  Strong fairness is needed because
a stop or a failed poll may disable a step time and again.  Requests, end callbacks and nodes
get none.

### Proofs

`MeetingsProof.tla` proves, for any number of nodes, ids, secrets, clients and handlers
and from `ConstantsOK` alone:

* `TypeCorrect`: `Spec => []TypeOK`.
* `Inductive`: `Spec => []IInv`.  `NonceNamesOneMeeting` is not inductive by itself: a new
  row could take a nonce some late callback still carries.  `NoncesDrawn` excludes that.
  `ChecksKnowTheirNode` is needed for `RemovedForCause`: a check deletes copies it took a
  while ago, and only because they are copies of rows of its own node, taken after the
  node's error flag was cleared, is the deletion justified.
* `MeetingsAreUnique`, `NoncesNameMeetings`, `RowsRemovedForCause`: the properties
  themselves, the last one an action property from the same invariant.
* `RoutesAreKept`: the refinement.  `RoutingInit` and `RoutingStep` map initial states and steps:
  an insertion is `Bind`, a saved copy whose row is gone `Restore`, a deletion `Unbind`,
  everything else stutters.  `IInv` supplies that an inserted or saved row's meeting has no route then and
  that a returning nonce is on no other one.

The step lemma is split by variable: `TypeStep`, `NamesPreserved` (with one lemma per kind of
step), `UniqueStep`, `ChecksStep`.

`GhostsDisappear` and the three properties under `NoOverlap` are model-checked only.

## 3. NodePool: which node gets a meeting

`NodePool.tla` models the `Node` table and its readers and writers, `MCNodePool.tla`
instantiates it, `NodePoolProof.tla` holds the theorems.  `Meetings` leaves the choice of a
usable node open, so that everything shown there holds for the choice made here.

| Variable | Code |
|---|---|
| `table` | table `Node`.  `work` stands for attendees and meetings with their factors, `cpu` for the CPU's share of the load, both in fractions of a point (`Scale`), for factors are floats |
| `cached` | per cluster the result of `Node.objects.filter(cluster=...)` in the ORM cache (`settings.py:176-187`, up to 15 s) |
| `req` | the local variables of `set_node_by_lowest_workload`, and the node until it is charged |
| `check` | the local variables of `check_node` between its two writes |
| `form` | the admin's change form: the node and its columns when it was opened |

`ChooseBegin`, `ChooseHit`/`ChooseQuery`/`ChooseStore` (one per cluster, from the cache or
the database), `ChoosePick`, `Penalty` (`update_create_metrics`) and `ChooseEnd` are the
create; `PollCpu`, `PollFetch`, `PollWrite`, `PollCrash` the check; `SetMaintenance`,
`FormOpen`, `FormSave`, `FormClose` the admin.  A create charges its node with what the factors of the node's
own cluster make of one meeting and one attendee (`Charge`; `models.py:124-125`), and `Load` truncates the sum (`models.py:139`).

No write is sure to reach the cache.  `Save` is the commit of Django's `save()` alone: the invalidation that
django-cacheops hangs on it comes afterwards, and not at all when Redis does not answer, because
`CACHEOPS_DEGRADE_ON_FAILURE` is on (`settings.py:193`).  `SetMaintenance` writes with `update()`, which has none.
So an invalidation is a step of its own (`CacheDrop`), which is also the expiry of an entry; an answer may be cached when it is old
(`ChooseQuery`, `ChooseStore`) or not be cached (`ChooseNoStore`).  In between, a create may choose a node whose error or
maintenance is stored, and may see none of the charges made since.  What is left to rely on:

* `NewNodesWait`: a node that no check has found healthy, or that was added in maintenance and is kept there, is chosen by no request.  No
  copy of its row, in the cache, a request or the form, can make it usable.
* `MaintenanceTakesEffect`, `FailingNodesLeave`: what stays as it is takes effect in the end, through the expiry alone.
  `docs/08-operations.md:317` ("This prevents new meetings from being created on the node") holds only after that.

How far a burst of creates drives nodes apart has no bound: as long as an entry lives, any number of charges may be hidden.

`Choice.tla` is the loop itself, over the clusters and their nodes (`api.py:553-564`), and is used by `NodePool` and `MCRules`.
`ChoiceIsLowest` (checked in `rules`) says that it ends with the usable nodes of least load up to the cap of 10000000, in whichever order
the clusters come and however the nodes are spread over them.

| Run | Instance | Properties |
|---|---|---|
| `pool` | 1 node, 2 requests, checks, admin, half a point of load for a meeting | `TypeOK`; `NewNodesWait`, `MaintenanceTakesEffect`, `FailingNodesLeave` under `FairSpec` |

One node is enough: the properties are about each node by itself, and other nodes can only keep it from being chosen.  Two requests let one fill the
cache with an old answer while the other reads it.  `MaxWork` bounds the work of a node.
Nodes start as the admin site or the command `addnode` make them: in error until the first check has reached them.
`Fairness` is that of the checks in `Meetings`, and that cached results expire.

`NodePoolProof.tla` proves, for any nodes, clusters, factors and clients, `PoolTypeCorrect` and `NewNodesAreLeftOut`.  The second one
follows an invariant for one node: its row, the cache's views, every request's and the form's copy have the error
flag (`Unproven`), or while the row keeps its maintenance flag the views and copies in requests have it too (`Kept`), and no request
has the node among its best ones (`Passed`).  The lemma
`LowestFacts` is about the loop: what it adds to the list of nodes has a load of
zero or more; that a least load exists (`LeastExists`) rests on the well-foundedness of `<`.
`ChoiceIsAlwaysLowest` in `RulesProof.tla` proves the rest about the loop, for any clusters, nodes and loads, by one more cluster at a time
(`ChoiceAlwaysGoesOn`).
The liveness properties are model-checked only.

## 4. Recordings: from upload to deletion

`Recordings.tla` models the tables `RecordSet` and `Record` and the storage behind them once `create` has
opened a set.  A task works on copies of rows it read earlier and `save()` writes all of a
copy's columns back, or inserts the row again; bulk updates and `Record.delete()`
do not.  That is the whole difficulty, so the copies are the state.

| Variable | Code |
|---|---|
| `rset` | table `RecordSet`: status and archive |
| `records` | table `Record`: set, profile, published, file, and `named`, which says that the name is still the one `get_or_create` looks for (`recording.py:40`) |
| `files` | the storage.  A name is a set, a profile (none for the archive) and the suffix a storage that does not overwrite may add; `S3Storage` overwrites (`Overwrites`) |
| `queued` | rendering tasks in Celery's queue |
| `upload` | the local variables of `upload_record` between two awaits |
| `job` | per worker the local variables of `render_record` and `render_by_profile` |
| `eraser` | the object in a `Record.delete()`, of a client or of the housekeeper |
| `hk` | the rows in the housekeeper's two loops |

`UploadBegin`, `UploadStore`, `UploadFinish` are `upload_record`; `QueueRendering` the beat's
`render_record`; `JobBegin` to `JobFinish` the task it queues; `Erase...` a deletion;
`Hk...` `housekeeping_records`; `Publish`, `Rename` and `SetStatus` the bulk updates.
`...Stop` and `...Fail` are errors and stopped workers, at every step.  The callback to the
client's URL, which may be refused, is `JobReport`, or `JobStop` when nobody acknowledges it.

One step each are: the storing of a file with the save of its row (`FieldFile.save`), a query with the reading of
all its rows, and finding an uploaded set with queueing its task.  Left out are the meeting a set
refers to, the admin's delete action for whole sets, changes of
the profiles of a secret (without any profile a rendering stops at an unbound variable, `recording.py:95`), and a re-upload under
another meeting name.  Also left out is that the tasks read rows through the ORM cache, up to 15 s old (`settings.py:176-178`): a copy in a task may
be older than the step that takes it, which widens every window described here.

Two assumptions are constants:

* `LockHolds`: a rendering ends before the lock of its task expires (300 s,
  `settings.py:152`), so that a set is rendered by one worker at a time.
* `Alone`: uploads, renderings and deletions of one set do not overlap; admins and the
  publish and rename calls still interfere.

Nothing in the code guarantees either.  `PublishedHasFile`, `RenderedIsComplete` and `UploadedIsRendered` are about what failures
and stops at every step leave behind in work that does not overlap, and the run `records` makes both assumptions for them;
`DeletingSetsGo` and `VideosAreOwn` are about overlaps and renames and need neither.
`OneRecordPerProfile`, which the documentation claims without a condition, is false without them (run `one_record`): two
renderings both look for the record and both insert it, and every later rendering stops at `MultipleObjectsReturned`.
One worker and no overlap are enough if the client renames the record between two renderings, because `get_or_create` looks for the name.

| Run | Instance | Properties |
|---|---|---|
| `records` | 1 set, 2 profiles, 1 upload, 1 worker, 1 deleting client, 3 records, `Alone`, overwriting storage | `PublishedHasFile`, `RenderedIsComplete`, `UploadedIsRendered` under `FairSpec` |
| `renamed` | 2 sets with archives (`UploadedSpec`), 2 records, 1 suffix, renames | `TypeOK`, `VideosAreOwn` |
| `deleting` | 1 set, 1 profile, 1 record, uploads, worker and housekeeper overlapping | `DeletingSetsGo` under `FairSpec` |
| `one_record` | 1 set, 1 profile, 2 workers, 1 client that renames, no lock, no `Alone` | `OneRecordPerProfile`, violated |

Uuids and suffixes are drawn from the finite sets `Records` and `Suffixes`, among those that no row, no file and
no copy in a task refers to any more, so that runs never end for want of one; `FreshRecords` and `CanStore`
bound how many exist at once.

`Fairness` says that the beat starts `render_record` and `housekeeping_recordings` again and again, that a started
task goes on and that a started upload ends in some way.  The code's own fixture
(`fixtures/periodictasks.json`) does not schedule these two tasks, the documentation does (`docs/06-celery-tasks.md`):
an operator has to.  `FailuresEnd` is the premise of both liveness
properties: nothing is rendered if rendering fails for ever.

With `Alone` dropped, or with renames and an overwriting storage, more goes wrong than any promise of the
documentation covers: a task that saves the set it read takes a deletion back
(`JobFinish`, `UploadFinish`, `HkExpire`); a record that a client renamed is not found by the next
rendering, which inserts a second one, and if both share a file of an
overwriting storage, deleting one takes the video from the other.  Also, `Record.delete()` passes over a storage that
refuses (`models.py:471`) and the row goes: the video stays behind, and no step of the code looks for it again,
while `docs/06-celery-tasks.md:418` has the housekeeper delete it.

### Proofs

`RecordingsProof.tla` proves, for any sets, profiles, records, suffixes, requests and workers, with or without `Alone` and `LockHolds`, from
either initial state and from `RecordingConstantsOK`:

* `RecordingsTypeCorrect` and `VideosStayOwn`.  `VideosAreOwn` speaks of the tables, but tasks write back what they read long before:
  the invariant `OwnInv` (`CopiesAreOwn`) says the same of every copy that an upload, a rendering, a deletion or the housekeeper holds.

`PublishedHasFile` and `RenderedIsComplete`, which need `Alone`, and the two liveness properties are model-checked only.

## 5. Delivery: from the node into a worker

`PushQueue.tla` models what runs on a node, `Workers.tla` Celery as B3LB uses it, and `Delivery.tla` composes them:
an archive that arrives is `UPLOADED`, and the periodic task `render_record` queues one task for each such set.
A rendering is one step here, ending well or badly; its inner steps are those of `Recordings`.

* `PushQueue`: the hook's INSERT (`HookInserts`), which finds the table locked while a pass of `b3lb-push` reads or has
  uncommitted DELETEs (`HookFails`: the hook rescues the error and nobody queues the recording again); the pass
  itself row by row (`Start`, `NoFolder`, `Uploaded`, `AnswerLost`, `Refused`, `DeleteRecording`, `End`); `Reboot`.
  Nobody looks at how `tar` ended (`b3lb-push:53-69`), and B3LB takes what it gets (`api.py:684-701`): an archive may be cut short or empty, be answered
  204 and the recording deleted (`Taken`, `stored`).
  Nothing commits the DELETE of a row (`b3lb-push:83`), so rows are never deleted and every pass goes through all of them.
  What saves it is that the folder is gone (`NoFolder`).
* `Workers`: `apply_async` of a singleton task (`Send`), `Beat`, `Take`, `EndTask`, `Crash` (the message is lost, the
  lock stays), `Expire`.

`DeletedIsStored`: a recording leaves the node only when B3LB has had an archive of it.  That the archive is whole is not promised, and a counterexample
is at hand: `Uploaded` with a part, then `DeleteRecording`.  `NoBacklog`: of each
task at most one copy waits or runs, and one more for each time its lock has expired under it (`outlived`), as it does under a rendering
of more than 300 s.  A copy that ends late deletes the lock of the next one, and still the count holds.  `PeriodicTasksRun` and `QueuedIsRendered` are liveness: crashes leave locks behind, under which tasks
are not queued until the lock expires, and rows that are refused for ever must not hold up the others.

The run `delivery` has two recordings, two processes and three tasks: one row can fail for ever while the other is
behind it, and both sets can be rendered at once or while the next pass of `render_record` looks.  One of the recordings may be cut short
(`CutShort`), the lock of the other's rendering may expire under it once (`MaxOutlived`); neither is bounded in the proofs.

`Fairness`: systemd's timer starts the push service and the beat sends its tasks for ever (WF); a pass goes on; locks expire;
the queue is first in, first out, so that a message that waits is taken even if the other tasks keep coming (SF of `Take`); a
running task ends.  `FailuresEnd` is the premise of `QueuedIsRendered`, which excepts archives that tar cut short; crashes need not end for `PeriodicTasksRun`.

`DeliveryProof.tla` proves, for any recordings, tasks and processes: `DeletedWasStored` from `PushInv`, whose
strengthening `ToDeleteIsStored` says that what a pass is about to delete has been stored (`stored` never becomes "nothing" again, so that a deletion
of the set at B3LB meanwhile does not matter); `BacklogsPrevented` from `WorkersInv`, whose strengthening `LocksCount` says that
beside the copies whose lock has expired there is one only under a lock; and `DeliveryTypeCorrect`, which says among other things that no queue
holds fewer than zero messages.  Liveness is model-checked only.

## 6. Rules: what is computed

`MCRules.tla` chooses one input of one of the following at a time, and the invariants of the run `rules` compare the result with
what it is to be, stated over the same input in another way.

| Module | Modelled | Invariants |
|---|---|---|
| `Policy`, `Choice` | `Node.load`, the choice among nodes, the load agent on a node, the counts of available nodes in dashboard and administration, `check_parameters`, `is_in_limit`, `records_effective_hold_time`, `addsecrets` | `LoadOrdered`, `AgentMeasures`, `TenantDecides`, `SettingsBind`, `AddingKeepsSecrets` |
| `Requests` | `views.py`, the delegation to endpoints, `filter_recordings` and the four calls on recordings, the download of a video, assets | `MeetingIsReached`, `RecordingsAsAsked`, `SlideArrives` |
| `Statistics` | `update_tenant_statistics`, `b3lb_stats`, `update_secret_metrics`, the gauges of a check, `generate_secret_get_meetings`, dashboard, `meetingstats` | `FiguresAddUp`, `MeetingsAreListed` |
| `Video` | `make_xges.py`: sizes and times of all clips | `VideoShowsRecording` |
| `Metrics` | `b3lb/metrics.py`, as a state machine | `CountersExact` |

* `LoadOrdered`: more work never makes a node look idler; the CPU's share is between 0 and `load_cpu_max`;
  the choice is among the nodes of least load (`ChoiceIsLowest`); the flags -1 and -2 never get a node chosen, and what an operator sees as available is what a create may choose from, in each cluster group.
  A bar of the dashboard's chart adds the flags to the loads.
* `TenantDecides`: B3LB, then the tenant's rule, then the client decides each parameter, although the steps
  that see to it write the same dictionary one after the other.
* `SettingsBind`: the secret's limits bind, and the tenant's where the secret has none; nothing is refused that all limits allow.  Between the two, code and
  documentation differ (section 8).  The first hold time that is over counts, 0 is none,
  but 0 and 0 delete at once (`models.py:233`).
* `RecordingsAsAsked`: one call lists or changes the named recordings of the secret and no others, none that is deleted is listed, the address of
  a published and listed one leads to its video, and one recording
  whose set has no times makes `getRecordings` fail for all (`models.py:485`).  What an empty entry in `recordID` and `publish=TRUE` do is left open: section 8.
* `FiguresAddUp`: statistics, lists of metrics, gauges and overviews are the sums they stand for; a gauge follows the last
  check of its node and is reset for secrets without a meeting.  Rows are excluded from the statistics by meeting id alone
  (`statistics.py:122`), which the property states as the exception it is.  `voiceParticipantCount` is never written.
* `MeetingsAreListed`: a list has each running meeting of the secret, and another one's only under the same id.
* `VideoShowsRecording`: at every moment the layers show slide, cursor, latest version of each shape and screen; cursor and shapes for profiles with `annotations` and for no other (`make_xges.py:232-234`).  A recording that has a slide or shape
  without duration is not rendered (`Drawable`).
* `CountersExact`: with update, get_or_create and save of any number of callers interleaved, a counter is the sum
  modulo 2^63.  `FiguresProof.tla` proves it (`NothingIsMiscounted`) for any callers, rows and values, from
  `MetricsInv`: types, and that a row about to be saved exists.

`FiguresProof.tla` proves what the algorithms with sums, loops and times compute for *every* input.  A sum is the library's
`SumFunctionOnSet`, a loop a recursive function over the numbers; the facts about both (`SumFacts`, `SumAdd`, `SumOfParts`, `RecursionUpTo`
and others) rest on two inductions, over a set of numbers and over the subsets of a finite set (`SubsetInduction`), which
follow from the well-foundedness of `<` without the library's theorems that take an operator.

* `LoadIsAlwaysOrdered`, `AvailableIsAlwaysPickable`, `GroupsAlwaysShowTheirNodes`: any natural counts and factors, any number of iterations, any finite set
  of nodes and sequence of relations; `cpu` is at most `CpuBase`, as the agent reports it (`NodeRecord`, `ClusterRecord`, `IsNode`).  The bounds of the CPU's share follow
  from the polynomial's terms falling from one power to the next.
* `LoadIsAlwaysMeasured`: any number of samples of counters that grow from one to the next (`Sampling`).
* `OriginsAreAlwaysSummed`: any meetings, and rows of `Stats` with one row for each origin (`StatsOf`), which the task sees to and the table does not.
  After each row, `IsUpdated` says of what has been seen so far which rows it has made and which meetings are left.
* `TenantsAreAlwaysSummed`, `OverviewsAlwaysAgree`: any finite tables in which the rows belong to a secret, or a tenant, there is (`MetricsOf`, `MeetingsOf`).
  Tenants with as many attendees come in any order.
* `GaugesAlwaysFollowTheNodes`: any rows of `Metric` and `Meeting`, any answers (`GaugesOf`).  The order of the checks does not matter,
  because the rows after some of them are those no check touches and those of the nodes checked (`Checked`).
* `RecordingsAlwaysShown`: any number of slides, shapes, shared screens and cursor events, at any times; only the events of the cursor must be in the
  order of their times (`RecordingOf`), as they are in the file.  `ClipsShow` reduces a layer to the intervals it is made of; without annotations there are no cursor and shapes; for the shapes, which
  `split_overlaps` cuts at every bound, `PiecesAre` says that the same shapes are live all through a piece and that the pieces leave no gap.
* `BoxesAlwaysFit`: any whole sizes of frame, webcams and slides, any share of the webcams up to 100.  `Rounding` bounds Python's rounding by a half.

`RulesProof.tla` proves it of the others:

* `ParametersAlwaysDecided`: any parameters, any rules, any lists `InCreate` and `InJoin`.  `Decided` follows the dictionary through the steps of
  `check_parameters`: which keys have the tenant's value, and that those with the client's value are the client's.
* `LimitsAlwaysBind`, `HoldTimesAlwaysHold`, `SecretsAreAlwaysKept`: any counts, limits, times, ranges.
* `SlidesAlwaysArrive`: slides of any size.  The limit on bytes and that on characters (`storage.py:32-33`) agree because
  four divides 1024000, which `RequestConstantsOK` states.
* `CallsAlwaysReachTheirMeeting`: any request and any tables in which meetings belong to secrets (`TablesOK`).
* `RecordingsAlwaysListed`, `NamedAreAlwaysEdited`: any table in which a uuid names one row (`RecordTablesOK`), any sequences of ids and meetings.
* `ChoiceIsAlwaysLowest`: any clusters, nodes and loads (section 3).
* `ListsAlwaysHaveTheirMeetings`: any rows, and any answers of the nodes.

From these follow the invariants of `rules` themselves, as theorems of `Spec` (`TenantsDecide`, `SettingsAlwaysBind`, `SecretsStayKept`,
`MeetingsAreReached`, `RecordingsStayAsAsked`, `SlidesArrive`, `ListsStayComplete`, `LoadsStayOrdered`, `AgentsAlwaysMeasure`, `FiguresAlwaysAddUp`, `VideosAlwaysShow`):
an input is chosen once, and it fulfils the hypotheses of the theorem about its algorithm, which are thereby shown to be met.
`InputsOK` says what this takes: full CPU is at least 10, the largest value an input has.

Domains: an input has as many entries as two of them can interfere (two meetings, two secrets of a tenant and one of another,
two nodes, three recordings, two slides, two shapes), and values on both sides of each comparison; counts are chosen so that
no two different sums are equal.  Full CPU is 10 instead of 10000, `LongTerm` 3 instead of 6, sub ids end at 4 instead of 999, the dashboard shows 2
tenants instead of 10, the counters wrap at 4: all are constants of the modules.  Float factors are whole numbers, a checksum or token is accepted or not, the database's
sums are not bounded, and calls of `Metrics` always name a node (without one the unique constraint would not bind).

## 7. What is proved and what is not

Of the 37 properties the passing runs check, 25 are proved for every value of the constants (`theorems` in `PROJECT.json`).
The proofs rest on the named assumptions on the constants and, for section 6, on the hypotheses about inputs named there;
none assumes `NoOverlap`, `Alone` or `LockHolds`.

Model-checked only are

* 7 liveness properties: TLAPS does not do fairness, nor ENABLED;
* `RunningIsRouted`, `OneServerPerMeeting` and `TagHasRecordSet`, under `NoOverlap` (section 2);
* `PublishedHasFile` and `RenderedIsComplete`, under `Alone` and `LockHolds` (section 4).

Worth proving next:

1. An abstract specification of a record set's life (opened, uploaded, rendered, deleted) that `Recordings` implements in spite of stale saves.
2. That `Metrics` and the gauges of `Statistics` agree when checks and requests interleave; so far each is shown by itself.

Worth modelling next: age over a day (`core.py:145`); two passes of the node-side cleaner; the admin's delete action for whole record sets.

## 8. Where the code differs from what is said of it

Each is a "finding" of `PROJECT.json`.

| Run | Said | Done |
|---|---|---|
| `empty_id` | `recordID` names recordings, "comma-separated" (`docs/03-api-endpoints.md:383`, `:427`) | an empty entry, as in a trailing comma, stands for all recordings of the secret (`api.py:219`) |
| `one_record` | "Unique together: (`recordset`, `profile`)" (`docs/02-database-schema.md:837`) | no constraint; two renderings, or a rename between two, make a second record (`recording.py:40`) |
| `described` | "sum of each Taylor polynomial from 1 to load_cpu_iterations" (`models.py:129`) | `range(1, n)` leaves out the last one (`models.py:134`): full CPU counts for `max * (n - 1) / n` |
| `described` | a secret's limits "Override tenant limit" (`docs/02-database-schema.md:390-391`, `:408-410`, `:447-448`) | both hold (`api.py:446-473`) |
| `described` | `publish` is lowered before it is compared (`docs/03-api-endpoints.md:396`) | it is not: "TRUE" unpublishes (`api.py:199`) |
| `described` | the download checks published and listed (`docs/03-api-endpoints.md:715`) | it looks for the nonce alone (`views.py:145`) |

`described` checks the four as one invariant, `AsDescribed`: the disjunction of `FullCpuCounts`, `OwnLimitsOverride`, `AnyTruePublishes` and
`OnlyPublishedAreDelivered`, of inputs that have a part for each.  It follows from each of the four, so that the input TLC finds
is a counterexample to all of them.

Not checked by a run: `docs/03-api-endpoints.md:432-450` has `deleteRecordings` set the RecordSet to DELETING and queue a task, while the code deletes
the records and leaves the set (`api.py:210-222`, `EraseBegin` in `Recordings`).

## 9. Not modelled, and why

* The node-side cleaner (`scripts/bbb/cleaner`): one pass over one `getMeetings` answer that ends long meetings; what follows is
  BigBlueButton ending a meeting, which `Meetings` has.
* How checksums are computed: a checksum is accepted or not.
* Forms, filters and list columns of the admin site other than those of nodes, record sets, clusters and cluster groups: they are Django's.  Adding, moving or
  deleting nodes and clusters while requests run is left out of `NodePool`.
* The two management commands that print secrets; the database file storage behind assets, which is a library's.
* Migrations: they run once while nothing else runs.
* `bbb-install.sh`, deployment scripts, container files: shell around installers of others.
* Which attendees join, with which parameters: nothing modelled here depends on it.
* The blocking call of `send_end_callback` inside the event loop (`api.py:670`): a matter of one process, not of the tables.
