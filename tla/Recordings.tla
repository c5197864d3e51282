----------------------------- MODULE Recordings -----------------------------
(***************************************************************************)
(* From the upload of a recording to its deletion: the upload endpoint     *)
(* (rest/classes/api.py), the rendering and housekeeping tasks             *)
(* (rest/task/recording.py), the clients' publish, update and delete calls *)
(* and the admin's status actions.  Each of them works on copies of rows   *)
(* that it read earlier and writes back whole; Django's save() of a row    *)
(* that is gone inserts it again.                                          *)
(***************************************************************************)
EXTENDS Integers, FiniteSets

CONSTANTS
    Sets,         \* rows of RecordSet that 'create' has opened
    Profiles,     \* the record profiles that apply to them
    Uploads,      \* upload requests under way at the same time
    Workers,      \* Celery workers that render
    Clients,      \* requests and admins that delete records
    Housekeeper,  \* the housekeeping task
    Records,      \* uuids of Record rows; those not in use are drawn again
    Suffixes,     \* what the storage adds to a name that is taken
    Overwrites,   \* whether it replaces the file instead, as S3Storage does
    LockHolds,    \* assumption: a rendering ends before its lock does (300 s)
    Alone,        \* assumption: uploads, renderings and deletions of a set
                  \*             do not overlap
    Edits,        \* what clients edit of records: "published", "name"
    Nil           \* no row, no file

VARIABLES
    rset,     \* the RecordSet table
    records,  \* the Record table
    files,    \* what the storage holds
    queued,   \* record sets for which a rendering task is queued
    upload,   \* the upload requests
    job,      \* the rendering each worker is at
    eraser,   \* the deletion of a record by a client or by the housekeeper
    hk        \* the housekeeping task

database == <<rset, records, files>>
vars == <<rset, records, files, queued, upload, job, eraser, hk>>

-----------------------------------------------------------------------------
(* Rows and the copies of them that tasks hold.                            *)

\* The archive of a set and the video of a profile have each a name of their
\* own, to which the storage may add a suffix.
Names == Sets \X (Profiles \cup {Nil}) \X (Suffixes \cup {Nil})

SetRow == [status : {"UNKNOWN", "UPLOADED", "RENDERED", "DELETING"},
           archive : Names \cup {Nil}]

\* named: the name is still the one made from meeting and profile.
RecordRow == [set : Sets, profile : Profiles, named : BOOLEAN,
              published : BOOLEAN, file : Names \cup {Nil}]

\* A Record object: a row, or what it was, and its uuid.
Object == [id : Records, row : RecordRow]

ASSUME RecordingConstantsOK ==
    /\ Nil \notin Sets \cup Profiles \cup Records \cup Suffixes
    /\ Nil \notin Names \cup SetRow \cup RecordRow \cup Object
    /\ Housekeeper \notin Clients
    /\ {Overwrites, LockHolds, Alone} \subseteq BOOLEAN

Upload == [pc : {"idle", "store", "finish"}, set : Sets \cup {Nil},
           row : SetRow \cup {Nil}]

Job == [pc : {"idle", "look", "insert", "clear", "save", "store", "publish",
              "report", "finish"},
        set : Sets \cup {Nil}, row : SetRow \cup {Nil}, todo : SUBSET Profiles,
        profile : Profiles \cup {Nil}, obj : Object \cup {Nil}]

Erasing == [pc : {"idle", "file", "save", "row", "stopped"}, obj : Object \cup {Nil}]

Housekeeping ==
    [pc : {"idle", "expire", "loop", "records", "save", "drop"},
     todo : SUBSET Sets, seen : [Sets -> SetRow \cup {Nil}],
     set : Sets \cup {Nil}, objs : SUBSET Object]

NoUpload == [pc |-> "idle", set |-> Nil, row |-> Nil]

NoJob == [pc |-> "idle", set |-> Nil, row |-> Nil, todo |-> {},
          profile |-> Nil, obj |-> Nil]

NotErasing == [pc |-> "idle", obj |-> Nil]

Resting == [pc |-> "idle", todo |-> {}, seen |-> [s \in Sets |-> Nil],
            set |-> Nil, objs |-> {}]

Erasers == Clients \cup {Housekeeper}

\* Every variable has its type, and a task past its reads holds what it read.
TypeOK ==
    /\ rset \in [Sets -> SetRow \cup {Nil}]
    /\ records \in [Records -> RecordRow \cup {Nil}]
    /\ files \subseteq Names
    /\ queued \subseteq Sets
    /\ upload \in [Uploads -> Upload]
    /\ job \in [Workers -> Job]
    /\ eraser \in [Erasers -> Erasing]
    /\ hk \in Housekeeping
    /\ \A u \in Uploads : upload[u].pc # "idle" => Nil \notin {upload[u].set, upload[u].row}
    /\ \A w \in Workers :
         /\ job[w].pc # "idle" => Nil \notin {job[w].set, job[w].row}
         /\ job[w].pc \in {"clear", "save", "store", "publish"} => job[w].obj # Nil
    /\ \A e \in Erasers : eraser[e].pc # "idle" => eraser[e].obj # Nil
    /\ hk.pc \in {"records", "save", "drop"} => hk.set # Nil /\ hk.seen[hk.set] # Nil
    /\ hk.pc \in {"expire", "loop"} => \A s \in hk.todo : hk.seen[s] # Nil

Init ==
    /\ rset = [s \in Sets |-> [status |-> "UNKNOWN", archive |-> Nil]]
    /\ records = [r \in Records |-> Nil]
    /\ files = {}
    /\ queued = {}
    /\ upload = [u \in Uploads |-> NoUpload]
    /\ job = [w \in Workers |-> NoJob]
    /\ eraser = [e \in Erasers |-> NotErasing]
    /\ hk = Resting

Rows(s) == {r \in Records : records[r] # Nil /\ records[r].set = s}

\* What rows and the copies of rows in tasks refer to.
SetCopies ==
    ({rset[s] : s \in Sets} \cup {upload[u].row : u \in Uploads}
     \cup {job[w].row : w \in Workers} \cup {hk.seen[s] : s \in Sets}) \ {Nil}

Copies ==
    {[id |-> r, row |-> records[r]] : r \in {q \in Records : records[q] # Nil}}
    \cup (({job[w].obj : w \in Workers} \cup {eraser[e].obj : e \in Erasers}
           \cup hk.objs) \ {Nil})

FilesInUse == {x.archive : x \in SetCopies} \cup {o.row.file : o \in Copies}

\* A uuid for a new record.
FreshRecords == Records \ {o.id : o \in Copies}

NewRecord == CHOOSE r \in FreshRecords : TRUE

\* Storage.get_available_name: the name, or if that is taken, with a suffix
\* that was never there.
FreshNames(s, p) == {n \in {s} \X {p} \X Suffixes : n \notin FilesInUse}

NewName(s, p) ==
    IF Overwrites \/ <<s, p, Nil>> \notin files THEN <<s, p, Nil>>
    ELSE CHOOSE n \in FreshNames(s, p) : TRUE

CanStore(s, p) == Overwrites \/ <<s, p, Nil>> \notin files \/ FreshNames(s, p) # {}

\* save() of a Record object: the database refuses it if its set is gone.
Savable(o) == rset[o.row.set] # Nil

SaveRecord(o) == records' = [records EXCEPT ![o.id] = o.row]

\* save() of a RecordSet object.
SaveSet(s, row) == rset' = [rset EXCEPT ![s] = row]

-----------------------------------------------------------------------------
(* What Alone looks at.                                                    *)

UploadUnderWay(s) == \E u \in Uploads : upload[u].set = s

RenderingUnderWay(s) == s \in queued \/ \E w \in Workers : job[w].set = s

DeletionUnderWay(s) ==
    \/ \E e \in Erasers : /\ eraser[e].pc \in {"file", "save", "row"}
                          /\ eraser[e].obj.row.set = s
    \/ hk.pc # "idle"

Undisturbed(s) ==
    Alone => /\ ~UploadUnderWay(s)
             /\ ~RenderingUnderWay(s)
             /\ ~DeletionUnderWay(s)

-----------------------------------------------------------------------------
(* The upload endpoint.                                                    *)

UploadBegin(u, s) ==
    /\ upload[u] = NoUpload
    /\ rset[s] # Nil
    /\ Undisturbed(s)
    /\ upload' = [upload EXCEPT ![u] = [pc |-> "store", set |-> s, row |-> rset[s]]]
    /\ UNCHANGED <<database, queued, job, eraser, hk>>

\* recording_archive.save(): the file, then the row as it was read.
UploadStore(u) ==
    LET s   == upload[u].set
        row == [upload[u].row EXCEPT !.archive = NewName(s, Nil)]
    IN
    /\ upload[u].pc = "store"
    /\ CanStore(s, Nil)
    /\ files' = files \cup {row.archive}
    /\ SaveSet(s, row)
    /\ upload' = [upload EXCEPT ![u].pc = "finish", ![u].row = row]
    /\ UNCHANGED <<records, queued, job, eraser, hk>>

UploadFinish(u) ==
    /\ upload[u].pc = "finish"
    /\ SaveSet(upload[u].set, [upload[u].row EXCEPT !.status = "UPLOADED"])
    /\ upload' = [upload EXCEPT ![u] = NoUpload]
    /\ UNCHANGED <<records, files, queued, job, eraser, hk>>

\* A bad request, an error of the storage, a worker that is stopped.
UploadStop(u) ==
    /\ upload[u] # NoUpload
    /\ upload' = [upload EXCEPT ![u] = NoUpload]
    /\ UNCHANGED <<database, queued, job, eraser, hk>>

-----------------------------------------------------------------------------
(* Rendering.                                                              *)

\* Mutant: a set that has records is taken for rendered.
QueueRenderingOnce(s) ==
    /\ rset[s] # Nil /\ rset[s].status = "UPLOADED"
    /\ Rows(s) = {}
    /\ s \notin queued
    /\ LockHolds => ~RenderingUnderWay(s)
    /\ Undisturbed(s)
    /\ queued' = queued \cup {s}
    /\ UNCHANGED <<database, upload, job, eraser, hk>>

\* render_record finds an uploaded set and queues its rendering, unless the
\* lock of a task for the set is held.
QueueRendering(s) ==
    /\ rset[s] # Nil /\ rset[s].status = "UPLOADED"
    /\ s \notin queued
    /\ LockHolds => ~RenderingUnderWay(s)
    /\ Undisturbed(s)
    /\ queued' = queued \cup {s}
    /\ UNCHANGED <<database, upload, job, eraser, hk>>

\* A worker takes the task, reads the set and checks that it has an archive.
JobBegin(w, s) ==
    /\ job[w] = NoJob
    /\ s \in queued
    /\ queued' = queued \ {s}
    /\ IF rset[s] # Nil /\ rset[s].archive \in files
       THEN job' = [job EXCEPT ![w] = [NoJob EXCEPT
                            !.pc = IF Profiles = {} THEN "report" ELSE "look",
                            !.set = s, !.row = rset[s], !.todo = Profiles]]
       ELSE UNCHANGED job
    /\ UNCHANGED <<database, upload, eraser, hk>>

\* Mutant: the record found is not kept.
JobLookUnset(w, p) ==
    /\ job[w].pc = "look"
    /\ p \in job[w].todo
    /\ job' = [job EXCEPT ![w].profile = p,
                  ![w].pc = IF \E r \in Rows(job[w].set) : records[r].profile = p
                            THEN "clear" ELSE "insert"]
    /\ UNCHANGED <<database, queued, upload, eraser, hk>>

\* Mutant: the record is looked up by profile and name only.
JobLookAnySet(w, p) ==
    LET found == {r \in Records : /\ records[r] # Nil
                                  /\ records[r].profile = p /\ records[r].named}
    IN
    /\ job[w].pc = "look"
    /\ p \in job[w].todo
    /\ \/ \E r \in found :
             job' = [job EXCEPT ![w].pc = "clear", ![w].profile = p,
                                ![w].obj = [id |-> r, row |-> records[r]]]
       \/ found = {} /\ job' = [job EXCEPT ![w].pc = "insert", ![w].profile = p]
    /\ UNCHANGED <<database, queued, upload, eraser, hk>>

\* get_or_create of the profile's record, by set, profile and name: several
\* are an error, ...
JobLook(w, p) ==
    LET found == {r \in Rows(job[w].set) : records[r].profile = p /\ records[r].named}
    IN
    /\ job[w].pc = "look"
    /\ p \in job[w].todo
    /\ \/ /\ Cardinality(found) > 1
          /\ job' = [job EXCEPT ![w] = NoJob]
       \/ /\ Cardinality(found) = 1
          /\ \E r \in found :
                job' = [job EXCEPT ![w].pc = "clear", ![w].profile = p,
                                   ![w].obj = [id |-> r, row |-> records[r]]]
       \/ /\ found = {}
          /\ job' = [job EXCEPT ![w].pc = "insert", ![w].profile = p]
    /\ UNCHANGED <<database, queued, upload, eraser, hk>>

\* ... none is inserted, if the set is still there.
JobInsert(w) ==
    LET row == [set |-> job[w].set, profile |-> job[w].profile, named |-> TRUE,
                published |-> FALSE, file |-> Nil]
    IN
    /\ job[w].pc = "insert"
    /\ rset[job[w].set] # Nil
    /\ FreshRecords # {}
    /\ SaveRecord([id |-> NewRecord, row |-> row])
    /\ job' = [job EXCEPT ![w].pc = "store",
                          ![w].obj = [id |-> NewRecord, row |-> row]]
    /\ UNCHANGED <<rset, files, queued, upload, eraser, hk>>

\* The video is rendered.  record.file.delete() of a record that existed: the
\* file goes, ...
JobClear(w) ==
    LET f == job[w].obj.row.file IN
    /\ job[w].pc = "clear"
    /\ files' = files \ {f}
    /\ job' = [job EXCEPT ![w].pc = IF f = Nil THEN "store" ELSE "save",
                          ![w].obj.row.file = Nil]
    /\ UNCHANGED <<rset, records, queued, upload, eraser, hk>>

\* ... then the row is saved without it.
JobSave(w) ==
    /\ job[w].pc = "save"
    /\ Savable(job[w].obj)
    /\ SaveRecord(job[w].obj)
    /\ job' = [job EXCEPT ![w].pc = "store"]
    /\ UNCHANGED <<rset, files, queued, upload, eraser, hk>>

\* record.file.save(): the new file, then the row.
JobStore(w) ==
    LET n == NewName(job[w].set, job[w].profile)
        o == [job[w].obj EXCEPT !.row.file = n]
    IN
    /\ job[w].pc = "store"
    /\ CanStore(job[w].set, job[w].profile)
    /\ files' = files \cup {n}
    /\ IF Savable(o)
       THEN /\ SaveRecord(o)
            /\ job' = [job EXCEPT ![w].pc = "publish", ![w].obj = o]
       ELSE /\ job' = [job EXCEPT ![w] = NoJob]
            /\ UNCHANGED records
    /\ UNCHANGED <<rset, queued, upload, eraser, hk>>

\* Mutant: the loop ends with the first profile.
JobPublishOnce(w) ==
    LET o == [job[w].obj EXCEPT !.row.published = TRUE] IN
    /\ job[w].pc = "publish"
    /\ Savable(o)
    /\ SaveRecord(o)
    /\ job' = [job EXCEPT ![w].pc = "report", ![w].profile = Nil, ![w].obj = Nil]
    /\ UNCHANGED <<rset, files, queued, upload, eraser, hk>>

\* published = True; save(); on to the next profile.
JobPublish(w) ==
    LET o    == [job[w].obj EXCEPT !.row.published = TRUE]
        left == job[w].todo \ {job[w].profile}
    IN
    /\ job[w].pc = "publish"
    /\ Savable(o)
    /\ SaveRecord(o)
    /\ job' = [job EXCEPT ![w].pc = IF left = {} THEN "report" ELSE "look",
                          ![w].todo = left, ![w].profile = Nil, ![w].obj = Nil]
    /\ UNCHANGED <<rset, files, queued, upload, eraser, hk>>

\* The ready callback is acknowledged, or there is none.
JobReport(w) ==
    /\ job[w].pc = "report"
    /\ job' = [job EXCEPT ![w].pc = "finish"]
    /\ UNCHANGED <<database, queued, upload, eraser, hk>>

\* The set is saved as it was read, but for its status.
JobFinish(w) ==
    /\ job[w].pc = "finish"
    /\ SaveSet(job[w].set, [job[w].row EXCEPT !.status = "RENDERED"])
    /\ job' = [job EXCEPT ![w] = NoJob]
    /\ UNCHANGED <<records, files, queued, upload, eraser, hk>>

\* Mutant: the status is set whether rendering succeeds or not.
JobStopRendered(w) ==
    /\ job[w] # NoJob
    /\ SaveSet(job[w].set, [job[w].row EXCEPT !.status = "RENDERED"])
    /\ job' = [job EXCEPT ![w] = NoJob]
    /\ UNCHANGED <<records, files, queued, upload, eraser, hk>>

\* Rendering fails, the callback is not acknowledged, the worker is stopped.
JobStop(w) ==
    /\ job[w] # NoJob
    /\ job' = [job EXCEPT ![w] = NoJob]
    /\ UNCHANGED <<database, queued, upload, eraser, hk>>

-----------------------------------------------------------------------------
(* Deleting a record: Record.delete(), of a client's call, of the admin     *)
(* site or of the housekeeper.  Its errors are passed over.                *)

EraseBegin(c, r) ==
    /\ eraser[c] = NotErasing
    /\ records[r] # Nil
    /\ Undisturbed(records[r].set)
    /\ eraser' = [eraser EXCEPT ![c] = [pc |-> "file",
                                        obj |-> [id |-> r, row |-> records[r]]]]
    /\ UNCHANGED <<database, queued, upload, job, hk>>

\* file.delete(): the file, if there is one, ...
EraseFile(e) ==
    LET f == eraser[e].obj.row.file IN
    /\ eraser[e].pc = "file"
    /\ files' = files \ {f}
    /\ eraser' = [eraser EXCEPT ![e].pc = IF f = Nil THEN "row" ELSE "save",
                                ![e].obj.row.file = Nil]
    /\ UNCHANGED <<rset, records, queued, upload, job, hk>>

\* ... and the row without it.
EraseSave(e) ==
    /\ eraser[e].pc = "save"
    /\ Savable(eraser[e].obj)
    /\ SaveRecord(eraser[e].obj)
    /\ eraser' = [eraser EXCEPT ![e].pc = "row"]
    /\ UNCHANGED <<rset, files, queued, upload, job, hk>>

EraseRow(e) ==
    /\ eraser[e].pc = "row"
    /\ records' = [records EXCEPT ![eraser[e].obj.id] = Nil]
    /\ eraser' = [eraser EXCEPT ![e] = NotErasing]
    /\ UNCHANGED <<rset, files, queued, upload, job, hk>>

\* The storage refuses, or the database does because the set is gone.
EraseFail(e) ==
    /\ eraser[e].pc \in {"file", "save"}
    /\ eraser[e].pc = "save" => ~Savable(eraser[e].obj)
    /\ eraser' = [eraser EXCEPT ![e] = NotErasing]
    /\ UNCHANGED <<database, queued, upload, job, hk>>

\* The worker is stopped, and the deletion stays half done.
EraseStop(c) ==
    /\ eraser[c].pc \in {"save", "row"}
    /\ eraser' = [eraser EXCEPT ![c].pc = "stopped"]
    /\ UNCHANGED <<database, queued, upload, job, hk>>

-----------------------------------------------------------------------------
(* Housekeeping.                                                           *)

\* RecordSet.objects.all()
HkBegin ==
    /\ hk.pc = "idle"
    /\ \A s \in Sets : Undisturbed(s)
    /\ hk' = [Resting EXCEPT !.pc = "expire", !.seen = rset,
                             !.todo = {s \in Sets : rset[s] # Nil}]
    /\ UNCHANGED <<database, queued, upload, job, eraser>>

\* A set whose hold time is over is saved as it was read, but for its status.
HkExpire(s) ==
    /\ hk.pc = "expire"
    /\ s \in hk.todo
    /\ \/ /\ hk.seen[s].status # "DELETING"
          /\ SaveSet(s, [hk.seen[s] EXCEPT !.status = "DELETING"])
       \/ UNCHANGED rset
    /\ hk' = [hk EXCEPT !.todo = @ \ {s}]
    /\ UNCHANGED <<records, files, queued, upload, job, eraser>>

\* RecordSet.objects.filter(status=DELETING)
HkScan ==
    LET found == {s \in Sets : rset[s] # Nil /\ rset[s].status = "DELETING"} IN
    /\ hk.pc = "expire" /\ hk.todo = {}
    /\ hk' = [Resting EXCEPT !.pc = "loop", !.todo = found,
                 !.seen = [s \in Sets |-> IF s \in found THEN rset[s] ELSE Nil]]
    /\ UNCHANGED <<database, queued, upload, job, eraser>>

\* The next set and its records, ...
HkTake(s) ==
    /\ hk.pc = "loop"
    /\ s \in hk.todo
    /\ hk' = [hk EXCEPT !.pc = "records", !.set = s, !.todo = @ \ {s},
                 !.objs = {[id |-> r, row |-> records[r]] : r \in Rows(s)}]
    /\ UNCHANGED <<database, queued, upload, job, eraser>>

\* ... which are deleted one after the other, ...
HkErase(o) ==
    /\ hk.pc = "records" /\ eraser[Housekeeper] = NotErasing
    /\ o \in hk.objs
    /\ eraser' = [eraser EXCEPT ![Housekeeper] = [pc |-> "file", obj |-> o]]
    /\ hk' = [hk EXCEPT !.objs = @ \ {o}]
    /\ UNCHANGED <<database, queued, upload, job>>

\* ... then the archive, if there is one, ...
HkArchive ==
    LET a == hk.seen[hk.set].archive IN
    /\ hk.pc = "records" /\ hk.objs = {} /\ eraser[Housekeeper] = NotErasing
    /\ files' = files \ {a}
    /\ hk' = [hk EXCEPT !.pc = IF a = Nil THEN "drop" ELSE "save",
                        !.seen[hk.set].archive = Nil]
    /\ UNCHANGED <<rset, records, queued, upload, job, eraser>>

\* ... which the storage may refuse; then the set stays as it is.
HkRefuse ==
    /\ hk.pc = "records" /\ hk.objs = {} /\ eraser[Housekeeper] = NotErasing
    /\ hk.seen[hk.set].archive # Nil
    /\ hk' = [hk EXCEPT !.pc = "loop", !.set = Nil, !.seen[hk.set] = Nil]
    /\ UNCHANGED <<database, queued, upload, job, eraser>>

\* The set is saved as it was read, without its archive, ...
HkSave ==
    /\ hk.pc = "save"
    /\ SaveSet(hk.set, hk.seen[hk.set])
    /\ hk' = [hk EXCEPT !.pc = "drop"]
    /\ UNCHANGED <<records, files, queued, upload, job, eraser>>

\* Mutant: on_delete is RESTRICT instead of CASCADE.
HkDropEmpty ==
    /\ hk.pc = "drop"
    /\ Rows(hk.set) = {}
    /\ rset' = [rset EXCEPT ![hk.set] = Nil]
    /\ hk' = [hk EXCEPT !.pc = "loop", !.set = Nil, !.seen[hk.set] = Nil]
    /\ UNCHANGED <<records, files, queued, upload, job, eraser>>

\* ... and the row, with all records of the set that are left.
HkDrop ==
    /\ hk.pc = "drop"
    /\ rset' = [rset EXCEPT ![hk.set] = Nil]
    /\ records' = [r \in Records |-> IF r \in Rows(hk.set) THEN Nil ELSE records[r]]
    /\ hk' = [hk EXCEPT !.pc = "loop", !.set = Nil, !.seen[hk.set] = Nil]
    /\ UNCHANGED <<files, queued, upload, job, eraser>>

HkEnd ==
    /\ hk.pc = "loop" /\ hk.todo = {}
    /\ hk' = Resting
    /\ UNCHANGED <<database, queued, upload, job, eraser>>

HkStop ==
    /\ hk.pc # "idle"
    /\ hk' = Resting
    /\ eraser' = [eraser EXCEPT ![Housekeeper] = NotErasing]
    /\ UNCHANGED <<database, queued, upload, job>>

-----------------------------------------------------------------------------
(* Updates of columns by clients and by the admin.                         *)

\* publishRecordings
Publish(r, value) ==
    /\ "published" \in Edits
    /\ records[r] # Nil
    /\ records' = [records EXCEPT ![r].published = value]
    /\ UNCHANGED <<rset, files, queued, upload, job, eraser, hk>>

\* updateRecordings, to another name or back
Rename(r, value) ==
    /\ "name" \in Edits
    /\ records[r] # Nil
    /\ records' = [records EXCEPT ![r].named = value]
    /\ UNCHANGED <<rset, files, queued, upload, job, eraser, hk>>

\* set_to_deletion, set_to_rerender
SetStatus(s, value) ==
    /\ rset[s] # Nil
    /\ rset' = [rset EXCEPT ![s].status = value]
    /\ UNCHANGED <<records, files, queued, upload, job, eraser, hk>>

-----------------------------------------------------------------------------
UploadStep(u) ==
    \/ \E s \in Sets : UploadBegin(u, s)
    \/ UploadStore(u) \/ UploadFinish(u) \/ UploadStop(u)

JobAdvance(w) ==
    \/ \E s \in Sets : JobBegin(w, s)
    \/ \E p \in Profiles : JobLook(w, p)
    \/ JobInsert(w) \/ JobClear(w) \/ JobSave(w) \/ JobStore(w) \/ JobPublish(w)
    \/ JobReport(w) \/ JobFinish(w)

EraseStep(e) == EraseFile(e) \/ EraseSave(e) \/ EraseRow(e) \/ EraseFail(e)

ClientStep(c) ==
    \/ \E r \in Records : EraseBegin(c, r)
    \/ EraseStop(c)

HkAdvance ==
    \/ \E s \in Sets : HkExpire(s) \/ HkTake(s)
    \/ HkScan
    \/ \E o \in hk.objs : HkErase(o)
    \/ HkArchive \/ HkRefuse \/ HkSave \/ HkDrop \/ HkEnd

UpdateStep ==
    \/ \E r \in Records, value \in BOOLEAN : Publish(r, value) \/ Rename(r, value)
    \/ \E s \in Sets, value \in {"DELETING", "UPLOADED"} : SetStatus(s, value)

Next ==
    \/ \E u \in Uploads : UploadStep(u)
    \/ \E s \in Sets : QueueRendering(s)
    \/ \E w \in Workers : JobAdvance(w) \/ JobStop(w)
    \/ \E e \in Erasers : EraseStep(e)
    \/ \E c \in Clients : ClientStep(c)
    \/ HkBegin \/ HkAdvance \/ HkStop
    \/ UpdateStep

Spec == Init /\ [][Next]_vars

\* The beat starts render_record and housekeeping_recordings again and again,
\* and what has begun goes on until it ends, fails or is stopped.
Fairness ==
    /\ \A u \in Uploads : WF_vars(UploadStore(u) \/ UploadFinish(u) \/ UploadStop(u))
    /\ \A s \in Sets : SF_vars(QueueRendering(s))
    /\ \A w \in Workers : WF_vars(JobAdvance(w))
    /\ \A e \in Erasers : WF_vars(EraseStep(e))
    /\ SF_vars(HkBegin)
    /\ WF_vars(HkAdvance)

FairSpec == Spec /\ Fairness

\* The system when every archive has been uploaded.
UploadedInit ==
    /\ rset = [s \in Sets |-> [status |-> "UPLOADED", archive |-> <<s, Nil, Nil>>]]
    /\ files = {<<s, Nil, Nil>> : s \in Sets}
    /\ records = [r \in Records |-> Nil]
    /\ queued = {}
    /\ upload = [u \in Uploads |-> NoUpload]
    /\ job = [w \in Workers |-> NoJob]
    /\ eraser = [e \in Erasers |-> NotErasing]
    /\ hk = Resting

UploadedSpec == UploadedInit /\ [][Next]_vars

-----------------------------------------------------------------------------
(* Safety.                                                                 *)

HasVideo(s, p) ==
    \E r \in Rows(s) : records[r].profile = p /\ records[r].file \in files

\* A published record of a rendered set has its video in the storage, unless
\* its deletion was broken off: an interrupted rendering or re-rendering never
\* shows, although it removes the old video before it stores the new one
\* (recording.py:57-61).
PublishedHasFile ==
    \A r \in Records :
        /\ records[r] # Nil /\ records[r].published
        /\ rset[records[r].set] # Nil
        /\ rset[records[r].set].status = "RENDERED"
        => \/ records[r].file \in files
           \/ \E e \in Erasers : eraser[e].obj # Nil /\ eraser[e].obj.id = r

\* When a rendering is about to report its set as rendered there is a video
\* for every profile, those of the profiles rendered first included
\* (recording.py:81-106).
RenderedIsComplete ==
    \A w \in Workers : job[w].pc \in {"report", "finish"} =>
        \A p \in Profiles : HasVideo(job[w].set, p)

\* Whatever overlaps, a record only ever refers to a video of its own set and
\* profile, and a set to an archive of its own (recording.py:59, api.py:701).
VideosAreOwn ==
    /\ \A r \in Records :
         records[r] # Nil /\ records[r].file # Nil =>
             \E x \in Suffixes \cup {Nil} :
                records[r].file = <<records[r].set, records[r].profile, x>>
    /\ \A s \in Sets :
         rset[s] # Nil /\ rset[s].archive # Nil =>
             \E x \in Suffixes \cup {Nil} : rset[s].archive = <<s, Nil, x>>

\* "Unique together: (recordset, profile)" (docs/02-database-schema.md:837);
\* the code has get_or_create instead of a constraint (recording.py:40).
OneRecordPerProfile ==
    \A s \in Sets : \A q, r \in Rows(s) :
        records[q].profile = records[r].profile => q = r

(* Liveness, under FairSpec.                                               *)

\* From some time on no rendering fails, the housekeeper is not stopped and the
\* storage deletes archives.
FailuresEnd ==
    /\ <>[][hk.pc # "idle" /\ hk'.pc = "idle" => HkEnd]_vars
    /\ <>[][~HkRefuse]_vars
    /\ \A w \in Workers : <>[][~JobStop(w)]_vars

\* An uploaded set whose archive is there does not stay so: it is rendered,
\* whatever failed renderings have left behind (tasks.py:67-76).
UploadedIsRendered ==
    FailuresEnd =>
    \A s \in Sets :
        ~<>[](rset[s] # Nil /\ rset[s].status = "UPLOADED" /\ rset[s].archive \in files)

\* A set that is to be deleted from some time on goes, whatever overlaps and
\* whichever videos the storage refuses to delete (recording.py:115-118).
DeletingSetsGo ==
    FailuresEnd =>
    \A s \in Sets :
        <>[](rset[s] # Nil => rset[s].status = "DELETING") => []<>(rset[s] = Nil)

=============================================================================
