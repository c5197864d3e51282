-------------------------- MODULE RecordingsProof --------------------------
(* Theorems about Recordings for any sets, profiles, requests and workers.  *)
EXTENDS Recordings, TLAPS

-----------------------------------------------------------------------------
(* Types, and whose archive or video a row refers to: what the tables hold  *)
(* and, since tasks write their copies back, what each task holds.          *)

\* Rows of the set s, and of records, that refer to nothing that is not theirs.
OwnSetRow(s) ==
    {row \in SetRow : row.archive # Nil =>
        \E x \in Suffixes \cup {Nil} : row.archive = <<s, Nil, x>>}

OwnRecordRow ==
    {row \in RecordRow : row.file # Nil =>
        \E x \in Suffixes \cup {Nil} : row.file = <<row.set, row.profile, x>>}

OwnObject == {o \in Object : o.row \in OwnRecordRow}

TablesInv ==
    /\ rset \in [Sets -> SetRow \cup {Nil}]
    /\ \A s \in Sets : rset[s] \in OwnSetRow(s) \cup {Nil}
    /\ records \in [Records -> OwnRecordRow \cup {Nil}]
    /\ files \subseteq Names
    /\ queued \subseteq Sets

OkUpload(x) ==
    /\ x \in Upload
    /\ x.pc # "idle" => x.set # Nil /\ x.row # Nil
    /\ x.row # Nil => x.row \in OwnSetRow(x.set)

OkJob(x) ==
    /\ x \in Job
    /\ x.pc # "idle" => x.set # Nil /\ x.row # Nil
    /\ x.row # Nil => x.row \in OwnSetRow(x.set)
    /\ x.pc \in {"insert", "clear", "save", "store", "publish"} => x.profile # Nil
    /\ x.pc \in {"clear", "save", "store", "publish"} <=> x.obj # Nil
    /\ x.obj # Nil => /\ x.obj \in OwnObject
                      /\ x.obj.row.set = x.set /\ x.obj.row.profile = x.profile

OkErasing(x) ==
    /\ x \in Erasing
    /\ x.pc # "idle" => x.obj # Nil
    /\ x.obj # Nil => x.obj \in OwnObject

OkHousekeeping(h) ==
    /\ h \in Housekeeping
    /\ h.objs \subseteq OwnObject
    /\ \A s \in Sets : h.seen[s] \in OwnSetRow(s) \cup {Nil}
    /\ \A s \in h.todo : h.seen[s] # Nil
    /\ h.pc \in {"records", "save", "drop"} =>
         h.set # Nil /\ h.seen[h.set] # Nil /\ h.set \notin h.todo

OwnInv ==
    /\ TablesInv
    /\ upload \in [Uploads -> Upload] /\ \A u \in Uploads : OkUpload(upload[u])
    /\ job \in [Workers -> Job] /\ \A w \in Workers : OkJob(job[w])
    /\ eraser \in [Erasers -> Erasing] /\ \A e \in Erasers : OkErasing(eraser[e])
    /\ OkHousekeeping(hk)

-----------------------------------------------------------------------------
(* What saves and new names keep.                                           *)

\* The name that the storage gives is that of the set and the profile.
LEMMA NameIsOwn ==
    ASSUME NEW s \in Sets, NEW p \in Profiles \cup {Nil}, CanStore(s, p)
    PROVE  /\ NewName(s, p) \in Names /\ NewName(s, p) # Nil
           /\ \E x \in Suffixes \cup {Nil} : NewName(s, p) = <<s, p, x>>
<1>1. CASE Overwrites \/ <<s, p, Nil>> \notin files
  BY <1>1, RecordingConstantsOK DEF NewName, Names
<1>2. CASE ~(Overwrites \/ <<s, p, Nil>> \notin files)
  <2>1. FreshNames(s, p) # {}
    BY <1>2 DEF CanStore
  <2>2. NewName(s, p) \in FreshNames(s, p)
    BY <1>2, <2>1 DEF NewName
  <2>3. NewName(s, p) \in {s} \X {p} \X Suffixes
    BY <2>2 DEF FreshNames
  <2> QED BY <2>3, RecordingConstantsOK DEF Names
<1> QED BY <1>1, <1>2

LEMMA SaveSetOwn ==
    ASSUME TablesInv, NEW s \in Sets, NEW row \in OwnSetRow(s), SaveSet(s, row),
           UNCHANGED records, queued' \subseteq Sets, files' \subseteq Names
    PROVE  TablesInv'
BY DEF TablesInv, SaveSet, OwnSetRow

LEMMA SaveRecordOwn ==
    ASSUME TablesInv, NEW o \in OwnObject, SaveRecord(o),
           UNCHANGED <<rset, queued>>, files' \subseteq Names
    PROVE  TablesInv'
BY DEF TablesInv, SaveRecord, OwnObject, Object

LEMMA UploadBecomes ==
    ASSUME OwnInv, NEW u \in Uploads, NEW x, OkUpload(x),
           upload' = [upload EXCEPT ![u] = x],
           UNCHANGED <<job, eraser, hk>>, TablesInv'
    PROVE  OwnInv'
<1>1. upload' \in [Uploads -> Upload] /\ \A v \in Uploads : OkUpload(upload'[v])
  BY DEF OwnInv, OkUpload
<1> QED BY <1>1 DEF OwnInv

LEMMA JobBecomes ==
    ASSUME OwnInv, NEW w \in Workers, NEW x, OkJob(x),
           job' = [job EXCEPT ![w] = x],
           UNCHANGED <<upload, eraser, hk>>, TablesInv'
    PROVE  OwnInv'
<1>1. job' \in [Workers -> Job] /\ \A v \in Workers : OkJob(job'[v])
  BY DEF OwnInv, OkJob
<1> QED BY <1>1 DEF OwnInv

LEMMA EraserBecomes ==
    ASSUME OwnInv, NEW e \in Erasers, NEW x, OkErasing(x),
           eraser' = [eraser EXCEPT ![e] = x],
           UNCHANGED <<upload, job>>, OkHousekeeping(hk'), TablesInv'
    PROVE  OwnInv'
<1>1. eraser' \in [Erasers -> Erasing] /\ \A v \in Erasers : OkErasing(eraser'[v])
  BY DEF OwnInv, OkErasing
<1> QED BY <1>1 DEF OwnInv

LEMMA HkBecomes ==
    ASSUME OwnInv, OkHousekeeping(hk'), UNCHANGED <<upload, job, eraser>>, TablesInv'
    PROVE  OwnInv'
BY DEF OwnInv

LEMMA NothingUnderWay ==
    /\ OkUpload(NoUpload) /\ OkJob(NoJob) /\ OkErasing(NotErasing)
    /\ OkHousekeeping(Resting)
<1>1. OkUpload(NoUpload)
  BY DEF OkUpload, NoUpload, Upload
<1>2. OkJob(NoJob)
  BY DEF OkJob, NoJob, Job
<1>3. OkErasing(NotErasing)
  BY DEF OkErasing, NotErasing, Erasing
<1>4. OkHousekeeping(Resting)
  BY DEF OkHousekeeping, Resting, Housekeeping
<1> QED BY <1>1, <1>2, <1>3, <1>4

-----------------------------------------------------------------------------
(* One lemma for each group of steps.                                       *)

LEMMA UploadKeepsOwn ==
    ASSUME OwnInv, NEW u \in Uploads, UploadStep(u)
    PROVE  OwnInv'
<1> DEFINE x == upload[u]
<1>1. OkUpload(x) /\ TablesInv
  BY DEF OwnInv
<1>2. ASSUME NEW s \in Sets, UploadBegin(u, s) PROVE OwnInv'
  <2>1. rset[s] \in OwnSetRow(s) /\ rset[s] # Nil /\ s # Nil /\ rset[s] \in SetRow
    BY <1>1, <1>2, RecordingConstantsOK DEF UploadBegin, TablesInv, OwnSetRow
  <2>2. OkUpload([pc |-> "store", set |-> s, row |-> rset[s]])
    BY <2>1 DEF OkUpload, Upload
  <2>3. TablesInv'
    BY <1>1, <1>2 DEF UploadBegin, database, TablesInv
  <2> QED BY <1>2, <2>2, <2>3, UploadBecomes DEF UploadBegin, database
<1>3. CASE UploadStore(u)
  <2> DEFINE row == [x.row EXCEPT !.archive = NewName(x.set, Nil)]
             y == [x EXCEPT !.pc = "finish", !.row = row]
  <2>1. x \in Upload /\ x.set \in Sets /\ x.row \in SetRow
    BY <1>1, <1>3 DEF OkUpload, Upload, UploadStore
  <2>2. /\ NewName(x.set, Nil) \in Names
        /\ \E z \in Suffixes \cup {Nil} : NewName(x.set, Nil) = <<x.set, Nil, z>>
    BY <1>3, <2>1, NameIsOwn DEF UploadStore
  <2>3. row \in OwnSetRow(x.set) /\ row.archive \in Names
    BY <2>1, <2>2 DEF OwnSetRow, SetRow
  <2>4. OkUpload(y)
    BY <2>1, <2>3, RecordingConstantsOK DEF OkUpload, Upload, OwnSetRow
  <2>5. upload' = [upload EXCEPT ![u] = y]
    BY <1>3 DEF UploadStore, OwnInv
  <2>6. TablesInv'
    <3>1. SaveSet(x.set, row) /\ files' = files \cup {row.archive}
      BY <1>3 DEF UploadStore
    <3> QED BY <1>1, <1>3, <2>1, <2>3, <3>1, SaveSetOwn DEF UploadStore, TablesInv
  <2> QED BY <1>3, <2>4, <2>5, <2>6, UploadBecomes DEF UploadStore
<1>4. CASE UploadFinish(u)
  <2> DEFINE row == [x.row EXCEPT !.status = "UPLOADED"]
  <2>1. x.set \in Sets /\ row \in OwnSetRow(x.set)
    BY <1>1, <1>4 DEF OkUpload, Upload, UploadFinish, OwnSetRow, SetRow
  <2>2. TablesInv'
    BY <1>1, <1>4, <2>1, SaveSetOwn DEF UploadFinish, TablesInv
  <2> QED BY <1>4, <2>2, UploadBecomes, NothingUnderWay DEF UploadFinish
<1>5. CASE UploadStop(u)
  <2>1. TablesInv'
    BY <1>1, <1>5 DEF UploadStop, database, TablesInv
  <2> QED BY <1>5, <2>1, UploadBecomes, NothingUnderWay DEF UploadStop
<1> QED BY <1>2, <1>3, <1>4, <1>5 DEF UploadStep

LEMMA JobKeepsOwn ==
    ASSUME OwnInv, NEW w \in Workers, JobAdvance(w) \/ JobStop(w)
    PROVE  OwnInv'
<1> DEFINE x == job[w]
<1>1. OkJob(x) /\ TablesInv /\ OkJob(NoJob)
  BY NothingUnderWay DEF OwnInv
<1>2. x \in Job /\ (x.pc # "idle" => x.set \in Sets /\ x.row \in OwnSetRow(x.set))
  BY <1>1 DEF OkJob, Job
<1>3. x.obj # Nil => x.obj \in OwnObject /\ x.obj.row \in OwnRecordRow
  BY <1>1 DEF OkJob, OwnObject
<1>4. ASSUME NEW s \in Sets, JobBegin(w, s) PROVE OwnInv'
  <2> DEFINE y == [pc |-> IF Profiles = {} THEN "report" ELSE "look", set |-> s,
                   row |-> rset[s], todo |-> Profiles, profile |-> Nil, obj |-> Nil]
  <2>1. TablesInv'
    BY <1>1, <1>4 DEF JobBegin, database, TablesInv
  <2>2. CASE UNCHANGED job
    BY <1>4, <2>1, <2>2 DEF JobBegin, OwnInv
  <2>3. CASE rset[s] # Nil /\ job' = [job EXCEPT ![w] = y]
    <3>1. rset[s] \in OwnSetRow(s) /\ s # Nil /\ rset[s] \in SetRow
      BY <1>1, <2>3, RecordingConstantsOK DEF TablesInv, OwnSetRow
    <3>2. OkJob(y)
      BY <2>3, <3>1 DEF OkJob, Job
    <3> QED BY <1>4, <2>1, <2>3, <3>2, JobBecomes DEF JobBegin
  <2> QED BY <1>4, <2>2, <2>3 DEF JobBegin, NoJob
<1>5. ASSUME NEW p \in Profiles, JobLook(w, p) PROVE OwnInv'
  <2>1. TablesInv'
    BY <1>1, <1>5 DEF JobLook, database, TablesInv
  <2>2. CASE job' = [job EXCEPT ![w] = NoJob]
    BY <1>1, <1>5, <2>1, <2>2, JobBecomes DEF JobLook
  <2>3. ASSUME NEW r \in Rows(x.set), records[r].profile = p,
               job' = [job EXCEPT ![w].pc = "clear", ![w].profile = p,
                                  ![w].obj = [id |-> r, row |-> records[r]]]
        PROVE  OwnInv'
    <3> DEFINE o == [id |-> r, row |-> records[r]]
               y == [x EXCEPT !.pc = "clear", !.profile = p, !.obj = o]
    <3>1. o \in OwnObject /\ o # Nil /\ o.row.set = x.set /\ o.row.profile = p
      BY <1>1, <2>3, RecordingConstantsOK
      DEF Rows, TablesInv, OwnObject, Object, OwnRecordRow
    <3>2. OkJob(y)
      BY <1>1, <1>2, <1>5, <3>1, RecordingConstantsOK DEF OkJob, Job, JobLook, OwnObject
    <3>3. job' = [job EXCEPT ![w] = y]
      BY <2>3 DEF OwnInv
    <3> QED BY <1>5, <2>1, <3>2, <3>3, JobBecomes DEF JobLook
  <2>4. CASE job' = [job EXCEPT ![w].pc = "insert", ![w].profile = p]
    <3> DEFINE y == [x EXCEPT !.pc = "insert", !.profile = p]
    <3>1. OkJob(y)
      BY <1>1, <1>2, <1>5, RecordingConstantsOK DEF OkJob, Job, JobLook
    <3>2. job' = [job EXCEPT ![w] = y]
      BY <2>4 DEF OwnInv
    <3> QED BY <1>5, <2>1, <3>1, <3>2, JobBecomes DEF JobLook
  <2> QED BY <1>5, <2>2, <2>3, <2>4 DEF JobLook
<1>6. CASE JobInsert(w)
  <2> DEFINE row == [set |-> x.set, profile |-> x.profile, named |-> TRUE,
                     published |-> FALSE, file |-> Nil]
             o == [id |-> NewRecord, row |-> row]
             y == [x EXCEPT !.pc = "store", !.obj = o]
  <2>1. NewRecord \in Records
    BY <1>6 DEF JobInsert, NewRecord, FreshRecords
  <2>2. x.set \in Sets /\ x.profile \in Profiles /\ x.row # Nil /\ x.set # Nil
    BY <1>1, <1>2, <1>6, RecordingConstantsOK DEF JobInsert, OkJob, Job
  <2>3. row \in OwnRecordRow
    BY <2>2 DEF OwnRecordRow, RecordRow
  <2>4. o \in OwnObject /\ o # Nil /\ o.row.set = x.set /\ o.row.profile = x.profile
    <3>1. ASSUME NEW q \in OwnRecordRow
          PROVE  [id |-> NewRecord, row |-> q] \in OwnObject
      BY <2>1 DEF OwnObject, Object, OwnRecordRow
    <3>2. o \in OwnObject
      BY <2>3, <3>1
    <3>3. o # Nil
      BY <3>2, RecordingConstantsOK DEF OwnObject
    <3> QED BY <3>2, <3>3
  <2>5. OkJob(y)
    <3> HIDE DEF o
    <3> QED BY <1>1, <1>2, <1>6, <2>2, <2>4 DEF JobInsert, OkJob, Job, OwnObject
  <2>6. job' = [job EXCEPT ![w] = y]
    BY <1>6 DEF JobInsert, OwnInv
  <2>7. TablesInv'
    <3>1. SaveRecord(o) /\ UNCHANGED <<rset, files, queued>>
      BY <1>6 DEF JobInsert
    <3>2. files' \subseteq Names
      BY <1>1, <3>1 DEF TablesInv
    <3> HIDE DEF o
    <3> QED BY <1>1, <2>4, <3>1, <3>2, SaveRecordOwn
  <2> QED BY <1>6, <2>5, <2>6, <2>7, JobBecomes DEF JobInsert
<1>7. CASE JobClear(w)
  <2> DEFINE o == [x.obj EXCEPT !.row.file = Nil]
             y == [x EXCEPT !.pc = IF x.obj.row.file = Nil THEN "store" ELSE "save",
                            !.obj = o]
  <2>1. x.pc = "clear" /\ x.obj \in OwnObject /\ x.profile # Nil
    BY <1>1, <1>7 DEF JobClear, OkJob
  <2>2. o \in OwnObject /\ o # Nil
        /\ o.row.set = x.obj.row.set /\ o.row.profile = x.obj.row.profile
    BY <2>1, RecordingConstantsOK DEF OwnObject, Object, OwnRecordRow, RecordRow
  <2>3. OkJob(y)
    BY <1>1, <1>2, <2>1, <2>2 DEF OkJob, Job, OwnObject
  <2>4. job' = [job EXCEPT ![w] = y]
    BY <1>7 DEF JobClear, OwnInv
  <2>5. TablesInv'
    BY <1>1, <1>7 DEF JobClear, TablesInv
  <2> QED BY <1>7, <2>3, <2>4, <2>5, JobBecomes DEF JobClear
<1>8. CASE JobSave(w)
  <2> DEFINE y == [x EXCEPT !.pc = "store"]
  <2>1. x.pc = "save" /\ x.obj \in OwnObject /\ x.profile # Nil
    BY <1>1, <1>8 DEF JobSave, OkJob
  <2>2. OkJob(y)
    BY <1>1, <1>2, <2>1 DEF OkJob, Job
  <2>3. job' = [job EXCEPT ![w] = y]
    BY <1>8 DEF JobSave, OwnInv
  <2>4. TablesInv'
    BY <1>1, <1>8, <2>1, SaveRecordOwn DEF JobSave, TablesInv
  <2> QED BY <1>8, <2>2, <2>3, <2>4, JobBecomes DEF JobSave
<1>9. CASE JobStore(w)
  <2> DEFINE n == NewName(x.set, x.profile)
             o == [x.obj EXCEPT !.row.file = n]
             y == [x EXCEPT !.pc = "publish", !.obj = o]
  <2>1. /\ x.pc = "store" /\ x.obj \in OwnObject /\ x.profile \in Profiles
        /\ x.set \in Sets /\ x.obj.row.set = x.set /\ x.obj.row.profile = x.profile
    BY <1>1, <1>2, <1>9 DEF JobStore, OkJob, Job
  <2>2. /\ n \in Names
        /\ \E z \in Suffixes \cup {Nil} : n = <<x.set, x.profile, z>>
    BY <1>9, <2>1, NameIsOwn DEF JobStore
  <2>3. /\ o \in OwnObject /\ o # Nil
        /\ o.row.set = x.set /\ o.row.profile = x.profile
    <3> HIDE DEF n
    <3> QED BY <2>1, <2>2, RecordingConstantsOK
            DEF OwnObject, Object, OwnRecordRow, RecordRow
  <2>4. OkJob(y)
    <3> HIDE DEF o
    <3> QED BY <1>1, <1>2, <2>1, <2>3 DEF OkJob, Job, OwnObject
  <2>5. CASE SaveRecord(o) /\ job' = [job EXCEPT ![w].pc = "publish", ![w].obj = o]
    <3>1. job' = [job EXCEPT ![w] = y]
      BY <2>5 DEF OwnInv
    <3>2. TablesInv'
      BY <1>1, <1>9, <2>2, <2>3, <2>5, SaveRecordOwn DEF JobStore, TablesInv
    <3> QED BY <1>9, <2>4, <3>1, <3>2, JobBecomes DEF JobStore
  <2>6. CASE UNCHANGED records /\ job' = [job EXCEPT ![w] = NoJob]
    <3>1. TablesInv'
      BY <1>1, <1>9, <2>2, <2>6 DEF JobStore, TablesInv
    <3> QED BY <1>1, <1>9, <2>6, <3>1, JobBecomes DEF JobStore
  <2> QED BY <1>9, <2>5, <2>6 DEF JobStore
<1>10. CASE JobPublish(w)
  <2> DEFINE o == [x.obj EXCEPT !.row.published = TRUE]
             left == x.todo \ {x.profile}
             y == [x EXCEPT !.pc = IF left = {} THEN "report" ELSE "look",
                            !.todo = left, !.profile = Nil, !.obj = Nil]
  <2>1. x.pc = "publish" /\ x.obj \in OwnObject
    BY <1>1, <1>10 DEF JobPublish, OkJob
  <2>2. o \in OwnObject
    BY <2>1 DEF OwnObject, Object, OwnRecordRow, RecordRow
  <2>3. OkJob(y)
    BY <1>1, <1>2, <2>1 DEF OkJob, Job
  <2>4. job' = [job EXCEPT ![w] = y]
    BY <1>10 DEF JobPublish, OwnInv
  <2>5. TablesInv'
    BY <1>1, <1>10, <2>2, SaveRecordOwn DEF JobPublish, TablesInv
  <2> QED BY <1>10, <2>3, <2>4, <2>5, JobBecomes DEF JobPublish
<1>11. CASE JobReport(w)
  <2> DEFINE y == [x EXCEPT !.pc = "finish"]
  <2>1. OkJob(y)
    BY <1>1, <1>2, <1>11 DEF OkJob, Job, JobReport
  <2>2. job' = [job EXCEPT ![w] = y]
    BY <1>11 DEF JobReport, OwnInv
  <2>3. TablesInv'
    BY <1>1, <1>11 DEF JobReport, database, TablesInv
  <2> QED BY <1>11, <2>1, <2>2, <2>3, JobBecomes DEF JobReport
<1>12. CASE JobFinish(w)
  <2> DEFINE row == [x.row EXCEPT !.status = "RENDERED"]
  <2>1. x.set \in Sets /\ row \in OwnSetRow(x.set)
    BY <1>2, <1>12 DEF JobFinish, OwnSetRow, SetRow
  <2>2. TablesInv'
    BY <1>1, <1>12, <2>1, SaveSetOwn DEF JobFinish, TablesInv
  <2> QED BY <1>1, <1>12, <2>2, JobBecomes DEF JobFinish
<1>13. CASE JobStop(w)
  <2>1. TablesInv'
    BY <1>1, <1>13 DEF JobStop, database, TablesInv
  <2> QED BY <1>1, <1>13, <2>1, JobBecomes DEF JobStop
<1> QED
  BY <1>4, <1>5, <1>6, <1>7, <1>8, <1>9, <1>10, <1>11, <1>12, <1>13 DEF JobAdvance

LEMMA EraseKeepsOwn ==
    ASSUME OwnInv, NEW e \in Erasers,
           \/ EraseStep(e)
           \/ EraseStop(e)
           \/ \E r \in Records : EraseBegin(e, r)
    PROVE  OwnInv'
<1> DEFINE x == eraser[e]
<1>1. OkErasing(x) /\ TablesInv /\ OkErasing(NotErasing) /\ OkHousekeeping(hk)
  BY NothingUnderWay DEF OwnInv
<1>2. x \in Erasing /\ (x.pc # "idle" => x.obj \in OwnObject /\ x.obj # Nil)
  BY <1>1 DEF OkErasing, Erasing
<1>3. ASSUME NEW r \in Records, EraseBegin(e, r) PROVE OwnInv'
  <2> DEFINE o == [id |-> r, row |-> records[r]]
  <2>1. o \in OwnObject /\ o # Nil
    BY <1>1, <1>3, RecordingConstantsOK
    DEF EraseBegin, TablesInv, OwnObject, Object, OwnRecordRow
  <2>2. OkErasing([pc |-> "file", obj |-> o])
    <3> HIDE DEF o
    <3> QED BY <2>1 DEF OkErasing, Erasing, OwnObject
  <2>3. TablesInv'
    BY <1>1, <1>3 DEF EraseBegin, database, TablesInv
  <2> QED BY <1>1, <1>3, <2>2, <2>3, EraserBecomes DEF EraseBegin
<1>4. CASE EraseFile(e)
  <2> DEFINE o == [x.obj EXCEPT !.row.file = Nil]
             y == [x EXCEPT !.pc = IF x.obj.row.file = Nil THEN "row" ELSE "save",
                            !.obj = o]
  <2>1. o \in OwnObject /\ o # Nil
    BY <1>2, <1>4, RecordingConstantsOK
    DEF EraseFile, OwnObject, Object, OwnRecordRow, RecordRow
  <2>2. OkErasing(y)
    BY <1>2, <2>1 DEF OkErasing, Erasing, OwnObject
  <2>3. eraser' = [eraser EXCEPT ![e] = y]
    BY <1>4 DEF EraseFile, OwnInv
  <2>4. TablesInv'
    BY <1>1, <1>4 DEF EraseFile, TablesInv
  <2> QED BY <1>1, <1>4, <2>2, <2>3, <2>4, EraserBecomes DEF EraseFile
<1>5. CASE EraseSave(e)
  <2> DEFINE y == [x EXCEPT !.pc = "row"]
  <2>1. OkErasing(y)
    BY <1>1, <1>2, <1>5 DEF EraseSave, OkErasing, Erasing
  <2>2. eraser' = [eraser EXCEPT ![e] = y]
    BY <1>5 DEF EraseSave, OwnInv
  <2>3. TablesInv'
    BY <1>1, <1>2, <1>5, SaveRecordOwn DEF EraseSave, TablesInv
  <2> QED BY <1>1, <1>5, <2>1, <2>2, <2>3, EraserBecomes DEF EraseSave
<1>6. CASE EraseRow(e)
  <2>1. TablesInv'
    BY <1>1, <1>6 DEF EraseRow, TablesInv
  <2> QED BY <1>1, <1>6, <2>1, EraserBecomes DEF EraseRow
<1>7. CASE EraseFail(e)
  <2>1. TablesInv'
    BY <1>1, <1>7 DEF EraseFail, database, TablesInv
  <2> QED BY <1>1, <1>7, <2>1, EraserBecomes DEF EraseFail
<1>8. CASE EraseStop(e)
  <2> DEFINE y == [x EXCEPT !.pc = "stopped"]
  <2>1. OkErasing(y)
    BY <1>1, <1>2, <1>8 DEF EraseStop, OkErasing, Erasing
  <2>2. eraser' = [eraser EXCEPT ![e] = y]
    BY <1>8 DEF EraseStop, OwnInv
  <2>3. TablesInv'
    BY <1>1, <1>8 DEF EraseStop, database, TablesInv
  <2> QED BY <1>1, <1>8, <2>1, <2>2, <2>3, EraserBecomes DEF EraseStop
<1> QED BY <1>3, <1>4, <1>5, <1>6, <1>7, <1>8 DEF EraseStep

LEMMA HkKeepsOwn ==
    ASSUME OwnInv, HkBegin \/ HkAdvance \/ HkStop
    PROVE  OwnInv'
<1>1. OkHousekeeping(hk) /\ OkHousekeeping(Resting) /\ TablesInv
      /\ OkErasing(NotErasing) /\ hk \in Housekeeping
  BY NothingUnderWay DEF OwnInv, OkHousekeeping
<1>2. ASSUME UNCHANGED <<rset, records, files, queued>> PROVE TablesInv'
  BY <1>1, <1>2 DEF TablesInv
<1>3. CASE HkBegin
  <2> DEFINE h == [Resting EXCEPT !.pc = "expire", !.seen = rset,
                                  !.todo = {s \in Sets : rset[s] # Nil}]
  <2>1. OkHousekeeping(h)
    BY <1>1 DEF OkHousekeeping, Housekeeping, Resting, TablesInv
  <2> QED BY <1>2, <1>3, <2>1, HkBecomes DEF HkBegin, database
<1>4. ASSUME NEW s \in Sets, HkExpire(s) PROVE OwnInv'
  <2>1. OkHousekeeping(hk')
    BY <1>1, <1>4 DEF HkExpire, OkHousekeeping, Housekeeping
  <2>2. TablesInv'
    <3>1. CASE UNCHANGED rset
      BY <1>2, <1>4, <3>1 DEF HkExpire
    <3>2. CASE SaveSet(s, [hk.seen[s] EXCEPT !.status = "DELETING"])
      <4>1. hk.seen[s] \in OwnSetRow(s)
        BY <1>1, <1>4 DEF HkExpire, OkHousekeeping
      <4>2. [hk.seen[s] EXCEPT !.status = "DELETING"] \in OwnSetRow(s)
        BY <4>1 DEF OwnSetRow, SetRow
      <4> QED BY <1>1, <1>4, <3>2, <4>2, SaveSetOwn DEF HkExpire, TablesInv
    <3> QED BY <1>4, <3>1, <3>2 DEF HkExpire
  <2> QED BY <1>4, <2>1, <2>2, HkBecomes DEF HkExpire
<1>5. CASE HkScan
  <2>1. OkHousekeeping(hk')
    BY <1>1, <1>5 DEF HkScan, OkHousekeeping, Housekeeping, Resting, TablesInv
  <2> QED BY <1>2, <1>5, <2>1, HkBecomes DEF HkScan, database
<1>6. ASSUME NEW s \in Sets, HkTake(s) PROVE OwnInv'
  <2> DEFINE found == {[id |-> r, row |-> records[r]] : r \in Rows(s)}
  <2>1. found \subseteq OwnObject
    BY <1>1 DEF Rows, TablesInv, OwnObject, Object, OwnRecordRow
  <2>2. OkHousekeeping([hk EXCEPT !.pc = "records", !.set = s, !.todo = @ \ {s},
                                  !.objs = found])
    <3> HIDE DEF found
    <3> QED BY <1>1, <1>6, <2>1, RecordingConstantsOK
            DEF HkTake, OkHousekeeping, Housekeeping, OwnObject
  <2> QED BY <1>2, <1>6, <2>2, HkBecomes DEF HkTake, database
<1>7. ASSUME NEW o \in hk.objs, HkErase(o) PROVE OwnInv'
  <2>1. o \in OwnObject /\ o # Nil
    BY <1>1, RecordingConstantsOK DEF OkHousekeeping, OwnObject
  <2>2. OkErasing([pc |-> "file", obj |-> o])
    BY <2>1 DEF OkErasing, Erasing, OwnObject
  <2>3. OkHousekeeping(hk')
    BY <1>1, <1>7 DEF HkErase, OkHousekeeping, Housekeeping
  <2> QED BY <1>2, <1>7, <2>2, <2>3, EraserBecomes DEF HkErase, database, Erasers
<1>8. CASE HkArchive
  <2> DEFINE a == hk.seen[hk.set].archive
             row == [hk.seen[hk.set] EXCEPT !.archive = Nil]
             h == [hk EXCEPT !.pc = IF a = Nil THEN "drop" ELSE "save",
                             !.seen = [hk.seen EXCEPT ![hk.set] = row]]
  <2>1. hk.set \in Sets /\ hk.seen[hk.set] \in OwnSetRow(hk.set) /\ hk.set # Nil
        /\ hk.set \notin hk.todo
    BY <1>1, <1>8 DEF HkArchive, OkHousekeeping, Housekeeping
  <2>2. row \in OwnSetRow(hk.set) /\ row # Nil /\ row \in SetRow
    BY <2>1, RecordingConstantsOK DEF OwnSetRow, SetRow
  <2>3. OkHousekeeping(h)
    <3> HIDE DEF row, a
    <3> QED BY <1>1, <1>8, <2>1, <2>2 DEF HkArchive, OkHousekeeping, Housekeeping
  <2>4. hk' = h
    BY <1>1, <1>8 DEF HkArchive, Housekeeping
  <2>5. TablesInv'
    BY <1>1, <1>8 DEF HkArchive, TablesInv
  <2> QED BY <1>8, <2>3, <2>4, <2>5, HkBecomes DEF HkArchive
<1>9. CASE HkRefuse \/ HkDrop
  <2> DEFINE h == [hk EXCEPT !.pc = "loop", !.set = Nil,
                             !.seen = [hk.seen EXCEPT ![hk.set] = Nil]]
  <2>1. hk.set \in Sets /\ hk.set \notin hk.todo
    BY <1>1, <1>9 DEF HkRefuse, HkDrop, OkHousekeeping, Housekeeping
  <2>2. OkHousekeeping(h)
    BY <1>1, <2>1 DEF OkHousekeeping, Housekeeping
  <2>3. hk' = h
    BY <1>1, <1>9 DEF HkRefuse, HkDrop, Housekeeping
  <2>4. TablesInv'
    <3>1. CASE HkRefuse
      BY <1>2, <3>1 DEF HkRefuse, database
    <3>2. CASE HkDrop
      BY <1>1, <3>2 DEF HkDrop, TablesInv
    <3> QED BY <1>9, <3>1, <3>2
  <2> QED BY <1>9, <2>2, <2>3, <2>4, HkBecomes DEF HkRefuse, HkDrop
<1>10. CASE HkSave
  <2>1. hk.set \in Sets /\ hk.seen[hk.set] \in OwnSetRow(hk.set)
    BY <1>1, <1>10 DEF HkSave, OkHousekeeping, Housekeeping
  <2>2. OkHousekeeping(hk')
    BY <1>1, <1>10 DEF HkSave, OkHousekeeping, Housekeeping
  <2>3. TablesInv'
    BY <1>1, <1>10, <2>1, SaveSetOwn DEF HkSave, TablesInv
  <2> QED BY <1>10, <2>2, <2>3, HkBecomes DEF HkSave
<1>11. CASE HkEnd
  BY <1>1, <1>2, <1>11, HkBecomes DEF HkEnd, database
<1>12. CASE HkStop
  BY <1>1, <1>2, <1>12, EraserBecomes DEF HkStop, database, Erasers
<1> QED
  BY <1>3, <1>4, <1>5, <1>6, <1>7, <1>8, <1>9, <1>10, <1>11, <1>12 DEF HkAdvance

LEMMA UpdateKeepsOwn ==
    ASSUME OwnInv, UpdateStep
    PROVE  OwnInv'
<1>1. TablesInv
  BY DEF OwnInv
<1>2. ASSUME TablesInv', UNCHANGED <<upload, job, eraser, hk>> PROVE OwnInv'
  BY <1>2 DEF OwnInv
<1>3. ASSUME NEW r \in Records, NEW value \in BOOLEAN, Publish(r, value) \/ Rename(r, value)
      PROVE  OwnInv'
  <2>1. records[r] \in OwnRecordRow
    BY <1>1, <1>3 DEF Publish, Rename, TablesInv
  <2>2. /\ [records[r] EXCEPT !.published = value] \in OwnRecordRow
        /\ [records[r] EXCEPT !.named = value] \in OwnRecordRow
    BY <2>1 DEF OwnRecordRow, RecordRow
  <2>3. \E row \in OwnRecordRow : records' = [records EXCEPT ![r] = row]
    BY <1>1, <1>3, <2>2 DEF Publish, Rename, TablesInv
  <2>4. TablesInv'
    BY <1>1, <1>3, <2>3 DEF Publish, Rename, TablesInv
  <2> QED BY <1>2, <1>3, <2>4 DEF Publish, Rename
<1>4. ASSUME NEW s \in Sets, NEW value \in {"DELETING", "UPLOADED"}, SetStatus(s, value)
      PROVE  OwnInv'
  <2>1. rset[s] \in OwnSetRow(s)
    BY <1>1, <1>4 DEF SetStatus, TablesInv
  <2>2. [rset[s] EXCEPT !.status = value] \in OwnSetRow(s)
    BY <2>1 DEF OwnSetRow, SetRow
  <2>3. SaveSet(s, [rset[s] EXCEPT !.status = value])
    BY <1>1, <1>4 DEF SetStatus, SaveSet, TablesInv
  <2>4. TablesInv'
    BY <1>1, <1>4, <2>2, <2>3, SaveSetOwn DEF SetStatus, TablesInv
  <2> QED BY <1>2, <1>4, <2>4 DEF SetStatus
<1> QED BY <1>3, <1>4 DEF UpdateStep

LEMMA NextKeepsOwn == OwnInv /\ [Next]_vars => OwnInv'
<1> SUFFICES ASSUME OwnInv, [Next]_vars PROVE OwnInv'
  OBVIOUS
<1>1. CASE UNCHANGED vars
  BY <1>1 DEF vars, OwnInv, TablesInv
<1>2. ASSUME NEW s \in Sets, QueueRendering(s) PROVE OwnInv'
  BY <1>2 DEF QueueRendering, database, OwnInv, TablesInv
<1> QED
  BY <1>1, <1>2, UploadKeepsOwn, JobKeepsOwn, EraseKeepsOwn, HkKeepsOwn, UpdateKeepsOwn
  DEF Next, ClientStep, Erasers

LEMMA InitOwn == Init \/ UploadedInit => OwnInv
<1> SUFFICES ASSUME Init \/ UploadedInit PROVE OwnInv
  OBVIOUS
<1>1. TablesInv
  <2>1. CASE Init
    <3>1. [status |-> "UNKNOWN", archive |-> Nil] \in SetRow
      BY DEF SetRow
    <3> QED BY <2>1, <3>1 DEF Init, TablesInv, OwnSetRow
  <2>2. CASE UploadedInit
    <3>1. ASSUME NEW s \in Sets
          PROVE  /\ <<s, Nil, Nil>> \in Names
                 /\ [status |-> "UPLOADED", archive |-> <<s, Nil, Nil>>] \in OwnSetRow(s)
      BY DEF SetRow, OwnSetRow, Names
    <3> QED BY <2>2, <3>1 DEF UploadedInit, TablesInv, OwnSetRow
  <2> QED BY <2>1, <2>2
<1>2. /\ upload = [u \in Uploads |-> NoUpload] /\ job = [w \in Workers |-> NoJob]
      /\ eraser = [e \in Erasers |-> NotErasing] /\ hk = Resting
  BY DEF Init, UploadedInit
<1> QED BY <1>1, <1>2, NothingUnderWay DEF OwnInv, OkUpload, OkJob, OkErasing

LEMMA OwnGives == OwnInv => TypeOK /\ VideosAreOwn
<1> SUFFICES ASSUME OwnInv PROVE TypeOK /\ VideosAreOwn
  OBVIOUS
<1>1. TablesInv /\ OkHousekeeping(hk)
  BY DEF OwnInv
<1>2. rset \in [Sets -> SetRow \cup {Nil}] /\ records \in [Records -> RecordRow \cup {Nil}]
      /\ files \subseteq Names /\ queued \subseteq Sets
  BY <1>1 DEF TablesInv, OwnRecordRow
<1>3. /\ hk \in Housekeeping
      /\ hk.pc \in {"records", "save", "drop"} => hk.set # Nil /\ hk.seen[hk.set] # Nil
      /\ hk.pc \in {"expire", "loop"} => \A s \in hk.todo : hk.seen[s] # Nil
  BY <1>1 DEF OkHousekeeping
<1>4. /\ upload \in [Uploads -> Upload]
      /\ \A u \in Uploads : upload[u].pc # "idle" => Nil \notin {upload[u].set, upload[u].row}
  BY DEF OwnInv, OkUpload
<1>5. /\ job \in [Workers -> Job]
      /\ \A w \in Workers :
           /\ job[w].pc # "idle" => Nil \notin {job[w].set, job[w].row}
           /\ job[w].pc \in {"clear", "save", "store", "publish"} => job[w].obj # Nil
  BY DEF OwnInv, OkJob
<1>6. /\ eraser \in [Erasers -> Erasing]
      /\ \A e \in Erasers : eraser[e].pc # "idle" => eraser[e].obj # Nil
  BY DEF OwnInv, OkErasing
<1>7. TypeOK
  BY <1>2, <1>3, <1>4, <1>5, <1>6 DEF TypeOK
<1>8. VideosAreOwn
  BY <1>1 DEF VideosAreOwn, TablesInv, OwnRecordRow, OwnSetRow
<1> QED BY <1>7, <1>8

\* The inductive invariant, from either initial state: whatever overlaps, rows
\* and every copy of them that a task holds refer to files of their own.
THEOREM CopiesAreOwn == Spec \/ UploadedSpec => []OwnInv
<1>1. Init => OwnInv
  BY InitOwn
<1>2. UploadedInit => OwnInv
  BY InitOwn
<1>3. OwnInv /\ [Next]_vars => OwnInv'
  BY NextKeepsOwn
<1> QED BY <1>1, <1>2, <1>3, PTL DEF Spec, UploadedSpec

\* Every variable has its type, and a task past its reads holds what it read.
THEOREM RecordingsTypeCorrect == Spec \/ UploadedSpec => []TypeOK
<1>1. OwnInv => TypeOK
  BY OwnGives
<1> QED BY <1>1, CopiesAreOwn, PTL

\* A record only ever refers to a video of its own set and profile, and a set
\* to an archive of its own: uploads, renderings, deletions and edits may
\* overlap, be broken off and write back whatever they read before.
THEOREM VideosStayOwn == Spec \/ UploadedSpec => []VideosAreOwn
<1>1. OwnInv => VideosAreOwn
  BY OwnGives
<1> QED BY <1>1, CopiesAreOwn, PTL

=============================================================================
