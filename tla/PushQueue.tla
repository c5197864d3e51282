----------------------------- MODULE PushQueue ------------------------------
(***************************************************************************)
(* How recordings leave a node: the hook of BigBlueButton puts a published *)
(* recording into a table of SQLite (scripts/bbb/push/b3lb-push-hook.rb),  *)
(* and b3lb-push, started by every change of the folder and every hour,    *)
(* uploads what is in the table and deletes it from the node.              *)
(***************************************************************************)
EXTENDS Naturals, Sequences

CONSTANTS
    Recordings,   \* published recordings of one node, one RecordSet each
    CutShort      \* bound: those whose archive tar may cut short

VARIABLES
    folder,   \* per recording: "unpublished", "published", "queued" or "kept" by the hook, "deleted"
    backlog,  \* the rows of the table, by ROWID
    push,     \* b3lb-push: [pc, todo, deletes], deletes being its uncommitted DELETEs
    status,   \* at B3LB: the status of the RecordSet, "gone" if there is none
    stored    \* what B3LB has of it: "nothing", or the archive of the last upload, "whole" or cut short

pushVars == <<folder, backlog, push, status, stored>>

Idle == [pc |-> "idle", todo |-> <<>>, deletes |-> {}]

PushTypeOK ==
    /\ folder \in [Recordings -> {"unpublished", "published", "queued", "kept", "deleted"}]
    /\ backlog \in Seq(Recordings)
    /\ push \in [pc : {"idle", "loop", "delete"}, todo : Seq(Recordings), deletes : SUBSET Recordings]
    /\ status \in [Recordings -> {"UNKNOWN", "UPLOADED", "RENDERED", "gone"}]
    /\ stored \in [Recordings -> {"nothing", "part", "whole"}]

PushInit ==
    /\ folder = [r \in Recordings |-> "unpublished"]
    /\ backlog = <<>>
    /\ push = Idle
    /\ status = [r \in Recordings |-> "UNKNOWN"]
    /\ stored = [r \in Recordings |-> "nothing"]

-----------------------------------------------------------------------------
\* BigBlueButton has published the recording.
Publish(r) ==
    /\ folder[r] = "unpublished"
    /\ folder' = [folder EXCEPT ![r] = "published"]
    /\ UNCHANGED <<backlog, push, status, stored>>

\* The hook's INSERT, committed at once.  It gets no lock while the SELECT of
\* b3lb-push has rows to come or a DELETE of it is not committed.
HookInserts(r) ==
    /\ folder[r] = "published"
    /\ push.pc = "idle" \/ (push.todo = <<>> /\ push.deletes = {})
    /\ folder' = [folder EXCEPT ![r] = "queued"]
    /\ backlog' = Append(backlog, r)
    /\ UNCHANGED <<push, status, stored>>

\* Without the lock it fails, and the hook rescues every error.  Whether the
\* SELECT is over with its last row depends on the version of Python.
HookFails(r) ==
    /\ folder[r] = "published" /\ push.pc # "idle"
    /\ folder' = [folder EXCEPT ![r] = "kept"]
    /\ UNCHANGED <<backlog, push, status, stored>>

-----------------------------------------------------------------------------
\* systemd starts the service if it does not run; process_backlog.
Start ==
    /\ push.pc = "idle"
    /\ push' = [pc |-> "loop", todo |-> backlog, deletes |-> {}]
    /\ UNCHANGED <<folder, backlog, status, stored>>

\* Mutant: the loop ends with the first row that fails.
PassOverAll == push' = [push EXCEPT !.pc = "loop", !.todo = <<>>]

\* The row at hand is done with, whatever came of it.
PassOver == push' = [push EXCEPT !.pc = "loop", !.todo = Tail(@)]

AtHand(pc) == push.pc = pc /\ push.todo # <<>>

\* upload_recording: no folder any more.
NoFolder ==
    /\ AtHand("loop") /\ folder[Head(push.todo)] = "deleted"
    /\ PassOver
    /\ UNCHANGED <<folder, backlog, status, stored>>

\* B3LB takes what tar has written (api.py:684-716), in the place of what it
\* had, and its answer arrives or does not.  How tar ended is not looked at
\* (b3lb-push:53-69), nor is the archive: it may be cut short, even empty.
Taken(r) ==
    /\ status[r] # "gone"
    /\ status' = [status EXCEPT ![r] = "UPLOADED"]
    /\ \E a \in {"part", "whole"} :
         /\ a = "part" => r \in CutShort
         /\ stored' = [stored EXCEPT ![r] = a]

Uploaded ==
    /\ AtHand("loop") /\ folder[Head(push.todo)] # "deleted"
    /\ Taken(Head(push.todo))
    /\ push' = [push EXCEPT !.pc = "delete"]
    /\ UNCHANGED <<folder, backlog>>

AnswerLost ==
    /\ AtHand("loop") /\ folder[Head(push.todo)] # "deleted"
    /\ Taken(Head(push.todo))
    /\ PassOver
    /\ UNCHANGED <<folder, backlog>>

\* Mutant: the answer's status is not looked at.
RefusedDeletes ==
    /\ AtHand("loop") /\ folder[Head(push.todo)] # "deleted"
    /\ push' = [push EXCEPT !.pc = "delete"]
    /\ UNCHANGED <<folder, backlog, status, stored>>

\* No 2xx: 404 if the RecordSet is gone, 503 or no connection at any time.
Refused ==
    /\ AtHand("loop") /\ folder[Head(push.todo)] # "deleted"
    /\ PassOver
    /\ UNCHANGED <<folder, backlog, status, stored>>

\* bbb-record --delete, whose result nobody looks at, and the DELETE of the row.
DeleteRecording ==
    /\ AtHand("delete")
    /\ \E deleted \in BOOLEAN :
         folder' = [folder EXCEPT ![Head(push.todo)] = IF deleted THEN "deleted" ELSE @]
    /\ push' = [pc |-> "loop", todo |-> Tail(push.todo), deletes |-> push.deletes \cup {Head(push.todo)}]
    /\ UNCHANGED <<backlog, status, stored>>

\* The process ends without a commit: the rows stay.
End ==
    /\ push.pc = "loop" /\ push.todo = <<>>
    /\ push' = Idle
    /\ UNCHANGED <<folder, backlog, status, stored>>

\* The node goes down.
Reboot ==
    /\ push.pc # "idle"
    /\ push' = Idle
    /\ UNCHANGED <<folder, backlog, status, stored>>

PushSteps == NoFolder \/ Uploaded \/ AnswerLost \/ Refused \/ DeleteRecording \/ End

-----------------------------------------------------------------------------
\* A recording leaves the node only when B3LB has had an archive of it, whole
\* or cut short, whatever was refused, lost, repeated or stopped
\* (b3lb-push:69, 80-82).
DeletedIsStored == \A r \in Recordings : folder[r] = "deleted" => stored[r] # "nothing"

=============================================================================
