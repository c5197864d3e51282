------------------------------ MODULE Requests ------------------------------
(***************************************************************************)
(* What B3LB answers to a request, as a function of the request and of the *)
(* database (rest/views.py, rest/classes/api.py).  The life of the meeting *)
(* behind create and meeting/end is in Meetings, that of the recording     *)
(* behind record/upload in Recordings.                                     *)
(*                                                                         *)
(* A request is [view, endpoint, method, path, host, valid, token, main,   *)
(* meeting, state, ids, meetings, publish, name, listed]: path and host    *)
(* are the secrets their slugs and sub ids name, or None; valid and token  *)
(* say whether the checksum and the token were accepted, main whether it   *)
(* came to the base domain; ids and meetings are recordID and meetingID    *)
(* split at the commas, name and listed meta_name and meta_gl-listed.      *)
(*                                                                         *)
(* The database is [secrets, recording, meetings, healthy, lists, metrics, *)
(* records]: recording are the secrets with is_record_enabled; meetings of *)
(* [id, secret, node], records of [uuid, meeting, secret, published, size, *)
(* name, listed, timed]: a uuid stands for the nonce too, size is 0 if the *)
(* file is gone, timed says whether metadata.xml had start and end.        *)
(***************************************************************************)
EXTENDS Naturals, FiniteSets, Sequences, SequencesExt

CONSTANTS
    None,            \* no secret, no node
    MaxBase64Slide   \* 1024000: a slide of more characters is not sent along with create

\* base64 makes groups of four characters: the limit is one on whole groups.
ASSUME RequestConstantsOK ==
    /\ None \notin [field : BOOLEAN, size : Nat \cup {-1}]
    /\ MaxBase64Slide \in Nat /\ MaxBase64Slide % 4 = 0

-----------------------------------------------------------------------------
PassThrough == {"end", "insertDocument", "setConfigXML", "getMeetingInfo", "sendChatMessage"}
OfRecordings == {"publishRecordings", "deleteRecordings", "updateRecordings"}
Backends == {"meeting/end", "record/upload"}

\* The views stats and metrics are endpoints of their own, which b3lb_stats
\* and b3lb_metrics of the BigBlueButton API lead to as well.
Endpoint(r) ==
    CASE r.view = "stats" -> "b3lb_stats" [] r.view = "metrics" -> "b3lb_metrics" [] OTHER -> r.endpoint

AllowedMethods(r) ==
    CASE Endpoint(r) \in {"join", "b3lb_stats", "b3lb_metrics", "meeting/end"} -> {"GET"}
      [] Endpoint(r) = "record/upload" -> {"POST"}
      [] OTHER -> {"GET", "POST"}

\* set_secret_by_slug_and_slug_id: the path goes before the host.
SecretOf(r, db) ==
    LET named == IF r.path = None THEN r.host ELSE r.path
    IN  IF named \in db.secrets THEN named ELSE None

\* Mutant: the meeting is looked up by its id alone.
NodeOfAnyTenant(r, db) ==
    LET own == {m \in db.meetings : m.id = r.meeting /\ m.node \in db.healthy}
    IN  IF own = {} THEN None ELSE (CHOOSE m \in own : TRUE).node

\* set_node_by_meeting_id, one row at most by the unique constraint: the node
\* of the meeting of this secret, unless the last check of it has failed.
NodeOf(r, db) ==
    LET own == {m \in db.meetings : m.id = r.meeting /\ m.secret = SecretOf(r, db)
                                    /\ m.node \in db.healthy}
    IN  IF own = {} THEN None ELSE (CHOOSE m \in own : TRUE).node

B3lb(status) == [by |-> None, status |-> status]

\* pass_through: the node's own answer.
PassedThrough(r, db) ==
    IF r.meeting = "" THEN B3lb("missingParamMeetingID")
    ELSE IF NodeOf(r, db) = None THEN B3lb("notFound")
    ELSE [by |-> NodeOf(r, db), status |-> "passed"]

Join(r, db) ==
    IF r.meeting = "" THEN B3lb("missingParamMeetingID")
    ELSE IF NodeOf(r, db) = None THEN B3lb("400")
    ELSE [by |-> NodeOf(r, db), status |-> "redirect"]

-----------------------------------------------------------------------------
\* Mutant: the query leaves the secret out.
FilterAnySecret(r, db, state, id, meeting) ==
    {x \in db.records : /\ id = "" \/ x.uuid = id
                        /\ meeting = "" \/ x.meeting = meeting
                        /\ state = "" \/ x.published = (state = "published")}

\* filter_recordings: "" leaves a filter out; an id that is none of a
\* recording's or a meeting's form selects nothing, nor does an unknown state.
FilterRecordings(r, db, state, id, meeting) ==
    IF state \notin {"", "published", "unpublished"} THEN {}
    ELSE {x \in db.records :
            /\ x.secret = SecretOf(r, db)
            /\ id = "" \/ x.uuid = id
            /\ meeting = "" \/ x.meeting = meeting
            /\ state = "" \/ x.published = (state = "published")}

\* get_recordings: what each id, or else each meeting, selects, one after the other.
GetRecordings(r, db) ==
    LET filled(found) == {x \in found : x.size > 0}
    IN  IF SecretOf(r, db) \notin db.recording THEN <<>>
        ELSE IF r.ids # <<>> THEN [i \in DOMAIN r.ids |-> filled(FilterRecordings(r, db, r.state, r.ids[i], ""))]
        ELSE IF r.meetings # <<>>
        THEN [i \in DOMAIN r.meetings |-> filled(FilterRecordings(r, db, r.state, "", r.meetings[i]))]
        ELSE <<filled(FilterRecordings(r, db, r.state, "", ""))>>

\* Record.get_recording_dict: what a client is told of a recording, with the
\* state and the address of its video.
Shown(x) ==
    [uuid |-> x.uuid, name |-> x.name, listed |-> x.listed, url |-> x.uuid,
     state |-> IF x.published THEN "published" ELSE "unpublished"]

\* get_recording_dicts makes these of all that it lists; without start and end
\* the length of the video cannot be computed, and the call fails.
GetRecordingsAnswer(r, db) ==
    IF \E i \in DOMAIN GetRecordings(r, db) : \E x \in GetRecordings(r, db)[i] : ~x.timed
    THEN B3lb("error") ELSE B3lb("done")

\* The view recording: the answer to a nonce.
RecordingAnswer(nonce, db) ==
    IF \A x \in db.records : x.uuid # nonce THEN "empty"
    ELSE IF \E x \in db.records : x.uuid = nonce /\ x.size > 0 THEN "video" ELSE "error"

\* The records that publish_, delete_ and update_recordings act on.
Named(r, db) == UNION {FilterRecordings(r, db, "", r.ids[i], "") : i \in DOMAIN r.ids}

\* What the call makes of one of them.
Edited(r, x) ==
    IF r.endpoint = "publishRecordings" THEN {[x EXCEPT !.published = (r.publish = "true")]}
    ELSE IF r.endpoint = "updateRecordings"
    THEN {[x EXCEPT !.name = IF r.name = "" THEN @ ELSE r.name,
                    !.listed = IF r.listed \in {"true", "false"} THEN r.listed = "true" ELSE @]}
    ELSE {}

OfRecordingsAnswer(r) ==
    IF r.ids = <<>> THEN B3lb("missingParamRecordID")
    ELSE IF r.endpoint = "publishRecordings" /\ r.publish \notin {"true", "false", "TRUE"}
    THEN B3lb("missingParamPublish")
    ELSE B3lb("done")

\* What the call leaves behind.
RecordsAfter(r, db) ==
    IF r.endpoint \notin OfRecordings \/ OfRecordingsAnswer(r) # B3lb("done") THEN db.records
    ELSE (db.records \ Named(r, db)) \cup UNION {Edited(r, x) : x \in Named(r, db)}

-----------------------------------------------------------------------------
\* The list of metrics of a secret, and of None for all, is there after the
\* first task.
MetricsAnswer(r, db) ==
    IF ~r.main /\ ~(r.token /\ SecretOf(r, db) # None) THEN B3lb("401")
    ELSE IF SecretOf(r, db) \in db.metrics THEN B3lb("metrics") ELSE B3lb("error")

StatsAnswer(r, db) ==
    IF r.token /\ SecretOf(r, db) # None THEN B3lb("stats") ELSE B3lb("401")

IsMeetingRunning(r, db) ==
    IF NodeOf(r, db) = None THEN B3lb("running false") ELSE PassedThrough(r, db)

GetMeetings(r, db) ==
    IF SecretOf(r, db) \in db.lists THEN B3lb("list") ELSE B3lb("noMeetings")

\* What is always answered in the same way.
Hardcoded == {"", "getRecordingTextTracks"}

\* endpoint_delegation.
Delegated(r, db) ==
    CASE Endpoint(r) = "join" -> Join(r, db)
      [] Endpoint(r) \in PassThrough -> PassedThrough(r, db)
      [] Endpoint(r) = "isMeetingRunning" -> IsMeetingRunning(r, db)
      [] Endpoint(r) = "getMeetings" -> GetMeetings(r, db)
      [] Endpoint(r) = "getRecordings" -> GetRecordingsAnswer(r, db)
      [] Endpoint(r) \in OfRecordings -> OfRecordingsAnswer(r)
      [] Endpoint(r) = "b3lb_metrics" -> MetricsAnswer(r, db)
      [] Endpoint(r) = "b3lb_stats" -> StatsAnswer(r, db)
      [] Endpoint(r) \in Hardcoded \cup {"create"} -> B3lb("done")
      [] OTHER -> B3lb("403")

\* backend_endpoint, for calls of the nodes.
BackendAnswer(r) ==
    IF r.endpoint \notin Backends THEN B3lb("403")
    ELSE IF r.method \notin AllowedMethods(r) THEN B3lb("405")
    ELSE B3lb("done")

\* is_authorized.
Authorized(r, db) == SecretOf(r, db) # None /\ r.valid

\* bbb_entrypoint, stats and metrics.
Answer(r, db) ==
    IF r.view = "backend" THEN BackendAnswer(r)
    ELSE IF r.method \notin AllowedMethods(r) THEN B3lb("405")
    ELSE IF r.view = "bbb" /\ ~Authorized(r, db) THEN B3lb("401")
    ELSE Delegated(r, db)

-----------------------------------------------------------------------------
(* Assets.  An asset is [field, size]: field says whether the model's      *)
(* field is set, size is that of the stored file, -1 if there is none.     *)

\* The views slide, logo and custom_css; no asset is None.
AssetAnswer(asset) ==
    IF asset = None \/ ~asset.field \/ asset.size < 0 THEN "404" ELSE "200"

\* Mutant: the size of the slide is not looked at.
Base64OfAll(asset) == 4 * ((asset.size + 2) \div 3)

\* The bytes of a slide that is read into memory and encoded.
MaxSlideSize == (MaxBase64Slide * 3) \div 4

\* DBStorage.get_base64: the length of what is put into the body, or 0.
\* base64 makes four characters of three bytes.
Base64(asset) ==
    LET based64 == 4 * ((asset.size + 2) \div 3)
    IN  IF 0 < asset.size /\ asset.size <= MaxSlideSize /\ based64 <= MaxBase64Slide
        THEN based64 ELSE 0

\* check_parameters: how the tenant's slide goes along with create, if the
\* client sends nothing of its own.
SlideSent(method, asset) ==
    IF method # "GET" \/ asset = None \/ ~asset.field THEN "none"
    ELSE IF Base64(asset) > 0 THEN "embedded" ELSE "url"

-----------------------------------------------------------------------------
(* What they are to be.                                                    *)

\* A call about a meeting is answered by the node that this secret's meeting
\* is on, by no other, and whenever there is one without errors.
CallsReachTheirMeeting(r, db) ==
    LET about == r.endpoint \in PassThrough \cup {"join", "isMeetingRunning"}
        rows == {m \in db.meetings : m.id = r.meeting /\ m.secret = (IF r.path = None THEN r.host ELSE r.path)}
        taken == Answer(r, db).status \notin {"401", "405"}
    IN  r.view = "bbb" =>
            /\ Answer(r, db).by # None => \E m \in rows : m.node = Answer(r, db).by
            /\ (about /\ taken) => (Answer(r, db).by # None <=> \E m \in rows : m.node \in db.healthy)

\* getRecordings: the recordings of the secret that have a video, the state
\* asked for and one of the ids, or without ids one of the meetings, each as
\* often as the id is named; the address of one that is published and listed
\* leads to the video.  A recording without times among them spoils the whole
\* list (models.py:485), but none of another secret does.  What an empty id
\* among the ids means is left open.
RecordingsListed(r, db) ==
    LET list == GetRecordings(r, db)
        keys == IF r.ids # <<>> THEN r.ids ELSE r.meetings
        key(x) == IF r.ids # <<>> THEN x.uuid ELSE x.meeting
        times(x) == IF keys = <<>> THEN 1
                    ELSE Cardinality({i \in DOMAIN keys : keys[i] = key(x)})
        wanted(x) == /\ x.secret = (IF r.path = None THEN r.host ELSE r.path)
                     /\ x.secret \in db.recording /\ x.size > 0
                     /\ r.state \in {"", Shown(x).state}
    IN  /\ "" \notin ToSet(keys) =>
              /\ (GetRecordingsAnswer(r, db) = B3lb("error"))
                    = (\E x \in db.records : wanted(x) /\ times(x) > 0 /\ ~x.timed)
              /\ \A x \in db.records :
                    Cardinality({i \in DOMAIN list : x \in list[i]}) = IF wanted(x) THEN times(x) ELSE 0
        /\ \A x \in UNION ToSet(list) :
              x.published /\ x.listed => RecordingAnswer(Shown(x).url, db) = "video"

\* A call on recordings changes the named ones of the secret, all of them and
\* as asked, and no list has a deleted one; the others stay as they are.  This
\* leaves open what an empty id among the ids names and what "TRUE" does.
NamedAreEdited(r, db) ==
    LET ofSecret(x) == x.secret = (IF r.path = None THEN r.host ELSE r.path)
        named == {x \in db.records : ofSecret(x) /\ x.uuid \in ToSet(r.ids)}
        edited == IF r.endpoint = "publishRecordings" /\ r.publish = "" THEN {} ELSE named
        after(x) == {y \in RecordsAfter(r, db) : y.uuid = x.uuid}
        lists == GetRecordings([r EXCEPT !.ids = <<>>, !.meetings = <<>>, !.state = ""],
                               [db EXCEPT !.records = RecordsAfter(r, db)])
    IN  ("" \notin ToSet(r.ids) /\ r.endpoint \in OfRecordings) =>
          /\ \A x \in db.records \ edited : after(x) = {x}
          /\ \A x \in edited :
                /\ r.endpoint = "deleteRecordings" => after(x) \cap UNION ToSet(lists) = {}
                /\ (r.endpoint = "publishRecordings" /\ r.publish \in {"true", "false"}) =>
                       after(x) = {[x EXCEPT !.published = (r.publish = "true")]}
                /\ r.endpoint = "updateRecordings" =>
                       after(x) = {[x EXCEPT !.name = IF r.name = "" THEN x.name ELSE r.name,
                                             !.listed = r.listed = "true" \/ (x.listed /\ r.listed # "false")]}

\* "publish = params['publish'].lower() == 'true'" (docs/03-api-endpoints.md:396):
\* "TRUE" publishes what is named.
AnyTruePublishes(r, db) ==
    (r.endpoint = "publishRecordings" /\ r.publish = "TRUE") =>
        \A x \in RecordsAfter(r, db) : x \in Named(r, [db EXCEPT !.records = RecordsAfter(r, db)]) => x.published

\* "Check published and listed flags" (docs/03-api-endpoints.md:715): a video
\* without them is not delivered.
OnlyPublishedAreDelivered(db) ==
    \A x \in db.records : RecordingAnswer(x.uuid, db) = "video" => x.published /\ x.listed

\* A slide that is stored reaches the node, in a body BigBlueButton takes or
\* at an address that answers; the limits on its bytes and on its characters
\* are the same limit.
SlideIsDelivered(method, asset) ==
    (method = "GET" /\ asset # None /\ asset.field /\ asset.size >= 0) =>
        /\ SlideSent(method, asset) = "embedded" => Base64(asset) \in 1 .. MaxBase64Slide
        /\ SlideSent(method, asset) = "embedded" <=> asset.size \in 1 .. MaxSlideSize
        /\ SlideSent(method, asset) # "embedded" =>
              SlideSent(method, asset) = "url" /\ AssetAnswer(asset) = "200"

\* "recordID: Record ID (comma-separated)", "record_id__in=record_ids"
\* (docs/03-api-endpoints.md:427-443): no recording is deleted or published
\* that recordID does not name.
OnlyNamedAreEdited(r, db) ==
    \A x \in db.records : x \notin RecordsAfter(r, db) => x.uuid \in ToSet(r.ids)

=============================================================================
