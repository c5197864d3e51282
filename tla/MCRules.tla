------------------------------ MODULE MCRules -------------------------------
(***************************************************************************)
(* The parts of B3LB that compute an answer from what they are given, on   *)
(* every input of small domains: an action chooses the input of one of     *)
(* them, and the invariants compare its result with what it is to be.  The *)
(* counters of Metrics move where no input is chosen.                      *)
(***************************************************************************)
EXTENDS Choice, Metrics, Policy, Requests, Statistics, Video

CONSTANT NoInput

\* None is none of the secrets and nodes of the inputs, and their CPU loads
\* are at most that of a CPU under full load.
ASSUME InputsOK == None \notin {"s1", "s2", "n1", "n2"} /\ 10 <= CpuBase

VARIABLE input

vars == <<metricVars, input>>

Init == MetricsInit /\ input = NoInput

\* Rows of counters that calls have not touched yet, so that an input is
\* chosen once.
Choose(inputs) ==
    /\ input = NoInput
    /\ \A c \in Callers : caller[c] = [pc |-> "update", key |-> "created", by |-> 1, read |-> 0]
    /\ input' \in inputs
    /\ UNCHANGED metricVars

-----------------------------------------------------------------------------
NodeRows == [attendees : {0, 2}, meetings : 0 .. 1, cpu : {0, 3, 10}, err : BOOLEAN, maint : BOOLEAN]
ClusterRows == [a : {1}, m : {30}, iterations : {0, 1, 3}, max : {50}]

\* Counters that grow by 1 or 2 from one sample to the next.
Samples ==
    UNION {{[i \in 1 .. n |-> [idle |-> SumFunctionOnSet([j \in 1 .. n |-> f[j][1]], 1 .. i),
                               total |-> SumFunctionOnSet([j \in 1 .. n |-> f[j][2]], 1 .. i)]] :
              f \in [1 .. n -> {<<0, 1>>, <<1, 1>>, <<0, 2>>, <<1, 2>>, <<2, 2>>}]} : n \in 1 .. 5}

ChooseSamples == Choose([alg : {"agent"}, samples : Samples])

ChooseLoad == Choose([alg : {"load"}, n : NodeRows, o : NodeRows, c : ClusterRows])

\* Nodes of two clusters, with loads from maintenance to above the cap.
Loads(nodes) == UNION {[d -> -2 .. LoadCap + 1] : d \in SUBSET nodes}

ChooseClusters == Choose([alg : {"clusters"}, loads : Loads({"n1", "n2"}), more : Loads({"n3", "n4"})])

\* A group with one cluster, two, or one of them twice.
ChooseGroup ==
    Choose([alg : {"group"}, relations : {<<>>, <<"k1">>, <<"k2", "k1">>, <<"k1", "k2", "k1">>}, c : ClusterRows,
            nodes : SUBSET [cluster : {"k1", "k2"}, attendees : {2}, meetings : {1}, cpu : {3},
                            err : BOOLEAN, maint : BOOLEAN]])

Functions(names, values) == UNION {[d -> values] : d \in SUBSET names}
Rules(names) ==
    UNION {[d -> {[mode |-> m, value |-> "tenant"] : m \in {"BLOCK", "SET", "OVERRIDE"}}] :
              d \in SUBSET names}

ChooseCall ==
    \/ Choose([alg : {"call"},
               call : [endpoint : {"create"}, created : BOOLEAN,
                       params : Functions({"record", "logo", "welcome", "dialNumber", "readyUrl"}, {"client"})],
               t : [rules : Rules(InCreate), css : {FALSE}, logo : BOOLEAN, record : BOOLEAN]])
    \/ Choose([alg : {"call"},
               call : [endpoint : {"join"}, created : {FALSE},
                       params : Functions({"style", "record"}, {"client"})],
               t : [rules : Rules(InJoin), css : BOOLEAN, logo : {TRUE}, record : {FALSE}]])

Limited == [meetings : 0 .. 2, attendees : 0 .. 2, meetingLimit : 0 .. 2, attendeeLimit : 0 .. 2]

ChooseLimits ==
    Choose({i \in [alg : {"limits"}, t : Limited, s : Limited, own : BOOLEAN] :
              i.s.meetings <= i.t.meetings /\ i.s.attendees <= i.t.attendees})

ChooseHoldTime == Choose([alg : {"hold"}, age : 0 .. 4, s : 0 .. 3, t : 0 .. 3])

ChooseSecrets ==
    Choose([alg : {"secrets"}, secrets : Functions(0 .. 3, {"used"}), n : 0 .. 5, m : 0 .. 5])

-----------------------------------------------------------------------------
Calls ==
    [view : {"bbb", "stats", "metrics"}, method : {"GET", "POST", "PUT"},
     endpoint : {"end", "getMeetingInfo", "join", "isMeetingRunning", "getMeetings", "create", "getLive",
                 "b3lb_stats"},
     path : {None, "s1", "s9"}, host : {None, "s2"}, valid : BOOLEAN, token : {TRUE}, main : {FALSE},
     meeting : {"", "m1"}, state : {""}, ids : {<<>>}, meetings : {<<>>}, publish : {""},
     name : {""}, listed : {""}]

MeetingTables ==
    {{m \in [id : {"m1"}, secret : {"s1", "s2"}, node : {"n1", "n2"}] : on[m.secret] = m.node} :
        on \in [{"s1", "s2"} -> {"n1", "n2", None}]}

ChooseRequest ==
    Choose([alg : {"request"}, r : Calls,
            db : [secrets : {{"s1", "s2"}}, recording : {{}}, lists : {{"s1"}}, metrics : {{None}},
                  meetings : MeetingTables, healthy : {{"n1"}, {"n1", "n2"}}, records : {{}}]])

OnRecordings ==
    [view : {"bbb"}, method : {"GET"}, path : {"s1"}, host : {None}, valid : {TRUE}, token : {FALSE},
     main : {FALSE}, meeting : {""}, publish : {"true", "false", "TRUE", ""}, name : {"", "new"},
     listed : {"", "true", "false"},
     endpoint : {"getRecordings", "publishRecordings", "deleteRecordings", "updateRecordings"},
     state : {"", "published", "unpublished", "any"},
     ids : {<<>>, <<"u1">>, <<"u1", "">>, <<"u1", "u3">>, <<"u2", "u1">>, <<"u1", "x", "u1">>},
     meetings : {<<>>, <<"m1">>, <<"m2", "m1">>}]

\* Each call with the parameters that it reads.
ListOrEditCalls ==
    {r \in OnRecordings :
        /\ r.endpoint # "getRecordings" => r.state = "" /\ r.meetings = <<>>
        /\ r.endpoint # "publishRecordings" => r.publish = ""
        /\ r.endpoint # "updateRecordings" => r.name = "" /\ r.listed = ""}

RecordRow(u, p, size, timed) ==
    [uuid |-> u, secret |-> IF u = "u3" THEN "s2" ELSE "s1", meeting |-> IF u = "u2" THEN "m2" ELSE "m1",
     published |-> p[u], size |-> IF u = "u1" THEN size ELSE 1, name |-> "old", listed |-> p["u3"],
     timed |-> u \in timed]

RecordTables ==
    {{RecordRow(u, p, size, timed) : u \in {"u1", "u2", "u3"}} :
        p \in [{"u1", "u2", "u3"} -> BOOLEAN], size \in 0 .. 1,
        timed \in {{"u1", "u2", "u3"}, {"u1", "u2"}, {"u2", "u3"}}}

ChooseRecordings ==
    Choose([alg : {"recordings"}, r : ListOrEditCalls,
            db : [secrets : {{"s1", "s2"}}, recording : {{"s1"}, {"s2"}}, lists : {{}}, metrics : {{}},
                  meetings : {{}}, healthy : {{}}, records : RecordTables]])

\* One input of each part that is described differently: a node, limits, and a
\* call on recordings.
ChooseDescribed ==
    Choose([alg : {"described"},
            n : [attendees : {2}, meetings : {1}, cpu : {3, CpuBase}, err : {FALSE}, maint : {FALSE}], c : ClusterRows,
            t : [meetings : {1}, attendees : {1}, meetingLimit : {1, 2}, attendeeLimit : {0, 2}],
            s : [meetings : {1}, attendees : {1}, meetingLimit : {0, 2}, attendeeLimit : {1, 2}], own : {TRUE},
            r : {r \in ListOrEditCalls : r.endpoint = "publishRecordings" /\ r.ids = <<"u1">>},
            db : [secrets : {{"s1", "s2"}}, recording : {{"s1"}}, lists : {{}}, metrics : {{}},
                  meetings : {{}}, healthy : {{}}, records : RecordTables]])

ChooseSlide ==
    Choose([alg : {"slide"}, method : {"GET", "POST"},
            asset : {None} \cup [field : BOOLEAN,
                                 size : {-1, 0, 1, 2, 3, MaxSlideSize - 1, MaxSlideSize, MaxSlideSize + 1}]])

-----------------------------------------------------------------------------
\* Attendees that tell the meetings in a sum apart.
Weight(id, s) == (IF id = "m1" THEN 1 ELSE 2) * (IF s.sub = 0 THEN 1 ELSE 4)

Tenants1 == {[tenant |-> "t1", sub |-> 0], [tenant |-> "t1", sub |-> 1]}

MeetingSets ==
    LET kinds == {None} \cup [origin : {"gl", "moodle", Unknown}, healthy : BOOLEAN]
    IN  {{[id |-> k[1], secret |-> k[2], origin |-> f[k].origin, server |-> "host", healthy |-> f[k].healthy,
           attendees |-> Weight(k[1], k[2]), voice |-> 1] : k \in {l \in DOMAIN f : f[l] # None}} :
            f \in [{"m1", "m2"} \X Tenants1 -> kinds]}

StatsRow(o) == [origin |-> o, server |-> "host",
                figures |-> [meetings |-> 9, attendees |-> 9, voice |-> 0]]

StatsRows ==
    {<<>>, <<StatsRow("gl")>>, <<StatsRow("gl"), StatsRow("moodle")>>, <<StatsRow("moodle"), StatsRow("gl")>>}

ChooseStatistics == Choose([alg : {"statistics"}, rows : StatsRows, meetings : MeetingSets])

AllSecrets == Tenants1 \cup {[tenant |-> "t2", sub |-> 0], [tenant |-> "t2", sub |-> 7]}

MetricTable(names, xs) ==
    {[name |-> name, secret |-> x, node |-> n, value |-> Weight("m2", x) + (IF n = "n1" THEN 8 ELSE 0)] :
        name \in names, x \in xs, n \in {"n1", "n2"}}

MetricTables == {MetricTable(names, xs) : names \in SUBSET GaugeNames, xs \in SUBSET AllSecrets}

ChooseLists ==
    Choose({[alg |-> "lists", total |-> total, s |-> s, metrics |-> {m \in metrics : m.node \in nodes}] :
              total \in BOOLEAN, s \in AllSecrets, nodes \in SUBSET {"n1", "n2"}, metrics \in MetricTables})

\* Four secrets of three tenants, with up to one meeting each.
MeetingsOn(on) ==
    {[id |-> "m1", secret |-> s, origin |-> "gl", server |-> "host", healthy |-> FALSE,
      attendees |-> on[s], voice |-> 0] : s \in {x \in DOMAIN on : on[x] >= 0}}

ChooseOverviews ==
    Choose({[alg |-> "overviews", meetings |-> MeetingsOn(on)] :
              on \in [Tenants1 \cup {[tenant |-> t, sub |-> 0] : t \in {"t2", "t3"}} -> {-1, 0, 1, 2}]})

\* Three secrets with a meeting each, or none, in the table or not.
Three == AllSecrets \ {[tenant |-> "t2", sub |-> 7]}

Placed == [Three -> {None} \cup ({"m1", "m2"} \X {"n1", "n2"})]

RowsOf(p) == {[id |-> p[x][1], secret |-> x, node |-> p[x][2]] : x \in {y \in Three : p[y] # None}}

ChooseGauges ==
    Choose({[alg |-> "gauges", rows |-> RowsOf(p), reports |-> reports,
             metrics |-> {[name |-> name, secret |-> x, node |-> n, value |-> Weight("m1", x)] :
                            name \in {"attendees", "meetings"}, x \in xs, n \in {"n1", "n2"}}] :
              p \in Placed, xs \in {{}, Tenants1, Three},
              reports \in UNION {[d -> UNION {[ids -> {1, 2}] : ids \in SUBSET {"m1", "m2"}}] :
                                    d \in SUBSET {"n1", "n2"}}})

MeetingLists(p, in) ==
    [alg |-> "meeting lists", rows |-> {r \in RowsOf(p) : r.secret \in in},
     answers |-> [n \in {"n1", "n2"} |->
         {[id |-> p[x][1], of |-> x] : x \in {y \in Three : p[y] # None /\ p[y][2] = n}}]]

ChooseMeetingLists == Choose({MeetingLists(p, in) : p \in Placed, in \in SUBSET Three})

-----------------------------------------------------------------------------
ChooseBoxes ==
    Choose([alg : {"boxes"},
            opts : [width : {16, 19, 64}, height : {9, 12, 36}, webcam_size : {0, 20, 33, 100}, stretch : BOOLEAN],
            w : {1, 3, 4, 16}, h : {1, 3, 9, 20}])

Slides(cuts) ==
    {[i \in 1 .. 2 |-> [from |-> IF i = 1 THEN 0 ELSE c[1], to |-> IF i = 1 THEN c[1] ELSE c[2], desk |-> c[3] = i]] :
        c \in cuts}

Shape == [id : {"a", "b"}, from : 0 .. 3, undo : {-1, 2, 4}]

Recording(end, slides, cursor, shapes, desk, deskEnd) ==
    [end |-> end, slides |-> slides, cursor |-> cursor, shapes |-> shapes, desk |-> desk, deskEnd |-> deskEnd]

Cursors ==
    {<<>>} \cup {<<[at |-> c[1], shown |-> c[2]], [at |-> c[1] + c[3], shown |-> c[4]]>> :
                   c \in (0 .. 3) \X BOOLEAN \X (0 .. 2) \X BOOLEAN}

Desks == {<<>>} \cup [1 .. 2 -> {[from |-> t[1], to |-> t[1] + t[2]] : t \in (0 .. 3) \X (0 .. 2)}]

WithCursors ==
    {Recording(end, slides, cursor, <<<<>>, <<>>>>, <<>>, 0) :
        end \in 2 .. 4, slides \in Slides((0 .. 3) \X (2 .. 4) \X (0 .. 2)), cursor \in Cursors}

WithShapes ==
    {Recording(end, slides, <<>>, <<s, t>>, <<>>, 0) :
        end \in 3 .. 4, slides \in Slides({2} \X {4} \X {0}),
        s \in {<<>>} \cup (Shape \X Shape), t \in {<<>>} \cup [1 .. 1 -> Shape]}

WithDesks ==
    {Recording(end, slides, <<>>, <<<<>>, <<>>>>, desk, deskEnd) :
        end \in 2 .. 4, slides \in Slides({<<1, 4, 1>>}), desk \in Desks, deskEnd \in 0 .. 4}

ChooseRecording == 
    Choose([alg : {"recording"}, annotations : BOOLEAN, rec : WithCursors \cup WithShapes \cup WithDesks])

-----------------------------------------------------------------------------
Next ==
    \/ input = NoInput /\ MetricsNext /\ UNCHANGED input
    \/ ChooseSamples \/ ChooseLoad \/ ChooseClusters \/ ChooseGroup
    \/ ChooseCall \/ ChooseLimits \/ ChooseHoldTime \/ ChooseSecrets
    \/ ChooseRequest \/ ChooseRecordings \/ ChooseDescribed \/ ChooseSlide
    \/ ChooseStatistics \/ ChooseOverviews \/ ChooseLists \/ ChooseGauges \/ ChooseMeetingLists
    \/ ChooseBoxes \/ ChooseRecording

Spec == Init /\ [][Next]_vars

-----------------------------------------------------------------------------
(* Safety.  Each one is stated with the definition it names, in the module *)
(* of the algorithm.                                                       *)

\* The load of a node grows with its work and stays within its bounds, the
\* choice is among the nodes of least load in all clusters, and a node is
\* counted as available if and only if a create may pick it (models.py:115-139,
\* api.py:553-564, dashboard.py:15), in every cluster group (admin.py:137-167).
LoadOrdered ==
    /\ input # NoInput /\ input.alg = "load" =>
           LoadIsOrdered(input.n, input.o, input.c) /\ AvailableIsPickable({input.n, input.o}, input.c)
    /\ input # NoInput /\ input.alg = "clusters" => ChoiceIsLowest(input.loads, input.more)
    /\ input # NoInput /\ input.alg = "group" => GroupsShowTheirNodes(input.relations, input.nodes, input.c)

\* B3LB, then the tenant, then the client decides a parameter (api.py:384-434).
TenantDecides == input # NoInput /\ input.alg = "call" => ParametersDecided(input.call, input.t)

\* What is set binds: the secret's limits, and its tenant's where it has none
\* (api.py:446-473), and of both hold times the first that is over
\* (models.py:231-236).
SettingsBind ==
    /\ input # NoInput /\ input.alg = "limits" => LimitsBind(input.t, input.s, input.own)
    /\ input # NoInput /\ input.alg = "hold" => HoldTimesHold(input.age, input.s, input.t)

\* addsecrets completes a range and changes no secret (addsecrets.py:32-69).
AddingKeepsSecrets == input # NoInput /\ input.alg = "secrets" => SecretsAreKept(input.secrets, input.n, input.m)

\* A call about a meeting reaches the node of this very meeting (api.py:267-294, 543-551).
MeetingIsReached == input # NoInput /\ input.alg = "request" => CallsReachTheirMeeting(input.r, input.db)

\* getRecordings lists what was asked for, and the other calls on recordings
\* change what they name, as asked (api.py:164-257, 338-362).
RecordingsAsAsked ==
    input # NoInput /\ input.alg = "recordings" =>
        /\ input.r.endpoint = "getRecordings" => RecordingsListed(input.r, input.db)
        /\ NamedAreEdited(input.r, input.db)

\* A tenant's slide gets to the node (api.py:414-422, storage.py:50-60).
SlideArrives == input # NoInput /\ input.alg = "slide" => SlideIsDelivered(input.method, input.asset)

\* A tenant's figures are sums: its statistics those over the running meetings
\* of each origin (statistics.py:99-160), its metrics those of its secrets
\* (statistics.py:25-97), its gauges those of the last check of each node, and
\* none stays behind when a secret has no meeting left (core.py:111-165).  The
\* dashboard and a command show the same sums, over all meetings, those on
\* failing nodes too (dashboard.py:19-103, meetingstats.py).
FiguresAddUp ==
    /\ input # NoInput /\ input.alg = "statistics" => OriginsAreSummed(input.rows, input.meetings)
    /\ input # NoInput /\ input.alg = "overviews" => OverviewsAgree({"t1", "t2", "t3"}, input.meetings)
    /\ input # NoInput /\ input.alg = "lists" =>
           TenantsAreSummed(AllSecrets, input.metrics, input.total, input.s)
    /\ input # NoInput /\ input.alg = "gauges" =>
           GaugesFollowTheNodes(input.metrics, Three, input.rows, input.reports)

\* getMeetings lists a secret's meetings, and for the tenant's own secret the
\* tenant's (core.py:172-226).
MeetingsAreListed ==
    input # NoInput /\ input.alg = "meeting lists" => ListsHaveTheirMeetings(Three, input.rows, input.answers)

\* The agent on a node measures what the CPU did last (b3lb-load:27-53).
AgentMeasures == input # NoInput /\ input.alg = "agent" => LoadIsMeasured(input.samples)

\* Webcams and slides share the frame, and the layers of the video show the
\* recording (make_xges.py:66-151, 190-341).
VideoShowsRecording ==
    /\ input # NoInput /\ input.alg = "boxes" => BoxesFit(input.opts, input.w, input.h)
    /\ input # NoInput /\ input.alg = "recording" => ShowsTheRecording(input.rec, input.annotations)

\* "recordID: Record ID (comma-separated)", "record_id__in=record_ids"
\* (docs/03-api-endpoints.md:383-395, 427-443): no recording is deleted,
\* published or unpublished that recordID does not name.
OnlyNamedAreTouched ==
    input # NoInput /\ input.alg = "recordings" => OnlyNamedAreEdited(input.r, input.db)

\* At least one of four sentences holds of any inputs: a CPU under full load
\* counts for load_cpu_max (models.py:129), a secret's limits replace its
\* tenant's (docs/02-database-schema.md:390-391), publish is read whatever its
\* case (docs/03-api-endpoints.md:396), only what is published and listed is
\* delivered (docs/03-api-endpoints.md:715).  AsDescribed follows from each one,
\* so that an input without it is a counterexample to all four.
AsDescribed ==
    input # NoInput /\ input.alg = "described" =>
        \/ FullCpuCounts(input.n, input.c)
        \/ OwnLimitsOverride(input.t, input.s, input.own)
        \/ AnyTruePublishes(input.r, input.db)
        \/ OnlyPublishedAreDelivered(input.db)

=============================================================================
