------------------------------- MODULE Policy -------------------------------
(***************************************************************************)
(* What the settings of clusters, tenants and secrets make of a request:   *)
(* the load of a node (rest/models.py) from the CPU load its agent has     *)
(* measured (scripts/bbb/load/b3lb-load), the parameters of create and join*)
(* that reach the node and the limits (rest/classes/api.py), how long      *)
(* recordings are kept (rest/models.py), which secrets a tenant is given   *)
(* (rest/management/commands/addsecrets.py).                               *)
(***************************************************************************)
EXTENDS Integers, FiniteSets, Sequences, SequencesExt

CONSTANTS
    CpuBase,      \* a CPU under full load, 10000 in the code
    LongTerm,     \* LONG_TERM_ITERATIONS, 6 in the code
    MaxSubId,     \* 999 in the code
    InCreate,     \* PARAMETERS_CREATE
    InJoin        \* PARAMETERS_JOIN

ASSUME MaxSubIdAssumption == MaxSubId \in Nat

ASSUME CpuAssumption == CpuBase \in Nat \ {0} /\ LongTerm \in Nat \ {0}

-----------------------------------------------------------------------------
(* The load agent.  A sample is [idle, total], the counters of /proc/stat. *)

NoSamples ==
    [last |-> [idle |-> 0, total |-> 0], idle |-> [i \in 1 .. LongTerm |-> 0],
     total |-> [i \in 1 .. LongTerm |-> 1], index |-> 1, load |-> 0]

\* Mutant: the last place of the lists is never used.
NextIndexOff(i) == (i % (LongTerm - 1)) + 1

NextIndex(i) == (i % LongTerm) + 1

\* int(10000 * (1.0 - idle / total)).
Utilisation(idle, total) == (CpuBase * (total - idle)) \div total

\* One turn of the endless loop.
Sampled(a, sample) ==
    LET idle == [a.idle EXCEPT ![a.index] = sample.idle - a.last.idle]
        total == [a.total EXCEPT ![a.index] = sample.total - a.last.total]
        short == Utilisation(idle[a.index], total[a.index])
        long == Utilisation(SumFunction(idle), SumFunction(total))
    IN  [last |-> sample, idle |-> idle, total |-> total, index |-> NextIndex(a.index), load |-> Max({long, short})]

\* The load after the samples.
AgentLoad(samples) ==
    LET after[k \in 0 .. Len(samples)] ==
            IF k = 0 THEN NoSamples ELSE Sampled(after[k - 1], samples[k])
    IN  after[Len(samples)].load

\* What a node reports lies between idle and full, is never less than the use
\* of the last interval nor, once as many have passed as are kept, than the
\* use of all of these, and has forgotten what was before them.
LoadIsMeasured(samples) ==
    LET n == Len(samples)
        since(i) == Utilisation(samples[n].idle - samples[i].idle, samples[n].total - samples[i].total)
    IN  /\ AgentLoad(samples) \in 0 .. CpuBase
        /\ n > 1 => since(n - 1) <= AgentLoad(samples)
        /\ n > LongTerm => AgentLoad(samples) = Max({since(n - 1), since(n - LongTerm)})

-----------------------------------------------------------------------------
(* Node.load.  A node is [attendees, meetings, cpu, err, maint], a cluster *)
(* [a, m, iterations, max].  Float factors are whole numbers here.         *)

Power[k \in Nat] == IF k = 0 THEN 1 ELSE CpuBase * Power[k - 1]

\* Mutant: range(0, iterations).
CpuTermsFromZero(cpu, k) ==
    LET terms[i \in Nat] == IF i = 0 THEN 1 ELSE terms[i - 1] * cpu + Power[i] IN terms[k]

\* CpuBase ^ k times the sum of (cpu / CpuBase) ^ i for i from 1 to k.
CpuTerms(cpu, k) ==
    LET terms[i \in Nat] == IF i = 0 THEN 0 ELSE (terms[i - 1] + Power[i - 1]) * cpu IN terms[k]

Work(n, c) == n.attendees * c.a + n.meetings * c.m

Load(n, c) ==
    LET k == c.iterations - 1
        den == c.iterations * Power[k]
    IN  IF n.maint THEN -2 ELSE IF n.err THEN -1
        ELSE IF c.iterations = 0 THEN Work(n, c)
        ELSE (Work(n, c) * den + CpuTerms(n.cpu, k) * c.max) \div den

\* The nodes the counts of the dashboard and of the administration call
\* available or active, and those a create may pick.
Available(nodes) == {n \in nodes : ~n.err /\ ~n.maint}
Pickable(nodes, c) == {n \in nodes : 0 <= Load(n, c)}

\* The status of a node on the dashboard, and the dashboard's counts.
NodeStatus(n) == IF n.maint THEN "Maintenance" ELSE IF n.err THEN "Error" ELSE "Online"

NodeCounts(nodes) ==
    [active |-> Cardinality(Available(nodes)),
     maintenance |-> Cardinality({n \in nodes : n.maint}),
     errors |-> Cardinality({n \in nodes : n.err})]

\* A line of the administration's list of clusters ...
ClusterLine(nodes) ==
    LET counts == NodeCounts(nodes)
    IN  [nodes |-> Cardinality(nodes), active |-> counts.active,
         maintenance |-> counts.maintenance, errors |-> counts.errors]

OfCluster(nodes, k) == {n \in nodes : n.cluster = k}

\* ... and of its list of cluster groups: sums over the group's relations.
GroupLine(relations, nodes) ==
    [count \in {"nodes", "active", "maintenance", "errors"} |->
        SumFunction([i \in DOMAIN relations |-> ClusterLine(OfCluster(nodes, relations[i]))[count]])]

\* A bar of the dashboard's chart.
ClusterLoad(nodes, c) == SumFunction([n \in nodes |-> Load(n, c)])

\* The command getloadvalues.
LoadValues(nodes, c) == [n \in nodes |-> <<Load(n, c), n.cpu>>]

\* More attendees, meetings or CPU never make a node look idler, and the share
\* of the CPU is between 0, that of an idle node, and load_cpu_max
\* (models.py:128-136).
LoadIsOrdered(n, o, c) ==
    LET up == [n EXCEPT !.err = FALSE, !.maint = FALSE]
        share == Load(up, c) - Work(up, c)
    IN  /\ (o.attendees <= n.attendees /\ o.meetings <= n.meetings /\ o.cpu <= n.cpu /\ ~o.err /\ ~o.maint)
              => Load(o, c) <= Load(up, c)
        /\ share \in 0 .. c.max
        /\ n.cpu = 0 => share = 0

\* "load is sum of each Taylor polynomial from 1 to load_cpu_iterations"
\* (models.py:129): a CPU under full load counts for load_cpu_max.
FullCpuCounts(n, c) ==
    (n.cpu = CpuBase /\ ~n.err /\ ~n.maint /\ c.iterations > 0) => Load(n, c) = Work(n, c) + c.max

\* What an operator sees as available is what a create may pick, and the chart
\* shows its load, one less for each node in error and two in maintenance.
AvailableIsPickable(nodes, c) ==
    /\ Available(nodes) = Pickable(nodes, c)
    /\ Pickable(nodes, c) = {n \in nodes : NodeStatus(n) = "Online"}
    /\ NodeCounts(nodes).active = Cardinality({n \in nodes : LoadValues(nodes, c)[n][1] >= 0})
    /\ ClusterLoad(nodes, c) = ClusterLoad(Pickable(nodes, c), c) - 2 * NodeCounts(nodes).maintenance
                                - Cardinality({n \in nodes : NodeStatus(n) = "Error"})

\* A tenant's cluster group has as many nodes available as a create of the
\* tenant may choose from; a cluster that is related twice counts twice.
GroupsShowTheirNodes(relations, nodes, c) ==
    LET line == GroupLine(relations, nodes)
        choice == UNION {Pickable(OfCluster(nodes, k), c) : k \in ToSet(relations)}
    IN  /\ line.active >= Cardinality(choice)
        /\ line.active = 0 <=> choice = {}
        /\ Cardinality(ToSet(relations)) = Len(relations) => line.active = Cardinality(choice)
        /\ line.nodes <= line.active + line.maintenance + line.errors

-----------------------------------------------------------------------------
(* check_parameters.  A call is [endpoint, params, created], a tenant      *)
(* [rules, css, logo, record]: its Parameter rows, which assets it has,    *)
(* whether the secret may record.  "record" stands for the three           *)
(* parameters of recordings, "dialNumber" for voiceBridge too.             *)

Ruled(call, rules) ==
    DOMAIN rules \cap (IF call.endpoint = "join" THEN InJoin ELSE InCreate)

\* The loop over the tenant's rows, at most one per parameter.
RulesApplied(call, rules) ==
    LET ruled == Ruled(call, rules)
        blocked == {p \in ruled : rules[p].mode = "BLOCK"}
        forced == {p \in ruled : rules[p].mode = "OVERRIDE"}
                  \cup {p \in ruled \ DOMAIN call.params : rules[p].mode = "SET"}
    IN  [p \in (DOMAIN call.params \ blocked) \cup forced |->
            IF p \in forced THEN rules[p].value ELSE call.params[p]]

\* f with a value for the name p, whatever it had.
With(p, v, f) == [q \in DOMAIN f \cup {p} |-> IF q = p THEN v ELSE f[q]]

\* Mutant: the tenant's asset replaces what is there.
DefaultAlways(p, v, f) == With(p, v, f)

\* f with a value for the name p if it has none.
Default(p, v, f) == IF p \in DOMAIN f THEN f ELSE With(p, v, f)

Without(p, f) == [q \in DOMAIN f \ {p} |-> f[q]]

Recorded(call, t, params) ==
    IF ~t.record THEN With("record", "false", params)
    ELSE IF call.created THEN With("meta_tag", "b3lb", Without("readyUrl", params))
    ELSE params

CheckParameters(call, t) ==
    LET ruled == RulesApplied(call, t.rules)
        undialled == Without("dialNumber", ruled)
        branded == IF t.logo THEN Default("logo", "asset", undialled) ELSE undialled
    IN  IF call.endpoint = "create" THEN With("endCallback", "b3lb", Recorded(call, t, branded))
        ELSE IF t.css THEN Default("style", "asset", ruled)
        ELSE ruled

\* Who decides a parameter of the request that reaches the node: B3LB what it
\* needs itself, then the tenant's rule, then the client, then the asset.
ParametersDecided(call, t) ==
    LET final == CheckParameters(call, t)
        create == call.endpoint = "create"
        own == IF ~create THEN {}
               ELSE {"endCallback", "dialNumber"} \cup (IF ~t.record THEN {"record"} ELSE {})
                    \cup (IF t.record /\ call.created THEN {"meta_tag", "readyUrl"} ELSE {})
        ruled == Ruled(call, t.rules) \ own
        mode(p) == IF p \in ruled THEN t.rules[p].mode ELSE "none"
        asset == IF create THEN (IF t.logo THEN {"logo"} ELSE {}) ELSE IF t.css THEN {"style"} ELSE {}
        asked == DOMAIN call.params \ own
    IN  /\ {p \in DOMAIN final : final[p] = "tenant"}
              = {p \in ruled : mode(p) = "OVERRIDE" \/ (mode(p) = "SET" /\ p \notin asked)}
        /\ {p \in DOMAIN final : final[p] = "client"} = {p \in asked : mode(p) \in {"none", "SET"}}
        /\ \A p \in asset : p \in DOMAIN final
        /\ create => /\ final["endCallback"] = "b3lb"
                     /\ ~t.record => final["record"] = "false"

-----------------------------------------------------------------------------
(* is_in_limit.  A tenant or secret is [meetings, attendees, meetingLimit, *)
(* attendeeLimit], own says that the tenant has a secret with sub id 0.    *)
(* The answer is the counter that gets the hit; the lookup of the tenant's *)
(* own secret fails without one.                                           *)

Hit(count, limit) == limit > 0 /\ ~(count < limit)

LimitHit(t, s, own) ==
    LET tenants == IF own THEN "tenant" ELSE "error"
    IN  IF Hit(t.meetings, t.meetingLimit) THEN tenants
        ELSE IF Hit(s.meetings, s.meetingLimit) THEN "secret"
        ELSE IF Hit(t.attendees, t.attendeeLimit) THEN tenants
        ELSE IF Hit(s.attendees, s.attendeeLimit) THEN "secret"
        ELSE "none"

\* With one more meeting no limit on meetings is exceeded, and none on
\* attendees is reached already; 0 is no limit.
MeetingRoom(x) == x.meetingLimit = 0 \/ x.meetings + 1 <= x.meetingLimit
AttendeeRoom(x) == x.attendeeLimit = 0 \/ x.attendees + 1 <= x.attendeeLimit
Room(x) == MeetingRoom(x) /\ AttendeeRoom(x)

\* A meeting is created only if the secret's own limits leave room for it, and
\* where it has none, those of its tenant; and always if all limits do.
LimitsBind(t, s, own) ==
    /\ LimitHit(t, s, own) = "none" =>
           /\ Room(s)
           /\ s.meetingLimit = 0 => MeetingRoom(t)
           /\ s.attendeeLimit = 0 => AttendeeRoom(t)
    /\ Room(t) /\ Room(s) => LimitHit(t, s, own) = "none"

\* "Override tenant limit", "Uses secret override or falls back to tenant
\* limits" (docs/02-database-schema.md:390-391, 408-410): a secret with limits
\* of its own is not held by its tenant's.
OwnLimitsOverride(t, s, own) ==
    (s.meetingLimit > 0 /\ s.attendeeLimit > 0 /\ Room(s)) => LimitHit(t, s, own) = "none"

-----------------------------------------------------------------------------
\* Mutant: 0 is taken for a time.
HoldTimeMin(s, t) == Min({s, t})

\* Secret.records_effective_hold_time.
HoldTime(s, t) == IF 0 \in {s, t} THEN Max({s, t}) ELSE Min({s, t})

\* housekeeping_records: a set of this age in days is deleted.
Expired(age, s, t) == age > HoldTime(s, t)

\* A set goes when the first of the two hold times is over, one of 0 is none;
\* but where both are 0 it goes at once (models.py:233).
HoldTimesHold(age, s, t) ==
    Expired(age, s, t) <=> IF s + t > 0 THEN \E d \in {s, t} \ {0} : age > d ELSE age > 0

-----------------------------------------------------------------------------
\* The command addsecrets: the sub ids it adds for N-M.
SubIds(n, m) == IF Min({n, m}) > MaxSubId THEN {} ELSE Min({n, m}) .. Min({Max({n, m}), MaxSubId})

\* Mutant: secrets that are there are replaced.
AddSecretsAnew(secrets, n, m, new) ==
    [i \in DOMAIN secrets \cup SubIds(n, m) |-> IF i \in SubIds(n, m) THEN new ELSE secrets[i]]

AddSecrets(secrets, n, m, new) ==
    [i \in DOMAIN secrets \cup SubIds(n, m) |-> IF i \in DOMAIN secrets THEN secrets[i] ELSE new]

\* Whichever way round the range is given, and however often: every sub id in
\* it has a secret then, and no secret that clients use has changed.
SecretsAreKept(secrets, n, m) ==
    LET once == AddSecrets(secrets, n, m, "new")
    IN  /\ \A i \in DOMAIN secrets : once[i] = secrets[i]
        /\ DOMAIN once = DOMAIN secrets \cup
               {i \in 0 .. MaxSubId : (n <= i /\ i <= m) \/ (m <= i /\ i <= n)}
        /\ AddSecrets(once, m, n, "newer") = once

=============================================================================
