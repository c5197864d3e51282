----------------------------- MODULE Statistics -----------------------------
(***************************************************************************)
(* The figures B3LB publishes, as functions of the tables they are made    *)
(* from: the statistics of a tenant by origin and the lists of metrics of  *)
(* a secret (rest/task/statistics.py, rest/classes/statistics.py), the     *)
(* gauges and the lists of meetings (rest/task/core.py).                   *)
(*                                                                         *)
(* A meeting is [id, secret, origin, server, healthy, attendees, voice]:   *)
(* healthy says that its node has no error, attendees stands for the       *)
(* listeners, moderators and videos as well, which are added up in the     *)
(* same way.  A secret is [tenant, sub], a row of Metric                   *)
(* [name, secret, node, value]; where the lists of meetings and the gauges *)
(* are concerned a row of Meeting is [id, secret, node].                   *)
(***************************************************************************)
EXTENDS Naturals, FiniteSets, Sequences, SequencesExt

CONSTANTS
    Unknown,      \* the empty bbb-origin and bbb-origin-server-name
    TopTenants    \* 10: how many tenants the dashboard shows

ASSUME TopTenantsAssumption == TopTenants \in Nat

Attendees(meetings) == SumFunction([m \in meetings |-> m.attendees])

\* A MeetingStats object: what is added up over the meetings of one origin.
Figures(meetings) ==
    LET counted == {m \in meetings : m.healthy}
    IN  [meetings |-> Cardinality(counted),
         attendees |-> Attendees(counted),
         voice |-> SumFunction([m \in counted |-> m.voice])]

NoFigures == [meetings |-> 0, attendees |-> 0, voice |-> 0]

\* Stats.update_values: every figure but the voice participants.
UpdateValues(row, f) == [row EXCEPT !.figures = [f EXCEPT !.voice = row.figures.voice]]

Origin(m) == <<m.origin, m.server>>

OfOrigin(meetings, o) == {m \in meetings : Origin(m) = o}

\* One row of the first loop.  Its meetings leave the query for the rows to
\* come, and so does every meeting with one of their ids.
UpdateRow(acc, row) ==
    LET own == OfOrigin(acc.left, Origin(row))
    IN  [left |-> {m \in acc.left : \A o \in own : o.id # m.id},
         rows |-> Append(acc.rows, UpdateValues(row, Figures(own)))]

\* update_tenant_statistics: the rows of Stats after a run over the rows in
\* their order and the tenant's meetings.
UpdateTenantStatistics(rows, meetings) ==
    LET after[k \in 0 .. Len(rows)] ==
            IF k = 0 THEN [left |-> meetings, rows |-> <<>>] ELSE UpdateRow(after[k - 1], rows[k])
        known == after[Len(rows)]
        new == {Origin(m) : m \in {m \in known.left :
                   m.healthy /\ m.origin # Unknown /\ m.server # Unknown}}
               \ {Origin(row) : row \in ToSet(rows)}
    IN  ToSet(known.rows)
        \cup {UpdateValues([origin |-> o[1], server |-> o[2], figures |-> NoFigures],
                           Figures(OfOrigin(known.left, o))) : o \in new}

\* get_tenant_statistic, the answer of b3lb_stats: by server, then by origin.
TenantStatistic(rows) ==
    [server \in {row.server : row \in rows} |->
        [origin \in {row.origin : row \in {x \in rows : x.server = server}} |->
            (CHOOSE row \in rows : Origin(row) = <<origin, server>>).figures]]

-----------------------------------------------------------------------------
\* The dashboard's figures, those on failing nodes included.
AllMeetings(meetings) ==
    [meetings |-> Cardinality(meetings), attendees |-> Attendees(meetings)]

OfTenant(meetings, t) == {m \in meetings : m.secret.tenant = t}

\* The command meetingstats.
MeetingStats(tenants, meetings) == [t \in tenants |-> AllMeetings(OfTenant(meetings, t))]

\* The dashboard's table of tenants with meetings, by attendees; tenants with
\* as many attendees come in any order.
ActiveTenants(tenants, meetings) ==
    LET attendees(t) == AllMeetings(OfTenant(meetings, t)).attendees
        sorted == CHOOSE q \in SetToSeqs({t \in tenants : OfTenant(meetings, t) # {}}) :
                      \A i, j \in DOMAIN q : i < j => attendees(q[j]) <= attendees(q[i])
    IN  SubSeq(sorted, 1, Min({TopTenants, Len(sorted)}))

-----------------------------------------------------------------------------
\* update_secret_metrics.  The secrets of a list: those of the tenant for the
\* tenant's own secret, which has sub id 0; all of them for the total.
Listed(secrets, total, s) ==
    {x \in secrets : total \/ x = s \/ (s.sub = 0 /\ x.tenant = s.tenant)}

\* The rows of Metric that count for a secret of the list: for the tenant's
\* own secret those of all its secrets.  A metric is [name, secret, node, value].
CountedFor(metrics, x) ==
    {r \in metrics : r.secret = x \/ (x.sub = 0 /\ r.secret.tenant = x.tenant)}

ValueOf(metrics) == SumFunction([r \in metrics |-> r.value])

\* The list: one figure per metric name and secret that has rows of the name.
MetricsList(secrets, metrics, total, s) ==
    LET named(x, name) == {r \in CountedFor(metrics, x) : r.name = name}
        names(x) == {r.name : r \in CountedFor(metrics, x)}
        lines == UNION {{<<name, x>> : name \in names(x)} : x \in Listed(secrets, total, s)}
    IN  [l \in lines |-> ValueOf(named(l[2], l[1]))]

-----------------------------------------------------------------------------
GaugeNames == {"attendees", "meetings"}

\* The meetings of a secret that run on the node.
SeenOn(s, n, rows, report) == {m \in rows : m.node = n /\ m.secret = s /\ m.id \in DOMAIN report}

GaugeValue(name, s, n, rows, report) ==
    IF name = "meetings" THEN Cardinality(SeenOn(s, n, rows, report))
    ELSE SumFunction([m \in SeenOn(s, n, rows, report) |-> report[m.id]])

Gauge(name, s, n, rows, report) ==
    [name |-> name, secret |-> s, node |-> n, value |-> GaugeValue(name, s, n, rows, report)]

\* Mutant: gauges are set only for the secrets that have meetings.
GaugesSetOfSeen(metrics, n, secrets, rows, report) ==
    LET set == {s \in secrets : SeenOn(s, n, rows, report) # {}}
    IN  {r \in metrics : r.node # n \/ r.secret \notin set \/ r.name \notin GaugeNames}
        \cup {Gauge(name, s, n, rows, report) : name \in GaugeNames, s \in set}

\* check_node, after node n has reported its meetings, with their attendees:
\* every secret's gauges of the node are set, to 0 if it has no meeting there.
GaugesSet(metrics, n, secrets, rows, report) ==
    {r \in metrics : r.node # n \/ r.secret \notin secrets \/ r.name \notin GaugeNames}
    \cup {Gauge(name, s, n, rows, report) : name \in GaugeNames, s \in secrets}

\* One check of each of the nodes that answer.
NodesChecked(metrics, secrets, rows, reports) ==
    LET order == SetToSeq(DOMAIN reports)
        after[k \in 0 .. Len(order)] ==
            IF k = 0 THEN metrics
            ELSE GaugesSet(after[k - 1], order[k], secrets, rows, reports[order[k]])
    IN  after[Len(order)]

-----------------------------------------------------------------------------
\* Mutant: the tenant's own secret lists its own meetings only.
IdsListedOwn(s, rows) == {m.id : m \in {r \in rows : r.secret = s}}

\* generate_secret_get_meetings: the ids it looks for; the tenant's own
\* secret has all meetings of the tenant.
IdsListed(s, rows) ==
    {m.id : m \in {r \in rows : r.secret = s \/ (s.sub = 0 /\ r.secret.tenant = s.tenant)}}

\* What it finds in the nodes' last answers: sets of the meetings [id, of]
\* that run, of whose secret the answer says nothing.  A node that failed
\* has the answer {}.
MeetingList(s, rows, answers) ==
    {x \in UNION {{n} \X answers[n] : n \in DOMAIN answers} : x[2].id \in IdsListed(s, rows)}

-----------------------------------------------------------------------------
(* What they are to be.                                                    *)

\* The statistics of a tenant show the sums over the running meetings of each
\* known origin, but for meetings that share their id with one of another
\* secret of the tenant (statistics.py:122 excludes by id alone).
OriginsAreSummed(rows, meetings) ==
    LET shown == TenantStatistic(UpdateTenantStatistics(rows, meetings))
        twins == {m \in meetings : \E o \in meetings : o # m /\ o.id = m.id}
        sums(figures, of) ==
            LET counted == {m \in of : m.healthy}
            IN  /\ figures.meetings = Cardinality(counted)
                /\ figures.attendees = Attendees(counted)
    IN  /\ \A server \in DOMAIN shown : \A origin \in DOMAIN shown[server] :
              \E lost \in SUBSET twins :
                  sums(shown[server][origin], OfOrigin(meetings, <<origin, server>>) \ lost)
        /\ \A m \in meetings \ twins :
              (m.healthy /\ m.origin # Unknown /\ m.server # Unknown)
                 => m.server \in DOMAIN shown /\ m.origin \in DOMAIN shown[m.server]

\* Dashboard and command agree: the total is that of the tenants, every tenant
\* shown has meetings, and none that is left out has more attendees.
OverviewsAgree(tenants, meetings) ==
    LET by == MeetingStats(tenants, meetings)
        shown == ToSet(ActiveTenants(tenants, meetings))
    IN  /\ AllMeetings(meetings) = [meetings |-> SumFunction([t \in tenants |-> by[t].meetings]),
                                    attendees |-> SumFunction([t \in tenants |-> by[t].attendees])]
        /\ Cardinality(shown) = Min({TopTenants, Cardinality({t \in tenants : by[t].meetings > 0})})
        /\ \A t \in shown : /\ by[t].meetings > 0
                            /\ \A u \in tenants \ shown : by[u].attendees <= by[t].attendees

\* In every list a tenant's figure is the sum of what its secrets have counted
\* each for itself, on all nodes, and nothing of another tenant's.
TenantsAreSummed(secrets, metrics, total, s) ==
    LET list == MetricsList(secrets, metrics, total, s)
        own(x, name) == ValueOf({r \in metrics : r.secret = x /\ r.name = name})
    IN  /\ \A l \in DOMAIN list : l[2].sub = 0 =>
              list[l] = SumFunction([x \in {y \in secrets : y.tenant = l[2].tenant} |-> own(x, l[1])])
        /\ total \/ \A l \in DOMAIN list : l[2].tenant = s.tenant

\* When every node that answers has been checked, whatever the rows of Metric
\* said before, a tenant's gauges are those of its meetings that run there
\* and what the nodes that fail had last.
GaugesFollowTheNodes(metrics, secrets, rows, reports) ==
    LET list == MetricsList(secrets, NodesChecked(metrics, secrets, rows, reports), TRUE, CHOOSE s \in secrets : TRUE)
    IN  \A x \in {s \in secrets : s.sub = 0} :
          LET seen == {m \in rows : /\ m.secret.tenant = x.tenant /\ m.node \in DOMAIN reports
                                    /\ m.id \in DOMAIN reports[m.node]}
              old(name) == {r \in metrics : /\ r.name = name /\ r.secret.tenant = x.tenant
                                            /\ r.node \notin DOMAIN reports}
              shown(name) == IF <<name, x>> \in DOMAIN list THEN list[<<name, x>>] ELSE 0
          IN  /\ shown("attendees") = SumFunction([m \in seen |-> reports[m.node][m.id]])
                                       + ValueOf(old("attendees"))
              /\ shown("meetings") = Cardinality(seen)
                                      + ValueOf(old("meetings"))

\* A secret's list has each running meeting of the secret that is in the table,
\* and of the tenant for its own secret; another one's only under the same id
\* (core.py:218 looks at nothing else).
ListsHaveTheirMeetings(secrets, rows, answers) ==
    \A s \in secrets, n \in DOMAIN answers : \A m \in answers[n] :
        LET of == {x \in secrets : x = s \/ (s.sub = 0 /\ x.tenant = s.tenant)}
            known(x) == \E r \in rows : r.id = m.id /\ r.secret = x
        IN  /\ known(m.of) /\ m.of \in of => <<n, m>> \in MeetingList(s, rows, answers)
            /\ <<n, m>> \in MeetingList(s, rows, answers) =>
                   m.of \in of \/ \E x \in of : x # m.of /\ known(x)

=============================================================================
