------------------------------ MODULE Metrics -------------------------------
(***************************************************************************)
(* The rows of Metric and the requests and tasks that change them at the   *)
(* same time (rest/b3lb/metrics.py).  A call counts 'by' on a counter, or  *)
(* sets a gauge to it.  Every statement is one step of the database:       *)
(* UPDATE, get_or_create - unique_metric makes the loser of two creations  *)
(* find the row - and the save of the one column.  Callers always name a   *)
(* node, without which the constraint would not bind.  The database adds   *)
(* before it takes the remainder; its integers are not bounded here.       *)
(***************************************************************************)
EXTENDS Naturals

CONSTANTS
    Counters, Gauges,   \* [name, secret, node] of the rows
    Callers,
    Values,             \* what is counted, or a gauge set to
    Modulo,             \* 2^63 in the code
    Missing             \* no row

ASSUME ModuloAssumption == Modulo \in Nat \ {0} /\ Values \subseteq Nat /\ Missing \notin Nat

VARIABLES
    metric,   \* the value of each row, or Missing
    caller,   \* per caller [pc, key, by, read]
    counted   \* what the calls that have ended have counted, for the properties

metricVars == <<metric, caller, counted>>

Keys == Counters \cup Gauges

MetricsInit ==
    /\ metric = [k \in Keys |-> Missing]
    /\ caller \in [Callers -> [pc : {"update"}, key : Keys, by : Values, read : {0}]]
    /\ counted = [k \in Keys |-> 0]

\* Mutant: the sum is made of the value that was read.
StoredAsRead(c) ==
    LET k == caller[c].key
    IN  IF k \in Counters THEN (caller[c].read + caller[c].by) % Modulo ELSE caller[c].by

\* The value the statement of caller c leaves in its row.
Stored(c) ==
    LET k == caller[c].key
    IN  IF k \in Counters THEN (metric[k] + caller[c].by) % Modulo ELSE caller[c].by

Finish(c) ==
    LET k == caller[c].key
    IN  /\ metric' = [metric EXCEPT ![k] = Stored(c)]
        /\ caller' = [caller EXCEPT ![c].pc = "done"]
        /\ counted' = [counted EXCEPT ![k] = @ + caller[c].by]

\* filter().update(): changes the row if there is one.
Update(c) ==
    /\ caller[c].pc = "update"
    /\ IF metric[caller[c].key] # Missing THEN Finish(c)
       ELSE /\ caller' = [caller EXCEPT ![c].pc = "create"]
            /\ UNCHANGED <<metric, counted>>

\* get_or_create().
GetOrCreate(c) ==
    /\ caller[c].pc = "create"
    /\ LET k == caller[c].key
           value == IF metric[k] = Missing THEN 0 ELSE metric[k]
       IN  /\ metric' = [metric EXCEPT ![k] = value]
           /\ caller' = [caller EXCEPT ![c].pc = "save", ![c].read = value]
    /\ UNCHANGED counted

\* save(update_fields=["value"]), an expression of the row for a counter.
Save(c) ==
    /\ caller[c].pc = "save"
    /\ Finish(c)

MetricsNext == \E c \in Callers : Update(c) \/ GetOrCreate(c) \/ Save(c)

MetricsSpec == MetricsInit /\ [][MetricsNext]_metricVars

\* Nothing that was counted is lost, nor counted twice, whoever counts on the
\* same row meanwhile and whoever made it (metrics.py:28-31).
CountersExact ==
    \A k \in Counters :
        (IF metric[k] = Missing THEN 0 ELSE metric[k]) = counted[k] % Modulo

=============================================================================
