------------------------------- MODULE Choice -------------------------------
(***************************************************************************)
(* The loop of set_node_by_lowest_workload (rest/classes/api.py) over the  *)
(* nodes of one cluster after the other.  Loads are given as a function of *)
(* nodes; a negative load says that the node is not to be used.            *)
(***************************************************************************)
EXTENDS Integers

CONSTANT LoadCap    \* 'lowest' starts at 10000000

ASSUME LoadCapAssumption == LoadCap \in Nat

\* The local variables lowest and lowest_node_list before the loop.
NoChoice == [lowest |-> LoadCap, best |-> {}]

\* q after the nodes of one more cluster.
LookedAt(q, loads) ==
    LET usable == {n \in DOMAIN loads : 0 <= loads[n] /\ loads[n] <= q.lowest}
        least == {n \in usable : \A m \in usable : loads[n] <= loads[m]}
        low == loads[CHOOSE n \in least : TRUE]
    IN  IF usable = {} THEN q
        ELSE [lowest |-> low, best |-> IF low = q.lowest THEN q.best \cup least ELSE least]

-----------------------------------------------------------------------------
\* q is what a look at all these nodes at once gives: those of least load
\* among the usable ones up to the cap.
IsChoice(q, loads) ==
    LET usable == {n \in DOMAIN loads : 0 <= loads[n] /\ loads[n] <= LoadCap}
    IN  /\ q.best = {n \in usable : \A m \in usable : loads[n] <= loads[m]}
        /\ IF usable = {} THEN q.lowest = LoadCap ELSE \A n \in q.best : loads[n] = q.lowest

\* The order of the clusters does not matter, nor how nodes are spread over
\* them: after one more cluster the choice is that among all nodes so far.
ChoiceGoesOn(q, loads, more) ==
    LET all == [n \in DOMAIN loads \cup DOMAIN more |-> IF n \in DOMAIN more THEN more[n] ELSE loads[n]]
    IN  IsChoice(q, loads) => IsChoice(LookedAt(q, more), all)

\* From no cluster on.
ChoiceIsLowest(loads, more) ==
    LET q == LookedAt(NoChoice, loads)
    IN  IsChoice(q, loads) /\ ChoiceGoesOn(q, loads, more)

=============================================================================
