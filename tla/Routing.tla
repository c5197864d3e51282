------------------------------- MODULE Routing -------------------------------
(***************************************************************************)
(* What the Meeting table promises to those who only ask it where a        *)
(* meeting is (join, isMeetingRunning, getMeetingInfo, end, the next       *)
(* create): a meeting has at most one route, which names a node and        *)
(* carries a serial (the nonce of the end callback).  A route is never     *)
(* replaced by another one: it goes, and only then the meeting can get a   *)
(* new route or one back that it has lost.  One step touches one meeting.  *)
(*                                                                         *)
(* Meetings implements this specification: see RoutesKept there.           *)
(***************************************************************************)
EXTENDS Integers

CONSTANTS
    Ids,      \* meeting ids ...
    Secrets,  \* ... and the secrets they belong to: both name a meeting
    Nodes     \* the BigBlueButton servers

VARIABLES
    routes,  \* the routes there are
    next     \* serials below this one have been drawn

vars == <<routes, next>>

Route == [id : Ids, secret : Secrets, node : Nodes, serial : Nat]

Routed(i, s) == \E x \in routes : x.id = i /\ x.secret = s

Init ==
    /\ routes = {}
    /\ next = 1

\* A meeting without a route gets one, with a serial of its own ...
Bind(i, s, n) ==
    /\ ~Routed(i, s)
    /\ routes' = routes \cup {[id |-> i, secret |-> s, node |-> n, serial |-> next]}
    /\ next' = next + 1

\* ... or with a serial that was drawn before and that no meeting has now.
Restore(i, s, n, k) ==
    /\ ~Routed(i, s)
    /\ \A x \in routes : x.serial # k
    /\ routes' = routes \cup {[id |-> i, secret |-> s, node |-> n, serial |-> k]}
    /\ UNCHANGED next

Unbind(x) ==
    /\ routes' = routes \ {x}
    /\ UNCHANGED next

Next ==
    \/ \E i \in Ids, s \in Secrets, n \in Nodes :
         \/ Bind(i, s, n)
         \/ \E k \in 1 .. next - 1 : Restore(i, s, n, k)
    \/ \E x \in routes : Unbind(x)

Spec == Init /\ [][Next]_vars

=============================================================================
