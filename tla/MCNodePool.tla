----------------------------- MODULE MCNodePool -----------------------------
(* A small instance of NodePool for TLC.                                   *)
EXTENDS NodePool, TLC

CONSTANTS n1, k1

\* A single node; a meeting with its first attendee is worth half a point.
Single == n1 :> k1
HalfPoint == k1 :> 1

=============================================================================
