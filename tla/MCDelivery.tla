----------------------------- MODULE MCDelivery -----------------------------
(* Two recordings of one node, its push, and the workers that render them. *)
EXTENDS Delivery

CONSTANTS r1, r2

\* The rendering of one recording may once take longer than its lock lives.
OneIsLong == [t \in Tasks |-> IF t = r1 THEN 1 ELSE 0]

=============================================================================
