----------------------------- MODULE MCMeetings -----------------------------
(* Small instances of Meetings for TLC.                                    *)
EXTENDS Meetings, TLC

\* Nodes, secrets, clients and handlers are interchangeable: no definition of
\* the module tells one from another.
Symmetry == Permutations(Nodes) \cup Permutations(Clients)
            \cup Permutations(Handlers) \cup Permutations(Secrets)

=============================================================================
