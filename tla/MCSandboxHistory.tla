-------------------------- MODULE MCSandboxHistory ---------------------------
(* SandboxHistory on small instances: users, call slots and name suffixes are *)
(* interchangeable, port numbers are not (the lowest free one is handed out). *)
EXTENDS SandboxHistory, TLC

\* Nothing was done for u, or nothing is left of it.
Untouched(u) ==
    /\ rows[u] = NoRow /\ sandboxes[u] = NoSandbox /\ u \notin crossed \cup abandoned
    /\ \A c \in Calls : calls[c].user # u
    /\ \A g \in Gens : pods[<<u, g>>] = NoPod

\* One user is served, and one port used.
OneServed ==
    /\ \A u, v \in Users : u = v \/ Untouched(u) \/ Untouched(v)
    /\ \A p, q \in Ports : p > q => p \notin allocatedPorts /\ forwards[p] = None

\* The states from which the run goes on: one user for whom everything may overlap and
\* fail, or several users until calls have crossed or something has failed.
Focus == Untroubled \/ OneServed

Symmetry == Permutations(Users) \cup Permutations(Calls) \cup Permutations(Gens)
=============================================================================
