-------------------------- MODULE MCSandboxManager --------------------------
(* SandboxManager on small instances: users, call slots and name suffixes are *)
(* interchangeable, port numbers are not (the lowest free one is handed out). *)
EXTENDS SandboxManager, TLC

\* At a time one failure, one restart or one dead pod: what each leaves is met alone.
OneOutage ==
    faults + restarts + Cardinality({n \in Names : pods[n].phase = "error"}) <= 1

Symmetry == Permutations(Users) \cup Permutations(Calls) \cup Permutations(Gens)
=============================================================================
