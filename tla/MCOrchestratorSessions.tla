----------------------- MODULE MCOrchestratorSessions -----------------------
(* OrchestratorSessions on small instances; sessions and call slots are *)
(* interchangeable.                                                     *)
EXTENDS OrchestratorSessions, TLC

Symmetry == Permutations(Sessions) \cup Permutations(Calls)
=============================================================================
