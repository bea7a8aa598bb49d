--------------------------- MODULE MCGatewayTurns ---------------------------
(* GatewayTurns on small instances; sessions, sockets and slots are *)
(* interchangeable.                                                 *)
EXTENDS GatewayTurns, TLC

Symmetry == Permutations(Sessions) \cup Permutations(Sockets) \cup Permutations(Turns)
=============================================================================
