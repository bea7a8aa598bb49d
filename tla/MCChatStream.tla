---------------------------- MODULE MCChatStream ----------------------------
(* ChatStream on small instances. *)
EXTENDS ChatStream, TLC

Symmetry == Permutations(Sockets) \cup Permutations(Turns)
=============================================================================
