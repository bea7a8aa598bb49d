---------------------------- MODULE MCSlackQueue ----------------------------
(* SlackQueue on small instances: messages, threads and sessions are interchangeable. *)
EXTENDS SlackQueue, TLC

Symmetry == Permutations(Messages) \cup Permutations(Threads) \cup Permutations(Sessions)
=============================================================================
