---------------------------- MODULE MCAgentHosts ----------------------------
(***************************************************************************)
(* The programs that run agent turns for others and keep what it takes to  *)
(* abort or repeat them - the sandbox server, the A2A executor, pi-harness *)
(* and the orchestrator's session manager - and the memory directory the   *)
(* agents of a process share.  They share nothing here, so that one        *)
(* behaviour is of one of them; session ids name sandbox sessions, A2A     *)
(* tasks, harness sessions or agents, slots hold turns, requests or calls, *)
(* entries stand for facts as well, and each kind is interchangeable.      *)
(***************************************************************************)
EXTENDS SandboxAgent, TLC

CONSTANTS Entries, MaxSessions, IdleTimeout, MaxClock, TopK, PruneCycles, MaxScore,
          Ops, FaultKinds, MaxFaults, MaxStates

ASSUME HostAssumption ==
    /\ IdleTimeout \in Nat /\ MaxClock \in Nat
    /\ PruneCycles \in Nat /\ MaxScore \in Nat
    /\ MaxFaults \in Nat /\ MaxStates \in Nat
    /\ None \notin Entries

VARIABLES
    host,
    abortControllers, requests, contested,
    live, lastActive, clock, posts, tui, reading, removed,
    facts, aged, coAccess, saved, injections, extracts, streak,
    registry, cached, tracked, box, calls, states, faults, disturbed

A2A == INSTANCE TaskExecutor WITH Tasks <- Sessions, Requests <- Turns
PiHarness == INSTANCE Harness WITH Ids <- Sessions, Posts <- Turns
ZosmaMem == INSTANCE Memory WITH Agents <- Sessions, Facts <- Entries
Orchestrator == INSTANCE OrchestratorSessions WITH Calls <- Turns

taskVars    == <<abortControllers, requests, contested>>
harnessVars == <<live, lastActive, clock, posts, tui, reading, removed>>
memoryVars  == <<facts, aged, coAccess, saved, injections, extracts, streak>>
orchVars    == <<registry, cached, tracked, box, calls, states, faults, disturbed>>
hostVars    == <<host, vars, taskVars, harnessVars, memoryVars, orchVars>>

HostInit ==
    /\ host \in {"sandbox", "a2a", "harness", "memory", "orchestrator"}
    /\ Init /\ A2A!Init /\ PiHarness!Init /\ ZosmaMem!Init /\ Orchestrator!Init

HostNext ==
    /\ UNCHANGED host
    /\ \/ host = "sandbox" /\ Next
          /\ UNCHANGED <<taskVars, harnessVars, memoryVars, orchVars>>
       \/ host = "a2a" /\ A2A!Next
          /\ UNCHANGED <<vars, harnessVars, memoryVars, orchVars>>
       \/ host = "harness" /\ PiHarness!Next
          /\ UNCHANGED <<vars, taskVars, memoryVars, orchVars>>
       \/ host = "memory" /\ ZosmaMem!Next
          /\ UNCHANGED <<vars, taskVars, harnessVars, orchVars>>
       \/ host = "orchestrator" /\ Orchestrator!Next
          /\ UNCHANGED <<vars, taskVars, harnessVars, memoryVars>>

HostSpec == HostInit /\ [][HostNext]_hostVars

\* Type correctness of all five.
HostTypeOK == TypeOK /\ A2A!TypeOK /\ PiHarness!TypeOK /\ ZosmaMem!TypeOK
              /\ Orchestrator!TypeOK

\* A turn of a task answered Canceled while it ran has its signal aborted
\* (TaskExecutor).
CancelReaches == A2A!CancelReaches

\* The idle sweep spares a session whose turn began within the timeout (Harness).
TurnKeepsSession == PiHarness!TurnKeepsSession

\* A fact is archived only if it was found too low gcPruneCycles times in a row
\* (Memory).
PruneEarned == ZosmaMem!PruneEarned

\* A session of the registry is known to the cached sandbox and keeps it alive
\* (OrchestratorSessions).
RegisteredServed == Orchestrator!RegisteredServed

\* No prompt is sent again after its first event (OrchestratorSessions).
NoReplayAfterEvents == Orchestrator!NoReplayAfterEvents

Symmetry == Permutations(Sessions) \cup Permutations(Turns) \cup Permutations(Entries)
=============================================================================
