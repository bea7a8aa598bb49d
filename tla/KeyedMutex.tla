----------------------------- MODULE KeyedMutex -----------------------------
(***************************************************************************)
(* The promise every per-key serialisation device of the system makes: at  *)
(* most one agent works on a key at a time.  SandboxManager.locks (one     *)
(* sandbox creation per user) and the Slack adapter's activeSessions (one  *)
(* agent turn per session) are shown to implement it.                      *)
(***************************************************************************)
CONSTANTS
    Keys,    \* what is locked: users, sessions
    Agents   \* who may hold a key: in-flight calls

VARIABLE
    holders  \* holders[k]: the set of agents at work on k

TypeOK == holders \in [Keys -> SUBSET Agents]

Init == holders = [k \in Keys |-> {}]

\* An agent starts to work on a key nobody works on.
Acquire(k, a) ==
    /\ holders[k] = {}
    /\ holders' = [holders EXCEPT ![k] = {a}]

\* The agent at work on a key is done with it.
Release(k) ==
    /\ holders[k] # {}
    /\ holders' = [holders EXCEPT ![k] = {}]

\* The process dies: nobody works on anything any more.
Crash == holders' = [k \in Keys |-> {}]

Next ==
    \/ \E k \in Keys : Release(k) \/ \E a \in Agents : Acquire(k, a)
    \/ Crash

Spec == Init /\ [][Next]_holders

\* At most one agent at work on each key.
MutualExclusion == \A k \in Keys : \A a, b \in holders[k] : a = b
=============================================================================
