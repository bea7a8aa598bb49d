--------------------------- MODULE SandboxHistory ----------------------------
(***************************************************************************)
(* SandboxManager with two history variables, for what it promises only as *)
(* long as certain calls have not met.  Calls meet as they like; the       *)
(* history tells what has met:                                             *)
(*   - crossed: users of whom two calls were at work at once, one of them  *)
(*     a call that takes no lock, or whom a late probe has hit.  A probe   *)
(*     on its way (health.ts:23-41 sends one to every ready sandbox) is    *)
(*     not at work until it fails.                                         *)
(*   - abandoned: users of whom destroySandbox met a creation, or had its  *)
(*     `openshell sandbox delete` fail.                                    *)
(***************************************************************************)
EXTENDS SandboxManager

VARIABLES crossed, abandoned

history == <<crossed, abandoned>>

-----------------------------------------------------------------------------
(* The record *)

\* Awaits of the calls at work that take no lock.
Unlocked == OtherAwaits \ {"health.check"}

\* Two calls work for u, one of them without the lock.
Together(u) ==
    \E c, d \in Calls :
        /\ c # d /\ calls[c].user = u /\ calls[d].user = u
        /\ calls[c].pc \in Unlocked /\ calls[d].pc # "health.check"

\* A probe has failed for a SandboxState that is no longer the user's.
LateProbe(u) ==
    \E c \in Calls : /\ calls[c].user = u /\ calls[c].pc = "health.setStatus"
                     /\ calls[c].ref # sandboxes[u].ref

\* A destruction and a creation are in progress.
Contested(u) ==
    \E c, d \in Calls :
        /\ calls[c].user = u /\ calls[d].user = u
        /\ calls[c].pc \in {"destroy.lookup", "destroy.forwardStop", "destroy.delete",
                            "destroy.deleteRow"}
        /\ calls[d].pc \in EnsureAwaits

\* A step in which destroySandbox of u ignores that the pod could not be deleted.
Leaves(u) ==
    \E c \in Calls : /\ calls[c].user = u /\ calls[c].pc = "destroy.delete"
                     /\ calls'[c].pc = "destroy.deleteRow"
                     /\ faults' # faults

Record ==
    /\ crossed' = crossed \cup {u \in Users : (Together(u) \/ LateProbe(u))'}
    /\ abandoned' = abandoned \cup {u \in Users : Contested(u)' \/ Leaves(u)}

HistoryInit == Init /\ crossed = {} /\ abandoned = {}

HistoryNext == Next /\ Record

HistorySpec == HistoryInit /\ [][HistoryNext]_<<vars, history>>

HistoryOK == crossed \subseteq Users /\ abandoned \subseteq Users

-----------------------------------------------------------------------------
(* Properties *)

\* No calls have crossed, nothing outside has failed but dying pods (which are not
\* counted), and the process has not restarted so far.
Untroubled == faults = 0 /\ restarts = 0 /\ crossed = {}

\* A port number counts as held by a call from allocatePort/recoverPort to its end.
PortHolders ==
    {sandboxes[u].port : u \in Users}
    \cup {calls[c].port : c \in {d \in Calls : calls[d].pc \in
             {"forwardStart", "setReattached", "setProvisioning", "createPod",
              "waitForHealthy", "setReady", "setMetadata"} \cup Unlocked}}

\* Port accounting until calls cross or something fails: allocatedPorts is exactly what
\* cached sandboxes and calls at work hold, so nothing leaks and nothing is handed out
\* twice (sandbox-manager.ts:709-740 and every exit of the calls that give a port back).
PortAccounting == Untroubled => allocatedPorts = PortHolders \ {None}

\* Until calls cross or something fails, the client a user gets reaches the user's own
\* sandbox or nobody, although forwards outlive sandboxes and ports are handed out again
\* (sandbox-manager.ts:709-713).
ClientReachesOwner == Untroubled => RoutedToOwner

\* No call of u but probes on their way.
Quiet(u) == \A c \in Calls : calls[c].user = u => calls[c].pc = "health.check"

\* Until calls cross or something fails, the row of a user for whom no call works tells the
\* truth: a ready cached sandbox has a "ready" row with its name and its port, a "suspended"
\* or "error" row has nothing cached, and the pod of a "suspended" row is gone.
RowTellsTruth ==
    Untroubled => \A u \in Users : Quiet(u) =>
        /\ sandboxes[u].phase = "ready" =>
             rows[u] = [status |-> "ready", name |-> sandboxes[u].name,
                        agentPort |-> sandboxes[u].port]
        /\ rows[u].status \in {"suspended", "error"} => sandboxes[u] = NoSandbox
        /\ rows[u].status = "suspended" => pods[rows[u].name].phase = "absent"

\* "Each user gets exactly one sandbox" (sandbox-manager.ts:36), whatever overlaps, fails
\* and restarts, for a user whose sandbox was never destroyed during a creation or in vain.
OnePodPerUser ==
    \A m, n \in Names :
        /\ m[1] = n[1] /\ m[1] \notin abandoned
        /\ pods[m].phase = "ready" /\ pods[n].phase = "ready"
        => m = n
=============================================================================
