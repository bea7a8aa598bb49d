--------------------------- MODULE SandboxManager ---------------------------
(***************************************************************************)
(* packages/orchestrator/src/sandbox-manager.ts: the per-user sandbox      *)
(* lifecycle.  One Node.js process interleaves asynchronous calls at their *)
(* awaits, so an action is an awaited call's outcome together with the     *)
(* synchronous code up to the next await; its request was issued by the    *)
(* action before.  The database, the OpenShell pods and the port forwards  *)
(* outlive the process, the cache, the locks and the port set do not.      *)
(***************************************************************************)
EXTENDS Naturals, FiniteSets

CONSTANTS
    Users,         \* userIds
    Calls,         \* slots for in-flight calls on the manager (bounds concurrency)
    Ports,         \* PORT_RANGE_START .. PORT_RANGE_END
    Gens,          \* suffixes of sandbox names of one user (bounds live names)
    Refs,          \* identities of SandboxState objects (bounds live objects)
    MaxSandboxes,  \* config.maxSandboxes, 0 = unlimited
    FaultKinds,    \* which outside failures happen
    MaxFaults,     \* bound on the number of failures
    MaxRestarts,   \* bound on the number of process restarts
    None           \* no value

AllFaults == {"db", "cli", "slow", "probe", "pod", "tunnel"}

Names == Users \X Gens  \* sandbox name "oz-<user>-<suffix>", also the row's id

ASSUME ConstantsAssumption ==
    /\ Ports \subseteq Nat
    /\ MaxSandboxes \in Nat /\ MaxFaults \in Nat /\ MaxRestarts \in Nat
    /\ FaultKinds \subseteq AllFaults
    /\ None \notin Users \cup Calls \cup Ports \cup Names \cup Refs

VARIABLES
    sandboxes,       \* [Users -> cached SandboxState]
    locks,           \* [Users -> the call whose promise is in the lock map]
    allocatedPorts,  \* ports handed out
    rows,            \* [Users -> user_sandboxes row], survives a restart
    pods,            \* [Names -> OpenShell sandbox], survives a restart
    forwards,        \* [Ports -> the pod localhost:port leads to]
    calls,           \* [Calls -> where each in-flight call awaits, and its locals]
    faults,          \* failures so far
    restarts         \* restarts so far

memory == <<sandboxes, locks, allocatedPorts>>
shell  == <<pods, forwards>>
bounds == <<faults, restarts>>
vars   == <<memory, rows, shell, calls, bounds>>

-----------------------------------------------------------------------------
(* Values *)

NoSandbox == [phase |-> "absent", name |-> None, port |-> None, ref |-> None]
NoRow     == [status |-> "absent", name |-> None, agentPort |-> None]
NoPod     == [phase |-> "absent", port |-> None, cli |-> FALSE]

\* Awaits of ensureSandboxInternal and the functions it calls: the lock is held.
EnsureAwaits ==
    {"getByUserId", "insertRow", "getPod", "deletePod", "setWaiting", "waitReady",
     "forwardStart", "setReattached", "setProvisioning", "createPod",
     "waitForHealthy", "setReady", "setMetadata", "setError"}

\* Awaits of the calls that take no lock.
OtherAwaits ==
    {"suspend.setStatus", "suspend.forwardStop", "suspend.delete",
     "destroy.lookup", "destroy.forwardStop", "destroy.delete", "destroy.deleteRow",
     "health.check", "health.setStatus",
     "refresh.get", "refresh.forwardStop", "refresh.forwardStart"}

PCs == {"idle", "joined"} \cup EnsureAwaits \cup OtherAwaits

\* A call on user u that awaits pc and holds what it read of a SandboxState.
Call(pc, u, sb) == [pc |-> pc, user |-> u, name |-> sb.name, port |-> sb.port, ref |-> None]

Idle == Call("idle", None, NoSandbox)

State == [phase: {"absent", "ready", "suspended", "error"}, name: Names \cup {None},
          port: Ports \cup {None}, ref: Refs \cup {None}]
Row   == [status: {"absent", "creating", "provisioning", "ready", "suspended", "error"},
          name: Names \cup {None}, agentPort: Ports \cup {None}]
Pod   == [phase: {"absent", "provisioning", "ready", "error"}, port: Ports \cup {None},
          cli: BOOLEAN]
Frame == [pc: PCs, user: Users \cup {None}, name: Names \cup {None},
          port: Ports \cup {None}, ref: Refs \cup {None}]

\* Every call in progress is one for some user.
CallsOK ==
    /\ calls \in [Calls -> Frame]
    /\ \A c \in Calls : calls[c].pc = "idle" \/ calls[c].user \in Users

TypeOK ==
    /\ sandboxes \in [Users -> State]
    /\ locks \in [Users -> Calls \cup {None}]
    /\ allocatedPorts \in SUBSET Ports
    /\ rows \in [Users -> Row]
    /\ pods \in [Names -> Pod]
    /\ forwards \in [Ports -> Names \cup {None}]
    /\ CallsOK
    /\ faults \in 0..MaxFaults
    /\ restarts \in 0..MaxRestarts

Init ==
    /\ sandboxes = [u \in Users |-> NoSandbox]
    /\ locks = [u \in Users |-> None]
    /\ allocatedPorts = {}
    /\ rows = [u \in Users |-> NoRow]
    /\ pods = [n \in Names |-> NoPod]
    /\ forwards = [p \in Ports |-> None]
    /\ calls = [c \in Calls |-> Idle]
    /\ faults = 0
    /\ restarts = 0

-----------------------------------------------------------------------------
(* Helpers *)

\* An outside failure of kind k, and its absence.
Fault(k) ==
    /\ k \in FaultKinds /\ faults < MaxFaults
    /\ faults' = faults + 1
    /\ UNCHANGED restarts

Works == UNCHANGED bounds

\* Slot c is free.  Nothing keeps a user's calls apart: a request, the timer of the
\* health loop and an administrator call the manager whenever they like.
Free(c) == calls[c].pc = "idle"

Goto(c, pc) == calls' = [calls EXCEPT ![c].pc = pc]

Finish(c) == calls' = [calls EXCEPT ![c] = Idle]

\* The promise of ensureSandboxInternal settles: the `finally` drops the lock and
\* every caller that awaited the same promise goes on.
Settle(c) ==
    LET u == calls[c].user IN
    /\ locks' = [locks EXCEPT ![u] = None]
    /\ calls' = [d \in Calls |->
                   IF d = c \/ (calls[d].pc = "joined" /\ calls[d].user = u)
                   THEN Idle ELSE calls[d]]

\* UPDATE user_sandboxes ... WHERE id = $1: no effect once the row is gone.
SetStatus(c, s) ==
    LET u == calls[c].user IN
    rows' = IF rows[u].name = calls[c].name
            THEN [rows EXCEPT ![u].status = s] ELSE rows

ReleasePort(p) == allocatedPorts' = allocatedPorts \ {p}

\* Mutant: forgets which ports are taken.
AllPorts == Ports

FreePorts == Ports \ allocatedPorts

\* allocatePort in call c for the sandbox named n: the first free port of the range.
\* The call goes on to await pc; it rejects when no port is free.
AllocatePort(c, n, pc) ==
    \/ \E p \in FreePorts :
         /\ \A q \in FreePorts : p <= q
         /\ allocatedPorts' = allocatedPorts \cup {p}
         /\ calls' = [calls EXCEPT ![c].pc = pc, ![c].name = n, ![c].port = p]
         /\ UNCHANGED locks
    \/ /\ FreePorts = {}
       /\ Settle(c)
       /\ UNCHANGED allocatedPorts

\* Mutant: trusts the metadata without looking whether a port is stored.
RecoverPortUnchecked(c) ==
    /\ allocatedPorts' = allocatedPorts \cup {calls[c].port}
    /\ Goto(c, "forwardStart")
    /\ UNCHANGED locks

\* recoverPort: the port in the record's metadata, as read by getByUserId, or a new one.
RecoverPort(c) ==
    \/ /\ calls[c].port # None
       /\ allocatedPorts' = allocatedPorts \cup {calls[c].port}
       /\ Goto(c, "forwardStart")
       /\ UNCHANGED locks
    \/ /\ calls[c].port = None
       /\ AllocatePort(c, calls[c].name, "forwardStart")

\* GET http://localhost:<port>/health: whoever the forward leads to answers.
Healthy(p) ==
    /\ forwards[p] # None
    /\ pods[forwards[p]].phase = "ready"
    /\ pods[forwards[p]].port = p

\* A pod goes away: its tunnels end with it.
ForwardsWithout(n) == [p \in Ports |-> IF forwards[p] = n THEN None ELSE forwards[p]]

DeletePod(n) ==
    /\ pods' = [pods EXCEPT ![n] = NoPod]
    /\ forwards' = ForwardsWithout(n)

\* A local port leads to one pod: a forward on a port in use fails.
StartForward(p, n) ==
    forwards' = IF forwards[p] = None /\ pods[n].phase = "ready"
                THEN [forwards EXCEPT ![p] = n] ELSE forwards

StopForward(p, n) ==
    forwards' = IF forwards[p] = n THEN [forwards EXCEPT ![p] = None] ELSE forwards

\* A new SandboxState for call c, cached with an identity no live object has.
Cache(c) ==
    LET u == calls[c].user
        live == {sandboxes[u].ref} \cup {calls[d].ref : d \in Calls}
    IN /\ Refs \ live # {}
       /\ sandboxes' = [sandboxes EXCEPT ![u] =
             [phase |-> "ready", name |-> calls[c].name, port |-> calls[c].port,
              ref |-> CHOOSE r \in Refs \ live : TRUE]]

Uncache(u) == sandboxes' = [sandboxes EXCEPT ![u] = NoSandbox]

-----------------------------------------------------------------------------
(* ensureSandbox.  With a ready cached sandbox it returns at once and changes  *)
(* nothing modelled here.                                                      *)

\* Another call's creation is in progress: await the same promise.
JoinEnsure(c, u) ==
    /\ Free(c)
    /\ sandboxes[u].phase # "ready"
    /\ locks[u] # None
    /\ calls' = [calls EXCEPT ![c] = Call("joined", u, NoSandbox)]
    /\ Works /\ UNCHANGED <<memory, rows, shell>>

\* Mutant: never looks at the lock map.
StartEnsureUnlocked(c, u) ==
    /\ Free(c)
    /\ sandboxes[u].phase # "ready"
    /\ locks' = [locks EXCEPT ![u] = c]
    /\ calls' = [calls EXCEPT ![c] = Call("getByUserId", u, NoSandbox)]
    /\ Works /\ UNCHANGED <<sandboxes, allocatedPorts, rows, shell>>

\* Nobody is at it: take the lock and query the user's row.
StartEnsure(c, u) ==
    /\ Free(c)
    /\ sandboxes[u].phase # "ready"
    /\ locks[u] = None
    /\ locks' = [locks EXCEPT ![u] = c]
    /\ calls' = [calls EXCEPT ![c] = Call("getByUserId", u, NoSandbox)]
    /\ Works /\ UNCHANGED <<sandboxes, allocatedPorts, rows, shell>>

\* Entries the quota counts.
Cached == {u \in Users : sandboxes[u].phase # "absent"}

AtQuota == MaxSandboxes > 0 /\ Cardinality(Cached) >= MaxSandboxes

GetByUserId(c) ==
    LET u == calls[c].user IN
    /\ calls[c].pc = "getByUserId"
    /\ \/ /\ rows[u].status # "absent"
          /\ calls' = [calls EXCEPT ![c].pc = "getPod", ![c].name = rows[u].name,
                                    ![c].port = rows[u].agentPort]
          /\ UNCHANGED locks
       \/ /\ rows[u].status = "absent" /\ ~AtQuota
          /\ Goto(c, "insertRow")
          /\ UNCHANGED locks
       \/ /\ rows[u].status = "absent" /\ AtQuota
          /\ Settle(c)
    /\ Works /\ UNCHANGED <<sandboxes, allocatedPorts, rows, shell>>

\* A name with a fresh suffix: nothing refers to it.
FreshNames(u) ==
    {n \in {u} \X Gens :
        /\ pods[n].phase = "absent"
        /\ rows[u].name # n /\ sandboxes[u].name # n
        /\ \A d \in Calls : calls[d].name # n}

\* createNewSandbox after the quota check: INSERT, then a port for the new record.
InsertRow(c) ==
    LET u == calls[c].user IN
    /\ calls[c].pc = "insertRow"
    /\ rows[u].status = "absent"
    /\ \E n \in FreshNames(u) :
         /\ rows' = [rows EXCEPT ![u] = [status |-> "creating", name |-> n, agentPort |-> None]]
         /\ AllocatePort(c, n, "setProvisioning")
    /\ Works /\ UNCHANGED <<sandboxes, shell>>

\* handleExistingRecord: what OpenShell says of the record's pod decides.  An exit code
\* of 1 from the CLI counts as "no such sandbox", whatever the reason.
GetPod(c) ==
    LET phase == pods[calls[c].name].phase IN
    /\ calls[c].pc = "getPod"
    /\ \/ phase = "ready"        /\ RecoverPort(c) /\ Works
       \/ phase = "provisioning" /\ Goto(c, "setWaiting") /\ UNCHANGED <<locks, allocatedPorts>> /\ Works
       \/ phase = "error"        /\ Goto(c, "deletePod") /\ UNCHANGED <<locks, allocatedPorts>> /\ Works
       \/ /\ IF phase = "absent" THEN Works ELSE Fault("cli")
          /\ AllocatePort(c, calls[c].name, "setProvisioning")
    /\ UNCHANGED <<sandboxes, rows, shell>>

\* The pod is in error: delete it (best effort), then create it again.
EnsureDeletePod(c) ==
    /\ calls[c].pc = "deletePod"
    /\ \/ DeletePod(calls[c].name) /\ Works
       \/ Fault("cli") /\ UNCHANGED shell
    /\ AllocatePort(c, calls[c].name, "setProvisioning")
    /\ UNCHANGED <<sandboxes, rows>>

\* The pod still starts: record that, then wait for it.
SetWaiting(c) ==
    /\ calls[c].pc = "setWaiting"
    /\ SetStatus(c, "provisioning")
    /\ Goto(c, "waitReady")
    /\ Works /\ UNCHANGED <<memory, shell>>

\* waitReady outside any try: its failure rejects ensureSandbox.
WaitReady(c) ==
    LET phase == pods[calls[c].name].phase IN
    /\ calls[c].pc = "waitReady"
    /\ \/ phase = "ready" /\ RecoverPort(c) /\ Works
       \/ phase \in {"absent", "error"} /\ Settle(c) /\ Works /\ UNCHANGED allocatedPorts
       \/ phase = "provisioning" /\ Fault("slow") /\ Settle(c) /\ UNCHANGED allocatedPorts
       \/ Fault("cli") /\ Settle(c) /\ UNCHANGED allocatedPorts
    /\ UNCHANGED <<sandboxes, rows, shell>>

\* The forward of a running pod; its failure is ignored and the state is cached.
ForwardStart(c) ==
    /\ calls[c].pc = "forwardStart"
    /\ \/ StartForward(calls[c].port, calls[c].name) /\ Works
       \/ Fault("cli") /\ UNCHANGED forwards
    /\ Cache(c)
    /\ Goto(c, "setReattached")
    /\ UNCHANGED <<locks, allocatedPorts, rows, pods>>

SetReattached(c) ==
    /\ calls[c].pc = "setReattached"
    /\ SetStatus(c, "ready")
    /\ Settle(c)
    /\ Works /\ UNCHANGED <<sandboxes, allocatedPorts, shell>>

\* createSandboxForRecord: then `openshell sandbox create --forward <port>` is spawned.
SetProvisioning(c) ==
    LET n == calls[c].name IN
    /\ calls[c].pc = "setProvisioning"
    /\ SetStatus(c, "provisioning")
    /\ pods' = IF pods[n].phase = "absent"
               THEN [pods EXCEPT ![n] = [phase |-> "provisioning", port |-> calls[c].port,
                                         cli |-> TRUE]]
               ELSE pods
    /\ Goto(c, "createPod")
    /\ Works /\ UNCHANGED <<memory, forwards>>

\* Mutant: the catch block forgets the port.
CatchKeepsPort(c) ==
    /\ UNCHANGED allocatedPorts
    /\ Goto(c, "setError")

\* The catch block: the port goes back, the error status is written.
Catch(c) ==
    /\ ReleasePort(calls[c].port)
    /\ Goto(c, "setError")

\* The CLI session that created pod n is killed; its forward may end with it.
KillSession(n) ==
    /\ pods' = [pods EXCEPT ![n].cli = FALSE]
    /\ forwards' \in {forwards, ForwardsWithout(n)}

\* OpenShellClient.create polls waitReady; when that fails the CLI is killed.
CreatePod(c) ==
    LET n == calls[c].name IN
    /\ calls[c].pc = "createPod"
    /\ \/ /\ pods[n].phase = "ready"
          /\ Goto(c, "waitForHealthy")
          /\ Works /\ UNCHANGED <<allocatedPorts, shell>>
       \/ /\ \/ pods[n].phase \in {"absent", "error"} /\ Works
             \/ pods[n].phase = "provisioning" /\ Fault("slow")
             \/ Fault("cli")
          /\ Catch(c)
          /\ KillSession(n)
    /\ UNCHANGED <<sandboxes, locks, rows>>

\* Polls /health through the forward; a sandbox that never answers is an error.
WaitForHealthy(c) ==
    /\ calls[c].pc = "waitForHealthy"
    /\ \/ /\ Healthy(calls[c].port)
          /\ Cache(c)
          /\ Goto(c, "setReady")
          /\ UNCHANGED allocatedPorts
       \/ /\ ~Healthy(calls[c].port)
          /\ Catch(c)
          /\ UNCHANGED sandboxes
    /\ Works /\ UNCHANGED <<locks, rows, shell>>

SetReady(c) ==
    /\ calls[c].pc = "setReady"
    /\ SetStatus(c, "ready")
    /\ Goto(c, "setMetadata")
    /\ Works /\ UNCHANGED <<memory, shell>>

SetMetadata(c) ==
    LET u == calls[c].user IN
    /\ calls[c].pc = "setMetadata"
    /\ rows' = IF rows[u].name = calls[c].name
               THEN [rows EXCEPT ![u].agentPort = calls[c].port] ELSE rows
    /\ Settle(c)
    /\ Works /\ UNCHANGED <<sandboxes, allocatedPorts, shell>>

\* A database error once the state is cached still ends in the catch block.
FailAfterCache(c) ==
    /\ calls[c].pc \in {"setReady", "setMetadata"}
    /\ Fault("db")
    /\ Catch(c)
    /\ UNCHANGED <<sandboxes, locks, rows, shell>>

SetError(c) ==
    /\ calls[c].pc = "setError"
    /\ SetStatus(c, "error")
    /\ Settle(c)
    /\ Works /\ UNCHANGED <<sandboxes, allocatedPorts, shell>>

\* Mutant: locks.delete follows the await instead of standing in a `finally`.
EnsureRejectsKeepsLock(c) ==
    /\ \/ /\ calls[c].pc \in {"getByUserId", "insertRow", "setWaiting", "setReattached",
                              "setProvisioning", "setError"}
          /\ Fault("db")
       \/ calls[c].pc = "getPod" /\ Fault("cli")
    /\ Finish(c)
    /\ UNCHANGED <<memory, rows, shell>>

\* An await outside any try rejects: ensureSandbox rejects with it.  An INSERT also
\* meets the unique index on user_id, and the bound Gens when no name is left.
EnsureRejects(c) ==
    /\ \/ /\ calls[c].pc \in {"getByUserId", "insertRow", "setWaiting", "setReattached",
                              "setProvisioning", "setError"}
          /\ Fault("db")
       \/ calls[c].pc = "getPod" /\ Fault("cli")
       \/ /\ calls[c].pc = "insertRow"
          /\ rows[calls[c].user].status # "absent" \/ FreshNames(calls[c].user) = {}
          /\ Works
    /\ Settle(c)
    /\ UNCHANGED <<sandboxes, allocatedPorts, rows, shell>>

EnsureStep(c) ==
    \/ GetByUserId(c) \/ InsertRow(c) \/ GetPod(c) \/ EnsureDeletePod(c)
    \/ SetWaiting(c) \/ WaitReady(c) \/ ForwardStart(c) \/ SetReattached(c)
    \/ SetProvisioning(c) \/ CreatePod(c) \/ WaitForHealthy(c)
    \/ SetReady(c) \/ SetMetadata(c) \/ FailAfterCache(c) \/ SetError(c)
    \/ EnsureRejects(c)

-----------------------------------------------------------------------------
(* suspendSandbox, called by suspendIdleSandboxes *)

\* Suspension is for a sandbox idle for minutes, not one ensureSandbox has just cached.
SuspendSandbox(c, u) ==
    /\ Free(c)
    /\ sandboxes[u].phase = "ready"
    /\ \A d \in Calls : calls[d].user = u => calls[d].pc \notin EnsureAwaits
    /\ sandboxes' = [sandboxes EXCEPT ![u].phase = "suspended"]
    /\ calls' = [calls EXCEPT ![c] = Call("suspend.setStatus", u, sandboxes[u])]
    /\ Works /\ UNCHANGED <<locks, allocatedPorts, rows, shell>>

SuspendSetStatus(c) ==
    /\ calls[c].pc = "suspend.setStatus"
    /\ SetStatus(c, "suspended")
    /\ Goto(c, "suspend.forwardStop")
    /\ Works /\ UNCHANGED <<memory, shell>>

\* Mutant: suspension leaves the cache entry behind.
SuspendDeleteKeepsEntry(c) ==
    /\ calls[c].pc = "suspend.delete"
    /\ \/ DeletePod(calls[c].name) /\ Works
       \/ Fault("cli") /\ UNCHANGED shell
    /\ ReleasePort(calls[c].port)
    /\ Finish(c)
    /\ UNCHANGED <<sandboxes, locks, rows>>

\* The pod goes (best effort), then the port and whatever the user has cached by now.
SuspendDelete(c) ==
    /\ calls[c].pc = "suspend.delete"
    /\ \/ DeletePod(calls[c].name) /\ Works
       \/ Fault("cli") /\ UNCHANGED shell
    /\ ReleasePort(calls[c].port)
    /\ Uncache(calls[c].user)
    /\ Finish(c)
    /\ UNCHANGED <<locks, rows>>

-----------------------------------------------------------------------------
(* destroySandbox *)

\* A cached sandbox is torn down from its state, any other from its row.
DestroySandbox(c, u) ==
    /\ Free(c)
    /\ calls' = [calls EXCEPT ![c] =
                   IF sandboxes[u].phase # "absent"
                   THEN Call("destroy.forwardStop", u, sandboxes[u])
                   ELSE Call("destroy.lookup", u, NoSandbox)]
    /\ Works /\ UNCHANGED <<memory, rows, shell>>

\* The forward it then stops is the one on config.agentPort, outside the range.
DestroyLookup(c) ==
    LET u == calls[c].user IN
    /\ calls[c].pc = "destroy.lookup"
    /\ \/ /\ rows[u].status = "absent"
          /\ Finish(c)
       \/ /\ rows[u].status # "absent"
          /\ calls' = [calls EXCEPT ![c].pc = "destroy.delete", ![c].name = rows[u].name]
    /\ Works /\ UNCHANGED <<memory, rows, shell>>

\* Mutant: only the pod of a cached sandbox is deleted.
DestroyDeleteCached(c) ==
    /\ calls[c].pc = "destroy.delete"
    /\ IF calls[c].port # None THEN DeletePod(calls[c].name) ELSE UNCHANGED shell
    /\ Goto(c, "destroy.deleteRow")
    /\ Works /\ UNCHANGED <<memory, rows>>

DestroyDelete(c) ==
    /\ calls[c].pc = "destroy.delete"
    /\ \/ DeletePod(calls[c].name) /\ Works
       \/ Fault("cli") /\ UNCHANGED shell
    /\ Goto(c, "destroy.deleteRow")
    /\ UNCHANGED <<memory, rows>>

\* Mutant: destruction also clears the lock entry of a creation in progress.
DestroyDeleteRowUnlocks(c) ==
    LET u == calls[c].user IN
    /\ calls[c].pc = "destroy.deleteRow"
    /\ rows' = IF rows[u].name = calls[c].name THEN [rows EXCEPT ![u] = NoRow] ELSE rows
    /\ locks' = [locks EXCEPT ![u] = None]
    /\ UNCHANGED <<allocatedPorts, sandboxes>>
    /\ Finish(c)
    /\ Works /\ UNCHANGED shell

\* The row goes, and for a cached sandbox its port and the cache entry.
DestroyDeleteRow(c) ==
    LET u == calls[c].user IN
    /\ calls[c].pc = "destroy.deleteRow"
    /\ rows' = IF rows[u].name = calls[c].name THEN [rows EXCEPT ![u] = NoRow] ELSE rows
    /\ IF calls[c].port # None
       THEN ReleasePort(calls[c].port) /\ Uncache(u)
       ELSE UNCHANGED <<allocatedPorts, sandboxes>>
    /\ Finish(c)
    /\ Works /\ UNCHANGED <<locks, shell>>

-----------------------------------------------------------------------------
(* healthCheckAll, one user's iteration *)

HealthCheck(c, u) ==
    /\ Free(c)
    /\ sandboxes[u].phase = "ready"
    /\ calls' = [calls EXCEPT ![c] =
                   [Call("health.check", u, sandboxes[u]) EXCEPT !.ref = sandboxes[u].ref]]
    /\ Works /\ UNCHANGED <<memory, rows, shell>>

\* A probe that gets no answer in 5 s marks the SandboxState it was started for.
HealthResult(c) ==
    LET u == calls[c].user IN
    /\ calls[c].pc = "health.check"
    /\ \/ /\ Healthy(calls[c].port)
          /\ Finish(c)
          /\ Works /\ UNCHANGED sandboxes
       \/ /\ IF Healthy(calls[c].port) THEN Fault("probe") ELSE Works
          /\ sandboxes' = IF sandboxes[u].ref = calls[c].ref
                          THEN [sandboxes EXCEPT ![u].phase = "error"] ELSE sandboxes
          /\ Goto(c, "health.setStatus")
    /\ UNCHANGED <<locks, allocatedPorts, rows, shell>>

\* The port and the cache entry go; the forward and the pod stay.
HealthSetStatus(c) ==
    /\ calls[c].pc = "health.setStatus"
    /\ SetStatus(c, "error")
    /\ ReleasePort(calls[c].port)
    /\ Uncache(calls[c].user)
    /\ Finish(c)
    /\ Works /\ UNCHANGED <<locks, shell>>

-----------------------------------------------------------------------------
(* refreshPortForward *)

RefreshPortForward(c, u) ==
    /\ Free(c)
    /\ sandboxes[u].phase = "ready"
    /\ calls' = [calls EXCEPT ![c] = Call("refresh.get", u, sandboxes[u])]
    /\ Works /\ UNCHANGED <<memory, rows, shell>>

RefreshGet(c) ==
    /\ calls[c].pc = "refresh.get"
    /\ \/ pods[calls[c].name].phase = "ready" /\ Goto(c, "refresh.forwardStop")
       \/ pods[calls[c].name].phase # "ready" /\ Finish(c)
    /\ Works /\ UNCHANGED <<memory, rows, shell>>

RefreshForwardStart(c) ==
    /\ calls[c].pc = "refresh.forwardStart"
    /\ \/ StartForward(calls[c].port, calls[c].name) /\ Works
       \/ Fault("cli") /\ UNCHANGED forwards
    /\ Finish(c)
    /\ UNCHANGED <<memory, rows, pods>>

-----------------------------------------------------------------------------
(* Steps that suspend, destroy and refresh share *)

\* forwardStop, its error ignored.
ForwardStop(c) ==
    /\ \/ calls[c].pc = "suspend.forwardStop" /\ Goto(c, "suspend.delete")
       \/ calls[c].pc = "destroy.forwardStop" /\ Goto(c, "destroy.delete")
       \/ calls[c].pc = "refresh.forwardStop" /\ Goto(c, "refresh.forwardStart")
    /\ \/ StopForward(calls[c].port, calls[c].name) /\ Works
       \/ Fault("cli") /\ UNCHANGED forwards
    /\ UNCHANGED <<memory, rows, pods>>

\* An await outside any try rejects: the call ends where it is.
OtherRejects(c) ==
    /\ \/ /\ calls[c].pc \in {"suspend.setStatus", "destroy.lookup", "destroy.deleteRow",
                              "health.setStatus"}
          /\ Fault("db")
       \/ calls[c].pc = "refresh.get" /\ Fault("cli")
    /\ Finish(c)
    /\ UNCHANGED <<memory, rows, shell>>

OtherStep(c) ==
    \/ SuspendSetStatus(c) \/ SuspendDelete(c)
    \/ DestroyLookup(c) \/ DestroyDelete(c) \/ DestroyDeleteRow(c)
    \/ HealthResult(c) \/ HealthSetStatus(c)
    \/ RefreshGet(c) \/ RefreshForwardStart(c)
    \/ ForwardStop(c) \/ OtherRejects(c)

-----------------------------------------------------------------------------
(* OpenShell, and the life of the process *)

\* A starting pod runs its server; the CLI session that created it forwards the port.
PodReady(n) ==
    /\ pods[n].phase = "provisioning"
    /\ pods' = [pods EXCEPT ![n].phase = "ready"]
    /\ forwards' = IF pods[n].cli /\ forwards[pods[n].port] = None
                   THEN [forwards EXCEPT ![pods[n].port] = n] ELSE forwards
    /\ Works /\ UNCHANGED <<memory, rows, calls>>

PodDies(n) ==
    /\ pods[n].phase \in {"provisioning", "ready"}
    /\ "pod" \in FaultKinds /\ Works
    /\ pods' = [pods EXCEPT ![n].phase = "error"]
    /\ forwards' = ForwardsWithout(n)
    /\ UNCHANGED <<memory, rows, calls>>

\* An SSH tunnel times out.
ForwardDies(p) ==
    /\ forwards[p] # None
    /\ Fault("tunnel")
    /\ forwards' = [forwards EXCEPT ![p] = None]
    /\ UNCHANGED <<memory, rows, pods, calls>>

\* The process ends and starts again; detached CLI sessions go on, or end with it.
Restart ==
    /\ restarts < MaxRestarts
    /\ restarts' = restarts + 1
    /\ sandboxes' = [u \in Users |-> NoSandbox]
    /\ locks' = [u \in Users |-> None]
    /\ allocatedPorts' = {}
    /\ calls' = [c \in Calls |-> Idle]
    /\ forwards' \in {forwards, [p \in Ports |-> None]}
    /\ UNCHANGED <<rows, pods, faults>>

Begin(c, u) ==
    \/ JoinEnsure(c, u) \/ StartEnsure(c, u)
    \/ SuspendSandbox(c, u) \/ DestroySandbox(c, u)
    \/ HealthCheck(c, u) \/ RefreshPortForward(c, u)

Next ==
    \/ \E c \in Calls : EnsureStep(c) \/ OtherStep(c)
    \/ \E c \in Calls, u \in Users : Begin(c, u)
    \/ \E n \in Names : PodReady(n) \/ PodDies(n)
    \/ \E p \in Ports : ForwardDies(p)
    \/ Restart

Spec == Init /\ [][Next]_vars

\* Awaits end: CLI and HTTP calls carry timeouts, and a starting pod starts or errs.
Fairness ==
    /\ \A c \in Calls : WF_vars(EnsureStep(c)) /\ WF_vars(OtherStep(c))
    /\ \A n \in Names : WF_vars(PodReady(n))

FairSpec == Spec /\ Fairness

-----------------------------------------------------------------------------
(* Properties *)

\* The calls that work on creating or resuming the sandbox of a user.
Creators(u) == {c \in Calls : calls[c].user = u /\ calls[c].pc \in EnsureAwaits}

Mutex == INSTANCE KeyedMutex WITH Keys <- Users, Agents <- Calls,
                                  holders <- [u \in Users |-> Creators(u)]

\* However calls interleave, fail and crash, the lock map lets one call at a time
\* create or resume a user's sandbox (sandbox-manager.ts:48, 96-109): the manager
\* implements the per-key mutual exclusion of KeyedMutex.
OneCreationPerUser == Mutex!Spec

\* One sandbox lineage per user: as long as the user's row exists, a running
\* ensureSandbox past its lookup and a ready cached sandbox both name the sandbox
\* of that row, although rows come and go under them (destroySandbox takes no lock).
OneLineage ==
    \A u \in Users : rows[u].status # "absent" =>
        /\ sandboxes[u].phase = "ready" => sandboxes[u].name = rows[u].name
        /\ \A c \in Creators(u) : calls[c].name \in {None, rows[u].name}

\* A held lock is that of a creation in progress for its user, and who joined waits for
\* such a one: no way out of a creation leaves a promise in the map (the `finally` at
\* 107-109) that a later call would join for ever.
LockOwned ==
    /\ \A u \in Users : locks[u] # None =>
         calls[locks[u]].pc \in EnsureAwaits /\ calls[locks[u]].user = u
    /\ \A c \in Calls : calls[c].pc = "joined" => locks[calls[c].user] # None

\* Every creation ends and gives its lock back, on success, on every error path and
\* when the pod it waits for is deleted under it (the `finally` at 107-109).
LockReleased == \A u \in Users : locks[u] # None ~> locks[u] = None

\* "Allocate a unique local port for a sandbox ... maps localhost:<port> to
\* sandbox:<port>" (sandbox-manager.ts:709-713): what getHttpClient hands out for a user
\* leads to that user's sandbox or nowhere.
RoutedToOwner ==
    \A u \in Users : sandboxes[u].phase = "ready" =>
        forwards[sandboxes[u].port] \in {None, sandboxes[u].name}
=============================================================================
