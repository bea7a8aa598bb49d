------------------------ MODULE SandboxManagerProofs ------------------------
(***************************************************************************)
(* Theorems about SandboxManager for every set of users, call slots, ports *)
(* and bounds: type correctness, the exclusion the lock map provides, and  *)
(* the single lineage of sandboxes per user that rests on it.              *)
(***************************************************************************)
EXTENDS SandboxManager, TLAPS

LEMMA IdleType == Idle \in Frame
  BY DEF Idle, Call, NoSandbox, Frame, PCs

LEMMA BoundsType ==
    ASSUME faults \in 0..MaxFaults, restarts \in 0..MaxRestarts,
           Works \/ \E k \in AllFaults : Fault(k)
    PROVE  faults' \in 0..MaxFaults /\ restarts' \in 0..MaxRestarts
  BY ConstantsAssumption DEF Works, Fault, bounds

LEMMA AwaitsArePCs ==
    EnsureAwaits \subseteq PCs /\ OtherAwaits \subseteq PCs /\ "joined" \in PCs
  BY DEF PCs

LEMMA GotoType ==
    ASSUME CallsOK, NEW c \in Calls, calls[c].pc # "idle",
           NEW pc \in EnsureAwaits \cup OtherAwaits, Goto(c, pc)
    PROVE  CallsOK'
  BY AwaitsArePCs DEF Goto, Frame, CallsOK

\* A call goes on with a sandbox name and a port.
LEMMA MoveType ==
    ASSUME CallsOK, NEW c \in Calls, calls[c].pc # "idle",
           NEW pc \in EnsureAwaits \cup OtherAwaits,
           NEW n \in Names \cup {None}, NEW p \in Ports \cup {None},
           calls' = [calls EXCEPT ![c].pc = pc, ![c].name = n, ![c].port = p]
    PROVE  CallsOK'
<1> DEFINE f == [calls[c] EXCEPT !.pc = pc, !.name = n, !.port = p]
<1>1. calls[c] \in Frame /\ calls[c].user \in Users
  BY DEF CallsOK
<1>2. f \in Frame /\ f.user = calls[c].user
  BY <1>1, AwaitsArePCs DEF Frame
<1>3. calls' \in [Calls -> Frame] /\ calls'[c] = f /\ \A d \in Calls \ {c} : calls'[d] = calls[d]
  <2>1. calls' = [calls EXCEPT ![c] = f]
    BY DEF CallsOK
  <2> HIDE DEF f
  <2>2. QED
    BY <1>2, <2>1 DEF CallsOK
<1> HIDE DEF f
<1>4. QED
  BY <1>1, <1>2, <1>3 DEF CallsOK

LEMMA FinishType ==
    ASSUME CallsOK, NEW c \in Calls, Finish(c)
    PROVE  CallsOK'
  BY IdleType DEF Finish, CallsOK, Idle, Call

LEMMA SettleType ==
    ASSUME CallsOK, locks \in [Users -> Calls \cup {None}], NEW c \in Calls, Settle(c)
    PROVE  CallsOK' /\ locks' \in [Users -> Calls \cup {None}]
  BY IdleType DEF Settle, CallsOK, Idle, Call

LEMMA CallType ==
    ASSUME NEW sb \in State, NEW u \in Users, NEW pc \in PCs
    PROVE  Call(pc, u, sb) \in Frame
  BY DEF Call, State, Frame

LEMMA SetStatusType ==
    ASSUME rows \in [Users -> Row], NEW c, NEW s \in
             {"creating", "provisioning", "ready", "suspended", "error"}, SetStatus(c, s)
    PROVE  rows' \in [Users -> Row]
  BY DEF SetStatus, Row

LEMMA AllocateType ==
    ASSUME allocatedPorts \in SUBSET Ports, CallsOK, locks \in [Users -> Calls \cup {None}],
           NEW c \in Calls, calls[c].pc # "idle", NEW n \in Names \cup {None},
           NEW pc \in EnsureAwaits, AllocatePort(c, n, pc)
    PROVE  /\ allocatedPorts' \in SUBSET Ports
           /\ CallsOK'
           /\ locks' \in [Users -> Calls \cup {None}]
<1>1. CASE FreePorts = {} /\ Settle(c) /\ UNCHANGED allocatedPorts
  BY <1>1, SettleType
<1>2. ASSUME NEW p \in FreePorts, allocatedPorts' = allocatedPorts \cup {p},
             calls' = [calls EXCEPT ![c].pc = pc, ![c].name = n, ![c].port = p],
             UNCHANGED locks
      PROVE  /\ allocatedPorts' \in SUBSET Ports
             /\ CallsOK'
             /\ locks' \in [Users -> Calls \cup {None}]
  BY <1>2, MoveType DEF FreePorts
<1>3. QED
  BY <1>1, <1>2 DEF AllocatePort

LEMMA RecoverType ==
    ASSUME allocatedPorts \in SUBSET Ports, CallsOK, locks \in [Users -> Calls \cup {None}],
           NEW c \in Calls, calls[c].pc # "idle", RecoverPort(c)
    PROVE  /\ allocatedPorts' \in SUBSET Ports
           /\ CallsOK'
           /\ locks' \in [Users -> Calls \cup {None}]
<1>0. "forwardStart" \in EnsureAwaits
  BY DEF EnsureAwaits
<1>1. CASE calls[c].port # None /\ Goto(c, "forwardStart") /\ UNCHANGED locks
             /\ allocatedPorts' = allocatedPorts \cup {calls[c].port}
  BY <1>0, <1>1, GotoType DEF Frame, CallsOK
<1>2. CASE AllocatePort(c, calls[c].name, "forwardStart")
  <2>1. calls[c].name \in Names \cup {None}
    BY DEF Frame, CallsOK
  <2>2. QED
    BY <1>0, <1>2, <2>1, AllocateType
<1>3. QED
  BY <1>1, <1>2 DEF RecoverPort

LEMMA CacheType ==
    ASSUME sandboxes \in [Users -> State], CallsOK, NEW c \in Calls, Cache(c)
    PROVE  sandboxes' \in [Users -> State]
<1> DEFINE live == {sandboxes[calls[c].user].ref} \cup {calls[d].ref : d \in Calls}
           r == CHOOSE x \in Refs \ live : TRUE
           sb == [phase |-> "ready", name |-> calls[c].name, port |-> calls[c].port, ref |-> r]
<1>1. Refs \ live # {} /\ sandboxes' = [sandboxes EXCEPT ![calls[c].user] = sb]
  BY DEF Cache
<1>2. r \in Refs
  BY <1>1
<1>3. calls[c].name \in Names \cup {None} /\ calls[c].port \in Ports \cup {None}
  BY DEF Frame, CallsOK
<1>4. sb \in State
  <2> HIDE DEF r
  <2> QED BY <1>2, <1>3 DEF State
<1> HIDE DEF sb
<1>5. QED
  BY <1>1, <1>4

LEMMA UncacheType ==
    ASSUME sandboxes \in [Users -> State], NEW u, Uncache(u)
    PROVE  sandboxes' \in [Users -> State]
  BY DEF Uncache, NoSandbox, State

LEMMA DeletePodType ==
    ASSUME pods \in [Names -> Pod], forwards \in [Ports -> Names \cup {None}], NEW n
    PROVE  /\ DeletePod(n) => pods' \in [Names -> Pod]
           /\ ForwardsWithout(n) \in [Ports -> Names \cup {None}]
           /\ DeletePod(n) => forwards' \in [Ports -> Names \cup {None}]
<1>1. NoPod \in Pod
  BY DEF NoPod, Pod
<1>2. ForwardsWithout(n) \in [Ports -> Names \cup {None}]
  BY DEF ForwardsWithout
<1>3. QED
  BY <1>1, <1>2 DEF DeletePod

LEMMA ForwardType ==
    ASSUME forwards \in [Ports -> Names \cup {None}], NEW p, NEW n \in Names \cup {None},
           StartForward(p, n) \/ StopForward(p, n)
    PROVE  forwards' \in [Ports -> Names \cup {None}]
  BY DEF StartForward, StopForward
-----------------------------------------------------------------------------
(* Type correctness *)

LEMMA TypeInit == Init => TypeOK
<1> SUFFICES ASSUME Init PROVE TypeOK
  OBVIOUS
<1>1. NoSandbox \in State /\ NoRow \in Row /\ NoPod \in Pod
  BY DEF NoSandbox, State, NoRow, Row, NoPod, Pod
<1>2. 0 \in 0..MaxFaults /\ 0 \in 0..MaxRestarts
  BY ConstantsAssumption
<1>3. QED
  BY <1>1, <1>2, IdleType DEF Init, TypeOK, CallsOK, Idle, Call

\* The port and the name a call holds.
LEMMA CallTypes ==
    ASSUME TypeOK, NEW c \in Calls, calls[c].pc # "idle"
    PROVE  /\ calls[c].user \in Users
           /\ calls[c].name \in Names \cup {None}
           /\ calls[c].port \in Ports \cup {None}
           /\ rows[calls[c].user] \in Row
           /\ sandboxes[calls[c].user] \in State
  BY DEF TypeOK, CallsOK, Frame

\* What leaves a variable alone keeps its type.
LEMMA Unchanged ==
    ASSUME TypeOK
    PROVE  /\ UNCHANGED sandboxes => sandboxes' \in [Users -> State]
           /\ UNCHANGED locks => locks' \in [Users -> Calls \cup {None}]
           /\ UNCHANGED allocatedPorts => allocatedPorts' \in SUBSET Ports
           /\ UNCHANGED rows => rows' \in [Users -> Row]
           /\ UNCHANGED pods => pods' \in [Names -> Pod]
           /\ UNCHANGED forwards => forwards' \in [Ports -> Names \cup {None}]
           /\ UNCHANGED calls => CallsOK'
           /\ UNCHANGED bounds => faults' \in 0..MaxFaults /\ restarts' \in 0..MaxRestarts
  BY DEF TypeOK, CallsOK, bounds

\* Every step of a running ensureSandbox keeps the types.
LEMMA TypeEnsureStep ==
    ASSUME TypeOK, NEW c \in Calls, EnsureStep(c)
    PROVE  TypeOK'
<1> USE DEF EnsureAwaits, OtherAwaits, AllFaults
<1>1. CASE GetByUserId(c)
  <2>1. calls[c].pc = "getByUserId" /\ Works
        /\ UNCHANGED <<sandboxes, allocatedPorts, rows, shell>>
    BY <1>1 DEF GetByUserId
  <2>2. calls[c].user \in Users /\ rows[calls[c].user] \in Row
    BY <2>1, CallTypes
  <2>3. CASE calls' = [calls EXCEPT ![c].pc = "getPod", ![c].name = rows[calls[c].user].name,
                                    ![c].port = rows[calls[c].user].agentPort]
             /\ UNCHANGED locks
    <3>1. CallsOK'
      BY <2>1, <2>2, <2>3, MoveType DEF TypeOK, Row
    <3>2. QED
      BY <2>1, <2>3, <3>1, Unchanged DEF TypeOK, Works, shell
  <2>4. CASE Goto(c, "insertRow") /\ UNCHANGED locks
    <3>1. CallsOK'
      BY <2>1, <2>4, GotoType DEF TypeOK
    <3>2. QED
      BY <2>1, <2>4, <3>1, Unchanged DEF TypeOK, Works, shell
  <2>5. CASE Settle(c)
    <3>1. CallsOK' /\ locks' \in [Users -> Calls \cup {None}]
      BY <2>5, SettleType DEF TypeOK
    <3>2. QED
      BY <2>1, <3>1, Unchanged DEF TypeOK, Works, shell
  <2>6. QED
    BY <1>1, <2>3, <2>4, <2>5 DEF GetByUserId
<1>2. CASE InsertRow(c)
  <2>1. calls[c].pc = "insertRow" /\ Works /\ UNCHANGED <<sandboxes, shell>>
    BY <1>2 DEF InsertRow
  <2>2. PICK n \in FreshNames(calls[c].user) :
          /\ rows' = [rows EXCEPT ![calls[c].user] =
                        [status |-> "creating", name |-> n, agentPort |-> None]]
          /\ AllocatePort(c, n, "setProvisioning")
    BY <1>2 DEF InsertRow
  <2>3. n \in Names
    BY <2>1, CallTypes DEF FreshNames, Names
  <2>4. rows' \in [Users -> Row]
    BY <2>2, <2>3 DEF TypeOK, Row
  <2>5. /\ allocatedPorts' \in SUBSET Ports
        /\ CallsOK'
        /\ locks' \in [Users -> Calls \cup {None}]
    BY <2>1, <2>2, <2>3, AllocateType DEF TypeOK
  <2>6. QED
    BY <2>1, <2>4, <2>5, Unchanged DEF TypeOK, Works, shell
<1>3. CASE GetPod(c)
  <2>1. calls[c].pc = "getPod" /\ UNCHANGED <<sandboxes, rows, shell>>
    BY <1>3 DEF GetPod
  <2>2. /\ allocatedPorts' \in SUBSET Ports
        /\ CallsOK'
        /\ locks' \in [Users -> Calls \cup {None}]
    <3>1. CASE RecoverPort(c)
      BY <2>1, <3>1, RecoverType DEF TypeOK
    <3>2. CASE (Goto(c, "setWaiting") \/ Goto(c, "deletePod")) /\ UNCHANGED <<locks, allocatedPorts>>
      BY <2>1, <3>2, GotoType, Unchanged DEF TypeOK
    <3>3. CASE AllocatePort(c, calls[c].name, "setProvisioning")
      BY <2>1, <3>3, AllocateType, CallTypes DEF TypeOK
    <3>4. QED
      BY <1>3, <3>1, <3>2, <3>3 DEF GetPod
  <2>3. faults' \in 0..MaxFaults /\ restarts' \in 0..MaxRestarts
    BY <1>3, BoundsType DEF GetPod, TypeOK
  <2>4. QED
    BY <2>1, <2>2, <2>3, Unchanged DEF TypeOK, shell
<1>4. CASE EnsureDeletePod(c)
  <2>1. /\ calls[c].pc = "deletePod" /\ UNCHANGED <<sandboxes, rows>>
        /\ AllocatePort(c, calls[c].name, "setProvisioning")
    BY <1>4 DEF EnsureDeletePod
  <2>2. /\ allocatedPorts' \in SUBSET Ports
        /\ CallsOK'
        /\ locks' \in [Users -> Calls \cup {None}]
    BY <2>1, AllocateType, CallTypes DEF TypeOK
  <2>3. pods' \in [Names -> Pod] /\ forwards' \in [Ports -> Names \cup {None}]
    BY <1>4, DeletePodType DEF EnsureDeletePod, TypeOK, shell
  <2>4. faults' \in 0..MaxFaults /\ restarts' \in 0..MaxRestarts
    BY <1>4, BoundsType DEF EnsureDeletePod, TypeOK
  <2>5. QED
    BY <2>1, <2>2, <2>3, <2>4, Unchanged DEF TypeOK
<1>5. CASE SetWaiting(c)
  <2>1. CallsOK'
    BY <1>5, GotoType DEF SetWaiting, TypeOK
  <2>2. rows' \in [Users -> Row]
    BY <1>5, SetStatusType DEF SetWaiting, TypeOK
  <2>3. QED
    BY <1>5, <2>1, <2>2, Unchanged DEF SetWaiting, TypeOK, Works, memory, shell
<1>6. CASE WaitReady(c)
  <2>1. /\ allocatedPorts' \in SUBSET Ports
        /\ CallsOK'
        /\ locks' \in [Users -> Calls \cup {None}]
    BY <1>6, RecoverType, SettleType, Unchanged DEF WaitReady, TypeOK
  <2>2. faults' \in 0..MaxFaults /\ restarts' \in 0..MaxRestarts
    BY <1>6, BoundsType DEF WaitReady, TypeOK
  <2>3. QED
    BY <1>6, <2>1, <2>2, Unchanged DEF WaitReady, TypeOK, shell
<1>7. CASE ForwardStart(c)
  <2>1. CallsOK'
    BY <1>7, GotoType DEF ForwardStart, TypeOK
  <2>2. sandboxes' \in [Users -> State]
    BY <1>7, CacheType DEF ForwardStart, TypeOK
  <2>3. forwards' \in [Ports -> Names \cup {None}]
    BY <1>7, CallTypes, ForwardType DEF ForwardStart, TypeOK
  <2>4. faults' \in 0..MaxFaults /\ restarts' \in 0..MaxRestarts
    BY <1>7, BoundsType DEF ForwardStart, TypeOK
  <2>5. QED
    BY <1>7, <2>1, <2>2, <2>3, <2>4, Unchanged DEF ForwardStart, TypeOK
<1>8. CASE SetReattached(c)
  <2>1. rows' \in [Users -> Row]
    BY <1>8, SetStatusType DEF SetReattached, TypeOK
  <2>2. CallsOK' /\ locks' \in [Users -> Calls \cup {None}]
    BY <1>8, SettleType DEF SetReattached, TypeOK
  <2>3. QED
    BY <1>8, <2>1, <2>2, Unchanged DEF SetReattached, TypeOK, Works, shell
<1>9. CASE SetProvisioning(c)
  <2>1. rows' \in [Users -> Row]
    BY <1>9, SetStatusType DEF SetProvisioning, TypeOK
  <2>2. CallsOK'
    BY <1>9, GotoType DEF SetProvisioning, TypeOK
  <2>3. pods' \in [Names -> Pod]
    BY <1>9, CallTypes DEF SetProvisioning, TypeOK, Pod
  <2>4. QED
    BY <1>9, <2>1, <2>2, <2>3, Unchanged DEF SetProvisioning, TypeOK, Works, memory
<1>10. CASE CreatePod(c)
  <2>1. CallsOK' /\ allocatedPorts' \in SUBSET Ports
    BY <1>10, GotoType DEF CreatePod, TypeOK, Catch, ReleasePort
  <2>2. pods' \in [Names -> Pod] /\ forwards' \in [Ports -> Names \cup {None}]
    <3>1. CASE UNCHANGED shell
      BY <3>1, Unchanged DEF shell
    <3>2. CASE KillSession(calls[c].name)
      <4>1. pods' \in [Names -> Pod]
        BY <3>2 DEF KillSession, TypeOK, Pod
      <4>2. QED
        BY <3>2, <4>1, DeletePodType DEF KillSession, TypeOK
    <3>3. QED
      BY <1>10, <3>1, <3>2 DEF CreatePod
  <2>3. faults' \in 0..MaxFaults /\ restarts' \in 0..MaxRestarts
    BY <1>10, BoundsType DEF CreatePod, TypeOK
  <2>4. QED
    BY <1>10, <2>1, <2>2, <2>3, Unchanged DEF CreatePod, TypeOK
<1>11. CASE WaitForHealthy(c)
  <2>1. CallsOK' /\ allocatedPorts' \in SUBSET Ports
    BY <1>11, GotoType DEF WaitForHealthy, TypeOK, Catch, ReleasePort
  <2>2. sandboxes' \in [Users -> State]
    BY <1>11, CacheType, Unchanged DEF WaitForHealthy, TypeOK
  <2>3. QED
    BY <1>11, <2>1, <2>2, Unchanged DEF WaitForHealthy, TypeOK, Works, shell
<1>12. CASE SetReady(c)
  <2>1. CallsOK'
    BY <1>12, GotoType DEF SetReady, TypeOK
  <2>2. rows' \in [Users -> Row]
    BY <1>12, SetStatusType DEF SetReady, TypeOK
  <2>3. QED
    BY <1>12, <2>1, <2>2, Unchanged DEF SetReady, TypeOK, Works, memory, shell
<1>13. CASE SetMetadata(c)
  <2>1. rows' \in [Users -> Row]
    BY <1>13, CallTypes DEF SetMetadata, TypeOK, Row
  <2>2. CallsOK' /\ locks' \in [Users -> Calls \cup {None}]
    BY <1>13, SettleType DEF SetMetadata, TypeOK
  <2>3. QED
    BY <1>13, <2>1, <2>2, Unchanged DEF SetMetadata, TypeOK, Works, shell
<1>14. CASE FailAfterCache(c)
  <2>1. CallsOK' /\ allocatedPorts' \in SUBSET Ports
    BY <1>14, GotoType DEF FailAfterCache, TypeOK, Catch, ReleasePort
  <2>2. faults' \in 0..MaxFaults /\ restarts' \in 0..MaxRestarts
    BY <1>14, BoundsType DEF FailAfterCache, TypeOK
  <2>3. QED
    BY <1>14, <2>1, <2>2, Unchanged DEF FailAfterCache, TypeOK, shell
<1>15. CASE SetError(c)
  <2>1. rows' \in [Users -> Row]
    BY <1>15, SetStatusType DEF SetError, TypeOK
  <2>2. CallsOK' /\ locks' \in [Users -> Calls \cup {None}]
    BY <1>15, SettleType DEF SetError, TypeOK
  <2>3. QED
    BY <1>15, <2>1, <2>2, Unchanged DEF SetError, TypeOK, Works, shell
<1>16. CASE EnsureRejects(c)
  <2>1. CallsOK' /\ locks' \in [Users -> Calls \cup {None}]
    BY <1>16, SettleType DEF EnsureRejects, TypeOK
  <2>2. faults' \in 0..MaxFaults /\ restarts' \in 0..MaxRestarts
    BY <1>16, BoundsType DEF EnsureRejects, TypeOK
  <2>3. QED
    BY <1>16, <2>1, <2>2, Unchanged DEF EnsureRejects, TypeOK, shell
<1>17. QED
  BY <1>1, <1>2, <1>3, <1>4, <1>5, <1>6, <1>7, <1>8, <1>9, <1>10, <1>11, <1>12, <1>13,
     <1>14, <1>15, <1>16 DEF EnsureStep

\* So does every step of the calls that take no lock.
LEMMA TypeOtherStep ==
    ASSUME TypeOK, NEW c \in Calls, OtherStep(c)
    PROVE  TypeOK'
<1> USE DEF OtherAwaits, AllFaults
<1>1. CASE SuspendSetStatus(c)
  <2>1. CallsOK'
    BY <1>1, GotoType DEF SuspendSetStatus, TypeOK
  <2>2. rows' \in [Users -> Row]
    BY <1>1, SetStatusType DEF SuspendSetStatus, TypeOK
  <2>3. QED
    BY <1>1, <2>1, <2>2, Unchanged DEF SuspendSetStatus, TypeOK, Works, memory, shell
<1>2. CASE SuspendDelete(c)
  <2>1. CallsOK'
    BY <1>2, FinishType DEF SuspendDelete, TypeOK
  <2>2. sandboxes' \in [Users -> State] /\ allocatedPorts' \in SUBSET Ports
    BY <1>2, UncacheType DEF SuspendDelete, TypeOK, ReleasePort
  <2>3. pods' \in [Names -> Pod] /\ forwards' \in [Ports -> Names \cup {None}]
    BY <1>2, DeletePodType, Unchanged DEF SuspendDelete, TypeOK, shell
  <2>4. faults' \in 0..MaxFaults /\ restarts' \in 0..MaxRestarts
    BY <1>2, BoundsType DEF SuspendDelete, TypeOK
  <2>5. QED
    BY <1>2, <2>1, <2>2, <2>3, <2>4, Unchanged DEF SuspendDelete, TypeOK
<1>3. CASE DestroyLookup(c)
  <2>1. calls[c].pc = "destroy.lookup" /\ Works /\ UNCHANGED <<memory, rows, shell>>
    BY <1>3 DEF DestroyLookup
  <2>2. CASE Finish(c)
    <3>1. CallsOK'
      BY <2>2, FinishType DEF TypeOK
    <3>2. QED
      BY <2>1, <3>1, Unchanged DEF TypeOK, Works, memory, shell
  <2>3. CASE calls' = [calls EXCEPT ![c].pc = "destroy.delete",
                                    ![c].name = rows[calls[c].user].name]
    <3>1. calls' = [calls EXCEPT ![c].pc = "destroy.delete",
                                 ![c].name = rows[calls[c].user].name,
                                 ![c].port = calls[c].port]
      BY <2>3 DEF TypeOK, CallsOK, Frame
    <3>2. CallsOK'
      BY <2>1, <3>1, MoveType, CallTypes DEF TypeOK, Row
    <3>3. QED
      BY <2>1, <3>2, Unchanged DEF TypeOK, Works, memory, shell
  <2>4. QED
    BY <1>3, <2>2, <2>3 DEF DestroyLookup
<1>4. CASE DestroyDelete(c)
  <2>1. CallsOK'
    BY <1>4, GotoType DEF DestroyDelete, TypeOK
  <2>2. pods' \in [Names -> Pod] /\ forwards' \in [Ports -> Names \cup {None}]
    BY <1>4, DeletePodType, Unchanged DEF DestroyDelete, TypeOK, shell
  <2>3. faults' \in 0..MaxFaults /\ restarts' \in 0..MaxRestarts
    BY <1>4, BoundsType DEF DestroyDelete, TypeOK
  <2>4. QED
    BY <1>4, <2>1, <2>2, <2>3, Unchanged DEF DestroyDelete, TypeOK, memory
<1>5. CASE DestroyDeleteRow(c)
  <2>1. CallsOK'
    BY <1>5, FinishType DEF DestroyDeleteRow, TypeOK
  <2>2. sandboxes' \in [Users -> State] /\ allocatedPorts' \in SUBSET Ports
    BY <1>5, UncacheType, Unchanged DEF DestroyDeleteRow, TypeOK, ReleasePort
  <2>3. rows' \in [Users -> Row]
    BY <1>5 DEF DestroyDeleteRow, TypeOK, NoRow, Row
  <2>4. QED
    BY <1>5, <2>1, <2>2, <2>3, Unchanged DEF DestroyDeleteRow, TypeOK, Works, shell
<1>6. CASE HealthResult(c)
  <2>1. CallsOK'
    BY <1>6, FinishType, GotoType DEF HealthResult, TypeOK
  <2>2. sandboxes' \in [Users -> State]
    <3>1. CASE UNCHANGED sandboxes
      BY <3>1, Unchanged
    <3>2. CASE sandboxes' = [sandboxes EXCEPT ![calls[c].user].phase = "error"]
      BY <3>2 DEF TypeOK, State
    <3>3. QED
      BY <1>6, <3>1, <3>2 DEF HealthResult
  <2>3. faults' \in 0..MaxFaults /\ restarts' \in 0..MaxRestarts
    BY <1>6, BoundsType DEF HealthResult, TypeOK
  <2>4. QED
    BY <1>6, <2>1, <2>2, <2>3, Unchanged DEF HealthResult, TypeOK, shell
<1>7. CASE HealthSetStatus(c)
  <2>1. CallsOK'
    BY <1>7, FinishType DEF HealthSetStatus, TypeOK
  <2>2. sandboxes' \in [Users -> State] /\ allocatedPorts' \in SUBSET Ports
    BY <1>7, UncacheType DEF HealthSetStatus, TypeOK, ReleasePort
  <2>3. rows' \in [Users -> Row]
    BY <1>7, SetStatusType DEF HealthSetStatus, TypeOK
  <2>4. QED
    BY <1>7, <2>1, <2>2, <2>3, Unchanged DEF HealthSetStatus, TypeOK, Works, shell
<1>8. CASE RefreshGet(c)
  <2>1. CallsOK'
    BY <1>8, FinishType, GotoType DEF RefreshGet, TypeOK
  <2>2. QED
    BY <1>8, <2>1, Unchanged DEF RefreshGet, TypeOK, Works, memory, shell
<1>9. CASE RefreshForwardStart(c)
  <2>1. CallsOK'
    BY <1>9, FinishType DEF RefreshForwardStart, TypeOK
  <2>2. forwards' \in [Ports -> Names \cup {None}]
    BY <1>9, ForwardType, CallTypes, Unchanged DEF RefreshForwardStart, TypeOK
  <2>3. faults' \in 0..MaxFaults /\ restarts' \in 0..MaxRestarts
    BY <1>9, BoundsType DEF RefreshForwardStart, TypeOK
  <2>4. QED
    BY <1>9, <2>1, <2>2, <2>3, Unchanged DEF RefreshForwardStart, TypeOK, memory
<1>10. CASE ForwardStop(c)
  <2>1. CallsOK'
    BY <1>10, GotoType DEF ForwardStop, TypeOK
  <2>2. forwards' \in [Ports -> Names \cup {None}]
    BY <1>10, ForwardType, CallTypes, Unchanged DEF ForwardStop, TypeOK
  <2>3. faults' \in 0..MaxFaults /\ restarts' \in 0..MaxRestarts
    BY <1>10, BoundsType DEF ForwardStop, TypeOK
  <2>4. QED
    BY <1>10, <2>1, <2>2, <2>3, Unchanged DEF ForwardStop, TypeOK, memory
<1>11. CASE OtherRejects(c)
  <2>1. CallsOK'
    BY <1>11, FinishType DEF OtherRejects, TypeOK
  <2>2. faults' \in 0..MaxFaults /\ restarts' \in 0..MaxRestarts
    BY <1>11, BoundsType DEF OtherRejects, TypeOK
  <2>3. QED
    BY <1>11, <2>1, <2>2, Unchanged DEF OtherRejects, TypeOK, memory, shell
<1>12. QED
  BY <1>1, <1>2, <1>3, <1>4, <1>5, <1>6, <1>7, <1>8, <1>9, <1>10, <1>11 DEF OtherStep

\* A slot takes up a new call.
LEMMA NewCallType ==
    ASSUME CallsOK, NEW c \in Calls, NEW f \in Frame, f.user \in Users,
           calls' = [calls EXCEPT ![c] = f]
    PROVE  CallsOK'
  BY DEF CallsOK

\* Beginning a call keeps the types.
LEMMA TypeBegin ==
    ASSUME TypeOK, NEW c \in Calls, NEW u \in Users, Begin(c, u)
    PROVE  TypeOK'
<1>1. NoSandbox \in State /\ sandboxes[u] \in State
  BY DEF NoSandbox, State, TypeOK
<1>2. \A pc \in PCs, sb \in State : Call(pc, u, sb) \in Frame /\ Call(pc, u, sb).user = u
  BY CallType DEF Call
<1>3. CASE JoinEnsure(c, u)
  <2>1. CallsOK'
    BY <1>1, <1>2, <1>3, NewCallType, AwaitsArePCs DEF JoinEnsure, TypeOK
  <2>2. QED
    BY <1>3, <2>1, Unchanged DEF JoinEnsure, TypeOK, Works, memory, shell
<1>4. CASE StartEnsure(c, u)
  <2>1. CallsOK'
    BY <1>1, <1>2, <1>4, NewCallType, AwaitsArePCs DEF StartEnsure, TypeOK, EnsureAwaits
  <2>2. locks' \in [Users -> Calls \cup {None}]
    BY <1>4 DEF StartEnsure, TypeOK
  <2>3. QED
    BY <1>4, <2>1, <2>2, Unchanged DEF StartEnsure, TypeOK, Works, shell
<1>5. CASE SuspendSandbox(c, u)
  <2>1. CallsOK'
    BY <1>1, <1>2, <1>5, NewCallType, AwaitsArePCs DEF SuspendSandbox, TypeOK, OtherAwaits
  <2>2. sandboxes' \in [Users -> State]
    BY <1>5 DEF SuspendSandbox, TypeOK, State
  <2>3. QED
    BY <1>5, <2>1, <2>2, Unchanged DEF SuspendSandbox, TypeOK, Works, shell
<1>6. CASE DestroySandbox(c, u)
  <2>1. CallsOK'
    BY <1>1, <1>2, <1>6, NewCallType, AwaitsArePCs DEF DestroySandbox, TypeOK, OtherAwaits
  <2>2. QED
    BY <1>6, <2>1, Unchanged DEF DestroySandbox, TypeOK, Works, memory, shell
<1>7. CASE HealthCheck(c, u)
  <2> DEFINE f == [Call("health.check", u, sandboxes[u]) EXCEPT !.ref = sandboxes[u].ref]
  <2>1. f \in Frame /\ f.user = u
    BY <1>1, AwaitsArePCs DEF OtherAwaits, Frame, State, Call
  <2>2. calls' = [calls EXCEPT ![c] = f]
    BY <1>7 DEF HealthCheck
  <2> HIDE DEF f
  <2>3. CallsOK'
    BY <2>1, <2>2, NewCallType DEF TypeOK
  <2>4. QED
    BY <1>7, <2>3, Unchanged DEF HealthCheck, TypeOK, Works, memory, shell
<1>8. CASE RefreshPortForward(c, u)
  <2>1. CallsOK'
    BY <1>1, <1>2, <1>8, NewCallType, AwaitsArePCs DEF RefreshPortForward, TypeOK, OtherAwaits
  <2>2. QED
    BY <1>8, <2>1, Unchanged DEF RefreshPortForward, TypeOK, Works, memory, shell
<1>9. QED
  BY <1>3, <1>4, <1>5, <1>6, <1>7, <1>8 DEF Begin

\* OpenShell's own steps and a restart keep the types.
LEMMA TypeOutside ==
    ASSUME TypeOK,
           \/ \E n \in Names : PodReady(n) \/ PodDies(n)
           \/ \E p \in Ports : ForwardDies(p)
           \/ Restart
    PROVE  TypeOK'
<1> USE DEF AllFaults
<1>1. ASSUME NEW n \in Names, PodReady(n)
      PROVE  TypeOK'
  <2>1. pods' \in [Names -> Pod] /\ forwards' \in [Ports -> Names \cup {None}]
    BY <1>1 DEF PodReady, TypeOK, Pod
  <2>2. QED
    BY <1>1, <2>1, Unchanged DEF PodReady, TypeOK, Works, memory
<1>2. ASSUME NEW n \in Names, PodDies(n)
      PROVE  TypeOK'
  <2>1. pods' \in [Names -> Pod] /\ forwards' \in [Ports -> Names \cup {None}]
    BY <1>2, DeletePodType DEF PodDies, TypeOK, Pod
  <2>2. faults' \in 0..MaxFaults /\ restarts' \in 0..MaxRestarts
    BY <1>2, BoundsType DEF PodDies, Works, TypeOK
  <2>3. QED
    BY <1>2, <2>1, <2>2, Unchanged DEF PodDies, TypeOK, memory
<1>3. ASSUME NEW p \in Ports, ForwardDies(p)
      PROVE  TypeOK'
  <2>1. forwards' \in [Ports -> Names \cup {None}]
    BY <1>3 DEF ForwardDies, TypeOK
  <2>2. faults' \in 0..MaxFaults /\ restarts' \in 0..MaxRestarts
    BY <1>3, BoundsType DEF ForwardDies, TypeOK
  <2>3. QED
    BY <1>3, <2>1, <2>2, Unchanged DEF ForwardDies, TypeOK, memory
<1>4. CASE Restart
  <2>1. sandboxes' \in [Users -> State]
    BY <1>4 DEF Restart, NoSandbox, State
  <2>2. CallsOK'
    BY <1>4, IdleType DEF Restart, CallsOK, Idle, Call
  <2>3. restarts' \in 0..MaxRestarts
    BY <1>4, ConstantsAssumption DEF Restart, TypeOK
  <2>4. forwards' \in [Ports -> Names \cup {None}]
    BY <1>4 DEF Restart, TypeOK
  <2>5. QED
    BY <1>4, <2>1, <2>2, <2>3, <2>4, Unchanged DEF Restart, TypeOK
<1>5. QED
  BY <1>1, <1>2, <1>3, <1>4

LEMMA TypeStep == TypeOK /\ [Next]_vars => TypeOK'
<1>1. CASE TypeOK /\ UNCHANGED vars
  BY <1>1, Unchanged DEF TypeOK, vars, memory, shell, bounds
<1>2. CASE TypeOK /\ Next
  BY <1>2, TypeEnsureStep, TypeOtherStep, TypeBegin, TypeOutside DEF Next
<1>3. QED
  BY <1>1, <1>2

\* The model is typed whatever users, slots, ports and failures there are
\* (sandbox-manager.ts:42-51 with the rows, pods and forwards it drives).
THEOREM TypeCorrect == Spec => []TypeOK
<1>1. QED
  BY TypeInit, TypeStep, PTL DEF Spec

-----------------------------------------------------------------------------
(* The lock map excludes concurrent creations *)

\* A call inside ensureSandboxInternal is the one whose promise is in the lock map.
LockInv == \A c \in Calls : calls[c].pc \in EnsureAwaits => locks[calls[c].user] = c

\* The calls other than c are where they were.
OthersStay(c) == \A d \in Calls \ {c} : calls'[d] = calls[d]

\* A creation goes on to its next await.
MovesOn(c) ==
    /\ calls'[c].pc \in EnsureAwaits /\ calls'[c].user = calls[c].user
    /\ OthersStay(c)
    /\ UNCHANGED locks

LEMMA GotoMoves ==
    ASSUME CallsOK, NEW c \in Calls, NEW pc \in EnsureAwaits, Goto(c, pc), UNCHANGED locks
    PROVE  MovesOn(c)
  BY DEF Goto, MovesOn, OthersStay, CallsOK, Frame

LEMMA AllocateMoves ==
    ASSUME CallsOK, NEW c \in Calls, NEW n, NEW pc \in EnsureAwaits, AllocatePort(c, n, pc)
    PROVE  MovesOn(c) \/ Settle(c)
<1>1. ASSUME NEW p \in FreePorts, UNCHANGED locks,
             calls' = [calls EXCEPT ![c].pc = pc, ![c].name = n, ![c].port = p]
      PROVE  MovesOn(c)
  BY <1>1 DEF MovesOn, OthersStay, CallsOK, Frame
<1>2. QED
  BY <1>1 DEF AllocatePort

\* A step of a creation moves it on or settles its promise.
LEMMA EnsureShape ==
    ASSUME TypeOK, NEW c \in Calls, EnsureStep(c)
    PROVE  calls[c].pc \in EnsureAwaits /\ (MovesOn(c) \/ Settle(c))
<1> USE DEF TypeOK, EnsureAwaits
<1>1. CASE GetByUserId(c)
  <2>1. ASSUME calls' = [calls EXCEPT ![c].pc = "getPod",
                                      ![c].name = rows[calls[c].user].name,
                                      ![c].port = rows[calls[c].user].agentPort],
               UNCHANGED locks
        PROVE  MovesOn(c)
    BY <2>1 DEF MovesOn, OthersStay, CallsOK, Frame
  <2>2. QED
    BY <1>1, <2>1, GotoMoves DEF GetByUserId
<1>2. CASE InsertRow(c)
  BY <1>2, AllocateMoves DEF InsertRow
<1>3. CASE GetPod(c) \/ WaitReady(c)
  BY <1>3, AllocateMoves, GotoMoves DEF GetPod, WaitReady, RecoverPort
<1>4. CASE EnsureDeletePod(c)
  BY <1>4, AllocateMoves DEF EnsureDeletePod
<1>5. CASE SetWaiting(c) \/ ForwardStart(c) \/ SetProvisioning(c) \/ SetReady(c)
  BY <1>5, GotoMoves DEF SetWaiting, ForwardStart, SetProvisioning, SetReady, memory
<1>6. CASE CreatePod(c) \/ WaitForHealthy(c) \/ FailAfterCache(c)
  BY <1>6, GotoMoves DEF CreatePod, WaitForHealthy, FailAfterCache, Catch
<1>7. CASE SetReattached(c) \/ SetMetadata(c) \/ SetError(c) \/ EnsureRejects(c)
  BY <1>7 DEF SetReattached, SetMetadata, SetError, EnsureRejects
<1>8. QED
  BY <1>1, <1>2, <1>3, <1>4, <1>5, <1>6, <1>7 DEF EnsureStep

\* The other calls never touch the locks and never enter a creation.
LEMMA OtherShape ==
    ASSUME TypeOK, NEW c \in Calls, OtherStep(c)
    PROVE  /\ calls[c].pc \in OtherAwaits
           /\ calls'[c].pc \in OtherAwaits \cup {"idle"}
           /\ OthersStay(c)
           /\ UNCHANGED locks
<1> USE DEF TypeOK, OtherAwaits, Goto, Finish, OthersStay, CallsOK, Frame, Idle, Call, memory
<1>1. CASE SuspendSetStatus(c) \/ SuspendDelete(c)
  BY <1>1 DEF SuspendSetStatus, SuspendDelete
<1>2. CASE DestroyLookup(c) \/ DestroyDelete(c) \/ DestroyDeleteRow(c)
  BY <1>2 DEF DestroyLookup, DestroyDelete, DestroyDeleteRow
<1>3. CASE HealthResult(c) \/ HealthSetStatus(c)
  BY <1>3 DEF HealthResult, HealthSetStatus
<1>4. CASE RefreshGet(c) \/ RefreshForwardStart(c)
  BY <1>4 DEF RefreshGet, RefreshForwardStart
<1>5. CASE ForwardStop(c) \/ OtherRejects(c)
  BY <1>5 DEF ForwardStop, OtherRejects
<1>6. QED
  BY <1>1, <1>2, <1>3, <1>4, <1>5 DEF OtherStep

\* A call begins in a free slot, and begins a creation only when the lock is free.
LEMMA BeginShape ==
    ASSUME TypeOK, NEW c \in Calls, NEW u \in Users, Begin(c, u)
    PROVE  /\ calls[c].pc = "idle" /\ calls'[c].user = u
           /\ OthersStay(c)
           /\ \/ /\ StartEnsure(c, u) /\ calls'[c].pc = "getByUserId"
              \/ /\ calls'[c].pc \in OtherAwaits \cup {"joined"}
                 /\ UNCHANGED locks
<1> USE DEF TypeOK, OtherAwaits, OthersStay, CallsOK, Call, Free, memory
<1>1. CASE JoinEnsure(c, u) \/ StartEnsure(c, u)
  BY <1>1 DEF JoinEnsure, StartEnsure
<1>2. CASE SuspendSandbox(c, u) \/ DestroySandbox(c, u)
  BY <1>2 DEF SuspendSandbox, DestroySandbox
<1>3. CASE HealthCheck(c, u) \/ RefreshPortForward(c, u)
  BY <1>3 DEF HealthCheck, RefreshPortForward
<1>4. QED
  BY <1>1, <1>2, <1>3 DEF Begin

LEMMA AwaitsDisjoint ==
    /\ \A pc \in OtherAwaits : pc \notin EnsureAwaits
    /\ "idle" \notin EnsureAwaits /\ "joined" \notin EnsureAwaits
    /\ "getByUserId" \in EnsureAwaits
  BY DEF OtherAwaits, EnsureAwaits

LEMMA LockStep == TypeOK /\ LockInv /\ [Next]_vars => LockInv'
<1> SUFFICES ASSUME TypeOK, LockInv, [Next]_vars
             PROVE  LockInv'
  OBVIOUS
<1>0. \A c \in Calls : calls[c].pc \in EnsureAwaits => calls[c].user \in Users
  BY AwaitsDisjoint DEF TypeOK, CallsOK
<1>1. ASSUME NEW c \in Calls, EnsureStep(c)
      PROVE  LockInv'
  <2>1. CASE MovesOn(c)
    BY <1>1, <2>1, EnsureShape DEF LockInv, MovesOn, OthersStay
  <2>2. CASE Settle(c)
    <3>1. calls[c].pc \in EnsureAwaits
      BY <1>1, EnsureShape
    <3>2. SUFFICES ASSUME NEW d \in Calls, calls'[d].pc \in EnsureAwaits
                   PROVE  locks'[calls'[d].user] = d
      BY DEF LockInv
    <3>3. d # c /\ calls'[d] = calls[d]
      BY <2>2, <3>2, AwaitsDisjoint DEF Settle, Idle, Call
    <3>4. calls[d].user # calls[c].user
      BY <3>1, <3>2, <3>3 DEF LockInv
    <3>5. QED
      BY <1>0, <2>2, <3>1, <3>2, <3>3, <3>4 DEF Settle, LockInv, TypeOK
  <2>3. QED
    BY <1>1, <2>1, <2>2, EnsureShape
<1>2. ASSUME NEW c \in Calls, OtherStep(c)
      PROVE  LockInv'
  BY <1>2, OtherShape, AwaitsDisjoint DEF LockInv, OthersStay
<1>3. ASSUME NEW c \in Calls, NEW u \in Users, Begin(c, u)
      PROVE  LockInv'
  <2>1. CASE StartEnsure(c, u)
    <3>1. locks[u] = None /\ locks' = [locks EXCEPT ![u] = c]
      BY <2>1 DEF StartEnsure
    <3>2. \A d \in Calls : calls[d].pc \in EnsureAwaits => calls[d].user # u
      BY <3>1, ConstantsAssumption DEF LockInv
    <3>3. QED
      BY <1>0, <1>3, <3>1, <3>2, BeginShape DEF LockInv, OthersStay, TypeOK
  <2>2. CASE calls'[c].pc \in OtherAwaits \cup {"joined"} /\ UNCHANGED locks
    BY <1>3, <2>2, BeginShape, AwaitsDisjoint DEF LockInv, OthersStay
  <2>3. QED
    BY <1>3, <2>1, <2>2, BeginShape
<1>4. CASE \/ \E n \in Names : PodReady(n) \/ PodDies(n)
           \/ \E p \in Ports : ForwardDies(p)
           \/ UNCHANGED vars
  BY <1>4 DEF PodReady, PodDies, ForwardDies, LockInv, memory, vars
<1>5. CASE Restart
  BY <1>5, AwaitsDisjoint DEF Restart, LockInv, Idle, Call
<1>6. QED
  BY <1>1, <1>2, <1>3, <1>4, <1>5 DEF Next

LEMMA LockInit == Init => LockInv
  BY AwaitsDisjoint DEF Init, LockInv, Idle, Call

LEMMA OwnedStep == TypeOK /\ LockOwned /\ [Next]_vars => LockOwned'
<1> SUFFICES ASSUME TypeOK, LockOwned, [Next]_vars
             PROVE  LockOwned'
  OBVIOUS
<1>0. /\ \A d \in Calls : calls[d].pc # "idle" => calls[d].user \in Users
      /\ locks \in [Users -> Calls \cup {None}] /\ None \notin Calls
  BY ConstantsAssumption DEF TypeOK, CallsOK
<1>1. ASSUME NEW c \in Calls, EnsureStep(c)
      PROVE  LockOwned'
  <2>1. calls[c].pc \in EnsureAwaits /\ (MovesOn(c) \/ Settle(c))
    BY <1>1, EnsureShape
  <2>2. CASE MovesOn(c)
    BY <1>0, <2>1, <2>2, AwaitsDisjoint DEF LockOwned, MovesOn, OthersStay
  <2>3. CASE Settle(c)
    <3>1. PICK u \in Users : u = calls[c].user
      BY <1>0, <2>1, AwaitsDisjoint
    <3>2. /\ locks' = [locks EXCEPT ![u] = None]
          /\ \A d \in Calls : IF d = c \/ (calls[d].pc = "joined" /\ calls[d].user = u)
                              THEN calls'[d].pc = "idle" ELSE calls'[d] = calls[d]
      BY <2>3, <3>1 DEF Settle, Idle, Call
    <3>3. ASSUME NEW v \in Users, locks'[v] # None
          PROVE  calls'[locks'[v]].pc \in EnsureAwaits /\ calls'[locks'[v]].user = v
      <4>1. v # u /\ locks'[v] = locks[v] /\ locks[v] \in Calls
        BY <1>0, <3>2, <3>3
      <4>2. calls[locks[v]].pc \in EnsureAwaits /\ calls[locks[v]].user = v
        BY <3>3, <4>1 DEF LockOwned
      <4> QED
        BY <3>1, <3>2, <4>1, <4>2, AwaitsDisjoint
    <3>4. ASSUME NEW d \in Calls, calls'[d].pc = "joined"
          PROVE  locks'[calls'[d].user] # None
      <4>1. calls'[d] = calls[d] /\ calls[d].user # u
        BY <3>2, <3>4
      <4> QED
        BY <1>0, <3>2, <3>4, <4>1 DEF LockOwned
    <3> QED
      BY <3>3, <3>4 DEF LockOwned
  <2> QED
    BY <2>1, <2>2, <2>3
<1>2. ASSUME NEW c \in Calls, OtherStep(c)
      PROVE  LockOwned'
  BY <1>0, <1>2, OtherShape, AwaitsDisjoint DEF LockOwned, OthersStay, OtherAwaits
<1>3. ASSUME NEW c \in Calls, NEW u \in Users, Begin(c, u)
      PROVE  LockOwned'
  <2>1. calls[c].pc = "idle" /\ calls'[c].user = u /\ OthersStay(c)
    BY <1>3, BeginShape
  <2>2. CASE StartEnsure(c, u)
    <3>1. locks[u] = None /\ locks' = [locks EXCEPT ![u] = c]
      BY <2>2 DEF StartEnsure
    <3>2. calls'[c].pc = "getByUserId"
      BY <2>2 DEF StartEnsure, TypeOK, CallsOK, Call
    <3> QED
      BY <1>0, <2>1, <3>1, <3>2, AwaitsDisjoint DEF LockOwned, OthersStay
  <2>3. CASE JoinEnsure(c, u)
    <3>1. locks[u] # None /\ UNCHANGED locks
      BY <2>3 DEF JoinEnsure, memory
    <3> QED
      BY <1>0, <2>1, <3>1, AwaitsDisjoint DEF LockOwned, OthersStay
  <2>4. CASE \/ SuspendSandbox(c, u) \/ DestroySandbox(c, u)
             \/ HealthCheck(c, u) \/ RefreshPortForward(c, u)
    <3>0. SUFFICES calls'[c].pc \in OtherAwaits /\ UNCHANGED locks
      BY <1>0, <2>1, AwaitsDisjoint DEF LockOwned, OthersStay, OtherAwaits
    <3> USE DEF OtherAwaits
    <3>1. CASE SuspendSandbox(c, u) \/ DestroySandbox(c, u)
      BY <3>1 DEF SuspendSandbox, DestroySandbox, Free, TypeOK, CallsOK, Call, memory
    <3>2. CASE HealthCheck(c, u) \/ RefreshPortForward(c, u)
      BY <3>2 DEF HealthCheck, RefreshPortForward, Free, TypeOK, CallsOK, Call, memory
    <3> QED
      BY <2>4, <3>1, <3>2
  <2> QED
    BY <1>3, <2>2, <2>3, <2>4, BeginShape DEF Begin
<1>4. CASE \/ \E n \in Names : PodReady(n) \/ PodDies(n)
           \/ \E p \in Ports : ForwardDies(p)
           \/ UNCHANGED vars
  BY <1>4 DEF PodReady, PodDies, ForwardDies, LockOwned, memory, vars
<1>5. CASE Restart
  BY <1>5 DEF Restart, LockOwned, Idle, Call
<1>6. QED
  BY <1>1, <1>2, <1>3, <1>4, <1>5 DEF Next

\* No way out of a creation leaves its promise in the lock map, and nobody waits for a
\* creation that is over (sandbox-manager.ts:96-109), whatever overlaps, fails or restarts.
THEOREM LockOwnedCorrect == Spec => []LockOwned
<1>1. Init => LockOwned
  BY DEF Init, LockOwned, Idle, Call
<1> QED
  BY <1>1, OwnedStep, TypeCorrect, PTL DEF Spec

\* The calls inside ensureSandboxInternal for a user exclude each other, whatever
\* overlaps, fails or restarts: the lock map (sandbox-manager.ts:48-49, 96-109)
\* implements the keyed mutual exclusion of KeyedMutex.
THEOREM EnsureIsMutex == Spec => OneCreationPerUser
<1> DEFINE held == [u \in Users |-> Creators(u)]
<1>1. Init => Mutex!Init
  BY AwaitsDisjoint DEF Init, Mutex!Init, Creators, Idle, Call
<1>2. TypeOK /\ LockInv /\ [Next]_vars => [Mutex!Next]_held
  <2> SUFFICES ASSUME TypeOK, LockInv, [Next]_vars
               PROVE  Mutex!Next \/ UNCHANGED held
    OBVIOUS
  <2>1. ASSUME NEW c \in Calls, EnsureStep(c)
        PROVE  Mutex!Next \/ UNCHANGED held
    <3>0. calls[c].pc \in EnsureAwaits /\ calls[c].user \in Users
      BY <2>1, EnsureShape, AwaitsDisjoint DEF TypeOK, CallsOK
    <3>1. CASE MovesOn(c)
      <4>1. \A u \in Users : Creators(u)' = Creators(u)
        BY <3>0, <3>1 DEF MovesOn, OthersStay, Creators
      <4>2. QED
        BY <4>1
    <3>2. CASE Settle(c)
      <4> DEFINE v == calls[c].user
      <4>1. Creators(v) = {c}
        BY <3>0 DEF LockInv, Creators
      <4>2. \A d \in Calls : calls'[d].pc \in EnsureAwaits <=>
                              d # c /\ calls[d].pc \in EnsureAwaits
        BY <3>2, AwaitsDisjoint DEF Settle, Idle, Call
      <4>3. \A d \in Calls : calls'[d].pc \in EnsureAwaits => calls'[d] = calls[d]
        BY <3>2, AwaitsDisjoint DEF Settle, Idle, Call
      <4>4. \A u \in Users : Creators(u)' = IF u = v THEN {} ELSE Creators(u)
        BY <3>0, <4>1, <4>2, <4>3 DEF Creators
      <4>5. held' = [held EXCEPT ![v] = {}] /\ held[v] # {}
        BY <3>0, <4>1, <4>4
      <4>6. Mutex!Release(v)
        BY <4>5 DEF Mutex!Release
      <4>7. QED
        BY <3>0, <4>6 DEF Mutex!Next
    <3>3. QED
      BY <2>1, <3>1, <3>2, EnsureShape
  <2>2. ASSUME NEW c \in Calls, OtherStep(c)
        PROVE  Mutex!Next \/ UNCHANGED held
    <3>1. \A u \in Users : Creators(u)' = Creators(u)
      BY <2>2, OtherShape, AwaitsDisjoint DEF OthersStay, Creators
    <3>2. QED
      BY <3>1
  <2>3. ASSUME NEW c \in Calls, NEW v \in Users, Begin(c, v)
        PROVE  Mutex!Next \/ UNCHANGED held
    <3>1. CASE StartEnsure(c, v) /\ calls'[c].pc = "getByUserId"
      <4>1. Creators(v) = {}
        BY <3>1, ConstantsAssumption DEF StartEnsure, LockInv, Creators
      <4>2. \A u \in Users : Creators(u)' = IF u = v THEN {c} ELSE Creators(u)
        BY <2>3, <3>1, <4>1, BeginShape, AwaitsDisjoint DEF Creators, OthersStay
      <4>3. held' = [held EXCEPT ![v] = {c}] /\ held[v] = {}
        BY <4>1, <4>2
      <4>4. Mutex!Acquire(v, c)
        BY <4>3 DEF Mutex!Acquire
      <4>5. QED
        BY <4>4 DEF Mutex!Next
    <3>2. CASE calls'[c].pc \in OtherAwaits \cup {"joined"}
      <4>1. \A u \in Users : Creators(u)' = Creators(u)
        BY <2>3, <3>2, BeginShape, AwaitsDisjoint DEF OthersStay, Creators
      <4>2. QED
        BY <4>1
    <3>3. QED
      BY <2>3, <3>1, <3>2, BeginShape
  <2>4. CASE \/ \E n \in Names : PodReady(n) \/ PodDies(n)
             \/ \E p \in Ports : ForwardDies(p)
             \/ UNCHANGED vars
    BY <2>4 DEF PodReady, PodDies, ForwardDies, Creators, vars
  <2>5. CASE Restart
    <3>1. \A u \in Users : Creators(u)' = {}
      BY <2>5, AwaitsDisjoint DEF Restart, Creators, Idle, Call
    <3>2. Mutex!Crash
      BY <3>1 DEF Mutex!Crash
    <3>3. QED
      BY <3>2 DEF Mutex!Next
  <2>6. QED
    BY <2>1, <2>2, <2>3, <2>4, <2>5 DEF Next
<1>3. QED
  BY <1>1, <1>2, LockInit, LockStep, TypeCorrect, TypeInit, TypeStep, PTL
     DEF Spec, OneCreationPerUser, Mutex!Spec

-----------------------------------------------------------------------------
(* OneLineage.  By itself it is not inductive: a stale entry of the cache could outlive the *)
(* row of a destroyed sandbox and a write to a row that is gone could bring it back.  The   *)
(* invariant below excludes both.                                                           *)

\* Awaits of a creation before it caches a state.
Early == EnsureAwaits \ {"setReattached", "setReady", "setMetadata", "setError"}

\* Awaits of calls that know the sandbox they work on and may write to its row.
Named == (EnsureAwaits \ {"getByUserId", "insertRow"})
           \cup {"suspend.setStatus", "health.check", "health.setStatus"}

RowNamed == \A u \in Users : rows[u].status = "absent" <=> rows[u].name = None

CacheNamed ==
    \A u \in Users :
        /\ sandboxes[u].phase # "absent" => sandboxes[u].name # None
        /\ sandboxes[u].phase = "ready" => sandboxes[u].ref # None
        /\ sandboxes[u].phase = "absent" => sandboxes[u].ref = None

\* What CallNamed says of one call.
NamedCall(f) ==
    /\ f.pc \in Named => f.name # None
    /\ f.pc = "health.check" => f.ref # None

CallNamed == \A c \in Calls : NamedCall(calls[c])

\* A creation that has not cached a state yet runs only while none is ready.
NotReady == \A c \in Calls : calls[c].pc \in Early => sandboxes[calls[c].user].phase # "ready"

LineageInv == RowNamed /\ CacheNamed /\ CallNamed /\ NotReady /\ OneLineage

-----------------------------------------------------------------------------
(* What steps do to rows and cache *)

\* Rows keep their sandbox or disappear.
RowsShrink ==
    \A u \in Users :
        \/ rows'[u] = NoRow
        \/ /\ rows'[u].name = rows[u].name
           /\ rows'[u].status = "absent" <=> rows[u].status = "absent"

\* Nothing new becomes ready.
CacheShrinks == \A u \in Users : sandboxes'[u].phase = "ready" => sandboxes'[u] = sandboxes[u]

LEMMA SetStatusShrinks ==
    ASSUME TypeOK, RowNamed, NEW c \in Calls, calls[c].user \in Users, calls[c].name # None,
           NEW s, s # "absent", SetStatus(c, s)
    PROVE  RowsShrink
  BY DEF SetStatus, RowsShrink, RowNamed, TypeOK, Row

LEMMA RowNamedKept ==
    ASSUME RowNamed, RowsShrink
    PROVE  RowNamed'
  BY DEF RowNamed, RowsShrink, NoRow

LEMMA UncacheShrinks ==
    ASSUME TypeOK, CacheNamed, NEW u \in Users, Uncache(u)
    PROVE  CacheShrinks /\ CacheNamed'
  BY DEF Uncache, CacheShrinks, CacheNamed, NoSandbox, TypeOK

\* Of two creations for a user one is the other.
LEMMA OneCreator ==
    ASSUME LockInv, NEW c \in Calls, NEW d \in Calls, calls[c].pc \in EnsureAwaits,
           calls[d].pc \in EnsureAwaits, calls[c].user = calls[d].user
    PROVE  c = d
  BY DEF LockInv

LEMMA IdleNamed == NamedCall(Idle) /\ Idle.pc \notin EnsureAwaits
  BY DEF NamedCall, Idle, Call, Named, EnsureAwaits

-----------------------------------------------------------------------------
(* Three shapes of step that keep the invariant *)

\* A step that enters no creation and caches nothing.
LEMMA QuietStep ==
    ASSUME TypeOK, LineageInv, RowsShrink, CacheShrinks, CacheNamed',
           \A d \in Calls : \/ calls'[d] = calls[d]
                            \/ calls'[d].pc \notin EnsureAwaits /\ NamedCall(calls'[d])
    PROVE  LineageInv'
<1>1. RowNamed'
  BY RowNamedKept DEF LineageInv
<1>2. CallNamed'
  BY DEF LineageInv, CallNamed, NamedCall
<1>3. NotReady'
  <2>1. SUFFICES ASSUME NEW d \in Calls, calls'[d].pc \in Early,
                        sandboxes'[calls'[d].user].phase = "ready"
                 PROVE  FALSE
    BY DEF NotReady
  <2>2. calls'[d] = calls[d] /\ calls[d].user \in Users
    BY <2>1, AwaitsDisjoint DEF Early, TypeOK, CallsOK
  <2>3. QED
    BY <2>1, <2>2 DEF LineageInv, NotReady, CacheShrinks
<1>4. OneLineage'
  <2>1. SUFFICES ASSUME NEW u \in Users, rows'[u].status # "absent"
                 PROVE  /\ sandboxes'[u].phase = "ready" => sandboxes'[u].name = rows'[u].name
                        /\ \A d \in Calls :
                             calls'[d].user = u /\ calls'[d].pc \in EnsureAwaits
                               => calls'[d].name \in {None, rows'[u].name}
    BY DEF OneLineage, Creators
  <2>2. rows[u].status # "absent" /\ rows'[u].name = rows[u].name
    BY <2>1 DEF RowsShrink, NoRow
  <2>3. sandboxes'[u].phase = "ready" => sandboxes'[u].name = rows'[u].name
    BY <2>2 DEF LineageInv, OneLineage, CacheShrinks
  <2>4. ASSUME NEW d \in Calls, calls'[d].user = u, calls'[d].pc \in EnsureAwaits
        PROVE  calls'[d].name \in {None, rows'[u].name}
    BY <2>2, <2>4 DEF LineageInv, OneLineage, Creators
  <2>5. QED
    BY <2>3, <2>4
<1>5. QED
  BY <1>1, <1>2, <1>3, <1>4 DEF LineageInv

\* A creation moves on with the sandbox it works on, caching nothing.
LEMMA AdvanceStep ==
    ASSUME TypeOK, LineageInv, NEW c \in Calls, calls[c].pc \in EnsureAwaits,
           RowsShrink, UNCHANGED sandboxes, MovesOn(c), calls'[c].name = calls[c].name,
           calls'[c].pc \in Early => calls[c].pc \in Early,
           NamedCall(calls'[c])
    PROVE  LineageInv'
<1>0. calls[c].user \in Users /\ CacheNamed'
  BY AwaitsDisjoint DEF TypeOK, CallsOK, LineageInv, CacheNamed
<1>1. RowNamed'
  BY RowNamedKept DEF LineageInv
<1>2. CallNamed'
  BY DEF LineageInv, CallNamed, MovesOn, OthersStay
<1>3. NotReady'
  BY DEF LineageInv, NotReady, MovesOn, OthersStay
<1>4. OneLineage'
  <2>1. SUFFICES ASSUME NEW u \in Users, rows'[u].status # "absent"
                 PROVE  /\ sandboxes'[u].phase = "ready" => sandboxes'[u].name = rows'[u].name
                        /\ \A d \in Calls :
                             calls'[d].user = u /\ calls'[d].pc \in EnsureAwaits
                               => calls'[d].name \in {None, rows'[u].name}
    BY DEF OneLineage, Creators
  <2>2. rows[u].status # "absent" /\ rows'[u].name = rows[u].name
    BY <2>1 DEF RowsShrink, NoRow
  <2>3. ASSUME NEW d \in Calls, calls'[d].user = u, calls'[d].pc \in EnsureAwaits
        PROVE  calls'[d].name \in {None, rows'[u].name}
    <3>1. calls[d].user = u /\ calls[d].pc \in EnsureAwaits /\ calls'[d].name = calls[d].name
      BY <2>3 DEF MovesOn, OthersStay
    <3>2. QED
      BY <2>2, <3>1 DEF LineageInv, OneLineage, Creators
  <2>4. QED
    BY <2>2, <2>3 DEF LineageInv, OneLineage
<1>5. QED
  BY <1>0, <1>1, <1>2, <1>3, <1>4 DEF LineageInv

\* A creation caches the state of the sandbox it works on.
LEMMA CacheStep ==
    ASSUME TypeOK, LockInv, LineageInv, NEW c \in Calls,
           calls[c].pc \in {"forwardStart", "waitForHealthy"},
           Cache(c), UNCHANGED rows, NEW pc \in {"setReattached", "setReady"}, Goto(c, pc)
    PROVE  LineageInv'
<1> DEFINE v == calls[c].user
<1>0. v \in Users /\ calls[c].pc \in EnsureAwaits /\ calls[c].pc \in Named
  BY DEF TypeOK, CallsOK, EnsureAwaits, Named
<1>1. calls[c].name # None
  BY <1>0 DEF LineageInv, CallNamed, NamedCall
<1>2. /\ sandboxes'[v].phase = "ready" /\ sandboxes'[v].name = calls[c].name
      /\ sandboxes'[v].ref \in Refs
      /\ \A u \in Users \ {v} : sandboxes'[u] = sandboxes[u]
  BY <1>0 DEF Cache, TypeOK
<1>3. /\ calls'[c].pc = pc /\ calls'[c].user = v /\ calls'[c].name = calls[c].name
      /\ OthersStay(c)
  BY DEF Goto, OthersStay, TypeOK, CallsOK, Frame
<1>4. pc \in EnsureAwaits /\ pc \notin Early /\ pc # "health.check"
  BY DEF EnsureAwaits, Early
<1>5. RowNamed'
  BY DEF LineageInv, RowNamed
<1>6. CacheNamed'
  BY <1>1, <1>2, ConstantsAssumption DEF LineageInv, CacheNamed
<1>7. CallNamed'
  BY <1>1, <1>3, <1>4 DEF LineageInv, CallNamed, NamedCall, OthersStay
<1>8. NotReady'
  <2>1. SUFFICES ASSUME NEW d \in Calls, calls'[d].pc \in Early
                 PROVE  sandboxes'[calls'[d].user].phase # "ready"
    BY DEF NotReady
  <2>2. d # c /\ calls'[d] = calls[d] /\ calls[d].pc \in EnsureAwaits
    BY <1>3, <1>4, <2>1 DEF OthersStay, Early
  <2>3. calls[d].user # v /\ calls[d].user \in Users
    BY <1>0, <2>2, OneCreator, AwaitsDisjoint DEF TypeOK, CallsOK
  <2>4. QED
    BY <1>2, <2>1, <2>2, <2>3 DEF LineageInv, NotReady
<1>9. OneLineage'
  <2>1. SUFFICES ASSUME NEW u \in Users, rows[u].status # "absent"
                 PROVE  /\ sandboxes'[u].phase = "ready" => sandboxes'[u].name = rows[u].name
                        /\ \A d \in Calls :
                             calls'[d].user = u /\ calls'[d].pc \in EnsureAwaits
                               => calls'[d].name \in {None, rows[u].name}
    BY DEF OneLineage, Creators
  <2>2. ASSUME NEW d \in Calls, calls'[d].user = u, calls'[d].pc \in EnsureAwaits
        PROVE  calls'[d].name \in {None, rows[u].name}
    <3>1. calls[d].user = u /\ calls[d].pc \in EnsureAwaits /\ calls'[d].name = calls[d].name
      BY <1>0, <1>3, <2>2 DEF OthersStay
    <3>2. QED
      BY <2>1, <3>1 DEF LineageInv, OneLineage, Creators
  <2>3. sandboxes'[u].phase = "ready" => sandboxes'[u].name = rows[u].name
    BY <1>0, <1>1, <1>2, <2>1 DEF LineageInv, OneLineage, Creators
  <2>4. QED
    BY <2>2, <2>3
<1>10. QED
  BY <1>5, <1>6, <1>7, <1>8, <1>9 DEF LineageInv

\* A promise settles: its caller and those who joined it go idle.
LEMMA SettleStep ==
    ASSUME TypeOK, LineageInv, NEW c \in Calls, RowsShrink, UNCHANGED sandboxes, Settle(c)
    PROVE  LineageInv'
<1>1. CacheShrinks /\ CacheNamed'
  BY DEF LineageInv, CacheNamed, CacheShrinks
<1>2. \A d \in Calls : calls'[d] = calls[d] \/ calls'[d] = Idle
  BY DEF Settle
<1>3. QED
  BY <1>1, <1>2, IdleNamed, QuietStep

-----------------------------------------------------------------------------
(* Every step has one of the shapes, but for the two that learn a name *)

LEMMA GotoAdvances ==
    ASSUME TypeOK, LineageInv, NEW c \in Calls, calls[c].pc \in EnsureAwaits,
           calls[c].pc \notin {"getByUserId", "insertRow"},
           NEW pc \in EnsureAwaits, pc \in Early => calls[c].pc \in Early,
           Goto(c, pc), UNCHANGED <<locks, sandboxes>>, RowsShrink
    PROVE  LineageInv'
<1>1. MovesOn(c)
  BY GotoMoves DEF TypeOK
<1>2. calls'[c] = [calls[c] EXCEPT !.pc = pc] /\ calls[c] \in Frame
  BY DEF Goto, TypeOK, CallsOK
<1>3. calls'[c].name = calls[c].name /\ calls'[c].pc = pc
  BY <1>2 DEF Frame
<1>4. calls[c].name # None /\ pc # "health.check"
  BY DEF LineageInv, CallNamed, NamedCall, Named, EnsureAwaits
<1>5. NamedCall(calls'[c])
  BY <1>3, <1>4 DEF NamedCall
<1>6. QED
  BY <1>1, <1>3, <1>5, AdvanceStep

LEMMA AllocateAdvances ==
    ASSUME TypeOK, LineageInv, NEW c \in Calls, calls[c].pc \in Early,
           calls[c].pc \notin {"getByUserId", "insertRow"},
           NEW pc \in EnsureAwaits, AllocatePort(c, calls[c].name, pc),
           UNCHANGED <<sandboxes, rows>>
    PROVE  LineageInv'
<1>0. RowsShrink /\ calls[c].pc \in EnsureAwaits
  BY DEF RowsShrink, Early
<1>1. ASSUME NEW p \in FreePorts, UNCHANGED locks,
             calls' = [calls EXCEPT ![c].pc = pc, ![c].name = calls[c].name, ![c].port = p]
      PROVE  LineageInv'
  <2>1. MovesOn(c) /\ calls'[c].name = calls[c].name /\ calls'[c].pc = pc
    BY <1>1 DEF MovesOn, OthersStay, TypeOK, CallsOK, Frame
  <2>2. calls[c].name # None /\ pc # "health.check"
    BY <1>0 DEF LineageInv, CallNamed, NamedCall, Named, EnsureAwaits
  <2>3. NamedCall(calls'[c])
    BY <2>1, <2>2 DEF NamedCall
  <2>4. QED
    BY <1>0, <2>1, <2>3, AdvanceStep
<1>2. CASE Settle(c)
  BY <1>0, <1>2, SettleStep
<1>3. QED
  BY <1>1, <1>2 DEF AllocatePort

LEMMA RecoverAdvances ==
    ASSUME TypeOK, LineageInv, NEW c \in Calls, calls[c].pc \in {"getPod", "waitReady"},
           RecoverPort(c), UNCHANGED <<sandboxes, rows>>
    PROVE  LineageInv'
<1>0. /\ calls[c].pc \in Early /\ calls[c].pc \in EnsureAwaits
      /\ "forwardStart" \in EnsureAwaits
      /\ RowsShrink
  BY DEF Early, EnsureAwaits, RowsShrink
<1>1. CASE Goto(c, "forwardStart") /\ UNCHANGED locks
  BY <1>0, <1>1, GotoAdvances
<1>2. CASE AllocatePort(c, calls[c].name, "forwardStart")
  BY <1>0, <1>2, AllocateAdvances
<1>3. QED
  BY <1>1, <1>2 DEF RecoverPort

\* The lookup: the call learns the name in the row, or that there is none.
LEMMA LookupStep ==
    ASSUME TypeOK, LineageInv, NEW c \in Calls, GetByUserId(c)
    PROVE  LineageInv'
<1> DEFINE v == calls[c].user
<1>0. /\ calls[c].pc = "getByUserId" /\ calls[c].pc \in EnsureAwaits /\ v \in Users
      /\ calls[c].pc \in Early
      /\ RowsShrink /\ UNCHANGED <<sandboxes, rows>>
  BY DEF GetByUserId, EnsureAwaits, Early, TypeOK, CallsOK, RowsShrink
<1>1. CASE /\ rows[v].status # "absent"
           /\ calls' = [calls EXCEPT ![c].pc = "getPod", ![c].name = rows[v].name,
                                     ![c].port = rows[v].agentPort]
  <2>1. /\ calls'[c].pc = "getPod" /\ calls'[c].user = v /\ calls'[c].name = rows[v].name
        /\ OthersStay(c)
    BY <1>1 DEF OthersStay, TypeOK, CallsOK, Frame
  <2>2. rows[v].name # None
    BY <1>0, <1>1 DEF LineageInv, RowNamed
  <2>3. RowNamed' /\ CacheNamed'
    BY <1>0 DEF LineageInv, RowNamed, CacheNamed
  <2>4. CallNamed'
    BY <2>1, <2>2 DEF LineageInv, CallNamed, NamedCall, OthersStay
  <2>5. NotReady'
    BY <1>0, <2>1 DEF LineageInv, NotReady, OthersStay
  <2>6. OneLineage'
    <3>1. SUFFICES ASSUME NEW u \in Users, rows[u].status # "absent", NEW d \in Calls,
                          calls'[d].user = u, calls'[d].pc \in EnsureAwaits
                   PROVE  calls'[d].name \in {None, rows[u].name}
      BY <1>0 DEF LineageInv, OneLineage, Creators
    <3>2. QED
      BY <2>1, <3>1 DEF LineageInv, OneLineage, Creators, OthersStay
  <2>7. QED
    BY <2>3, <2>4, <2>5, <2>6 DEF LineageInv
<1>2. CASE Goto(c, "insertRow") /\ UNCHANGED locks
  <2>1. MovesOn(c)
    BY <1>2, GotoMoves DEF EnsureAwaits, TypeOK
  <2>2. calls'[c].name = calls[c].name /\ calls'[c].pc = "insertRow"
    BY <1>2 DEF Goto, TypeOK, CallsOK, Frame
  <2>3. NamedCall(calls'[c])
    BY <2>2 DEF NamedCall, Named
  <2>4. QED
    BY <1>0, <2>1, <2>2, <2>3, AdvanceStep
<1>3. CASE Settle(c)
  BY <1>0, <1>3, SettleStep
<1>4. QED
  BY <1>1, <1>2, <1>3 DEF GetByUserId

\* The insertion: row and call get the same fresh name, and nothing ready is in the way.
LEMMA InsertStep ==
    ASSUME TypeOK, LockInv, LineageInv, NEW c \in Calls, InsertRow(c)
    PROVE  LineageInv'
<1> DEFINE v == calls[c].user
<1>0. /\ calls[c].pc = "insertRow" /\ calls[c].pc \in EnsureAwaits /\ v \in Users
      /\ calls[c].pc \in Early /\ UNCHANGED sandboxes
  BY DEF InsertRow, EnsureAwaits, Early, TypeOK, CallsOK
<1>1. PICK n \in FreshNames(v) :
         /\ rows' = [rows EXCEPT ![v] = [status |-> "creating", name |-> n, agentPort |-> None]]
         /\ AllocatePort(c, n, "setProvisioning")
  BY DEF InsertRow
<1>2. n \in Names /\ n # None
  BY <1>0, <1>1, ConstantsAssumption DEF FreshNames, Names
<1>3. /\ rows'[v].status = "creating" /\ rows'[v].name = n
      /\ \A u \in Users \ {v} : rows'[u] = rows[u]
  BY <1>0, <1>1 DEF TypeOK
<1>4. RowNamed' /\ CacheNamed'
  BY <1>0, <1>2, <1>3 DEF LineageInv, RowNamed, CacheNamed
<1>5. \A d \in Calls : /\ calls'[d].pc \in EnsureAwaits
                       => /\ calls'[d].user = calls[d].user /\ calls[d].pc \in EnsureAwaits
                          /\ IF d = c THEN calls'[d].name = n ELSE calls'[d] = calls[d]
  <2>1. ASSUME NEW p \in FreePorts,
               calls' = [calls EXCEPT ![c].pc = "setProvisioning", ![c].name = n, ![c].port = p]
        PROVE  /\ calls'[c].user = v /\ calls'[c].name = n
               /\ \A d \in Calls \ {c} : calls'[d] = calls[d]
    BY <2>1 DEF TypeOK, CallsOK, Frame
  <2>2. CASE Settle(c)
    BY <2>2, IdleNamed DEF Settle
  <2>3. QED
    BY <1>0, <1>1, <2>1, <2>2 DEF AllocatePort
<1>6. CallNamed'
  <2>1. ASSUME NEW p \in FreePorts,
               calls' = [calls EXCEPT ![c].pc = "setProvisioning", ![c].name = n, ![c].port = p]
        PROVE  /\ calls'[c].pc = "setProvisioning" /\ calls'[c].name = n
               /\ \A d \in Calls \ {c} : calls'[d] = calls[d]
    BY <2>1 DEF TypeOK, CallsOK, Frame
  <2>2. CASE Settle(c)
    BY <2>2, IdleNamed DEF Settle, LineageInv, CallNamed
  <2>3. QED
    BY <1>1, <1>2, <2>1, <2>2 DEF AllocatePort, LineageInv, CallNamed, NamedCall
<1>7. sandboxes[v].phase # "ready"
  BY <1>0 DEF LineageInv, NotReady
<1>8. NotReady'
  <2>1. SUFFICES ASSUME NEW d \in Calls, calls'[d].pc \in Early
                 PROVE  sandboxes[calls'[d].user].phase # "ready"
    BY <1>0 DEF NotReady
  <2>2. calls'[d].pc \in EnsureAwaits
    BY <2>1 DEF Early
  <2>3. QED
    BY <1>5, <1>7, <2>1, <2>2 DEF LineageInv, NotReady
<1>9. OneLineage'
  <2>1. SUFFICES ASSUME NEW u \in Users, rows'[u].status # "absent"
                 PROVE  /\ sandboxes[u].phase = "ready" => sandboxes[u].name = rows'[u].name
                        /\ \A d \in Calls :
                             calls'[d].user = u /\ calls'[d].pc \in EnsureAwaits
                               => calls'[d].name \in {None, rows'[u].name}
    BY <1>0 DEF OneLineage, Creators
  <2>2. sandboxes[u].phase = "ready" => sandboxes[u].name = rows'[u].name
    BY <1>3, <1>7, <2>1 DEF LineageInv, OneLineage
  <2>3. ASSUME NEW d \in Calls, calls'[d].user = u, calls'[d].pc \in EnsureAwaits
        PROVE  calls'[d].name \in {None, rows'[u].name}
    <3>1. CASE d = c
      BY <1>3, <1>5, <2>3, <3>1
    <3>2. CASE d # c
      <4>1. calls'[d] = calls[d] /\ calls[d].user = u /\ calls[d].pc \in EnsureAwaits
        BY <1>5, <2>3, <3>2
      <4>2. u # v
        BY <1>0, <3>2, <4>1, OneCreator
      <4>3. QED
        BY <1>3, <2>1, <4>1, <4>2 DEF LineageInv, OneLineage, Creators
    <3>3. QED
      BY <3>1, <3>2
  <2>4. QED
    BY <2>2, <2>3
<1>10. QED
  BY <1>4, <1>6, <1>8, <1>9 DEF LineageInv

LEMMA LineageEnsureStep ==
    ASSUME TypeOK, LockInv, LineageInv, NEW c \in Calls, EnsureStep(c)
    PROVE  LineageInv'
<1>0. calls[c].user \in Users /\ calls[c].pc \in EnsureAwaits
  BY EnsureShape, AwaitsDisjoint DEF TypeOK, CallsOK
<1>1. calls[c].pc \notin {"getByUserId", "insertRow"} => calls[c].name # None
  BY <1>0 DEF LineageInv, CallNamed, NamedCall, Named
<1>2. UNCHANGED rows => RowsShrink
  BY DEF RowsShrink
<1>3. \A s \in {"provisioning", "ready", "error"} :
         SetStatus(c, s) /\ calls[c].pc \notin {"getByUserId", "insertRow"} => RowsShrink
  BY <1>0, <1>1, SetStatusShrinks DEF LineageInv
<1>4. CASE GetByUserId(c) \/ InsertRow(c)
  BY <1>4, LookupStep, InsertStep
<1>5. CASE GetPod(c)
  BY <1>2, <1>5, GotoAdvances, AllocateAdvances, RecoverAdvances
     DEF GetPod, Early, EnsureAwaits
<1>6. CASE EnsureDeletePod(c)
  BY <1>2, <1>6, AllocateAdvances DEF EnsureDeletePod, Early, EnsureAwaits
<1>7. CASE SetWaiting(c) \/ SetProvisioning(c)
  BY <1>3, <1>7, GotoAdvances DEF SetWaiting, SetProvisioning, Early, EnsureAwaits, memory
<1>8. CASE WaitReady(c)
  BY <1>2, <1>8, RecoverAdvances, SettleStep DEF WaitReady
<1>9. CASE CreatePod(c) \/ FailAfterCache(c)
  BY <1>2, <1>9, GotoAdvances DEF CreatePod, FailAfterCache, Catch, Early, EnsureAwaits
<1>10. CASE ForwardStart(c)
  BY <1>10, CacheStep DEF ForwardStart
<1>11. CASE WaitForHealthy(c)
  <2>1. CASE Catch(c) /\ UNCHANGED sandboxes
    BY <1>2, <1>11, <2>1, GotoAdvances DEF WaitForHealthy, Catch, Early, EnsureAwaits
  <2>2. CASE Cache(c) /\ Goto(c, "setReady")
    BY <1>11, <2>2, CacheStep DEF WaitForHealthy
  <2>3. QED
    BY <1>11, <2>1, <2>2 DEF WaitForHealthy
<1>12. CASE SetReady(c)
  BY <1>3, <1>12, GotoAdvances DEF SetReady, Early, EnsureAwaits, memory
<1>13. CASE SetReattached(c) \/ SetError(c)
  BY <1>3, <1>13, SettleStep DEF SetReattached, SetError
<1>14. CASE SetMetadata(c)
  <2>1. RowsShrink
    BY <1>0, <1>14 DEF SetMetadata, RowsShrink, TypeOK, Row
  <2>2. QED
    BY <1>14, <2>1, SettleStep DEF SetMetadata
<1>15. CASE EnsureRejects(c)
  BY <1>2, <1>15, SettleStep DEF EnsureRejects
<1>16. QED
  BY <1>4, <1>5, <1>6, <1>7, <1>8, <1>9, <1>10, <1>11, <1>12, <1>13, <1>14, <1>15
     DEF EnsureStep

\* The calls without a lock shrink rows and cache only.
LEMMA LineageOtherStep ==
    ASSUME TypeOK, LineageInv, NEW c \in Calls, OtherStep(c)
    PROVE  LineageInv'
<1>0. /\ calls[c].user \in Users /\ OthersStay(c) /\ calls'[c].pc \notin EnsureAwaits
  BY OtherShape, AwaitsDisjoint DEF OtherAwaits, TypeOK, CallsOK
<1>1. UNCHANGED rows => RowsShrink
  BY DEF RowsShrink
<1>2. UNCHANGED sandboxes => CacheShrinks /\ CacheNamed'
  BY DEF LineageInv, CacheShrinks, CacheNamed
<1>3. calls[c].pc \in Named => calls[c].name # None
  BY DEF LineageInv, CallNamed, NamedCall
<1>4. NamedCall(calls'[c])
  <2>1. Finish(c) => calls'[c] = Idle
    BY DEF Finish, TypeOK, CallsOK
  <2>2. \A pc \in OtherAwaits : Goto(c, pc) => calls'[c].pc = pc /\ calls'[c].name = calls[c].name
    BY DEF Goto, TypeOK, CallsOK, Frame
  <2>3. \A pc \in OtherAwaits : Goto(c, pc) /\ pc # "health.check"
            /\ (pc \in Named => calls[c].pc \in Named) => NamedCall(calls'[c])
    BY <1>3, <2>2 DEF NamedCall
  <2>4. CASE SuspendSetStatus(c) \/ SuspendDelete(c)
    BY <2>1, <2>3, <2>4, IdleNamed
       DEF SuspendSetStatus, SuspendDelete, OtherAwaits, Named, EnsureAwaits
  <2>5. CASE DestroyLookup(c)
    BY <2>1, <2>5, IdleNamed
       DEF DestroyLookup, NamedCall, Named, EnsureAwaits, TypeOK, CallsOK, Frame
  <2>6. CASE DestroyDelete(c) \/ DestroyDeleteRow(c)
    BY <2>1, <2>3, <2>6, IdleNamed
       DEF DestroyDelete, DestroyDeleteRow, OtherAwaits, Named, EnsureAwaits
  <2>7. CASE HealthResult(c) \/ HealthSetStatus(c)
    BY <2>1, <2>3, <2>7, IdleNamed
       DEF HealthResult, HealthSetStatus, OtherAwaits, Named, EnsureAwaits
  <2>8. CASE RefreshGet(c) \/ RefreshForwardStart(c)
    BY <2>1, <2>3, <2>8, IdleNamed
       DEF RefreshGet, RefreshForwardStart, OtherAwaits, Named, EnsureAwaits
  <2>9. CASE ForwardStop(c) \/ OtherRejects(c)
    BY <2>1, <2>3, <2>9, IdleNamed
       DEF ForwardStop, OtherRejects, OtherAwaits, Named, EnsureAwaits
  <2>10. QED
    BY <2>4, <2>5, <2>6, <2>7, <2>8, <2>9 DEF OtherStep
<1>5. RowsShrink /\ CacheShrinks /\ CacheNamed'
  <2>1. CASE SuspendSetStatus(c)
    BY <1>0, <1>2, <1>3, <2>1, SetStatusShrinks
       DEF SuspendSetStatus, Named, LineageInv, memory
  <2>2. CASE SuspendDelete(c)
    BY <1>0, <1>1, <2>2, UncacheShrinks DEF SuspendDelete, LineageInv
  <2>3. CASE DestroyLookup(c) \/ DestroyDelete(c)
    BY <1>1, <1>2, <2>3 DEF DestroyLookup, DestroyDelete, memory
  <2>4. CASE DestroyDeleteRow(c)
    <3>1. RowsShrink
      BY <1>0, <2>4 DEF DestroyDeleteRow, RowsShrink, TypeOK
    <3>2. QED
      BY <1>0, <1>2, <2>4, <3>1, UncacheShrinks DEF DestroyDeleteRow, LineageInv
  <2>5. CASE HealthResult(c)
    <3>1. calls[c].ref # None /\ UNCHANGED rows
      BY <2>5 DEF HealthResult, LineageInv, CallNamed, NamedCall
    <3>2. CASE UNCHANGED sandboxes
      BY <1>1, <1>2, <3>1, <3>2
    <3>3. CASE /\ sandboxes[calls[c].user].ref = calls[c].ref
               /\ sandboxes' = [sandboxes EXCEPT ![calls[c].user].phase = "error"]
      <4>1. sandboxes[calls[c].user].name # None
        BY <1>0, <3>1, <3>3 DEF LineageInv, CacheNamed
      <4>2. CacheShrinks /\ CacheNamed'
        BY <1>0, <3>3, <4>1 DEF LineageInv, CacheShrinks, CacheNamed, TypeOK, State
      <4>3. QED
        BY <1>1, <3>1, <4>2
    <3>4. QED
      BY <2>5, <3>2, <3>3 DEF HealthResult
  <2>6. CASE HealthSetStatus(c)
    BY <1>0, <1>3, <2>6, SetStatusShrinks, UncacheShrinks
       DEF HealthSetStatus, Named, LineageInv
  <2>7. CASE RefreshGet(c) \/ RefreshForwardStart(c) \/ ForwardStop(c) \/ OtherRejects(c)
    BY <1>1, <1>2, <2>7 DEF RefreshGet, RefreshForwardStart, ForwardStop, OtherRejects, memory
  <2>8. QED
    BY <2>1, <2>2, <2>3, <2>4, <2>5, <2>6, <2>7 DEF OtherStep
<1>6. QED
  BY <1>0, <1>4, <1>5, QuietStep DEF OthersStay

LEMMA LineageBegin ==
    ASSUME TypeOK, LineageInv, NEW c \in Calls, NEW u \in Users, Begin(c, u)
    PROVE  LineageInv'
<1>0. OthersStay(c) /\ RowsShrink
  BY BeginShape DEF Begin, JoinEnsure, StartEnsure, SuspendSandbox, DestroySandbox,
     HealthCheck, RefreshPortForward, RowsShrink
<1>1. UNCHANGED sandboxes => CacheShrinks /\ CacheNamed'
  BY DEF LineageInv, CacheShrinks, CacheNamed
<1>2. \A f : calls' = [calls EXCEPT ![c] = f] => calls'[c] = f
  BY DEF TypeOK, CallsOK
<1>3. CASE JoinEnsure(c, u)
  <2>1. calls'[c] = Call("joined", u, NoSandbox) /\ UNCHANGED sandboxes
    BY <1>2, <1>3 DEF JoinEnsure, memory
  <2>2. NamedCall(calls'[c]) /\ calls'[c].pc \notin EnsureAwaits
    BY <2>1 DEF NamedCall, Call, Named, EnsureAwaits
  <2>3. QED
    BY <1>0, <1>1, <2>1, <2>2, QuietStep DEF OthersStay
<1>4. CASE StartEnsure(c, u)
  <2>1. /\ calls'[c] = Call("getByUserId", u, NoSandbox) /\ UNCHANGED <<sandboxes, rows>>
        /\ sandboxes[u].phase # "ready"
    BY <1>2, <1>4 DEF StartEnsure
  <2>2. calls'[c].pc = "getByUserId" /\ calls'[c].user = u /\ calls'[c].name = None
    BY <2>1 DEF Call, NoSandbox
  <2>3. RowNamed' /\ CacheNamed'
    BY <1>1, <2>1 DEF LineageInv, RowNamed
  <2>4. CallNamed'
    BY <1>0, <2>2 DEF LineageInv, CallNamed, NamedCall, Named, OthersStay
  <2>5. NotReady'
    BY <1>0, <2>1, <2>2 DEF LineageInv, NotReady, OthersStay
  <2>6. OneLineage'
    BY <1>0, <2>1, <2>2 DEF LineageInv, OneLineage, Creators, OthersStay
  <2>7. QED
    BY <2>3, <2>4, <2>5, <2>6 DEF LineageInv
<1>5. CASE SuspendSandbox(c, u)
  <2>1. /\ calls'[c] = Call("suspend.setStatus", u, sandboxes[u])
        /\ sandboxes' = [sandboxes EXCEPT ![u].phase = "suspended"]
        /\ sandboxes[u].name # None
    BY <1>2, <1>5 DEF SuspendSandbox, LineageInv, CacheNamed
  <2>2. NamedCall(calls'[c]) /\ calls'[c].pc \notin EnsureAwaits
    BY <2>1 DEF NamedCall, Call, EnsureAwaits
  <2>3. CacheShrinks /\ CacheNamed'
    BY <2>1 DEF LineageInv, CacheShrinks, CacheNamed, TypeOK, State
  <2>4. QED
    BY <1>0, <2>2, <2>3, QuietStep DEF OthersStay
<1>6. CASE DestroySandbox(c, u) \/ RefreshPortForward(c, u)
  <2>1. \E sb : \/ calls'[c] = Call("destroy.forwardStop", u, sb)
                \/ calls'[c] = Call("destroy.lookup", u, sb)
                \/ calls'[c] = Call("refresh.get", u, sb)
    BY <1>2, <1>6 DEF DestroySandbox, RefreshPortForward
  <2>2. NamedCall(calls'[c]) /\ calls'[c].pc \notin EnsureAwaits
    BY <2>1 DEF NamedCall, Call, Named, EnsureAwaits
  <2>3. UNCHANGED sandboxes
    BY <1>6 DEF DestroySandbox, RefreshPortForward, memory
  <2>4. QED
    BY <1>0, <1>1, <2>2, <2>3, QuietStep DEF OthersStay
<1>7. CASE HealthCheck(c, u)
  <2>1. /\ calls'[c] = [Call("health.check", u, sandboxes[u]) EXCEPT !.ref = sandboxes[u].ref]
        /\ sandboxes[u].name # None /\ sandboxes[u].ref # None /\ UNCHANGED sandboxes
    BY <1>2, <1>7 DEF HealthCheck, LineageInv, CacheNamed, memory
  <2>2. NamedCall(calls'[c]) /\ calls'[c].pc \notin EnsureAwaits
    BY <2>1 DEF NamedCall, Call, EnsureAwaits
  <2>3. QED
    BY <1>0, <1>1, <2>1, <2>2, QuietStep DEF OthersStay
<1>8. QED
  BY <1>3, <1>4, <1>5, <1>6, <1>7 DEF Begin

LEMMA LineageStep == TypeOK /\ LockInv /\ LineageInv /\ [Next]_vars => LineageInv'
<1> SUFFICES ASSUME TypeOK, LockInv, LineageInv, [Next]_vars
             PROVE  LineageInv'
  OBVIOUS
<1>1. CASE \E c \in Calls : EnsureStep(c) \/ OtherStep(c)
  BY <1>1, LineageEnsureStep, LineageOtherStep
<1>2. CASE \E c \in Calls, u \in Users : Begin(c, u)
  BY <1>2, LineageBegin
<1>3. CASE \/ \E n \in Names : PodReady(n) \/ PodDies(n)
           \/ \E p \in Ports : ForwardDies(p)
           \/ UNCHANGED vars
  BY <1>3 DEF PodReady, PodDies, ForwardDies, memory, vars, LineageInv, RowNamed,
     CacheNamed, CallNamed, NotReady, OneLineage, Creators
<1>4. CASE Restart
  <2>1. RowsShrink /\ CacheShrinks /\ CacheNamed'
    BY <1>4 DEF Restart, RowsShrink, CacheShrinks, CacheNamed, NoSandbox
  <2>2. \A d \in Calls : calls'[d] = Idle
    BY <1>4 DEF Restart
  <2>3. QED
    BY <2>1, <2>2, IdleNamed, QuietStep
<1>5. QED
  BY <1>1, <1>2, <1>3, <1>4 DEF Next

LEMMA LineageInit == Init => LineageInv
  BY AwaitsDisjoint, IdleNamed
     DEF Init, LineageInv, RowNamed, CacheNamed, CallNamed, NotReady, OneLineage, NoRow,
         NoSandbox, Creators, Early, Idle, Call

\* Whatever overlaps, fails or restarts: while a user has a row, the cached sandbox that
\* is ready and the creation under way are those of the row (sandbox-manager.ts:229-271
\* against 351-476 and 552-637).
THEOREM LineageCorrect == Spec => []OneLineage
<1>1. LineageInv => OneLineage
  BY DEF LineageInv
<1>2. QED
  BY <1>1, TypeInit, TypeStep, LockInit, LockStep, LineageInit, LineageStep, PTL DEF Spec
=============================================================================
