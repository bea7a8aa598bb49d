------------------------ MODULE SandboxSerialProofs -------------------------
(***************************************************************************)
(* What SandboxHistory promises, proved of every execution: calls meet as  *)
(* they like, and the history says of which users what is still true.      *)
(*   - PodInv: the pod of a user who is not abandoned is that of the row,  *)
(*     so OnePodPerUser holds.                                             *)
(*   - Rooted: until calls have crossed, the call at work, the cache and   *)
(*     the row speak of one sandbox, whatever fails or restarts.           *)
(*   - Tidy: until calls have crossed or something has failed, cache, row, *)
(*     pod, tunnel and port agree with what the call at work does.         *)
(*     PortAccounting, ClientReachesOwner and RowTellsTruth follow.        *)
(***************************************************************************)
EXTENDS SandboxManagerProofs, SandboxHistory

\* Until calls cross, a call at work without the lock is the only one of its user, and a
\* probe that fails hits the state it was sent for.
Apart == \A u \in Users : ~Together(u) /\ ~LateProbe(u)

\* Where a call does nothing for its user.
Passive == {"idle", "joined", "health.check"}

\* A probe on its way for the state that is cached knows its name and its port.
RefAgrees ==
    \A c \in Calls :
        LET sb == sandboxes[calls[c].user] IN
        calls[c].pc = "health.check" /\ calls[c].ref = sb.ref =>
            calls[c].name = sb.name /\ calls[c].port = sb.port

\* Awaits of a creation that knows its row, that holds a port, that has cached its state.
Past   == EnsureAwaits \ {"getByUserId", "insertRow"}
Ported == {"forwardStart", "setProvisioning", "createPod", "waitForHealthy", "setReady",
           "setMetadata"}
Done   == {"setReattached", "setReady", "setMetadata"}

\* A user's row bears a name of the user, and what is cached bears the name in the row.
RootedUser(u) ==
    /\ rows[u].name # None => rows[u].name[1] = u
    /\ sandboxes[u].phase # "absent" =>
         /\ sandboxes[u].name = rows[u].name /\ rows[u].name # None
         /\ sandboxes[u].port # None

\* A call works on the sandbox in the row, and a call without a lock on the cached one.
RootedCall(k, sb, row) ==
    /\ k.pc \in Past => k.name = row.name /\ row.name # None
    /\ k.pc \in Ported => k.port # None
    /\ k.pc \in Done => sb.phase = "ready"
    /\ k.pc = "destroy.lookup" => sb.phase = "absent" /\ k.port = None
    /\ k.pc \in Unlocked \ {"destroy.lookup"} =>
         /\ k.name = row.name
         /\ IF sb.phase = "absent"
            THEN k.port = None /\ k.pc \in {"destroy.delete", "destroy.deleteRow"}
            ELSE k.port = sb.port /\ k.port # None

Rooted ==
    /\ \A u \in Users : RootedUser(u)
    /\ \A c \in Calls :
         calls[c].pc # "idle"
           => RootedCall(calls[c], sandboxes[calls[c].user], rows[calls[c].user])

BaseInv == TypeOK /\ LockInv /\ LineageInv /\ RefAgrees

SerialInv == TypeOK /\ LockInv /\ LineageInv /\ RefAgrees /\ Apart /\ Rooted

\* No call but c works for u.
Solo(c, u) == \A d \in Calls \ {c} : calls[d].user = u => calls[d].pc \in Passive

\* A step of call c for user u leaves the other users' states and rows, and the other calls
\* but those that joined and return.
StepOf(c, u) ==
    /\ \A v \in Users \ {u} : sandboxes'[v] = sandboxes[v] /\ rows'[v] = rows[v]
    /\ \A d \in Calls \ {c} : \/ calls'[d] = calls[d]
                              \/ calls[d].pc = "joined" /\ calls'[d] = Idle
    /\ calls'[c] = Idle \/ calls'[c].user = u

\* What such a step owes.
Owed(c, u) ==
    /\ RootedUser(u)'
    /\ calls'[c].pc # "idle" => RootedCall(calls'[c], sandboxes'[u], rows'[u])

LEMMA IdlePC == Idle.pc = "idle" /\ Idle.port = None /\ Idle.name = None /\ Idle.user = None
  BY DEF Idle, Call, NoSandbox

LEMMA PassiveRooted ==
    ASSUME NEW k, k.pc \in Passive, NEW sb, NEW row
    PROVE  RootedCall(k, sb, row)
  BY DEF RootedCall, Passive, Past, Ported, Done, Unlocked, OtherAwaits, EnsureAwaits

LEMMA Working ==
    /\ PCs = Passive \cup EnsureAwaits \cup Unlocked
    /\ Unlocked \subseteq OtherAwaits
    /\ \A pc \in EnsureAwaits \cup Unlocked : pc \notin Passive
    /\ \A pc \in Unlocked : pc \notin EnsureAwaits
  BY DEF PCs, Passive, Unlocked, EnsureAwaits, OtherAwaits

\* Two calls that work for one user are one.
LEMMA Alone ==
    ASSUME SerialInv, NEW c \in Calls, calls[c].pc \in EnsureAwaits \cup Unlocked
    PROVE  Solo(c, calls[c].user) /\ calls[c].user \in Users
<1>1. calls[c].user \in Users /\ calls[c].pc \notin Passive
  BY Working DEF SerialInv, TypeOK, CallsOK, Passive
<1>2. ASSUME NEW d \in Calls \ {c}, calls[d].user = calls[c].user, calls[d].pc \notin Passive
      PROVE  FALSE
  <2>1. calls[d].pc \in EnsureAwaits \cup Unlocked
    BY <1>2, Working DEF SerialInv, TypeOK, CallsOK, Frame
  <2>2. ~Together(calls[c].user)
    BY <1>1 DEF SerialInv, Apart
  <2> QED
    BY <1>1, <1>2, <2>1, <2>2 DEF SerialInv, Together, LockInv, Passive
<1> QED
  BY <1>1, <1>2 DEF Solo

\* The other users and their calls stay rooted.
LEMMA StepRooted ==
    ASSUME Rooted, TypeOK, NEW u \in Users, NEW c \in Calls, Solo(c, u), StepOf(c, u), Owed(c, u)
    PROVE  Rooted'
<1>1. ASSUME NEW v \in Users
      PROVE  RootedUser(v)'
  BY <1>1 DEF Rooted, RootedUser, StepOf, Owed
<1>2. ASSUME NEW d \in Calls, calls'[d].pc # "idle"
      PROVE  RootedCall(calls'[d], sandboxes'[calls'[d].user], rows'[calls'[d].user])
  <2>1. CASE d = c
    BY <1>2, <2>1, IdlePC DEF StepOf, Owed
  <2>2. CASE d # c /\ calls[d].user = u
    BY <1>2, <2>2, IdlePC, PassiveRooted DEF StepOf, Solo
  <2>3. CASE d # c /\ calls[d].user # u
    <3>1. calls'[d] = calls[d]
      BY <1>2, <2>3, IdlePC DEF StepOf
    <3>2. calls[d].user \in Users
      BY <1>2, <3>1 DEF TypeOK, CallsOK
    <3> QED
      BY <1>2, <2>3, <3>1, <3>2 DEF StepOf, Rooted
  <2> QED
    BY <2>1, <2>2, <2>3
<1> QED
  BY <1>1, <1>2 DEF Rooted

-----------------------------------------------------------------------------
(* What the helpers leave *)

LEMMA GotoAt ==
    ASSUME TypeOK, NEW c \in Calls, NEW pc, Goto(c, pc)
    PROVE  /\ calls'[c].pc = pc /\ calls'[c].user = calls[c].user
           /\ calls'[c].name = calls[c].name /\ calls'[c].port = calls[c].port
           /\ calls'[c].ref = calls[c].ref /\ OthersStay(c)
  BY DEF Goto, OthersStay, TypeOK, CallsOK, Frame

LEMMA FinishAt ==
    ASSUME TypeOK, NEW c \in Calls, Finish(c)
    PROVE  calls'[c] = Idle /\ calls'[c].pc = "idle" /\ OthersStay(c)
  BY IdlePC DEF Finish, OthersStay, TypeOK, CallsOK

LEMMA SettleAt ==
    ASSUME TypeOK, NEW c \in Calls, Settle(c)
    PROVE  /\ calls'[c] = Idle /\ calls'[c].pc = "idle"
           /\ \A d \in Calls \ {c} : \/ calls'[d] = calls[d]
                                     \/ calls[d].pc = "joined" /\ calls'[d] = Idle
  BY IdlePC DEF Settle

LEMMA AllocateAt ==
    ASSUME TypeOK, NEW c \in Calls, NEW n, NEW pc, AllocatePort(c, n, pc)
    PROVE  \/ /\ calls'[c].pc = pc /\ calls'[c].user = calls[c].user /\ calls'[c].name = n
              /\ calls'[c].port \in FreePorts /\ allocatedPorts' = allocatedPorts \cup {calls'[c].port}
              /\ OthersStay(c)
           \/ Settle(c) /\ UNCHANGED allocatedPorts
<1>1. ASSUME NEW p \in FreePorts, allocatedPorts' = allocatedPorts \cup {p},
             calls' = [calls EXCEPT ![c].pc = pc, ![c].name = n, ![c].port = p]
      PROVE  /\ calls'[c].pc = pc /\ calls'[c].user = calls[c].user /\ calls'[c].name = n
             /\ calls'[c].port = p /\ OthersStay(c)
  BY <1>1 DEF OthersStay, TypeOK, CallsOK, Frame
<1> QED
  BY <1>1 DEF AllocatePort

LEMMA StatusAt ==
    ASSUME TypeOK, NEW c \in Calls, calls[c].user \in Users, NEW s, SetStatus(c, s)
    PROVE  /\ rows'[calls[c].user].name = rows[calls[c].user].name
           /\ rows'[calls[c].user].agentPort = rows[calls[c].user].agentPort
           /\ rows[calls[c].user].name = calls[c].name => rows'[calls[c].user].status = s
           /\ \A v \in Users \ {calls[c].user} : rows'[v] = rows[v]
  BY DEF SetStatus, TypeOK, Row

LEMMA CacheAt ==
    ASSUME TypeOK, NEW c \in Calls, calls[c].user \in Users, Cache(c)
    PROVE  /\ sandboxes'[calls[c].user].phase = "ready"
           /\ sandboxes'[calls[c].user].name = calls[c].name
           /\ sandboxes'[calls[c].user].port = calls[c].port
           /\ \A v \in Users \ {calls[c].user} : sandboxes'[v] = sandboxes[v]
  BY DEF Cache, TypeOK

LEMMA UncacheAt ==
    ASSUME TypeOK, NEW u \in Users, Uncache(u)
    PROVE  /\ sandboxes'[u] = NoSandbox
           /\ \A v \in Users \ {u} : sandboxes'[v] = sandboxes[v]
  BY DEF Uncache, TypeOK

LEMMA NoneFree == None \notin Ports /\ None \notin Names /\ None \notin Users /\ None \notin Calls
  BY ConstantsAssumption

-----------------------------------------------------------------------------
(* Each step pays what it owes *)

\* A creation whose promise settles: its row may have got another status.
LEMMA SettleOwed ==
    ASSUME SerialInv, NEW c \in Calls, NEW u \in Users, calls[c].user = u, Settle(c),
           rows'[u].name = rows[u].name, \A v \in Users \ {u} : rows'[v] = rows[v],
           UNCHANGED sandboxes
    PROVE  StepOf(c, u) /\ Owed(c, u)
<1>1. RootedUser(u)'
  BY DEF SerialInv, Rooted, RootedUser
<1> QED
  BY <1>1, SettleAt DEF SerialInv, StepOf, Owed

\* A creation that goes on with the name and the port it has.
LEMMA GotoOwed ==
    ASSUME SerialInv, NEW c \in Calls, NEW u \in Users, calls[c].user = u,
           calls[c].pc \in Past, NEW pc \in Past, Goto(c, pc),
           pc \in Ported => calls[c].pc \in Ported, pc \in Done => calls[c].pc \in Done,
           rows'[u].name = rows[u].name, \A v \in Users \ {u} : rows'[v] = rows[v],
           UNCHANGED sandboxes
    PROVE  StepOf(c, u) /\ Owed(c, u)
<1>1. RootedUser(u)'
  BY DEF SerialInv, Rooted, RootedUser
<1>2. calls[c].pc # "idle" /\ pc \notin OtherAwaits
  BY AwaitsDisjoint DEF Past
<1>3. RootedCall(calls[c], sandboxes[u], rows[u])
  BY <1>2 DEF SerialInv, Rooted
<1>4. RootedCall(calls'[c], sandboxes'[u], rows'[u])
  BY <1>2, <1>3, GotoAt DEF SerialInv, RootedCall, Unlocked, OtherAwaits
<1> QED
  BY <1>1, <1>4, GotoAt DEF SerialInv, StepOf, Owed, OthersStay

\* A creation that gets a port for the sandbox in the row.
LEMMA AllocateOwed ==
    ASSUME SerialInv, NEW c \in Calls, NEW u \in Users, calls[c].user = u,
           NEW n, rows'[u].name = n, n # None, n[1] = u, rows[u].name = n \/ sandboxes[u].phase = "absent",
           NEW pc \in {"setProvisioning", "forwardStart"}, AllocatePort(c, n, pc),
           \A v \in Users \ {u} : rows'[v] = rows[v], UNCHANGED sandboxes
    PROVE  StepOf(c, u) /\ Owed(c, u)
<1>1. RootedUser(u)'
  BY DEF SerialInv, Rooted, RootedUser
<1>2. CASE Settle(c)
  BY <1>1, <1>2, SettleAt DEF SerialInv, StepOf, Owed
<1>3. CASE calls'[c].pc = pc /\ calls'[c].user = calls[c].user /\ calls'[c].name = n
           /\ calls'[c].port \in FreePorts /\ OthersStay(c)
  <2>1. pc \notin OtherAwaits /\ pc \notin Done /\ calls'[c].port # None
    BY <1>3, NoneFree DEF OtherAwaits, Done, FreePorts
  <2>2. RootedCall(calls'[c], sandboxes'[u], rows'[u])
    BY <1>3, <2>1 DEF RootedCall, Unlocked, OtherAwaits
  <2> QED
    BY <1>1, <1>3, <2>2 DEF StepOf, Owed, OthersStay
<1> QED
  BY <1>2, <1>3, AllocateAt DEF SerialInv

LEMMA EnsureOwed ==
    ASSUME SerialInv, NEW c \in Calls, EnsureStep(c)
    PROVE  StepOf(c, calls[c].user) /\ Owed(c, calls[c].user)
<1>0. calls[c].pc \in EnsureAwaits /\ calls[c].user \in Users
  BY EnsureShape, Alone DEF SerialInv
<1>1. PICK u \in Users : u = calls[c].user
  BY <1>0
<1>2. /\ RootedUser(u) /\ TypeOK
      /\ RootedCall(calls[c], sandboxes[u], rows[u])
  BY <1>0, <1>1, AwaitsDisjoint DEF SerialInv, Rooted
<1>3. \A s \in {"provisioning", "ready", "error"} :
         SetStatus(c, s) => /\ rows'[u].name = rows[u].name
                            /\ \A v \in Users \ {u} : rows'[v] = rows[v]
  BY <1>1, <1>2, StatusAt
<1>4. CASE GetByUserId(c)
  <2>1. calls[c].pc = "getByUserId" /\ UNCHANGED <<sandboxes, rows>>
    BY <1>4 DEF GetByUserId
  <2>2. CASE /\ rows[u].status # "absent"
             /\ calls' = [calls EXCEPT ![c].pc = "getPod", ![c].name = rows[u].name,
                                       ![c].port = rows[u].agentPort]
    <3>1. /\ calls'[c].pc = "getPod" /\ calls'[c].user = u /\ calls'[c].name = rows[u].name
          /\ OthersStay(c)
      BY <1>1, <1>2, <2>2 DEF OthersStay, TypeOK, CallsOK, Frame
    <3>2. rows[u].name # None
      BY <2>2 DEF SerialInv, LineageInv, RowNamed
    <3>3. RootedCall(calls'[c], sandboxes'[u], rows'[u])
      BY <2>1, <3>1, <3>2 DEF RootedCall, Ported, Done, Unlocked, OtherAwaits
    <3> QED
      BY <1>1, <1>2, <2>1, <3>1, <3>3 DEF StepOf, Owed, OthersStay, RootedUser
  <2>3. CASE Goto(c, "insertRow")
    <3>1. RootedCall(calls'[c], sandboxes'[u], rows'[u])
      BY <1>2, <2>3, GotoAt DEF RootedCall, Past, Ported, Done, Unlocked, OtherAwaits
    <3> QED
      BY <1>1, <1>2, <2>1, <2>3, <3>1, GotoAt DEF StepOf, Owed, OthersStay, RootedUser
  <2>4. CASE Settle(c)
    BY <1>1, <2>1, <2>4, SettleOwed
  <2> QED
    BY <1>1, <1>4, <2>2, <2>3, <2>4 DEF GetByUserId
<1>5. CASE InsertRow(c)
  <2>1. PICK n \in FreshNames(u) :
           /\ rows' = [rows EXCEPT ![u] = [status |-> "creating", name |-> n, agentPort |-> None]]
           /\ AllocatePort(c, n, "setProvisioning")
    BY <1>1, <1>5 DEF InsertRow
  <2>2. n \in Names /\ n[1] = u /\ n # None
    BY <2>1, NoneFree DEF FreshNames, Names
  <2>3. rows'[u].name = n /\ \A v \in Users \ {u} : rows'[v] = rows[v]
    BY <1>2, <2>1 DEF TypeOK
  <2>4. rows[u].name = None /\ UNCHANGED sandboxes
    BY <1>1, <1>5 DEF InsertRow, SerialInv, LineageInv, RowNamed
  <2>5. sandboxes[u].phase = "absent"
    BY <1>2, <2>4 DEF RootedUser
  <2> QED
    BY <1>1, <2>1, <2>2, <2>3, <2>4, <2>5, AllocateOwed
<1>6. CASE GetPod(c) \/ WaitReady(c)
  <2>1. /\ calls[c].pc \in {"getPod", "waitReady"} /\ UNCHANGED <<sandboxes, rows>>
        /\ calls[c].name = rows[u].name /\ rows[u].name # None /\ rows[u].name[1] = u
    BY <1>2, <1>6 DEF GetPod, WaitReady, RootedCall, RootedUser, Past, EnsureAwaits
  <2>2. CASE RecoverPort(c)
    <3>1. CASE AllocatePort(c, calls[c].name, "forwardStart")
      <4>1. PICK n : n = rows[u].name
        OBVIOUS
      <4>2. AllocatePort(c, n, "forwardStart")
        BY <2>1, <3>1, <4>1
      <4> QED
        BY <1>1, <2>1, <4>1, <4>2, AllocateOwed
    <3>2. CASE calls[c].port # None /\ Goto(c, "forwardStart")
      <4>1. RootedCall(calls'[c], sandboxes'[u], rows'[u])
        BY <1>2, <2>1, <3>2, GotoAt DEF RootedCall, Done, Unlocked, OtherAwaits
      <4> QED
        BY <1>1, <1>2, <2>1, <3>2, <4>1, GotoAt DEF StepOf, Owed, OthersStay, RootedUser
    <3> QED
      BY <2>2, <3>1, <3>2 DEF RecoverPort
  <2>3. CASE Goto(c, "setWaiting") \/ Goto(c, "deletePod")
    BY <1>1, <2>1, <2>3, GotoOwed DEF Past, Ported, Done, EnsureAwaits
  <2>4. CASE AllocatePort(c, calls[c].name, "setProvisioning")
    <3>1. PICK n : n = rows[u].name
      OBVIOUS
    <3>2. AllocatePort(c, n, "setProvisioning")
      BY <2>1, <2>4, <3>1
    <3> QED
      BY <1>1, <2>1, <3>1, <3>2, AllocateOwed
  <2>5. CASE Settle(c)
    BY <1>1, <2>1, <2>5, SettleOwed
  <2> QED
    BY <1>6, <2>2, <2>3, <2>4, <2>5 DEF GetPod, WaitReady
<1>7. CASE EnsureDeletePod(c)
  <2>1. /\ calls[c].pc = "deletePod" /\ UNCHANGED <<sandboxes, rows>>
        /\ calls[c].name = rows[u].name /\ rows[u].name # None /\ rows[u].name[1] = u
    BY <1>2, <1>7 DEF EnsureDeletePod, RootedCall, RootedUser, Past, EnsureAwaits
  <2>2. PICK n : n = rows[u].name
    OBVIOUS
  <2>3. AllocatePort(c, n, "setProvisioning")
    BY <1>7, <2>1, <2>2 DEF EnsureDeletePod
  <2> QED
    BY <1>1, <2>1, <2>2, <2>3, AllocateOwed
<1>8. CASE SetWaiting(c) \/ SetProvisioning(c)
  BY <1>1, <1>3, <1>8, GotoOwed DEF SetWaiting, SetProvisioning, Past, Ported, Done, EnsureAwaits, memory
<1>9. CASE CreatePod(c) \/ FailAfterCache(c)
  BY <1>1, <1>9, GotoOwed DEF CreatePod, FailAfterCache, Catch, Past, Ported, Done, EnsureAwaits
<1>10. ASSUME Cache(c), UNCHANGED rows, NEW pc \in {"setReattached", "setReady"}, Goto(c, pc),
              calls[c].pc \in {"forwardStart", "waitForHealthy"}
       PROVE  StepOf(c, u) /\ Owed(c, u)
  <2>1. calls[c].name = rows[u].name /\ rows[u].name # None /\ calls[c].port # None
    BY <1>2, <1>10 DEF RootedCall, Past, Ported, EnsureAwaits
  <2>2. /\ sandboxes'[u].phase = "ready" /\ sandboxes'[u].name = rows[u].name
        /\ sandboxes'[u].port # None /\ \A v \in Users \ {u} : sandboxes'[v] = sandboxes[v]
    BY <1>1, <1>2, <1>10, <2>1, CacheAt
  <2>3. RootedUser(u)'
    BY <1>2, <1>10, <2>1, <2>2 DEF RootedUser
  <2>4. RootedCall(calls'[c], sandboxes'[u], rows'[u])
    BY <1>2, <1>10, <2>1, <2>2, GotoAt DEF RootedCall, Unlocked, OtherAwaits
  <2> QED
    BY <1>1, <1>2, <1>10, <2>2, <2>3, <2>4, GotoAt DEF StepOf, Owed, OthersStay
<1>11. CASE ForwardStart(c)
  BY <1>1, <1>10, <1>11 DEF ForwardStart
<1>12. CASE WaitForHealthy(c)
  <2>1. CASE Catch(c) /\ UNCHANGED sandboxes
    BY <1>1, <1>12, <2>1, GotoOwed DEF WaitForHealthy, Catch, Past, Ported, Done, EnsureAwaits
  <2> QED
    BY <1>1, <1>10, <1>12, <2>1 DEF WaitForHealthy
<1>13. CASE SetReady(c)
  BY <1>1, <1>3, <1>13, GotoOwed DEF SetReady, Past, Ported, Done, EnsureAwaits, memory
<1>14. CASE SetReattached(c) \/ SetError(c)
  BY <1>1, <1>3, <1>14, SettleOwed DEF SetReattached, SetError
<1>15. CASE SetMetadata(c)
  <2>1. rows'[u].name = rows[u].name /\ \A v \in Users \ {u} : rows'[v] = rows[v]
    BY <1>1, <1>2, <1>15 DEF SetMetadata, TypeOK, Row
  <2> QED
    BY <1>1, <1>15, <2>1, SettleOwed DEF SetMetadata
<1>16. CASE EnsureRejects(c)
  BY <1>1, <1>16, SettleOwed DEF EnsureRejects
<1> QED
  BY <1>1, <1>4, <1>5, <1>6, <1>7, <1>8, <1>9, <1>11, <1>12, <1>13, <1>14, <1>15, <1>16
     DEF EnsureStep

\* What a call without a lock knows, and what a step to its next await leaves true.
LEMMA OtherGoto ==
    ASSUME SerialInv, NEW c \in Calls, NEW u \in Users, calls[c].user = u,
           calls[c].pc \in Unlocked \ {"destroy.lookup"},
           NEW pc \in Unlocked \ {"destroy.lookup"}, Goto(c, pc),
           calls[c].pc \in {"destroy.delete", "destroy.deleteRow"} => pc = "destroy.deleteRow",
           rows'[u].name = rows[u].name, \A v \in Users \ {u} : rows'[v] = rows[v],
           sandboxes'[u].phase = "absent" <=> sandboxes[u].phase = "absent",
           sandboxes'[u].name = sandboxes[u].name, sandboxes'[u].port = sandboxes[u].port,
           \A v \in Users \ {u} : sandboxes'[v] = sandboxes[v]
    PROVE  StepOf(c, u) /\ Owed(c, u)
<1>1. /\ RootedUser(u) /\ RootedCall(calls[c], sandboxes[u], rows[u])
      /\ pc \notin EnsureAwaits /\ pc \notin Past /\ pc \notin Ported /\ pc \notin Done
  BY Working DEF SerialInv, Rooted, Unlocked, OtherAwaits, Past, Ported, Done
<1>2. RootedUser(u)'
  BY <1>1 DEF RootedUser
<1>3. RootedCall(calls'[c], sandboxes'[u], rows'[u])
  BY <1>1, GotoAt DEF RootedCall, SerialInv
<1> QED
  BY <1>2, <1>3, GotoAt DEF SerialInv, StepOf, Owed, OthersStay

\* A call that ends where the row keeps its name, the cached state too or goes.
LEMMA OtherEnds ==
    ASSUME SerialInv, NEW c \in Calls, NEW u \in Users, calls[c].user = u, Finish(c),
           rows'[u].name = rows[u].name \/ (rows'[u] = NoRow /\ sandboxes'[u].phase = "absent"),
           \A v \in Users \ {u} : rows'[v] = rows[v],
           sandboxes'[u] \in {sandboxes[u], NoSandbox},
           \A v \in Users \ {u} : sandboxes'[v] = sandboxes[v]
    PROVE  StepOf(c, u) /\ Owed(c, u)
<1>1. RootedUser(u)
  BY DEF SerialInv, Rooted
<1>2. RootedUser(u)'
  BY <1>1 DEF RootedUser, NoSandbox, NoRow
<1> QED
  BY <1>2, FinishAt DEF SerialInv, StepOf, Owed, OthersStay

LEMMA OtherOwed ==
    ASSUME SerialInv, NEW c \in Calls, OtherStep(c), calls[c].pc \in Unlocked
    PROVE  StepOf(c, calls[c].user) /\ Owed(c, calls[c].user)
<1>0. calls[c].pc \in Unlocked /\ calls[c].user \in Users
  BY Alone
<1>1. PICK u \in Users : u = calls[c].user
  BY <1>0
<1>2. RootedUser(u) /\ TypeOK /\ RootedCall(calls[c], sandboxes[u], rows[u])
  BY <1>0, <1>1 DEF SerialInv, Rooted, Unlocked, OtherAwaits
<1>3. \A s \in {"suspended", "error"} :
         SetStatus(c, s) => /\ rows'[u].name = rows[u].name
                            /\ \A v \in Users \ {u} : rows'[v] = rows[v]
  BY <1>1, <1>2, StatusAt
<1>4. Uncache(u) => sandboxes'[u] = NoSandbox /\ \A v \in Users \ {u} : sandboxes'[v] = sandboxes[v]
  BY <1>2, UncacheAt
<1>5. CASE SuspendSetStatus(c)
  BY <1>1, <1>3, <1>5, OtherGoto DEF SuspendSetStatus, Unlocked, OtherAwaits, memory
<1>6. CASE SuspendDelete(c)
  BY <1>1, <1>4, <1>6, OtherEnds DEF SuspendDelete
<1>7. CASE DestroyLookup(c)
  <2>1. calls[c].pc = "destroy.lookup" /\ UNCHANGED <<sandboxes, rows>>
    BY <1>7 DEF DestroyLookup, memory
  <2>2. CASE Finish(c)
    BY <1>1, <2>1, <2>2, OtherEnds
  <2>3. CASE calls' = [calls EXCEPT ![c].pc = "destroy.delete", ![c].name = rows[u].name]
    <3>1. /\ calls'[c].pc = "destroy.delete" /\ calls'[c].name = rows[u].name /\ OthersStay(c)
          /\ calls'[c].port = calls[c].port /\ calls'[c].user = u
      BY <1>1, <1>2, <2>3 DEF OthersStay, TypeOK, CallsOK, Frame
    <3>2. RootedCall(calls'[c], sandboxes'[u], rows'[u])
      BY <1>2, <2>1, <3>1 DEF RootedCall, Past, EnsureAwaits, Ported, Done, Unlocked, OtherAwaits
    <3> QED
      BY <1>1, <1>2, <2>1, <3>1, <3>2 DEF StepOf, Owed, OthersStay, RootedUser
  <2> QED
    BY <1>1, <1>7, <2>2, <2>3 DEF DestroyLookup
<1>8. CASE DestroyDelete(c)
  BY <1>1, <1>8, OtherGoto DEF DestroyDelete, Unlocked, OtherAwaits, memory
<1>9. CASE DestroyDeleteRow(c)
  <2>1. /\ calls[c].pc = "destroy.deleteRow" /\ calls[c].name = rows[u].name /\ Finish(c)
        /\ IF sandboxes[u].phase = "absent" THEN calls[c].port = None ELSE calls[c].port # None
    BY <1>1, <1>2, <1>9 DEF DestroyDeleteRow, RootedCall, Unlocked, OtherAwaits
  <2>2. rows'[u] = NoRow /\ \A v \in Users \ {u} : rows'[v] = rows[v]
    BY <1>1, <1>2, <1>9, <2>1 DEF DestroyDeleteRow, TypeOK
  <2>3. /\ sandboxes'[u] \in {sandboxes[u], NoSandbox} /\ sandboxes'[u].phase = "absent"
        /\ \A v \in Users \ {u} : sandboxes'[v] = sandboxes[v]
    BY <1>1, <1>4, <1>9, <2>1 DEF DestroyDeleteRow, NoSandbox
  <2> QED
    BY <1>1, <2>1, <2>2, <2>3, OtherEnds
<1>10. ~HealthResult(c)
  BY <1>0 DEF HealthResult, Unlocked
<1>11. CASE HealthSetStatus(c)
  BY <1>1, <1>3, <1>4, <1>11, OtherEnds DEF HealthSetStatus
<1>12. CASE RefreshGet(c) \/ RefreshForwardStart(c) \/ OtherRejects(c)
  <2>1. UNCHANGED <<sandboxes, rows>>
    BY <1>12 DEF RefreshGet, RefreshForwardStart, OtherRejects, memory
  <2>2. CASE Finish(c)
    BY <1>1, <2>1, <2>2, OtherEnds
  <2>3. CASE calls[c].pc = "refresh.get" /\ Goto(c, "refresh.forwardStop")
    BY <1>1, <2>1, <2>3, OtherGoto DEF Unlocked, OtherAwaits
  <2> QED
    BY <1>12, <2>2, <2>3 DEF RefreshGet, RefreshForwardStart, OtherRejects
<1>13. CASE ForwardStop(c)
  BY <1>1, <1>13, OtherGoto DEF ForwardStop, Unlocked, OtherAwaits, memory
<1> QED
  BY <1>1, <1>5, <1>6, <1>7, <1>8, <1>9, <1>10, <1>11, <1>12, <1>13 DEF OtherStep

\* A probe that fails before calls have crossed hits the sandbox it was sent for, while no
\* call works for its user.
LEMMA ProbeOwed ==
    ASSUME SerialInv, Apart', NEW c \in Calls, HealthResult(c), calls'[c].pc \notin Passive,
           NEW u \in Users, u = calls[c].user
    PROVE  /\ Solo(c, u) /\ StepOf(c, u) /\ Owed(c, u)
           /\ calls[c].ref = sandboxes[u].ref
           /\ calls[c].name = sandboxes[u].name /\ calls[c].port = sandboxes[u].port
           /\ sandboxes[u].phase # "absent"
<1>1. TypeOK /\ RootedUser(u)
  BY DEF SerialInv, Rooted
<1>2. /\ calls[c].pc = "health.check" /\ UNCHANGED rows
      /\ Goto(c, "health.setStatus")
      /\ sandboxes' = IF sandboxes[u].ref = calls[c].ref
                      THEN [sandboxes EXCEPT ![u].phase = "error"] ELSE sandboxes
  BY <1>1, FinishAt DEF HealthResult, Passive
<1>3. /\ calls'[c].pc = "health.setStatus" /\ calls'[c].user = u /\ OthersStay(c)
      /\ calls'[c].name = calls[c].name /\ calls'[c].port = calls[c].port
      /\ calls'[c].ref = calls[c].ref
  BY <1>1, <1>2, GotoAt
<1>4. Solo(c, u)
  BY <1>3 DEF Solo, Apart, Together, Unlocked, OtherAwaits, Passive, OthersStay
<1>5. calls[c].ref = sandboxes[u].ref
  BY <1>2, <1>3 DEF Apart, LateProbe
<1>6. calls[c].name = sandboxes[u].name /\ calls[c].port = sandboxes[u].port
  BY <1>2, <1>5 DEF SerialInv, RefAgrees
<1>7. sandboxes[u].phase # "absent"
  BY <1>2, <1>5 DEF SerialInv, LineageInv, CacheNamed, CallNamed, NamedCall
<1>8. /\ sandboxes'[u].phase = "error"
      /\ sandboxes'[u].name = sandboxes[u].name /\ sandboxes'[u].port = sandboxes[u].port
      /\ \A v \in Users \ {u} : sandboxes'[v] = sandboxes[v]
  BY <1>1, <1>2, <1>5 DEF TypeOK, State
<1>9. RootedUser(u)' /\ RootedCall(calls'[c], sandboxes'[u], rows'[u])
  BY <1>1, <1>2, <1>3, <1>6, <1>7, <1>8
     DEF RootedUser, RootedCall, Past, EnsureAwaits, Ported, Done
<1> QED
  BY <1>2, <1>3, <1>4, <1>5, <1>6, <1>7, <1>8, <1>9 DEF StepOf, Owed, OthersStay

\* A call that does nothing for its user before and after the step.
LEMMA PassiveStep ==
    ASSUME SerialInv, NEW c \in Calls, calls[c].pc \in Passive, calls'[c].pc \in Passive,
           OthersStay(c), UNCHANGED <<sandboxes, rows>>
    PROVE  Rooted'
<1>1. ASSUME NEW d \in Calls, calls'[d].pc # "idle"
      PROVE  RootedCall(calls'[d], sandboxes'[calls'[d].user], rows'[calls'[d].user])
  BY <1>1, PassiveRooted DEF SerialInv, Rooted, OthersStay
<1> QED
  BY <1>1 DEF SerialInv, Rooted, RootedUser

\* The calls that do nothing for their user when they begin, or when they end.
LEMMA PassiveBegin ==
    ASSUME TypeOK, NEW c \in Calls, calls'[c].pc \in Passive,
           HealthResult(c) \/ \E u \in Users : Begin(c, u)
    PROVE  /\ calls[c].pc \in Passive /\ OthersStay(c)
           /\ UNCHANGED <<memory, rows, shell>> /\ UNCHANGED <<sandboxes, allocatedPorts>>
<1>1. CASE HealthResult(c)
  <2>1. calls[c].pc = "health.check" /\ UNCHANGED <<locks, allocatedPorts, rows, shell>>
    BY <1>1 DEF HealthResult
  <2>2. Finish(c) /\ UNCHANGED sandboxes
    BY <1>1, GotoAt DEF HealthResult, Passive
  <2> QED
    BY <2>1, <2>2, FinishAt DEF memory, Passive
<1>2. ASSUME NEW u \in Users, Begin(c, u)
      PROVE  /\ calls[c].pc \in Passive /\ OthersStay(c)
             /\ UNCHANGED <<memory, rows, shell>> /\ UNCHANGED <<sandboxes, allocatedPorts>>
  <2>1. calls[c].pc = "idle" /\ OthersStay(c)
    BY <1>2, BeginShape
  <2>2. ~StartEnsure(c, u)
    BY DEF StartEnsure, Call, TypeOK, CallsOK, Passive
  <2>3. ~SuspendSandbox(c, u)
    BY DEF SuspendSandbox, Call, TypeOK, CallsOK, Passive
  <2> QED
    BY <1>2, <2>1, <2>2, <2>3 DEF Begin, JoinEnsure, DestroySandbox, HealthCheck, RefreshPortForward,
       memory, Passive
<1> QED
  BY <1>1, <1>2

\* A call that goes to work where calls have not crossed finds no other at work, and knows
\* what is cached.
LEMMA BeginOwed ==
    ASSUME SerialInv, Apart', NEW c \in Calls, NEW u \in Users, Begin(c, u),
           calls'[c].pc \notin Passive
    PROVE  StepOf(c, u) /\ Owed(c, u) /\ Solo(c, u)
<1>0. /\ calls[c].pc = "idle" /\ calls'[c].user = u /\ OthersStay(c) /\ RootedUser(u) /\ TypeOK
      /\ UNCHANGED rows
  BY BeginShape DEF SerialInv, Rooted, Begin, JoinEnsure, StartEnsure, SuspendSandbox, DestroySandbox,
     HealthCheck, RefreshPortForward
<1>1. CASE StartEnsure(c, u)
  <2>1. /\ calls'[c] = Call("getByUserId", u, NoSandbox) /\ UNCHANGED sandboxes
        /\ locks[u] = None
    BY <1>0, <1>1 DEF StartEnsure, TypeOK, CallsOK
  <2>2. \A d \in Calls : calls[d].user = u => calls[d].pc \notin EnsureAwaits
    BY <2>1, NoneFree DEF SerialInv, LockInv
  <2>3. calls'[c].pc = "getByUserId"
    BY <2>1 DEF Call
  <2>4. \A d \in Calls \ {c} : calls[d].user = u => calls[d].pc \notin Unlocked
    BY <1>0, <2>3 DEF Apart, Together, OthersStay
  <2>5. Solo(c, u)
    BY <1>0, <2>2, <2>4, Working DEF Solo, TypeOK, CallsOK, Frame
  <2>6. RootedCall(calls'[c], sandboxes'[u], rows'[u])
    BY <2>3 DEF RootedCall, Past, Ported, Done, Unlocked, OtherAwaits
  <2> QED
    BY <1>0, <2>1, <2>5, <2>6 DEF StepOf, Owed, OthersStay, RootedUser
<1>2. ASSUME calls'[c].pc \in Unlocked
      PROVE  Solo(c, u)
  BY <1>0, <1>2 DEF Solo, Apart, Together, OthersStay, Passive
<1>3. CASE SuspendSandbox(c, u)
  <2>1. /\ calls'[c] = Call("suspend.setStatus", u, sandboxes[u])
        /\ sandboxes' = [sandboxes EXCEPT ![u].phase = "suspended"] /\ sandboxes[u].phase = "ready"
    BY <1>0, <1>3 DEF SuspendSandbox, TypeOK, CallsOK
  <2>2. /\ sandboxes'[u].phase = "suspended" /\ sandboxes'[u].name = sandboxes[u].name
        /\ sandboxes'[u].port = sandboxes[u].port
        /\ \A v \in Users \ {u} : sandboxes'[v] = sandboxes[v]
    BY <1>0, <2>1 DEF TypeOK, State
  <2>3. /\ calls'[c].pc = "suspend.setStatus" /\ calls'[c].name = sandboxes[u].name
        /\ calls'[c].port = sandboxes[u].port
    BY <2>1 DEF Call
  <2>4. RootedUser(u)' /\ RootedCall(calls'[c], sandboxes'[u], rows'[u])
    BY <1>0, <2>1, <2>2, <2>3 DEF RootedUser, RootedCall, Past, EnsureAwaits, Ported, Done
  <2> QED
    BY <1>0, <1>2, <2>2, <2>3, <2>4 DEF StepOf, Owed, OthersStay, Unlocked, OtherAwaits
<1>4. ASSUME UNCHANGED sandboxes, sandboxes[u].phase # "absent",
             calls'[c].pc \in {"destroy.forwardStop", "refresh.get"},
             calls'[c].name = sandboxes[u].name, calls'[c].port = sandboxes[u].port
      PROVE  StepOf(c, u) /\ Owed(c, u) /\ Solo(c, u)
  <2>1. RootedUser(u)' /\ RootedCall(calls'[c], sandboxes'[u], rows'[u])
    BY <1>0, <1>4 DEF RootedUser, RootedCall, Past, EnsureAwaits, Ported, Done
  <2> QED
    BY <1>0, <1>2, <1>4, <2>1 DEF StepOf, Owed, OthersStay, Unlocked, OtherAwaits
<1>5. CASE DestroySandbox(c, u)
  <2>1. UNCHANGED sandboxes
    BY <1>5 DEF DestroySandbox, memory
  <2>2. CASE sandboxes[u].phase # "absent"
    <3>1. calls'[c] = Call("destroy.forwardStop", u, sandboxes[u])
      BY <1>0, <1>5, <2>2 DEF DestroySandbox, TypeOK, CallsOK
    <3> QED
      BY <1>4, <2>1, <2>2, <3>1 DEF Call
  <2>3. CASE sandboxes[u].phase = "absent"
    <3>1. calls'[c] = Call("destroy.lookup", u, NoSandbox)
      BY <1>0, <1>5, <2>3 DEF DestroySandbox, TypeOK, CallsOK
    <3>2. calls'[c].pc = "destroy.lookup" /\ calls'[c].port = None
      BY <3>1 DEF Call, NoSandbox
    <3>3. RootedUser(u)' /\ RootedCall(calls'[c], sandboxes'[u], rows'[u])
      BY <1>0, <2>1, <2>3, <3>2 DEF RootedUser, RootedCall, Past, EnsureAwaits, Ported, Done
    <3> QED
      BY <1>0, <1>2, <2>1, <3>2, <3>3 DEF StepOf, Owed, OthersStay, Unlocked, OtherAwaits
  <2> QED
    BY <2>2, <2>3
<1>6. CASE RefreshPortForward(c, u)
  <2>1. calls'[c] = Call("refresh.get", u, sandboxes[u])
    BY <1>0, <1>6 DEF RefreshPortForward, TypeOK, CallsOK
  <2>2. calls'[c].pc = "refresh.get" /\ calls'[c].name = sandboxes[u].name
        /\ calls'[c].port = sandboxes[u].port
    BY <2>1 DEF Call
  <2> QED
    BY <1>4, <1>6, <2>2 DEF RefreshPortForward, memory
<1>7. ~JoinEnsure(c, u) /\ ~HealthCheck(c, u)
  BY <1>0 DEF JoinEnsure, HealthCheck, Call, TypeOK, CallsOK, Passive
<1> QED
  BY <1>1, <1>3, <1>5, <1>6, <1>7 DEF Begin

\* A state is cached with an identity of its own, keeps what it was cached with, and goes.
LEMMA RefMoves ==
    ASSUME TypeOK, LineageInv, [Next]_vars, NEW u \in Users
    PROVE  \/ sandboxes'[u].ref = None
           \/ /\ sandboxes'[u].ref = sandboxes[u].ref /\ sandboxes'[u].name = sandboxes[u].name
              /\ sandboxes'[u].port = sandboxes[u].port
           \/ sandboxes'[u].ref \notin {calls[d].ref : d \in Calls}
<1>1. CASE UNCHANGED sandboxes
  BY <1>1
<1>2. ASSUME NEW v, Uncache(v)
      PROVE  sandboxes'[u].ref = None \/ sandboxes'[u] = sandboxes[u]
  BY <1>2 DEF Uncache, NoSandbox, TypeOK
<1>3. ASSUME NEW v \in Users, NEW ph, sandboxes' = [sandboxes EXCEPT ![v].phase = ph]
      PROVE  /\ sandboxes'[u].ref = sandboxes[u].ref /\ sandboxes'[u].name = sandboxes[u].name
             /\ sandboxes'[u].port = sandboxes[u].port
  BY <1>3 DEF TypeOK, State
<1>4. ASSUME NEW c \in Calls, Cache(c)
      PROVE  \/ sandboxes'[u] = sandboxes[u]
             \/ sandboxes'[u].ref \notin {calls[d].ref : d \in Calls}
  <2> DEFINE live == {sandboxes[calls[c].user].ref} \cup {calls[d].ref : d \in Calls}
             r == CHOOSE x \in Refs \ live : TRUE
             sb == [phase |-> "ready", name |-> calls[c].name, port |-> calls[c].port, ref |-> r]
  <2>1. Refs \ live # {} /\ sandboxes' = [sandboxes EXCEPT ![calls[c].user] = sb]
    BY <1>4 DEF Cache
  <2>2. r \in Refs \ live
    BY <2>1
  <2>3. sb.ref \notin {calls[d].ref : d \in Calls}
    <3> HIDE DEF r
    <3> QED
      BY <2>2
  <2> HIDE DEF sb
  <2> QED
    BY <2>1, <2>3 DEF TypeOK
<1>5. ASSUME NEW c \in Calls, EnsureStep(c)
      PROVE  Cache(c) \/ UNCHANGED sandboxes
  BY <1>5 DEF EnsureStep, GetByUserId, InsertRow, GetPod, EnsureDeletePod, SetWaiting, WaitReady,
     ForwardStart, SetReattached, SetProvisioning, CreatePod, WaitForHealthy, SetReady, SetMetadata,
     FailAfterCache, SetError, EnsureRejects, memory
<1>6. ASSUME NEW c \in Calls, OtherStep(c)
      PROVE  \/ UNCHANGED sandboxes \/ Uncache(calls[c].user)
             \/ sandboxes' = [sandboxes EXCEPT ![calls[c].user].phase = "error"]
  BY <1>6 DEF OtherStep, SuspendSetStatus, SuspendDelete, DestroyLookup, DestroyDelete, DestroyDeleteRow,
     HealthResult, HealthSetStatus, RefreshGet, RefreshForwardStart, ForwardStop, OtherRejects, memory
<1>7. \A c \in Calls : OtherStep(c) => calls[c].user \in Users
  BY OtherShape, Working DEF TypeOK, CallsOK, OtherAwaits
<1>8. ASSUME NEW c \in Calls, NEW v \in Users, Begin(c, v)
      PROVE  UNCHANGED sandboxes \/ sandboxes' = [sandboxes EXCEPT ![v].phase = "suspended"]
  BY <1>8 DEF Begin, JoinEnsure, StartEnsure, SuspendSandbox, DestroySandbox, HealthCheck,
     RefreshPortForward, memory
<1>9. CASE \/ \E n \in Names : PodReady(n) \/ PodDies(n)
           \/ \E q \in Ports : ForwardDies(q)
           \/ UNCHANGED vars
  BY <1>1, <1>9 DEF PodReady, PodDies, ForwardDies, memory, vars
<1>10. CASE Restart
  BY <1>10 DEF Restart, NoSandbox
<1> QED
  BY <1>1, <1>2, <1>3, <1>4, <1>5, <1>6, <1>7, <1>8, <1>9, <1>10 DEF Next

\* Where a step of a call leads when it is not the start of a probe.
LEMMA ProbeFrom ==
    ASSUME TypeOK, [Next]_vars, NEW c \in Calls, calls'[c].pc = "health.check"
    PROVE  calls'[c] = calls[c] \/ \E u \in Users : HealthCheck(c, u)
<1>0. calls'[c].pc \notin EnsureAwaits /\ calls'[c] # Idle
  BY IdlePC DEF EnsureAwaits
<1>1. ASSUME NEW d \in Calls, EnsureStep(d)
      PROVE  calls'[c] = calls[c]
  BY <1>0, <1>1, EnsureShape, SettleAt DEF MovesOn, OthersStay
<1>2. ASSUME NEW d \in Calls, OtherStep(d)
      PROVE  calls'[c] = calls[c]
  <2>1. CASE d # c
    BY <1>2, <2>1, OtherShape DEF OthersStay
  <2>2. CASE d = c /\ DestroyLookup(c)
    BY <1>0, <2>2, FinishAt DEF DestroyLookup, TypeOK, CallsOK, Frame
  <2>3. \A pc : Goto(c, pc) => pc = "health.check"
    BY GotoAt
  <2>4. ~Finish(c)
    BY <1>0, FinishAt
  <2> QED
    BY <1>2, <2>1, <2>2, <2>3, <2>4 DEF OtherStep, SuspendSetStatus, SuspendDelete, DestroyDelete,
       DestroyDeleteRow, HealthResult, HealthSetStatus, RefreshGet, RefreshForwardStart, ForwardStop,
       OtherRejects
<1>3. ASSUME NEW d \in Calls, NEW v \in Users, Begin(d, v)
      PROVE  calls'[c] = calls[c] \/ HealthCheck(c, v)
  <2>1. CASE d # c
    BY <1>3, <2>1, BeginShape DEF OthersStay
  <2>2. CASE d = c
    BY <1>3, <2>2 DEF Begin, JoinEnsure, StartEnsure, SuspendSandbox, DestroySandbox,
       RefreshPortForward, Call, TypeOK, CallsOK
  <2> QED
    BY <2>1, <2>2
<1>4. CASE \/ \E n \in Names : PodReady(n) \/ PodDies(n)
           \/ \E q \in Ports : ForwardDies(q)
           \/ Restart \/ UNCHANGED vars
  BY <1>0, <1>4 DEF PodReady, PodDies, ForwardDies, Restart, vars
<1> QED
  BY <1>1, <1>2, <1>3, <1>4 DEF Next

LEMMA BaseStep == BaseInv /\ [Next]_vars => BaseInv'
<1> SUFFICES ASSUME BaseInv, [Next]_vars
             PROVE  RefAgrees'
  BY TypeStep, LockStep, LineageStep DEF BaseInv
<1>0. TypeOK /\ LineageInv
  BY DEF BaseInv
<1>1. SUFFICES ASSUME NEW c \in Calls, calls'[c].pc = "health.check",
                      calls'[c].ref = sandboxes'[calls'[c].user].ref
               PROVE  /\ calls'[c].name = sandboxes'[calls'[c].user].name
                      /\ calls'[c].port = sandboxes'[calls'[c].user].port
  BY DEF RefAgrees
<1>2. CASE calls'[c] = calls[c]
  <2>1. PICK u \in Users : u = calls[c].user
    BY <1>0, <1>1, <1>2 DEF TypeOK, CallsOK
  <2>2. calls[c].ref # None
    BY <1>0, <1>1, <1>2 DEF LineageInv, CallNamed, NamedCall
  <2>3. /\ sandboxes'[u].ref = sandboxes[u].ref /\ sandboxes'[u].name = sandboxes[u].name
        /\ sandboxes'[u].port = sandboxes[u].port
    BY <1>0, <1>1, <1>2, <2>1, <2>2, RefMoves
  <2> QED
    BY <1>1, <1>2, <2>1, <2>3 DEF BaseInv, RefAgrees
<1>3. ASSUME NEW u \in Users, HealthCheck(c, u)
      PROVE  /\ calls'[c].name = sandboxes'[calls'[c].user].name
             /\ calls'[c].port = sandboxes'[calls'[c].user].port
  BY <1>0, <1>3 DEF HealthCheck, Call, TypeOK, CallsOK, memory
<1> QED
  BY <1>0, <1>1, <1>2, <1>3, ProbeFrom

\* The calls that step are at work, but for the answer of a probe.
LEMMA AtWorkOrProbe ==
    ASSUME TypeOK, NEW c \in Calls, EnsureStep(c) \/ OtherStep(c)
    PROVE  calls[c].pc \in EnsureAwaits \cup Unlocked \/ HealthResult(c)
<1>1. calls[c].pc = "health.check" => ~EnsureStep(c)
  BY EnsureShape DEF EnsureAwaits
<1>2. OtherStep(c) /\ calls[c].pc = "health.check" => HealthResult(c)
  BY DEF OtherStep, SuspendSetStatus, SuspendDelete, DestroyLookup, DestroyDelete, DestroyDeleteRow,
     HealthSetStatus, RefreshGet, RefreshForwardStart, ForwardStop, OtherRejects
<1> QED
  BY <1>1, <1>2, EnsureShape, OtherShape DEF Unlocked

LEMMA SerialStep == SerialInv /\ Apart' /\ [Next]_vars => SerialInv'
<1> SUFFICES ASSUME SerialInv, Apart', [Next]_vars
             PROVE  Rooted'
  BY BaseStep DEF SerialInv, BaseInv
<1>0. TypeOK
  BY DEF SerialInv
<1>1. ASSUME NEW c \in Calls, calls[c].pc \in EnsureAwaits \cup Unlocked, EnsureStep(c) \/ OtherStep(c)
      PROVE  Rooted'
  <2>1. calls[c].pc \in Unlocked \/ EnsureStep(c)
    BY <1>0, <1>1, OtherShape, AwaitsDisjoint
  <2> QED
    BY <1>0, <1>1, <2>1, EnsureOwed, OtherOwed, Alone, StepRooted DEF SerialInv
<1>2. ASSUME NEW c \in Calls, HealthResult(c)
      PROVE  Rooted'
  <2>1. calls[c].user \in Users
    BY <1>0, <1>2 DEF HealthResult, TypeOK, CallsOK
  <2>2. CASE calls'[c].pc \notin Passive
    BY <1>0, <1>2, <2>1, <2>2, ProbeOwed, StepRooted DEF SerialInv
  <2>3. CASE calls'[c].pc \in Passive
    BY <1>0, <1>2, <2>3, PassiveBegin, PassiveStep
  <2> QED
    BY <2>2, <2>3
<1>3. ASSUME NEW c \in Calls, NEW u \in Users, Begin(c, u)
      PROVE  Rooted'
  <2>1. CASE calls'[c].pc \notin Passive
    BY <1>0, <1>3, <2>1, BeginOwed, StepRooted DEF SerialInv
  <2>2. CASE calls'[c].pc \in Passive
    BY <1>0, <1>3, <2>2, PassiveBegin, PassiveStep
  <2> QED
    BY <2>1, <2>2
<1>4. CASE \/ \E n \in Names : PodReady(n) \/ PodDies(n)
           \/ \E p \in Ports : ForwardDies(p)
           \/ UNCHANGED vars
  <2>1. UNCHANGED <<calls, sandboxes, rows>>
    BY <1>4 DEF PodReady, PodDies, ForwardDies, memory, vars
  <2> QED
    BY <2>1 DEF SerialInv, Rooted, RootedUser
<1>5. CASE Restart
  <2>1. \A c \in Calls : calls'[c].pc = "idle"
    BY <1>5, IdlePC DEF Restart
  <2>2. UNCHANGED rows /\ \A u \in Users : sandboxes'[u].phase = "absent"
    BY <1>5 DEF Restart, NoSandbox
  <2> QED
    BY <2>1, <2>2 DEF SerialInv, Rooted, RootedUser
<1>6. ASSUME NEW c \in Calls, EnsureStep(c) \/ OtherStep(c)
      PROVE  calls[c].pc \in EnsureAwaits \cup Unlocked \/ HealthResult(c)
  BY <1>0, <1>6, AtWorkOrProbe
<1> QED
  BY <1>1, <1>2, <1>3, <1>4, <1>5, <1>6 DEF Next

LEMMA SerialInit == Init => SerialInv
<1> SUFFICES ASSUME Init
             PROVE  SerialInv
  OBVIOUS
<1>1. TypeOK /\ LockInv /\ LineageInv
  BY TypeInit, LockInit, LineageInit
<1>2. \A c \in Calls : calls[c].pc = "idle"
  BY IdlePC DEF Init
<1>3. \A u \in Users : sandboxes[u].phase = "absent" /\ rows[u].name = None
  BY DEF Init, NoSandbox, NoRow
<1>4. Apart /\ RefAgrees
  BY <1>2 DEF Apart, Together, LateProbe, Unlocked, OtherAwaits, RefAgrees
<1> QED
  BY <1>1, <1>2, <1>3, <1>4 DEF SerialInv, Rooted, RootedUser

-----------------------------------------------------------------------------
(* One pod per user: unless a creation met a destruction, or a pod survived its deletion, a  *)
(* pod outlives neither its row nor the step that deletes it.                               *)

\* Rows and creations bear names of their user.
OwnNames ==
    /\ \A u \in Users : rows[u].name # None => rows[u].name[1] = u
    /\ \A c \in Calls : calls[c].pc \in Past => calls[c].name[1] = calls[c].user

\* The pod of u is that of the row.
PodNamed(u) == \A n \in Names : n[1] = u /\ pods[n].phase # "absent" => rows[u].name = n

\* A creation past its lookup works on the sandbox of the row.
CreationNamed(u) ==
    \A c \in Calls :
        calls[c].user = u /\ calls[c].pc \in Past => calls[c].name = rows[u].name /\ rows[u].name # None

\* A destruction that is about to delete the row has deleted the pod.
Gone(u) ==
    \A c \in Calls, n \in Names :
        /\ calls[c].user = u /\ calls[c].pc = "destroy.deleteRow"
        /\ calls[c].name = n /\ rows[u].name = n
        => pods[n].phase = "absent"

PodInv ==
    \A u \in Users : u \in abandoned \/ (PodNamed(u) /\ CreationNamed(u) /\ Gone(u) /\ ~Contested(u))

\* Only a creation brings a pod to life.
LEMMA PodsGrow ==
    ASSUME TypeOK, [Next]_vars, NEW n \in Names, pods[n].phase = "absent", pods'[n].phase # "absent"
    PROVE  \E c \in Calls : SetProvisioning(c) /\ calls[c].name = n
<1>1. ASSUME NEW c \in Calls, EnsureStep(c), ~SetProvisioning(c)
      PROVE  FALSE
  <2>1. CASE EnsureDeletePod(c)
    BY <2>1 DEF EnsureDeletePod, DeletePod, NoPod, TypeOK, shell
  <2>2. CASE CreatePod(c)
    <3>1. UNCHANGED pods \/ pods' = [pods EXCEPT ![calls[c].name].cli = FALSE]
      BY <2>2 DEF CreatePod, KillSession, shell
    <3> QED
      BY <3>1 DEF TypeOK, Pod
  <2>3. CASE UNCHANGED pods
    BY <2>3
  <2> QED
    BY <1>1, <2>1, <2>2, <2>3 DEF EnsureStep, GetByUserId, InsertRow, GetPod, SetWaiting, WaitReady,
       ForwardStart, SetReattached, WaitForHealthy, SetReady, SetMetadata, FailAfterCache, SetError,
       EnsureRejects, shell
<1>2. ASSUME NEW c \in Calls, SetProvisioning(c)
      PROVE  calls[c].name = n
  BY <1>2 DEF SetProvisioning, TypeOK
<1>3. ASSUME NEW c \in Calls, OtherStep(c)
      PROVE  FALSE
  <2>1. CASE SuspendDelete(c) \/ DestroyDelete(c)
    BY <2>1 DEF SuspendDelete, DestroyDelete, DeletePod, NoPod, TypeOK, shell
  <2>2. CASE UNCHANGED pods
    BY <2>2
  <2> QED
    BY <1>3, <2>1, <2>2 DEF OtherStep, SuspendSetStatus, DestroyLookup, DestroyDeleteRow, HealthResult,
       HealthSetStatus, RefreshGet, RefreshForwardStart, ForwardStop, OtherRejects, shell
<1>4. ASSUME NEW c \in Calls, NEW u \in Users, Begin(c, u)
      PROVE  FALSE
  BY <1>4 DEF Begin, JoinEnsure, StartEnsure, SuspendSandbox, DestroySandbox, HealthCheck,
     RefreshPortForward, shell
<1>5. ASSUME NEW m \in Names, PodReady(m) \/ PodDies(m)
      PROVE  FALSE
  BY <1>5 DEF PodReady, PodDies, TypeOK
<1>6. ASSUME NEW p \in Ports, ForwardDies(p)
      PROVE  FALSE
  BY <1>6 DEF ForwardDies
<1>7. ~Restart /\ ~UNCHANGED vars
  BY DEF Restart, vars, shell
<1> QED
  BY <1>1, <1>2, <1>3, <1>4, <1>5, <1>6, <1>7 DEF Next

\* Only a creation names a row, and only a destruction clears it.
LEMMA RowsRename ==
    ASSUME TypeOK, [Next]_vars, NEW u \in Users, rows'[u].name # rows[u].name
    PROVE  \E c \in Calls : /\ calls[c].user = u
                            /\ \/ InsertRow(c)
                               \/ DestroyDeleteRow(c) /\ rows'[u] = NoRow /\ calls[c].name = rows[u].name
<1>1. ASSUME NEW c \in Calls, NEW s, SetStatus(c, s), calls[c].user \in Users
      PROVE  FALSE
  <2>1. PICK v \in Users : v = calls[c].user
    BY <1>1
  <2>2. rows'[v].name = rows[v].name /\ \A w \in Users \ {v} : rows'[w] = rows[w]
    BY <1>1, <2>1, StatusAt
  <2> QED
    BY <2>2
<1>2. ASSUME NEW c \in Calls, EnsureStep(c)
      PROVE  InsertRow(c) /\ calls[c].user = u
  <2>1. calls[c].user \in Users
    BY <1>2, EnsureShape, AwaitsDisjoint DEF TypeOK, CallsOK
  <2>2. CASE InsertRow(c)
    BY <2>1, <2>2 DEF InsertRow, TypeOK
  <2>3. CASE SetMetadata(c)
    BY <2>1, <2>3 DEF SetMetadata, TypeOK, Row
  <2>4. CASE SetWaiting(c) \/ SetReattached(c) \/ SetProvisioning(c) \/ SetReady(c) \/ SetError(c)
    BY <1>1, <2>1, <2>4 DEF SetWaiting, SetReattached, SetProvisioning, SetReady, SetError
  <2>5. CASE UNCHANGED rows
    BY <2>5
  <2> QED
    BY <1>2, <2>2, <2>3, <2>4, <2>5 DEF EnsureStep, GetByUserId, GetPod, EnsureDeletePod, WaitReady,
       ForwardStart, CreatePod, WaitForHealthy, FailAfterCache, EnsureRejects
<1>3. ASSUME NEW c \in Calls, OtherStep(c)
      PROVE  /\ DestroyDeleteRow(c) /\ calls[c].user = u
             /\ rows'[u] = NoRow /\ calls[c].name = rows[u].name
  <2>1. calls[c].user \in Users
    BY <1>3, OtherShape DEF TypeOK, CallsOK, OtherAwaits
  <2>2. CASE DestroyDeleteRow(c)
    BY <2>1, <2>2 DEF DestroyDeleteRow, TypeOK
  <2>3. CASE SuspendSetStatus(c) \/ HealthSetStatus(c)
    BY <1>1, <2>1, <2>3 DEF SuspendSetStatus, HealthSetStatus
  <2>4. CASE UNCHANGED rows
    BY <2>4
  <2> QED
    BY <1>3, <2>2, <2>3, <2>4 DEF OtherStep, SuspendDelete, DestroyLookup, DestroyDelete, HealthResult,
       RefreshGet, RefreshForwardStart, ForwardStop, OtherRejects
<1>4. ASSUME NEW c \in Calls, NEW v \in Users, Begin(c, v)
      PROVE  FALSE
  BY <1>4 DEF Begin, JoinEnsure, StartEnsure, SuspendSandbox, DestroySandbox, HealthCheck,
     RefreshPortForward
<1>5. CASE \/ \E n \in Names : PodReady(n) \/ PodDies(n)
           \/ \E p \in Ports : ForwardDies(p)
           \/ Restart \/ UNCHANGED vars
  BY <1>5 DEF PodReady, PodDies, ForwardDies, Restart, vars
<1> QED
  BY <1>2, <1>3, <1>4, <1>5 DEF Next

\* Where a call past its lookup comes from.
LEMMA PastFrom ==
    ASSUME TypeOK, [Next]_vars, NEW c \in Calls, calls'[c].pc \in Past
    PROVE  \/ calls'[c] = calls[c]
           \/ /\ calls[c].pc \in Past
              /\ calls'[c].name = calls[c].name /\ calls'[c].user = calls[c].user
           \/ GetByUserId(c) /\ calls'[c].name = rows[calls[c].user].name
                /\ rows[calls[c].user].status # "absent" /\ calls'[c].user = calls[c].user
           \/ InsertRow(c) /\ calls'[c].name = rows'[calls[c].user].name
                /\ calls'[c].name \in {calls[c].user} \X Gens /\ calls'[c].user = calls[c].user
<1>0. calls'[c].pc # "idle" /\ calls'[c].pc \notin OtherAwaits /\ calls'[c].pc # "joined"
      /\ calls'[c].pc \notin {"getByUserId", "insertRow"}
  BY AwaitsDisjoint DEF Past
<1>1. ~Finish(c) /\ ~Settle(c) /\ calls'[c] # Idle
  BY <1>0, FinishAt, SettleAt, IdlePC
<1>2. ASSUME NEW d \in Calls \ {c}, EnsureStep(d)
      PROVE  calls'[c] = calls[c]
  BY <1>1, <1>2, EnsureShape, SettleAt DEF MovesOn, OthersStay
<1>3. ASSUME EnsureStep(c), ~GetByUserId(c), ~InsertRow(c)
      PROVE  /\ calls[c].pc \in Past
             /\ calls'[c].name = calls[c].name /\ calls'[c].user = calls[c].user
  <2>1. calls[c].pc \in Past
    BY <1>1, <1>3 DEF EnsureStep, GetPod, EnsureDeletePod, SetWaiting, WaitReady, ForwardStart,
       SetReattached, SetProvisioning, CreatePod, WaitForHealthy, SetReady, SetMetadata, FailAfterCache,
       SetError, EnsureRejects, Past, EnsureAwaits
  <2>2. \A pc : Goto(c, pc) => calls'[c].name = calls[c].name /\ calls'[c].user = calls[c].user
    BY GotoAt
  <2>3. \A pc : AllocatePort(c, calls[c].name, pc)
                  => calls'[c].name = calls[c].name /\ calls'[c].user = calls[c].user
    BY <1>1, AllocateAt
  <2> QED
    BY <1>1, <1>3, <2>1, <2>2, <2>3 DEF EnsureStep, GetPod, RecoverPort, EnsureDeletePod, SetWaiting,
       WaitReady, ForwardStart, SetReattached, SetProvisioning, CreatePod, Catch, WaitForHealthy,
       SetReady, SetMetadata, FailAfterCache, SetError, EnsureRejects
<1>4. ASSUME GetByUserId(c)
      PROVE  calls'[c].name = rows[calls[c].user].name /\ calls'[c].user = calls[c].user
             /\ rows[calls[c].user].status # "absent"
  <2>1. ~Goto(c, "insertRow")
    BY <1>0, GotoAt
  <2> QED
    BY <1>1, <1>4, <2>1 DEF GetByUserId, TypeOK, CallsOK, Frame
<1>5. ASSUME InsertRow(c)
      PROVE  calls'[c].name = rows'[calls[c].user].name /\ calls'[c].user = calls[c].user
             /\ calls'[c].name \in {calls[c].user} \X Gens
  <2>0. calls[c].user \in Users
    BY <1>5 DEF InsertRow, TypeOK, CallsOK
  <2>1. PICK n \in FreshNames(calls[c].user) :
           /\ rows' = [rows EXCEPT ![calls[c].user] =
                         [status |-> "creating", name |-> n, agentPort |-> None]]
           /\ AllocatePort(c, n, "setProvisioning")
    BY <1>5 DEF InsertRow
  <2>2. calls'[c].name = n /\ calls'[c].user = calls[c].user
    BY <1>1, <2>1, AllocateAt
  <2> QED
    BY <2>0, <2>1, <2>2 DEF FreshNames, TypeOK
<1>6. ASSUME NEW d \in Calls, OtherStep(d)
      PROVE  calls'[c] = calls[c]
  BY <1>0, <1>6, OtherShape DEF OthersStay
<1>7. ASSUME NEW d \in Calls, NEW v \in Users, Begin(d, v)
      PROVE  calls'[c] = calls[c]
  BY <1>0, <1>7, BeginShape DEF OthersStay
<1>8. CASE \/ \E m \in Names : PodReady(m) \/ PodDies(m)
           \/ \E q \in Ports : ForwardDies(q)
           \/ Restart \/ UNCHANGED vars
  BY <1>1, <1>8 DEF PodReady, PodDies, ForwardDies, Restart, vars
<1> QED
  BY <1>2, <1>3, <1>4, <1>5, <1>6, <1>7, <1>8 DEF Next

\* Where a destruction that is about to delete the row comes from.
LEMMA DeleteRowFrom ==
    ASSUME TypeOK, [Next]_vars, NEW c \in Calls, calls'[c].pc = "destroy.deleteRow"
    PROVE  calls'[c] = calls[c] \/ DestroyDelete(c)
<1>1. calls'[c] # Idle
  BY IdlePC
<1>2. ASSUME NEW d \in Calls, EnsureStep(d)
      PROVE  calls'[c] = calls[c]
  <2>1. CASE MovesOn(d)
    BY <2>1 DEF MovesOn, OthersStay, EnsureAwaits
  <2>2. CASE Settle(d)
    BY <1>1, <2>2, SettleAt
  <2> QED
    BY <1>2, <2>1, <2>2, EnsureShape
<1>3. ASSUME NEW d \in Calls, OtherStep(d)
      PROVE  calls'[c] = calls[c] \/ DestroyDelete(c)
  <2>1. CASE d # c
    BY <1>3, <2>1, OtherShape DEF OthersStay
  <2>2. CASE d = c /\ Finish(c)
    BY <1>1, <2>2, FinishAt
  <2>3. ASSUME NEW pc, Goto(c, pc), pc # "destroy.deleteRow"
        PROVE  FALSE
    BY <2>3, GotoAt
  <2>4. CASE d = c /\ DestroyLookup(c)
    BY <1>1, <2>4, FinishAt DEF DestroyLookup, TypeOK, CallsOK, Frame
  <2> QED
    BY <1>3, <2>1, <2>2, <2>3, <2>4 DEF OtherStep, SuspendSetStatus, SuspendDelete, DestroyDeleteRow,
       HealthResult, HealthSetStatus, RefreshGet, RefreshForwardStart, ForwardStop, OtherRejects
<1>4. ASSUME NEW d \in Calls, NEW u \in Users, Begin(d, u)
      PROVE  calls'[c] = calls[c]
  <2>1. CASE d # c
    BY <1>4, <2>1, BeginShape DEF OthersStay
  <2>2. CASE d = c
    BY <1>4, <2>2 DEF Begin, JoinEnsure, StartEnsure, SuspendSandbox, DestroySandbox, HealthCheck,
       RefreshPortForward, Call, TypeOK, CallsOK
  <2> QED
    BY <2>1, <2>2
<1>5. CASE \/ \E m \in Names : PodReady(m) \/ PodDies(m)
           \/ \E p \in Ports : ForwardDies(p)
           \/ Restart \/ UNCHANGED vars
  BY <1>1, <1>5 DEF PodReady, PodDies, ForwardDies, Restart, vars
<1> QED
  BY <1>2, <1>3, <1>4, <1>5 DEF Next

LEMMA OwnStep == TypeOK /\ LineageInv /\ OwnNames /\ [Next]_vars => OwnNames'
<1> SUFFICES ASSUME TypeOK, LineageInv, OwnNames, [Next]_vars
             PROVE  OwnNames'
  OBVIOUS
<1>1. ASSUME NEW u \in Users, rows'[u].name # None
      PROVE  rows'[u].name[1] = u
  <2>1. CASE rows'[u].name = rows[u].name
    BY <1>1, <2>1 DEF OwnNames
  <2>2. CASE rows'[u].name # rows[u].name
    <3>1. PICK c \in Calls : calls[c].user = u /\ InsertRow(c)
      BY <1>1, <2>2, RowsRename DEF NoRow
    <3>2. PICK n \in FreshNames(u) :
             rows' = [rows EXCEPT ![u] = [status |-> "creating", name |-> n, agentPort |-> None]]
      BY <3>1 DEF InsertRow
    <3> QED
      BY <3>2 DEF FreshNames, TypeOK
  <2> QED
    BY <2>1, <2>2
<1>2. ASSUME NEW c \in Calls, calls'[c].pc \in Past
      PROVE  calls'[c].name[1] = calls'[c].user
  <2>1. ASSUME GetByUserId(c), calls'[c].name = rows[calls[c].user].name,
               rows[calls[c].user].status # "absent", calls'[c].user = calls[c].user
        PROVE  calls'[c].name[1] = calls'[c].user
    <3>1. calls[c].user \in Users
      BY <2>1 DEF GetByUserId, TypeOK, CallsOK
    <3> QED
      BY <2>1, <3>1 DEF OwnNames, LineageInv, RowNamed
  <2> QED
    BY <1>2, <2>1, PastFrom DEF OwnNames
<1> QED
  BY <1>1, <1>2 DEF OwnNames

LEMMA PodStep ==
    ASSUME BaseInv, OwnNames, OwnNames', PodInv, [HistoryNext]_<<vars, history>>
    PROVE  PodInv'
<1>0. TypeOK /\ LineageInv /\ LineageInv' /\ [Next]_vars
  BY BaseStep DEF BaseInv, HistoryNext, history
<1>1. SUFFICES ASSUME NEW u \in Users, u \notin abandoned'
               PROVE  PodNamed(u)' /\ CreationNamed(u)' /\ Gone(u)' /\ ~Contested(u)'
  BY DEF PodInv
<1>2. u \notin abandoned /\ PodNamed(u) /\ CreationNamed(u) /\ Gone(u) /\ ~Contested(u)
  BY <1>1 DEF PodInv, HistoryNext, Record, history
<1>3. ~Contested(u)'
  <2>1. CASE HistoryNext
    BY <1>1, <2>1 DEF HistoryNext, Record
  <2>2. CASE UNCHANGED <<vars, history>>
    BY <1>2, <2>2 DEF vars, Contested
  <2> QED
    BY <2>1, <2>2
<1>4. ~Leaves(u) \/ UNCHANGED vars
  BY <1>1 DEF HistoryNext, Record
\* A destruction does not delete the row under a creation, nor before its pod.
<1>5. ASSUME NEW c \in Calls, calls[c].user = u, DestroyDeleteRow(c), calls[c].name = rows[u].name
      PROVE  /\ \A d \in Calls : calls[d].user = u => calls[d].pc \notin EnsureAwaits
             /\ \A n \in Names : n[1] = u => pods'[n].phase = "absent"
  <2>1. calls[c].pc = "destroy.deleteRow" /\ UNCHANGED pods
    BY <1>5 DEF DestroyDeleteRow, shell
  <2>2. \A d \in Calls : calls[d].user = u => calls[d].pc \notin EnsureAwaits
    BY <1>2, <1>5, <2>1 DEF Contested
  <2>3. ASSUME NEW n \in Names, n[1] = u, pods[n].phase # "absent"
        PROVE  FALSE
    BY <1>2, <1>5, <2>1, <2>3 DEF PodNamed, Gone
  <2> QED
    BY <2>1, <2>2, <2>3
<1>6. CreationNamed(u)'
  <2>1. SUFFICES ASSUME NEW c \in Calls, calls'[c].user = u, calls'[c].pc \in Past
                 PROVE  calls'[c].name = rows'[u].name /\ rows'[u].name # None
    BY DEF CreationNamed
  <2>2. CASE InsertRow(c) /\ calls'[c].name = rows'[calls[c].user].name
             /\ calls'[c].name \in {calls[c].user} \X Gens /\ calls'[c].user = calls[c].user
    <3>1. calls'[c].name \in Names
      BY <2>1, <2>2 DEF Names
    <3> QED
      BY <2>1, <2>2, <3>1, NoneFree
  <2>3. CASE ~InsertRow(c)
    <3>1. calls[c].user = u /\ calls'[c].name = rows[u].name /\ rows[u].name # None
          /\ calls[c].pc \in EnsureAwaits
      BY <1>0, <1>2, <2>1, <2>3, PastFrom
         DEF CreationNamed, GetByUserId, LineageInv, RowNamed, Past, EnsureAwaits
    <3>2. rows'[u].name = rows[u].name
      <4>1. SUFFICES ASSUME rows'[u].name # rows[u].name
                     PROVE  FALSE
        OBVIOUS
      <4>2. PICK d \in Calls : /\ calls[d].user = u
                               /\ \/ InsertRow(d)
                                  \/ DestroyDeleteRow(d) /\ calls[d].name = rows[u].name
        BY <1>0, <4>1, RowsRename
      <4>3. ~InsertRow(d)
        BY <3>1, <4>2, <1>0 DEF InsertRow, LineageInv, RowNamed
      <4> QED
        BY <1>5, <3>1, <4>2, <4>3
    <3> QED
      BY <3>1, <3>2
  <2> QED
    BY <1>0, <2>1, <2>2, <2>3, PastFrom DEF InsertRow, GetByUserId, Past
<1>7. PodNamed(u)'
  <2>1. SUFFICES ASSUME NEW n \in Names, n[1] = u, pods'[n].phase # "absent"
                 PROVE  rows'[u].name = n
    BY DEF PodNamed
  <2>2. rows[u].name = n
    <3>1. CASE pods[n].phase # "absent"
      BY <1>2, <2>1, <3>1 DEF PodNamed
    <3>2. CASE pods[n].phase = "absent"
      <4>1. PICK c \in Calls : SetProvisioning(c) /\ calls[c].name = n
        BY <1>0, <2>1, <3>2, PodsGrow
      <4>2. calls[c].pc \in Past
        BY <4>1 DEF SetProvisioning, Past, EnsureAwaits
      <4>3. calls[c].user = u
        BY <2>1, <4>1, <4>2 DEF OwnNames
      <4> QED
        BY <1>2, <4>1, <4>2, <4>3 DEF CreationNamed
    <3> QED
      BY <3>1, <3>2
  <2>3. SUFFICES ASSUME rows'[u].name # rows[u].name
                 PROVE  FALSE
    BY <2>2
  <2>4. PICK c \in Calls : /\ calls[c].user = u
                           /\ \/ InsertRow(c)
                              \/ DestroyDeleteRow(c) /\ calls[c].name = rows[u].name
    BY <1>0, <2>3, RowsRename
  <2>5. ~InsertRow(c)
    BY <1>0, <2>2, <2>4, NoneFree DEF InsertRow, LineageInv, RowNamed
  <2> QED
    BY <1>5, <2>1, <2>4, <2>5
<1>8. Gone(u)'
  <2>1. SUFFICES ASSUME NEW c \in Calls, NEW n \in Names, calls'[c].user = u,
                        calls'[c].pc = "destroy.deleteRow", calls'[c].name = n, rows'[u].name = n,
                        pods'[n].phase # "absent"
                 PROVE  FALSE
    BY DEF Gone
  <2>2. n[1] = u
    BY <2>1, NoneFree DEF OwnNames
  <2>3. rows[u].name = n
    <3>1. CASE pods[n].phase # "absent"
      BY <1>2, <2>2, <3>1 DEF PodNamed
    <3>2. CASE pods[n].phase = "absent"
      <4>1. PICK d \in Calls : SetProvisioning(d) /\ calls[d].name = n
        BY <1>0, <2>1, <3>2, PodsGrow
      <4>2. calls[d].pc \in Past
        BY <4>1 DEF SetProvisioning, Past, EnsureAwaits
      <4> QED
        BY <1>2, <2>2, <4>1, <4>2 DEF OwnNames, CreationNamed
    <3> QED
      BY <3>1, <3>2
  <2>4. CASE DestroyDelete(c)
    <3>1. calls[c].pc = "destroy.delete" /\ Goto(c, "destroy.deleteRow")
      BY <2>4 DEF DestroyDelete
    <3>2. calls[c].name = n /\ calls[c].user = u /\ calls'[c] # calls[c]
      BY <1>0, <2>1, <3>1, GotoAt
    <3>3. ~Leaves(u)
      BY <1>4, <3>2 DEF vars
    <3>4. faults' = faults
      BY <2>1, <3>1, <3>2, <3>3 DEF Leaves
    <3>5. DeletePod(n)
      BY <1>0, <2>4, <3>2, <3>4 DEF DestroyDelete, Fault, TypeOK
    <3> QED
      BY <1>0, <2>1, <3>5 DEF DeletePod, NoPod, TypeOK
  <2>5. CASE calls'[c] = calls[c]
    <3>1. pods[n].phase = "absent"
      BY <1>2, <2>1, <2>3, <2>5 DEF Gone
    <3>2. PICK d \in Calls : SetProvisioning(d) /\ calls[d].name = n
      BY <1>0, <2>1, <3>1, PodsGrow
    <3>3. calls[d].pc \in Past /\ calls[d].pc \in EnsureAwaits
      BY <3>2 DEF SetProvisioning, Past, EnsureAwaits
    <3>4. calls[d].user = u
      BY <2>2, <3>2, <3>3 DEF OwnNames
    <3> QED
      BY <1>2, <2>1, <2>5, <3>3, <3>4 DEF Contested
  <2> QED
    BY <1>0, <2>1, <2>4, <2>5, DeleteRowFrom
<1> QED
  BY <1>3, <1>6, <1>7, <1>8

LEMMA PodInit == HistoryInit => BaseInv /\ OwnNames /\ PodInv
<1> SUFFICES ASSUME HistoryInit
             PROVE  BaseInv /\ OwnNames /\ PodInv
  OBVIOUS
<1>1. BaseInv
  BY SerialInit DEF HistoryInit, SerialInv, BaseInv
<1>2. \A c \in Calls : calls[c].pc = "idle"
  BY IdlePC DEF HistoryInit, Init
<1>3. OwnNames
  BY <1>2, AwaitsDisjoint DEF HistoryInit, Init, OwnNames, NoRow, Past
<1>4. PodInv
  BY <1>2, AwaitsDisjoint DEF HistoryInit, Init, PodInv, PodNamed, CreationNamed, Gone, Contested,
     NoPod, Past
<1> QED
  BY <1>1, <1>3, <1>4

LEMMA PodNext ==
    BaseInv /\ OwnNames /\ PodInv /\ [HistoryNext]_<<vars, history>> => (BaseInv /\ OwnNames /\ PodInv)'
<1> SUFFICES ASSUME BaseInv, OwnNames, PodInv, [HistoryNext]_<<vars, history>>
             PROVE  (BaseInv /\ OwnNames /\ PodInv)'
  OBVIOUS
<1>1. [Next]_vars
  BY DEF HistoryNext
<1>2. BaseInv' /\ OwnNames'
  BY <1>1, BaseStep, OwnStep DEF BaseInv
<1> QED
  BY <1>2, PodStep

\* "Each user gets exactly one sandbox" (sandbox-manager.ts:36) holds of the pods of a user
\* whose sandbox was neither destroyed during a creation nor in vain, however calls overlap,
\* whatever the database, the CLI, the probes, the tunnels and the pods do and however often
\* the process restarts.
THEOREM OnePodCorrect == HistorySpec => []OnePodPerUser
<1>1. BaseInv /\ OwnNames /\ PodInv => OnePodPerUser
  <2> SUFFICES ASSUME PodInv, NEW m \in Names, NEW n \in Names, m[1] = n[1], m[1] \notin abandoned,
                      pods[m].phase = "ready", pods[n].phase = "ready"
               PROVE  m = n
    BY DEF OnePodPerUser
  <2>1. m[1] \in Users
    BY DEF Names
  <2> QED
    BY <2>1 DEF PodInv, PodNamed
<1> QED
  BY <1>1, PodInit, PodNext, PTL DEF HistorySpec

\* Once something has failed or the process has restarted, it stays so.
LEMMA NoFault ==
    ASSUME TypeOK, Untroubled'
    PROVE  \A k : ~Fault(k)
  BY ConstantsAssumption DEF Untroubled, TypeOK, Fault

-----------------------------------------------------------------------------
(* While nothing outside has failed and the process has not restarted: what is cached, the *)
(* row, the pod, its tunnel and the port agree with what the call at work for the user does. *)

\* Awaits of a creation that holds a port and has cached nothing.
Fresh == {"setProvisioning", "createPod", "waitForHealthy"}

\* Awaits of calls that have stopped the forward of a sandbox.
Cut == {"suspend.delete", "destroy.delete", "refresh.forwardStart"}

\* The pod of the user's row, and the local ports that lead to it.
PodOf(u)   == IF rows[u].name = None THEN NoPod ELSE pods[rows[u].name]
Tunnels(u) == {p \in Ports : rows[u].name # None /\ forwards[p] = rows[u].name}

\* Below, call k is at work for a user with cached state sb, row `row`, pod `pod` and
\* tunnels tun; k is Idle when no call is.

CacheFits(sb, k) ==
    /\ sb.phase = "absent" => sb = NoSandbox
    /\ sb.phase = "suspended" <=> k.pc \in {"suspend.setStatus", "suspend.forwardStop", "suspend.delete"}
    /\ sb.phase = "error" <=> k.pc = "health.setStatus"
    /\ k.pc \notin {"setWaiting", "waitReady", "forwardStart", "setReattached"}
    /\ k.pc \in EnsureAwaits =>
         IF k.pc \in {"setReady", "setMetadata"}
         THEN sb.phase = "ready" /\ sb.port = k.port
         ELSE sb.phase = "absent"

RowFits(sb, row, pod, k) ==
    /\ sb.phase = "ready" =>
         /\ row.status = "ready" \/ k.pc = "setReady"
         /\ row.agentPort = sb.port \/ k.pc \in {"setReady", "setMetadata"}
    /\ row.status = "suspended" =>
         pod.phase = "absent" \/ k.pc \in {"suspend.forwardStop", "suspend.delete"}

PodFits(sb, pod, tun, k) ==
    /\ pod.phase = "provisioning" => k.pc = "createPod" /\ pod.port = k.port /\ pod.cli
    /\ pod.phase = "ready" =>
         /\ IF k.pc \in Fresh THEN pod.port = k.port
            ELSE sb.phase \in {"ready", "suspended"} /\ pod.port = sb.port
         /\ pod.port \in tun \/ k.pc \in Cut
    /\ k.pc = "setProvisioning" => pod.phase = "absent"
    /\ tun \subseteq {pod.port}
    /\ tun # {} => pod.phase = "ready"

Fits(sb, row, pod, tun, k) ==
    CacheFits(sb, k) /\ RowFits(sb, row, pod, k) /\ PodFits(sb, pod, tun, k)

AtWork(c, u) == calls[c].user = u /\ calls[c].pc \notin Passive

UserTidy(u) ==
    /\ \A c \in Calls :
         AtWork(c, u) => Fits(sandboxes[u], rows[u], PodOf(u), Tunnels(u), calls[c])
    /\ (\A c \in Calls : ~AtWork(c, u)) => Fits(sandboxes[u], rows[u], PodOf(u), Tunnels(u), Idle)

\* User u has port p.
Holds(u, p) ==
    \/ sandboxes[u].port = p
    \/ \E c \in Calls : calls[c].user = u /\ calls[c].pc \in Fresh /\ calls[c].port = p

\* A port is handed out exactly while one user has it.
PortsTidy ==
    \A p \in Ports :
        /\ p \in allocatedPorts <=> \E u \in Users : Holds(u, p)
        /\ \A u, v \in Users : Holds(u, p) /\ Holds(v, p) => u = v

\* A tunnel leads to a pod that runs.
Tunnelled == \A p \in Ports : forwards[p] # None => pods[forwards[p]].phase = "ready"

\* The pod of every user is that of the row.
AllNamed == \A u \in Users : PodNamed(u)

Tidy == AllNamed /\ Tunnelled /\ (\A u \in Users : UserTidy(u)) /\ PortsTidy

\* What always holds, what holds until calls cross, and what holds until something fails.
TidyInv ==
    /\ BaseInv /\ OwnNames /\ PodInv /\ Tunnelled
    /\ crossed = {} => Apart /\ Rooted
    /\ Untroubled => Tidy /\ abandoned = {}

\* The port a user has while call k is at work.
PortOf(sb, k) == IF k.pc \in Fresh THEN k.port ELSE sb.port

\* How a step may change which port a user has, and the ports handed out with it.
PortMoves(q, r) ==
    \/ q = r /\ UNCHANGED allocatedPorts
    \/ q = None /\ r \in FreePorts /\ allocatedPorts' = allocatedPorts \cup {r}
    \/ r = None /\ ReleasePort(q)

\* A step touches no pod and no tunnel but those of u.
ShellOf(u) ==
    \A n \in Names : n[1] # u =>
        pods'[n] = pods[n] /\ \A p \in Ports : forwards'[p] = n <=> forwards[p] = n

\* What a step of call c for u owes for the agreement to last.
Tidily(c, u) ==
    /\ calls'[c] = Idle \/ calls'[c].pc \notin Passive
    /\ ShellOf(u)
    /\ Fits(sandboxes'[u], rows'[u], PodOf(u)', Tunnels(u)', calls'[c])
    /\ PortMoves(PortOf(sandboxes[u], calls[c]), PortOf(sandboxes'[u], calls'[c]))

LEMMA IdleAway == Idle.pc \notin Fresh /\ NoSandbox.port = None /\ NoSandbox.phase = "absent"
  BY IdlePC DEF Fresh, NoSandbox

\* The pod and the tunnels of a user whom the step leaves alone.
LEMMA PodAside ==
    ASSUME SerialInv, NEW u \in Users, NEW v \in Users \ {u}, ShellOf(u), rows'[v] = rows[v]
    PROVE  PodOf(v)' = PodOf(v) /\ Tunnels(v)' = Tunnels(v)
<1>1. CASE rows[v].name = None
  BY <1>1 DEF PodOf, Tunnels
<1>2. CASE rows[v].name # None
  <2>1. rows[v].name \in Names /\ rows[v].name[1] = v
    BY <1>2 DEF SerialInv, TypeOK, Row, Rooted, RootedUser
  <2>2. PICK n \in Names : n = rows[v].name
    BY <2>1
  <2>3. pods'[n] = pods[n] /\ \A p \in Ports : forwards'[p] = n <=> forwards[p] = n
    BY <2>1, <2>2 DEF ShellOf
  <2> QED
    BY <1>2, <2>2, <2>3 DEF PodOf, Tunnels
<1> QED
  BY <1>1, <1>2

LEMMA TidyAside ==
    ASSUME SerialInv, NEW u \in Users, NEW c \in Calls, calls[c].user = u \/ calls[c].pc = "idle",
           StepOf(c, u), ShellOf(u), NEW v \in Users \ {u}, UserTidy(v)
    PROVE  UserTidy(v)'
<1>1. /\ sandboxes'[v] = sandboxes[v] /\ rows'[v] = rows[v]
      /\ PodOf(v)' = PodOf(v) /\ Tunnels(v)' = Tunnels(v)
  BY PodAside DEF StepOf
<1>2. ASSUME NEW d \in Calls
      PROVE  /\ AtWork(d, v)' <=> AtWork(d, v)
             /\ AtWork(d, v) => calls'[d] = calls[d]
  <2>1. CASE d = c
    BY <2>1, IdlePC DEF StepOf, AtWork, Passive
  <2>2. CASE d # c
    BY <2>2, IdlePC DEF StepOf, AtWork, Passive
  <2> QED
    BY <2>1, <2>2
<1> QED
  BY <1>1, <1>2 DEF UserTidy

LEMMA TidyAfter ==
    ASSUME NEW u \in Users, NEW c \in Calls, Solo(c, u), StepOf(c, u), Tidily(c, u)
    PROVE  UserTidy(u)'
<1>1. ASSUME NEW d \in Calls, AtWork(d, u)'
      PROVE  d = c
  BY <1>1, IdlePC DEF StepOf, AtWork, Solo, Passive
<1>2. AtWork(c, u)' \/ calls'[c] = Idle
  BY DEF StepOf, Tidily, AtWork
<1> QED
  BY <1>1, <1>2 DEF UserTidy, Tidily

\* What a user has, seen from the only call at work for it.
LEMMA HoldsSolo ==
    ASSUME NEW u \in Users, NEW c \in Calls, calls[c].user = u \/ calls[c].pc = "idle", Solo(c, u),
           NEW p \in Ports
    PROVE  Holds(u, p) <=> sandboxes[u].port = p \/ (calls[c].pc \in Fresh /\ calls[c].port = p)
  BY DEF Holds, Solo, Fresh, Passive

LEMMA HoldsAfter ==
    ASSUME NEW u \in Users, NEW c \in Calls, Solo(c, u), StepOf(c, u), NEW p \in Ports
    PROVE  Holds(u, p)' <=> sandboxes'[u].port = p \/ (calls'[c].pc \in Fresh /\ calls'[c].port = p)
<1>1. ASSUME NEW d \in Calls \ {c}, calls'[d].user = u
      PROVE  calls'[d].pc \notin Fresh
  BY <1>1, IdleAway DEF StepOf, Solo, Fresh, Passive
<1>2. calls'[c].pc \in Fresh => calls'[c].user = u
  BY IdleAway DEF StepOf
<1> QED
  BY <1>1, <1>2 DEF Holds

LEMMA HoldsAside ==
    ASSUME NEW u \in Users, NEW c \in Calls, calls[c].user = u \/ calls[c].pc = "idle", StepOf(c, u),
           NEW v \in Users \ {u}, NEW p \in Ports
    PROVE  Holds(v, p)' <=> Holds(v, p)
<1>1. ASSUME NEW d \in Calls
      PROVE  /\ calls'[d].user = v /\ calls'[d].pc \in Fresh <=> calls[d].user = v /\ calls[d].pc \in Fresh
             /\ calls[d].user = v /\ calls[d].pc \in Fresh => calls'[d] = calls[d]
  <2>1. CASE d = c
    BY <2>1, IdleAway DEF StepOf, Fresh
  <2>2. CASE d # c
    BY <2>2, IdleAway DEF StepOf, Fresh
  <2> QED
    BY <2>1, <2>2
<1> QED
  BY <1>1 DEF Holds, StepOf

\* While nothing is cached when a port is fresh, the user has one port at most.
LEMMA HoldsOne ==
    ASSUME NEW u \in Users, NEW c \in Calls, calls[c].user = u \/ calls[c].pc = "idle", Solo(c, u),
           calls[c].pc \in Fresh => sandboxes[u].port = None, NEW p \in Ports
    PROVE  Holds(u, p) <=> p = PortOf(sandboxes[u], calls[c])
  BY HoldsSolo, NoneFree DEF PortOf

LEMMA HoldsOneAfter ==
    ASSUME NEW u \in Users, NEW c \in Calls, Solo(c, u), StepOf(c, u),
           calls'[c].pc \in Fresh => sandboxes'[u].port = None, NEW p \in Ports
    PROVE  Holds(u, p)' <=> p = PortOf(sandboxes'[u], calls'[c])
  BY HoldsAfter, NoneFree DEF PortOf

LEMMA FreshHolds ==
    ASSUME NEW sb, NEW row, NEW pod, NEW tun, NEW k, Fits(sb, row, pod, tun, k), k.pc \in Fresh
    PROVE  sb.port = None
  BY DEF Fits, CacheFits, Fresh, EnsureAwaits, NoSandbox

LEMMA PortsAfter ==
    ASSUME PortsTidy, NEW u \in Users, NEW c \in Calls, calls[c].user = u \/ calls[c].pc = "idle",
           Solo(c, u), StepOf(c, u), Tidily(c, u), UserTidy(u)
    PROVE  PortsTidy'
<1>1. calls[c].pc \in Fresh => sandboxes[u].port = None
  BY FreshHolds DEF UserTidy, AtWork, Fresh, Passive
<1>2. calls'[c].pc \in Fresh => sandboxes'[u].port = None
  BY FreshHolds DEF Tidily
<1>3. PICK q : q = PortOf(sandboxes[u], calls[c])
  OBVIOUS
<1>4. PICK r : r = PortOf(sandboxes'[u], calls'[c])
  OBVIOUS
<1>5. \A p \in Ports : Holds(u, p) <=> p = q
  BY <1>1, <1>3, HoldsOne
<1>6. \A p \in Ports : Holds(u, p)' <=> p = r
  BY <1>2, <1>4, HoldsOneAfter
<1>7. \A v \in Users \ {u}, p \in Ports : Holds(v, p)' <=> Holds(v, p)
  BY HoldsAside
<1>8. SUFFICES ASSUME NEW p \in Ports
               PROVE  /\ p \in allocatedPorts' <=> \E v \in Users : Holds(v, p)'
                      /\ \A v, w \in Users : Holds(v, p)' /\ Holds(w, p)' => v = w
  BY DEF PortsTidy
<1>9. /\ p \in allocatedPorts <=> \E v \in Users : Holds(v, p)
      /\ \A v, w \in Users : Holds(v, p) /\ Holds(w, p) => v = w
  BY DEF PortsTidy
<1>10. PortMoves(q, r)
  BY <1>3, <1>4 DEF Tidily
<1>11. CASE q = r /\ UNCHANGED allocatedPorts
  <2>1. \A v \in Users : Holds(v, p)' <=> Holds(v, p)
    BY <1>5, <1>6, <1>7, <1>11
  <2> QED
    BY <1>9, <1>11, <2>1
<1>12. CASE q = None /\ r \in FreePorts /\ allocatedPorts' = allocatedPorts \cup {r}
  <2>1. q # p
    BY <1>12, NoneFree
  <2>2. p = r => \A v \in Users : ~Holds(v, p)
    BY <1>9, <1>12 DEF FreePorts
  <2> QED
    BY <1>5, <1>6, <1>7, <1>9, <1>12, <2>1, <2>2
<1>13. CASE r = None /\ allocatedPorts' = allocatedPorts \ {q}
  <2>1. r # p
    BY <1>13, NoneFree
  <2>2. p = q => \A v \in Users : Holds(v, p) => v = u
    BY <1>5, <1>9
  <2> QED
    BY <1>5, <1>6, <1>7, <1>9, <1>13, <2>1, <2>2
<1> QED
  BY <1>10, <1>11, <1>12, <1>13 DEF PortMoves, ReleasePort

-----------------------------------------------------------------------------
(* The outside world *)

LEMMA NeverRestarted ==
    ASSUME TypeOK, Untroubled'
    PROVE  ~Restart
  BY ConstantsAssumption DEF Restart, Untroubled, TypeOK

LEMMA TunnelStep == TypeOK /\ Tunnelled /\ [Next]_vars => Tunnelled'
<1> SUFFICES ASSUME TypeOK, Tunnelled, [Next]_vars
             PROVE  Tunnelled'
  OBVIOUS
<1>1. ASSUME NEW n, DeletePod(n)
      PROVE  Tunnelled'
  BY <1>1 DEF DeletePod, ForwardsWithout, Tunnelled, TypeOK
<1>2. ASSUME NEW p, NEW n, StartForward(p, n) \/ StopForward(p, n), UNCHANGED pods
      PROVE  Tunnelled'
  BY <1>2 DEF StartForward, StopForward, Tunnelled, TypeOK
<1>3. CASE UNCHANGED shell
  BY <1>3 DEF shell, Tunnelled
<1>4. ASSUME NEW c \in Calls, EnsureStep(c)
      PROVE  Tunnelled'
  <2>1. CASE EnsureDeletePod(c)
    BY <1>1, <1>3, <2>1 DEF EnsureDeletePod
  <2>2. CASE ForwardStart(c)
    BY <1>2, <1>3, <2>2 DEF ForwardStart, shell
  <2>3. CASE SetProvisioning(c)
    BY <2>3 DEF SetProvisioning, Tunnelled, TypeOK
  <2>4. CASE CreatePod(c)
    <3>1. CASE UNCHANGED shell
      BY <1>3, <3>1
    <3>2. ASSUME NEW n, KillSession(n)
          PROVE  Tunnelled'
      BY <3>2 DEF KillSession, ForwardsWithout, Tunnelled, TypeOK, Pod
    <3> QED
      BY <2>4, <3>1, <3>2 DEF CreatePod
  <2> QED
    BY <1>3, <1>4, <2>1, <2>2, <2>3, <2>4 DEF EnsureStep, GetByUserId, InsertRow, GetPod, SetWaiting,
       WaitReady, SetReattached, WaitForHealthy, SetReady, SetMetadata, FailAfterCache, SetError,
       EnsureRejects
<1>5. ASSUME NEW c \in Calls, OtherStep(c)
      PROVE  Tunnelled'
  <2>1. CASE SuspendDelete(c) \/ DestroyDelete(c)
    BY <1>1, <1>3, <2>1 DEF SuspendDelete, DestroyDelete
  <2>2. CASE RefreshForwardStart(c) \/ ForwardStop(c)
    BY <1>2, <1>3, <2>2 DEF RefreshForwardStart, ForwardStop, shell
  <2> QED
    BY <1>3, <1>5, <2>1, <2>2 DEF OtherStep, SuspendSetStatus, DestroyLookup, DestroyDeleteRow,
       HealthResult, HealthSetStatus, RefreshGet, OtherRejects
<1>6. ASSUME NEW c \in Calls, NEW u \in Users, Begin(c, u)
      PROVE  Tunnelled'
  BY <1>3, <1>6 DEF Begin, JoinEnsure, StartEnsure, SuspendSandbox, DestroySandbox, HealthCheck,
     RefreshPortForward
<1>7. ASSUME NEW n \in Names, PodReady(n)
      PROVE  Tunnelled'
  BY <1>7 DEF PodReady, Tunnelled, TypeOK, Pod
<1>8. ASSUME NEW n \in Names, PodDies(n)
      PROVE  Tunnelled'
  BY <1>8 DEF PodDies, ForwardsWithout, Tunnelled, TypeOK, Pod
<1>9. ASSUME NEW p \in Ports, ForwardDies(p)
      PROVE  Tunnelled'
  BY <1>9 DEF ForwardDies, Tunnelled, TypeOK
<1>10. CASE Restart
  BY <1>10 DEF Restart, Tunnelled, TypeOK
<1> QED
  BY <1>3, <1>4, <1>5, <1>6, <1>7, <1>8, <1>9, <1>10 DEF Next, vars

-----------------------------------------------------------------------------
(* Each step owes, tidily *)

\* The parts of a user's shell under the steps that touch it.
LEMMA ShellStays ==
    ASSUME NEW u \in Users, UNCHANGED shell, rows'[u].name = rows[u].name
    PROVE  ShellOf(u) /\ PodOf(u)' = PodOf(u) /\ Tunnels(u)' = Tunnels(u)
  BY DEF ShellOf, shell, PodOf, Tunnels

LEMMA DeleteShell ==
    ASSUME TypeOK, NEW u \in Users, NEW n \in Names \cup {None}, n # None => n[1] = u, DeletePod(n),
           rows[u].name = n, UNCHANGED rows
    PROVE  ShellOf(u) /\ PodOf(u)' = NoPod /\ Tunnels(u)' = {}
  BY NoneFree DEF DeletePod, ForwardsWithout, ShellOf, PodOf, Tunnels, TypeOK

LEMMA StopShell ==
    ASSUME TypeOK, NEW u \in Users, NEW n \in Names, n[1] = u, rows[u].name = n,
           NEW p \in Ports, StopForward(p, n), UNCHANGED <<rows, pods>>
    PROVE  ShellOf(u) /\ PodOf(u)' = PodOf(u) /\ Tunnels(u)' = Tunnels(u) \ {p}
  BY NoneFree DEF StopForward, ShellOf, PodOf, Tunnels, TypeOK

LEMMA StartShell ==
    ASSUME TypeOK, NEW u \in Users, NEW n \in Names, n[1] = u, rows[u].name = n,
           NEW p \in Ports, StartForward(p, n), UNCHANGED <<rows, pods>>
    PROVE  /\ ShellOf(u) /\ PodOf(u)' = PodOf(u)
           /\ Tunnels(u)' = IF forwards[p] = None /\ PodOf(u).phase = "ready"
                            THEN Tunnels(u) \cup {p} ELSE Tunnels(u)
<1>1. PodOf(u) = pods[n]
  BY NoneFree DEF PodOf
<1>2. CASE forwards[p] = None /\ pods[n].phase = "ready"
  BY <1>1, <1>2, NoneFree DEF StartForward, ShellOf, PodOf, Tunnels, TypeOK
<1>3. CASE ~(forwards[p] = None /\ pods[n].phase = "ready")
  BY <1>1, <1>3, NoneFree DEF StartForward, ShellOf, PodOf, Tunnels, TypeOK
<1> QED
  BY <1>2, <1>3

LEMMA TidilyOn ==
    ASSUME NEW c \in Calls, NEW u \in Users, NEW l, l = calls'[c],
           l = Idle \/ l.pc \notin Passive, ShellOf(u),
           Fits(sandboxes'[u], rows'[u], PodOf(u)', Tunnels(u)', l),
           PortMoves(PortOf(sandboxes[u], calls[c]), PortOf(sandboxes'[u], l))
    PROVE  Tidily(c, u)
  BY DEF Tidily

LEMMA TidilyInside ==
    ASSUME NEW c \in Calls, NEW u \in Users, UNCHANGED shell, rows'[u].name = rows[u].name,
           calls'[c] = Idle \/ calls'[c].pc \notin Passive,
           Fits(sandboxes'[u], rows'[u], PodOf(u), Tunnels(u), calls'[c]),
           PortMoves(PortOf(sandboxes[u], calls[c]), PortOf(sandboxes'[u], calls'[c]))
    PROVE  Tidily(c, u)
  BY ShellStays DEF Tidily

\* A creation that goes on without a port, or ends, while nothing is cached.
LEMMA PlainTidy ==
    ASSUME TypeOK, NEW c \in Calls, NEW u \in Users, calls[c].user = u,
           Fits(sandboxes[u], rows[u], PodOf(u), Tunnels(u), calls[c]),
           calls[c].pc \in {"getByUserId", "insertRow", "getPod", "deletePod", "setError"},
           calls'[c] = Idle \/ calls'[c].pc \in {"insertRow", "getPod", "deletePod"},
           UNCHANGED <<sandboxes, allocatedPorts, shell>>, rows'[u].name = rows[u].name,
           rows'[u].status # "suspended" \/ rows'[u].status = rows[u].status
    PROVE  Tidily(c, u)
<1>1. PICK k : k = calls[c]
  OBVIOUS
<1>2. PICK l : l = calls'[c]
  OBVIOUS
<1>3. sandboxes[u].phase = "absent" /\ sandboxes[u].port = None
  BY <1>1 DEF Fits, CacheFits, EnsureAwaits, NoSandbox
<1>4. l.pc \in {"idle", "insertRow", "getPod", "deletePod"}
  BY <1>2, IdlePC
<1>5. CacheFits(sandboxes[u], l)
  BY <1>1, <1>3, <1>4 DEF Fits, CacheFits, EnsureAwaits
<1>6. RowFits(sandboxes[u], rows'[u], PodOf(u), l)
  BY <1>1, <1>3, <1>4 DEF Fits, RowFits
<1>7. PodFits(sandboxes[u], PodOf(u), Tunnels(u), l)
  BY <1>1, <1>3, <1>4 DEF Fits, PodFits, Fresh
<1>8. PortMoves(PortOf(sandboxes[u], k), PortOf(sandboxes[u], l))
  BY <1>1, <1>4 DEF PortMoves, PortOf, Fresh
<1> QED
  BY <1>1, <1>2, <1>4, <1>5, <1>6, <1>7, <1>8, TidilyInside DEF Fits, Passive

\* A creation that takes a port for a sandbox whose pod is not there.
LEMMA AllocateTidy ==
    ASSUME TypeOK, NEW c \in Calls, NEW u \in Users, calls[c].user = u,
           Fits(sandboxes[u], rows[u], PodOf(u), Tunnels(u), calls[c]),
           calls[c].pc \in {"insertRow", "getPod", "deletePod"},
           NEW n, AllocatePort(c, n, "setProvisioning"), UNCHANGED sandboxes,
           PodOf(u)'.phase = "absent", Tunnels(u)' = {}, ShellOf(u)
    PROVE  Tidily(c, u)
<1>1. PICK k : k = calls[c]
  OBVIOUS
<1>2. PICK l : l = calls'[c]
  OBVIOUS
<1>3. sandboxes[u].phase = "absent" /\ sandboxes[u].port = None
  BY <1>1 DEF Fits, CacheFits, EnsureAwaits, NoSandbox
<1>4. CASE l.pc = "setProvisioning" /\ l.port \in FreePorts
           /\ allocatedPorts' = allocatedPorts \cup {l.port}
  <2>1. CacheFits(sandboxes[u], l)
    BY <1>1, <1>3, <1>4 DEF Fits, CacheFits, EnsureAwaits
  <2>2. Fits(sandboxes[u], rows'[u], PodOf(u)', Tunnels(u)', l)
    BY <1>3, <1>4, <2>1 DEF Fits, RowFits, PodFits
  <2>3. PortMoves(PortOf(sandboxes[u], k), PortOf(sandboxes[u], l))
    BY <1>1, <1>3, <1>4 DEF PortMoves, PortOf, Fresh
  <2> QED
    BY <1>1, <1>2, <1>4, <2>2, <2>3 DEF Tidily, Passive
<1>5. CASE l = Idle /\ UNCHANGED allocatedPorts
  <2>1. CacheFits(sandboxes[u], l)
    BY <1>1, <1>3, <1>5, IdlePC DEF Fits, CacheFits, EnsureAwaits
  <2>2. Fits(sandboxes[u], rows'[u], PodOf(u)', Tunnels(u)', l)
    BY <1>3, <1>5, <2>1, IdlePC DEF Fits, RowFits, PodFits
  <2>3. PortMoves(PortOf(sandboxes[u], k), PortOf(sandboxes[u], l))
    BY <1>1, <1>3, <1>5, IdlePC DEF PortMoves, PortOf, Fresh
  <2> QED
    BY <1>1, <1>2, <1>5, <2>2, <2>3 DEF Tidily
<1> QED
  BY <1>2, <1>4, <1>5, AllocateAt, SettleAt

\* Without failures the forward of a pod that runs leads there, unless a call has cut it.
LEMMA HealthyTidy ==
    ASSUME NEW u \in Users, NEW k,
           Fits(sandboxes[u], rows[u], PodOf(u), Tunnels(u), k), k.pc \notin Cut,
           NEW p \in Ports, PodOf(u).phase = "ready", PodOf(u).port = p
    PROVE  Healthy(p)
<1>1. p \in Tunnels(u)
  BY DEF Fits, PodFits
<1>2. forwards[p] = rows[u].name /\ rows[u].name # None
  BY <1>1 DEF Tunnels
<1> QED
  BY <1>2 DEF Healthy, PodOf

LEMMA EnsureTidy ==
    ASSUME SerialInv, Tidy, Untroubled', NEW c \in Calls, EnsureStep(c)
    PROVE  Tidily(c, calls[c].user)
<1>0. calls[c].pc \in EnsureAwaits /\ calls[c].user \in Users /\ TypeOK
  BY EnsureShape, Alone DEF SerialInv
<1>1. PICK u \in Users : u = calls[c].user
  BY <1>0
<1>2. PICK k : k = calls[c]
  OBVIOUS
<1>3. AtWork(c, u)
  BY <1>0, <1>1, AwaitsDisjoint DEF AtWork, EnsureAwaits, Passive
<1>4. Fits(sandboxes[u], rows[u], PodOf(u), Tunnels(u), k)
  BY <1>2, <1>3 DEF Tidy, UserTidy
<1>5. RootedUser(u) /\ RootedCall(k, sandboxes[u], rows[u])
  BY <1>1, <1>2, <1>3 DEF SerialInv, Rooted, AtWork, Passive
<1>6. \A s : ~Fault(s)
  BY <1>0, NoFault
<1>7. k.pc \in Past => /\ k.name = rows[u].name /\ rows[u].name \in Names /\ rows[u].name[1] = u
                       /\ PodOf(u) = pods[k.name]
  BY <1>0, <1>5 DEF RootedCall, RootedUser, PodOf, TypeOK, Row
<1>8. CASE GetByUserId(c)
  <2>1. /\ calls[c].pc = "getByUserId" /\ UNCHANGED <<sandboxes, allocatedPorts, rows, shell>>
        /\ calls'[c] = Idle \/ calls'[c].pc \in {"getPod", "insertRow"}
    BY <1>0, <1>8, GotoAt, SettleAt DEF GetByUserId, TypeOK, CallsOK, Frame
  <2> QED
    BY <1>0, <1>1, <1>2, <1>4, <2>1, PlainTidy
<1>9. CASE InsertRow(c)
  <2>1. PICK n \in FreshNames(u) :
           /\ rows' = [rows EXCEPT ![u] = [status |-> "creating", name |-> n, agentPort |-> None]]
           /\ AllocatePort(c, n, "setProvisioning")
    BY <1>1, <1>9 DEF InsertRow
  <2>2. n \in Names /\ n[1] = u /\ n # None /\ pods[n].phase = "absent" /\ rows'[u].name = n
    BY <1>0, <2>1, NoneFree DEF FreshNames, Names, TypeOK
  <2>3. UNCHANGED <<sandboxes, shell>> /\ calls[c].pc = "insertRow"
    BY <1>9 DEF InsertRow
  <2>4. PodOf(u)'.phase = "absent" /\ ShellOf(u)
    BY <2>2, <2>3 DEF PodOf, ShellOf, shell
  <2>5. Tunnels(u)' = {}
    BY <2>2, <2>3 DEF Tunnels, Tidy, Tunnelled, shell
  <2> QED
    BY <1>0, <1>1, <1>2, <1>4, <2>1, <2>3, <2>4, <2>5, AllocateTidy
<1>10. CASE GetPod(c)
  <2>1. /\ k.pc = "getPod" /\ k.pc \in Past /\ UNCHANGED <<sandboxes, rows, shell>>
        /\ sandboxes[u].phase = "absent"
    BY <1>2, <1>4, <1>10 DEF GetPod, Past, EnsureAwaits, Fits, CacheFits
  <2>2. pods[k.name].phase \notin {"ready", "provisioning"}
    BY <1>4, <1>7, <2>1 DEF Fits, PodFits, Fresh
  <2>3. CASE Goto(c, "deletePod") /\ UNCHANGED allocatedPorts
    BY <1>0, <1>1, <1>2, <1>4, <2>1, <2>3, GotoAt, PlainTidy
  <2>4. CASE AllocatePort(c, k.name, "setProvisioning") /\ pods[k.name].phase = "absent"
    <3>1. ShellOf(u) /\ PodOf(u)' = PodOf(u) /\ Tunnels(u)' = Tunnels(u)
      BY <2>1, ShellStays
    <3>2. Tunnels(u) = {}
      BY <1>4, <1>7, <2>1, <2>4 DEF Fits, PodFits
    <3>3. PICK n : n = k.name
      OBVIOUS
    <3> QED
      BY <1>0, <1>1, <1>2, <1>4, <1>7, <2>1, <2>4, <3>1, <3>2, <3>3, AllocateTidy
  <2> QED
    BY <1>2, <1>6, <1>10, <2>2, <2>3, <2>4 DEF GetPod
<1>11. CASE EnsureDeletePod(c)
  <2>1. k.pc = "deletePod" /\ k.pc \in Past /\ UNCHANGED <<sandboxes, rows>>
    BY <1>2, <1>11 DEF EnsureDeletePod, Past, EnsureAwaits
  <2>2. PICK n \in Names : n = k.name
    BY <1>7, <2>1
  <2>3. DeletePod(n) /\ AllocatePort(c, n, "setProvisioning")
    BY <1>2, <1>6, <1>11, <2>2 DEF EnsureDeletePod
  <2>4. ShellOf(u) /\ PodOf(u)' = NoPod /\ Tunnels(u)' = {}
    BY <1>0, <1>7, <2>1, <2>2, <2>3, NoneFree, DeleteShell
  <2> QED
    BY <1>0, <1>1, <1>2, <1>4, <2>1, <2>3, <2>4, AllocateTidy DEF NoPod
<1>12. CASE SetProvisioning(c)
  <2>1. k.pc = "setProvisioning" /\ k.pc \in Past /\ UNCHANGED <<sandboxes, allocatedPorts, forwards>>
    BY <1>2, <1>12 DEF SetProvisioning, Past, EnsureAwaits, memory
  <2>2. PICK n \in Names : n = k.name
    BY <1>7, <2>1
  <2>3. pods[n].phase = "absent" /\ Tunnels(u) = {} /\ sandboxes[u].phase = "absent"
    BY <1>4, <1>7, <2>1, <2>2 DEF Fits, PodFits, CacheFits, EnsureAwaits
  <2>4. rows'[u].name = n /\ rows'[u].status = "provisioning"
    BY <1>0, <1>1, <1>2, <1>7, <1>12, <2>1, <2>2, StatusAt DEF SetProvisioning
  <2>5. pods' = [pods EXCEPT ![n] = [phase |-> "provisioning", port |-> k.port, cli |-> TRUE]]
    BY <1>2, <1>12, <2>2, <2>3 DEF SetProvisioning
  <2>6. PodOf(u)' = [phase |-> "provisioning", port |-> k.port, cli |-> TRUE] /\ Tunnels(u)' = {}
    BY <1>0, <1>7, <2>1, <2>2, <2>3, <2>4, <2>5, NoneFree DEF PodOf, Tunnels, TypeOK
  <2>7. ShellOf(u)
    BY <1>0, <1>7, <2>1, <2>2, <2>5 DEF ShellOf, TypeOK
  <2>8. PICK l : l = calls'[c]
    OBVIOUS
  <2>9. l.pc = "createPod" /\ l.port = k.port
    BY <1>0, <1>2, <1>12, <2>8, GotoAt DEF SetProvisioning
  <2>10. Fits(sandboxes'[u], rows'[u], PodOf(u)', Tunnels(u)', l)
    <3>1. CacheFits(sandboxes[u], l)
      BY <1>4, <2>3, <2>9 DEF Fits, CacheFits
    <3> QED
      BY <2>1, <2>3, <2>4, <2>6, <2>9, <3>1 DEF Fits, RowFits, PodFits
  <2>11. PortMoves(PortOf(sandboxes[u], k), PortOf(sandboxes'[u], l))
    BY <2>1, <2>9 DEF PortMoves, PortOf, Fresh
  <2> QED
    BY <1>1, <1>2, <2>7, <2>8, <2>9, <2>10, <2>11, TidilyOn DEF Passive

<1>13. CASE CreatePod(c)
  <2>1. /\ k.pc = "createPod" /\ k.pc \in Past /\ UNCHANGED <<sandboxes, rows>>
        /\ sandboxes[u].phase = "absent" /\ sandboxes[u].port = None
    BY <1>2, <1>4, <1>13 DEF CreatePod, Past, EnsureAwaits, Fits, CacheFits, NoSandbox
  <2>2. PICK n \in Names : n = k.name
    BY <1>7, <2>1
  <2>3. PICK l : l = calls'[c]
    OBVIOUS
  <2>4. CASE Goto(c, "waitForHealthy") /\ UNCHANGED <<allocatedPorts, shell>>
    <3>1. l.pc = "waitForHealthy" /\ l.port = k.port
      BY <1>0, <1>2, <2>3, <2>4, GotoAt
    <3>2. pods[n].phase = "ready"
      BY <1>2, <1>13, <2>2, <3>1, <2>3, <1>0, GotoAt DEF CreatePod, Catch
    <3>3. Fits(sandboxes'[u], rows'[u], PodOf(u), Tunnels(u), l)
      <4>1. CacheFits(sandboxes[u], l)
        BY <1>4, <2>1, <3>1 DEF Fits, CacheFits
      <4>2. PodOf(u).phase = "ready"
        BY <1>7, <2>1, <2>2, <3>2
      <4> QED
        BY <1>4, <2>1, <3>1, <4>1, <4>2 DEF Fits, RowFits, PodFits, Fresh, Cut
    <3>4. PortMoves(PortOf(sandboxes[u], k), PortOf(sandboxes'[u], l))
      BY <2>1, <2>4, <3>1 DEF PortMoves, PortOf, Fresh
    <3> QED
      BY <1>1, <1>2, <2>1, <2>3, <2>4, <3>1, <3>3, <3>4, TidilyInside DEF Passive
  <2>5. CASE Catch(c) /\ pods[n].phase \in {"absent", "error"} /\ KillSession(n)
    <3>1. l.pc = "setError" /\ ReleasePort(k.port)
      BY <1>0, <1>2, <2>3, <2>5, GotoAt DEF Catch
    <3>2. /\ PodOf(u)'.phase = pods[n].phase /\ PodOf(u)'.port = PodOf(u).port
          /\ Tunnels(u)' = Tunnels(u) /\ PodOf(u) = pods[n]
      <4>1. Tunnels(u) = {} /\ PodOf(u) = pods[n]
        BY <1>4, <1>7, <2>1, <2>2, <2>5 DEF Fits, PodFits
      <4>2. Tunnels(u)' = {}
        BY <1>7, <2>1, <2>2, <2>5, <4>1, NoneFree DEF KillSession, ForwardsWithout, Tunnels
      <4> QED
        BY <1>0, <1>7, <2>1, <2>2, <2>5, <4>1, <4>2 DEF KillSession, PodOf, TypeOK, Pod
    <3>3. ShellOf(u)
      <4>1. n[1] = u /\ n # None
        BY <1>7, <2>1, <2>2, NoneFree
      <4>2. \A m \in Names \ {n}, q \in Ports : forwards'[q] = m <=> forwards[q] = m
        BY <2>5, NoneFree DEF KillSession, ForwardsWithout
      <4> QED
        BY <1>0, <2>2, <2>5, <4>1, <4>2 DEF KillSession, ShellOf, TypeOK
    <3>4. Fits(sandboxes'[u], rows'[u], PodOf(u)', Tunnels(u)', l)
      <4>1. CacheFits(sandboxes[u], l)
        BY <1>4, <2>1, <3>1 DEF Fits, CacheFits, EnsureAwaits
      <4>2. RowFits(sandboxes[u], rows[u], PodOf(u)', l)
        BY <1>4, <2>1, <3>1, <3>2 DEF Fits, RowFits
      <4>3. PodFits(sandboxes[u], PodOf(u)', Tunnels(u)', l)
        BY <1>4, <2>5, <3>1, <3>2 DEF Fits, PodFits
      <4> QED
        BY <2>1, <4>1, <4>2, <4>3 DEF Fits
    <3>5. PortMoves(PortOf(sandboxes[u], k), PortOf(sandboxes'[u], l))
      BY <2>1, <3>1 DEF PortMoves, PortOf, Fresh
    <3> QED
      BY <1>1, <1>2, <2>3, <3>1, <3>3, <3>4, <3>5, TidilyOn DEF Passive
  <2> QED
    BY <1>2, <1>6, <1>13, <2>2, <2>4, <2>5 DEF CreatePod
<1>14. CASE WaitForHealthy(c)
  <2>1. /\ k.pc = "waitForHealthy" /\ k.pc \in Past /\ UNCHANGED <<rows, shell>>
        /\ sandboxes[u].phase = "absent" /\ sandboxes[u].port = None
    BY <1>2, <1>4, <1>14 DEF WaitForHealthy, Past, EnsureAwaits, Fits, CacheFits, NoSandbox
  <2>2. k.port \in Ports
    BY <1>0, <1>2, <1>5, <2>1 DEF RootedCall, Ported, TypeOK, CallsOK, Frame
  <2>3. PICK l : l = calls'[c]
    OBVIOUS
  <2>4. CASE Cache(c) /\ Goto(c, "setReady") /\ UNCHANGED allocatedPorts
    <3>1. l.pc = "setReady" /\ l.port = k.port
      BY <1>0, <1>2, <2>3, <2>4, GotoAt
    <3>2. PICK sb : sb = sandboxes'[u]
      OBVIOUS
    <3>3. sb.phase = "ready" /\ sb.port = k.port
      BY <1>0, <1>1, <1>2, <2>4, <3>2, CacheAt
    <3>4. Fits(sb, rows'[u], PodOf(u), Tunnels(u), l)
      <4>1. CacheFits(sb, l)
        BY <3>1, <3>3 DEF CacheFits
      <4>2. RowFits(sb, rows[u], PodOf(u), l)
        BY <1>4, <2>1, <3>1, <3>3 DEF Fits, RowFits
      <4>3. PodFits(sb, PodOf(u), Tunnels(u), l)
        BY <1>4, <2>1, <3>1, <3>3 DEF Fits, PodFits, Fresh, Cut
      <4> QED
        BY <2>1, <4>1, <4>2, <4>3 DEF Fits
    <3>5. PortMoves(PortOf(sandboxes[u], k), PortOf(sb, l))
      BY <2>1, <2>4, <3>1, <3>3 DEF PortMoves, PortOf, Fresh
    <3> QED
      BY <1>1, <1>2, <2>1, <2>3, <3>1, <3>2, <3>4, <3>5, TidilyInside DEF Passive
  <2>5. CASE Catch(c) /\ ~Healthy(k.port) /\ UNCHANGED sandboxes
    <3>1. l.pc = "setError" /\ ReleasePort(k.port)
      BY <1>0, <1>2, <2>3, <2>5, GotoAt DEF Catch
    <3>2. PodOf(u).phase \notin {"ready", "provisioning"}
      <4>1. PodOf(u).phase = "ready" => PodOf(u).port = k.port
        BY <1>4, <2>1 DEF Fits, PodFits, Fresh
      <4>2. PodOf(u).phase # "ready"
        BY <1>0, <1>4, <2>1, <2>2, <2>5, <4>1, HealthyTidy DEF Cut
      <4>3. PodOf(u).phase # "provisioning"
        BY <1>4, <2>1 DEF Fits, PodFits
      <4> QED
        BY <4>2, <4>3
    <3>3. Fits(sandboxes'[u], rows'[u], PodOf(u), Tunnels(u), l)
      <4>1. CacheFits(sandboxes[u], l)
        BY <1>4, <2>1, <3>1 DEF Fits, CacheFits, EnsureAwaits
      <4>2. RowFits(sandboxes[u], rows[u], PodOf(u), l)
        BY <1>4, <2>1, <3>1 DEF Fits, RowFits
      <4>3. PodFits(sandboxes[u], PodOf(u), Tunnels(u), l)
        BY <1>4, <3>1, <3>2 DEF Fits, PodFits
      <4> QED
        BY <2>1, <2>5, <4>1, <4>2, <4>3 DEF Fits
    <3>4. PortMoves(PortOf(sandboxes[u], k), PortOf(sandboxes'[u], l))
      BY <2>1, <2>5, <3>1 DEF PortMoves, PortOf, Fresh
    <3> QED
      BY <1>1, <1>2, <2>1, <2>3, <3>1, <3>3, <3>4, TidilyInside DEF Passive
  <2> QED
    BY <1>2, <1>14, <2>4, <2>5 DEF WaitForHealthy
<1>15. CASE SetReady(c)
  <2>1. /\ k.pc = "setReady" /\ k.pc \in Past /\ UNCHANGED <<sandboxes, allocatedPorts, shell>>
        /\ sandboxes[u].phase = "ready" /\ sandboxes[u].port = k.port
    BY <1>2, <1>4, <1>15 DEF SetReady, Past, EnsureAwaits, Fits, CacheFits, memory
  <2>2. PICK l : l = calls'[c]
    OBVIOUS
  <2>3. l.pc = "setMetadata" /\ l.port = k.port
    BY <1>0, <1>2, <1>15, <2>2, GotoAt DEF SetReady
  <2>4. rows'[u].status = "ready" /\ rows'[u].name = rows[u].name
    BY <1>0, <1>1, <1>2, <1>7, <1>15, <2>1, StatusAt DEF SetReady
  <2>5. Fits(sandboxes[u], rows'[u], PodOf(u), Tunnels(u), l)
    <3>1. CacheFits(sandboxes[u], l)
      BY <2>1, <2>3 DEF CacheFits
    <3>2. RowFits(sandboxes[u], rows'[u], PodOf(u), l)
      BY <2>1, <2>3, <2>4 DEF RowFits
    <3>3. PodFits(sandboxes[u], PodOf(u), Tunnels(u), l)
      BY <1>4, <2>1, <2>3 DEF Fits, PodFits, Fresh, Cut
    <3> QED
      BY <3>1, <3>2, <3>3 DEF Fits
  <2>6. PortMoves(PortOf(sandboxes[u], k), PortOf(sandboxes[u], l))
    BY <2>1, <2>3 DEF PortMoves, PortOf, Fresh
  <2> QED
    BY <1>1, <1>2, <2>1, <2>2, <2>3, <2>4, <2>5, <2>6, TidilyInside DEF Passive
<1>16. CASE SetMetadata(c)
  <2>1. /\ k.pc = "setMetadata" /\ k.pc \in Past /\ UNCHANGED <<sandboxes, allocatedPorts, shell>>
        /\ sandboxes[u].phase = "ready" /\ sandboxes[u].port = k.port
    BY <1>2, <1>4, <1>16 DEF SetMetadata, Past, EnsureAwaits, Fits, CacheFits
  <2>2. PICK l : l = calls'[c]
    OBVIOUS
  <2>3. l = Idle
    BY <1>0, <1>16, <2>2, SettleAt DEF SetMetadata
  <2>4. /\ rows'[u].status = rows[u].status /\ rows'[u].name = rows[u].name
        /\ rows'[u].agentPort = k.port
    BY <1>0, <1>1, <1>2, <1>7, <1>16, <2>1 DEF SetMetadata, TypeOK, Row
  <2>5. Fits(sandboxes[u], rows'[u], PodOf(u), Tunnels(u), l)
    <3>1. CacheFits(sandboxes[u], l)
      BY <2>1, <2>3, IdlePC DEF CacheFits, EnsureAwaits
    <3>2. RowFits(sandboxes[u], rows'[u], PodOf(u), l)
      BY <1>4, <2>1, <2>3, <2>4, IdlePC DEF Fits, RowFits
    <3>3. PodFits(sandboxes[u], PodOf(u), Tunnels(u), l)
      BY <1>4, <2>1, <2>3, IdlePC DEF Fits, PodFits, Fresh, Cut
    <3> QED
      BY <3>1, <3>2, <3>3 DEF Fits
  <2>6. PortMoves(PortOf(sandboxes[u], k), PortOf(sandboxes[u], l))
    BY <2>1, <2>3, IdlePC DEF PortMoves, PortOf, Fresh
  <2> QED
    BY <1>1, <1>2, <2>1, <2>2, <2>3, <2>4, <2>5, <2>6, TidilyInside
<1>17. CASE SetError(c)
  <2>1. k.pc = "setError" /\ k.pc \in Past /\ UNCHANGED <<sandboxes, allocatedPorts, shell>>
    BY <1>2, <1>17 DEF SetError, Past, EnsureAwaits
  <2>2. rows'[u].status = "error" /\ rows'[u].name = rows[u].name
    BY <1>0, <1>1, <1>2, <1>7, <1>17, <2>1, StatusAt DEF SetError
  <2>3. calls'[c] = Idle
    BY <1>0, <1>17, SettleAt DEF SetError
  <2> QED
    BY <1>0, <1>1, <1>2, <1>4, <2>1, <2>2, <2>3, PlainTidy
<1>18. CASE EnsureRejects(c)
  <2>1. k.pc = "insertRow" /\ calls'[c] = Idle
    BY <1>0, <1>2, <1>6, <1>18, SettleAt DEF EnsureRejects
  <2> QED
    BY <1>0, <1>1, <1>2, <1>4, <1>18, <2>1, PlainTidy DEF EnsureRejects
<1>19. ~(SetWaiting(c) \/ WaitReady(c) \/ ForwardStart(c) \/ SetReattached(c) \/ FailAfterCache(c))
  BY <1>2, <1>4, <1>6 DEF Fits, CacheFits, SetWaiting, WaitReady, ForwardStart, SetReattached,
     FailAfterCache
<1> QED
  BY <1>1, <1>8, <1>9, <1>10, <1>11, <1>12, <1>13, <1>14, <1>15, <1>16, <1>17, <1>18, <1>19 DEF EnsureStep

\* A pod that runs does so on the port of its user.
LEMMA ReadyHolds ==
    ASSUME NEW v \in Users, UserTidy(v), PodOf(v).phase = "ready"
    PROVE  Holds(v, PodOf(v).port)
<1>1. CASE \E c \in Calls : AtWork(c, v)
  <2>1. PICK c \in Calls : AtWork(c, v)
    BY <1>1
  <2>2. Fits(sandboxes[v], rows[v], PodOf(v), Tunnels(v), calls[c])
    BY <2>1 DEF UserTidy
  <2> QED
    BY <2>1, <2>2 DEF Fits, PodFits, Holds, AtWork
<1>2. CASE \A c \in Calls : ~AtWork(c, v)
  <2>1. Fits(sandboxes[v], rows[v], PodOf(v), Tunnels(v), Idle)
    BY <1>2 DEF UserTidy
  <2> QED
    BY <2>1, IdleAway DEF Fits, PodFits, Holds
<1> QED
  BY <1>1, <1>2

\* Only the pod of a user's tunnels runs on their port.
LEMMA TunnelPort ==
    ASSUME NEW v \in Users, UserTidy(v), NEW p \in Tunnels(v)
    PROVE  PodOf(v).phase = "ready" /\ PodOf(v).port = p
<1>1. PICK k : Fits(sandboxes[v], rows[v], PodOf(v), Tunnels(v), k)
  BY DEF UserTidy
<1> QED
  BY <1>1 DEF Fits, PodFits

\* The port a user has leads to the user's pod or nowhere.
LEMMA PortLeads ==
    ASSUME SerialInv, Tidy, NEW u \in Users, NEW p \in Ports, Holds(u, p)
    PROVE  forwards[p] \in {None, rows[u].name}
<1>1. SUFFICES ASSUME forwards[p] # None
               PROVE  forwards[p] = rows[u].name
  OBVIOUS
<1>2. PICK n \in Names : n = forwards[p]
  BY <1>1 DEF SerialInv, TypeOK
<1>3. PICK v \in Users : v = n[1]
  BY DEF Names
<1>4. pods[n].phase = "ready"
  BY <1>1, <1>2 DEF Tidy, Tunnelled
<1>5. rows[v].name = n /\ n # None
  BY <1>3, <1>4, NoneFree DEF Tidy, AllNamed, PodNamed
<1>6. p \in Tunnels(v)
  BY <1>2, <1>5 DEF Tunnels
<1>7. Holds(v, p)
  BY <1>6, TunnelPort, ReadyHolds DEF Tidy
<1>8. v = u
  BY <1>7 DEF Tidy, PortsTidy
<1> QED
  BY <1>2, <1>5, <1>8

LEMMA OtherTidy ==
    ASSUME SerialInv, Tidy, Untroubled', NEW c \in Calls, calls[c].pc \in Unlocked, OtherStep(c)
    PROVE  Tidily(c, calls[c].user)
<1>0. calls[c].pc \in Unlocked /\ calls[c].user \in Users /\ TypeOK
  BY Alone DEF SerialInv
<1>1. PICK u \in Users : u = calls[c].user
  BY <1>0
<1>2. PICK k : k = calls[c]
  OBVIOUS
<1>3. AtWork(c, u) /\ k.pc \notin Fresh /\ k.pc \notin EnsureAwaits
  BY <1>0, <1>1, <1>2, Working DEF AtWork, Unlocked, OtherAwaits, Fresh
<1>4. Fits(sandboxes[u], rows[u], PodOf(u), Tunnels(u), k)
  BY <1>2, <1>3 DEF Tidy, UserTidy
<1>5. RootedUser(u) /\ RootedCall(k, sandboxes[u], rows[u])
  BY <1>1, <1>2, <1>3 DEF SerialInv, Rooted, AtWork, Passive
<1>6. \A s : ~Fault(s)
  BY <1>0, NoFault
<1>7. k.pc # "destroy.lookup" =>
         /\ k.name = rows[u].name /\ k.port = sandboxes[u].port
         /\ k.name # None => k.name \in Names /\ k.name[1] = u /\ PodOf(u) = pods[k.name]
         /\ sandboxes[u].phase # "absent" => k.name # None /\ k.port \in Ports
  <2>1. sandboxes[u].phase = "absent" => sandboxes[u].port = None
    BY <1>4 DEF Fits, CacheFits, NoSandbox
  <2> QED
    BY <1>0, <1>2, <1>5, <2>1 DEF RootedCall, RootedUser, PodOf, TypeOK, Row, CallsOK, Frame
<1>8. PICK l : l = calls'[c]
  OBVIOUS
<1>9. \A pc : Goto(c, pc) => l.pc = pc /\ l.port = k.port /\ l.ref = k.ref
  BY <1>0, <1>2, <1>8, GotoAt
<1>10. Finish(c) => l = Idle
  BY <1>0, <1>8, FinishAt
\* A call that ends or goes on and leaves everything as it is.
<1>11. ASSUME UNCHANGED <<sandboxes, allocatedPorts, rows, shell>>,
              l = Idle \/ l.pc \in {"destroy.delete", "refresh.forwardStop"},
              sandboxes[u].phase \in {"absent", "ready"}, k.pc \notin Cut
       PROVE  Tidily(c, u)
  <2>1. l.pc \in {"idle", "destroy.delete", "refresh.forwardStop"}
    BY <1>11, IdlePC
  <2>2. CacheFits(sandboxes[u], l)
    BY <1>4, <1>11, <2>1 DEF Fits, CacheFits, EnsureAwaits
  <2>3. k.pc \notin {"suspend.forwardStop", "setReady", "setMetadata", "suspend.delete"}
    BY <1>3, <1>4, <1>11 DEF Fits, CacheFits, EnsureAwaits
  <2>4. RowFits(sandboxes[u], rows[u], PodOf(u), l)
    BY <1>4, <2>3 DEF Fits, RowFits
  <2>5. PodFits(sandboxes[u], PodOf(u), Tunnels(u), l)
    BY <1>3, <1>4, <1>11, <2>1 DEF Fits, PodFits, Fresh, EnsureAwaits
  <2>6. PortMoves(PortOf(sandboxes[u], k), PortOf(sandboxes[u], l))
    BY <1>3, <1>11, <2>1 DEF PortMoves, PortOf, Fresh
  <2> QED
    BY <1>2, <1>8, <1>11, <2>1, <2>2, <2>4, <2>5, <2>6, TidilyInside DEF Fits, Passive
\* A call that ends with nothing cached and the port given back.
<1>12. ASSUME l = Idle, sandboxes'[u] = NoSandbox, ReleasePort(k.port), k.port = sandboxes[u].port,
              ShellOf(u), PodOf(u)'.phase \notin {"ready", "provisioning"}, Tunnels(u)' = {},
              rows'[u].status = "suspended" => PodOf(u)'.phase = "absent"
       PROVE  Tidily(c, u)
  <2>1. Fits(sandboxes'[u], rows'[u], PodOf(u)', Tunnels(u)', l)
    <3>1. CacheFits(NoSandbox, l)
      BY <1>12, IdlePC DEF CacheFits, NoSandbox, EnsureAwaits
    <3>2. RowFits(NoSandbox, rows'[u], PodOf(u)', l)
      BY <1>12 DEF RowFits, NoSandbox
    <3>3. PodFits(NoSandbox, PodOf(u)', Tunnels(u)', l)
      BY <1>12, IdlePC DEF PodFits
    <3> QED
      BY <1>12, <3>1, <3>2, <3>3 DEF Fits
  <2>2. PortMoves(PortOf(sandboxes[u], k), PortOf(NoSandbox, l))
    BY <1>3, <1>12, IdleAway DEF PortMoves, PortOf
  <2> QED
    BY <1>2, <1>8, <1>12, <2>1, <2>2, TidilyOn

<1>13. CASE SuspendSetStatus(c)
  <2>1. k.pc = "suspend.setStatus" /\ l.pc = "suspend.forwardStop" /\ UNCHANGED <<sandboxes, allocatedPorts, shell>>
    BY <1>2, <1>9, <1>13 DEF SuspendSetStatus, memory
  <2>2. rows'[u].name = rows[u].name
    BY <1>0, <1>1, <1>13, StatusAt DEF SuspendSetStatus
  <2>3. sandboxes[u].phase = "suspended"
    BY <1>4, <2>1 DEF Fits, CacheFits
  <2>4. CacheFits(sandboxes[u], l)
    BY <2>1, <2>3 DEF CacheFits, EnsureAwaits
  <2>5. RowFits(sandboxes[u], rows'[u], PodOf(u), l)
    BY <2>1, <2>3 DEF RowFits
  <2>6. PodFits(sandboxes[u], PodOf(u), Tunnels(u), l)
    BY <1>4, <2>1 DEF Fits, PodFits, Fresh, Cut
  <2>7. PortMoves(PortOf(sandboxes[u], k), PortOf(sandboxes[u], l))
    BY <1>3, <2>1 DEF PortMoves, PortOf, Fresh
  <2> QED
    BY <1>1, <1>2, <1>8, <2>1, <2>2, <2>4, <2>5, <2>6, <2>7, TidilyInside DEF Fits, Passive
<1>14. CASE SuspendDelete(c)
  <2>1. k.pc = "suspend.delete" /\ k.name \in Names /\ k.port = sandboxes[u].port
    BY <1>2, <1>4, <1>7, <1>14 DEF SuspendDelete, Fits, CacheFits
  <2>2. PICK n \in Names : n = k.name
    BY <2>1
  <2>3. DeletePod(n) /\ ReleasePort(k.port) /\ l = Idle /\ UNCHANGED rows
    BY <1>2, <1>6, <1>10, <1>14, <2>2 DEF SuspendDelete
  <2>4. sandboxes'[u] = NoSandbox
    BY <1>0, <1>1, <1>14, UncacheAt DEF SuspendDelete
  <2>5. ShellOf(u) /\ PodOf(u)' = NoPod /\ Tunnels(u)' = {}
    BY <1>0, <1>7, <2>1, <2>2, <2>3, DeleteShell
  <2> QED
    BY <1>1, <1>12, <2>1, <2>3, <2>4, <2>5 DEF NoPod
<1>15. CASE DestroyLookup(c)
  <2>1. /\ k.pc = "destroy.lookup" /\ UNCHANGED <<sandboxes, allocatedPorts, rows, shell>>
        /\ l = Idle \/ l.pc = "destroy.delete"
    BY <1>0, <1>2, <1>8, <1>10, <1>15 DEF DestroyLookup, memory, TypeOK, CallsOK, Frame
  <2>2. sandboxes[u].phase = "absent"
    BY <1>5, <2>1 DEF RootedCall
  <2> QED
    BY <1>1, <1>11, <2>1, <2>2 DEF Cut
<1>16. CASE DestroyDelete(c)
  <2>1. k.pc = "destroy.delete" /\ UNCHANGED <<sandboxes, allocatedPorts, rows>>
    BY <1>2, <1>16 DEF DestroyDelete, memory
  <2>2. k.name \in Names \cup {None}
    BY <1>7, <2>1
  <2>3. PICK n \in Names \cup {None} : n = k.name
    BY <2>2
  <2>4. DeletePod(n) /\ l.pc = "destroy.deleteRow"
    BY <1>2, <1>6, <1>9, <1>16, <2>3 DEF DestroyDelete
  <2>5. ShellOf(u) /\ PodOf(u)' = NoPod /\ Tunnels(u)' = {}
    BY <1>0, <1>7, <2>1, <2>3, <2>4, DeleteShell
  <2>6. Fits(sandboxes'[u], rows'[u], PodOf(u)', Tunnels(u)', l)
    <3>1. CacheFits(sandboxes[u], l)
      BY <1>4, <2>1, <2>4 DEF Fits, CacheFits, EnsureAwaits
    <3>2. RowFits(sandboxes[u], rows[u], NoPod, l)
      BY <1>4, <2>1, <2>4 DEF Fits, RowFits, NoPod
    <3>3. PodFits(sandboxes[u], NoPod, {}, l)
      BY <2>4 DEF PodFits, NoPod
    <3> QED
      BY <2>1, <2>5, <3>1, <3>2, <3>3 DEF Fits
  <2>7. PortMoves(PortOf(sandboxes[u], k), PortOf(sandboxes'[u], l))
    BY <1>3, <2>1, <2>4 DEF PortMoves, PortOf, Fresh
  <2> QED
    BY <1>1, <1>2, <1>8, <2>4, <2>5, <2>6, <2>7, TidilyOn DEF Passive
<1>17. CASE DestroyDeleteRow(c)
  <2>1. k.pc = "destroy.deleteRow" /\ k.name = rows[u].name /\ k.port = sandboxes[u].port
    BY <1>2, <1>7, <1>17 DEF DestroyDeleteRow
  <2>2. rows'[u] = NoRow /\ UNCHANGED shell /\ l = Idle
    BY <1>0, <1>1, <1>2, <1>10, <1>17, <2>1 DEF DestroyDeleteRow, TypeOK
  <2>3. PodOf(u)' = NoPod /\ Tunnels(u)' = {} /\ ShellOf(u)
    BY <2>2 DEF PodOf, Tunnels, ShellOf, NoRow, shell
  <2>4. CASE k.port # None
    <3>1. ReleasePort(k.port) /\ sandboxes'[u] = NoSandbox
      BY <1>0, <1>1, <1>2, <1>17, <2>4, UncacheAt DEF DestroyDeleteRow
    <3> QED
      BY <1>1, <1>12, <2>1, <2>2, <2>3, <3>1 DEF NoPod
  <2>5. CASE k.port = None
    <3>1. sandboxes[u] = NoSandbox
      BY <1>4, <1>7, <2>1, <2>5, NoneFree DEF Fits, CacheFits
    <3>2. UNCHANGED <<allocatedPorts, sandboxes>>
      BY <1>2, <1>17, <2>5 DEF DestroyDeleteRow
    <3>3. ReleasePort(k.port)
      BY <1>0, <2>5, <3>2, NoneFree DEF ReleasePort, TypeOK
    <3> QED
      BY <1>1, <1>12, <2>1, <2>2, <2>3, <3>1, <3>2, <3>3 DEF NoPod
  <2> QED
    BY <2>4, <2>5
<1>18. ~HealthResult(c)
  BY <1>0 DEF HealthResult, Unlocked
<1>19. CASE HealthSetStatus(c)
  <2>1. /\ k.pc = "health.setStatus" /\ ReleasePort(k.port) /\ l = Idle /\ UNCHANGED shell
        /\ sandboxes'[u] = NoSandbox
    BY <1>0, <1>1, <1>2, <1>10, <1>19, UncacheAt DEF HealthSetStatus
  <2>2. rows'[u].name = rows[u].name /\ rows'[u].status = "error"
    BY <1>0, <1>1, <1>2, <1>7, <1>19, <2>1, StatusAt DEF HealthSetStatus
  <2>3. sandboxes[u].phase = "error"
    BY <1>4, <2>1 DEF Fits, CacheFits
  <2>4. PodOf(u).phase \notin {"ready", "provisioning"} /\ Tunnels(u) = {}
    BY <1>3, <1>4, <2>1, <2>3 DEF Fits, PodFits
  <2>5. ShellOf(u) /\ PodOf(u)' = PodOf(u) /\ Tunnels(u)' = Tunnels(u)
    BY <2>1, <2>2, ShellStays
  <2> QED
    BY <1>1, <1>7, <1>12, <2>1, <2>2, <2>4, <2>5
<1>20. CASE RefreshGet(c)
  <2>1. /\ k.pc = "refresh.get"
        /\ l = Idle \/ l.pc = "refresh.forwardStop"
        /\ UNCHANGED <<sandboxes, allocatedPorts, rows, shell>>
    BY <1>2, <1>9, <1>10, <1>20 DEF RefreshGet, memory
  <2>2. sandboxes[u].phase \in {"absent", "ready"}
    BY <1>0, <1>4, <2>1 DEF Fits, CacheFits, TypeOK, State
  <2> QED
    BY <1>1, <1>11, <2>1, <2>2 DEF Cut
<1>21. CASE RefreshForwardStart(c)
  <2>1. /\ k.pc = "refresh.forwardStart" /\ l = Idle /\ UNCHANGED <<sandboxes, allocatedPorts, rows, pods>>
        /\ StartForward(k.port, k.name)
    BY <1>2, <1>6, <1>10, <1>21 DEF RefreshForwardStart, memory
  <2>2. sandboxes[u].phase # "absent"
    BY <1>5, <2>1 DEF RootedCall, Unlocked, OtherAwaits
  <2>3. PICK n \in Names : n = k.name
    BY <1>7, <2>1, <2>2
  <2>4. PICK p \in Ports : p = k.port
    BY <1>7, <2>1, <2>2
  <2>5. n = rows[u].name /\ n[1] = u /\ n # None /\ p = sandboxes[u].port
    BY <1>7, <2>1, <2>3, <2>4, NoneFree
  <2>6. /\ ShellOf(u) /\ PodOf(u)' = PodOf(u)
        /\ Tunnels(u)' = IF forwards[p] = None /\ PodOf(u).phase = "ready"
                         THEN Tunnels(u) \cup {p} ELSE Tunnels(u)
    BY <1>0, <2>1, <2>3, <2>4, <2>5, StartShell
  <2>7. forwards[p] = None \/ p \in Tunnels(u)
    BY <2>5, PortLeads DEF Holds, Tunnels
  <2>8. sandboxes[u].phase = "ready"
    BY <1>0, <1>4, <2>1, <2>2 DEF Fits, CacheFits, TypeOK, State
  <2>9. CacheFits(sandboxes[u], l)
    BY <2>1, <2>8, IdlePC DEF CacheFits, EnsureAwaits
  <2>10. RowFits(sandboxes[u], rows[u], PodOf(u), l)
    BY <1>4, <2>1, IdlePC DEF Fits, RowFits
  <2>11. PodFits(sandboxes[u], PodOf(u), Tunnels(u)', l)
    <3>1. PodOf(u).phase = "ready" => PodOf(u).port = p /\ p \in Tunnels(u)'
      BY <1>3, <1>4, <2>5, <2>6, <2>7 DEF Fits, PodFits
    <3>2. Tunnels(u)' \subseteq {PodOf(u).port} /\ (Tunnels(u)' # {} => PodOf(u).phase = "ready")
      BY <1>4, <2>6, <3>1 DEF Fits, PodFits
    <3>3. PodOf(u).phase # "provisioning"
      BY <1>4, <2>1 DEF Fits, PodFits
    <3> QED
      BY <2>1, <2>5, <2>8, <3>1, <3>2, <3>3, IdleAway, IdlePC DEF PodFits
  <2>12. PortMoves(PortOf(sandboxes[u], k), PortOf(sandboxes[u], l))
    BY <1>3, <2>1, IdleAway DEF PortMoves, PortOf
  <2>13. Fits(sandboxes'[u], rows'[u], PodOf(u)', Tunnels(u)', l)
    BY <2>1, <2>6, <2>9, <2>10, <2>11 DEF Fits
  <2> QED
    BY <1>1, <1>2, <1>8, <2>1, <2>6, <2>12, <2>13, TidilyOn
<1>22. CASE ForwardStop(c)
  <2>1. /\ \/ k.pc = "suspend.forwardStop" /\ l.pc = "suspend.delete"
           \/ k.pc = "destroy.forwardStop" /\ l.pc = "destroy.delete"
           \/ k.pc = "refresh.forwardStop" /\ l.pc = "refresh.forwardStart"
        /\ UNCHANGED <<sandboxes, allocatedPorts, rows, pods>> /\ StopForward(k.port, k.name)
    BY <1>2, <1>6, <1>9, <1>22 DEF ForwardStop, memory
  <2>2. sandboxes[u].phase # "absent"
    BY <1>5, <2>1 DEF RootedCall, Unlocked, OtherAwaits
  <2>3. PICK n \in Names : n = k.name
    BY <1>7, <2>1, <2>2
  <2>4. PICK p \in Ports : p = k.port
    BY <1>7, <2>1, <2>2
  <2>5. n = rows[u].name /\ n[1] = u
    BY <1>7, <2>1, <2>3, NoneFree
  <2>6. ShellOf(u) /\ PodOf(u)' = PodOf(u) /\ Tunnels(u)' = Tunnels(u) \ {p}
    BY <1>0, <2>1, <2>3, <2>4, <2>5, StopShell
  <2>7. CacheFits(sandboxes[u], l)
    BY <1>4, <2>1 DEF Fits, CacheFits, EnsureAwaits
  <2>8. RowFits(sandboxes[u], rows[u], PodOf(u), l)
    BY <1>4, <2>1 DEF Fits, RowFits
  <2>9. PodFits(sandboxes[u], PodOf(u), Tunnels(u) \ {p}, l)
    BY <1>3, <1>4, <2>1 DEF Fits, PodFits, Fresh, Cut
  <2>10. PortMoves(PortOf(sandboxes[u], k), PortOf(sandboxes[u], l))
    BY <1>3, <2>1 DEF PortMoves, PortOf, Fresh
  <2>11. Fits(sandboxes'[u], rows'[u], PodOf(u)', Tunnels(u)', l)
    BY <2>1, <2>6, <2>7, <2>8, <2>9 DEF Fits
  <2> QED
    BY <1>1, <1>2, <1>8, <2>1, <2>6, <2>10, <2>11, TidilyOn DEF Passive
<1>23. ~OtherRejects(c)
  BY <1>6 DEF OtherRejects
<1> QED
  BY <1>1, <1>13, <1>14, <1>15, <1>16, <1>17, <1>18, <1>19, <1>20, <1>21, <1>22, <1>23 DEF OtherStep

\* A probe that fails for the cached sandbox of a user nobody works for.
LEMMA ProbeTidy ==
    ASSUME SerialInv, Apart', Tidy, Untroubled', NEW c \in Calls, HealthResult(c),
           calls'[c].pc \notin Passive, NEW u \in Users, u = calls[c].user
    PROVE  Tidily(c, u)
<1>0. /\ TypeOK /\ Solo(c, u) /\ calls[c].port = sandboxes[u].port
      /\ calls[c].ref = sandboxes[u].ref /\ sandboxes[u].phase # "absent" /\ RootedUser(u)
  BY ProbeOwed DEF SerialInv, Rooted
<1>1. calls[c].pc = "health.check" /\ UNCHANGED <<allocatedPorts, rows, shell>>
  BY DEF HealthResult
<1>2. Fits(sandboxes[u], rows[u], PodOf(u), Tunnels(u), Idle)
  <2>1. \A d \in Calls : ~AtWork(d, u)
    BY <1>0, <1>1 DEF AtWork, Solo, Passive
  <2> QED
    BY <2>1 DEF Tidy, UserTidy
<1>3. PICK l : l = calls'[c]
  OBVIOUS
<1>4. PICK sb : sb = sandboxes'[u]
  OBVIOUS
<1>5. PICK p \in Ports : p = sandboxes[u].port
  BY <1>0 DEF RootedUser, TypeOK, State
<1>6. /\ ~Healthy(p) /\ Goto(c, "health.setStatus")
      /\ sandboxes' = [sandboxes EXCEPT ![u].phase = "error"]
  BY <1>0, <1>5, FinishAt, NoFault DEF HealthResult, Passive
<1>7. l.pc = "health.setStatus" /\ sb.phase = "error" /\ sb.port = p
  BY <1>0, <1>3, <1>4, <1>5, <1>6, GotoAt DEF TypeOK, State
<1>8. PodOf(u).phase \notin {"ready", "provisioning"}
  <2>1. PodOf(u).phase = "ready" => PodOf(u).port = p
    BY <1>2, <1>5, IdleAway DEF Fits, PodFits
  <2>2. PodOf(u).phase # "ready"
    BY <1>2, <1>6, <2>1, HealthyTidy, IdlePC DEF Cut
  <2>3. PodOf(u).phase # "provisioning"
    BY <1>2, IdlePC DEF Fits, PodFits
  <2> QED
    BY <2>2, <2>3
<1>9. sandboxes[u].phase = "ready"
  BY <1>0, <1>2, IdlePC DEF Fits, CacheFits, TypeOK, State
<1>10. CacheFits(sb, l)
  BY <1>7 DEF CacheFits, EnsureAwaits
<1>11. RowFits(sb, rows[u], PodOf(u), l)
  BY <1>2, <1>7, IdlePC DEF Fits, RowFits
<1>12. PodFits(sb, PodOf(u), Tunnels(u), l)
  BY <1>2, <1>7, <1>8 DEF Fits, PodFits
<1>13. PortMoves(PortOf(sandboxes[u], calls[c]), PortOf(sb, l))
  BY <1>1, <1>5, <1>7 DEF PortMoves, PortOf, Fresh
<1> QED
  BY <1>1, <1>3, <1>4, <1>7, <1>10, <1>11, <1>12, <1>13, TidilyInside DEF Fits, Passive

\* A call that begins to work, where none was at work.
LEMMA BeginTidy ==
    ASSUME SerialInv, Apart', Tidy, NEW c \in Calls, NEW u \in Users, Begin(c, u),
           calls'[c].pc \notin Passive
    PROVE  Tidily(c, u)
<1>0. calls[c].pc = "idle" /\ Solo(c, u) /\ TypeOK
  BY BeginShape, BeginOwed DEF SerialInv
<1>1. Fits(sandboxes[u], rows[u], PodOf(u), Tunnels(u), Idle)
  <2>1. \A d \in Calls : ~AtWork(d, u)
    BY <1>0 DEF AtWork, Solo, Passive
  <2> QED
    BY <2>1 DEF Tidy, UserTidy
<1>2. PICK l : l = calls'[c]
  OBVIOUS
<1>3. sandboxes[u].phase \in {"absent", "ready"}
  BY <1>0, <1>1, IdlePC DEF Fits, CacheFits, TypeOK, State
<1>4. UNCHANGED <<allocatedPorts, rows, shell>>
  BY DEF Begin, JoinEnsure, StartEnsure, SuspendSandbox, DestroySandbox, HealthCheck, RefreshPortForward,
     memory
<1>5. /\ \/ l.pc = "getByUserId" /\ sandboxes[u].phase = "absent" /\ UNCHANGED sandboxes
         \/ /\ l.pc \in {"destroy.forwardStop", "destroy.lookup", "refresh.get"}
            /\ UNCHANGED sandboxes
         \/ /\ l.pc = "suspend.setStatus" /\ sandboxes[u].phase = "ready"
            /\ sandboxes' = [sandboxes EXCEPT ![u].phase = "suspended"]
  <2>1. CASE StartEnsure(c, u)
    BY <1>0, <1>2, <1>3, <2>1 DEF StartEnsure, Call, TypeOK, CallsOK
  <2>2. CASE SuspendSandbox(c, u)
    BY <1>0, <1>2, <2>2 DEF SuspendSandbox, Call, TypeOK, CallsOK
  <2>3. CASE DestroySandbox(c, u)
    BY <1>0, <1>2, <2>3 DEF DestroySandbox, Call, TypeOK, CallsOK, memory
  <2>4. ~HealthCheck(c, u) /\ ~JoinEnsure(c, u)
    BY <1>0 DEF HealthCheck, JoinEnsure, Call, TypeOK, CallsOK, Passive
  <2>5. CASE RefreshPortForward(c, u)
    BY <1>0, <1>2, <2>5 DEF RefreshPortForward, Call, TypeOK, CallsOK, memory
  <2> QED
    BY <2>1, <2>2, <2>3, <2>4, <2>5 DEF Begin
<1>6. CASE l.pc # "suspend.setStatus"
  <2>1. CacheFits(sandboxes[u], l)
    BY <1>1, <1>3, <1>5, <1>6 DEF Fits, CacheFits, EnsureAwaits
  <2>2. RowFits(sandboxes[u], rows[u], PodOf(u), l)
    BY <1>1, IdlePC DEF Fits, RowFits
  <2>3. PodFits(sandboxes[u], PodOf(u), Tunnels(u), l)
    BY <1>1, <1>5, <1>6, IdlePC, IdleAway DEF Fits, PodFits, Fresh, Cut
  <2>4. PortMoves(PortOf(sandboxes[u], calls[c]), PortOf(sandboxes[u], l))
    BY <1>0, <1>4, <1>5 DEF PortMoves, PortOf, Fresh
  <2> QED
    BY <1>2, <1>4, <1>5, <1>6, <2>1, <2>2, <2>3, <2>4, TidilyInside DEF Fits
<1>7. CASE l.pc = "suspend.setStatus"
  <2>1. PICK sb : sb = sandboxes'[u]
    OBVIOUS
  <2>2. sb.phase = "suspended" /\ sb.port = sandboxes[u].port
    BY <1>0, <1>5, <1>7, <2>1 DEF TypeOK, State
  <2>3. CacheFits(sb, l)
    BY <1>7, <2>2 DEF CacheFits, EnsureAwaits
  <2>4. RowFits(sb, rows[u], PodOf(u), l)
    BY <1>1, <2>2, IdlePC DEF Fits, RowFits
  <2>5. PodFits(sb, PodOf(u), Tunnels(u), l)
    BY <1>1, <1>7, <2>2, IdlePC, IdleAway DEF Fits, PodFits, Fresh, Cut
  <2>6. PortMoves(PortOf(sandboxes[u], calls[c]), PortOf(sb, l))
    BY <1>0, <1>4, <1>7, <2>2 DEF PortMoves, PortOf, Fresh
  <2> QED
    BY <1>2, <1>4, <1>7, <2>1, <2>3, <2>4, <2>5, <2>6, TidilyInside DEF Fits
<1> QED
  BY <1>6, <1>7

\* A step of call c for u.
LEMMA TidyCallStep ==
    ASSUME SerialInv, Tidy, NEW c \in Calls, NEW u \in Users, calls[c].user = u \/ calls[c].pc = "idle",
           Solo(c, u), StepOf(c, u), Tidily(c, u)
    PROVE  (\A v \in Users : UserTidy(v)') /\ PortsTidy'
<1>1. \A v \in Users \ {u} : UserTidy(v)'
  BY TidyAside DEF Tidy, Tidily
<1>2. UserTidy(u)'
  BY TidyAfter
<1>3. PortsTidy'
  BY PortsAfter DEF Tidy
<1> QED
  BY <1>1, <1>2, <1>3

\* A step of the outside world that touches only the pod of u.
LEMMA TidyPodStep ==
    ASSUME SerialInv, Tidy, NEW u \in Users, UNCHANGED <<memory, rows, calls>>, ShellOf(u),
           \A c \in Calls :
             AtWork(c, u) => Fits(sandboxes[u], rows[u], PodOf(u)', Tunnels(u)', calls[c]),
           (\A c \in Calls : ~AtWork(c, u)) => Fits(sandboxes[u], rows[u], PodOf(u)', Tunnels(u)', Idle)
    PROVE  (\A v \in Users : UserTidy(v)') /\ PortsTidy'
<1>1. UNCHANGED <<sandboxes, allocatedPorts>>
  BY DEF memory
<1>2. \A v \in Users, c \in Calls : AtWork(c, v)' <=> AtWork(c, v)
  BY DEF AtWork
<1>3. ASSUME NEW v \in Users \ {u}
      PROVE  UserTidy(v)'
  <2>1. PodOf(v)' = PodOf(v) /\ Tunnels(v)' = Tunnels(v)
    BY PodAside
  <2> QED
    BY <1>1, <1>2, <2>1 DEF Tidy, UserTidy
<1>4. UserTidy(u)'
  BY <1>1, <1>2 DEF UserTidy
<1>5. PortsTidy'
  BY <1>1 DEF Tidy, PortsTidy, Holds
<1> QED
  BY <1>3, <1>4, <1>5

LEMMA TidyPodReady ==
    ASSUME SerialInv, Tidy, NEW n \in Names, PodReady(n)
    PROVE  (\A v \in Users : UserTidy(v)') /\ PortsTidy'
<1>0. PICK u \in Users : u = n[1]
  BY DEF Names
<1>1. /\ pods[n].phase = "provisioning" /\ UNCHANGED <<memory, rows, calls>> /\ TypeOK
      /\ pods' = [pods EXCEPT ![n].phase = "ready"]
  BY DEF PodReady, SerialInv
<1>2. rows[u].name = n /\ PodOf(u) = pods[n]
  BY <1>0, <1>1, NoneFree DEF Tidy, AllNamed, PodNamed, PodOf
<1>3. PICK c \in Calls : AtWork(c, u)
  BY <1>1, <1>2, IdlePC DEF Tidy, UserTidy, Fits, PodFits
<1>4. /\ Fits(sandboxes[u], rows[u], PodOf(u), Tunnels(u), calls[c])
      /\ calls[c].pc = "createPod" /\ pods[n].port = calls[c].port /\ pods[n].cli
  BY <1>1, <1>2, <1>3 DEF Tidy, UserTidy, Fits, PodFits
<1>5. PICK p \in Ports : p = calls[c].port
  BY <1>1, <1>3, <1>4 DEF SerialInv, Rooted, RootedCall, Ported, AtWork, TypeOK, CallsOK, Frame
<1>6. Holds(u, p)
  BY <1>3, <1>4, <1>5 DEF Holds, AtWork, Fresh
<1>7. Tunnels(u) = {}
  BY <1>1, <1>2, <1>4 DEF Fits, PodFits
<1>8. forwards[p] = None
  BY <1>2, <1>6, <1>7, PortLeads, NoneFree DEF Tunnels
<1>9. forwards' = [forwards EXCEPT ![p] = n]
  BY <1>4, <1>5, <1>8 DEF PodReady
<1>10. PodOf(u)' = [pods[n] EXCEPT !.phase = "ready"]
  BY <1>1, <1>2, NoneFree DEF PodOf, TypeOK
<1>11. Tunnels(u)' = {p}
  BY <1>1, <1>2, <1>7, <1>9, NoneFree DEF Tunnels, TypeOK
<1>12. ShellOf(u)
  BY <1>0, <1>1, <1>8, <1>9, NoneFree DEF ShellOf, TypeOK
<1>13. \A d \in Calls : AtWork(d, u) => d = c
  BY <1>3, <1>4, Alone DEF AtWork, Solo, EnsureAwaits
<1>14. Fits(sandboxes[u], rows[u], PodOf(u)', Tunnels(u)', calls[c])
  <2>1. PodOf(u)'.phase = "ready" /\ PodOf(u)'.port = p
    BY <1>1, <1>4, <1>5, <1>10 DEF TypeOK, Pod
  <2>2. RowFits(sandboxes[u], rows[u], PodOf(u)', calls[c])
    BY <1>1, <1>2, <1>4 DEF Fits, RowFits
  <2>3. PodFits(sandboxes[u], PodOf(u)', Tunnels(u)', calls[c])
    BY <1>4, <1>5, <1>11, <2>1 DEF PodFits, Fresh
  <2> QED
    BY <1>4, <2>2, <2>3 DEF Fits
<1> QED
  BY <1>1, <1>3, <1>12, <1>13, <1>14, TidyPodStep

LEMMA TidyPodDies ==
    ASSUME SerialInv, Tidy, NEW n \in Names, PodDies(n)
    PROVE  (\A v \in Users : UserTidy(v)') /\ PortsTidy'
<1>0. PICK u \in Users : u = n[1]
  BY DEF Names
<1>1. /\ pods[n].phase \in {"provisioning", "ready"} /\ UNCHANGED <<memory, rows, calls>> /\ TypeOK
      /\ pods' = [pods EXCEPT ![n].phase = "error"] /\ forwards' = ForwardsWithout(n)
  BY DEF PodDies, SerialInv
<1>2. rows[u].name = n /\ PodOf(u) = pods[n]
  BY <1>0, <1>1, NoneFree DEF Tidy, AllNamed, PodNamed, PodOf
<1>3. PodOf(u)'.phase = "error"
  BY <1>1, <1>2, NoneFree DEF PodOf, TypeOK, Pod
<1>4. Tunnels(u)' = {} /\ ShellOf(u)
  BY <1>0, <1>1, <1>2, NoneFree DEF Tunnels, ForwardsWithout, ShellOf, TypeOK
<1>5. ASSUME NEW k, Fits(sandboxes[u], rows[u], PodOf(u), Tunnels(u), k)
      PROVE  Fits(sandboxes[u], rows[u], PodOf(u)', Tunnels(u)', k)
  <2>1. RowFits(sandboxes[u], rows[u], PodOf(u)', k)
    BY <1>1, <1>2, <1>5 DEF Fits, RowFits
  <2>2. PodFits(sandboxes[u], PodOf(u)', Tunnels(u)', k)
    BY <1>1, <1>2, <1>3, <1>4, <1>5 DEF Fits, PodFits
  <2> QED
    BY <1>5, <2>1, <2>2 DEF Fits
<1>6. /\ \A c \in Calls :
           AtWork(c, u) => Fits(sandboxes[u], rows[u], PodOf(u)', Tunnels(u)', calls[c])
      /\ (\A c \in Calls : ~AtWork(c, u)) => Fits(sandboxes[u], rows[u], PodOf(u)', Tunnels(u)', Idle)
  BY <1>5 DEF Tidy, UserTidy
<1> QED
  BY <1>1, <1>4, <1>6, TidyPodStep

\* A call that does nothing for its user, before and after the step.
LEMMA TidyPassive ==
    ASSUME Tidy, NEW c \in Calls, calls[c].pc \in Passive, calls'[c].pc \in Passive, OthersStay(c),
           UNCHANGED <<memory, rows, shell>>, UNCHANGED <<sandboxes, allocatedPorts>>
    PROVE  (\A v \in Users : UserTidy(v)') /\ PortsTidy'
<1>2. \A v \in Users : PodOf(v)' = PodOf(v) /\ Tunnels(v)' = Tunnels(v)
  BY ShellStays
<1>3. \A v \in Users, d \in Calls : AtWork(d, v)' <=> AtWork(d, v)
  BY DEF AtWork, OthersStay
<1>4. \A v \in Users, d \in Calls : AtWork(d, v) => calls'[d] = calls[d]
  BY DEF AtWork, OthersStay
<1>5. \A v \in Users : UserTidy(v)'
  BY <1>2, <1>3, <1>4 DEF Tidy, UserTidy
<1>6. \A v \in Users, p \in Ports : Holds(v, p)' <=> Holds(v, p)
  BY DEF Holds, OthersStay, Fresh, Passive
<1>7. PortsTidy'
  BY <1>6 DEF Tidy, PortsTidy
<1> QED
  BY <1>5, <1>7

LEMMA UntroubledBefore == TypeOK /\ [Next]_vars /\ Untroubled' /\ crossed = {} => Untroubled
<1> SUFFICES ASSUME TypeOK, [Next]_vars, Untroubled', crossed = {}
             PROVE  Untroubled
  OBVIOUS
<1>1. ~Restart /\ \A k : ~Fault(k)
  BY NeverRestarted, NoFault
<1>2. Works => Untroubled
  BY DEF Works, bounds, Untroubled
<1>3. ASSUME NEW c \in Calls, EnsureStep(c)
      PROVE  Works
  BY <1>1, <1>3 DEF EnsureStep, GetByUserId, InsertRow, GetPod, EnsureDeletePod, SetWaiting, WaitReady,
     ForwardStart, SetReattached, SetProvisioning, CreatePod, WaitForHealthy, SetReady, SetMetadata,
     FailAfterCache, SetError, EnsureRejects
<1>4. ASSUME NEW c \in Calls, OtherStep(c)
      PROVE  Works
  BY <1>1, <1>4 DEF OtherStep, SuspendSetStatus, SuspendDelete, DestroyLookup, DestroyDelete,
     DestroyDeleteRow, HealthResult, HealthSetStatus, RefreshGet, RefreshForwardStart, ForwardStop,
     OtherRejects
<1>5. ASSUME NEW c \in Calls, NEW u \in Users, Begin(c, u)
      PROVE  Works
  BY <1>5 DEF Begin, JoinEnsure, StartEnsure, SuspendSandbox, DestroySandbox, HealthCheck,
     RefreshPortForward
<1>6. ASSUME NEW n \in Names, PodReady(n) \/ PodDies(n)
      PROVE  Works
  BY <1>6 DEF PodReady, PodDies
<1>7. ASSUME NEW p \in Ports, ForwardDies(p)
      PROVE  Works
  BY <1>1, <1>7 DEF ForwardDies
<1>8. UNCHANGED vars => Works
  BY DEF vars, Works
<1> QED
  BY <1>1, <1>2, <1>3, <1>4, <1>5, <1>6, <1>7, <1>8 DEF Next

\* A destruction meets a creation, or is in vain, only once calls have crossed or something
\* has failed.
LEMMA NotAbandoned ==
    ASSUME Untroubled, Untroubled', abandoned = {}, Apart', [HistoryNext]_<<vars, history>>
    PROVE  abandoned' = {}
<1>1. \A u \in Users : ~Leaves(u)
  BY DEF Untroubled, Leaves
<1>2. ASSUME NEW u \in Users, Contested(u)'
      PROVE  FALSE
  <2>1. PICK c \in Calls, d \in Calls :
           /\ calls'[c].user = u /\ calls'[d].user = u
           /\ calls'[c].pc \in {"destroy.lookup", "destroy.forwardStop", "destroy.delete",
                                "destroy.deleteRow"}
           /\ calls'[d].pc \in EnsureAwaits
    BY <1>2 DEF Contested
  <2>2. calls'[c].pc \in Unlocked /\ c # d /\ calls'[d].pc # "health.check"
    BY <2>1 DEF Unlocked, OtherAwaits, EnsureAwaits
  <2> QED
    BY <2>1, <2>2 DEF Apart, Together
<1> QED
  BY <1>1, <1>2 DEF HistoryNext, Record, history

LEMMA TidyNext ==
    ASSUME SerialInv, SerialInv', Tidy, Untroubled', [Next]_vars
    PROVE  (\A v \in Users : UserTidy(v)') /\ PortsTidy'
<1>0. TypeOK /\ Apart'
  BY DEF SerialInv
<1>1. ASSUME NEW c \in Calls, EnsureStep(c) \/ OtherStep(c), calls[c].pc \in EnsureAwaits \cup Unlocked
      PROVE  (\A v \in Users : UserTidy(v)') /\ PortsTidy'
  <2>1. PICK u \in Users : u = calls[c].user
    BY <1>1, Alone
  <2>2. calls[c].pc \in Unlocked \/ EnsureStep(c)
    BY <1>0, <1>1, OtherShape, AwaitsDisjoint
  <2>3. Solo(c, u) /\ StepOf(c, u) /\ Tidily(c, u)
    BY <1>0, <1>1, <2>1, <2>2, Alone, EnsureOwed, OtherOwed, EnsureTidy, OtherTidy
  <2> QED
    BY <2>1, <2>3, TidyCallStep
<1>2. ASSUME NEW c \in Calls, HealthResult(c)
      PROVE  (\A v \in Users : UserTidy(v)') /\ PortsTidy'
  <2>1. PICK u \in Users : u = calls[c].user
    BY <1>0, <1>2 DEF HealthResult, TypeOK, CallsOK
  <2>2. CASE calls'[c].pc \notin Passive
    BY <1>0, <1>2, <2>1, <2>2, ProbeOwed, ProbeTidy, TidyCallStep
  <2>3. CASE calls'[c].pc \in Passive
    BY <1>0, <1>2, <2>3, PassiveBegin, TidyPassive
  <2> QED
    BY <2>2, <2>3
<1>3. ASSUME NEW c \in Calls, EnsureStep(c) \/ OtherStep(c)
      PROVE  calls[c].pc \in EnsureAwaits \cup Unlocked \/ HealthResult(c)
  BY <1>0, <1>3, AtWorkOrProbe
<1>4. ASSUME NEW c \in Calls, EnsureStep(c) \/ OtherStep(c)
      PROVE  (\A v \in Users : UserTidy(v)') /\ PortsTidy'
  BY <1>1, <1>2, <1>3, <1>4
<1>5. ASSUME NEW c \in Calls, NEW u \in Users, Begin(c, u)
      PROVE  (\A v \in Users : UserTidy(v)') /\ PortsTidy'
  <2>1. CASE calls'[c].pc \in Passive
    BY <1>0, <1>5, <2>1, PassiveBegin, TidyPassive
  <2>2. CASE calls'[c].pc \notin Passive
    BY <1>0, <1>5, <2>2, BeginShape, BeginOwed, BeginTidy, TidyCallStep
  <2> QED
    BY <2>1, <2>2
<1>6. ASSUME NEW n \in Names, PodReady(n) \/ PodDies(n)
      PROVE  (\A v \in Users : UserTidy(v)') /\ PortsTidy'
  BY <1>6, TidyPodReady, TidyPodDies
<1>7. ASSUME UNCHANGED vars
      PROVE  (\A v \in Users : UserTidy(v)') /\ PortsTidy'
  <2>1. UNCHANGED <<memory, sandboxes, allocatedPorts, rows, shell, calls>>
    BY <1>7 DEF vars, memory
  <2>2. \A v \in Users : PodOf(v)' = PodOf(v) /\ Tunnels(v)' = Tunnels(v)
    BY <2>1, ShellStays
  <2> QED
    BY <2>1, <2>2 DEF Tidy, UserTidy, AtWork, PortsTidy, Holds
<1>8. ~Restart /\ \A p \in Ports : ~ForwardDies(p)
  BY <1>0, NeverRestarted, NoFault DEF ForwardDies
<1> QED
  BY <1>4, <1>5, <1>6, <1>7, <1>8 DEF Next

LEMMA TidyStep == TidyInv /\ [HistoryNext]_<<vars, history>> => TidyInv'
<1> SUFFICES ASSUME TidyInv, [HistoryNext]_<<vars, history>>
             PROVE  TidyInv'
  OBVIOUS
<1>0. BaseInv /\ TypeOK /\ [Next]_vars
  BY DEF TidyInv, BaseInv, HistoryNext, history
<1>1. BaseInv' /\ OwnNames' /\ PodInv' /\ Tunnelled'
  BY <1>0, PodNext, TunnelStep DEF TidyInv
<1>2. ASSUME crossed' = {}
      PROVE  crossed = {} /\ SerialInv /\ SerialInv'
  <2>1. crossed = {}
    BY <1>2 DEF HistoryNext, Record, history
  <2>2. SerialInv
    BY <1>0, <2>1 DEF TidyInv, BaseInv, SerialInv
  <2>3. CASE HistoryNext
    <3>1. Apart'
      BY <1>2, <2>3 DEF HistoryNext, Record, Apart
    <3> QED
      BY <1>0, <2>1, <2>2, <3>1, SerialStep
  <2>4. CASE UNCHANGED <<vars, history>>
    <3>1. Apart'
      BY <2>2, <2>4 DEF SerialInv, Apart, Together, LateProbe, vars, memory
    <3> QED
      BY <1>0, <2>1, <2>2, <3>1, SerialStep
  <2> QED
    BY <2>3, <2>4
<1>3. ASSUME Untroubled'
      PROVE  Tidy' /\ abandoned' = {}
  <2>1. crossed = {} /\ SerialInv /\ SerialInv'
    BY <1>2, <1>3 DEF Untroubled
  <2>2. Untroubled
    BY <1>0, <1>3, <2>1, UntroubledBefore
  <2>3. Tidy /\ abandoned = {}
    BY <2>2 DEF TidyInv
  <2>4. abandoned' = {}
    BY <1>3, <2>1, <2>2, <2>3, NotAbandoned DEF SerialInv
  <2>5. AllNamed'
    BY <1>1, <2>4 DEF AllNamed, PodInv
  <2> QED
    BY <1>0, <1>1, <1>3, <2>1, <2>3, <2>4, <2>5, TidyNext DEF Tidy
<1> QED
  BY <1>1, <1>2, <1>3 DEF TidyInv, SerialInv

LEMMA TidyInit == HistoryInit => TidyInv
<1> SUFFICES ASSUME HistoryInit
             PROVE  TidyInv
  OBVIOUS
<1>0. Init /\ abandoned = {} /\ BaseInv /\ OwnNames /\ PodInv /\ SerialInv
  BY PodInit, SerialInit DEF HistoryInit
<1>1. \A u \in Users : /\ sandboxes[u] = NoSandbox /\ rows[u] = NoRow
                        /\ PodOf(u) = NoPod /\ Tunnels(u) = {}
  BY <1>0 DEF Init, PodOf, Tunnels, NoRow
<1>2. \A c \in Calls : calls[c] = Idle
  BY <1>0 DEF Init
<1>3. Fits(NoSandbox, NoRow, NoPod, {}, Idle)
  <2>1. CacheFits(NoSandbox, Idle)
    BY IdlePC DEF CacheFits, NoSandbox, EnsureAwaits
  <2>2. RowFits(NoSandbox, NoRow, NoPod, Idle) /\ PodFits(NoSandbox, NoPod, {}, Idle)
    BY IdlePC DEF RowFits, PodFits, NoSandbox, NoRow, NoPod
  <2> QED
    BY <2>1, <2>2 DEF Fits
<1>4. \A u \in Users : UserTidy(u)
  BY <1>1, <1>2, <1>3, IdlePC DEF UserTidy, AtWork
<1>5. PortsTidy
  BY <1>0, <1>1, <1>2, IdleAway, NoneFree DEF Init, PortsTidy, Holds
<1>6. Tunnelled
  BY <1>0 DEF Init, Tunnelled
<1>7. AllNamed
  BY <1>0 DEF AllNamed, PodInv
<1> QED
  BY <1>0, <1>4, <1>5, <1>6, <1>7 DEF TidyInv, Tidy, SerialInv

LEMMA TidyAlways == HistorySpec => []TidyInv
  BY TidyInit, TidyStep, PTL DEF HistorySpec

LEMMA TidySerial == TidyInv /\ Untroubled => Tidy /\ SerialInv /\ TypeOK
  BY DEF TidyInv, Untroubled, BaseInv, SerialInv

\* Until calls cross or something fails, the ports handed out are those of cached states and
\* of calls at work, one user each (sandbox-manager.ts:709-740): none leaks, none is given
\* twice.
THEOREM PortAccountingCorrect == HistorySpec => []PortAccounting
<1>1. ASSUME TidyInv, Untroubled
      PROVE  allocatedPorts = PortHolders \ {None}
  <2>1. Tidy /\ SerialInv /\ TypeOK
    BY <1>1, TidySerial
  <2>2. ASSUME NEW p \in allocatedPorts
        PROVE  p \in PortHolders \ {None}
    <3>1. p \in Ports /\ p # None
      BY <2>1, <2>2, NoneFree DEF TypeOK
    <3>2. PICK u \in Users : Holds(u, p)
      BY <2>1, <2>2, <3>1 DEF Tidy, PortsTidy
    <3> QED
      BY <3>1, <3>2 DEF Holds, PortHolders, Fresh
  <2>3. ASSUME NEW p \in PortHolders, p # None
        PROVE  p \in allocatedPorts
    <3>1. SUFFICES \E u \in Users : Holds(u, p) /\ p \in Ports
      BY <2>1 DEF Tidy, PortsTidy
    <3>2. ASSUME NEW u \in Users, p = sandboxes[u].port
          PROVE  Holds(u, p) /\ p \in Ports
      BY <2>1, <2>3, <3>2 DEF Holds, TypeOK, State
    <3>3. ASSUME NEW c \in Calls, p = calls[c].port,
                 calls[c].pc \in Ported \cup {"setReattached"} \cup Unlocked
          PROVE  \E u \in Users : Holds(u, p) /\ p \in Ports
      <4>1. calls[c].pc \in EnsureAwaits \cup Unlocked
        BY <3>3 DEF Ported, EnsureAwaits
      <4>2. PICK u \in Users : u = calls[c].user
        BY <2>1, <4>1, Alone
      <4>3. AtWork(c, u)
        BY <4>1, <4>2, Working DEF AtWork
      <4>4. /\ Fits(sandboxes[u], rows[u], PodOf(u), Tunnels(u), calls[c])
            /\ RootedCall(calls[c], sandboxes[u], rows[u])
        BY <2>1, <4>2, <4>3 DEF Tidy, UserTidy, SerialInv, Rooted, AtWork, Passive
      <4>5. p \in Ports
        BY <2>1, <2>3, <3>3 DEF TypeOK, CallsOK, Frame
      <4>6. CASE calls[c].pc \in Fresh
        BY <3>3, <4>2, <4>5, <4>6 DEF Holds
      <4>7. CASE calls[c].pc \in {"setReady", "setMetadata"}
        BY <3>3, <4>4, <4>5, <4>7 DEF Holds, Fits, CacheFits, EnsureAwaits
      <4>8. CASE calls[c].pc \in Unlocked
        BY <2>3, <3>3, <4>4, <4>5, <4>8 DEF Holds, RootedCall
      <4>9. calls[c].pc \notin {"forwardStart", "setReattached"}
        BY <4>4 DEF Fits, CacheFits
      <4> QED
        BY <3>3, <4>6, <4>7, <4>8, <4>9 DEF Ported, Fresh
    <3> QED
      BY <2>3, <3>2, <3>3 DEF PortHolders, Ported
  <2> QED
    BY <2>2, <2>3
<1>2. TidyInv => PortAccounting
  BY <1>1 DEF PortAccounting
<1> QED
  BY <1>2, TidyAlways, PTL

\* Until calls cross or something fails, the client that getHttpClient gives a user reaches
\* the user's own sandbox or nobody (sandbox-manager.ts:709-713).
THEOREM ClientReachesCorrect == HistorySpec => []ClientReachesOwner
<1>1. ASSUME TidyInv, Untroubled, NEW u \in Users, sandboxes[u].phase = "ready"
      PROVE  forwards[sandboxes[u].port] \in {None, sandboxes[u].name}
  <2>1. Tidy /\ SerialInv /\ TypeOK
    BY <1>1, TidySerial
  <2>2. RootedUser(u)
    BY <2>1 DEF SerialInv, Rooted
  <2>3. PICK p \in Ports : p = sandboxes[u].port
    BY <1>1, <2>1, <2>2 DEF RootedUser, TypeOK, State
  <2> QED
    BY <1>1, <2>1, <2>2, <2>3, PortLeads DEF Holds, RootedUser
<1>2. TidyInv => ClientReachesOwner
  BY <1>1 DEF ClientReachesOwner, RoutedToOwner
<1> QED
  BY <1>2, TidyAlways, PTL

\* Until calls cross or something fails, a user whom no call works for has a row that tells
\* the truth about the cache and the pod (sandbox-manager.ts:389-459, 552-637).
THEOREM RowCorrect == HistorySpec => []RowTellsTruth
<1>1. ASSUME TidyInv, Untroubled, NEW u \in Users, Quiet(u)
      PROVE  /\ sandboxes[u].phase = "ready" =>
                  rows[u] = [status |-> "ready", name |-> sandboxes[u].name,
                             agentPort |-> sandboxes[u].port]
             /\ rows[u].status \in {"suspended", "error"} => sandboxes[u] = NoSandbox
             /\ rows[u].status = "suspended" => pods[rows[u].name].phase = "absent"
  <2>1. Tidy /\ SerialInv /\ TypeOK
    BY <1>1, TidySerial
  <2>2. RootedUser(u) /\ RowNamed
    BY <2>1 DEF SerialInv, Rooted, LineageInv
  <2>3. Fits(sandboxes[u], rows[u], PodOf(u), Tunnels(u), Idle)
    BY <1>1, <2>1 DEF Quiet, Tidy, UserTidy, AtWork, Passive
  <2>4. sandboxes[u].phase \in {"absent", "ready"}
    BY <2>1, <2>3, IdlePC DEF Fits, CacheFits, TypeOK, State
  <2>5. ASSUME sandboxes[u].phase = "ready"
        PROVE  rows[u] = [status |-> "ready", name |-> sandboxes[u].name,
                          agentPort |-> sandboxes[u].port]
    <3>1. /\ rows[u].status = "ready" /\ rows[u].agentPort = sandboxes[u].port
          /\ rows[u].name = sandboxes[u].name
      BY <2>2, <2>3, <2>5, IdlePC DEF Fits, RowFits, RootedUser
    <3>2. rows[u] = [status |-> rows[u].status, name |-> rows[u].name, agentPort |-> rows[u].agentPort]
      BY <2>1 DEF TypeOK, Row
    <3> QED
      BY <3>1, <3>2
  <2>6. rows[u].status \in {"suspended", "error"} => sandboxes[u] = NoSandbox
    BY <2>3, <2>4, IdlePC DEF Fits, CacheFits, RowFits
  <2>7. ASSUME rows[u].status = "suspended"
        PROVE  pods[rows[u].name].phase = "absent"
    <3>1. rows[u].name # None
      BY <2>2, <2>7 DEF RowNamed
    <3> QED
      BY <2>3, <2>7, <3>1, IdlePC DEF Fits, RowFits, PodOf
  <2> QED
    BY <2>5, <2>6, <2>7
<1>2. TidyInv => RowTellsTruth
  BY <1>1 DEF RowTellsTruth
<1> QED
  BY <1>2, TidyAlways, PTL
=============================================================================
