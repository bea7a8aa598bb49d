----------------------- MODULE GatewaySessionsProofs -----------------------
(***************************************************************************)
(* Theorems about GatewaySessions for every number of sessions, calls and  *)
(* subscribers.  The invariant has one part per device: the chain of       *)
(* promises, the directory that is linked once per id, and the numbers by  *)
(* which states and emitters are told apart.                               *)
(***************************************************************************)
EXTENDS MCGateway, FiniteSetTheorems, TLAPS

Request == [pc: {"idle", "config", "lock", "integrations", "orchestrator", "upload", "stream"},
         op: {"none", "create", "send"}, session: Store!Ids, lock: Store!Locks,
         state: 0..MaxObjects, emitter: 0..MaxObjects]

Sub == [pc: {"off", "running", "held", "awaiting"}, session: Store!Ids, state: 0..MaxObjects,
        emitter: 0..MaxObjects, queue: 0..MaxEvents, aborted: BOOLEAN]

\* A creation between its place in the chain and its agent, and between its directory
\* and its agent.
Building(c) == requests[c].pc \in {"lock", "integrations"}
Making(c)   == Building(c) \/ requests[c].pc = "config"

\* Calls and subscriptions in progress are of a session.
Shape ==
    /\ \A c \in Calls : requests[c].pc # "idle" => requests[c].session \in Chats
    /\ \A u \in Subs : subs[u].pc # "off" => subs[u].session \in Chats

\* What a call or a subscription that holds a state knows of it: its number was given,
\* and who holds the state the session has now holds the session's emitter too.
CallHolds(k) ==
    /\ k.pc \in {"upload", "stream"} => k.state \in 1..objects
    /\ k.pc = "stream" /\ k.state = sessions[k.session]
         => k.emitter = emitters[k.session] /\ k.emitter # 0
SubHolds(k) ==
    /\ k.pc # "off" => k.state \in 1..objects
    /\ k.pc # "off" /\ k.state = sessions[k.session]
         => k.emitter = emitters[k.session] /\ k.emitter # 0

Held == /\ \A s \in Chats : sessions[s] <= objects
        /\ \A c \in Calls : CallHolds(requests[c])
        /\ \A u \in Subs : SubHolds(subs[u])

\* Promises are resolved in the order of the chain, and only their creation's own end
\* resolves one.
Chain ==
    /\ \A n \in resolved : n <= initLock /\ 0..n \subseteq resolved
    /\ \A n \in timers : n \in (1..initLock) \ resolved /\ n - 1 \in resolved
    /\ \A c \in Calls : Building(c) => requests[c].lock \in (1..initLock) \ (resolved \cup timers)
    /\ \A c \in Calls : requests[c].pc = "integrations" => requests[c].lock - 1 \in resolved
    /\ \A c, d \in Calls :
          Building(c) /\ Building(d) /\ requests[c].lock = requests[d].lock => c = d

\* An id whose directory is not linked has no creation and no agent; one that is being
\* created has one creation and no agent yet.
Once ==
    /\ \A s \in Chats : agents[s] <= 1
    /\ \A s \in Chats \ begun :
          agents[s] = 0 /\ \A c \in Calls : Making(c) => requests[c].session # s
    /\ \A c \in Calls : Making(c) => agents[requests[c].session] = 0
    /\ \A c, d \in Calls :
          Making(c) /\ Making(d) /\ requests[c].session = requests[d].session => c = d

\* Every promise of the chain is of a linked directory of its own, and the creations that
\* still read their configuration have none yet.
Placed(P) ==
    /\ P \subseteq begun /\ initLock = Cardinality(P)
    /\ \A c \in Calls : requests[c].pc = "config" => requests[c].session \notin P
Counted == \E P \in SUBSET Chats : Placed(P)

SessionsInv == /\ Store!TypeOK /\ Shape /\ Held /\ Chain /\ Once /\ Counted
               /\ Store!SubscriberAwake

-----------------------------------------------------------------------------
(* Lemmas about the records *)

\* The cardinality GatewaySessions sees through its instance is the usual one.
LEMMA SameCardinality == ASSUME NEW S PROVE Store!Cardinality(S) = Cardinality(S)
BY DEF Store!Cardinality, Cardinality

LEMMA LocksFacts == Store!Locks \subseteq Nat /\ 0 \in Store!Locks /\ Cardinality(Chats) \in Nat
BY ChatsAssumption, SameCardinality, FS_CardinalityType DEF Store!Locks

LEMMA IdleCall == Store!Idle \in Request /\ Store!Idle.pc = "idle"
BY ChatsAssumption, LocksFacts DEF Store!Idle, Request, Store!Ids

LEMMA OffSub == Store!Off \in Sub /\ Store!Off.pc = "off" /\ Store!Off.queue = 0 /\ Store!Off.aborted = FALSE
BY ChatsAssumption DEF Store!Off, Sub, Store!Ids

\* The records that createSession, sendMessage and subscribe start a step with.
AtConfig(s, op) == [Store!Idle EXCEPT !.pc = "config", !.op = op, !.session = s]
AtOrchestrator(s, op) == [Store!Idle EXCEPT !.pc = "orchestrator", !.op = op, !.session = s]
AtUpload(s, st) == [Store!Idle EXCEPT !.pc = "upload", !.op = "send", !.session = s, !.state = st]
AtStream(s, st, e) ==
    [Store!Idle EXCEPT !.pc = "stream", !.op = "send", !.session = s, !.state = st, !.emitter = e]
AtRunning(s, st, e) ==
    [Store!Off EXCEPT !.pc = "running", !.session = s, !.state = st, !.emitter = e]

LEMMA ConfigRecord ==
    ASSUME NEW s \in Chats, NEW op \in {"create", "send"}
    PROVE  LET k == AtConfig(s, op)
           IN  k \in Request /\ k.pc = "config" /\ k.session = s
<1> DEFINE i == Store!Idle
<1>1. i \in Request /\ s \in Store!Ids
  BY IdleCall DEF Store!Ids
<1> HIDE DEF i
<1>2. LET k == [i EXCEPT !.pc = "config", !.op = op, !.session = s]
      IN  k \in Request /\ k.pc = "config" /\ k.session = s
  BY <1>1 DEF Request
<1> QED
  BY <1>2 DEF i, AtConfig

LEMMA OrchestratorRecord ==
    ASSUME NEW s \in Chats, NEW op \in {"create", "send"}
    PROVE  LET k == AtOrchestrator(s, op)
           IN  k \in Request /\ k.pc = "orchestrator" /\ k.session = s
<1> DEFINE i == Store!Idle
<1>1. i \in Request /\ s \in Store!Ids
  BY IdleCall DEF Store!Ids
<1> HIDE DEF i
<1>2. LET k == [i EXCEPT !.pc = "orchestrator", !.op = op, !.session = s]
      IN  k \in Request /\ k.pc = "orchestrator" /\ k.session = s
  BY <1>1 DEF Request
<1> QED
  BY <1>2 DEF i, AtOrchestrator

LEMMA UploadRecord ==
    ASSUME NEW s \in Chats, NEW st \in 0..MaxObjects
    PROVE  LET k == AtUpload(s, st)
           IN  k \in Request /\ k.pc = "upload" /\ k.session = s /\ k.state = st
<1> DEFINE i == Store!Idle
<1>1. i \in Request /\ s \in Store!Ids
  BY IdleCall DEF Store!Ids
<1> HIDE DEF i
<1>2. LET k == [i EXCEPT !.pc = "upload", !.op = "send", !.session = s, !.state = st]
      IN  k \in Request /\ k.pc = "upload" /\ k.session = s /\ k.state = st
  BY <1>1 DEF Request
<1> QED
  BY <1>2 DEF i, AtUpload

LEMMA StreamRecord ==
    ASSUME NEW s \in Chats, NEW st \in 0..MaxObjects, NEW e \in 0..MaxObjects
    PROVE  LET k == AtStream(s, st, e)
           IN  /\ k \in Request /\ k.pc = "stream" /\ k.session = s
               /\ k.state = st /\ k.emitter = e
<1> DEFINE i == Store!Idle
<1>1. i \in Request /\ s \in Store!Ids
  BY IdleCall DEF Store!Ids
<1> HIDE DEF i
<1>2. LET k == [i EXCEPT !.pc = "stream", !.op = "send", !.session = s,
                         !.state = st, !.emitter = e]
      IN  k \in Request /\ k.pc = "stream" /\ k.session = s /\ k.state = st /\ k.emitter = e
  BY <1>1 DEF Request
<1> QED
  BY <1>2 DEF i, AtStream

LEMMA RunningRecord ==
    ASSUME NEW s \in Chats, NEW st \in 0..MaxObjects, NEW e \in 0..MaxObjects
    PROVE  LET k == AtRunning(s, st, e)
           IN  k \in Sub /\ k.pc = "running" /\ k.session = s /\ k.state = st /\ k.emitter = e
<1> DEFINE i == Store!Off
<1>1. i \in Sub /\ s \in Store!Ids
  BY OffSub DEF Store!Ids
<1> HIDE DEF i
<1>2. LET k == [i EXCEPT !.pc = "running", !.session = s, !.state = st, !.emitter = e]
      IN  k \in Sub /\ k.pc = "running" /\ k.session = s /\ k.state = st /\ k.emitter = e
  BY <1>1 DEF Sub
<1> QED
  BY <1>2 DEF i, AtRunning

LEMMA SessionsInit == Store!Init => SessionsInv
<1> SUFFICES ASSUME Store!Init
             PROVE  SessionsInv
  OBVIOUS
<1>1. /\ \A c \in Calls : requests[c] = Store!Idle /\ requests[c].pc = "idle"
      /\ \A u \in Subs : subs[u] = Store!Off /\ subs[u].pc = "off"
      /\ requests \in [Calls -> Request] /\ subs \in [Subs -> Sub]
  BY IdleCall, OffSub DEF Store!Init
<1>2. Store!TypeOK
  <2>1. orchestrated \in BOOLEAN /\ failed \in BOOLEAN
    BY DEF Store!Init
  <2>2. /\ sessions \in [Chats -> 0..MaxObjects] /\ emitters \in [Chats -> 0..MaxObjects]
        /\ objects \in 0..MaxObjects /\ begun \subseteq Chats /\ agents \in [Chats -> Nat]
        /\ initLock \in Store!Locks /\ resolved \subseteq Store!Locks /\ timers \subseteq Store!Locks
    BY LocksFacts, ChatsAssumption DEF Store!Init
  <2> QED
    BY <1>1, <2>1, <2>2 DEF Store!TypeOK, Request, Sub
<1>3. Shape /\ Held /\ Once /\ Store!SubscriberAwake
  BY <1>1 DEF Store!Init, Shape, Held, CallHolds, SubHolds, Once, Making, Building, Store!SubscriberAwake
<1>4. Chain
  BY <1>1 DEF Store!Init, Chain, Building
<1>5. Counted
  <2>1. Placed({})
    BY <1>1, FS_EmptySet DEF Store!Init, Placed
  <2> QED
    BY <2>1 DEF Counted
<1> QED
  BY <1>2, <1>3, <1>4, <1>5 DEF SessionsInv

-----------------------------------------------------------------------------
(* What leaves the parts of the invariant alone *)

\* States and emitters that are held stay so when a session takes or loses a state, or
\* gets the emitter it lacked.
LEMMA HoldsOn ==
    ASSUME Store!TypeOK, objects' \in Nat, objects <= objects',
           \A r \in Chats :
              \/ sessions'[r] = 0
              \/ sessions'[r] > objects
              \/ sessions'[r] = sessions[r] /\ (emitters'[r] = emitters[r] \/ emitters[r] = 0)
    PROVE  /\ \A k \in Request : (k.pc # "idle" => k.session \in Chats) /\ CallHolds(k)
                                 => CallHolds(k)'
           /\ \A k \in Sub : (k.pc # "off" => k.session \in Chats) /\ SubHolds(k)
                                => SubHolds(k)'
BY ChatsAssumption DEF Store!TypeOK, CallHolds, SubHolds, Request, Sub

\* One call moves, to a record that is in order; the registry grows around it.
LEMMA CallMoves ==
    ASSUME SessionsInv, NEW c \in Calls, NEW n \in Request, requests' = [requests EXCEPT ![c] = n],
           n.pc # "idle" => n.session \in Chats, CallHolds(n)',
           \A s \in Chats : sessions'[s] <= objects',
           \A k \in Request : (k.pc # "idle" => k.session \in Chats) /\ CallHolds(k)
                            => CallHolds(k)',
           \A k \in Sub : (k.pc # "off" => k.session \in Chats) /\ SubHolds(k)
                           => SubHolds(k)',
           subs' = subs
    PROVE  Shape' /\ Held' /\ Store!SubscriberAwake'
<1>1. /\ requests \in [Calls -> Request] /\ subs \in [Subs -> Sub]
      /\ requests'[c] = n /\ \A d \in Calls \ {c} : requests'[d] = requests[d]
  BY DEF SessionsInv, Store!TypeOK, Request, Sub
<1>2. \A d \in Calls : CallHolds(requests[d])'
  <2> SUFFICES ASSUME NEW d \in Calls
               PROVE  CallHolds(requests[d])'
    OBVIOUS
  <2>1. CASE d = c
    BY <1>1, <2>1 DEF CallHolds
  <2>2. CASE d # c
    <3>1. requests[d] \in Request /\ requests'[d] = requests[d]
      BY <1>1, <2>2
    <3>2. /\ requests[d].pc # "idle" => requests[d].session \in Chats
          /\ CallHolds(requests[d])
      BY DEF SessionsInv, Shape, Held
    <3> DEFINE k == requests[d]
    <3>3. PICK m \in Request : m = k
      BY <3>1
    <3>4. CallHolds(m)'
      BY <3>2, <3>3
    <3> QED
      BY <3>1, <3>3, <3>4 DEF CallHolds
  <2> QED
    BY <2>1, <2>2
<1>3. \A u \in Subs : SubHolds(subs[u])'
  <2> SUFFICES ASSUME NEW u \in Subs
               PROVE  SubHolds(subs[u])'
    OBVIOUS
  <2>1. PICK m \in Sub : m = subs[u]
    BY <1>1
  <2>2. (m.pc # "off" => m.session \in Chats) /\ SubHolds(m)
    BY <2>1 DEF SessionsInv, Shape, Held
  <2>3. SubHolds(m)'
    BY <2>2
  <2> QED
    BY <2>1, <2>3 DEF SubHolds
<1>4. Shape' /\ Store!SubscriberAwake'
  BY <1>1 DEF SessionsInv, Shape, Store!SubscriberAwake
<1> QED
  BY <1>2, <1>3, <1>4 DEF Held

\* Directories are only added, and nobody begins to read a configuration.
LEMMA CountKeeps ==
    ASSUME Counted, initLock' = initLock, begun \subseteq begun',
           \A c \in Calls : requests'[c].pc = "config" =>
                              requests[c].pc = "config" /\ requests'[c].session = requests[c].session
    PROVE  Counted'
<1>1. PICK P \in SUBSET Chats : Placed(P)
  BY DEF Counted
<1>2. Placed(P)'
  BY <1>1 DEF Placed
<1> QED
  BY <1>2 DEF Counted

\* The chain does not notice a call that is not building, nor do the linked directories.
LEMMA ChainKeeps ==
    ASSUME SessionsInv, NEW c \in Calls, NEW n \in Request, requests' = [requests EXCEPT ![c] = n],
           n.pc \notin {"lock", "integrations"},
           UNCHANGED <<initLock, resolved, timers, agents>>, begun \subseteq begun'
    PROVE  /\ Chain'
           /\ n.pc # "config" => Once' /\ Counted'
<1>1. /\ requests'[c] = n /\ \A d \in Calls \ {c} : requests'[d] = requests[d]
      /\ \A d \in Calls : Building(d)' => Building(d) /\ requests'[d] = requests[d]
      /\ n.pc # "config" =>
            \A d \in Calls : Making(d)' => Making(d) /\ requests'[d] = requests[d]
  BY DEF SessionsInv, Store!TypeOK, Making, Building
<1>2. Chain'
  BY <1>1 DEF SessionsInv, Chain, Building
<1>3. ASSUME n.pc # "config" PROVE Once'
  BY <1>1, <1>3 DEF SessionsInv, Once
<1>4. ASSUME n.pc # "config" PROVE Counted'
  <2>1. \A d \in Calls : requests'[d].pc = "config" =>
                            requests[d].pc = "config" /\ requests'[d].session = requests[d].session
    BY <1>1, <1>4
  <2> QED
    BY <2>1, CountKeeps DEF SessionsInv
<1> QED
  BY <1>2, <1>3, <1>4

-----------------------------------------------------------------------------
(* The steps of a call *)

\* A call that takes no state and does not build: it gives up, ends, or goes to the
\* orchestrator.
LEMMA CallEnds ==
    ASSUME SessionsInv, NEW c \in Calls, NEW n \in Request, requests' = [requests EXCEPT ![c] = n],
           n.pc \in {"idle", "orchestrator"}, n.pc # "idle" => n.session \in Chats,
           UNCHANGED <<orchestrated, sessions, emitters, objects, agents,
                       initLock, resolved, timers, subs>>,
           failed' \in BOOLEAN, begun \subseteq begun', begun' \subseteq Chats
    PROVE  SessionsInv'
<1>1. Store!TypeOK /\ \A s \in Chats : sessions[s] <= objects
  BY DEF SessionsInv, Held
<1>2. objects \in Nat
  BY <1>1, ChatsAssumption DEF Store!TypeOK
<1>3. /\ \A k \in Request : (k.pc # "idle" => k.session \in Chats) /\ CallHolds(k)
                           => CallHolds(k)'
      /\ \A k \in Sub : (k.pc # "off" => k.session \in Chats) /\ SubHolds(k)
                          => SubHolds(k)'
  BY DEF CallHolds, SubHolds
<1>4. CallHolds(n)'
  BY DEF CallHolds
<1>5. Shape' /\ Held' /\ Store!SubscriberAwake'
  BY <1>1, <1>3, <1>4, CallMoves
<1>6. Chain' /\ Once' /\ Counted'
  BY ChainKeeps
<1>7. Store!TypeOK'
  <2>1. /\ sessions' \in [Chats -> 0..MaxObjects] /\ emitters' \in [Chats -> 0..MaxObjects]
        /\ objects' \in 0..MaxObjects /\ begun' \subseteq Chats /\ agents' \in [Chats -> Nat]
        /\ initLock' \in Store!Locks /\ resolved' \subseteq Store!Locks /\ timers' \subseteq Store!Locks
        /\ requests' \in [Calls -> Request] /\ subs' \in [Subs -> Sub]
    BY <1>1 DEF Store!TypeOK, Request, Sub
  <2>2. orchestrated' \in BOOLEAN /\ failed' \in BOOLEAN
    BY <1>1 DEF Store!TypeOK
  <2> QED
    BY <2>1, <2>2 DEF Store!TypeOK, Request, Sub
<1> QED
  BY <1>5, <1>6, <1>7 DEF SessionsInv

\* A creation has linked the directory of its id.
LEMMA CreateLocalKeeps ==
    ASSUME SessionsInv, NEW c \in Calls, NEW s \in Chats, NEW op \in {"create", "send"},
           Store!CreateLocal(c, op, s)
    PROVE  SessionsInv'
<1>1. /\ Store!TypeOK /\ requests[c] = Store!Idle /\ s \notin begun /\ begun' = begun \cup {s}
      /\ UNCHANGED <<orchestrated, sessions, emitters, objects, agents, initLock, resolved,
                     timers, failed, subs>>
  BY DEF SessionsInv, Store!CreateLocal, Store!chain
<1>2. PICK n \in Request : n = AtConfig(s, op) /\ n.pc = "config" /\ n.session = s
  BY ConfigRecord
<1>3. requests' = [requests EXCEPT ![c] = n]
  BY <1>2 DEF Store!CreateLocal, AtConfig
<1>4. /\ requests \in [Calls -> Request] /\ requests'[c] = n /\ requests' \in [Calls -> Request]
      /\ \A d \in Calls \ {c} : requests'[d] = requests[d]
      /\ ~Making(c)
  BY <1>1, <1>3, IdleCall DEF Store!TypeOK, Request, Making, Building
<1>5. Shape' /\ Held' /\ Store!SubscriberAwake'
  <2>1. /\ \A k \in Request : (k.pc # "idle" => k.session \in Chats) /\ CallHolds(k)
                             => CallHolds(k)'
        /\ \A k \in Sub : (k.pc # "off" => k.session \in Chats) /\ SubHolds(k)
                            => SubHolds(k)'
    BY <1>1 DEF CallHolds, SubHolds
  <2>2. CallHolds(n)'
    BY <1>2 DEF CallHolds
  <2>3. \A r \in Chats : sessions'[r] <= objects'
    BY <1>1 DEF SessionsInv, Held
  <2>4. subs' = subs /\ (n.pc # "idle" => n.session \in Chats)
    BY <1>1, <1>2
  <2> QED
    BY <1>3, <2>1, <2>2, <2>3, <2>4, CallMoves
<1>6. Chain'
  <2>1. begun \subseteq begun'
    BY <1>1
  <2> QED
    BY <1>1, <1>2, <1>3, <2>1, ChainKeeps
<1>7. Once'
  <2>1. /\ \A d \in Calls : Making(d)' => d = c \/ (Making(d) /\ requests'[d] = requests[d])
        /\ requests'[c].session = s
    BY <1>2, <1>4 DEF Making, Building
  <2>2. agents[s] = 0 /\ \A d \in Calls : Making(d) => requests[d].session # s
    BY <1>1 DEF SessionsInv, Once
  <2>3. \A d, e \in Calls :
          Making(d)' /\ Making(e)' /\ requests'[d].session = requests'[e].session => d = e
    BY <2>1, <2>2 DEF SessionsInv, Once
  <2>4. \A d \in Calls : Making(d)' => agents'[requests'[d].session] = 0
    BY <1>1, <2>1, <2>2 DEF SessionsInv, Once
  <2>5. /\ \A r \in Chats : agents'[r] <= 1
        /\ \A r \in Chats \ begun' :
              agents'[r] = 0 /\ \A d \in Calls : Making(d)' => requests'[d].session # r
    BY <1>1, <2>1 DEF SessionsInv, Once
  <2> QED
    BY <2>3, <2>4, <2>5 DEF Once
<1>8. Store!TypeOK'
  <2>1. orchestrated' \in BOOLEAN /\ failed' \in BOOLEAN
    BY <1>1 DEF Store!TypeOK
  <2> QED
    BY <1>1, <1>4, <2>1 DEF Store!TypeOK, Request
<1>9. Counted'
  <2>1. PICK P \in SUBSET Chats : Placed(P)
    BY DEF SessionsInv, Counted
  <2>2. Placed(P)'
    BY <1>1, <1>2, <1>4, <2>1 DEF Placed
  <2> QED
    BY <2>2 DEF Counted
<1> QED
  BY <1>5, <1>6, <1>7, <1>8, <1>9 DEF SessionsInv

\* A creation takes its place at the end of the chain, the first of its directory.
LEMMA ConfiguredKeeps ==
    ASSUME SessionsInv, NEW c \in Calls, Store!Configured(c)
    PROVE  SessionsInv'
<1> DEFINE s == requests[c].session
<1>1. /\ Store!TypeOK /\ requests[c].pc = "config" /\ s \in Chats
      /\ requests \in [Calls -> Request] /\ requests[c] \in Request
      /\ initLock' = initLock + 1
      /\ UNCHANGED <<orchestrated, sessions, emitters, objects, begun, agents, resolved,
                     timers, failed, subs>>
  BY DEF SessionsInv, Shape, Store!Configured, Store!registry, Store!TypeOK, Request
<1>2. PICK P \in SUBSET Chats : Placed(P)
  BY DEF SessionsInv, Counted
<1>a. PICK Q \in SUBSET Chats : Q = P \cup {s}
  BY <1>1
<1>3. /\ initLock' = Cardinality(Q)
      /\ initLock \in Nat /\ initLock' \in Store!Locks
  <2>1. s \notin P /\ initLock = Cardinality(P)
    BY <1>1, <1>2 DEF Placed
  <2>2. IsFiniteSet(P) /\ IsFiniteSet(Q) /\ Cardinality(Q) <= Cardinality(Chats)
    BY ChatsAssumption, FS_Subset
  <2>3. Cardinality(Q) = Cardinality(P) + 1
    BY <1>a, <2>1, <2>2, FS_AddElement
  <2>4. initLock \in Nat
    BY <1>1, LocksFacts DEF Store!TypeOK
  <2> QED
    BY <1>1, <2>1, <2>2, <2>3, <2>4, LocksFacts, SameCardinality DEF Store!Locks
<1>4. PICK n \in Request : /\ requests' = [requests EXCEPT ![c] = n] /\ n.pc = "lock"
                           /\ n.session = s /\ n.lock = initLock + 1
  <2> DEFINE k == requests[c]
  <2>1. PICK l \in Store!Locks : l = initLock + 1
    BY <1>1, <1>3
  <2>2. requests' = [requests EXCEPT ![c] = [k EXCEPT !.pc = "lock", !.lock = l]]
    BY <2>1 DEF Store!Configured
  <2>3. k \in Request
    BY <1>1
  <2> HIDE DEF k
  <2>4. LET m == [k EXCEPT !.pc = "lock", !.lock = l]
        IN  m \in Request /\ m.pc = "lock" /\ m.session = k.session /\ m.lock = l
    BY <2>3 DEF Request
  <2> QED
    BY <2>1, <2>2, <2>4 DEF k
<1>5. /\ requests'[c] = n /\ requests' \in [Calls -> Request]
      /\ \A d \in Calls \ {c} : requests'[d] = requests[d]
      /\ ~Building(c) /\ Making(c)
  BY <1>1, <1>4 DEF Making, Building
<1> HIDE DEF s
<1>6. Shape' /\ Held' /\ Store!SubscriberAwake'
  <2>1. /\ \A k \in Request : (k.pc # "idle" => k.session \in Chats) /\ CallHolds(k)
                             => CallHolds(k)'
        /\ \A k \in Sub : (k.pc # "off" => k.session \in Chats) /\ SubHolds(k)
                            => SubHolds(k)'
    BY <1>1 DEF CallHolds, SubHolds
  <2>2. CallHolds(n)'
    BY <1>4 DEF CallHolds
  <2>3. \A r \in Chats : sessions'[r] <= objects'
    BY <1>1 DEF SessionsInv, Held
  <2>4. subs' = subs /\ (n.pc # "idle" => n.session \in Chats)
    BY <1>1, <1>4
  <2> QED
    BY <1>4, <2>1, <2>2, <2>3, <2>4, CallMoves
<1>7. Chain'
  <2>1. \A i \in Nat : i \in resolved \cup timers => i <= initLock
    BY <1>1, <1>3 DEF SessionsInv, Chain
  <2>2. \A d \in Calls : Building(d)' => d = c \/ (Building(d) /\ requests'[d] = requests[d])
    BY <1>5 DEF Building
  <2>3. \A d \in Calls : Building(d) => requests[d].lock \in 1..initLock
    BY DEF SessionsInv, Chain
  <2>4. \A d \in Calls : Building(d)' => /\ requests'[d].lock \in 1..(initLock + 1)
                                         /\ requests'[d].lock \notin resolved \cup timers
                                         /\ requests'[d].lock = initLock + 1 <=> d = c
    <3> SUFFICES ASSUME NEW d \in Calls, Building(d)'
                 PROVE  /\ requests'[d].lock \in 1..(initLock + 1)
                        /\ requests'[d].lock \notin resolved \cup timers
                        /\ requests'[d].lock = initLock + 1 <=> d = c
      OBVIOUS
    <3>1. CASE d = c
      <4>1. requests'[d].lock = initLock + 1
        BY <1>4, <1>5, <3>1
      <4>2. initLock + 1 \notin resolved \cup timers
        BY <1>3, <2>1
      <4> QED
        BY <1>3, <3>1, <4>1, <4>2
    <3>2. CASE d # c
      BY <1>3, <2>2, <2>3, <3>2 DEF SessionsInv, Chain
    <3> QED
      BY <3>1, <3>2
  <2>5. \A i \in resolved' : i <= initLock' /\ 0..i \subseteq resolved'
    BY <1>1, <1>3, LocksFacts DEF SessionsInv, Chain, Store!TypeOK
  <2>6. \A i \in timers' : i \in (1..initLock') \ resolved' /\ i - 1 \in resolved'
    BY <1>1, <1>3 DEF SessionsInv, Chain
  <2>7. \A d \in Calls : Building(d)' =>
                            requests'[d].lock \in (1..initLock') \ (resolved' \cup timers')
    BY <1>1, <2>4
  <2>8. \A d \in Calls : requests'[d].pc = "integrations" => requests'[d].lock - 1 \in resolved'
    BY <1>1, <1>4, <1>5 DEF SessionsInv, Chain
  <2>9. \A d, e \in Calls :
          Building(d)' /\ Building(e)' /\ requests'[d].lock = requests'[e].lock => d = e
    BY <2>2, <2>4 DEF SessionsInv, Chain
  <2> QED
    BY <2>5, <2>6, <2>7, <2>8, <2>9 DEF Chain, Building
<1>8. Once'
  <2>1. \A d \in Calls : /\ Making(d)' <=> Making(d)
                         /\ requests'[d].session = requests[d].session
    BY <1>1, <1>4, <1>5 DEF s, Making, Building
  <2> QED
    BY <1>1, <2>1 DEF SessionsInv, Once
<1>9. Store!TypeOK'
  <2>1. orchestrated' \in BOOLEAN /\ failed' \in BOOLEAN
    BY <1>1 DEF Store!TypeOK
  <2> QED
    BY <1>1, <1>3, <1>5, <2>1 DEF Store!TypeOK, Request
<1>10. Counted'
  <2>1. \A d \in Calls : requests'[d].pc = "config" => requests'[d].session \notin Q
    <3> SUFFICES ASSUME NEW d \in Calls, requests'[d].pc = "config"
                 PROVE  requests[d].session \notin Q /\ requests'[d] = requests[d]
      OBVIOUS
    <3>1. d # c /\ requests'[d] = requests[d]
      BY <1>4, <1>5
    <3>2. requests[d].session # s
      BY <1>5, <3>1 DEF s, SessionsInv, Once, Making
    <3> QED
      BY <1>2, <1>a, <3>1, <3>2 DEF Placed
  <2>2. Q \subseteq begun
    <3>1. s \in begun
      BY <1>1, <1>5 DEF s, SessionsInv, Once
    <3> QED
      BY <1>2, <1>a, <3>1 DEF Placed
  <2>3. Placed(Q)'
    BY <1>1, <1>3, <2>1, <2>2 DEF Placed
  <2> QED
    BY <2>3 DEF Counted
<1> QED
  BY <1>6, <1>7, <1>8, <1>9, <1>10 DEF SessionsInv

LEMMA PrevLockKeeps ==
    ASSUME SessionsInv, NEW c \in Calls, Store!PrevLock(c)
    PROVE  SessionsInv'
<1>1. /\ Store!TypeOK /\ Chain /\ Once /\ Building(c)
      /\ requests[c].pc = "lock" /\ requests[c].lock - 1 \in resolved
      /\ requests \in [Calls -> Request] /\ requests[c].session \in Chats
      /\ UNCHANGED <<orchestrated, sessions, emitters, objects, begun, agents, initLock,
                     resolved, timers, failed, subs>>
  BY DEF SessionsInv, Shape, Store!PrevLock, Store!registry, Store!chain, Store!TypeOK, Request, Building
<1>2. PICK n \in Request : /\ requests' = [requests EXCEPT ![c] = n] /\ n.pc = "integrations"
                           /\ n.session = requests[c].session /\ n.lock = requests[c].lock
  <2> DEFINE k == requests[c]
  <2>1. k \in Request
    BY <1>1
  <2>2. requests' = [requests EXCEPT ![c] = [k EXCEPT !.pc = "integrations"]]
    BY DEF Store!PrevLock
  <2> HIDE DEF k
  <2>3. LET n == [k EXCEPT !.pc = "integrations"]
        IN  /\ n \in Request /\ n.pc = "integrations"
            /\ n.session = k.session /\ n.lock = k.lock
    BY <2>1 DEF Request
  <2> QED
    BY <2>2, <2>3 DEF k
<1>3. /\ requests'[c] = n /\ requests' \in [Calls -> Request]
      /\ \A d \in Calls \ {c} : requests'[d] = requests[d]
  BY <1>1, <1>2
<1>4. Shape' /\ Held' /\ Store!SubscriberAwake'
  <2>1. /\ \A k \in Request : (k.pc # "idle" => k.session \in Chats) /\ CallHolds(k)
                             => CallHolds(k)'
        /\ \A k \in Sub : (k.pc # "off" => k.session \in Chats) /\ SubHolds(k)
                            => SubHolds(k)'
    BY <1>1 DEF CallHolds, SubHolds
  <2>2. CallHolds(n)' /\ (n.pc # "idle" => n.session \in Chats)
    BY <1>1, <1>2 DEF CallHolds
  <2>3. subs' = subs /\ \A r \in Chats : sessions'[r] <= objects'
    BY <1>1 DEF SessionsInv, Held
  <2> QED
    BY <1>2, <2>1, <2>2, <2>3, CallMoves
<1>5. \A d \in Calls : /\ Building(d)' <=> Building(d)
                       /\ requests'[d].lock = requests[d].lock
                       /\ Making(d)' <=> Making(d)
                       /\ requests'[d].session = requests[d].session
                       /\ requests'[d].pc = "config" => requests[d].pc = "config"
  BY <1>1, <1>2, <1>3 DEF Making, Building
<1>6. Chain'
  <2>1. \A d \in Calls : requests'[d].pc = "integrations" => requests'[d].lock - 1 \in resolved
    BY <1>1, <1>2, <1>3 DEF Chain
  <2> QED
    BY <1>1, <1>5, <2>1 DEF Chain, Building
<1>7. Once'
  BY <1>1, <1>5 DEF Once
<1>8. Store!TypeOK'
  <2>1. orchestrated' \in BOOLEAN /\ failed' \in BOOLEAN
    BY <1>1 DEF Store!TypeOK
  <2> QED
    BY <1>1, <1>3, <2>1 DEF Store!TypeOK, Request
<1>9. Counted'
  BY <1>1, <1>5, CountKeeps DEF SessionsInv
<1> QED
  BY <1>4, <1>6, <1>7, <1>8, <1>9 DEF SessionsInv

LEMMA ReleaseLockKeeps ==
    ASSUME SessionsInv, NEW n \in timers, Store!ReleaseLock(n)
    PROVE  SessionsInv'
<1>1. /\ Store!TypeOK /\ Chain
      /\ timers' = timers \ {n} /\ resolved' = resolved \cup {n}
      /\ UNCHANGED <<orchestrated, sessions, emitters, objects, begun, agents, initLock,
                     failed, requests, subs>>
  BY DEF SessionsInv, Store!ReleaseLock, Store!registry
<1>2. n \in Nat /\ n \in 1..initLock /\ n - 1 \in resolved /\ initLock \in Nat
  BY <1>1, LocksFacts DEF Store!TypeOK, Chain
<1>3. 0..n \subseteq resolved'
  <2>1. 0..(n - 1) \subseteq resolved
    BY <1>1, <1>2 DEF Chain
  <2>2. \A i \in 0..n : i = n \/ i \in 0..(n - 1)
    BY <1>2
  <2> QED
    BY <1>1, <2>1, <2>2
<1>4. Chain'
  <2>1. \A i \in resolved' : i <= initLock' /\ 0..i \subseteq resolved'
    <3>1. \A i \in resolved : i <= initLock' /\ 0..i \subseteq resolved'
      BY <1>1 DEF Chain
    <3> QED
      BY <1>1, <1>2, <1>3, <3>1
  <2>2. \A i \in timers' : i \in (1..initLock') \ resolved' /\ i - 1 \in resolved'
    BY <1>1 DEF Chain
  <2>3. /\ \A c \in Calls : Building(c) =>
                              requests[c].lock \in (1..initLock) \ (resolved' \cup timers')
        /\ \A c \in Calls : requests[c].pc = "integrations" => requests[c].lock - 1 \in resolved'
    BY <1>1 DEF Chain
  <2>4. \A c, d \in Calls :
          Building(c) /\ Building(d) /\ requests[c].lock = requests[d].lock => c = d
    BY <1>1 DEF Chain
  <2> QED
    BY <1>1, <2>1, <2>2, <2>3, <2>4 DEF Chain, Building
<1>5. Store!TypeOK'
  <2>1. resolved' \subseteq Store!Locks /\ timers' \subseteq Store!Locks
    BY <1>1 DEF Store!TypeOK
  <2>2. orchestrated' \in BOOLEAN /\ failed' \in BOOLEAN
    BY <1>1 DEF Store!TypeOK
  <2> QED
    BY <1>1, <2>1, <2>2 DEF Store!TypeOK
<1>6. Shape' /\ Held' /\ Store!SubscriberAwake' /\ Once'
  BY <1>1 DEF SessionsInv, Shape, Held, CallHolds, SubHolds, Store!SubscriberAwake, Once, Making,
              Building
<1>7. Counted'
  BY <1>1, CountKeeps DEF SessionsInv
<1> QED
  BY <1>4, <1>5, <1>6, <1>7 DEF SessionsInv

\* A call takes the state its session has, or has got; the session has its emitter then.
LEMMA CallTakes ==
    ASSUME SessionsInv, NEW c \in Calls, NEW k \in Request, requests' = [requests EXCEPT ![c] = k],
           k.pc # "idle" => k.session \in Chats, k.pc # "config",
           k.pc \in {"upload", "stream"} => k.state \in 1..objects',
           k.pc = "stream" => k.emitter = emitters'[k.session] /\ k.emitter # 0,
           sessions' \in [Chats -> 0..MaxObjects], emitters' \in [Chats -> 0..MaxObjects],
           objects' \in objects..MaxObjects,
           \A r \in Chats :
              /\ sessions'[r] <= objects'
              /\ \/ sessions'[r] > objects
                 \/ sessions'[r] = sessions[r] /\ (emitters'[r] = emitters[r] \/ emitters[r] = 0),
           UNCHANGED <<orchestrated, begun, initLock, resolved, failed, subs>>,
           agents' \in [Chats -> Nat], timers' \subseteq Store!Locks
    PROVE  Store!TypeOK' /\ Shape' /\ Held' /\ Counted' /\ Store!SubscriberAwake'
<1>1. Store!TypeOK /\ objects \in Nat /\ objects' \in Nat /\ objects <= objects'
  BY ChatsAssumption DEF SessionsInv, Store!TypeOK
<1>2. Shape' /\ Held' /\ Store!SubscriberAwake'
  <2>1. /\ \A j \in Request : (j.pc # "idle" => j.session \in Chats) /\ CallHolds(j)
                             => CallHolds(j)'
        /\ \A j \in Sub : (j.pc # "off" => j.session \in Chats) /\ SubHolds(j)
                            => SubHolds(j)'
    BY <1>1, HoldsOn
  <2>2. CallHolds(k)'
    BY DEF CallHolds
  <2> QED
    BY <2>1, <2>2, CallMoves
<1>3. Store!TypeOK'
  <2>1. requests' \in [Calls -> Request] /\ objects' \in 0..MaxObjects
    BY <1>1 DEF Store!TypeOK, Request
  <2>2. orchestrated' \in BOOLEAN /\ failed' \in BOOLEAN
    BY <1>1 DEF Store!TypeOK
  <2>3. begun' \subseteq Chats /\ initLock' \in Store!Locks /\ resolved' \subseteq Store!Locks
        /\ subs' \in [Subs -> Sub]
    BY <1>1 DEF Store!TypeOK, Sub
  <2> QED
    BY <2>1, <2>2, <2>3 DEF Store!TypeOK, Request, Sub
<1>4. Counted'
  <2>1. \A d \in Calls : requests'[d].pc = "config" =>
                            requests[d].pc = "config" /\ requests'[d].session = requests[d].session
    BY <1>1 DEF Store!TypeOK
  <2> QED
    BY <2>1, CountKeeps DEF SessionsInv
<1> QED
  BY <1>2, <1>3, <1>4

\* From getEmitter on: what the record of the turn and the registry are.
LEMMA Streams ==
    ASSUME Store!TypeOK, NEW c \in Calls, NEW s \in Chats, NEW n \in objects..MaxObjects,
           NEW st \in 1..n, Store!Streaming(c, s, st, n)
    PROVE  /\ \E k \in Request : /\ requests' = [requests EXCEPT ![c] = k]
                                 /\ k.pc = "stream" /\ k.session = s /\ k.state = st
                                 /\ k.emitter = emitters'[s] /\ k.emitter # 0
           /\ emitters' \in [Chats -> 0..MaxObjects] /\ objects' \in n..MaxObjects
           /\ \A r \in Chats : emitters'[r] = emitters[r] \/ emitters[r] = 0
<1> DEFINE m == Store!Emitter(s, n)
<1>1. objects \in Nat /\ n \in Nat /\ emitters \in [Chats -> 0..MaxObjects]
  BY ChatsAssumption DEF Store!TypeOK
<1>2. m \in 1..MaxObjects /\ (emitters[s] = 0 => m = n + 1) /\ (emitters[s] # 0 => m = emitters[s])
  BY <1>1, ChatsAssumption DEF Store!Emitter, Store!Streaming
<1>3. PICK e \in 1..MaxObjects : e = m
  BY <1>2
<1>4. /\ emitters' = [emitters EXCEPT ![s] = e]
      /\ objects' = (IF emitters[s] = 0 THEN n + 1 ELSE n)
      /\ requests' = [requests EXCEPT ![c] = AtStream(s, st, e)]
  BY <1>3 DEF Store!Streaming, AtStream
<1>5. st \in 0..MaxObjects /\ e \in 0..MaxObjects /\ e # 0
  BY <1>1, ChatsAssumption
<1>6. LET k == AtStream(s, st, e)
      IN  k \in Request /\ k.pc = "stream" /\ k.session = s /\ k.state = st /\ k.emitter = e
  BY <1>5, StreamRecord
<1> HIDE DEF m
<1>7. emitters'[s] = e /\ objects' \in n..MaxObjects
  BY <1>1, <1>2, <1>3, <1>4, ChatsAssumption
<1>8. \A r \in Chats : emitters'[r] = emitters[r] \/ emitters[r] = 0
  BY <1>1, <1>2, <1>3, <1>4
<1> QED
  BY <1>1, <1>4, <1>5, <1>6, <1>7, <1>8

LEMMA Accepts ==
    ASSUME Store!TypeOK, NEW c \in Calls, NEW s \in Chats, NEW n \in objects..MaxObjects,
           NEW st \in 1..n, Store!Accept(c, s, st, n)
    PROVE  /\ \E k \in Request : /\ requests' = [requests EXCEPT ![c] = k]
                                 /\ k.pc \in {"upload", "stream"}
                                 /\ k.session = s /\ k.state = st
                                 /\ k.pc = "stream" => k.emitter = emitters'[s] /\ k.emitter # 0
           /\ emitters' \in [Chats -> 0..MaxObjects] /\ objects' \in n..MaxObjects
           /\ \A r \in Chats : emitters'[r] = emitters[r] \/ emitters[r] = 0
<1>1. CASE Store!Streaming(c, s, st, n)
  BY <1>1, Streams
<1>2. CASE /\ requests' = [requests EXCEPT ![c] = AtUpload(s, st)]
           /\ objects' = n /\ emitters' = emitters
  <2>1. st \in 0..MaxObjects /\ n \in n..MaxObjects /\ emitters \in [Chats -> 0..MaxObjects]
    BY ChatsAssumption DEF Store!TypeOK
  <2>2. LET k == AtUpload(s, st)
        IN  k \in Request /\ k.pc = "upload" /\ k.session = s /\ k.state = st
    BY <2>1, UploadRecord
  <2> QED
    BY <1>2, <2>1, <2>2
<1> QED
  BY <1>1, <1>2 DEF Store!Accept, AtUpload

\* sessions.set, and what the caller does next.
LEMMA Registers ==
    ASSUME SessionsInv, NEW c \in Calls, requests[c].session \in Chats, Store!Register(c)
    PROVE  /\ \E k \in Request :
                /\ requests' = [requests EXCEPT ![c] = k]
                /\ k.pc \in {"idle", "upload", "stream"}
                /\ k.pc # "idle" => k.session \in Chats
                /\ k.pc \in {"upload", "stream"} => k.state \in 1..objects'
                /\ k.pc = "stream" => k.emitter = emitters'[k.session] /\ k.emitter # 0
           /\ sessions' \in [Chats -> 0..MaxObjects]
           /\ emitters' \in [Chats -> 0..MaxObjects] /\ objects' \in objects..MaxObjects
           /\ \A r \in Chats :
                /\ sessions'[r] <= objects'
                /\ \/ sessions'[r] > objects
                   \/ /\ sessions'[r] = sessions[r]
                      /\ emitters'[r] = emitters[r] \/ emitters[r] = 0
<1> DEFINE s == requests[c].session
<1>1. /\ Store!TypeOK /\ objects \in Nat /\ objects < MaxObjects /\ s \in Chats
      /\ sessions' = [sessions EXCEPT ![s] = objects + 1]
      /\ sessions \in [Chats -> 0..MaxObjects]
      /\ \A r \in Chats : sessions[r] <= objects
  BY ChatsAssumption DEF SessionsInv, Store!TypeOK, Held, Store!Register
<1> DEFINE o == objects + 1
<1>2. PICK n \in objects..MaxObjects : n = o /\ n \in 1..n /\ n \in Nat
  BY <1>1, ChatsAssumption
<1>3. /\ \E k \in Request : /\ requests' = [requests EXCEPT ![c] = k]
                            /\ k.pc \in {"idle", "upload", "stream"}
                            /\ k.pc # "idle" => k.session = s /\ k.state = n
                            /\ k.pc = "stream" => k.emitter = emitters'[s] /\ k.emitter # 0
      /\ emitters' \in [Chats -> 0..MaxObjects] /\ objects' \in n..MaxObjects
      /\ \A r \in Chats : emitters'[r] = emitters[r] \/ emitters[r] = 0
  <2>1. CASE requests[c].op = "send"
    <3>1. Store!Accept(c, s, n, n)
      BY <1>2, <2>1 DEF Store!Register
    <3>2. PICK z \in Chats : z = s
      BY <1>1
    <3>3. Store!Accept(c, z, n, n)
      BY <3>1, <3>2
    <3> HIDE DEF s
    <3> QED
      BY <1>1, <1>2, <3>2, <3>3, Accepts
  <2>2. CASE requests[c].op # "send"
    <3>1. requests' = [requests EXCEPT ![c] = Store!Idle] /\ objects' = n /\ emitters' = emitters
      BY <1>2, <2>2 DEF Store!Register, Store!Finish
    <3>2. emitters \in [Chats -> 0..MaxObjects] /\ n \in n..MaxObjects
      BY <1>1, <1>2 DEF Store!TypeOK
    <3> QED
      BY <3>1, <3>2, IdleCall
  <2> QED
    BY <2>1, <2>2
<1>4. objects' \in objects..MaxObjects /\ objects' >= n /\ objects' \in Nat
  BY <1>1, <1>2, <1>3, ChatsAssumption
<1>5. sessions' \in [Chats -> 0..MaxObjects] /\ \A r \in Chats : sessions'[r] <= objects'
  BY <1>1, <1>2, <1>4, ChatsAssumption
<1>6. \A r \in Chats : sessions'[r] > objects \/ sessions'[r] = sessions[r]
  BY <1>1
<1>7. \A k \in Request : k.pc # "idle" /\ k.state = n => k.state \in 1..objects'
  BY <1>2, <1>4
<1> HIDE DEF s, o
<1>8. PICK k \in Request : /\ requests' = [requests EXCEPT ![c] = k]
                           /\ k.pc \in {"idle", "upload", "stream"}
                           /\ k.pc # "idle" => k.session = s /\ k.state = n
                           /\ k.pc = "stream" => k.emitter = emitters'[s] /\ k.emitter # 0
  BY <1>3
<1>9. \E j \in Request : /\ requests' = [requests EXCEPT ![c] = j]
                         /\ j.pc \in {"idle", "upload", "stream"}
                         /\ j.pc # "idle" => j.session \in Chats
                         /\ j.pc \in {"upload", "stream"} => j.state \in 1..objects'
                         /\ j.pc = "stream" => j.emitter = emitters'[j.session] /\ j.emitter # 0
  BY <1>1, <1>7, <1>8
<1> QED
  BY <1>3, <1>4, <1>5, <1>6, <1>9

LEMMA SendKeeps ==
    ASSUME SessionsInv, NEW c \in Calls, NEW s \in Chats, Store!Send(c, s)
    PROVE  SessionsInv'
<1>1. /\ Store!TypeOK /\ sessions[s] # 0 /\ Store!Accept(c, s, sessions[s], objects)
      /\ objects \in Nat /\ objects <= MaxObjects
      /\ sessions \in [Chats -> 0..MaxObjects] /\ agents \in [Chats -> Nat]
      /\ \A r \in Chats : sessions[r] <= objects
      /\ UNCHANGED <<orchestrated, sessions, begun, agents, initLock, resolved, timers,
                     failed, subs>>
  BY ChatsAssumption DEF SessionsInv, Store!TypeOK, Held, Store!Send, Store!chain
<1>2. PICK n \in objects..MaxObjects : n = objects
  BY <1>1, ChatsAssumption
<1>3. PICK st \in 1..n : st = sessions[s]
  BY <1>1, <1>2, ChatsAssumption
<1>4. Store!Accept(c, s, st, n)
  BY <1>1, <1>2, <1>3
<1>5. /\ \E k \in Request : /\ requests' = [requests EXCEPT ![c] = k]
                            /\ k.pc \in {"upload", "stream"}
                            /\ k.session = s /\ k.state = st
                            /\ k.pc = "stream" => k.emitter = emitters'[s] /\ k.emitter # 0
      /\ emitters' \in [Chats -> 0..MaxObjects] /\ objects' \in n..MaxObjects
      /\ \A r \in Chats : emitters'[r] = emitters[r] \/ emitters[r] = 0
  BY <1>1, <1>4, Accepts
<1>6. PICK k \in Request : /\ requests' = [requests EXCEPT ![c] = k]
                           /\ k.pc \in {"upload", "stream"}
                           /\ k.session = s /\ k.state = st
                           /\ k.pc = "stream" => k.emitter = emitters'[s] /\ k.emitter # 0
  BY <1>5
<1>7. /\ k.state \in 1..objects' /\ objects' \in objects..MaxObjects
      /\ \A r \in Chats : sessions'[r] <= objects' /\ sessions'[r] = sessions[r]
  BY <1>1, <1>2, <1>5, <1>6, ChatsAssumption
<1>8. Store!TypeOK' /\ Shape' /\ Held' /\ Counted' /\ Store!SubscriberAwake'
  <2>1. timers' \subseteq Store!Locks
    BY <1>1 DEF Store!TypeOK
  <2> QED
    BY <1>1, <1>5, <1>6, <1>7, <2>1, CallTakes
<1>9. Chain' /\ Once'
  BY <1>1, <1>6, ChainKeeps
<1> QED
  BY <1>8, <1>9 DEF SessionsInv

LEMMA UploadedKeeps ==
    ASSUME SessionsInv, NEW c \in Calls, Store!Uploaded(c)
    PROVE  SessionsInv'
<1>1. /\ Store!TypeOK /\ requests[c].pc = "upload"
      /\ Store!Streaming(c, requests[c].session, requests[c].state, objects)
      /\ requests[c].session \in Chats /\ requests[c].state \in 1..objects
      /\ objects \in Nat /\ objects <= MaxObjects
      /\ sessions \in [Chats -> 0..MaxObjects] /\ agents \in [Chats -> Nat]
      /\ \A r \in Chats : sessions[r] <= objects
      /\ UNCHANGED <<orchestrated, sessions, begun, agents, initLock, resolved, timers,
                     failed, subs>>
  BY ChatsAssumption
     DEF SessionsInv, Store!TypeOK, Shape, Held, CallHolds, Store!Uploaded, Store!chain
<1>2. PICK n \in objects..MaxObjects : n = objects
  BY <1>1, ChatsAssumption
<1>3. PICK st \in 1..n : st = requests[c].state
  BY <1>1, <1>2
<1>4. PICK s \in Chats : s = requests[c].session
  BY <1>1
<1>5. Store!Streaming(c, s, st, n)
  BY <1>1, <1>2, <1>3, <1>4
<1>6. /\ \E k \in Request : /\ requests' = [requests EXCEPT ![c] = k]
                            /\ k.pc = "stream" /\ k.session = s /\ k.state = st
                            /\ k.emitter = emitters'[s] /\ k.emitter # 0
      /\ emitters' \in [Chats -> 0..MaxObjects] /\ objects' \in n..MaxObjects
      /\ \A r \in Chats : emitters'[r] = emitters[r] \/ emitters[r] = 0
  BY <1>1, <1>5, Streams
<1>7. PICK k \in Request : /\ requests' = [requests EXCEPT ![c] = k]
                           /\ k.pc = "stream" /\ k.session = s /\ k.state = st
                           /\ k.emitter = emitters'[s] /\ k.emitter # 0
  BY <1>6
<1>8. /\ k.state \in 1..objects' /\ objects' \in objects..MaxObjects
      /\ \A r \in Chats : sessions'[r] <= objects' /\ sessions'[r] = sessions[r]
  BY <1>1, <1>2, <1>6, <1>7, ChatsAssumption
<1>9. Store!TypeOK' /\ Shape' /\ Held' /\ Counted' /\ Store!SubscriberAwake'
  <2>1. timers' \subseteq Store!Locks
    BY <1>1 DEF Store!TypeOK
  <2> QED
    BY <1>1, <1>6, <1>7, <1>8, <2>1, CallTakes
<1>10. Chain' /\ Once'
  BY <1>1, <1>7, ChainKeeps
<1> QED
  BY <1>9, <1>10 DEF SessionsInv

LEMMA OrchestratedKeeps ==
    ASSUME SessionsInv, NEW c \in Calls, Store!Orchestrated(c)
    PROVE  SessionsInv'
<1>1. /\ Store!TypeOK /\ requests[c].session \in Chats /\ Store!Register(c)
      /\ agents \in [Chats -> Nat]
      /\ UNCHANGED <<orchestrated, begun, agents, initLock, resolved, timers, failed, subs>>
  BY DEF SessionsInv, Shape, Store!TypeOK, Store!Orchestrated, Store!chain
<1>2. /\ \E k \in Request :
           /\ requests' = [requests EXCEPT ![c] = k]
           /\ k.pc \in {"idle", "upload", "stream"}
           /\ k.pc # "idle" => k.session \in Chats
           /\ k.pc \in {"upload", "stream"} => k.state \in 1..objects'
           /\ k.pc = "stream" => k.emitter = emitters'[k.session] /\ k.emitter # 0
      /\ sessions' \in [Chats -> 0..MaxObjects]
      /\ emitters' \in [Chats -> 0..MaxObjects] /\ objects' \in objects..MaxObjects
      /\ \A r \in Chats :
           /\ sessions'[r] <= objects'
           /\ \/ sessions'[r] > objects
              \/ /\ sessions'[r] = sessions[r]
                 /\ emitters'[r] = emitters[r] \/ emitters[r] = 0
  BY <1>1, Registers
<1>3. PICK k \in Request :
           /\ requests' = [requests EXCEPT ![c] = k]
           /\ k.pc \in {"idle", "upload", "stream"}
           /\ k.pc # "idle" => k.session \in Chats
           /\ k.pc \in {"upload", "stream"} => k.state \in 1..objects'
           /\ k.pc = "stream" => k.emitter = emitters'[k.session] /\ k.emitter # 0
  BY <1>2
<1>4. Store!TypeOK' /\ Shape' /\ Held' /\ Counted' /\ Store!SubscriberAwake'
  <2>1. timers' \subseteq Store!Locks
    BY <1>1 DEF Store!TypeOK
  <2> QED
    BY <1>1, <1>2, <1>3, <2>1, CallTakes
<1>5. Chain' /\ Once'
  BY <1>1, <1>3, ChainKeeps
<1> QED
  BY <1>4, <1>5 DEF SessionsInv

\* The agent of an id that had none is built; its creation's lock passes to the timer.
LEMMA BuildAgentKeeps ==
    ASSUME SessionsInv, NEW c \in Calls, Store!BuildAgent(c)
    PROVE  SessionsInv'
<1> DEFINE s == requests[c].session
<1>1. /\ Store!TypeOK /\ Chain /\ Once /\ s \in Chats /\ Store!Register(c)
      /\ Building(c) /\ requests[c].pc = "integrations"
      /\ agents \in [Chats -> Nat] /\ agents' = [agents EXCEPT ![s] = @ + 1]
      /\ timers' = timers \cup {requests[c].lock}
      /\ requests \in [Calls -> Request]
      /\ UNCHANGED <<orchestrated, begun, initLock, resolved, failed, subs>>
  BY DEF SessionsInv, Shape, Store!TypeOK, Store!BuildAgent, Building, Request
<1>2. /\ \E k \in Request :
           /\ requests' = [requests EXCEPT ![c] = k]
           /\ k.pc \in {"idle", "upload", "stream"}
           /\ k.pc # "idle" => k.session \in Chats
           /\ k.pc \in {"upload", "stream"} => k.state \in 1..objects'
           /\ k.pc = "stream" => k.emitter = emitters'[k.session] /\ k.emitter # 0
      /\ sessions' \in [Chats -> 0..MaxObjects]
      /\ emitters' \in [Chats -> 0..MaxObjects] /\ objects' \in objects..MaxObjects
      /\ \A r \in Chats :
           /\ sessions'[r] <= objects'
           /\ \/ sessions'[r] > objects
              \/ /\ sessions'[r] = sessions[r]
                 /\ emitters'[r] = emitters[r] \/ emitters[r] = 0
  BY <1>1, Registers
<1>3. PICK k \in Request :
           /\ requests' = [requests EXCEPT ![c] = k]
           /\ k.pc \in {"idle", "upload", "stream"}
           /\ k.pc # "idle" => k.session \in Chats
           /\ k.pc \in {"upload", "stream"} => k.state \in 1..objects'
           /\ k.pc = "stream" => k.emitter = emitters'[k.session] /\ k.emitter # 0
  BY <1>2
<1>4. Store!TypeOK' /\ Shape' /\ Held' /\ Counted' /\ Store!SubscriberAwake'
  <2>1. timers' \subseteq Store!Locks
    BY <1>1 DEF Store!TypeOK, Request
  <2>2. agents' \in [Chats -> Nat]
    BY <1>1
  <2> QED
    BY <1>1, <1>2, <1>3, <2>1, <2>2, CallTakes
<1>5. /\ requests'[c] = k /\ \A d \in Calls \ {c} : requests'[d] = requests[d]
      /\ \A d \in Calls : Building(d)' => Building(d) /\ d # c /\ requests'[d] = requests[d]
      /\ \A d \in Calls : Making(d)' => Making(d) /\ d # c /\ requests'[d] = requests[d]
  BY <1>1, <1>3 DEF Making, Building
<1>6. Chain'
  <2>1. requests[c].lock \in (1..initLock) \ resolved /\ requests[c].lock - 1 \in resolved
    BY <1>1 DEF Chain
  <2>2. \A i \in timers' : i \in (1..initLock') \ resolved' /\ i - 1 \in resolved'
    BY <1>1, <2>1 DEF Chain
  <2>3. \A d \in Calls : Building(d)' =>
                            requests'[d].lock \in (1..initLock') \ (resolved' \cup timers')
    <3> SUFFICES ASSUME NEW d \in Calls, Building(d)'
                 PROVE  requests'[d].lock \in (1..initLock') \ (resolved' \cup timers')
      OBVIOUS
    <3>1. Building(d) /\ d # c /\ requests'[d] = requests[d]
      BY <1>5
    <3>2. requests[d].lock # requests[c].lock
      BY <1>1, <3>1 DEF Chain
    <3>3. requests[d].lock \in (1..initLock) \ (resolved \cup timers)
      BY <1>1, <3>1 DEF Chain
    <3> QED
      BY <1>1, <3>1, <3>2, <3>3
  <2>4. /\ \A d \in Calls : requests'[d].pc = "integrations" => requests'[d].lock - 1 \in resolved'
        /\ \A d, e \in Calls :
              Building(d)' /\ Building(e)' /\ requests'[d].lock = requests'[e].lock => d = e
    BY <1>1, <1>3, <1>5 DEF Chain
  <2>5. \A i \in resolved' : i <= initLock' /\ 0..i \subseteq resolved'
    BY <1>1 DEF Chain
  <2> QED
    BY <2>2, <2>3, <2>4, <2>5 DEF Chain, Building
<1>7. Once'
  <2>1. agents[s] = 0 /\ s \in begun
    BY <1>1 DEF Once, Making
  <2>2. \A r \in Chats : agents'[r] <= 1
    BY <1>1, <2>1 DEF Once
  <2>3. \A d \in Calls : Making(d)' => agents'[requests'[d].session] = 0
    <3> SUFFICES ASSUME NEW d \in Calls, Making(d)'
                 PROVE  agents'[requests'[d].session] = 0
      OBVIOUS
    <3>1. Making(d) /\ d # c /\ requests'[d] = requests[d]
      BY <1>5
    <3>2. requests[d].session # s /\ requests[d].session \in Chats
      BY <1>1, <3>1 DEF Once, SessionsInv, Shape, Making, Building
    <3> QED
      BY <1>1, <3>1, <3>2 DEF Once
  <2>4. \A r \in Chats \ begun' :
           agents'[r] = 0 /\ \A d \in Calls : Making(d)' => requests'[d].session # r
    BY <1>1, <1>5, <2>1 DEF Once
  <2>5. \A d, e \in Calls :
          Making(d)' /\ Making(e)' /\ requests'[d].session = requests'[e].session => d = e
    BY <1>1, <1>5 DEF Once
  <2> QED
    BY <2>2, <2>3, <2>4, <2>5 DEF Once
<1> QED
  BY <1>4, <1>6, <1>7 DEF SessionsInv

-----------------------------------------------------------------------------
(* The end of sessions *)

\* Deleted sessions lose their state and their emitter together.
LEMMA DeletesKeep ==
    ASSUME SessionsInv, UNCHANGED <<orchestrated, objects, begun, agents, Store!chain, requests, subs>>,
           sessions' \in [Chats -> 0..MaxObjects], emitters' \in [Chats -> 0..MaxObjects],
           \A r \in Chats : \/ sessions'[r] = 0
                            \/ sessions'[r] = sessions[r] /\ emitters'[r] = emitters[r]
    PROVE  SessionsInv'
<1>1. /\ Store!TypeOK /\ objects \in Nat
      /\ UNCHANGED <<orchestrated, objects, begun, agents, initLock, resolved, timers, failed,
                     requests, subs>>
  BY ChatsAssumption DEF SessionsInv, Store!TypeOK, Store!chain
<1>2. /\ \A k \in Request : (k.pc # "idle" => k.session \in Chats) /\ CallHolds(k)
                           => CallHolds(k)'
      /\ \A k \in Sub : (k.pc # "off" => k.session \in Chats) /\ SubHolds(k)
                          => SubHolds(k)'
  BY <1>1, HoldsOn
<1>3. /\ \A c \in Calls : \E k \in Request : k = requests[c]
      /\ \A u \in Subs : \E k \in Sub : k = subs[u]
  BY <1>1 DEF Store!TypeOK, Request, Sub
<1>4. \A c \in Calls : CallHolds(requests[c])'
  <2> SUFFICES ASSUME NEW c \in Calls
               PROVE  CallHolds(requests[c])'
    OBVIOUS
  <2>1. PICK k \in Request : k = requests[c]
    BY <1>3
  <2>2. CallHolds(k)'
    BY <1>2, <2>1 DEF SessionsInv, Shape, Held
  <2> QED
    BY <1>1, <2>1, <2>2 DEF CallHolds
<1>5. \A u \in Subs : SubHolds(subs[u])'
  <2> SUFFICES ASSUME NEW u \in Subs
               PROVE  SubHolds(subs[u])'
    OBVIOUS
  <2>1. PICK k \in Sub : k = subs[u]
    BY <1>3
  <2>2. SubHolds(k)'
    BY <1>2, <2>1 DEF SessionsInv, Shape, Held
  <2> QED
    BY <1>1, <2>1, <2>2 DEF SubHolds
<1>6. Held'
  <2>1. \A s \in Chats : sessions'[s] <= objects'
    BY <1>1 DEF SessionsInv, Held
  <2> QED
    BY <1>4, <1>5, <2>1 DEF Held
<1>7. Shape' /\ Chain' /\ Once' /\ Counted' /\ Store!SubscriberAwake'
  <2>1. Counted'
    BY <1>1, CountKeeps DEF SessionsInv
  <2> QED
    BY <1>1, <2>1 DEF SessionsInv, Shape, Chain, Once, Making, Building, Store!SubscriberAwake
<1>8. Store!TypeOK'
  <2>1. orchestrated' \in BOOLEAN /\ failed' \in BOOLEAN
    BY <1>1 DEF Store!TypeOK
  <2> QED
    BY <1>1, <2>1 DEF Store!TypeOK
<1> QED
  BY <1>6, <1>7, <1>8 DEF SessionsInv

LEMMA DeleteSessionKeeps ==
    ASSUME SessionsInv, NEW s \in Chats, Store!DeleteSession(s)
    PROVE  SessionsInv'
<1>1. Store!TypeOK /\ 0 \in 0..MaxObjects
  BY ChatsAssumption DEF SessionsInv
<1>2. /\ sessions' \in [Chats -> 0..MaxObjects] /\ emitters' \in [Chats -> 0..MaxObjects]
      /\ \A r \in Chats : \/ sessions'[r] = 0
                          \/ sessions'[r] = sessions[r] /\ emitters'[r] = emitters[r]
  BY <1>1 DEF Store!TypeOK, Store!DeleteSession
<1> QED
  BY <1>2, DeletesKeep DEF Store!DeleteSession

LEMMA DestroySandboxKeeps ==
    ASSUME SessionsInv, Store!DestroySandbox
    PROVE  SessionsInv'
<1>1. Store!TypeOK /\ 0 \in 0..MaxObjects
  BY ChatsAssumption DEF SessionsInv
<1>2. /\ sessions' \in [Chats -> 0..MaxObjects] /\ emitters' \in [Chats -> 0..MaxObjects]
      /\ \A r \in Chats : \/ sessions'[r] = 0
                          \/ sessions'[r] = sessions[r] /\ emitters'[r] = emitters[r]
  BY <1>1 DEF Store!TypeOK, Store!DestroySandbox
<1> QED
  BY <1>2, DeletesKeep DEF Store!DestroySandbox

-----------------------------------------------------------------------------
(* Turns and subscribers *)

\* Subscriptions keep what they hold, and are awake when they have to be; calls may end.
LEMMA SubsMove ==
    ASSUME SessionsInv, UNCHANGED <<orchestrated, Store!registry, Store!chain>>,
           subs' \in [Subs -> Sub], requests' \in [Calls -> Request],
           \A u \in Subs :
              /\ subs'[u].pc # "off" =>
                    /\ subs[u].pc # "off" /\ subs'[u].session = subs[u].session
                    /\ subs'[u].state = subs[u].state /\ subs'[u].emitter = subs[u].emitter
              /\ subs'[u].pc = "awaiting" => subs'[u].queue = 0 /\ ~subs'[u].aborted,
           \A c \in Calls : requests'[c] = requests[c] \/ requests'[c].pc = "idle"
    PROVE  SessionsInv'
<1>1. /\ Store!TypeOK /\ Shape /\ Held /\ Chain /\ Once /\ Counted
      /\ UNCHANGED <<orchestrated, sessions, emitters, objects, begun, agents, initLock,
                     resolved, timers, failed>>
  BY DEF SessionsInv, Store!registry, Store!chain
<1>2. \A c \in Calls : /\ Building(c)' => Building(c) /\ requests'[c] = requests[c]
                       /\ Making(c)' => Making(c) /\ requests'[c] = requests[c]
  BY DEF Making, Building
<1>3. Shape' /\ Store!SubscriberAwake'
  BY <1>1 DEF Shape, Store!SubscriberAwake
<1>4. Held'
  <2>1. \A u \in Subs : SubHolds(subs[u])'
    BY <1>1 DEF Held, SubHolds
  <2>2. \A c \in Calls : CallHolds(requests[c])'
    BY <1>1 DEF Held, CallHolds
  <2> QED
    BY <1>1, <2>1, <2>2 DEF Held
<1>5. Chain' /\ Once' /\ Counted'
  <2>1. Chain'
    BY <1>1, <1>2 DEF Chain, Building
  <2>2. Once'
    BY <1>1, <1>2 DEF Once
  <2>3. Counted'
    BY <1>1, CountKeeps
  <2> QED
    BY <2>1, <2>2, <2>3
<1>6. Store!TypeOK'
  <2>1. orchestrated' \in BOOLEAN /\ failed' \in BOOLEAN
    BY <1>1 DEF Store!TypeOK
  <2> QED
    BY <1>1, <2>1 DEF Store!TypeOK, Request, Sub
<1> QED
  BY <1>3, <1>4, <1>5, <1>6 DEF SessionsInv

\* emitter.emit: listeners are woken with one event more.
LEMMA Emits ==
    ASSUME SessionsInv, NEW c \in Calls, Store!Emit(c)
    PROVE  /\ subs' \in [Subs -> Sub]
           /\ \A u \in Subs :
              /\ subs'[u].pc # "off" =>
                    /\ subs[u].pc # "off" /\ subs'[u].session = subs[u].session
                    /\ subs'[u].state = subs[u].state /\ subs'[u].emitter = subs[u].emitter
              /\ subs'[u].pc = "awaiting" => subs'[u].queue = 0 /\ ~subs'[u].aborted
<1>1. subs \in [Subs -> Sub] /\ Store!SubscriberAwake
  BY DEF SessionsInv, Store!TypeOK, Sub
<1>2. /\ \A u \in Store!Listening(c) : subs[u].queue < MaxEvents
      /\ subs' = [u \in Subs |-> IF u \in Store!Listening(c)
                                 THEN [subs[u] EXCEPT !.queue = @ + 1, !.pc = Store!Awake(@)]
                                 ELSE subs[u]]
  BY DEF Store!Emit
<1>3. ASSUME NEW u \in Subs
      PROVE  /\ subs'[u] \in Sub
             /\ subs'[u].pc # "off" =>
                    /\ subs[u].pc # "off" /\ subs'[u].session = subs[u].session
                    /\ subs'[u].state = subs[u].state /\ subs'[u].emitter = subs[u].emitter
             /\ subs'[u].pc = "awaiting" => subs'[u].queue = 0 /\ ~subs'[u].aborted
  <2> DEFINE k == subs[u]
  <2>1. k \in Sub
    BY <1>1, <1>3
  <2>2. CASE u \in Store!Listening(c)
    <3>1. /\ k.queue < MaxEvents /\ k.pc # "off"
          /\ subs'[u] = [k EXCEPT !.queue = k.queue + 1, !.pc = Store!Awake(k.pc)]
      BY <1>2, <1>3, <2>2 DEF Store!Listening
    <3> HIDE DEF k
    <3>2. LET n == [k EXCEPT !.queue = k.queue + 1, !.pc = Store!Awake(k.pc)]
          IN  /\ n \in Sub /\ n.pc # "awaiting"
              /\ n.session = k.session /\ n.state = k.state /\ n.emitter = k.emitter
      <4>1. PICK q \in 0..MaxEvents : q = k.queue + 1
        BY <2>1, <3>1, ChatsAssumption DEF Sub
      <4>2. /\ Store!Awake(k.pc) \in {"off", "running", "held", "awaiting"}
            /\ Store!Awake(k.pc) # "awaiting"
        BY <2>1 DEF Sub, Store!Awake
      <4>3. LET n == [k EXCEPT !.queue = q, !.pc = Store!Awake(k.pc)]
            IN  /\ n \in Sub /\ n.pc # "awaiting"
                /\ n.session = k.session /\ n.state = k.state /\ n.emitter = k.emitter
        BY <2>1, <4>2 DEF Sub
      <4> QED
        BY <4>1, <4>3
    <3> QED
      BY <3>1, <3>2 DEF k
  <2>3. CASE u \notin Store!Listening(c)
    BY <1>1, <1>2, <1>3, <2>3 DEF Store!SubscriberAwake
  <2> QED
    BY <2>2, <2>3
<1> QED
  BY <1>2, <1>3

LEMMA TurnKeeps ==
    ASSUME SessionsInv, NEW c \in Calls, Store!Event(c) \/ Store!StreamEnds(c)
    PROVE  SessionsInv'
<1>1. requests \in [Calls -> Request] /\ subs \in [Subs -> Sub] /\ Store!SubscriberAwake
  BY DEF SessionsInv, Store!TypeOK, Request, Sub
<1>2. CASE Store!Event(c)
  <2>1. Store!Emit(c) /\ requests' = requests /\ UNCHANGED <<orchestrated, Store!registry, Store!chain>>
    BY <1>2 DEF Store!Event
  <2> QED
    BY <1>1, <2>1, Emits, SubsMove
<1>3. CASE Store!StreamEnds(c)
  <2>1. /\ requests' = [requests EXCEPT ![c] = Store!Idle] /\ (subs' = subs \/ Store!Emit(c))
        /\ UNCHANGED <<orchestrated, Store!registry, Store!chain>>
    BY <1>3 DEF Store!StreamEnds, Store!Finish
  <2>2. /\ requests' \in [Calls -> Request]
        /\ \A d \in Calls : requests'[d] = requests[d] \/ requests'[d].pc = "idle"
    BY <1>1, <2>1, IdleCall
  <2>3. CASE Store!Emit(c)
    BY <2>1, <2>2, <2>3, Emits, SubsMove
  <2>4. CASE subs' = subs
    <3>1. \A u \in Subs : subs'[u].pc = "awaiting" => subs'[u].queue = 0 /\ ~subs'[u].aborted
      BY <1>1, <2>4 DEF Store!SubscriberAwake
    <3> QED
      BY <1>1, <2>1, <2>2, <2>4, <3>1, SubsMove
  <2> QED
    BY <2>1, <2>3, <2>4
<1> QED
  BY <1>2, <1>3

\* One subscription goes on with what it holds, or ends.
LEMMA SubMoves ==
    ASSUME SessionsInv, NEW u \in Subs, NEW n \in Sub, subs' = [subs EXCEPT ![u] = n],
           UNCHANGED <<orchestrated, Store!registry, Store!chain, requests>>,
           n.pc # "off" => /\ subs[u].pc # "off" /\ n.session = subs[u].session
                           /\ n.state = subs[u].state /\ n.emitter = subs[u].emitter,
           n.pc = "awaiting" => n.queue = 0 /\ ~n.aborted
    PROVE  SessionsInv'
<1>1. requests \in [Calls -> Request] /\ subs \in [Subs -> Sub] /\ Store!SubscriberAwake
  BY DEF SessionsInv, Store!TypeOK, Request, Sub
<1>2. /\ subs' \in [Subs -> Sub] /\ requests' = requests
      /\ subs'[u] = n /\ \A v \in Subs \ {u} : subs'[v] = subs[v]
  BY <1>1
<1>3. \A v \in Subs :
        /\ subs'[v].pc # "off" =>
              /\ subs[v].pc # "off" /\ subs'[v].session = subs[v].session
              /\ subs'[v].state = subs[v].state /\ subs'[v].emitter = subs[v].emitter
        /\ subs'[v].pc = "awaiting" => subs'[v].queue = 0 /\ ~subs'[v].aborted
  BY <1>1, <1>2 DEF Store!SubscriberAwake
<1> QED
  BY <1>1, <1>2, <1>3, SubsMove

LEMMA SubscriberRunsKeeps ==
    ASSUME SessionsInv, NEW u \in Subs, Store!SubscriberRuns(u)
    PROVE  SessionsInv'
<1> DEFINE k == subs[u]
<1>1. k \in Sub /\ k.pc \in {"running", "held"}
  BY DEF SessionsInv, Store!TypeOK, Sub, Store!SubscriberRuns
<1> DEFINE n == IF k.aborted THEN Store!Off
                ELSE IF k.queue > 0 THEN [k EXCEPT !.queue = k.queue - 1, !.pc = "held"]
                ELSE [k EXCEPT !.pc = "awaiting"]
<1>2. subs' = [subs EXCEPT ![u] = n] /\ UNCHANGED <<orchestrated, Store!registry, Store!chain, requests>>
  BY DEF Store!SubscriberRuns
<1>3. /\ n \in Sub
      /\ n.pc # "off" => n.session = k.session /\ n.state = k.state /\ n.emitter = k.emitter
      /\ n.pc = "awaiting" => n.queue = 0 /\ ~n.aborted
  <2>1. CASE k.aborted
    BY <2>1, OffSub
  <2>2. CASE ~k.aborted /\ k.queue > 0
    <3>1. n = [k EXCEPT !.queue = k.queue - 1, !.pc = "held"]
      BY <2>2
    <3> HIDE DEF k
    <3>2. LET m == [k EXCEPT !.queue = k.queue - 1, !.pc = "held"]
          IN  /\ m \in Sub /\ m.pc = "held"
              /\ m.session = k.session /\ m.state = k.state /\ m.emitter = k.emitter
      <4>1. PICK q \in 0..MaxEvents : q = k.queue - 1
        BY <1>1, <2>2, ChatsAssumption DEF Sub
      <4>2. LET m == [k EXCEPT !.queue = q, !.pc = "held"]
            IN  /\ m \in Sub /\ m.pc = "held"
                /\ m.session = k.session /\ m.state = k.state /\ m.emitter = k.emitter
        BY <1>1 DEF Sub
      <4> QED
        BY <4>1, <4>2
    <3> HIDE DEF n
    <3> QED
      BY <3>1, <3>2
  <2>3. CASE ~k.aborted /\ ~(k.queue > 0)
    <3>1. n = [k EXCEPT !.pc = "awaiting"]
      BY <2>3
    <3> HIDE DEF k
    <3>2. LET m == [k EXCEPT !.pc = "awaiting"]
          IN  /\ m \in Sub /\ m.queue = k.queue /\ m.aborted = k.aborted
              /\ m.session = k.session /\ m.state = k.state /\ m.emitter = k.emitter
      BY <1>1 DEF Sub
    <3>3. k.queue = 0
      BY <1>1, <2>3, ChatsAssumption DEF Sub
    <3> HIDE DEF n
    <3> QED
      BY <2>3, <3>1, <3>2, <3>3
  <2> QED
    BY <2>1, <2>2, <2>3
<1>4. PICK m \in Sub : m = n
  BY <1>3
<1> HIDE DEF n
<1> QED
  BY <1>1, <1>2, <1>3, <1>4, SubMoves

LEMMA DisconnectKeeps ==
    ASSUME SessionsInv, NEW u \in Subs, Store!Disconnect(u)
    PROVE  SessionsInv'
<1> DEFINE k == subs[u]
<1>1. k \in Sub /\ k.pc # "off" /\ subs \in [Subs -> Sub]
  BY DEF SessionsInv, Store!TypeOK, Sub, Store!Disconnect
<1> DEFINE n == [k EXCEPT !.aborted = TRUE, !.pc = Store!Awake(k.pc)]
<1>2. subs' = [subs EXCEPT ![u] = n] /\ UNCHANGED <<orchestrated, Store!registry, Store!chain, requests>>
  BY <1>1 DEF Store!Disconnect
<1> HIDE DEF k
<1>3. /\ n \in Sub /\ n.pc # "awaiting"
      /\ n.session = k.session /\ n.state = k.state /\ n.emitter = k.emitter
  BY <1>1 DEF Sub, Store!Awake
<1>4. PICK m \in Sub : m = n
  BY <1>3
<1> HIDE DEF n
<1> QED
  BY <1>1, <1>2, <1>3, <1>4, SubMoves DEF k

\* A subscriber takes the session's emitter, or makes the one it lacks.
LEMMA SubscribeKeeps ==
    ASSUME SessionsInv, NEW u \in Subs, NEW s \in Chats, Store!Subscribe(u, s)
    PROVE  SessionsInv'
<1>1. /\ Store!TypeOK /\ Shape /\ Held /\ Store!SubscriberAwake
      /\ sessions[s] # 0 /\ Store!Emitter(s, objects) <= MaxObjects
      /\ objects \in Nat /\ objects <= MaxObjects
      /\ emitters \in [Chats -> 0..MaxObjects] /\ sessions \in [Chats -> 0..MaxObjects]
      /\ requests \in [Calls -> Request] /\ subs \in [Subs -> Sub]
      /\ \A r \in Chats : sessions[r] <= objects
      /\ UNCHANGED <<orchestrated, sessions, begun, agents, initLock, resolved, timers,
                     failed, requests>>
  BY ChatsAssumption
     DEF SessionsInv, Store!TypeOK, Held, Store!Subscribe, Store!chain, Request, Sub
<1>2. PICK e \in 1..MaxObjects : /\ e = Store!Emitter(s, objects)
                                 /\ emitters[s] = 0 => e = objects + 1
                                 /\ emitters[s] # 0 => e = emitters[s]
  BY <1>1, ChatsAssumption DEF Store!Emitter
<1>3. PICK st \in 1..objects : st = sessions[s]
  BY <1>1, ChatsAssumption
<1>4. /\ emitters' = [emitters EXCEPT ![s] = e]
      /\ objects' = (IF emitters[s] = 0 THEN objects + 1 ELSE objects)
      /\ subs' = [subs EXCEPT ![u] = AtRunning(s, st, e)]
  BY <1>2, <1>3 DEF Store!Subscribe, AtRunning
<1>5. PICK n \in Sub : /\ n = AtRunning(s, st, e) /\ n.pc = "running" /\ n.session = s
                       /\ n.state = st /\ n.emitter = e
  <2>1. st \in 0..MaxObjects /\ e \in 0..MaxObjects
    BY <1>1, ChatsAssumption
  <2> QED
    BY <2>1, RunningRecord
<1>6. objects' \in Nat /\ objects <= objects' /\ objects' <= MaxObjects
  BY <1>1, <1>2, <1>4, ChatsAssumption
<1>7. /\ emitters'[s] = e /\ emitters' \in [Chats -> 0..MaxObjects]
      /\ \A r \in Chats : emitters'[r] = emitters[r] \/ emitters[r] = 0
  BY <1>1, <1>2, <1>4, ChatsAssumption
<1>8. /\ subs' \in [Subs -> Sub] /\ subs'[u] = n /\ \A v \in Subs \ {u} : subs'[v] = subs[v]
  BY <1>1, <1>4, <1>5
<1>9. /\ \A k \in Request : (k.pc # "idle" => k.session \in Chats) /\ CallHolds(k)
                           => CallHolds(k)'
      /\ \A k \in Sub : (k.pc # "off" => k.session \in Chats) /\ SubHolds(k)
                          => SubHolds(k)'
  BY <1>1, <1>6, <1>7, HoldsOn
<1>10. Held'
  <2>1. \A c \in Calls : CallHolds(requests[c])'
    <3> SUFFICES ASSUME NEW c \in Calls
                 PROVE  CallHolds(requests[c])'
      OBVIOUS
    <3>1. PICK k \in Request : k = requests[c]
      BY <1>1
    <3>2. CallHolds(k)'
      BY <1>1, <1>9, <3>1 DEF Shape, Held
    <3> QED
      BY <1>1, <3>1, <3>2 DEF CallHolds
  <2>2. \A v \in Subs : SubHolds(subs[v])'
    <3> SUFFICES ASSUME NEW v \in Subs
                 PROVE  SubHolds(subs[v])'
      OBVIOUS
    <3>1. CASE v = u
      <4>1. n.state \in 1..objects' /\ n.emitter = emitters'[n.session] /\ n.emitter # 0
        BY <1>1, <1>5, <1>6, <1>7
      <4> QED
        BY <1>8, <3>1, <4>1 DEF SubHolds
    <3>2. CASE v # u
      <4>1. PICK k \in Sub : k = subs[v]
        BY <1>1
      <4>2. SubHolds(k)'
        BY <1>1, <1>9, <4>1 DEF Shape, Held
      <4>3. subs'[v] = k
        BY <1>8, <3>2, <4>1
      <4> QED
        BY <4>2, <4>3 DEF SubHolds
    <3> QED
      BY <3>1, <3>2
  <2>3. \A r \in Chats : sessions'[r] <= objects'
    BY <1>1, <1>6, ChatsAssumption
  <2> QED
    BY <2>1, <2>2, <2>3 DEF Held
<1>11. Shape' /\ Store!SubscriberAwake'
  BY <1>1, <1>5, <1>8 DEF Shape, Store!SubscriberAwake
<1>12. Chain' /\ Once' /\ Counted'
  <2>1. Counted'
    BY <1>1, CountKeeps DEF SessionsInv
  <2> QED
    BY <1>1, <2>1 DEF SessionsInv, Chain, Once, Making, Building
<1>13. Store!TypeOK'
  <2>1. orchestrated' \in BOOLEAN /\ failed' \in BOOLEAN
    BY <1>1 DEF Store!TypeOK
  <2>2. objects' \in 0..MaxObjects
    BY <1>6, ChatsAssumption
  <2> QED
    BY <1>1, <1>7, <1>8, <2>1, <2>2 DEF Store!TypeOK, Request, Sub
<1> QED
  BY <1>10, <1>11, <1>12, <1>13 DEF SessionsInv

-----------------------------------------------------------------------------
(* The invariant *)

LEMMA CreateOrchestratedKeeps ==
    ASSUME SessionsInv, NEW c \in Calls, NEW s \in Chats, NEW op \in {"create", "send"},
           Store!CreateOrchestrated(c, op, s)
    PROVE  SessionsInv'
<1>1. /\ orchestrated /\ begun' = begun \cup {s} /\ begun \subseteq Chats
      /\ requests' = [requests EXCEPT ![c] = AtOrchestrator(s, op)]
      /\ UNCHANGED <<orchestrated, sessions, emitters, objects, agents,
                     initLock, resolved, timers, subs>>
  BY DEF SessionsInv, Store!TypeOK, Store!CreateOrchestrated, AtOrchestrator, Store!chain
<1>2. failed' \in BOOLEAN
  BY DEF SessionsInv, Store!TypeOK, Store!CreateOrchestrated, Store!chain
<1>3. PICK n \in Request : n = AtOrchestrator(s, op) /\ n.pc = "orchestrator" /\ n.session = s
  BY OrchestratorRecord
<1> QED
  BY <1>1, <1>2, <1>3, CallEnds

LEMMA GivesUpKeeps ==
    ASSUME SessionsInv, NEW c \in Calls,
           Store!BuildThrows(c) \/ Store!OrchestratorRejects(c) \/ Store!ConfigRejects(c)
    PROVE  SessionsInv'
<1>1. /\ requests' = [requests EXCEPT ![c] = Store!Idle] /\ begun \subseteq Chats
      /\ UNCHANGED <<orchestrated, sessions, emitters, objects, begun, agents,
                     initLock, resolved, timers, subs>>
  BY DEF SessionsInv, Store!TypeOK, Store!BuildThrows, Store!OrchestratorRejects, Store!ConfigRejects, Store!Finish,
         Store!registry, Store!chain
<1>2. failed' \in BOOLEAN
  BY DEF SessionsInv, Store!TypeOK, Store!BuildThrows, Store!OrchestratorRejects, Store!ConfigRejects, Store!chain
<1>3. PICK n \in Request : n = Store!Idle /\ n.pc = "idle"
  BY IdleCall
<1> QED
  BY <1>1, <1>2, <1>3, CallEnds

LEMMA SessionsStep == SessionsInv /\ [Store!Next]_Store!vars => SessionsInv'
<1> SUFFICES ASSUME SessionsInv, [Store!Next]_Store!vars
             PROVE  SessionsInv'
  OBVIOUS
<1>1. ASSUME NEW c \in Calls, NEW s \in Chats, Store!Send(c, s)
      PROVE  SessionsInv'
  BY <1>1, SendKeeps
<1>2. ASSUME NEW c \in Calls, NEW s \in Chats, NEW op \in {"create", "send"},
             Store!CreateLocal(c, op, s) \/ Store!CreateOrchestrated(c, op, s)
      PROVE  SessionsInv'
  BY <1>2, CreateLocalKeeps, CreateOrchestratedKeeps
<1>3. ASSUME NEW c \in Calls,
             \/ Store!Configured(c) \/ Store!ConfigRejects(c)
             \/ Store!PrevLock(c) \/ Store!BuildAgent(c) \/ Store!BuildThrows(c)
             \/ Store!Orchestrated(c) \/ Store!OrchestratorRejects(c) \/ Store!Uploaded(c)
             \/ Store!Event(c) \/ Store!StreamEnds(c)
      PROVE  SessionsInv'
  BY <1>3, ConfiguredKeeps, PrevLockKeeps, BuildAgentKeeps, GivesUpKeeps,
     OrchestratedKeeps, UploadedKeeps, TurnKeeps
<1>4. ASSUME NEW n \in timers, Store!ReleaseLock(n)
      PROVE  SessionsInv'
  BY <1>4, ReleaseLockKeeps
<1>5. ASSUME NEW s \in Chats, Store!DeleteSession(s)
      PROVE  SessionsInv'
  BY <1>5, DeleteSessionKeeps
<1>6. CASE Store!DestroySandbox
  BY <1>6, DestroySandboxKeeps
<1>7. ASSUME NEW u \in Subs, Store!SubscriberRuns(u) \/ Store!Disconnect(u)
      PROVE  SessionsInv'
  BY <1>7, SubscriberRunsKeeps, DisconnectKeeps
<1>8. ASSUME NEW u \in Subs, NEW s \in Chats, Store!Subscribe(u, s)
      PROVE  SessionsInv'
  BY <1>8, SubscribeKeeps
<1>9. CASE UNCHANGED Store!vars
  <2>1. Counted'
    BY <1>9, CountKeeps DEF Store!vars, Store!registry, Store!chain, SessionsInv
  <2> QED
    BY <1>9, <2>1 DEF Store!vars, Store!registry, Store!chain, SessionsInv, Store!TypeOK, Shape, Held, CallHolds,
              SubHolds, Chain, Once, Making, Building, Store!SubscriberAwake
<1> QED
  BY <1>1, <1>2, <1>3, <1>4, <1>5, <1>6, <1>7, <1>8, <1>9 DEF Store!Next

\* A step of the gateway is one of its sessions or leaves their state alone.
LEMMA GatewayStep == [GatewayNext]_gatewayVars => [Store!Next]_Store!vars
BY DEF GatewayNext, gatewayVars, storeVars, Store!vars, Store!registry, Store!chain

LEMMA SessionsAlways == GatewaySpec => []SessionsInv
<1>1. GatewayInit => SessionsInv
  BY SessionsInit DEF GatewayInit
<1>2. SessionsInv /\ [GatewayNext]_gatewayVars => SessionsInv'
  BY GatewayStep, SessionsStep
<1> QED
  BY <1>1, <1>2, PTL DEF GatewaySpec, SafeSpec

-----------------------------------------------------------------------------
(* Theorems *)

\* Two promises of creations that have passed the lock and not released it are one: the
\* one before each is resolved, and promises are resolved in order.
LEMMA InitialisingAlone ==
    ASSUME SessionsInv, NEW a \in Store!Initialising, NEW b \in Store!Initialising
    PROVE  a = b
<1>1. \A x \in Store!Initialising : /\ x \in Nat /\ x \in 1..initLock /\ x \notin resolved
                                    /\ x - 1 \in resolved
  <2>1. initLock \in Nat
    BY LocksFacts DEF SessionsInv, Store!TypeOK
  <2>2. \A x \in timers : x \in (1..initLock) \ resolved /\ x - 1 \in resolved
    BY DEF SessionsInv, Chain
  <2>3. \A c \in Calls : requests[c].pc = "integrations" =>
          requests[c].lock \in (1..initLock) \ resolved /\ requests[c].lock - 1 \in resolved
    BY DEF SessionsInv, Chain, Building
  <2>4. \A x \in Store!Initialising :
          x \in timers \/ \E c \in Calls : requests[c].pc = "integrations" /\ x = requests[c].lock
    BY DEF Store!Initialising
  <2> QED
    BY <2>1, <2>2, <2>3, <2>4
<1>2. \A x \in resolved : 0..x \subseteq resolved
  BY DEF SessionsInv, Chain
<1>3. ~(a < b)
  <2>1. a < b => a \in 0..(b - 1)
    BY <1>1
  <2> QED
    BY <1>1, <1>2, <2>1
<1>4. ~(b < a)
  <2>1. b < a => b \in 0..(a - 1)
    BY <1>1
  <2> QED
    BY <1>1, <1>2, <2>1
<1> QED
  BY <1>1, <1>3, <1>4

\* At most one creation is between its wait for the lock and the end of its timer, however
\* many were asked for, and whether or not agents fail to be built.
THEOREM OneInitialiserCorrect == GatewaySpec => []OneInitialiser
<1>1. SessionsInv => Store!OneInitialiser
  <2> SUFFICES ASSUME SessionsInv
               PROVE  Store!OneInitialiser
    OBVIOUS
  <2>1. Cardinality(Store!Initialising) <= 1
    <3>1. CASE Store!Initialising = {}
      BY <3>1, FS_EmptySet
    <3>2. CASE Store!Initialising # {}
      <4>1. PICK a \in Store!Initialising : TRUE
        BY <3>2
      <4>2. Store!Initialising = {a}
        BY <4>1, InitialisingAlone
      <4> HIDE DEF Store!Initialising
      <4>3. Cardinality({a}) = 1
        BY FS_Singleton
      <4> QED
        BY <4>2, <4>3
    <3> QED
      BY <3>1, <3>2
  <2>2. ASSUME NEW c \in Calls, NEW d \in Calls,
               requests[c].pc = "integrations", requests[d].pc = "integrations"
        PROVE  c = d
    <3>1. requests[c].lock \in Store!Initialising /\ requests[d].lock \in Store!Initialising
      BY <2>2 DEF Store!Initialising
    <3>2. requests[c].lock = requests[d].lock
      BY <3>1, InitialisingAlone
    <3> QED
      BY <2>2, <3>2 DEF SessionsInv, Chain, Building
  <2>3. Store!Cardinality(Store!Initialising) <= 1
    BY <2>1, SameCardinality
  <2> QED
    BY <2>2, <2>3 DEF Store!OneInitialiser
<1> QED
  BY <1>1, SessionsAlways, PTL DEF OneInitialiser

\* No id ever gets a second agent session, although the map is tested before the awaits of
\* createSession and filled after them.
THEOREM OneAgentCorrect == GatewaySpec => []OneAgentPerSession
<1>1. SessionsInv => Store!OneAgentPerSession
  BY DEF SessionsInv, Once, Store!OneAgentPerSession
<1> QED
  BY <1>1, SessionsAlways, PTL DEF OneAgentPerSession

\* A turn and a subscriber of the state the session has are on one emitter, whichever of
\* them made it and whatever was deleted and created since.
THEOREM SubscribersHearCorrect == GatewaySpec => []SubscribersHear
<1>1. SessionsInv => Store!SubscribersHear
  BY DEF SessionsInv, Held, CallHolds, SubHolds, Store!SubscribersHear
<1> QED
  BY <1>1, SessionsAlways, PTL DEF SubscribersHear

\* No subscriber sleeps on events that are queued for it, or after its client has gone.
THEOREM SubscriberAwakeCorrect == GatewaySpec => []SubscriberAwake
<1>1. SessionsInv => Store!SubscriberAwake
  BY DEF SessionsInv
<1> QED
  BY <1>1, SessionsAlways, PTL DEF SubscriberAwake
-----------------------------------------------------------------------------
(* Who resolves a promise of the chain *)

\* A step keeps PromiseOwned if a promise that was of a creation stays its own, goes to
\* a timer or is resolved, and one that a timer holds is resolved or held on.
LEMMA OwnersPass ==
    ASSUME Store!PromiseOwned, initLock' = initLock, failed' = failed,
           resolved \cup timers \subseteq resolved' \cup timers',
           \A c \in Calls : Building(c) =>
               \/ Building(c)' /\ requests'[c].lock = requests[c].lock
               \/ requests[c].lock \in resolved' \cup timers'
    PROVE  Store!PromiseOwned'
BY DEF Store!PromiseOwned, Building

LEMMA PromiseStep == Store!TypeOK /\ Store!PromiseOwned /\ [Store!Next]_Store!vars => Store!PromiseOwned'
<1> SUFFICES ASSUME Store!TypeOK, Store!PromiseOwned, [Store!Next]_Store!vars
             PROVE  Store!PromiseOwned'
  OBVIOUS
<1>0. requests \in [Calls -> Request]
  BY DEF Store!TypeOK, Request
\* The new end of the chain is the creation's own.
<1>1. ASSUME NEW c \in Calls, Store!Configured(c)
      PROVE  Store!PromiseOwned'
  <2>1. initLock \in Nat
    BY LocksFacts DEF Store!TypeOK
  <2>2. /\ requests[c].pc = "config" /\ initLock' = initLock + 1
        /\ UNCHANGED <<resolved, timers, failed>>
        /\ \A d \in Calls \ {c} : requests'[d] = requests[d]
    BY <1>0, <1>1 DEF Store!Configured
  <2>3. requests'[c].pc = "lock" /\ requests'[c].lock = initLock + 1
    <3> DEFINE k == requests[c]
    <3>1. k \in Request
      BY <1>0
    <3>2. requests' = [requests EXCEPT ![c] = [k EXCEPT !.pc = "lock", !.lock = initLock + 1]]
      BY <1>1 DEF Store!Configured
    <3> HIDE DEF k
    <3> QED
      BY <1>0, <3>1, <3>2 DEF Request
  <2>4. SUFFICES ASSUME ~failed, NEW n \in 1..(initLock + 1)
                 PROVE  \/ n \in resolved \cup timers
                        \/ \E d \in Calls : /\ requests'[d].pc \in {"lock", "integrations"}
                                            /\ requests'[d].lock = n
    BY <2>2 DEF Store!PromiseOwned
  <2>5. CASE n = initLock + 1
    BY <2>3, <2>5
  <2>6. CASE n \in 1..initLock
    BY <2>2, <2>4, <2>6 DEF Store!PromiseOwned
  <2> QED
    BY <2>1, <2>5, <2>6
<1>2. ASSUME NEW c \in Calls, Store!PrevLock(c)
      PROVE  Store!PromiseOwned'
  BY <1>0, <1>2, OwnersPass DEF Store!PrevLock, Store!chain, Building, Request
\* The promise goes from the creation to its timer, and from the timer to the resolved.
<1>3. ASSUME NEW c \in Calls, Store!BuildAgent(c)
      PROVE  Store!PromiseOwned'
  <2>1. \A d \in Calls \ {c} : requests'[d] = requests[d]
    BY <1>0, <1>3 DEF Store!BuildAgent, Store!Register, Store!Accept, Store!Streaming, Store!Finish
  <2> QED
    BY <1>3, <2>1, OwnersPass DEF Store!BuildAgent, Building
<1>4. ASSUME NEW n \in timers, Store!ReleaseLock(n)
      PROVE  Store!PromiseOwned'
  BY <1>4, OwnersPass DEF Store!ReleaseLock, Building
<1>5. ASSUME NEW c \in Calls, Store!BuildThrows(c)
      PROVE  Store!PromiseOwned'
  BY <1>5 DEF Store!BuildThrows, Store!PromiseOwned
\* Calls that build nothing have no promise to lose.
<1>6. ASSUME NEW c \in Calls, ~Building(c), UNCHANGED Store!chain,
             \A d \in Calls \ {c} : requests'[d] = requests[d]
      PROVE  Store!PromiseOwned'
  BY <1>6, OwnersPass DEF Store!chain, Building
<1>7. ASSUME NEW c \in Calls, NEW s \in Chats,
             \/ Store!Send(c, s)
             \/ \E op \in {"create", "send"} :
                  Store!CreateLocal(c, op, s) \/ Store!CreateOrchestrated(c, op, s)
      PROVE  Store!PromiseOwned'
  <2>1. ~Building(c)
    BY <1>7, IdleCall DEF Store!Send, Store!CreateLocal, Store!CreateOrchestrated, Building
  <2>2. UNCHANGED Store!chain /\ \A d \in Calls \ {c} : requests'[d] = requests[d]
    BY <1>0, <1>7 DEF Store!Send, Store!Accept, Store!Streaming, Store!CreateLocal, Store!CreateOrchestrated
  <2> QED
    BY <1>6, <2>1, <2>2
<1>8. ASSUME NEW c \in Calls,
             \/ Store!ConfigRejects(c)
             \/ Store!Orchestrated(c) \/ Store!OrchestratorRejects(c) \/ Store!Uploaded(c)
             \/ Store!Event(c) \/ Store!StreamEnds(c)
      PROVE  Store!PromiseOwned'
  <2>1. ~Building(c)
    BY <1>8 DEF Store!ConfigRejects, Store!Orchestrated, Store!OrchestratorRejects, Store!Uploaded, Store!Event, Store!StreamEnds,
                Building
  <2>2. UNCHANGED Store!chain /\ \A d \in Calls \ {c} : requests'[d] = requests[d]
    BY <1>0, <1>8 DEF Store!ConfigRejects, Store!Orchestrated, Store!OrchestratorRejects, Store!Uploaded, Store!Event, Store!StreamEnds,
                      Store!Register, Store!Accept, Store!Streaming, Store!Finish
  <2> QED
    BY <1>6, <2>1, <2>2
<1>9. ASSUME UNCHANGED <<Store!chain, requests>>
      PROVE  Store!PromiseOwned'
  BY <1>9, OwnersPass DEF Store!chain, Building
<1>10. CASE \/ \E s \in Chats : Store!DeleteSession(s)
            \/ Store!DestroySandbox
            \/ \E u \in Subs : \/ Store!SubscriberRuns(u) \/ Store!Disconnect(u)
                              \/ \E s \in Chats : Store!Subscribe(u, s)
            \/ UNCHANGED Store!vars
  BY <1>9, <1>10 DEF Store!DeleteSession, Store!DestroySandbox, Store!SubscriberRuns, Store!Disconnect, Store!Subscribe, Store!vars
<1> QED
  <2>1. CASE \E c \in Calls, s \in Chats :
               \/ Store!Send(c, s)
               \/ \E op \in {"create", "send"} : Store!CreateLocal(c, op, s) \/ Store!CreateOrchestrated(c, op, s)
    BY <1>7, <2>1
  <2>2. CASE \E c \in Calls :
               \/ Store!Configured(c) \/ Store!ConfigRejects(c)
               \/ Store!PrevLock(c) \/ Store!BuildAgent(c) \/ Store!BuildThrows(c)
               \/ Store!Orchestrated(c) \/ Store!OrchestratorRejects(c) \/ Store!Uploaded(c)
               \/ Store!Event(c) \/ Store!StreamEnds(c)
    BY <1>1, <1>2, <1>3, <1>5, <1>8, <2>2
  <2> QED
    BY <1>4, <1>10, <2>1, <2>2 DEF Store!Next

\* No promise of the chain is ever forgotten while agents can be built: whoever waits for
\* one waits for a creation under way or for a timer that runs.
THEOREM PromiseOwnedCorrect == GatewaySpec => []PromiseOwned
<1>1. Store!Init => Store!PromiseOwned
  BY DEF Store!Init, Store!PromiseOwned
<1>2. GatewaySpec => []Store!TypeOK
  <2>1. SessionsInv => Store!TypeOK
    BY DEF SessionsInv
  <2> QED
    BY <2>1, SessionsAlways, PTL
<1>3. Store!TypeOK /\ Store!PromiseOwned /\ [GatewayNext]_gatewayVars => Store!PromiseOwned'
  BY GatewayStep, PromiseStep
<1>4. GatewayInit => Store!PromiseOwned
  BY <1>1 DEF GatewayInit
<1> QED
  BY <1>2, <1>3, <1>4, PTL DEF GatewaySpec, SafeSpec, PromiseOwned
=============================================================================
