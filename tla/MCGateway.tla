----------------------------- MODULE MCGateway ------------------------------
(***************************************************************************)
(* The two stateful parts of the gateway: the turns of its sockets, with   *)
(* the web client at the other end (ChatStream), and its sessions with     *)
(* their subscribers (GatewaySessions).  Their maps are apart, so that one *)
(* behaviour is of one of them.                                            *)
(***************************************************************************)
EXTENDS ChatStream, TLC

CONSTANTS Chats, Calls, Subs, MaxObjects, MaxEvents

ASSUME ChatsAssumption ==
    MaxObjects \in Nat /\ MaxEvents \in Nat /\ IsFiniteSet(Chats)

VARIABLES
    part,
    orchestrated, sessions, emitters, objects, begun, agents, initLock, resolved, timers,
    failed, requests, subs

Store == INSTANCE GatewaySessions WITH Sessions <- Chats, calls <- requests

storeVars   == <<orchestrated, sessions, emitters, objects, begun, agents, initLock, resolved,
                 timers, failed, requests, subs>>
gatewayVars == <<part, webVars, storeVars>>

GatewayInit ==
    /\ part \in {"sockets", "sessions"}
    /\ WebInit /\ Store!Init
    /\ part = "sockets" => ~orchestrated

GatewayNext ==
    /\ UNCHANGED part
    /\ \/ part = "sockets" /\ WebNext /\ UNCHANGED storeVars
       \/ part = "sessions" /\ Store!Next /\ UNCHANGED webVars

\* The fairness of the two modules, each where its part runs.  Of the sessions: resolved
\* promises resume their waiters, the integrations are read or not, timers fire, and an
\* SSE client that is connected reads on.
SocketFairness ==
    /\ \A v \in Sessions : WF_webVars(part = "sockets" /\ EffectRuns(v))
    /\ \A w \in Sockets : WF_webVars(part = "sockets" /\ Progress(w))
    /\ \A t \in Turns : WF_webVars(part = "sockets" /\ StreamEnds(t))

StoreFairness ==
    /\ \A c \in Calls :
         /\ WF_storeVars(part = "sessions" /\ Store!PrevLock(c))
         /\ WF_storeVars(part = "sessions" /\ Store!BuildAgent(c))
    /\ \A n \in Store!Locks : WF_storeVars(part = "sessions" /\ Store!ReleaseLock(n))
    /\ \A u \in Subs : WF_storeVars(part = "sessions" /\ Store!SubscriberRuns(u))

SafeSpec == GatewayInit /\ [][GatewayNext]_gatewayVars

GatewaySpec == SafeSpec /\ SocketFairness /\ StoreFairness

\* Creations initialise one after the other (GatewaySessions).
OneInitialiser == Store!OneInitialiser

\* Every promise of the chain has someone to resolve it (GatewaySessions).
PromiseOwned == Store!PromiseOwned

\* At most one agent session is built for an id (GatewaySessions).
OneAgentPerSession == Store!OneAgentPerSession

\* Subscribers and turns of a session share its emitter (GatewaySessions).
SubscribersHear == Store!SubscribersHear

\* No subscriber sleeps over an event or a disconnect (GatewaySessions).
SubscriberAwake == Store!SubscriberAwake

\* A creation waits for ever only if building an agent has thrown (GatewaySessions).
LockPasses == Store!LockPasses

\* A disconnected subscription ends (GatewaySessions).
SubscriptionEnds == Store!SubscriptionEnds

=============================================================================
