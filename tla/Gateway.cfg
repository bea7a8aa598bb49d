SPECIFICATION GatewaySpec
CONSTANTS
    s1 = s1
    Sessions = {s1}
    w1 = w1
    w2 = w2
    Sockets = {w1, w2}
    t1 = t1
    t2 = t2
    Turns = {t1, t2}
    MaxQueue = 1
    None = None
    h1 = h1
    h2 = h2
    Chats = {h1, h2}
    c1 = c1
    c2 = c2
    Calls = {c1, c2}
    u1 = u1
    Subs = {u1}
    MaxObjects = 4
    MaxEvents = 2
CHECK_DEADLOCK FALSE
INVARIANT RegisteredIsLive
INVARIANT OneLiveTurn
INVARIANT NoOrphanTurn
INVARIANT RepliesUnmixed
INVARIANT StopReachable
INVARIANT OneInitialiser
INVARIANT PromiseOwned
INVARIANT OneAgentPerSession
INVARIANT SubscribersHear
INVARIANT SubscriberAwake
PROPERTY QueueMoves
PROPERTY LockPasses
PROPERTY SubscriptionEnds
