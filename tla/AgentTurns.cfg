SPECIFICATION HostSpec
CONSTANTS
    Sessions = {s1, s2}
    Turns = {t1, t2}
    Files = {f1}
    MaxWrites = 2
    MaxSessions = 1
    IdleTimeout = 1
    MaxClock = 2
    Entries = {e1, e2}
    TopK = 2
    PruneCycles = 2
    MaxScore = 2
    Ops = {"create", "send", "delete", "destroy", "file"}
    FaultKinds = {"ensure", "http", "lost", "tunnel", "health", "db"}
    MaxFaults = 1
    MaxStates = 2
    None = None
SYMMETRY Symmetry
CHECK_DEADLOCK FALSE
INVARIANT Cancellable
INVARIANT WritesAnnounced
INVARIANT RegisteredServed
INVARIANT CancelReaches
INVARIANT TurnKeepsSession
PROPERTY NothingSkipped
PROPERTY PruneEarned
PROPERTY NoReplayAfterEvents
