SPECIFICATION SideSpec
CONSTANTS
    t1 = t1
    t2 = t2
    ToolCalls = {t1, t2}
    MaxEvents = 3
    MaxTimeouts = 1
    MaxTools = 2
    MayLeave = TRUE
    MaySignal = TRUE
    m1 = m1
    m2 = m2
    m3 = m3
    Messages = {m1, m2, m3}
    th1 = th1
    Threads = {th1}
    s1 = s1
    s2 = s2
    s3 = s3
    Sessions = {s1, s2, s3}
    TurnTimeoutEnv = 60000
    None = None
CHECK_DEADLOCK FALSE
INVARIANT NoLostWakeup
INVARIANT Watched
INVARIANT NoStranded
PROPERTY Delivery
PROPERTY TurnEnds
PROPERTY OneTurnPerSession
PROPERTY Answered
