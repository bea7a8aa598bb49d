SPECIFICATION Spec
CONSTANTS
    m1 = m1
    m2 = m2
    th1 = th1
    s1 = s1
    s2 = s2
    Messages = {m1, m2}
    Threads = {th1}
    Sessions = {s1, s2}
    TurnTimeoutEnv = 60000
    None = None
INVARIANT OneSessionPerThread
