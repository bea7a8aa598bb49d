SPECIFICATION FairSpec
CONSTANTS
    t1 = t1
    t2 = t2
    ToolCalls = {t1, t2}
    MaxEvents = 2
    MaxTimeouts = 1
    MaxTools = 2
    MayLeave = FALSE
    MaySignal = FALSE
CHECK_DEADLOCK FALSE
PROPERTY ToolsUndisturbed
