SPECIFICATION Spec
CONSTANTS
    s1 = s1
    Sessions = {s1}
    c1 = c1
    Calls = {c1}
    Ops = {"send"}
    FaultKinds = {"lost"}
    MaxFaults = 1
    MaxStates = 1
    None = None
SYMMETRY Symmetry
CHECK_DEADLOCK FALSE
INVARIANT PromptRunsOnce
