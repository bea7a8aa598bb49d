SPECIFICATION HistorySpec
CONSTANTS
    u1 = u1
    u2 = u2
    Users = {u1, u2}
    c1 = c1
    c2 = c2
    Calls = {c1, c2}
    Ports = {1, 2}
    g1 = g1
    g2 = g2
    Gens = {g1, g2}
    Refs = {1, 2, 3}
    MaxSandboxes = 0
    FaultKinds = {"db", "cli", "slow", "probe", "pod", "tunnel"}
    MaxFaults = 1
    MaxRestarts = 1
    None = None
CONSTRAINT Focus
SYMMETRY Symmetry
INVARIANT PortAccounting
INVARIANT ClientReachesOwner
INVARIANT RowTellsTruth
INVARIANT OnePodPerUser
