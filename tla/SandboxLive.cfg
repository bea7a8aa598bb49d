SPECIFICATION FairSpec
CONSTANTS
    u1 = u1
    Users = {u1}
    c1 = c1
    c2 = c2
    Calls = {c1, c2}
    Ports = {1}
    g1 = g1
    g2 = g2
    Gens = {g1, g2}
    Refs = {1, 2, 3}
    MaxSandboxes = 1
    FaultKinds = {"db", "cli", "tunnel", "pod"}
    MaxFaults = 1
    MaxRestarts = 1
    None = None
INVARIANT OneLineage
INVARIANT LockOwned
PROPERTY OneCreationPerUser
PROPERTY LockReleased
CONSTRAINT OneOutage
