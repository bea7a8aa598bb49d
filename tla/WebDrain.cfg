SPECIFICATION WebSpec
CONSTANTS
    s1 = s1
    Sessions = {s1}
    w1 = w1
    w2 = w2
    Sockets = {w1, w2}
    t1 = t1
    t2 = t2
    Turns = {t1, t2}
    MaxQueue = 2
    None = None
SYMMETRY Symmetry
PROPERTY OneDrainPerEnd
