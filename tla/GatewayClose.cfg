SPECIFICATION Spec
CONSTANTS
    s1 = s1
    s2 = s2
    Sessions = {s1, s2}
    w1 = w1
    w2 = w2
    Sockets = {w1, w2}
    t1 = t1
    t2 = t2
    t3 = t3
    t4 = t4
    Turns = {t1, t2, t3, t4}
    None = None
SYMMETRY Symmetry
PROPERTY CloseSparesOthers
