SPECIFICATION ClientSpec
CONSTANTS
    Dirs = {d1, d2}
    Names = {n1}
    MaxEdits = 3
    MaxWire = 2
    MaxRare = 1
    MaxJobs = 2
    MaxOdd = 1
    None = None
SYMMETRY Symmetry
CHECK_DEADLOCK FALSE
INVARIANT Mirror
INVARIANT EditKept
INVARIANT ListShown
