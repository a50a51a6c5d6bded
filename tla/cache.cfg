CONSTANTS
    Procs = {p1, p2}
    Paths = {"f"}
    Contents = {a, b}
    None = None
    Free = Free
    MaxTime = 2
    MaxEdits = 2
    MaxOps = 2
    MaxFaults = 1
SPECIFICATION Spec
SYMMETRY CacheSymmetry
CHECK_DEADLOCK FALSE
INVARIANTS
    CacheExact
    CacheInv
PROPERTIES
    HitsRight
