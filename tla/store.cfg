CONSTANTS
    a = a
    b = b
    c = c
    p1 = p1
    p2 = p2
    Procs = {p1, p2}
    Blobs = {a, b, c}
    Large = {a, b, c}
    Near <- AllNear
    NoBase = NoBase
    Absent = Absent
    Broken = Broken
    MaxDepth = 1
    MaxPuts = 4
    MaxFaults = 1
    MaxDamage = 1
SPECIFICATION Spec
SYMMETRY StoreSymmetry
CHECK_DEADLOCK FALSE
INVARIANTS
    DamageContained
    StoreInv
PROPERTIES
    ImplementsContentStore
