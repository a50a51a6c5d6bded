CONSTANTS
    p1 = p1
    p2 = p2
    p3 = p3
    main = main
    dev = dev
    ws = ws
    root = root
    Procs = {p1, p2}
    Branches = {main, dev}
    Workspaces = {}
    MainBranch = main
    MainRoot = root
    RootOf <- SharedRoot
    Paths = {"f"}
    Contents = {0, 1, 2}
    IndexLock = IndexLock
    Free = Free
    Orphan = Orphan
    Ops = {"restore"}
    RawIds = FALSE
    HasIndex = TRUE
    MaxOps = 1
    MaxEdits = 2
    MaxFaults = 0
SPECIFICATION Spec
CHECK_DEADLOCK FALSE
PROPERTIES
    OverwrittenWorkSaved
