CONSTANTS
    p1 = p1
    p2 = p2
    p3 = p3
    main = main
    dev = dev
    ws = ws
    root = root
    Procs = {p1, p2, p3}
    Branches = {main, dev}
    Workspaces = {ws}
    MainBranch = main
    MainRoot = root
    RootOf <- MixedRoots
    Paths = {"f"}
    Contents = {0, 1}
    IndexLock = IndexLock
    Free = Free
    Orphan = Orphan
    Ops = {"snapshot", "snapshot_if_changed", "create_branch", "switch_branch", "restore", "snapshot_graph"}
    RawIds = FALSE
    HasIndex = FALSE
    MaxOps = 2
    MaxEdits = 1
    MaxFaults = 1
SPECIFICATION FairSpec
CHECK_DEADLOCK FALSE
INVARIANTS
    CompletedMeansClean

    
    
