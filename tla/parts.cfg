CONSTANTS
    a = a
    b = b
    c = c
    x = x
    y = y
    Newline = Newline
    Nul = Nul
    Absent = Absent
    MaxLines = 3
    MaxTextMergeBytes = 14
    MaxLcsCells = 6
    Inputs <- AllMerges
    Chains <- Engines
    MaxDeltaDepth = 2
    MinDeltaTarget = 3
    MinDeltaSavings = 1
    HeaderCost = 1
    Width = 6
    Invalid = Invalid
    Listings <- SomeListings
    Snapshots <- SomeSnapshots
    Deltas <- SomeDeltas
    Garbage <- SomeGarbage
    MaxDamages = 2
    Snaps = 4
    MinCollapsed = 2
    Graphs <- SomeGraphs
    EraName = 0
    Excluded = {2}
    Starts <- AllTrees
    PathEdits <- SomeEdits
    LateHints = FALSE
    MaxEdits = 2
    MaxOps = 3
    MaxCrashes = 1
    u1 = u1
    u2 = u2
    u3 = u3
    i1 = i1
    i2 = i2
    outer = outer
    inner = inner
    Nobody = Nobody
    Procs = {u1, u2, u3}
    WorkspaceIds = {i1, i2}
    Paths = {outer, inner}
    Nested <- SomeNested
    Plans <- SomePlans
    MaxSnaps = 2
    MaxKilled = 1
SPECIFICATION PartsSpec
CHECK_DEADLOCK FALSE
INVARIANTS
    EditsRebuildSides
    SlicesInBounds
    OutcomeIsReference
    FileReadsBack
    OneEncoding
    DeltaRangesSound
    ShownOnce
    DrawingShowsParents
    HintedEqualsFull
    StoredDirectoriesExist
    CompareIsDiff
    CheckoutExact
    RefMeansComplete
    BranchCreatedOnce
    ListingExact
    
    
PROPERTIES
    LocalStateKept
