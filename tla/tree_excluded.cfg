CONSTANTS
    EraName = 0
    Excluded = {2}
    Starts <- AnyTree
    PathEdits <- SomeEdits
    LateHints = FALSE
    MaxEdits = 2
    MaxOps = 3
    MaxCrashes = 1
SPECIFICATION TreeSpec
CHECK_DEADLOCK FALSE
PROPERTIES
    ExcludedPreserved
