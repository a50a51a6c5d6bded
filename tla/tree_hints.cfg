CONSTANTS
    EraName = 0
    Excluded = {2}
    Starts <- Late
    PathEdits <- SomeEdits
    LateHints = TRUE
    MaxEdits = 2
    MaxOps = 3
    MaxCrashes = 1
SPECIFICATION TreeSpec
CHECK_DEADLOCK FALSE
INVARIANTS
    RepeatedHintsHarmless
