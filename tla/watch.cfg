CONSTANTS
    p = p
    q = q
    new = new
    Paths = {p, q}
    Contents = {new}
    Absent = Absent
    Root = Root
    WatchError = WatchError
    NoTree = NoTree
    MaxEdits = 2
    MaxLost = 1
    MaxFaults = 1
    MaxStops = 1
SPECIFICATION Spec
CHECK_DEADLOCK FALSE
INVARIANTS
    NothingForgotten
    RecordedFresh
PROPERTIES
    EditsRecorded
