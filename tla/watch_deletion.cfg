CONSTANTS
    p = p
    q = q
    new = new
    Paths = {p, q}
    Contents = {new}
    Absent = Absent
    Root = Root
    WatchError = WatchError
    NoTree = NoTree
    MaxEdits = 2
    MaxLost = 0
    MaxFaults = 0
    MaxStops = 0
SPECIFICATION Spec
CHECK_DEADLOCK FALSE
PROPERTIES
    RunsUntilStopped
