CONSTANTS
    Contenders = {1, 2, 3}
    Free = Free
    LockWaitTimeout = 1
    StaleLockAge = 3
    MaxHold = 2
    MaxFaults = 1
SPECIFICATION FairSpec
CHECK_DEADLOCK TRUE
INVARIANTS
    ExcludesUntilFault
PROPERTIES
    ImplementsLock
    RequestsAnswered
    OrphanRemoved
