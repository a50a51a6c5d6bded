CONSTANTS
    Contenders = {1, 2}
    Free = Free
    LockWaitTimeout = 1
    StaleLockAge = 2
    MaxHold = 1
    MaxFaults = 1
SPECIFICATION Spec
CHECK_DEADLOCK TRUE
INVARIANTS
    MutualExclusion
