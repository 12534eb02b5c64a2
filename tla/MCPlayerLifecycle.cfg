SPECIFICATION MCSpec
CONSTANTS
    p1 = p1
    p2 = p2
    Players = {p1, p2}
    SessionOf <- Sessions
    MaxEpoch = 3
    MaxStamp = 2
    MaxRecords = 1
    MaxRestarts = 1
INVARIANTS
    LifecycleInv
    LoadedIsLatest
    CleanIsSaved
    DrainLosesNothing
PROPERTIES
    BindingNeverRegresses
    EventuallyServed
CHECK_DEADLOCK FALSE
