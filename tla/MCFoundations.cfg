SPECIFICATION FoundationsSpec
CHECK_DEADLOCK FALSE
CONSTANTS
    Users = {1}
    Delays = {1, 2, 3}
    Unit = 1
    Slots = 2
    CatchUp = 2
    MaxPending = 2
    MaxClock = 6
    MaxIds = 4
    MaxAsked = 2
    MaxStops = 1
    GateTimers <- TimerNames
    Interval <- Repeats
    kTickUs = 2
    GateDelays = {0, 1, 3}
    MaxTime = 6
    Conns = {"c1", "c2", "c3", "c4"}
    Handshakes <- TwoScenes
    PoolSize = 2
    SceneService = 1
INVARIANTS
    WheelInv
    DueInWheelTime
    TimersCovered
    BytesExact
    RegistryInv
