\* Each of these is refuted; TLC stops at the first one it meets.
SPECIFICATION Spec
CONSTANTS
    Users = {1}
    Delays = {1, 4}
    Unit = 2
    Slots = 3
    CatchUp = 2
    MaxPending = 2
    MaxClock = 12
    MaxIds = 4
    MaxAsked = 3
    MaxStops = 0
INVARIANTS
    NeverEarly
    SkippedIsMadeUp
    ByUserIsLive
