SPECIFICATION Spec
CONSTANTS
    Users = {1}
    Delays = {6}
    Unit = 2
    Slots = 3
    CatchUp = 5
    MaxPending = 2
    MaxClock = 12
    MaxIds = 2
    MaxAsked = 1
    MaxStops = 0
INVARIANTS
    FiresAtItsTick
