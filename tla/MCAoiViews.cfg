SPECIFICATION Spec
CHECK_DEADLOCK FALSE
CONSTANTS
    Cols = 3
    Rows = 1
    CellSize = 2
    ViewRange = 1
    Locals = {1, 2}
    Foreign = {3}
    Positions <- Strip
    PartSize = 1
    MaxEpoch = 2
    MaxChanges = 4
INVARIANTS
    ViewInv
    ClientFollows
