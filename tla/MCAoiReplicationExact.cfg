SPECIFICATION Spec
CHECK_DEADLOCK FALSE
CONSTANTS
    Entities = {1}
    Positions = {1, 2}
    Remotes = {1}
    MaxSeq = 3
    MaxRequests = 2
INVARIANTS
    QuietExact
