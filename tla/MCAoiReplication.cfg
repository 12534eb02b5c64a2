SPECIFICATION FairSpec
CHECK_DEADLOCK FALSE
CONSTANTS
    Entities = {1, 2}
    Positions = {1, 2}
    Remotes = {1}
    MaxSeq = 4
    MaxRequests = 1
INVARIANTS
    ReplicaInv
PROPERTIES
    NeverBackwards
    EventuallyMirrored
