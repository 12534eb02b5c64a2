\* Each of these is refuted; TLC stops at the first one it meets.
SPECIFICATION ThreadsSpec
CHECK_DEADLOCK FALSE
CONSTANTS
    Callers <- TwoCallers
    MaxSends = 2
    MaxCalls = 3
    MaxInput = 1
    kMaxRetries = 1
    Lengths = {1, 2}
    rollSize = 3
    MaxLines = 3
    MaxDays = 2
    Gateways = {1, 2}
    kCapacity = 3
    MaxOutput = 3
    MaxRequests = 2
INVARIANTS
    OneCloseNotice
    NoTimerOutlives
    ReleasedUnregistered
PROPERTIES
    RollsAtThreshold
