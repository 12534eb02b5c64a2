SPECIFICATION Spec
CONSTANTS
    Players = {1}
    Services = {"scene"}
    Logins <- SamePlayer
    Reauth = FALSE
    MaxSession = 2
    Channels = {1}
    MaxSessions = 2
    MaxRoutes = 1
    EpochLimit = 2
    MaxSeq = 1
    MaxQueued = 1
INVARIANTS
    NoGhost
