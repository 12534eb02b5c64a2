SPECIFICATION Spec
CONSTANTS
    Players = {1}
    Services = {"scene"}
    Logins <- SamePlayer
    Reauth = TRUE
    MaxSession = 1
    Channels = {1}
    MaxSessions = 2
    MaxRoutes = 1
    EpochLimit = 1
    MaxSeq = 1
    MaxQueued = 1
PROPERTIES
    SilentExpiry
