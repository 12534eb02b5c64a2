SPECIFICATION FairSpec
CONSTANTS
    Players = {1}
    Services = {"scene", "chat"}
    Logins <- OwnPlayer
    Reauth = FALSE
    MaxSession = 1
    Channels = {1, 2}
    MaxSessions = 1
    MaxRoutes = 2
    EpochLimit = 3
    MaxSeq = 2
    MaxQueued = 1
INVARIANTS
    NoGhost
PROPERTIES
    EveryRequestSettled
