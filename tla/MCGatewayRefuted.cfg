\* Each of these is refuted; TLC stops at the first one it meets.
SPECIFICATION Spec
CONSTANTS
    Players = {1, 2}
    Services = {"scene"}
    Logins <- AnyPlayer
    Reauth = TRUE
    MaxSession = 1
    Channels = {1}
    MaxSessions = 2
    MaxRoutes = 1
    EpochLimit = 2
    MaxSeq = 1
    MaxQueued = 1
INVARIANTS
    NoGhost
    PushGoesHome
