SPECIFICATION Spec
CONSTANTS
    Players = {1}
    Services = {"scene"}
    Logins <- SamePlayer
    Reauth = TRUE
    MaxSession = 2
    Channels = {1}
    MaxSessions = 2
    MaxRoutes = 1
    EpochLimit = 3
    MaxSeq = 2
    MaxQueued = 1
INVARIANTS
    GatewayInv
    BindingBracketed
    AnsweredOnce
PROPERTIES
    NewestEpochOnly
