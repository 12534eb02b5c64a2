SPECIFICATION Spec
CONSTANTS
    Players = {1}
    Bindings <- OnePlayer
    NumWorkers = 1
    WorkerOf <- AllOnOne
    Gateways = {1, 2}
    Sizes = {1, 2}
    InboxCapacity = 1
    MaxTasks = 2
    MaxBytes = 3
    PerWorker = 2
    GlobalAttempts = 2
    MaxSession = 2
    MaxOther = 1
    MaxWaiting = 3
    LiveWorkers = {0}
INVARIANTS
    AdmissionInv
    BusinessInsideBinding
    ViewConverges
PROPERTIES
    NeverRevived
