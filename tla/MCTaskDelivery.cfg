SPECIFICATION Spec
CONSTANTS
    t1 = t1
    t2 = t2
    t3 = t3
    w1 = w1
    w2 = w2
    mysql = mysql
    badShard = badShard
    Tasks <- TasksTwo
    Workers = {w1, w2}
    Channels = {mysql}
    Owner <- OwnerTwo
    Channel <- ChannelTwo
    Transactional = {t1}
    MaxTasks = 1
    LedgerCapacity = 1
    RetryCapacity = 1
    MaxAttempts = 3
    QueueCapacity = 2
INVARIANTS
    DeliveryInv
    ExecutedOnce
    HandedOnce
    ResultTruthful
    ForgottenOnlyWhenHanded
PROPERTIES
    AckIsFinal
CHECK_DEADLOCK FALSE
