CONSTANTS
    t1 = t1
    t2 = t2
    t3 = t3
    w1 = w1
    w2 = w2
    mysql = mysql
    badShard = badShard
    Tasks <- TasksOne
    Workers = {w1}
    Channels = {mysql}
    Owner <- OwnerOne
    Channel <- ChannelOne
    Transactional = {t1}
    MaxTasks = 2
    LedgerCapacity = 1
    RetryCapacity = 1
    MaxAttempts = 3
    QueueCapacity = 1
SPECIFICATION FairSpec
PROPERTIES
    Settles
    ImplementsContract
CHECK_DEADLOCK FALSE
