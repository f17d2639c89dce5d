SPECIFICATION FairSpec
CONSTANTS
    Workers = {w1}
    Submitters = {p1}
    QUEUES_SIZE = 1
    RETRY_INTERVAL = 1
    MAX_RETRY_INTERVAL = 1
    FLUSH_INTERVAL = 1
    RETRY_QUEUE_MAX_SIZE = 1
    MaxTransactions = 2
    MaxTry = 1
    StatCap = 0
    MaxCopies = 1
    None = None
    RetryWorker = RetryWorker
PROPERTIES
    ImplementsDelivery
    RetryListDrains
    EventuallySettled
    StopEndsThreads
CHECK_DEADLOCK FALSE
