SPECIFICATION Spec
CONSTANTS
    Workers = {w1, w2}
    Submitters = {p1, p2}
    QUEUES_SIZE = 1
    RETRY_INTERVAL = 1
    MAX_RETRY_INTERVAL = 2
    FLUSH_INTERVAL = 1
    RETRY_QUEUE_MAX_SIZE = 1
    MaxTransactions = 2
    MaxTry = 2
    StatCap = 2
    MaxCopies = 0
    None = None
    RetryWorker = RetryWorker
SYMMETRY Interchangeable
INVARIANTS
    ForwarderInv
    OnePlace
    RespectBackoff
PROPERTIES
    ImplementsDelivery
    NewestFirst
CHECK_DEADLOCK FALSE
