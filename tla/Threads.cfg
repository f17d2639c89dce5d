SPECIFICATION ThreadsSpec
CONSTANTS
    MaxTime = 2
    MaxSamples = 2
    MaxFlushes = 2
    None = None
    check = check
    metric = metric
    service_check = service_check
    event = event
    NoItem = NoItem
INVARIANTS
    Consistent
    NothingLostAlone
PROPERTIES
    ImplementsPassage
CHECK_DEADLOCK FALSE
