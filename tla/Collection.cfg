SPECIFICATION Spec
CONSTANTS
    fast = fast
    medium = medium
    slow = slow
    Order <- ThreeChecks
    Interval <- TheirIntervals
    SLEEP = 2
    META_INTERVAL = 7
    Durations = {0, 2}
    MaxFailures = 2
    Ages = 24
    metric = metric
    check1 = check1
    check2 = check2
    event = event
    NoItem = NoItem
    Items <- FourItems
    KindOf <- TheirKinds
    Contents = {"text", "bytes", "map", "object"}
    MaxEvents = 2
    plain = plain
    named = named
    PageInstances = {plain, named}
    Named = {named}
    Contexts = {"used"}
    MaxRuns = 2
    Machines <- TheMachines
    Interfaces <- TheInterfaces
    MaxAddrs = 2
    NoName = NoName
    Unread = Unread
    MaxPosts = 2
    MaxFailed = 2
INVARIANTS
    CollectorInv
    SerializerInv
    InventoryInv
PROPERTIES
    FailsForACause
    EventsLeave
    ErrorsReachPage
CHECK_DEADLOCK FALSE
