SPECIFICATION Spec
CONSTANTS
    p1 = p1
    p2 = p2
    p3 = p3
    Processes <- ThreeProcesses
    Absent = Absent
    Empty = Empty
    None = None
    MaxSignals = 2
INVARIANTS
    DaemonInv
    LifecycleInv
PROPERTIES
    StopEndsAgent
    EndsWhenTold
CHECK_DEADLOCK FALSE
