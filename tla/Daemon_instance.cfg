SPECIFICATION DaemonSpec
CONSTANTS
    Processes = {p1, p2}
    Absent = Absent
    Empty = Empty
    None = None
SYMMETRY Interchangeable
INVARIANTS
    OneInstance
CHECK_DEADLOCK FALSE
