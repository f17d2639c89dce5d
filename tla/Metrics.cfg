SPECIFICATION Spec
CONSTANTS
    c1 = c1
    c2 = c2
    s1 = s1
    s2 = s2
    Contexts = {c1, c2}
    Sources = {s1, s2}
    EXPIRY = 1
    THRESHOLD = 1
    Workloads <- TheWorkloads
    Interval = 2
    Aggregates = {"min", "max", "median", "avg", "sum", "count"}
    Percentiles = {0, 10, 50, 95}
    None = None
INVARIANTS
    Consistent
PROPERTIES
    ImplementsReference
    ExpiryHolds
CHECK_DEADLOCK FALSE
