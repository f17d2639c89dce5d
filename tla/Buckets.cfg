SPECIFICATION Spec
CONSTANTS
    Counters = {hits}
    Gauges = {load, packets}
    PacketCount = packets
    INTERVAL = 2
    FLUSH_INTERVAL = 2
    EXPIRY = 3
    MaxTime = 6
    MaxSamples = 2
    None = None
INVARIANTS
    Conserved
    Consistent
PROPERTIES
    CountersKeepPace
    ExpiryHolds
CHECK_DEADLOCK FALSE
