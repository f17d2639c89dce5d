SPECIFICATION ChecksSpec
CONSTANTS
    Pids <- TwoPids
    Nobody = Nobody
    None = None
    ThePid = 1
    FilePid = 2
    Setups <- TheSetups
    MaxBorn = 3
    HmcServers = {s1, s2}
    Lpars = {l1}
    Unbound = Unbound
    NoServer = NoServer
    MaxHmcRuns = 3
    Documents <- TheDocuments
    Configs <- TheConfigs
    Depth = 4
    Width = 3
    MaxWasRuns = 1
INVARIANTS
    ReportInv
    HmcInv
    WasInv
PROPERTIES
    RunsReport
CHECK_DEADLOCK FALSE
