SPECIFICATION Spec
CONSTANTS
    None = None
    Top = "top"
    NoFile = NoFile
    Default <- TheDefaults
    Yamls <- SomeFiles
    Environments <- SomeEnvironments
    SearchPaths <- TwoPaths
    Dirs <- ThreeDirs
    flat = flat
    conf = conf
    default = default
    stray = stray
    Files <- FourFiles
    CheckOfFile <- TheirNames
    Defaults <- TheDefault
    Contents <- Lists
    Walks <- Orders
    MaxEdits = 1
    cpu = cpu
    disk1 = disk1
    disk2 = disk2
    disk3 = disk3
    disk4 = disk4
    GLOBAL = 11
    Checks <- TwoChecks
    Order <- TheirInstances
    CheckOf <- TheirChecks
    Config <- TheirConfigs
    Hash <- TheirHashes
    Surroundings <- OutcomesAndSettings
INVARIANTS
    ConfigInv
    LoadingInv
PROPERTIES
    CollectsWhatIsNew
CHECK_DEADLOCK FALSE
