SPECIFICATION Spec
CONSTANTS
    None = None
    Floats <- SomeFloats
    Ints <- SomeInts
    DWords <- SomeDWords
    HostTags <- SomeHostTags
    Traffic <- ValidAndBad
    Threads = {t1, t2}
    Hosts <- SomeHosts
    HttpSettings <- TheSettings
    LocalSkip <- Skip
    Compression = TRUE
    MaxRequests = 1
    yaml = yaml
    image = image
    check = check
    agentLog = agentLog
    agentLog1 = agentLog1
    etc = etc
    checksd = checksd
    logs = logs
    Files = {yaml, image, check, agentLog, agentLog1}
    Unreadable = {image}
    Log = agentLog
    OldLog = agentLog1
    Dirs = {etc, checksd, logs}
    FilesIn <- SomeFilesIn
    Subdirs <- TheirSubdirs
    Paths <- ThePaths
    MaxChanges = 1
    MaxRotates = 1
INVARIANTS
    DogstatsdInv
    Understood
    HttpInv
    FlareInv
CHECK_DEADLOCK FALSE
