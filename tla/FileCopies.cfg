SPECIFICATION CopySpec
CONSTANTS
    Tasks = {t1, t2}
    Kinds = {"manual", "scheduled", "evict"}
    NoTask = NoTask
    Files = {fa, fb, fc}
    NoFile = NoFile
    Always = {fa}
    Refused = {fc}
    MaxFiles = 1
    AgentRestarts = TRUE
    fa = fa
    fb = fb
    fc = fc
    Requests = {r1, r2, r3}
    NoRequest = NoRequest
    BootFiles = {fa, fb, fc}
    Stem <- FileStem
    Ops = {o1, o2}
    FailureThreshold = 3
    MaxRetries = 3
    BatchSize = 1
    NoItem = NoItem
    CentralRefuses = TRUE
    Crashes = FALSE
    ThreadHops = FALSE
    s1 = s1
    Serials = {s1}
    Hardware <- PiHardware
    Installed <- PiInstalled
    NodesDirIsRoot = TRUE
    AutoRegisterPi = TRUE
INVARIANTS
    EntryHasFile FilesAreWhole 
PROPERTIES
    QueuedIsSettled
CHECK_DEADLOCK FALSE
