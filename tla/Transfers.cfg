SPECIFICATION Spec
CONSTANTS
    Transfers = {t1, t2}
    NoTransfer = NoTransfer
    MAX_RETRIES = 2
    MaxBlock = 2
    MaxFileBlocks = 2
    Streams = {f1, f2}
    MaxUnits = 3
    SmallUnits = 3
    ChunkUnits = 2
    ReadUnits = 3
    Bandwidth = 3
    FloorUnits = 1
    Targets = {n1, n2}
    NoTarget = NoTarget
    MaxProgress = 1
    AnswersLost = TRUE
    Ops = {o1, o2}
    Devices = {1}
    NoDevice = 0
    MaxRuns = 2
    NodeRestarts = TRUE
    MaxPartitions = 2
    MaxSize = 2
    MaxDisk = 4
    NoMinimum = NoMinimum
    Jobs = {j1}
    SyncRuns = {r1, r2}
    NoRun = NoRun
    NoJob = NoJob
    MaxConcurrent = 1
    KeepVersions = 1
    ServerRestarts = TRUE
INVARIANTS
    TransferIsSound SessionIsTrue PlanIsExact OperationsAreTrue JobsAreTrue
PROPERTIES
    DeliversFile TransfersEnd StreamsEnd RunsEnd
CHECK_DEADLOCK FALSE
