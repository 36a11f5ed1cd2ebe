SPECIFICATION Spec
CONSTANTS
    MaxInstallAttempts = 3
    NoEntry = NoEntry
    Nodes = {n1}
    Requests <- MCAllRequests
    AutoRegister = FALSE
    TimeoutEnabled = TRUE
    AwareTimestamps = FALSE
INVARIANTS
    RetryLimitHolds FailuresBelongToInstall
PROPERTIES
    AuditedMoves RetiredLeavesByForce
