SPECIFICATION SSpec
CONSTANTS
    MaxInstallAttempts = 3
    NoEntry = NoEntry
    Nodes = {n1}
    Requests <- MCAllRequests
    AutoRegister = FALSE
    TimeoutEnabled = TRUE
    AwareTimestamps = FALSE
    Sessions = {s1}
    NoRequest = NoRequest
    AttemptsCap = 3
PROPERTIES
    ImplementsAtomicRequests
