SPECIFICATION SSpec
CONSTANTS
    MaxInstallAttempts = 2
    NoEntry = NoEntry
    Nodes = {n1}
    Requests <- MCRacing
    AutoRegister = TRUE
    TimeoutEnabled = TRUE
    AwareTimestamps = FALSE
    Sessions = {s1, s2}
    NoRequest = NoRequest
    AttemptsCap = 2
SYMMETRY SessionSymmetry
PROPERTIES
    RacersKeepToTheirOwn
