SPECIFICATION Spec
CONSTANTS
    Sites = {s1}
    DEGRADED_THRESHOLD = 1
    OFFLINE_THRESHOLD = 2
    MaxFailures = 1
    MaxTokens = 2
    Boots = {b1, b2}
    Lookups = {l1}
    Macs = {m1}
    DefaultAction = "discovery"
    AgentCrashes = TRUE
    HealthNodes = {h1}
    StaleThreshold = 1
    OfflineThreshold = 2
    StalenessWeight = 40
    ScoreBelow = 50
    Penalties = {30}
INVARIANTS
    OneActiveAlert
PROPERTIES
    StatusConverges BootsAreAnswered AlertsConverge
CHECK_DEADLOCK FALSE
