SPECIFICATION Spec
CONSTANTS
    Ops = {o1, o2, o3}
    FailureThreshold = 2
    MaxRetries = 2
    BatchSize = 2
    NoItem = NoItem
    CentralRefuses = TRUE
    Crashes = TRUE
    ThreadHops = TRUE
SYMMETRY OpSymmetry
INVARIANTS
    QueuedIsNotLost RetriesBounded BatchIsCurrent
