SPECIFICATION Spec
CONSTANTS
    Approvals = {a1}
    Users = {u1, u2}
    Rules = {r1}
    NoRow = NoRow
    NoId = NoId
    NoRule = NoRule
    Idle = Idle
    Sessions = {s1, s2}
    Scheduler = Scheduler
    Overlap = TRUE
    Endpoints = {"create", "vote"}
    AnonymousIds = FALSE
    Thresholds = {1}
    RuleThresholds = {1}
    MaxEscalations = 3
PROPERTIES
    ResolvedIsFinal
CHECK_DEADLOCK FALSE
