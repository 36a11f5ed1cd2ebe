SPECIFICATION Spec
CONSTANTS
    Approvals = {a1, a2}
    Users = {u1, u2, u3}
    Rules = {r1}
    NoRow = NoRow
    NoId = NoId
    NoRule = NoRule
    Idle = Idle
    Sessions = {s1}
    Scheduler = Scheduler
    Overlap = FALSE
    Endpoints = {"create", "create_by_rule", "vote", "legacy_vote", "cancel", "cancel_by_name", "list", "delete_rule"}
    AnonymousIds = TRUE
    Thresholds = {1, 2}
    RuleThresholds = {2}
    MaxEscalations = 1
SYMMETRY MCSymmetry
INVARIANTS
    FourEyes MyPendingMissesNothing
PROPERTIES
    ResolvedIsFinal
CHECK_DEADLOCK FALSE
