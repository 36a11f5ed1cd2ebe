SPECIFICATION FairSpec
CONSTANTS
    Approvals = {a1}
    Users = {u1, u2, u3}
    Rules = {r1}
    NoRow = NoRow
    NoId = NoId
    NoRule = NoRule
    Idle = Idle
    Sessions = {s1, s2}
    Scheduler = Scheduler
    Overlap = TRUE
    Endpoints = {"create", "create_by_rule", "vote", "legacy_vote", "cancel", "cancel_by_name", "list", "delete_rule"}
    AnonymousIds = TRUE
    Thresholds = {1, 2}
    RuleThresholds = {2}
    MaxEscalations = 3
INVARIANTS
    StatusMatchesVotes
PROPERTIES
    EscalationsComeFirst EveryRequestResolved
CHECK_DEADLOCK FALSE
