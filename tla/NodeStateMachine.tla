-------------------------- MODULE NodeStateMachine --------------------------
(***************************************************************************)
(* The node state machine (src/src/core/state_machine.py) and the service  *)
(* through which every handler is meant to change a node's state           *)
(* (src/src/core/state_service.py), as operators on one row of the nodes   *)
(* table.                                                                  *)
(*                                                                         *)
(* A handler turns the row it loaded into an outcome: the row it leaves,   *)
(* the NodeStateLog entry it adds (or NoEntry), and whether it returns or  *)
(* raises.  get_db rolls the whole request back when the handler raises.   *)
(***************************************************************************)
EXTENDS Naturals

CONSTANTS
    MaxInstallAttempts, \* MAX_INSTALL_ATTEMPTS of state_service.py
    NoEntry             \* no row of node_state_logs

ASSUME AttemptsAssumption == MaxInstallAttempts \in Nat \ {0}

STATES ==
    { "discovered", "pending", "installing", "install_failed", "installed",
      "active", "reprovision", "deprovisioning", "migrating",
      "serving_source", "cloning_target", "retired" }

TRANSITIONS ==
    [ discovered     |-> {"pending", "cloning_target"},
      pending        |-> {"installing"},
      installing     |-> {"installed", "install_failed"},
      install_failed |-> {"pending"},
      installed      |-> {"active", "reprovision", "retired"},
      active         |-> {"reprovision", "deprovisioning", "migrating",
                          "serving_source", "cloning_target"},
      reprovision    |-> {"pending"},
      deprovisioning |-> {"retired"},
      migrating      |-> {"active"},
      serving_source |-> {"active"},
      cloning_target |-> {"installed"},
      retired        |-> {} ]

\* Mutation: the exception for "retired" written about the wrong end.
CanTransitionSwapped(from, to) ==
    IF from = "retired" THEN to # "retired" ELSE to \in TRANSITIONS[from]

CanTransition(from, to) ==
    IF to = "retired" THEN from # "retired" ELSE to \in TRANSITIONS[from]

GetValidTransitions(from) ==
    TRANSITIONS[from] \union (IF from # "retired" THEN {"retired"} ELSE {})

-----------------------------------------------------------------------------
(* Rows.  workflow_id is abstracted to what the boot endpoints tell apart:  *)
(* none assigned, one workflow_service finds, one it does not find, and the *)
(* "clone-source:..." / "clone-target:..." ids the clone routes write.      *)
(* state_changed_at is abstracted to its comparison with the install        *)
(* timeout: never set, set less than the timeout ago, set longer ago.       *)

WorkflowIds == {"none", "known", "missing", "clone"}

Ages == {"never", "recent", "timed_out"}

Row ==
    [ state    : STATES,
      attempts : Nat,        \* install_attempts
      failed   : BOOLEAN,    \* last_install_error is set
      changed  : Ages,       \* state_changed_at
      workflow : WorkflowIds ]

DefaultRow ==
    [ state |-> "discovered", attempts |-> 0, failed |-> FALSE,
      changed |-> "never", workflow |-> "none" ]

\* A row of node_state_logs.  The code does not record force; the model does,
\* so that properties can tell a forced transition from one that was checked.
Entry == [from : STATES, to : STATES, forced : BOOLEAN]

ASSUME NoEntryAssumption == NoEntry \notin Entry

Outcome == [ok : BOOLEAN, row : Row, log : Entry \union {NoEntry}]

Raise(row) == [ok |-> FALSE, row |-> row, log |-> NoEntry]

Return(row) == [ok |-> TRUE, row |-> row, log |-> NoEntry]

-----------------------------------------------------------------------------
(* StateTransitionService                                                   *)

\* Mutation: the limit is passed once more than MaxInstallAttempts failed.
RetryLimitLate(row, to) ==
    /\ row.state = "install_failed"
    /\ to = "pending"
    /\ row.attempts > MaxInstallAttempts

RetryLimitReached(row, to) ==
    /\ row.state = "install_failed"
    /\ to = "pending"
    /\ row.attempts >= MaxInstallAttempts

\* The retry limit, then the validity of the transition, both waived by force.
Refused(row, to, force) ==
    ~force /\ (RetryLimitReached(row, to) \/ ~CanTransition(row.state, to))

\* Mutation: a successful install does not clear the counters.
ResetsOnlyByForce(to, force) == force

ResetsCounters(to, force) == force \/ to = "installed"

\* StateTransitionService.transition: the checks, then the new state, its
\* timestamp, the reset of the failure counters and the audit entry.
Transition(row, to, force) ==
    IF Refused(row, to, force)
    THEN Raise(row)
    ELSE LET reset == ResetsCounters(to, force) IN
         [ ok  |-> TRUE,
           row |-> [ state    |-> to,
                     attempts |-> IF reset THEN 0 ELSE row.attempts,
                     failed   |-> IF reset THEN FALSE ELSE row.failed,
                     changed  |-> "recent",
                     workflow |-> row.workflow ],
           log |-> [from |-> row.state, to |-> to, forced |-> force] ]

\* Mutation: the state is written without the service's audit entry.
HandleInstallFailureUnlogged(row) ==
    LET counted == [row EXCEPT !.attempts = @ + 1, !.failed = TRUE] IN
    IF counted.attempts >= MaxInstallAttempts
    THEN Return([counted EXCEPT !.state = "install_failed"])
    ELSE Return(counted)

\* StateTransitionService.handle_install_failure: count the failure, and give
\* up once MaxInstallAttempts of them have been counted.
HandleInstallFailure(row) ==
    LET counted == [row EXCEPT !.attempts = @ + 1, !.failed = TRUE] IN
    IF counted.attempts >= MaxInstallAttempts
    THEN Transition(counted, "install_failed", FALSE)
    ELSE Return(counted)
=============================================================================
