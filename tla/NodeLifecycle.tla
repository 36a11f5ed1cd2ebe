--------------------------- MODULE NodeLifecycle ---------------------------
(***************************************************************************)
(* The life of the controller's nodes under the requests that register     *)
(* them, move them between states, boot them and report on them            *)
(* (src/src/api/routes/nodes.py, boot.py, boot_pi.py, and the two clone    *)
(* routes that write a node's state), each request taken as one atomic     *)
(* step.  NodeSessions splits a request into its read and its commit.      *)
(***************************************************************************)
EXTENDS NodeStateMachine

CONSTANTS
    Nodes,            \* MAC addresses
    Requests,         \* the requests clients send, a subset of AllRequests
    AutoRegister,     \* settings.registration.auto_register
    TimeoutEnabled,   \* settings.install_timeout_minutes > 0
    AwareTimestamps   \* timestamps are read back with their offset: FALSE, as
                      \* every DateTime column is declared without one

VARIABLES
    registered,  \* the nodes that have a row
    rows,        \* the nodes table
    history,     \* the newest NodeStateLog entry of each node, or NoEntry
    reply        \* what the last request was answered

vars == <<registered, rows, history, reply>>

-----------------------------------------------------------------------------
(* Requests: the operation, its argument and its force flag.                *)

Events == {"boot_started", "install_started", "install_progress",
           "install_complete", "install_failed", "first_boot", "heartbeat"}

LegacyStatuses == {"started", "progress", "complete", "failed"}

Req(op, arg, force) == [op |-> op, arg |-> arg, force |-> force]

AllRequests ==
    {Req("transition_node_state", to, force) : to \in STATES, force \in BOOLEAN}
    \union {Req("bulk_change_state", to, FALSE) : to \in STATES}
    \union {Req("report_event", e, FALSE) : e \in Events}
    \union {Req("report_legacy", s, FALSE) : s \in LegacyStatuses}
    \union {Req("assign_workflow", w, FALSE) :
                w \in {"none", "known", "missing"}}
    \union {Req(op, "none", FALSE) :
                op \in {"retire_node", "installed_callback",
                        "install_failed_callback", "boot", "boot_pi",
                        "discover_pi", "clone_boot", "create_node"}}

ASSUME RequestsAssumption == Requests \subseteq AllRequests

ASSUME SettingsAssumption ==
    AutoRegister \in BOOLEAN /\ TimeoutEnabled \in BOOLEAN
    /\ AwareTimestamps \in BOOLEAN

Replies == {"none", "ok", "error", "local", "wait", "deploy_env", "install",
            "workflow_error", "retry"}

-----------------------------------------------------------------------------
(* What each handler does to the row it loaded.                             *)

\* _handle_event: the transitions a node's own reports drive.
HandleEvent(row, event) ==
    CASE event = "install_started" /\ row.state = "pending" ->
           LET out == Transition(row, "installing", FALSE)
           IN  [out EXCEPT !.row.attempts = 0]
      [] event = "install_complete" /\ row.state = "installing" ->
           Transition(row, "installed", FALSE)
      [] event = "install_failed" /\ row.state = "installing" ->
           HandleInstallFailure(row)
      [] event = "first_boot" /\ row.state = "installed" ->
           Transition(row, "active", FALSE)
      [] OTHER -> Return(row)

\* _handle_legacy_installation_status: the older field, mapped to events.
EventTypeMap ==
    [ started |-> "install_started", progress |-> "install_progress",
      complete |-> "install_complete", failed |-> "install_failed" ]

HandleLegacyInstallationStatus(row, status) ==
    HandleEvent(row, EventTypeMap[status])

\* node_installed_callback: from "pending" the transition to "installed" is
\* invalid, and the exception leaves the handler.
InstalledCallback(row) ==
    IF row.state \in {"pending", "installing"}
    THEN Transition(row, "installed", FALSE)
    ELSE Return(row)

\* node_install_failed_callback
InstallFailedCallback(row) ==
    IF row.state \in {"pending", "installing"}
    THEN HandleInstallFailure(row)
    ELSE Return(row)

\* get_boot_script subtracts state_changed_at from an aware "now": with the
\* naive timestamp the database returns, that raises before the timeout is
\* looked at.
BootScript(row) ==
    IF row.state # "installing" \/ ~TimeoutEnabled \/ row.changed = "never"
    THEN Return(row)
    ELSE IF ~AwareTimestamps THEN Raise(row)
    ELSE IF row.changed = "timed_out" THEN HandleInstallFailure(row)
    ELSE Return(row)

\* start_clone_session on the source and clone_source_ready on the target of a
\* direct clone write the row themselves: no validation, no audit entry.
CloneBoot(row) ==
    IF row.state \in {"discovered", "active", "installed"}
    THEN Return([row EXCEPT !.state = "pending", !.changed = "recent",
                            !.workflow = "clone"])
    ELSE Return([row EXCEPT !.workflow = "clone"])

\* The outcome of a request on a loaded row.  A Pi's boot, discover_pi being
\* the one with mode=discovery, leaves the row alone.
Handle(req, row) ==
    CASE req.op \in {"transition_node_state", "bulk_change_state"} ->
           Transition(row, req.arg, req.force)
      [] req.op = "retire_node" -> Transition(row, "retired", FALSE)
      [] req.op = "report_event" -> HandleEvent(row, req.arg)
      [] req.op = "report_legacy" ->
           HandleLegacyInstallationStatus(row, req.arg)
      [] req.op = "installed_callback" -> InstalledCallback(row)
      [] req.op = "install_failed_callback" -> InstallFailedCallback(row)
      [] req.op = "boot" -> BootScript(row)
      [] req.op = "clone_boot" -> CloneBoot(row)
      [] req.op = "assign_workflow" ->
           Return([row EXCEPT !.workflow = req.arg])
      [] req.op = "create_node" -> Raise(row)
      [] OTHER -> Return(row)

\* The script get_boot_script returns, from the row the handler leaves.
PendingScript(row, noWorkflow, notFound) ==
    CASE row.workflow = "none"  -> noWorkflow
      [] row.workflow = "known" -> "install"
      [] OTHER                  -> notFound

BootReply(before, after) ==
    CASE before.state = "pending" ->
           PendingScript(before, "deploy_env", "workflow_error")
      [] before.state = "installing" /\ after.state = "install_failed" ->
           "workflow_error"
      [] before.state = "installing" /\ after.attempts > before.attempts ->
           "retry"
      [] OTHER -> "local"

\* boot_pi: the action the Pi is told to take.
PiBootReply(row) ==
    CASE row.state = "pending"    -> PendingScript(row, "local", "local")
      [] row.state = "installing" -> "wait"
      [] OTHER                    -> "local"

ReplyTo(req, before, out) ==
    CASE ~out.ok           -> "error"
      [] req.op = "boot"    -> BootReply(before, out.row)
      [] req.op \in {"boot_pi", "discover_pi"} -> PiBootReply(before)
      [] OTHER              -> "ok"

-----------------------------------------------------------------------------
Init ==
    /\ registered = {}
    /\ rows = [n \in Nodes |-> DefaultRow]
    /\ history = [n \in Nodes |-> NoEntry]
    /\ reply = "none"

\* A request on one registered node: commit what the handler left, or roll
\* back when it raised.
Serve(n, req) ==
    LET out == Handle(req, rows[n]) IN
    /\ n \in registered
    /\ req \in Requests
    /\ rows' = [rows EXCEPT ![n] = IF out.ok THEN out.row ELSE @]
    /\ history' = [history EXCEPT
                     ![n] = IF out.log = NoEntry THEN @ ELSE out.log]
    /\ reply' = ReplyTo(req, rows[n], out)
    /\ UNCHANGED registered

TransitionNodeState(n) ==
    \E to \in STATES, force \in BOOLEAN :
        Serve(n, Req("transition_node_state", to, force))

RetireNode(n) == Serve(n, Req("retire_node", "none", FALSE))

ReportNodeStatus(n) ==
    \/ \E e \in Events : Serve(n, Req("report_event", e, FALSE))
    \/ \E s \in LegacyStatuses : Serve(n, Req("report_legacy", s, FALSE))

NodeInstalledCallback(n) == Serve(n, Req("installed_callback", "none", FALSE))

NodeInstallFailedCallback(n) ==
    Serve(n, Req("install_failed_callback", "none", FALSE))

GetBootScript(n) == Serve(n, Req("boot", "none", FALSE))

PiBoot(n) ==
    \E op \in {"boot_pi", "discover_pi"} : Serve(n, Req(op, "none", FALSE))

AssignWorkflow(n) ==
    \E w \in {"none", "known", "missing"} :
        Serve(n, Req("assign_workflow", w, FALSE))

StartCloneBoot(n) == Serve(n, Req("clone_boot", "none", FALSE))

\* bulk_change_state: every node is tried, the errors are collected, and the
\* nodes that could move are committed together.
BulkChangeState(S) ==
    \E to \in STATES :
        LET req == Req("bulk_change_state", to, FALSE)
            out == [n \in S |-> Handle(req, rows[n])]
        IN
        /\ S \subseteq registered
        /\ req \in Requests
        /\ rows' = [n \in Nodes |->
                      IF n \in S /\ out[n].ok THEN out[n].row ELSE rows[n]]
        /\ history' = [n \in Nodes |->
                         IF n \in S /\ out[n].log # NoEntry
                         THEN out[n].log ELSE history[n]]
        /\ reply' = "ok"
        /\ UNCHANGED registered

\* Registration: create_node (409 for a MAC that exists), or the first boot of
\* an unknown MAC, by iPXE or by a Pi; a Pi in discovery mode is registered
\* whatever the setting.
RegisterBy(op) == op \in {"create_node", "discover_pi"} \/ AutoRegister

Register(n) ==
    \E op \in {"create_node", "boot", "boot_pi", "discover_pi"} :
        /\ Req(op, "none", FALSE) \in Requests
        /\ n \notin registered
        /\ registered' = IF RegisterBy(op) THEN registered \union {n}
                                           ELSE registered
        /\ reply' = IF op = "create_node" THEN "ok" ELSE "local"
        /\ UNCHANGED <<rows, history>>

CreateDuplicate(n) == Serve(n, Req("create_node", "none", FALSE))

\* The install timeout of a node elapses.
TimeoutElapses(n) ==
    /\ rows[n].changed = "recent"
    /\ rows' = [rows EXCEPT ![n].changed = "timed_out"]
    /\ UNCHANGED <<registered, history, reply>>

NodeStep(n) ==
    \/ Register(n)             \/ CreateDuplicate(n)
    \/ TransitionNodeState(n)  \/ RetireNode(n)
    \/ ReportNodeStatus(n)     \/ NodeInstalledCallback(n)
    \/ NodeInstallFailedCallback(n)
    \/ GetBootScript(n)        \/ PiBoot(n)
    \/ AssignWorkflow(n)       \/ StartCloneBoot(n)
    \/ TimeoutElapses(n)

Next ==
    \/ \E n \in Nodes : NodeStep(n)
    \/ \E S \in SUBSET Nodes : BulkChangeState(S)

Spec == Init /\ [][Next]_vars

-----------------------------------------------------------------------------
(* Properties                                                               *)

\* Every variable has its type, and a node without a row has no state.
TypeOK ==
    /\ registered \subseteq Nodes
    /\ rows \in [Nodes -> Row]
    /\ history \in [Nodes -> Entry \union {NoEntry}]
    /\ reply \in Replies
    /\ \A n \in Nodes \ registered :
         rows[n] = DefaultRow /\ history[n] = NoEntry

\* No sequence of reports, timeouts, callbacks and admin moves counts more
\* than MaxInstallAttempts failures, and a node at the limit is out of the
\* install loop: it is install_failed (or was retired from there) until an
\* admin forces it, and the counter starts again from zero.
RetryLimitHolds ==
    \A n \in Nodes :
        /\ rows[n].attempts <= MaxInstallAttempts
        /\ rows[n].attempts = MaxInstallAttempts
             => rows[n].state \in {"install_failed", "retired"}

\* The failures of an installation never outlive it: a node that left the
\* install loop through "installed" or by force carries neither a failure
\* count nor an install error.
FailuresBelongToInstall ==
    \A n \in Nodes :
        rows[n].attempts > 0 \/ rows[n].failed
          => rows[n].state \in
               {"pending", "installing", "install_failed", "retired"}

\* Every entry of the audit trail is a transition the state machine allows or
\* one an admin forced.
LegalHistory ==
    \A n \in Nodes :
        history[n] # NoEntry =>
            history[n].forced \/ CanTransition(history[n].from, history[n].to)

\* A node's state only changes together with an audit entry from the state it
\* had to the state it gets, the clone routes' direct write to "pending" being
\* the one exception.
AuditedMove(n) ==
    rows'[n].state # rows[n].state =>
        \/ /\ history'[n] # NoEntry
           /\ history'[n].from = rows[n].state
           /\ history'[n].to = rows'[n].state
        \/ /\ rows[n].state \in {"discovered", "active", "installed"}
           /\ rows'[n].state = "pending"
           /\ rows'[n].workflow = "clone"

AuditedMoves == [][\A n \in Nodes : AuditedMove(n)]_vars

\* A retired node comes back only by an admin's forced transition: no late
\* report, callback, boot, bulk change or clone revives it.
RetiredLeavesByForce ==
    [][\A n \in Nodes :
         rows[n].state = "retired" /\ rows'[n].state # "retired"
           => history'[n] # NoEntry /\ history'[n].forced]_vars
=============================================================================
