------------------------ MODULE NodeLifecycleProofs ------------------------
(***************************************************************************)
(* Proofs about NodeLifecycle, for every set of nodes, every set of        *)
(* requests, every retry limit and every setting.                          *)
(*                                                                         *)
(* The invariants are inductive together: the retry limit holds because a  *)
(* node with failures never leaves the install loop except to "retired"    *)
(* (FailuresBelongToInstall), and leaves install_failed for "pending" only *)
(* below the limit.  Both are facts about one row, so the work is done in  *)
(* lemmas about handlers: a handler given a good row leaves a good row,    *)
(* logs a legal transition and logs the move it makes.                     *)
(***************************************************************************)
EXTENDS NodeLifecycle, TLAPS

InstallLoop == {"pending", "installing", "install_failed", "retired"}

RowOK(row) ==
    /\ row \in Row
    /\ row.attempts <= MaxInstallAttempts
    /\ row.attempts = MaxInstallAttempts
         => row.state \in {"install_failed", "retired"}
    /\ row.attempts > 0 \/ row.failed => row.state \in InstallLoop

LegalEntry(e) == e.forced \/ CanTransition(e.from, e.to)

\* The move from one row to the next is the one the entry records.
Logs(before, out) ==
    /\ out.log # NoEntry
    /\ out.log.from = before.state
    /\ out.log.to = out.row.state

CloneMove(before, after) ==
    /\ before.state \in {"discovered", "active", "installed"}
    /\ after.state = "pending"
    /\ after.workflow = "clone"

OutcomeOK(row, out) ==
    /\ out \in Outcome
    /\ RowOK(out.row)
    /\ out.log # NoEntry => out.ok /\ LegalEntry(out.log)
    /\ out.ok /\ out.row.state # row.state
         => Logs(row, out) \/ CloneMove(row, out.row)

-----------------------------------------------------------------------------
(* Lemmas about the state machine and its service                           *)

\* get_valid_transitions lists exactly the targets can_transition accepts.
THEOREM ValidTransitionsExact ==
    \A from \in STATES :
        GetValidTransitions(from) = {to \in STATES : CanTransition(from, to)}
  BY DEF GetValidTransitions, CanTransition, STATES, TRANSITIONS

\* Nothing leaves "retired" through the checked transitions.
LEMMA RetiredIsFinal ==
    \A to \in STATES : ~CanTransition("retired", to)
  BY DEF CanTransition, TRANSITIONS, STATES

\* From the install loop, checked transitions lead on in the loop or out of it
\* through "installed", and never back to "installing" past "pending".
LEMMA LoopExits ==
    ASSUME NEW from \in InstallLoop, NEW to \in STATES, CanTransition(from, to)
    PROVE  /\ to \in InstallLoop \/ to = "installed"
           /\ from = "install_failed" => to \in {"pending", "retired"}
  BY DEF InstallLoop, CanTransition, TRANSITIONS, STATES

\* transition leaves a good row, and logs what it did, when given a good row.
LEMMA TransitionOK ==
    ASSUME NEW row, RowOK(row), NEW to \in STATES, NEW force \in BOOLEAN
    PROVE  OutcomeOK(row, Transition(row, to, force))
<1> DEFINE out == Transition(row, to, force)
<1>1. CASE Refused(row, to, force)
  BY <1>1 DEF OutcomeOK, Transition, Raise, Outcome, RowOK
<1>2. CASE ~Refused(row, to, force)
  <2>1. out.ok = TRUE /\ out.row.state = to
        /\ out.row.workflow = row.workflow /\ out.row.changed = "recent"
        /\ out.log = [from |-> row.state, to |-> to, forced |-> force]
    BY <1>2 DEF Transition
  <2>2. out.row.attempts = (IF ResetsCounters(to, force) THEN 0 ELSE row.attempts)
        /\ out.row.failed = (IF ResetsCounters(to, force) THEN FALSE ELSE row.failed)
    BY <1>2 DEF Transition
  <2>3. out \in Outcome
    BY <1>2, AttemptsAssumption
       DEF Transition, Outcome, Row, Entry, RowOK, Ages
  <2>4. out.log \in Entry /\ out.log # NoEntry
    BY <2>1, NoEntryAssumption DEF Entry, RowOK, Row
  <2>5. LegalEntry(out.log)
    BY <1>2, <2>1 DEF LegalEntry, Refused
  <2>6. RowOK(out.row)
    <3>1. CASE ResetsCounters(to, force)
      BY <3>1, <2>1, <2>2, <2>3, AttemptsAssumption DEF RowOK, Outcome
    <3>2. CASE ~ResetsCounters(to, force)
      <4>1. CanTransition(row.state, to) /\ ~RetryLimitReached(row, to)
            /\ to # "installed"
        BY <3>2, <1>2 DEF ResetsCounters, Refused
      <4>2. CASE row.state \in InstallLoop
        <5>1. to \in InstallLoop
              /\ (row.state = "install_failed" => to \in {"pending", "retired"})
          BY <4>1, <4>2, LoopExits
        <5>2. row.state # "retired"
          BY <4>1, RetiredIsFinal
        <5>3. row.attempts = MaxInstallAttempts => to = "retired"
          BY <4>1, <5>1, <5>2, AttemptsAssumption DEF RowOK, RetryLimitReached
        <5> QED
          BY <5>1, <5>3, <3>2, <2>1, <2>2, <2>3, AttemptsAssumption
             DEF RowOK, Outcome
      <4>3. CASE row.state \notin InstallLoop
        <5>1. row.attempts = 0 /\ row.failed = FALSE
          BY <4>3 DEF RowOK, Row
        <5> QED
          BY <5>1, <3>2, <2>1, <2>2, <2>3, AttemptsAssumption DEF RowOK, Outcome
      <4> QED BY <4>2, <4>3
    <3> QED BY <3>1, <3>2
  <2> QED
    BY <2>1, <2>3, <2>4, <2>5, <2>6 DEF OutcomeOK, Logs
<1> QED BY <1>1, <1>2

\* A handler that leaves the row as it found it is fine, raising or not.
LEMMA KeepOK ==
    ASSUME NEW row, RowOK(row)
    PROVE  OutcomeOK(row, Return(row)) /\ OutcomeOK(row, Raise(row))
  BY DEF OutcomeOK, Return, Raise, Outcome, RowOK

\* A counted failure stays below the limit while the node is in the loop, and
\* gives up at the limit; from "pending" giving up is refused.
LEMMA InstallFailureOK ==
    ASSUME NEW row, RowOK(row), row.state \in {"pending", "installing"}
    PROVE  LET out == HandleInstallFailure(row) IN
           /\ out.ok => OutcomeOK(row, out)
           /\ out \in Outcome
           /\ ~out.ok => out.log = NoEntry
<1> DEFINE counted == [row EXCEPT !.attempts = @ + 1, !.failed = TRUE]
<1>0. /\ row \in Row
      /\ row.attempts \in Nat
      /\ row.attempts + 1 \in Nat
      /\ row.attempts < MaxInstallAttempts
  BY AttemptsAssumption DEF RowOK, Row
<1>1. /\ counted \in Row
      /\ counted.state = row.state
      /\ counted.attempts = row.attempts + 1
      /\ counted.failed = TRUE
  BY <1>0 DEF Row, STATES, Ages, WorkflowIds
<1>2. CASE counted.attempts >= MaxInstallAttempts
  <2> DEFINE out == Transition(counted, "install_failed", FALSE)
  <2>1. HandleInstallFailure(row) = out
    BY <1>2 DEF HandleInstallFailure
  <2>2. CASE row.state = "pending"
    <3>1. Refused(counted, "install_failed", FALSE)
      BY <1>1, <2>2 DEF Refused, CanTransition, TRANSITIONS
    <3> HIDE DEF counted
    <3> QED BY <3>1, <2>1, <1>1 DEF Transition, Raise, Outcome
  <2>3. CASE row.state = "installing"
    <3>1. ~Refused(counted, "install_failed", FALSE)
          /\ CanTransition("installing", "install_failed")
      BY <1>1, <2>3 DEF Refused, RetryLimitReached, CanTransition, TRANSITIONS
    <3>2. counted.attempts = MaxInstallAttempts
      BY <1>0, <1>1, <1>2, AttemptsAssumption DEF Row
    <3> HIDE DEF counted
    <3>3. /\ out.ok = TRUE
          /\ out.row = [state |-> "install_failed",
                        attempts |-> counted.attempts, failed |-> counted.failed,
                        changed |-> "recent", workflow |-> counted.workflow]
          /\ out.log = [from |-> counted.state, to |-> "install_failed",
                        forced |-> FALSE]
          /\ out = [ok |-> out.ok, row |-> out.row, log |-> out.log]
      BY <3>1 DEF Transition, ResetsCounters
    <3> HIDE DEF out
    <3>4. out.log \in Entry /\ out.log # NoEntry
      <4>1. out.log \in Entry
        BY <3>3, <1>1 DEF Entry, STATES, Row
      <4> QED BY <4>1, NoEntryAssumption
    <3>5. RowOK(out.row)
      BY <3>2, <3>3, <1>1, AttemptsAssumption
         DEF RowOK, Row, STATES, Ages, InstallLoop
    <3>6. out \in Outcome
      BY <3>3, <3>4, <3>5 DEF Outcome, RowOK
    <3>7. LegalEntry(out.log) /\ Logs(row, out)
      BY <3>1, <3>3, <3>4, <1>1, <2>3 DEF LegalEntry, Logs
    <3> QED
      BY <3>3, <3>4, <3>5, <3>6, <3>7, <2>1 DEF OutcomeOK
  <2> QED BY <2>2, <2>3
<1>3. CASE ~(counted.attempts >= MaxInstallAttempts)
  <2>1. HandleInstallFailure(row) = Return(counted)
    BY <1>3 DEF HandleInstallFailure
  <2> HIDE DEF counted
  <2>2. RowOK(counted)
    BY <1>1, <1>3, AttemptsAssumption DEF RowOK, Row, InstallLoop
  <2> QED
    BY <2>1, <2>2, <1>1 DEF Return, OutcomeOK, Outcome, RowOK
<1> QED BY <1>2, <1>3

\* The shape every handler's outcome has: nothing happened, or all is well.
Handled(row, out) ==
    /\ out \in Outcome
    /\ out.ok => OutcomeOK(row, out)
    /\ ~out.ok => out.log = NoEntry

LEMMA OutcomeHandled ==
    ASSUME NEW row, NEW out, OutcomeOK(row, out)
    PROVE  Handled(row, out)
  BY DEF Handled, OutcomeOK

\* A report leaves a good row; "install_started" also clears the counter.
LEMMA EventOK ==
    ASSUME NEW row, RowOK(row), NEW event
    PROVE  Handled(row, HandleEvent(row, event))
<1>1. CASE event = "install_started" /\ row.state = "pending"
  <2> DEFINE out == Transition(row, "installing", FALSE)
             cleared == [out EXCEPT !.row.attempts = 0]
  <2>1. HandleEvent(row, event) = cleared
    BY <1>1 DEF HandleEvent
  <2>2. OutcomeOK(row, out) /\ out.ok /\ out.row.state = "installing"
    <3>1. OutcomeOK(row, out)
      BY TransitionOK DEF STATES
    <3>2. ~Refused(row, "installing", FALSE)
      BY <1>1 DEF Refused, RetryLimitReached, CanTransition, TRANSITIONS
    <3> QED BY <3>1, <3>2 DEF Transition
  <2> HIDE DEF out
  <2>3. /\ cleared \in Outcome
        /\ cleared.ok
        /\ cleared.log = out.log
        /\ cleared.row.state = "installing"
        /\ cleared.row.attempts = 0
    BY <2>2 DEF Outcome, OutcomeOK, Row
  <2>4. RowOK(cleared.row)
    BY <2>2, <2>3, AttemptsAssumption
       DEF RowOK, Outcome, OutcomeOK, InstallLoop
  <2> HIDE DEF cleared
  <2>5. OutcomeOK(row, cleared)
    BY <1>1, <2>2, <2>3, <2>4 DEF OutcomeOK, Logs, CloneMove
  <2> QED BY <2>1, <2>5, OutcomeHandled
<1>2. CASE event = "install_complete" /\ row.state = "installing"
  <2>1. HandleEvent(row, event) = Transition(row, "installed", FALSE)
    BY <1>2 DEF HandleEvent
  <2> QED BY <2>1, TransitionOK, OutcomeHandled DEF STATES
<1>3. CASE event = "install_failed" /\ row.state = "installing"
  <2>1. HandleEvent(row, event) = HandleInstallFailure(row)
    BY <1>3 DEF HandleEvent
  <2> QED BY <2>1, <1>3, InstallFailureOK DEF Handled
<1>4. CASE event = "first_boot" /\ row.state = "installed"
  <2>1. HandleEvent(row, event) = Transition(row, "active", FALSE)
    BY <1>4 DEF HandleEvent
  <2> QED BY <2>1, TransitionOK, OutcomeHandled DEF STATES
<1>5. CASE /\ ~(event = "install_started" /\ row.state = "pending")
           /\ ~(event = "install_complete" /\ row.state = "installing")
           /\ ~(event = "install_failed" /\ row.state = "installing")
           /\ ~(event = "first_boot" /\ row.state = "installed")
  <2>1. HandleEvent(row, event) = Return(row)
    BY <1>5 DEF HandleEvent
  <2> QED BY <2>1, KeepOK, OutcomeHandled
<1> QED BY <1>1, <1>2, <1>3, <1>4, <1>5

\* The clone routes' direct write keeps the row good: it starts from states
\* that carry no failures.
LEMMA CloneBootOK ==
    ASSUME NEW row, RowOK(row)
    PROVE  Handled(row, CloneBoot(row))
<1> DEFINE moved == [row EXCEPT !.state = "pending", !.changed = "recent",
                                !.workflow = "clone"]
           assigned == [row EXCEPT !.workflow = "clone"]
<1>1. CASE row.state \in {"discovered", "active", "installed"}
  <2>1. CloneBoot(row) = Return(moved)
    BY <1>1 DEF CloneBoot
  <2>2. moved \in Row /\ moved.state = "pending" /\ moved.workflow = "clone"
        /\ moved.attempts = row.attempts /\ moved.failed = row.failed
    BY DEF RowOK, Row, STATES, Ages, WorkflowIds
  <2> HIDE DEF moved
  <2>3. RowOK(moved)
    BY <1>1, <2>2, AttemptsAssumption DEF RowOK, InstallLoop, Row
  <2> QED
    BY <1>1, <2>1, <2>2, <2>3 DEF Handled, OutcomeOK, Return, Outcome, CloneMove
<1>2. CASE row.state \notin {"discovered", "active", "installed"}
  <2>1. CloneBoot(row) = Return(assigned)
    BY <1>2 DEF CloneBoot
  <2>2. assigned \in Row /\ assigned.state = row.state
        /\ assigned.attempts = row.attempts /\ assigned.failed = row.failed
    BY DEF RowOK, Row, WorkflowIds
  <2> HIDE DEF assigned
  <2> QED
    BY <2>1, <2>2 DEF Handled, OutcomeOK, Return, Outcome, RowOK
<1> QED BY <1>1, <1>2

\* Any request on a good row.
LEMMA HandleOK ==
    ASSUME NEW row, RowOK(row), NEW req \in AllRequests
    PROVE  Handled(row, Handle(req, row))
<1>1. CASE req.op \in {"transition_node_state", "bulk_change_state"}
  <2>1. \E to \in STATES, force \in BOOLEAN :
          req.arg = to /\ req.force = force
    <3>1. \/ \E to \in STATES, force \in BOOLEAN :
               req = [op |-> "transition_node_state", arg |-> to,
                      force |-> force]
          \/ \E to \in STATES :
               req = [op |-> "bulk_change_state", arg |-> to, force |-> FALSE]
      BY <1>1 DEF AllRequests, Req
    <3>2. ASSUME NEW to \in STATES, NEW force \in BOOLEAN, NEW op,
                 req = [op |-> op, arg |-> to, force |-> force]
          PROVE  req.arg = to /\ req.force = force
      BY <3>2, Zenon
    <3>3. CASE \E to \in STATES, force \in BOOLEAN :
               req = [op |-> "transition_node_state", arg |-> to,
                      force |-> force]
      BY <3>2, <3>3, Zenon
    <3>4. CASE \E to \in STATES :
               req = [op |-> "bulk_change_state", arg |-> to, force |-> FALSE]
      BY <3>2, <3>4, Zenon
    <3> QED BY <3>1, <3>3, <3>4
  <2>2. Handle(req, row) = Transition(row, req.arg, req.force)
    BY <1>1 DEF Handle
  <2> QED BY <2>1, <2>2, TransitionOK, OutcomeHandled
<1>2. CASE req.op = "retire_node"
  <2>1. Handle(req, row) = Transition(row, "retired", FALSE)
    BY <1>2 DEF Handle
  <2> QED BY <2>1, TransitionOK, OutcomeHandled DEF STATES
<1>3. CASE req.op = "report_event"
  <2>1. Handle(req, row) = HandleEvent(row, req.arg)
    BY <1>3 DEF Handle
  <2> QED BY <2>1, EventOK
<1>4. CASE req.op = "report_legacy"
  <2>1. Handle(req, row) = HandleEvent(row, EventTypeMap[req.arg])
    BY <1>4 DEF Handle, HandleLegacyInstallationStatus
  <2> QED BY <2>1, EventOK
<1>5. CASE req.op = "installed_callback"
  <2>1. Handle(req, row) = InstalledCallback(row)
    BY <1>5 DEF Handle
  <2>2. CASE row.state \in {"pending", "installing"}
    <3>1. InstalledCallback(row) = Transition(row, "installed", FALSE)
      BY <2>2 DEF InstalledCallback
    <3> QED BY <2>1, <3>1, TransitionOK, OutcomeHandled DEF STATES
  <2>3. CASE row.state \notin {"pending", "installing"}
    BY <2>1, <2>3, KeepOK, OutcomeHandled DEF InstalledCallback
  <2> QED BY <2>2, <2>3
<1>6. CASE req.op = "install_failed_callback"
  <2>1. Handle(req, row) = InstallFailedCallback(row)
    BY <1>6 DEF Handle
  <2>2. CASE row.state \in {"pending", "installing"}
    <3>1. InstallFailedCallback(row) = HandleInstallFailure(row)
      BY <2>2 DEF InstallFailedCallback
    <3> QED BY <2>1, <2>2, <3>1, InstallFailureOK DEF Handled
  <2>3. CASE row.state \notin {"pending", "installing"}
    BY <2>1, <2>3, KeepOK, OutcomeHandled DEF InstallFailedCallback
  <2> QED BY <2>2, <2>3
<1>7. CASE req.op = "boot"
  <2>1. Handle(req, row) = BootScript(row)
    BY <1>7 DEF Handle
  <2>2. \/ BootScript(row) = Return(row)
        \/ BootScript(row) = Raise(row)
        \/ /\ BootScript(row) = HandleInstallFailure(row)
           /\ row.state = "installing"
    BY DEF BootScript
  <2>3. CASE BootScript(row) \in {Return(row), Raise(row)}
    BY <2>1, <2>3, KeepOK, OutcomeHandled
  <2>4. CASE BootScript(row) = HandleInstallFailure(row)
             /\ row.state = "installing"
    BY <2>1, <2>4, InstallFailureOK DEF Handled
  <2> QED BY <2>2, <2>3, <2>4
<1>8. CASE req.op = "clone_boot"
  <2>1. Handle(req, row) = CloneBoot(row)
    BY <1>8 DEF Handle
  <2> QED BY <2>1, CloneBootOK
<1>9. CASE req.op = "assign_workflow"
  <2> DEFINE assigned == [row EXCEPT !.workflow = req.arg]
  <2>1. Handle(req, row) = Return(assigned)
    BY <1>9 DEF Handle
  <2>2. req.arg \in WorkflowIds
    BY <1>9 DEF AllRequests, Req, WorkflowIds
  <2>3. row \in Row
    BY DEF RowOK
  <2>4. assigned \in Row /\ assigned.state = row.state
        /\ assigned.attempts = row.attempts /\ assigned.failed = row.failed
    BY <2>2, <2>3 DEF Row
  <2> HIDE DEF assigned
  <2> QED
    BY <2>1, <2>4 DEF Handled, OutcomeOK, Return, Outcome, RowOK
<1>10. CASE req.op = "create_node"
  <2>1. Handle(req, row) = Raise(row)
    BY <1>10 DEF Handle
  <2> QED BY <2>1, KeepOK, OutcomeHandled
<1>11. CASE req.op \notin {"transition_node_state", "bulk_change_state",
          "retire_node", "report_event", "report_legacy",
          "installed_callback", "install_failed_callback", "boot",
          "clone_boot", "assign_workflow", "create_node"}
  <2>1. Handle(req, row) = Return(row)
    BY <1>11 DEF Handle
  <2> QED BY <2>1, KeepOK, OutcomeHandled
<1> QED
  BY <1>1, <1>2, <1>3, <1>4, <1>5, <1>6, <1>7, <1>8, <1>9, <1>10, <1>11

-----------------------------------------------------------------------------
(* One step of the specification                                            *)

\* The inductive invariant.
IInv == TypeOK /\ RetryLimitHolds /\ FailuresBelongToInstall /\ LegalHistory

LEMMA IInvRows ==
    ASSUME IInv, NEW n \in Nodes
    PROVE  RowOK(rows[n])
  BY DEF IInv, TypeOK, RetryLimitHolds, FailuresBelongToInstall, RowOK,
         InstallLoop

\* What a step does to a node: nothing, or what a good outcome says.
NodeMoved(n) ==
    \/ rows'[n] = rows[n] /\ history'[n] = history[n]
    \/ /\ n \in registered
       /\ \E out \in Outcome :
            /\ out.ok
            /\ OutcomeOK(rows[n], out)
            /\ rows'[n] = out.row
            /\ history'[n] = IF out.log = NoEntry THEN history[n] ELSE out.log

StepOK ==
    /\ registered \subseteq registered' /\ registered' \subseteq Nodes
    /\ rows' = [n \in Nodes |-> rows'[n]]
    /\ history' = [n \in Nodes |-> history'[n]]
    /\ reply' \in Replies
    /\ \A n \in Nodes : NodeMoved(n)

LEMMA RepliesTyped ==
    ASSUME NEW req, NEW before, NEW out
    PROVE  ReplyTo(req, before, out) \in Replies
<1>1. PendingScript(before, "deploy_env", "workflow_error") \in Replies
      /\ PendingScript(before, "local", "local") \in Replies
  BY DEF PendingScript, Replies
<1>2. BootReply(before, out.row) \in Replies
  BY <1>1 DEF BootReply, Replies
<1>3. PiBootReply(before) \in Replies
  BY <1>1 DEF PiBootReply, Replies
<1> QED BY <1>2, <1>3 DEF ReplyTo, Replies

LEMMA ServeOK ==
    ASSUME IInv, NEW m \in Nodes, NEW req \in AllRequests, Serve(m, req)
    PROVE  StepOK
<1> DEFINE out == Handle(req, rows[m])
<1>1. Handled(rows[m], out)
  BY IInvRows, HandleOK
<1>2. /\ m \in registered
      /\ rows' = [rows EXCEPT ![m] = IF out.ok THEN out.row ELSE @]
      /\ history' = [history EXCEPT ![m] = IF out.log = NoEntry THEN @ ELSE out.log]
      /\ reply' = ReplyTo(req, rows[m], out)
      /\ registered' = registered
  BY DEF Serve
<1> HIDE DEF out
<1>3. reply' \in Replies
  BY <1>2, RepliesTyped
<1>4. rows' = [n \in Nodes |-> rows'[n]] /\ history' = [n \in Nodes |-> history'[n]]
  BY <1>2 DEF IInv, TypeOK
<1>5. ASSUME NEW n \in Nodes PROVE NodeMoved(n)
  <2>1. CASE n # m
    BY <1>2, <2>1 DEF NodeMoved, IInv, TypeOK
  <2>2. CASE n = m /\ ~out.ok
    BY <1>1, <1>2, <2>2 DEF NodeMoved, Handled, IInv, TypeOK
  <2>3. CASE n = m /\ out.ok
    BY <1>1, <1>2, <2>3 DEF NodeMoved, Handled, IInv, TypeOK
  <2> QED BY <2>1, <2>2, <2>3
<1> QED BY <1>2, <1>3, <1>4, <1>5 DEF StepOK, IInv, TypeOK

LEMMA BulkOK ==
    ASSUME IInv, NEW S \in SUBSET Nodes, BulkChangeState(S)
    PROVE  StepOK
<1>1. PICK to \in STATES :
        LET req == Req("bulk_change_state", to, FALSE)
            out == [n \in S |-> Handle(req, rows[n])]
        IN
        /\ S \subseteq registered
        /\ req \in Requests
        /\ rows' = [n \in Nodes |->
                      IF n \in S /\ out[n].ok THEN out[n].row ELSE rows[n]]
        /\ history' = [n \in Nodes |->
                         IF n \in S /\ out[n].log # NoEntry
                         THEN out[n].log ELSE history[n]]
        /\ reply' = "ok"
        /\ UNCHANGED registered
  BY DEF BulkChangeState
<1> DEFINE req == Req("bulk_change_state", to, FALSE)
           H(n) == Handle(req, rows[n])
<1>2. req \in AllRequests
  BY <1>1, RequestsAssumption
<1>3. ASSUME NEW n \in Nodes PROVE Handled(rows[n], H(n))
  BY <1>2, IInvRows, HandleOK
<1> HIDE DEF req
<1>4. ASSUME NEW n \in Nodes
      PROVE  /\ rows'[n] = IF n \in S /\ H(n).ok THEN H(n).row ELSE rows[n]
             /\ history'[n] = IF n \in S /\ H(n).log # NoEntry
                              THEN H(n).log ELSE history[n]
  BY <1>1 DEF req
<1> HIDE DEF H
<1>5. ASSUME NEW n \in Nodes PROVE NodeMoved(n)
  <2>1. CASE n \notin S \/ ~H(n).ok
    BY <1>3, <1>4, <2>1 DEF NodeMoved, Handled
  <2>2. CASE n \in S /\ H(n).ok
    BY <1>1, <1>3, <1>4, <2>2 DEF NodeMoved, Handled
  <2> QED BY <2>1, <2>2
<1>6. rows' = [n \in Nodes |-> rows'[n]] /\ history' = [n \in Nodes |-> history'[n]]
  BY <1>1
<1> QED BY <1>1, <1>5, <1>6 DEF StepOK, IInv, TypeOK, Replies

LEMMA TimeoutOK ==
    ASSUME IInv, NEW m \in Nodes, TimeoutElapses(m)
    PROVE  StepOK
<1> DEFINE aged == [rows[m] EXCEPT !.changed = "timed_out"]
<1>1. /\ rows[m].changed = "recent" /\ rows[m] \in Row
      /\ rows' = [rows EXCEPT ![m] = aged]
      /\ registered' = registered /\ history' = history /\ reply' = reply
  BY DEF TimeoutElapses, IInv, TypeOK
<1>2. m \in registered
  BY <1>1 DEF IInv, TypeOK, DefaultRow
<1>3. aged \in Row /\ aged.state = rows[m].state
      /\ aged.attempts = rows[m].attempts /\ aged.failed = rows[m].failed
  BY <1>1 DEF Row, Ages
<1> HIDE DEF aged
<1>4. RowOK(aged)
  BY <1>3, IInvRows DEF RowOK
<1>5. Return(aged) \in Outcome /\ OutcomeOK(rows[m], Return(aged))
      /\ Return(aged).ok /\ Return(aged).row = aged
      /\ Return(aged).log = NoEntry
  BY <1>3, <1>4 DEF Return, Outcome, OutcomeOK
<1>6. ASSUME NEW n \in Nodes PROVE NodeMoved(n)
  BY <1>1, <1>2, <1>5 DEF NodeMoved, IInv, TypeOK
<1> QED BY <1>1, <1>6 DEF StepOK, IInv, TypeOK

LEMMA RegisterOK ==
    ASSUME IInv, NEW m \in Nodes, Register(m)
    PROVE  StepOK
  BY DEF Register, RegisterBy, StepOK, NodeMoved, IInv, TypeOK, Replies

\* Every step moves every node by a good outcome, if at all.
LEMMA NextOK ==
    ASSUME IInv, [Next]_vars
    PROVE  StepOK
<1>1. CASE UNCHANGED vars
  BY <1>1 DEF vars, StepOK, NodeMoved, IInv, TypeOK
<1>2. ASSUME NEW n \in Nodes, NodeStep(n) PROVE StepOK
  <2>1. CASE Register(n)
    BY <2>1, RegisterOK
  <2>2. CASE TimeoutElapses(n)
    BY <2>2, TimeoutOK
  <2>3. CASE \E req : Serve(n, req)
    <3>1. PICK req : Serve(n, req)
      BY <2>3
    <3>2. req \in AllRequests
      BY <3>1, RequestsAssumption DEF Serve
    <3> QED BY <3>1, <3>2, ServeOK
  <2> QED
    BY <1>2, <2>1, <2>2, <2>3
       DEF NodeStep, CreateDuplicate, TransitionNodeState, RetireNode,
           ReportNodeStatus, NodeInstalledCallback, NodeInstallFailedCallback,
           GetBootScript, PiBoot, AssignWorkflow, StartCloneBoot
<1>3. ASSUME NEW S \in SUBSET Nodes, BulkChangeState(S) PROVE StepOK
  BY <1>3, BulkOK
<1> QED BY <1>1, <1>2, <1>3 DEF Next

LEMMA InitOK == Init => IInv
  BY AttemptsAssumption, NoEntryAssumption
     DEF Init, IInv, TypeOK, RetryLimitHolds, FailuresBelongToInstall,
         LegalHistory, DefaultRow, Row, STATES, Ages, WorkflowIds, Replies

LEMMA StepKeepsIInv ==
    ASSUME IInv, StepOK
    PROVE  IInv'
<1>1. ASSUME NEW n \in Nodes
      PROVE  /\ RowOK(rows'[n])
             /\ history'[n] \in Entry \union {NoEntry}
             /\ history'[n] # NoEntry => LegalEntry(history'[n])
             /\ n \notin registered'
                  => rows'[n] = DefaultRow /\ history'[n] = NoEntry
  <2>1. NodeMoved(n) /\ registered \subseteq registered'
    BY DEF StepOK
  <2>2. CASE rows'[n] = rows[n] /\ history'[n] = history[n]
    BY <2>1, <2>2, IInvRows DEF IInv, TypeOK, LegalHistory, LegalEntry
  <2>3. CASE ~(rows'[n] = rows[n] /\ history'[n] = history[n])
    <3>1. n \in registered
      BY <2>1, <2>3 DEF NodeMoved
    <3>2. PICK out \in Outcome :
            /\ out.ok
            /\ OutcomeOK(rows[n], out)
            /\ rows'[n] = out.row
            /\ history'[n] = IF out.log = NoEntry THEN history[n] ELSE out.log
      BY <2>1, <2>3 DEF NodeMoved
    <3> QED
      BY <2>1, <3>1, <3>2
         DEF OutcomeOK, Outcome, IInv, TypeOK, LegalHistory, LegalEntry
  <2> QED BY <2>2, <2>3
<1>2. TypeOK'
  BY <1>1 DEF StepOK, TypeOK, RowOK
<1>3. RetryLimitHolds' /\ FailuresBelongToInstall' /\ LegalHistory'
  BY <1>1 DEF RetryLimitHolds, FailuresBelongToInstall, LegalHistory,
              LegalEntry, RowOK, InstallLoop
<1> QED BY <1>2, <1>3 DEF IInv

-----------------------------------------------------------------------------
(* Theorems                                                                 *)

\* The inductive invariant holds in every reachable state.
THEOREM InvariantHolds == Spec => []IInv
<1>1. IInv /\ [Next]_vars => IInv'
  BY NextOK, StepKeepsIInv
<1> QED BY InitOK, <1>1, PTL DEF Spec

\* Every variable keeps its type, whatever requests are served.
THEOREM TypeCorrect == Spec => []TypeOK
  BY InvariantHolds, PTL DEF IInv

\* No node counts more than MaxInstallAttempts failures, and one at the limit
\* has left the install loop, for every limit and every set of requests.
THEOREM RetryLimit == Spec => []RetryLimitHolds
  BY InvariantHolds, PTL DEF IInv

\* A node outside the install loop carries no failures of an earlier install.
THEOREM FailuresConfined == Spec => []FailuresBelongToInstall
  BY InvariantHolds, PTL DEF IInv

\* The audit trail only holds transitions that were legal or forced.
THEOREM HistoryLegal == Spec => []LegalHistory
  BY InvariantHolds, PTL DEF IInv

\* Every change of state is recorded as it happened, except the clone routes'.
THEOREM MovesAudited == Spec => AuditedMoves
<1>1. ASSUME IInv, [Next]_vars
      PROVE  [\A n \in Nodes : AuditedMove(n)]_vars
  <2>1. \A n \in Nodes : NodeMoved(n)
    BY <1>1, NextOK DEF StepOK
  <2>2. ASSUME NEW n \in Nodes PROVE AuditedMove(n)
    BY <2>1 DEF NodeMoved, AuditedMove, OutcomeOK, Logs, CloneMove
  <2> QED BY <2>2
<1> QED BY InvariantHolds, <1>1, PTL DEF Spec, AuditedMoves

\* Only a forced transition revives a retired node.
THEOREM RetiredStaysRetired == Spec => RetiredLeavesByForce
<1> DEFINE Kept(n) == rows[n].state = "retired" /\ rows'[n].state # "retired"
                        => history'[n] # NoEntry /\ history'[n].forced
<1>1. ASSUME IInv, [Next]_vars PROVE [\A n \in Nodes : Kept(n)]_vars
  <2>1. ASSUME NEW n \in Nodes PROVE Kept(n)
    <3>1. SUFFICES ASSUME rows[n].state = "retired", rows'[n].state # "retired"
                   PROVE  history'[n] # NoEntry /\ history'[n].forced
      OBVIOUS
    <3>2. NodeMoved(n)
      BY <1>1, NextOK DEF StepOK
    <3>3. PICK out \in Outcome :
            /\ out.ok
            /\ OutcomeOK(rows[n], out)
            /\ rows'[n] = out.row
            /\ history'[n] = IF out.log = NoEntry THEN history[n] ELSE out.log
      BY <3>1, <3>2 DEF NodeMoved
    <3>4. Logs(rows[n], out) /\ LegalEntry(out.log)
      BY <3>1, <3>3 DEF OutcomeOK, CloneMove, Logs
    <3>5. out.row.state \in STATES
      BY DEF Outcome, Row
    <3>6. ~CanTransition(out.log.from, out.log.to)
      BY <3>1, <3>4, <3>5, RetiredIsFinal DEF Logs
    <3> QED BY <3>3, <3>4, <3>6 DEF Logs, LegalEntry
  <2> QED BY <2>1
<1> QED BY InvariantHolds, <1>1, PTL DEF Spec, RetiredLeavesByForce
=============================================================================
