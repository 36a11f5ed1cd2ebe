------------------------- MODULE NodeSessionsProofs -------------------------
(***************************************************************************)
(* Proofs about NodeSessions: what requests that race may write, for any   *)
(* number of sessions, and that one session at a time implements the       *)
(* atomic requests of NodeLifecycle.                                       *)
(*                                                                         *)
(* Racing requests break the invariants of NodeLifecycle on a row, so      *)
(* nothing here assumes a good row: the lemmas about handlers need a row's *)
(* type only.                                                              *)
(***************************************************************************)
EXTENDS NodeSessions, NodeLifecycleProofs

-----------------------------------------------------------------------------
(* What a handler leaves of any row                                         *)

\* The outcome has its type, and the row keeps the workflow it had.
KeepsWorkflow(row, out) == out \in Outcome /\ out.row.workflow = row.workflow

\* A handler that leaves the row alone.
LEMMA ReturnKeeps ==
  ASSUME NEW row \in Row
  PROVE  KeepsWorkflow(row, Return(row)) /\ KeepsWorkflow(row, Raise(row))
  BY DEF KeepsWorkflow, Return, Raise, Outcome

\* transition never touches workflow_id.
LEMMA TransitionKeeps ==
  ASSUME NEW row \in Row, NEW to \in STATES, NEW force \in BOOLEAN
  PROVE  KeepsWorkflow(row, Transition(row, to, force))
  <1> DEFINE out == Transition(row, to, force)
  <1>1. CASE Refused(row, to, force)
    BY <1>1, ReturnKeeps DEF Transition
  <1>2. CASE ~Refused(row, to, force)
    <2>1. out.row.workflow = row.workflow
      BY <1>2 DEF Transition
    <2>2. out \in Outcome
      BY <1>2, AttemptsAssumption DEF Transition, Outcome, Row, Entry, Ages
    <2> QED BY <2>1, <2>2 DEF KeepsWorkflow
  <1> QED BY <1>1, <1>2

\* Neither does a counted failure.
LEMMA FailureKeeps ==
  ASSUME NEW row \in Row
  PROVE  KeepsWorkflow(row, HandleInstallFailure(row))
  <1> DEFINE counted == [row EXCEPT !.attempts = @ + 1, !.failed = TRUE]
  <1>0. row.attempts + 1 \in Nat
    BY DEF Row
  <1>1. counted \in Row /\ counted.workflow = row.workflow
    BY <1>0 DEF Row
  <1>2. HandleInstallFailure(row) \in {Transition(counted, "install_failed", FALSE), Return(counted)}
    BY DEF HandleInstallFailure
  <1> HIDE DEF counted
  <1>3. KeepsWorkflow(counted, HandleInstallFailure(row))
    BY <1>1, <1>2, TransitionKeeps, ReturnKeeps DEF STATES
  <1> QED BY <1>1, <1>3 DEF KeepsWorkflow

\* A report of the node itself, old field or new.
LEMMA EventKeeps ==
  ASSUME NEW row \in Row, NEW event
  PROVE  KeepsWorkflow(row, HandleEvent(row, event))
  <1>1. CASE event = "install_started" /\ row.state = "pending"
    <2> DEFINE out == Transition(row, "installing", FALSE)
               cleared == [out EXCEPT !.row.attempts = 0]
    <2>1. HandleEvent(row, event) = cleared
      BY <1>1 DEF HandleEvent
    <2>2. KeepsWorkflow(row, out)
      BY TransitionKeeps DEF STATES
    <2> HIDE DEF out
    <2>3. cleared \in Outcome /\ cleared.row.workflow = out.row.workflow
      BY <2>2 DEF KeepsWorkflow, Outcome, Row
    <2> QED BY <2>1, <2>2, <2>3 DEF KeepsWorkflow
  <1>2. CASE ~(event = "install_started" /\ row.state = "pending")
    <2>1. HandleEvent(row, event) \in
             {Transition(row, "installed", FALSE), Transition(row, "active", FALSE),
              HandleInstallFailure(row), Return(row)}
      BY <1>2 DEF HandleEvent
    <2> QED BY <2>1, TransitionKeeps, FailureKeeps, ReturnKeeps DEF STATES
  <1> QED BY <1>1, <1>2

\* The arguments of a request, by its operation.
LEMMA RequestShape ==
  ASSUME NEW req \in AllRequests
  PROVE  /\ req.op = "transition_node_state" =>
               \E to \in STATES, force \in BOOLEAN : req = Req(req.op, to, force)
         /\ req.op = "bulk_change_state" => \E to \in STATES : req = Req(req.op, to, FALSE)
         /\ req.op = "report_event" => \E e \in Events : req = Req(req.op, e, FALSE)
         /\ req.op = "report_legacy" => \E s \in LegacyStatuses : req = Req(req.op, s, FALSE)
         /\ req.op = "assign_workflow" =>
               \E w \in {"none", "known", "missing"} : req = Req(req.op, w, FALSE)
         /\ req.op \notin {"transition_node_state", "bulk_change_state", "report_event",
                           "report_legacy", "assign_workflow"}
               => /\ req.op \in {"retire_node", "installed_callback", "install_failed_callback",
                                 "boot", "boot_pi", "discover_pi", "clone_boot", "create_node"}
                  /\ req = Req(req.op, "none", FALSE)
  BY DEF AllRequests, Req

\* Every request returns an outcome, and only two kinds of request change the
\* workflow of the row they are given.
LEMMA HandleKeeps ==
  ASSUME NEW req \in AllRequests, NEW row \in Row
  PROVE  /\ Handle(req, row) \in Outcome
         /\ req.op \notin {"assign_workflow", "clone_boot"}
              => Handle(req, row).row.workflow = row.workflow
  <1>1. CASE req.op \in {"transition_node_state", "bulk_change_state"}
    <2>1. req.arg \in STATES /\ req.force \in BOOLEAN
      <3>1. ASSUME NEW to \in STATES, NEW force \in BOOLEAN, NEW op,
                   req = [op |-> op, arg |-> to, force |-> force]
            PROVE  req.arg \in STATES /\ req.force \in BOOLEAN
        BY <3>1, Zenon
      <3>2. FALSE \in BOOLEAN
        OBVIOUS
      <3>3. \/ \E to \in STATES, force \in BOOLEAN : req = Req(req.op, to, force)
            \/ \E to \in STATES : req = Req(req.op, to, FALSE)
        BY <1>1, RequestShape
      <3> QED BY <3>1, <3>2, <3>3, Zenon DEF Req
    <2>2. Handle(req, row) = Transition(row, req.arg, req.force)
      BY <1>1 DEF Handle
    <2> QED BY <2>1, <2>2, TransitionKeeps DEF KeepsWorkflow
  <1>2. CASE req.op = "retire_node"
    BY <1>2, TransitionKeeps DEF Handle, KeepsWorkflow, STATES
  <1>3. CASE req.op \in {"report_event", "report_legacy"}
    <2>1. Handle(req, row) \in {HandleEvent(row, req.arg), HandleEvent(row, EventTypeMap[req.arg])}
      BY <1>3 DEF Handle, HandleLegacyInstallationStatus
    <2> QED BY <2>1, EventKeeps DEF KeepsWorkflow
  <1>4. CASE req.op \in {"installed_callback", "install_failed_callback"}
    <2>1. Handle(req, row) \in {Transition(row, "installed", FALSE), HandleInstallFailure(row),
                                Return(row)}
      BY <1>4 DEF Handle, InstalledCallback, InstallFailedCallback
    <2> QED BY <2>1, TransitionKeeps, FailureKeeps, ReturnKeeps, ZenonT(40) DEF KeepsWorkflow, STATES
  <1>5. CASE req.op = "boot"
    <2>1. Handle(req, row) \in {Return(row), Raise(row), HandleInstallFailure(row)}
      BY <1>5 DEF Handle, BootScript
    <2> QED BY <2>1, FailureKeeps, ReturnKeeps DEF KeepsWorkflow
  <1>6. CASE req.op = "clone_boot"
    <2> DEFINE moved == [row EXCEPT !.state = "pending", !.changed = "recent", !.workflow = "clone"]
               assigned == [row EXCEPT !.workflow = "clone"]
    <2>1. moved \in Row /\ assigned \in Row
      BY DEF Row, STATES, Ages, WorkflowIds
    <2>2. Handle(req, row) \in {Return(moved), Return(assigned)}
      BY <1>6 DEF Handle, CloneBoot
    <2> HIDE DEF moved, assigned
    <2> QED BY <1>6, <2>1, <2>2, ReturnKeeps DEF KeepsWorkflow
  <1>7. CASE req.op = "assign_workflow"
    <2>1. req.arg \in WorkflowIds
      BY <1>7, RequestShape DEF Req, WorkflowIds
    <2> DEFINE assigned == [row EXCEPT !.workflow = req.arg]
    <2>2. assigned \in Row
      BY <2>1 DEF Row
    <2>3. Handle(req, row) = Return(assigned)
      BY <1>7 DEF Handle
    <2> HIDE DEF assigned
    <2> QED BY <1>7, <2>2, <2>3, ReturnKeeps DEF KeepsWorkflow
  <1>8. CASE req.op = "create_node"
    BY <1>8, ReturnKeeps DEF Handle, KeepsWorkflow
  <1>9. CASE req.op \in {"boot_pi", "discover_pi"}
    BY <1>9, ReturnKeeps DEF Handle, KeepsWorkflow
  <1> QED BY <1>1, <1>2, <1>3, <1>4, <1>5, <1>6, <1>7, <1>8, <1>9, RequestShape

-----------------------------------------------------------------------------
(* The write of a flush                                                     *)

\* The UPDATE leaves a row; it leaves alone what the handler did, and writes
\* the whole new row when nobody else wrote since it was loaded.
LEMMA WriteChangedRow ==
  ASSUME NEW row \in Row, NEW snap \in Row, NEW new \in Row
  PROVE  /\ WriteChanged(row, snap, new) \in Row
         /\ new.workflow = snap.workflow => WriteChanged(row, snap, new).workflow = row.workflow
  <1>1. new.failed \in BOOLEAN /\ row.failed \in BOOLEAN
    BY DEF Row
  <1> DEFINE f == IF new.failed # snap.failed THEN new.failed ELSE row.failed
  <1>2. f \in BOOLEAN
    BY <1>1, Zenon
  <1>3. WriteChanged(row, snap, new).workflow =
           IF new.workflow # snap.workflow THEN new.workflow ELSE row.workflow
    BY DEF WriteChanged
  <1>4. WriteChanged(row, snap, new) =
          [ state    |-> IF new.state # snap.state THEN new.state ELSE row.state,
            attempts |-> IF new.attempts # snap.attempts THEN new.attempts ELSE row.attempts,
            failed   |-> f,
            changed  |-> IF new.changed # snap.changed THEN new.changed ELSE row.changed,
            workflow |-> IF new.workflow # snap.workflow THEN new.workflow ELSE row.workflow ]
    BY DEF WriteChanged
  <1> HIDE DEF f
  <1>5. WriteChanged(row, snap, new) \in Row
    BY <1>2, <1>4 DEF Row
  <1> QED BY <1>3, <1>5

\* With nothing written since the row was loaded, the flush leaves what the
\* handler left.
LEMMA WriteUncontended ==
  ASSUME NEW row \in Row, NEW new \in Row
  PROVE  WriteChanged(row, row, new) = new
  <1>1. new = [state |-> new.state, attempts |-> new.attempts, failed |-> new.failed,
               changed |-> new.changed, workflow |-> new.workflow]
    BY DEF Row
  <1>2. /\ (IF new.state # row.state THEN new.state ELSE row.state) = new.state
        /\ (IF new.attempts # row.attempts THEN new.attempts ELSE row.attempts) = new.attempts
        /\ (IF new.failed # row.failed THEN new.failed ELSE row.failed) = new.failed
        /\ (IF new.changed # row.changed THEN new.changed ELSE row.changed) = new.changed
        /\ (IF new.workflow # row.workflow THEN new.workflow ELSE row.workflow) = new.workflow
    BY Zenon
  <1> QED BY <1>1, <1>2, Zenon DEF WriteChanged

\* The passing of the timeout changes the age of a row.
LEMMA AgeRow ==
  ASSUME NEW row \in Row
  PROVE  /\ Age(row) \in Row
         /\ [row EXCEPT !.changed = "timed_out"] \in Row
         /\ [row EXCEPT !.changed = "timed_out"].workflow = row.workflow
         /\ row.changed = "recent" => Age(row) = [row EXCEPT !.changed = "timed_out"]
  <1>1. [row EXCEPT !.changed = "timed_out"] \in Row
        /\ [row EXCEPT !.changed = "timed_out"].workflow = row.workflow
    BY DEF Row, Ages
  <1>2. row.changed \in Ages /\ "timed_out" \in Ages
    BY DEF Row, Ages
  <1> DEFINE c == IF row.changed = "recent" THEN "timed_out" ELSE row.changed
  <1>3. c \in Ages /\ Age(row) = [row EXCEPT !.changed = c]
    BY <1>2 DEF Age
  <1>4. row.changed = "recent" => c = "timed_out"
    OBVIOUS
  <1> HIDE DEF c
  <1>5. Age(row) \in Row
    BY <1>3 DEF Row
  <1> QED BY <1>1, <1>3, <1>4, <1>5

-----------------------------------------------------------------------------
(* The invariant of racing sessions                                         *)

\* The variables have their types, and a request that found its rows has rows
\* that are still registered.
SessionInv ==
    /\ STypeOK
    /\ \A s \in Sessions : ~Idle(s) /\ sess[s].found => sess[s].nodes \subseteq registered

\* The parts of a session that serves a request.
LEMMA SessionParts ==
  ASSUME SessionInv, NEW s \in Sessions, ~Idle(s)
  PROVE  /\ sess[s] \in Loaded
         /\ sess[s].req \in AllRequests /\ sess[s].nodes \subseteq Nodes
         /\ sess[s].found \in BOOLEAN /\ sess[s].snap \in [Nodes -> Row]
  <1>1. sess[s] \in Loaded
    BY DEF SessionInv, STypeOK, Idle
  <1> QED BY <1>1 DEF Loaded

\* The invariant holds when the controller starts.
LEMMA SessionInit == SInit => SessionInv
  BY InitOK DEF SInit, SessionInv, STypeOK, IInv, Idle

\* A request loads its rows.
LEMMA BeginKeeps ==
  ASSUME SessionInv, NEW s \in Sessions, Begin(s)
  PROVE  SessionInv'
  <1>1. PICK req \in Requests, S \in SUBSET Nodes :
          sess' = [sess EXCEPT ![s] = [req |-> req, nodes |-> S, found |-> (S \subseteq registered),
                                       snap |-> rows]]
    BY DEF Begin
  <1>2. registered' = registered /\ rows' = rows /\ history' = history /\ reply' = reply
    BY DEF Begin, vars
  <1> DEFINE found == S \subseteq registered
             m == [req |-> req, nodes |-> S, found |-> found, snap |-> rows]
  <1>3. found \in BOOLEAN
    OBVIOUS
  <1>4. m.found = found /\ m.nodes = S
    BY Zenon
  <1>5. (m.found = TRUE) => S \subseteq registered
    BY <1>4, Zenon
  <1>6. sess' = [sess EXCEPT ![s] = m]
    BY <1>1
  <1> HIDE DEF found
  <1>7. m \in Loaded
    BY <1>3, RequestsAssumption DEF Loaded, SessionInv, STypeOK, TypeOK
  <1> HIDE DEF m
  <1>8. sess'[s] = m /\ \A u \in Sessions \ {s} : sess'[u] = sess[u]
    BY <1>6 DEF SessionInv, STypeOK
  <1>9. STypeOK'
    BY <1>2, <1>6, <1>7 DEF SessionInv, STypeOK, TypeOK
  <1>10. ASSUME NEW u \in Sessions, sess'[u] # NoRequest, sess'[u].found
         PROVE  sess'[u].nodes \subseteq registered'
    <2>1. CASE u = s
      BY <1>2, <1>4, <1>5, <1>8, <1>10, <2>1
    <2>2. CASE u # s
      BY <1>2, <1>8, <1>10, <2>2 DEF SessionInv, Idle
    <2> QED BY <2>1, <2>2
  <1> QED BY <1>9, <1>10 DEF SessionInv, Idle

\* A step that ends one session or all, and leaves rows of their types, keeps
\* the invariant.
LEMMA EndKeeps ==
  ASSUME SessionInv, TypeOK', registered \subseteq registered',
         sess' \in [Sessions -> Loaded \union {NoRequest}],
         \A u \in Sessions : sess'[u] \in {sess[u], NoRequest}
  PROVE  SessionInv'
  BY DEF SessionInv, STypeOK, Idle

\* A commit writes rows of their type, on registered nodes only.
LEMMA FinishServeKeeps ==
  ASSUME SessionInv, NEW s \in Sessions, FinishServe(s)
  PROVE  SessionInv'
  <1> DEFINE m == sess[s]
             out == [n \in m.nodes |-> Handle(m.req, m.snap[n])]
  <1>1. /\ ~Idle(s) /\ m.found
        /\ rows' = [n \in Nodes |-> IF n \in m.nodes /\ out[n].ok
                                    THEN WriteChanged(rows[n], m.snap[n], out[n].row) ELSE rows[n]]
        /\ history' = [n \in Nodes |-> IF n \in m.nodes /\ out[n].log # NoEntry
                                       THEN out[n].log ELSE history[n]]
        /\ sess' = [sess EXCEPT ![s] = NoRequest]
        /\ registered' = registered
    BY DEF FinishServe
  <1>2. m.req \in AllRequests /\ m.nodes \subseteq registered /\ m.snap \in [Nodes -> Row]
    BY <1>1, SessionParts DEF SessionInv
  <1>3. reply' \in Replies
    <2>1. \E req, before, o : reply' \in {"ok", ReplyTo(req, before, o)}
      BY DEF FinishServe
    <2> QED BY <2>1, RepliesTyped DEF Replies
  <1>4. rows \in [Nodes -> Row] /\ history \in [Nodes -> Entry \union {NoEntry}]
        /\ registered \subseteq Nodes
        /\ \A n \in Nodes \ registered : rows[n] = DefaultRow /\ history[n] = NoEntry
    BY DEF SessionInv, STypeOK, TypeOK
  <1>5. \A n \in m.nodes : out[n] \in Outcome
    BY <1>2, <1>4, HandleKeeps
  <1> HIDE DEF out, m
  <1>6. \A n \in m.nodes : out[n].row \in Row /\ out[n].log \in Entry \union {NoEntry}
    BY <1>5 DEF Outcome
  <1>7. rows' \in [Nodes -> Row]
    BY <1>1, <1>2, <1>4, <1>6, WriteChangedRow
  <1>8. history' \in [Nodes -> Entry \union {NoEntry}]
    BY <1>1, <1>4, <1>6
  <1>9. \A n \in Nodes \ registered : rows'[n] = DefaultRow /\ history'[n] = NoEntry
    BY <1>1, <1>2, <1>4
  <1>10. TypeOK'
    BY <1>1, <1>3, <1>4, <1>7, <1>8, <1>9 DEF TypeOK
  <1> QED BY <1>1, <1>10, EndKeeps DEF SessionInv, STypeOK

\* A registration adds rows that nobody has written yet.
LEMMA FinishRegisterKeeps ==
  ASSUME SessionInv, NEW s \in Sessions, FinishRegister(s)
  PROVE  SessionInv'
  <1>1. /\ ~Idle(s) /\ rows' = rows /\ history' = history
        /\ sess' = [sess EXCEPT ![s] = NoRequest]
        /\ registered' \in {registered, registered \union sess[s].nodes}
        /\ reply' \in Replies
    BY DEF FinishRegister, Replies
  <1>2. sess[s].nodes \subseteq Nodes
    BY <1>1, SessionParts
  <1>3. TypeOK'
    BY <1>1, <1>2 DEF SessionInv, STypeOK, TypeOK
  <1> QED BY <1>1, <1>3, EndKeeps DEF SessionInv, STypeOK

\* A timestamp ages, in the row and in what sessions loaded of it.
LEMMA TimeoutKeeps ==
  ASSUME SessionInv, NEW n \in Nodes, STimeoutElapses(n)
  PROVE  /\ SessionInv'
         /\ rows' = [rows EXCEPT ![n] = [rows[n] EXCEPT !.changed = "timed_out"]]
         /\ \A s \in Sessions : Idle(s)' <=> Idle(s)
         /\ \A s \in Sessions : ~Idle(s) =>
               sess'[s] = [sess[s] EXCEPT !.snap = [sess[s].snap EXCEPT ![n] = Age(sess[s].snap[n])]]
  <1>1. /\ rows[n].changed = "recent"
        /\ rows' = [rows EXCEPT ![n] = [rows[n] EXCEPT !.changed = "timed_out"]]
        /\ registered' = registered /\ history' = history /\ reply' = reply
    BY DEF STimeoutElapses, TimeoutElapses, SessionInv, STypeOK, TypeOK
  <1>2. rows[n] \in Row /\ n \in registered
    BY <1>1 DEF SessionInv, STypeOK, TypeOK, DefaultRow
  <1>3. TypeOK'
    BY <1>1, <1>2, AgeRow DEF SessionInv, STypeOK, TypeOK
  <1>4. sess' = [s \in Sessions |-> IF Idle(s) THEN NoRequest
                                    ELSE [sess[s] EXCEPT !.snap[n] = Age(@)]]
    BY DEF STimeoutElapses
  <1>5. ASSUME NEW s \in Sessions, ~Idle(s)
        PROVE  /\ sess'[s] \in Loaded /\ sess'[s].found = sess[s].found
               /\ sess'[s].nodes = sess[s].nodes
               /\ sess'[s] = [sess[s] EXCEPT !.snap = [sess[s].snap EXCEPT ![n] = Age(sess[s].snap[n])]]
    <2> DEFINE snap == [sess[s].snap EXCEPT ![n] = Age(sess[s].snap[n])]
    <2>1. snap \in [Nodes -> Row]
      BY <1>5, SessionParts, AgeRow
    <2>2. sess'[s] = [sess[s] EXCEPT !.snap = snap]
      BY <1>4, <1>5
    <2>3. sess[s] \in Loaded
      BY <1>5, SessionParts
    <2> HIDE DEF snap
    <2>4. [sess[s] EXCEPT !.snap = snap] \in Loaded
      BY <2>1, <2>3 DEF Loaded
    <2>5. [sess[s] EXCEPT !.snap = snap].found = sess[s].found
          /\ [sess[s] EXCEPT !.snap = snap].nodes = sess[s].nodes
      BY <2>3 DEF Loaded
    <2> QED BY <2>2, <2>4, <2>5 DEF snap
  <1>6. ASSUME NEW s \in Sessions, Idle(s) PROVE sess'[s] = NoRequest
    BY <1>4, <1>6
  <1>7. sess' \in [Sessions -> Loaded \union {NoRequest}]
    BY <1>4, <1>5, <1>6
  <1>8. SessionInv'
    BY <1>1, <1>3, <1>5, <1>6, <1>7 DEF SessionInv, STypeOK, Idle
  <1>9. \A s \in Sessions : Idle(s)' <=> Idle(s)
    BY <1>5, <1>6, NoRequestAssumption DEF Idle
  <1> QED BY <1>1, <1>5, <1>8, <1>9

\* Every step keeps the invariant.
LEMMA SessionStep ==
  ASSUME SessionInv, [SNext]_svars
  PROVE  SessionInv'
  <1>1. ASSUME NEW s \in Sessions, Begin(s) \/ FinishServe(s) \/ FinishRegister(s)
        PROVE  SessionInv'
    BY <1>1, BeginKeeps, FinishServeKeeps, FinishRegisterKeeps
  <1>2. ASSUME NEW n \in Nodes, STimeoutElapses(n)
        PROVE  SessionInv'
    BY <1>2, TimeoutKeeps
  <1>3. CASE Crash
    BY <1>3, EndKeeps DEF Crash, vars, SessionInv, STypeOK, TypeOK
  <1>4. CASE UNCHANGED svars
    BY <1>4 DEF svars, SessionInv, STypeOK, TypeOK, Idle
  <1> QED BY <1>1, <1>2, <1>3, <1>4 DEF SNext

\* Requests that race leave every variable with its type.
THEOREM SessionTypes == SSpec => []STypeOK
  <1>1. SessionInv /\ [SNext]_svars => SessionInv'
    BY SessionStep
  <1>2. SessionInv => STypeOK
    BY DEF SessionInv
  <1> QED BY SessionInit, <1>1, <1>2, PTL DEF SSpec

-----------------------------------------------------------------------------
(* What racing requests may write                                           *)

\* A commit changes the workflow column only if its own handler did.
LEMMA CommitWritesOwn ==
  ASSUME SessionInv, NEW s \in Sessions, FinishServe(s), NEW n \in Nodes,
         rows'[n].workflow # rows[n].workflow
  PROVE  n \in sess[s].nodes /\ sess[s].req.op \in {"assign_workflow", "clone_boot"}
  <1> DEFINE m == sess[s]
             out == [k \in m.nodes |-> Handle(m.req, m.snap[k])]
  <1>1. ~Idle(s) /\ rows' = [k \in Nodes |-> IF k \in m.nodes /\ out[k].ok
                               THEN WriteChanged(rows[k], m.snap[k], out[k].row) ELSE rows[k]]
    BY DEF FinishServe
  <1>2. m.req \in AllRequests /\ m.nodes \subseteq Nodes /\ m.snap \in [Nodes -> Row]
    BY <1>1, SessionParts
  <1>3. n \in m.nodes /\ rows'[n] = WriteChanged(rows[n], m.snap[n], out[n].row)
    BY <1>1
  <1>4. out[n] = Handle(m.req, m.snap[n]) /\ rows[n] \in Row /\ m.snap[n] \in Row
    BY <1>2, <1>3 DEF SessionInv, STypeOK, TypeOK
  <1> HIDE DEF out, m
  <1>5. out[n].row \in Row
    BY <1>2, <1>4, HandleKeeps DEF Outcome
  <1>6. out[n].row.workflow # m.snap[n].workflow
    BY <1>3, <1>4, <1>5, WriteChangedRow
  <1>7. m.req.op \in {"assign_workflow", "clone_boot"}
    BY <1>2, <1>4, <1>6, HandleKeeps
  <1> QED BY <1>3, <1>7 DEF m

\* However many requests race on a node, a workflow assignment is only undone
\* by another one, and a MAC is registered once.
THEOREM RacersKeep == SSpec => RacersKeepToTheirOwn
  <1>1. SessionInv /\ [SNext]_svars => SessionInv'
    BY SessionStep
  <1>2. SessionInv /\ [SNext]_svars => [WorkflowSurvives /\ RegisteredOnce]_svars
    <2> SUFFICES ASSUME SessionInv, SNext
                 PROVE  WorkflowSurvives /\ RegisteredOnce
      OBVIOUS
    <2>0. rows \in [Nodes -> Row] /\ registered \subseteq Nodes
          /\ sess \in [Sessions -> Loaded \union {NoRequest}]
      BY DEF SessionInv, STypeOK, TypeOK
    <2>1. ASSUME NEW s \in Sessions, FinishServe(s)
          PROVE  WorkflowSurvives /\ RegisteredOnce
      <3>1. ~Idle(s) /\ sess[s].found /\ sess' = [sess EXCEPT ![s] = NoRequest]
        BY <2>1 DEF FinishServe
      <3>2. Ends(s)
        BY <2>0, <3>1 DEF Ends
      <3>3. WorkflowSurvives
        BY <2>1, <3>2, CommitWritesOwn DEF WorkflowSurvives
      <3>4. \A u \in Sessions : Ends(u) => u = s
        BY <2>0, <3>1 DEF Ends, Idle
      <3> QED BY <3>1, <3>3, <3>4 DEF RegisteredOnce
    <2>2. ASSUME NEW n \in Nodes, STimeoutElapses(n)
          PROVE  WorkflowSurvives /\ RegisteredOnce
      <3>1. \A k \in Nodes : rows'[k].workflow = rows[k].workflow
        BY <2>0, <2>2, TimeoutKeeps, AgeRow
      <3>2. \A u \in Sessions : ~Ends(u)
        BY <2>2, TimeoutKeeps DEF Ends, Idle
      <3> QED BY <3>1, <3>2 DEF WorkflowSurvives, RegisteredOnce
    <2>3. CASE rows' = rows
      BY <2>3 DEF WorkflowSurvives, RegisteredOnce
    <2>4. (\E s \in Sessions : Begin(s) \/ FinishRegister(s)) \/ Crash => rows' = rows
      BY DEF Begin, FinishRegister, Crash, vars
    <2> QED BY <2>1, <2>2, <2>3, <2>4 DEF SNext
  <1> QED BY SessionInit, <1>1, <1>2, PTL DEF SSpec, RacersKeepToTheirOwn

-----------------------------------------------------------------------------
(* One session at a time implements NodeLifecycle                           *)

\* Sessions do not overlap: the event loop has at most one request in flight.
OneAtATime == \A s, u \in Sessions : s = u

\* What a request loaded is what the tables hold, and Begin's conditions on
\* the request still stand.
LoadedIsCurrent ==
    \A s \in Sessions : ~Idle(s) =>
        LET m == sess[s] IN
        /\ m.req \in Requests
        /\ m.snap = rows
        /\ m.found <=> m.nodes \subseteq registered
        /\ m.req.op = "bulk_change_state" => m.found
        /\ m.req.op # "bulk_change_state" => \E n \in Nodes : m.nodes = {n}
        /\ m.found \/ m.req.op \in RegisteringOps

SerialInv == SessionInv /\ LoadedIsCurrent

\* One request at a time: what it loaded stays current until it ends.
LEMMA SerialStep ==
  ASSUME OneAtATime, SerialInv, [SNext]_svars
  PROVE  SerialInv'
  <1>0. SessionInv'
    BY SessionStep DEF SerialInv
  <1>1. sess \in [Sessions -> Loaded \union {NoRequest}] /\ rows \in [Nodes -> Row]
    BY DEF SerialInv, SessionInv, STypeOK, TypeOK
  <1>2. ASSUME NEW s \in Sessions, Begin(s)
        PROVE  LoadedIsCurrent'
    <2>1. PICK req \in Requests, S \in SUBSET Nodes :
            /\ req.op = "bulk_change_state" => S \subseteq registered
            /\ req.op # "bulk_change_state" => \E n \in Nodes : S = {n}
            /\ S \subseteq registered \/ req.op \in RegisteringOps
            /\ sess' = [sess EXCEPT ![s] = [req |-> req, nodes |-> S,
                                            found |-> (S \subseteq registered), snap |-> rows]]
      BY <1>2 DEF Begin
    <2>2. registered' = registered /\ rows' = rows
      BY <1>2 DEF Begin, vars
    <2> DEFINE found == S \subseteq registered
               m == [req |-> req, nodes |-> S, found |-> found, snap |-> rows]
    <2>3. sess'[s] = m
      BY <1>1, <2>1
    <2>4. m.req = req /\ m.nodes = S /\ m.snap = rows /\ m.found = found
      BY Zenon
    <2>5. (m.found <=> S \subseteq registered)
      BY <2>4, Zenon
    <2> HIDE DEF m
    <2> SUFFICES ASSUME NEW u \in Sessions, sess'[u] # NoRequest
                 PROVE  /\ sess'[u].req \in Requests
                        /\ sess'[u].snap = rows'
                        /\ sess'[u].found <=> sess'[u].nodes \subseteq registered'
                        /\ sess'[u].req.op = "bulk_change_state" => sess'[u].found
                        /\ sess'[u].req.op # "bulk_change_state"
                             => \E n \in Nodes : sess'[u].nodes = {n}
                        /\ sess'[u].found \/ sess'[u].req.op \in RegisteringOps
      BY DEF LoadedIsCurrent, Idle
    <2>6. u = s
      BY DEF OneAtATime
    <2> QED BY <2>1, <2>2, <2>3, <2>4, <2>5, <2>6
  <1>3. ASSUME NEW s \in Sessions, FinishServe(s) \/ FinishRegister(s)
        PROVE  LoadedIsCurrent'
    <2>1. sess'[s] = NoRequest
      BY <1>1, <1>3 DEF FinishServe, FinishRegister
    <2> QED BY <2>1 DEF OneAtATime, LoadedIsCurrent, Idle
  <1>4. ASSUME NEW n \in Nodes, STimeoutElapses(n)
        PROVE  LoadedIsCurrent'
    <2>1. registered' = registered /\ rows[n].changed = "recent"
      BY <1>4 DEF STimeoutElapses, TimeoutElapses
    <2>2. rows' = [rows EXCEPT ![n] = [rows[n] EXCEPT !.changed = "timed_out"]]
      BY <1>4, TimeoutKeeps DEF SerialInv
    <2>3. rows' = [rows EXCEPT ![n] = Age(rows[n])]
      BY <1>1, <2>1, <2>2, AgeRow
    <2> SUFFICES ASSUME NEW s \in Sessions, sess'[s] # NoRequest
                 PROVE  /\ sess'[s].req \in Requests
                        /\ sess'[s].snap = rows'
                        /\ sess'[s].found <=> sess'[s].nodes \subseteq registered'
                        /\ sess'[s].req.op = "bulk_change_state" => sess'[s].found
                        /\ sess'[s].req.op # "bulk_change_state"
                             => \E k \in Nodes : sess'[s].nodes = {k}
                        /\ sess'[s].found \/ sess'[s].req.op \in RegisteringOps
      BY DEF LoadedIsCurrent, Idle
    <2>4. ~Idle(s) /\ sess[s] \in Loaded
      <3>1. ~Idle(s)
        BY <1>4, TimeoutKeeps DEF SerialInv, Idle
      <3> QED BY <3>1, SessionParts DEF SerialInv
    <2> DEFINE snap == [sess[s].snap EXCEPT ![n] = Age(sess[s].snap[n])]
    <2>5. sess'[s] = [sess[s] EXCEPT !.snap = snap]
      BY <1>4, <2>4, TimeoutKeeps DEF SerialInv
    <2>6. snap = rows'
      BY <2>3, <2>4 DEF SerialInv, LoadedIsCurrent
    <2> HIDE DEF snap
    <2>7. sess'[s].snap = snap /\ sess'[s].req = sess[s].req /\ sess'[s].nodes = sess[s].nodes
          /\ sess'[s].found = sess[s].found
      BY <2>4, <2>5 DEF Loaded
    <2> QED BY <2>1, <2>4, <2>6, <2>7 DEF SerialInv, LoadedIsCurrent
  <1>5. CASE Crash
    <2>1. \A s \in Sessions : sess'[s] = NoRequest
      BY <1>5 DEF Crash
    <2>2. LoadedIsCurrent'
      BY <2>1 DEF LoadedIsCurrent, Idle
    <2> QED BY <1>0, <2>2 DEF SerialInv
  <1>6. CASE UNCHANGED svars
    <2>1. sess' = sess /\ rows' = rows /\ registered' = registered
      BY <1>6 DEF svars
    <2>2. LoadedIsCurrent'
      <3> SUFFICES ASSUME NEW s \in Sessions, sess'[s] # NoRequest
                   PROVE  /\ sess'[s].req \in Requests
                          /\ sess'[s].snap = rows'
                          /\ sess'[s].found <=> sess'[s].nodes \subseteq registered'
                          /\ sess'[s].req.op = "bulk_change_state" => sess'[s].found
                          /\ sess'[s].req.op # "bulk_change_state"
                               => \E k \in Nodes : sess'[s].nodes = {k}
                          /\ sess'[s].found \/ sess'[s].req.op \in RegisteringOps
        BY DEF LoadedIsCurrent, Idle
      <3> QED BY <2>1 DEF SerialInv, LoadedIsCurrent, Idle
    <2> QED BY <1>0, <2>2 DEF SerialInv
  <1> QED BY <1>0, <1>2, <1>3, <1>4, <1>5, <1>6 DEF SNext, SerialInv

\* A request of any kind on one registered node is a step of NodeLifecycle.
LEMMA ServeIsNodeStep ==
  ASSUME NEW n \in Nodes, NEW req \in AllRequests, req.op # "bulk_change_state", Serve(n, req)
  PROVE  NodeStep(n)
  <1>1. CASE req.op = "transition_node_state"
    <2>1. PICK to \in STATES, force \in BOOLEAN : req = Req("transition_node_state", to, force)
      BY <1>1, RequestShape
    <2> QED BY <2>1 DEF NodeStep, TransitionNodeState
  <1>2. CASE req.op = "report_event"
    <2>1. PICK e \in Events : req = Req("report_event", e, FALSE)
      BY <1>2, RequestShape
    <2> QED BY <2>1 DEF NodeStep, ReportNodeStatus
  <1>3. CASE req.op = "report_legacy"
    <2>1. PICK e \in LegacyStatuses : req = Req("report_legacy", e, FALSE)
      BY <1>3, RequestShape
    <2> QED BY <2>1 DEF NodeStep, ReportNodeStatus
  <1>4. CASE req.op = "assign_workflow"
    <2>1. PICK w \in {"none", "known", "missing"} : req = Req("assign_workflow", w, FALSE)
      BY <1>4, RequestShape
    <2> QED BY <2>1 DEF NodeStep, AssignWorkflow
  <1>5. CASE req.op \notin {"transition_node_state", "report_event", "report_legacy",
                            "assign_workflow"}
    <2>1. req.op \in {"retire_node", "installed_callback", "install_failed_callback",
                      "boot", "boot_pi", "discover_pi", "clone_boot", "create_node"}
          /\ req = Req(req.op, "none", FALSE)
      BY <1>5, RequestShape
    <2> QED BY <2>1 DEF NodeStep, RetireNode, NodeInstalledCallback, NodeInstallFailedCallback,
                        GetBootScript, PiBoot, StartCloneBoot, CreateDuplicate
  <1> QED BY <1>1, <1>2, <1>3, <1>4, <1>5

\* A commit of rows that are as they were loaded is the atomic request.
LEMMA CommitIsAtomic ==
  ASSUME SerialInv, NEW s \in Sessions, FinishServe(s)
  PROVE  Next
  <1> DEFINE m == sess[s]
             H(n) == Handle(m.req, rows[n])
  <1>0. ~Idle(s) /\ m.found
    BY DEF FinishServe
  <1>1. /\ m.req \in Requests /\ m.req \in AllRequests
        /\ m.snap = rows /\ m.nodes \subseteq registered /\ m.nodes \subseteq Nodes
        /\ m.req.op # "bulk_change_state" => \E n \in Nodes : m.nodes = {n}
    BY <1>0, RequestsAssumption, SessionParts DEF SerialInv, LoadedIsCurrent
  <1>2. rows \in [Nodes -> Row] /\ history \in [Nodes -> Entry \union {NoEntry}]
    BY DEF SerialInv, SessionInv, STypeOK, TypeOK
  <1>3. \A n \in Nodes : H(n) \in Outcome /\ WriteChanged(rows[n], rows[n], H(n).row) = H(n).row
    <2>1. \A n \in Nodes : H(n) \in Outcome
      BY <1>1, <1>2, HandleKeeps
    <2> HIDE DEF H
    <2>2. \A n \in Nodes : H(n).row \in Row
      BY <2>1 DEF Outcome
    <2> QED BY <1>2, <2>1, <2>2, WriteUncontended
  <1>4. /\ rows' = [n \in Nodes |-> IF n \in m.nodes /\ H(n).ok
                                    THEN WriteChanged(rows[n], rows[n], H(n).row) ELSE rows[n]]
        /\ history' = [n \in Nodes |-> IF n \in m.nodes /\ H(n).log # NoEntry
                                       THEN H(n).log ELSE history[n]]
        /\ registered' = registered
    BY <1>1 DEF FinishServe
  <1>5. rows' = [n \in Nodes |-> IF n \in m.nodes /\ H(n).ok THEN H(n).row ELSE rows[n]]
    <2> HIDE DEF H, m
    <2> QED BY <1>3, <1>4
  <1>6. CASE m.req.op = "bulk_change_state"
    <2>1. PICK to \in STATES : m.req = Req("bulk_change_state", to, FALSE)
      <3>1. ASSUME NEW r \in AllRequests, r.op = "bulk_change_state"
            PROVE  \E to \in STATES : r = Req("bulk_change_state", to, FALSE)
        BY <3>1, RequestShape
      <3> HIDE DEF H, m
      <3> QED BY <1>1, <1>6, <3>1
    <2>2. reply' = "ok"
      BY <1>6 DEF FinishServe
    <2>3. BulkChangeState(m.nodes)
      BY <1>1, <1>4, <1>5, <2>1, <2>2, ZenonT(40) DEF BulkChangeState
    <2> QED BY <1>1, <2>3 DEF Next
  <1>7. CASE m.req.op # "bulk_change_state"
    <2>1. PICK n \in Nodes : m.nodes = {n}
      BY <1>1, <1>7
    <2>2. (CHOOSE k \in m.nodes : TRUE) = n
      BY <2>1
    <2>3. reply' = ReplyTo(m.req, rows[n], H(n))
      BY <1>1, <1>7, <2>1, <2>2 DEF FinishServe
    <2>4. rows' = [rows EXCEPT ![n] = IF H(n).ok THEN H(n).row ELSE @]
      <3> HIDE DEF H, m
      <3> QED BY <1>2, <1>5, <2>1
    <2>5. history' = [history EXCEPT ![n] = IF H(n).log = NoEntry THEN @ ELSE H(n).log]
      <3> HIDE DEF H, m
      <3> QED BY <1>2, <1>4, <2>1
    <2>6. Serve(n, m.req)
      BY <1>1, <1>4, <2>1, <2>3, <2>4, <2>5 DEF Serve
    <2> QED BY <1>1, <1>7, <2>6, ServeIsNodeStep DEF Next
  <1> QED BY <1>6, <1>7

\* A registration by the only request in flight is the atomic registration.
LEMMA RegistrationIsAtomic ==
  ASSUME SerialInv, NEW s \in Sessions, FinishRegister(s)
  PROVE  Next
  <1> DEFINE m == sess[s]
             op == m.req.op
  <1>0. ~Idle(s) /\ ~m.found
    BY DEF FinishRegister
  <1>1. /\ m.req \in Requests /\ m.req \in AllRequests
        /\ ~(m.nodes \subseteq registered)
        /\ op # "bulk_change_state" /\ \E n \in Nodes : m.nodes = {n}
        /\ op \in RegisteringOps
    BY <1>0, RequestsAssumption DEF SerialInv, LoadedIsCurrent
  <1>2. PICK n \in Nodes : m.nodes = {n}
    BY <1>1
  <1>3. n \notin registered
    BY <1>1, <1>2
  <1>4. m.req = Req(op, "none", FALSE) /\ op \in {"create_node", "boot", "boot_pi", "discover_pi"}
    BY <1>1, RequestShape DEF RegisteringOps
  <1>5. /\ registered' = IF RegisterBy(op) THEN registered \union {n} ELSE registered
        /\ reply' = IF op = "create_node" THEN "ok" ELSE "local"
        /\ rows' = rows /\ history' = history
    BY <1>1, <1>2, <1>4 DEF FinishRegister
  <1>6. Register(n)
    BY <1>1, <1>3, <1>4, <1>5 DEF Register
  <1> QED BY <1>6 DEF Next, NodeStep

\* A request that loads its rows and commits after its awaits, a request that
\* finds a node unknown and registers it, and a crash between the two, look
\* like the atomic requests of NodeLifecycle as long as no two requests are in
\* flight at once.
THEOREM OneSessionIsAtomic ==
  ASSUME OneAtATime
  PROVE  SSpec => ImplementsAtomicRequests
  <1>1. SInit => SerialInv /\ Init
    BY SessionInit DEF SInit, SerialInv, LoadedIsCurrent, Idle
  <1>2. SerialInv /\ [SNext]_svars => SerialInv'
    BY SerialStep
  <1>3. SerialInv /\ [SNext]_svars => [Next]_vars
    <2> SUFFICES ASSUME SerialInv, [SNext]_svars
                 PROVE  [Next]_vars
      OBVIOUS
    <2>1. ASSUME NEW s \in Sessions, FinishServe(s) \/ FinishRegister(s)
          PROVE  Next
      BY <2>1, CommitIsAtomic, RegistrationIsAtomic
    <2>2. ASSUME NEW n \in Nodes, STimeoutElapses(n)
          PROVE  Next
      BY <2>2 DEF STimeoutElapses, Next, NodeStep
    <2>3. CASE (\E s \in Sessions : Begin(s)) \/ Crash \/ UNCHANGED svars
      BY <2>3 DEF Begin, Crash, svars, vars
    <2> QED BY <2>1, <2>2, <2>3 DEF SNext
  <1> QED BY <1>1, <1>2, <1>3, PTL DEF SSpec, Spec, ImplementsAtomicRequests

\* So the retry limit holds of requests that load and commit in two steps, when
\* they do not overlap.
COROLLARY SerialRetryLimit ==
  ASSUME OneAtATime
  PROVE  SSpec => []RetryLimitHolds
  BY OneSessionIsAtomic, RetryLimit, PTL DEF ImplementsAtomicRequests
=============================================================================
