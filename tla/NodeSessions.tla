---------------------------- MODULE NodeSessions ----------------------------
(***************************************************************************)
(* The same requests with the database session of get_db                   *)
(* (src/src/db/database.py) made explicit.  A request first loads its rows *)
(* (Begin) and later, after the awaits of its handler, commits             *)
(* (Finish).  SQLAlchemy writes back the columns whose value differs from  *)
(* the loaded one, with no version check, so requests in flight on one     *)
(* node overwrite each other column by column.  With one session at a time *)
(* this specification implements NodeLifecycle.                            *)
(***************************************************************************)
EXTENDS NodeLifecycle

CONSTANTS
    Sessions,   \* requests the event loop has in flight
    NoRequest,  \* a session that serves no request
    AttemptsCap \* bound of the model: rows past it take no more requests

VARIABLE sess

svars == <<registered, rows, history, reply, sess>>

Loaded ==
    [ req   : AllRequests,
      nodes : SUBSET Nodes,
      found : BOOLEAN,             \* the SELECT returned the row
      snap  : [Nodes -> Row] ]     \* the rows as loaded

ASSUME NoRequestAssumption == NoRequest \notin Loaded

Idle(s) == sess[s] = NoRequest

RegisteringOps == {"create_node", "boot", "boot_pi", "discover_pi"}

-----------------------------------------------------------------------------
SInit == Init /\ sess = [s \in Sessions |-> NoRequest]

\* The handler's first await: SELECT ... WHERE id / mac_address.  A row that is
\* not there ends the request with a 404, unless the route registers it.
Begin(s) ==
    /\ Idle(s)
    /\ \E req \in Requests, S \in SUBSET Nodes :
         LET found == S \subseteq registered IN
         /\ req.op = "bulk_change_state" => found
         /\ req.op # "bulk_change_state" => \E n \in Nodes : S = {n}
         /\ found \/ req.op \in RegisteringOps
         /\ \A n \in S : rows[n].attempts <= AttemptsCap
         /\ sess' = [sess EXCEPT ![s] =
                       [req |-> req, nodes |-> S, found |-> found,
                        snap |-> rows]]
    /\ UNCHANGED vars

\* Mutation: the whole loaded row is written back.
WriteWholeRow(row, snap, new) == new

\* The UPDATE of a flush: the columns that changed since the row was loaded.
WriteChanged(row, snap, new) ==
    [ state    |-> IF new.state # snap.state THEN new.state ELSE row.state,
      attempts |-> IF new.attempts # snap.attempts THEN new.attempts
                                                   ELSE row.attempts,
      failed   |-> IF new.failed # snap.failed THEN new.failed ELSE row.failed,
      changed  |-> IF new.changed # snap.changed THEN new.changed
                                                 ELSE row.changed,
      workflow |-> IF new.workflow # snap.workflow THEN new.workflow
                                                   ELSE row.workflow ]

\* A request that found its rows: run the handler on what was loaded, then
\* commit, or roll back when it raised.
FinishServe(s) ==
    LET m   == sess[s]
        out == [n \in m.nodes |-> Handle(m.req, m.snap[n])]
    IN
    /\ ~Idle(s)
    /\ m.found
    /\ rows' = [n \in Nodes |->
                  IF n \in m.nodes /\ out[n].ok
                  THEN WriteChanged(rows[n], m.snap[n], out[n].row)
                  ELSE rows[n]]
    /\ history' = [n \in Nodes |->
                     IF n \in m.nodes /\ out[n].log # NoEntry
                     THEN out[n].log ELSE history[n]]
    /\ reply' = IF m.req.op = "bulk_change_state" THEN "ok"
                ELSE LET n == CHOOSE n \in m.nodes : TRUE
                     IN  ReplyTo(m.req, m.snap[n], out[n])
    /\ sess' = [sess EXCEPT ![s] = NoRequest]
    /\ UNCHANGED registered

\* A request that found no row inserts one; the unique mac_address refuses the
\* second of two requests that both found none.
FinishRegister(s) ==
    LET m == sess[s]
        taken == m.nodes \subseteq registered
        inserts == RegisterBy(m.req.op) /\ ~taken
    IN
    /\ ~Idle(s)
    /\ ~m.found
    /\ registered' = IF inserts THEN registered \union m.nodes ELSE registered
    /\ reply' = CASE RegisterBy(m.req.op) /\ taken -> "error"
                  [] m.req.op = "create_node"      -> "ok"
                  [] OTHER                         -> "local"
    /\ sess' = [sess EXCEPT ![s] = NoRequest]
    /\ UNCHANGED <<rows, history>>

\* Mutation: the timeout is measured when the row is loaded.
AgeAtLoad(row) == row

\* The timeout is measured when the handler runs, from the loaded timestamp.
Age(row) == [row EXCEPT !.changed = IF @ = "recent" THEN "timed_out" ELSE @]

STimeoutElapses(n) ==
    /\ TimeoutElapses(n)
    /\ sess' = [s \in Sessions |->
                  IF Idle(s) THEN NoRequest
                  ELSE [sess[s] EXCEPT !.snap[n] = Age(@)]]

\* The controller stops: requests in flight never commit.
Crash ==
    /\ \E s \in Sessions : ~Idle(s)
    /\ sess' = [s \in Sessions |-> NoRequest]
    /\ UNCHANGED vars

SNext ==
    \/ \E s \in Sessions : Begin(s) \/ FinishServe(s) \/ FinishRegister(s)
    \/ \E n \in Nodes : STimeoutElapses(n)
    \/ Crash

SSpec == SInit /\ [][SNext]_svars

-----------------------------------------------------------------------------
(* Properties                                                               *)

\* Every variable has its type.
STypeOK ==
    /\ TypeOK
    /\ sess \in [Sessions -> Loaded \union {NoRequest}]

\* With one session at a time, requests that load and commit in two steps, and
\* requests lost in a crash, look like the atomic requests of NodeLifecycle.
ImplementsAtomicRequests == Spec

\* Session s ends in this step.
Ends(s) == ~Idle(s) /\ sess'[s] = NoRequest

\* A workflow assignment is never undone by a report, callback, transition or
\* boot that was in flight when it was made: only a request that assigns a
\* workflow writes the column.
WorkflowSurvives ==
    \A n \in Nodes :
        rows'[n].workflow # rows[n].workflow =>
          \E s \in Sessions :
            /\ Ends(s)
            /\ n \in sess[s].nodes
            /\ sess[s].req.op \in {"assign_workflow", "clone_boot"}

\* Two requests that both found a MAC unknown register it once: the second one
\* leaves the row, which may have moved on meanwhile, as it is.
RegisteredOnce ==
    \A s \in Sessions :
        Ends(s) /\ ~sess[s].found => \A n \in registered : rows'[n] = rows[n]

\* Requests that race on one node write no more than is theirs to write, as
\* the two actions above say, although each commits what it loaded before.
RacersKeepToTheirOwn == [][WorkflowSurvives /\ RegisteredOnce]_svars
=============================================================================
