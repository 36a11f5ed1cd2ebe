----------------------------- MODULE Approvals -----------------------------
(***************************************************************************)
(* Approval requests: src/src/api/routes/approvals.py,                     *)
(* src/src/services/approvals.py and the scheduled job                     *)
(* src/src/core/escalation_job.py.                                         *)
(*                                                                         *)
(* Every handler loads what it needs (Begin...) and later flushes and      *)
(* commits (Finish...).  SQLite takes the write lock at the first write of *)
(* a handler, so from there to the commit a handler is one step; between   *)
(* its load and its first write other handlers commit.  A handler that     *)
(* raises is rolled back by get_db and is no step at all, which includes   *)
(* the "expired" a vote on an overdue request assigns just before it       *)
(* raises.                                                                 *)
(***************************************************************************)
EXTENDS Naturals, Sequences, FiniteSets

CONSTANTS
    Approvals,       \* identities of approval requests
    Users,           \* a user's id and name
    Rules,           \* approval rules
    NoRow, NoId, NoRule, Idle,
    Sessions,        \* requests the event loop has in flight
    Scheduler,       \* the session of the escalation job
    Overlap,         \* a handler may start while another is in flight
    Endpoints,       \* operations in use
    AnonymousIds,    \* a caller may leave out the optional user ids
    Thresholds,      \* required_approvers of requests made directly
    RuleThresholds,  \* required_approvers of the rules
    MaxEscalations   \* MAX_ESCALATIONS

AllEndpoints ==
    {"create", "create_by_rule", "vote", "legacy_vote", "cancel",
     "cancel_by_name", "list", "delete_rule"}

ASSUME SentinelAssumption ==
    /\ NoId \notin Users
    /\ NoRule \notin Rules
    /\ Scheduler \notin Sessions
ASSUME ThresholdAssumption ==
    Thresholds \subseteq 1..5 /\ RuleThresholds \subseteq Nat \ {0}
ASSUME EscalationAssumption == MaxEscalations \in Nat
ASSUME SwitchAssumption == Overlap \in BOOLEAN /\ AnonymousIds \in BOOLEAN

VARIABLES
    rows,    \* the approvals table
    votes,   \* the approval_votes of each approval, in insertion order
    rules,   \* the approval_rules that exist
    sess     \* what each handler in flight has loaded

vars == <<rows, votes, rules, sess>>

Resolved == {"approved", "rejected", "expired", "cancelled"}

Row ==
    [ status       : {"pending"} \union Resolved,
      required     : Nat,
      rule         : Rules \union {NoRule},
      requester    : Users,
      requester_id : Users \union {NoId},
      escalations  : Nat,
      overdue      : BOOLEAN ]    \* expires_at has passed

Vote == [user : Users, user_id : Users \union {NoId}, vote : {"approve", "reject"}]

Voting     == [op : {"vote"}, approval : Approvals, vote : Vote]
Cancelling == [op : {"cancel"}, approval : Approvals]
Expiring   == [op : {"expire"}, due : SUBSET Approvals]
Escalating == [op : {"escalate"}, seen : [Approvals -> Row \union {NoRow}]]

Handler == Voting \union Cancelling \union Expiring

ASSUME RowAssumption == NoRow \notin Row
ASSUME IdleAssumption == Idle \notin Handler /\ Idle \notin Escalating

Workers == Sessions \union {Scheduler}

-----------------------------------------------------------------------------
(* What the handlers test and compute                                       *)

Exists(a)  == rows[a] # NoRow
Pending(a) == Exists(a) /\ rows[a].status = "pending"

\* The rows selected by status = 'pending' AND expires_at < now.
Overdue == {a \in Approvals : Pending(a) /\ rows[a].overdue}

IdsOf(u) == IF AnonymousIds THEN {u, NoId} ELSE {u}

NewRow(u, id, n, r) ==
    [status |-> "pending", required |-> n, rule |-> r, requester |-> u,
     requester_id |-> id, escalations |-> 0, overdue |-> FALSE]

Count(vs, kind) == Cardinality({i \in DOMAIN vs : vs[i].vote = kind})

\* Mutation: the name of a voter is not compared with those who voted.
CastVoteRepeats(a, u) ==
    /\ Pending(a)
    /\ ~rows[a].overdue
    /\ u # rows[a].requester_id
    /\ u # rows[a].requester

\* cast_vote of the service: the authenticated user u may vote on a.
CastVoteAccepts(a, u) ==
    /\ Pending(a)
    /\ ~rows[a].overdue
    /\ u # rows[a].requester_id
    /\ u # rows[a].requester
    /\ \A i \in DOMAIN votes[a] :
         votes[a][i].user_id # u /\ votes[a][i].user # u

\* Mutation: a vote is taken on a request that is no longer pending.
LegacyVoteAny(a, u) ==
    /\ Exists(a)
    /\ \A i \in DOMAIN votes[a] : votes[a][i].user # u
    /\ u # rows[a].requester
    /\ ~rows[a].overdue

\* _cast_vote of the legacy endpoints compares names only.
LegacyVoteAccepts(a, u) ==
    /\ Pending(a)
    /\ \A i \in DOMAIN votes[a] : votes[a][i].user # u
    /\ u # rows[a].requester
    /\ ~rows[a].overdue

\* Mutation: the list keeps the requests the user has voted on.
PendingForUserVoted(u) ==
    {a \in Approvals : /\ Pending(a)
                       /\ rows[a].requester_id # u
                       /\ ~rows[a].overdue}

\* get_pending_approvals_for_user compares ids only.
PendingForUser(u) ==
    {a \in Approvals :
        /\ Pending(a)
        /\ rows[a].requester_id # u
        /\ ~rows[a].overdue
        /\ \A i \in DOMAIN votes[a] : votes[a][i].user_id # u}

\* The status after a vote, from the votes refreshed after its insert.
StatusAfter(row, vs) ==
    IF Count(vs, "approve") >= row.required THEN "approved"
    ELSE IF Count(vs, "reject") >= row.required THEN "rejected"
    ELSE row.status

\* Mutation: the escalation is not counted.
EscalateUncounted(row, seen) ==
    [row EXCEPT !.overdue = IF seen.rule \in rules THEN FALSE ELSE @]

\* escalate_approval: the loaded count plus one; the timer restarts when the
\* request names a rule and that rule still exists.
Escalate(row, seen) ==
    [row EXCEPT !.escalations = seen.escalations + 1,
                !.overdue = IF seen.rule \in rules THEN FALSE ELSE @]

\* Mutation: requests expire one escalation early.
ProcessExpiredEarly(row, seen) ==
    IF seen.escalations + 1 < MaxEscalations THEN Escalate(row, seen)
    ELSE [row EXCEPT !.status = "expired"]

\* One request of process_expired_approvals.
ProcessExpired(row, seen) ==
    IF seen.escalations < MaxEscalations THEN Escalate(row, seen)
    ELSE [row EXCEPT !.status = "expired"]

-----------------------------------------------------------------------------
Init ==
    /\ rows = [a \in Approvals |-> NoRow]
    /\ votes = [a \in Approvals |-> <<>>]
    /\ rules = Rules
    /\ sess = [w \in Workers |-> Idle]

CanStart(w) ==
    /\ sess[w] = Idle
    /\ Overlap \/ \A x \in Workers : sess[x] = Idle

Start(w, handler) ==
    /\ CanStart(w)
    /\ sess' = [sess EXCEPT ![w] = handler]
    /\ UNCHANGED <<rows, votes, rules>>

\* create_approval: no rule, 24 hours.
CreateApproval(a) ==
    /\ "create" \in Endpoints
    /\ ~Exists(a)
    /\ \E u \in Users, n \in Thresholds : \E id \in IdsOf(u) :
         rows' = [rows EXCEPT ![a] = NewRow(u, id, n, NoRule)]
    /\ UNCHANGED <<votes, rules, sess>>

\* create_approval_request, for a rule that find_matching_rule returned.
CreateApprovalRequest(a) ==
    /\ "create_by_rule" \in Endpoints
    /\ ~Exists(a)
    /\ \E u \in Users, n \in RuleThresholds, r \in rules :
         rows' = [rows EXCEPT ![a] = NewRow(u, u, n, r)]
    /\ UNCHANGED <<votes, rules, sess>>

\* delete_rule: the requests made by the rule lose their rule_id.
DeleteRule(r) ==
    /\ "delete_rule" \in Endpoints
    /\ r \in rules
    /\ rules' = rules \ {r}
    /\ rows' = [a \in Approvals |->
                  IF Exists(a) /\ rows[a].rule = r
                  THEN [rows[a] EXCEPT !.rule = NoRule] ELSE rows[a]]
    /\ UNCHANGED <<votes, sess>>

\* POST /approvals/{id}/vote up to the insert of the vote.
BeginVote(s) ==
    /\ "vote" \in Endpoints
    /\ \E a \in Approvals, u \in Users, kind \in {"approve", "reject"} :
         /\ CastVoteAccepts(a, u)
         /\ Start(s, [op |-> "vote", approval |-> a,
                      vote |-> [user |-> u, user_id |-> u, vote |-> kind]])

\* POST /approvals/{id}/approve and /reject up to the insert of the vote.
BeginLegacyVote(s) ==
    /\ "legacy_vote" \in Endpoints
    /\ \E a \in Approvals, u \in Users, kind \in {"approve", "reject"} :
         /\ LegacyVoteAccepts(a, u)
         /\ \E id \in IdsOf(u) :
              Start(s, [op |-> "vote", approval |-> a,
                        vote |-> [user |-> u, user_id |-> id, vote |-> kind]])

\* Mutation: the votes are counted without the one just inserted.
FinishVoteUnrefreshed(s) ==
    LET h == sess[s]
        vs == Append(votes[h.approval], h.vote)
    IN
    /\ h # Idle
    /\ h.op = "vote"
    /\ votes' = [votes EXCEPT ![h.approval] = vs]
    /\ rows' = [rows EXCEPT ![h.approval].status =
                   StatusAfter(rows[h.approval], votes[h.approval])]
    /\ sess' = [sess EXCEPT ![s] = Idle]
    /\ UNCHANGED rules

\* Insert the vote, count the votes, resolve the request, commit.
FinishVote(s) ==
    LET h == sess[s]
        vs == Append(votes[h.approval], h.vote)
    IN
    /\ h # Idle
    /\ h.op = "vote"
    /\ votes' = [votes EXCEPT ![h.approval] = vs]
    /\ rows' = [rows EXCEPT ![h.approval].status = StatusAfter(rows[h.approval], vs)]
    /\ sess' = [sess EXCEPT ![s] = Idle]
    /\ UNCHANGED rules

\* POST /approvals/{id}/cancel compares ids.
BeginCancel(s) ==
    /\ "cancel" \in Endpoints
    /\ \E a \in Approvals, u \in Users :
         /\ Pending(a)
         /\ rows[a].requester_id = u
         /\ Start(s, [op |-> "cancel", approval |-> a])

\* DELETE /approvals/{id} compares names.
BeginCancelByName(s) ==
    /\ "cancel_by_name" \in Endpoints
    /\ \E a \in Approvals, u \in Users :
         /\ Pending(a)
         /\ rows[a].requester = u
         /\ Start(s, [op |-> "cancel", approval |-> a])

\* Mark the request cancelled, commit.
FinishCancel(s) ==
    /\ sess[s] # Idle
    /\ sess[s].op = "cancel"
    /\ rows' = [rows EXCEPT ![sess[s].approval].status = "cancelled"]
    /\ sess' = [sess EXCEPT ![s] = Idle]
    /\ UNCHANGED <<votes, rules>>

\* GET /approvals and GET /approvals/stats select the overdue requests ...
BeginList(s) ==
    /\ "list" \in Endpoints
    /\ Overdue # {}
    /\ Start(s, [op |-> "expire", due |-> Overdue])

\* ... and mark them expired (_expire_old_approvals).
FinishList(s) ==
    /\ sess[s] # Idle
    /\ sess[s].op = "expire"
    /\ rows' = [a \in Approvals |->
                  IF a \in sess[s].due THEN [rows[a] EXCEPT !.status = "expired"]
                  ELSE rows[a]]
    /\ sess' = [sess EXCEPT ![s] = Idle]
    /\ UNCHANGED <<votes, rules>>

\* process_escalations loads the overdue requests ...
BeginEscalation ==
    /\ Overdue # {}
    /\ Start(Scheduler, [op |-> "escalate", seen |-> [a \in Approvals |->
                            IF a \in Overdue THEN rows[a] ELSE NoRow]])

\* ... and escalates or expires each of them, in one transaction.
FinishEscalation ==
    /\ sess[Scheduler] # Idle
    /\ rows' = [a \in Approvals |->
                  IF sess[Scheduler].seen[a] # NoRow
                  THEN ProcessExpired(rows[a], sess[Scheduler].seen[a])
                  ELSE rows[a]]
    /\ sess' = [sess EXCEPT ![Scheduler] = Idle]
    /\ UNCHANGED <<votes, rules>>

\* A handler that cannot get the write lock, or dies, leaves nothing behind.
Abort(w) ==
    /\ sess[w] # Idle
    /\ sess' = [sess EXCEPT ![w] = Idle]
    /\ UNCHANGED <<rows, votes, rules>>

\* Time passes beyond expires_at.
Elapse(a) ==
    /\ Exists(a)
    /\ ~rows[a].overdue
    /\ rows' = [rows EXCEPT ![a].overdue = TRUE]
    /\ UNCHANGED <<votes, rules, sess>>

Finish(s) == FinishVote(s) \/ FinishCancel(s) \/ FinishList(s)

Next ==
    \/ \E a \in Approvals : CreateApproval(a) \/ CreateApprovalRequest(a) \/ Elapse(a)
    \/ \E r \in Rules : DeleteRule(r)
    \/ \E s \in Sessions :
         \/ BeginVote(s) \/ BeginLegacyVote(s)
         \/ BeginCancel(s) \/ BeginCancelByName(s) \/ BeginList(s)
         \/ Finish(s)
    \/ BeginEscalation \/ FinishEscalation
    \/ \E w \in Workers : Abort(w)

Spec == Init /\ [][Next]_vars

\* Deadlines pass, the job runs every five minutes and, if it runs again and
\* again, some run commits.
Fairness ==
    /\ \A a \in Approvals : WF_vars(Elapse(a))
    /\ WF_vars(BeginEscalation)
    /\ SF_vars(FinishEscalation)

FairSpec == Spec /\ Fairness

-----------------------------------------------------------------------------
(* Properties                                                               *)

\* Every variable has its type.
TypeOK ==
    /\ rows \in [Approvals -> Row \union {NoRow}]
    /\ votes \in [Approvals -> Seq(Vote)]
    /\ rules \subseteq Rules
    /\ sess \in [Workers -> Handler \union Escalating \union {Idle}]
    /\ sess[Scheduler] \in Escalating \union {Idle}
    /\ \A s \in Sessions : sess[s] \in Handler \union {Idle}

\* However votes, cancellations, listings and the job overlap, a request is
\* approved only with enough approvals, rejected only with enough rejections
\* and too few approvals, and never left pending with enough of either.
StatusMatchesVotes ==
    \A a \in Approvals :
      /\ ~Exists(a) => votes[a] = <<>>
      /\ Exists(a) =>
        LET approvals  == Count(votes[a], "approve")
            rejections == Count(votes[a], "reject")
        IN /\ rows[a].status = "approved" => approvals >= rows[a].required
           /\ rows[a].status = "rejected" =>
                 rejections >= rows[a].required /\ approvals < rows[a].required
           /\ rows[a].status = "pending" =>
                 approvals < rows[a].required /\ rejections < rows[a].required

\* The handler h has loaded the request a and will write it.
Touches(h, a) ==
    \/ h.op \in {"vote", "cancel"} /\ h.approval = a
    \/ h.op = "expire" /\ a \in h.due
    \/ h.op = "escalate" /\ h.seen[a] # NoRow

\* A handler in flight writes requests that exist; when handlers do not
\* overlap it is alone, and what it loaded as pending is pending still.
LoadedIsCurrent ==
    \A w \in Workers : sess[w] # Idle =>
        /\ \A a \in Approvals : Touches(sess[w], a) =>
              Exists(a) /\ (~Overlap => rows[a].status = "pending")
        /\ ~Overlap => \A x \in Workers : sess[x] # Idle => x = w

Approvers(a) ==
    {votes[a][i].user : i \in {j \in DOMAIN votes[a] : votes[a][j].vote = "approve"}}

\* An approved request was approved by as many different users as it requires,
\* the requester not counted.
FourEyes ==
    \A a \in Approvals : Exists(a) /\ rows[a].status = "approved" =>
        Cardinality(Approvers(a) \ {rows[a].requester}) >= rows[a].required

\* A request that was approved, rejected, cancelled or expired stays so.
ResolvedIsFinal ==
    [][\A a \in Approvals :
         Exists(a) /\ rows[a].status \in Resolved =>
             rows'[a].status = rows[a].status]_vars

\* u made the request a, or voted on it, without giving an id.
LeftNoId(a, u) ==
    \/ rows[a].requester = u /\ rows[a].requester_id = NoId
    \/ \E i \in DOMAIN votes[a] :
         votes[a][i].user = u /\ votes[a][i].user_id = NoId

\* The list compares ids, a vote ids and names, and ids are optional: still no
\* request that waits for a user's vote is missing from that user's list, and
\* the only ones listed on which a vote is refused are those the user made or
\* voted on without an id.
MyPendingMissesNothing ==
    \A u \in Users :
        /\ {a \in Approvals : CastVoteAccepts(a, u)} \subseteq PendingForUser(u)
        /\ \A a \in PendingForUser(u) : CastVoteAccepts(a, u) \/ LeftNoId(a, u)

\* However votes, listings and the job overlap, a request that no listing
\* expires is given up only after every escalation it is due, and an escalation
\* by a rule leaves time to vote: neither a stale count, a second run of the job
\* nor a rule read after the request cuts its time short.
EscalationsComeFirst ==
    [][\A a \in Approvals : Exists(a) =>
         /\ rows[a].status # "expired" /\ rows'[a].status = "expired" =>
              \/ rows[a].escalations = MaxEscalations
              \/ \E s \in Sessions : sess[s] # Idle /\ sess[s].op = "expire"
         /\ rows'[a].escalations > rows[a].escalations /\ rows[a].rule # NoRule =>
              ~rows'[a].overdue]_vars

\* Every request is resolved in the end, whoever votes or does not.
EveryRequestResolved ==
    \A a \in Approvals : Exists(a) ~> (Exists(a) /\ rows[a].status \in Resolved)
=============================================================================
