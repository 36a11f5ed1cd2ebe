--------------------------- MODULE ApprovalsProofs ---------------------------
(***************************************************************************)
(* Theorems about Approvals, for any approvals, users, rules, sessions and *)
(* thresholds.                                                             *)
(*                                                                         *)
(* The invariant of the status is TypeOK, LoadedIsCurrent and              *)
(* StatusMatchesVotes.  Who voted is counted by VotersDiffer, which needs  *)
(* handlers that do not overlap; that the lists agree with the checks of a *)
(* vote rests on IdsAgree, of callers that give their ids; and what the    *)
(* job escalates or gives up on EscalationsCurrent, whatever overlaps.     *)
(***************************************************************************)
EXTENDS Approvals, FiniteSetTheorems, TLAPS

-----------------------------------------------------------------------------
(* Counting votes                                                           *)

\* A sequence of votes holds finitely many of one kind.
LEMMA CountType ==
    ASSUME NEW vs \in Seq(Vote), NEW kind
    PROVE  /\ IsFiniteSet({i \in DOMAIN vs : vs[i].vote = kind})
           /\ Count(vs, kind) \in Nat
<1> DEFINE S == {i \in DOMAIN vs : vs[i].vote = kind}
<1>1. Len(vs) \in Nat /\ DOMAIN vs = 1..Len(vs)
  OBVIOUS
<1>2. IsFiniteSet(1..Len(vs))
  BY <1>1, FS_Interval
<1>3. S \subseteq 1..Len(vs)
  BY <1>1
<1>4. IsFiniteSet(S)
  BY <1>2, <1>3, FS_Subset
<1> QED
  BY <1>4, FS_CardinalityType DEF Count

\* Inserting a vote lowers no count.
LEMMA CountGrows ==
    ASSUME NEW vs \in Seq(Vote), NEW v \in Vote, NEW kind
    PROVE  Count(vs, kind) <= Count(Append(vs, v), kind)
<1> DEFINE new == Append(vs, v)
           S == {i \in DOMAIN vs : vs[i].vote = kind}
           T == {i \in DOMAIN new : new[i].vote = kind}
<1>1. new \in Seq(Vote) /\ Len(new) = Len(vs) + 1 /\ Len(vs) \in Nat
  OBVIOUS
<1>2. \A i \in 1..Len(vs) : new[i] = vs[i]
  OBVIOUS
<1>3. DOMAIN vs = 1..Len(vs) /\ DOMAIN new = 1..Len(new)
  BY <1>1
<1>4. S \subseteq T
  BY <1>1, <1>2, <1>3
<1>5. IsFiniteSet(T)
  BY <1>1, CountType
<1> QED
  BY <1>4, <1>5, FS_Subset DEF Count

\* The recount leaves a status that agrees with the votes, if the status agreed
\* with the votes there were before.
LEMMA Recount ==
    ASSUME NEW row \in Row, NEW vs \in Seq(Vote), NEW v \in Vote,
           row.status = "approved" => Count(vs, "approve") >= row.required,
           row.status = "rejected" => Count(vs, "reject") >= row.required
    PROVE  LET new == Append(vs, v)
               st  == StatusAfter(row, new)
           IN /\ st \in {"pending"} \union Resolved
              /\ st = "approved" => Count(new, "approve") >= row.required
              /\ st = "rejected" => /\ Count(new, "reject") >= row.required
                                    /\ Count(new, "approve") < row.required
              /\ st = "pending" => /\ Count(new, "approve") < row.required
                                   /\ Count(new, "reject") < row.required
<1> DEFINE new == Append(vs, v)
<1>1. new \in Seq(Vote)
  OBVIOUS
<1>2. /\ Count(vs, "approve") \in Nat /\ Count(new, "approve") \in Nat
      /\ Count(vs, "reject") \in Nat  /\ Count(new, "reject") \in Nat
  BY <1>1, CountType
<1>3. /\ Count(vs, "approve") <= Count(new, "approve")
      /\ Count(vs, "reject") <= Count(new, "reject")
  BY CountGrows
<1>4. row.required \in Nat /\ row.status \in {"pending"} \union Resolved
  BY DEF Row
<1> HIDE DEF new
<1>5. /\ StatusAfter(row, new) \in {"pending"} \union Resolved
      /\ StatusAfter(row, new) = "approved" => Count(new, "approve") >= row.required
      /\ StatusAfter(row, new) = "rejected" => /\ Count(new, "reject") >= row.required
                                               /\ Count(new, "approve") < row.required
      /\ StatusAfter(row, new) = "pending" => /\ Count(new, "approve") < row.required
                                              /\ Count(new, "reject") < row.required
  BY <1>2, <1>3, <1>4 DEF StatusAfter, Resolved
<1> QED
  BY <1>5 DEF new

-----------------------------------------------------------------------------
(* Steps that start a handler, end one, or leave the handlers alone         *)

IInv == TypeOK /\ LoadedIsCurrent /\ StatusMatchesVotes

\* The operation of a handler tells its kind.
LEMMA HandlerShape ==
    ASSUME NEW h \in Handler
    PROVE  /\ h.op = "vote" => h.approval \in Approvals /\ h.vote \in Vote
           /\ h.op = "cancel" => h.approval \in Approvals
           /\ h.op = "expire" => h.due \subseteq Approvals
<1>1. CASE h \in Voting
  BY <1>1 DEF Voting
<1>2. CASE h \in Cancelling
  BY <1>2 DEF Cancelling
<1>3. CASE h \in Expiring
  BY <1>3 DEF Expiring
<1> QED
  BY <1>1, <1>2, <1>3 DEF Handler

\* Starting a handler that loaded pending requests keeps the invariant.
LEMMA StartKeeps ==
    ASSUME IInv, NEW w \in Workers, NEW h, Start(w, h),
           \/ w = Scheduler /\ h \in Escalating
           \/ w \in Sessions /\ h \in Handler,
           \A a \in Approvals : Touches(h, a) => Pending(a)
    PROVE  IInv'
<1>1. UNCHANGED <<rows, votes, rules>> /\ sess' = [sess EXCEPT ![w] = h]
  BY DEF Start
<1>2. sess \in [Workers -> Handler \union Escalating \union {Idle}]
  BY DEF IInv, TypeOK
<1>3. /\ sess' \in [Workers -> Handler \union Escalating \union {Idle}]
      /\ sess'[w] = h
      /\ \A x \in Workers : x # w => sess'[x] = sess[x]
  BY <1>1, <1>2
<1>4. TypeOK'
  BY <1>1, <1>3, SentinelAssumption DEF IInv, TypeOK, Workers
<1>5. LoadedIsCurrent'
  <2> SUFFICES ASSUME NEW x \in Workers, sess'[x] # Idle
               PROVE  /\ \A a \in Approvals : Touches(sess'[x], a) =>
                            rows[a] # NoRow /\ (~Overlap => rows[a].status = "pending")
                      /\ ~Overlap => \A y \in Workers : sess'[y] # Idle => y = x
    BY <1>1 DEF LoadedIsCurrent, Exists, Touches
  <2>1. CASE x = w
    BY <2>1, <1>3 DEF Start, CanStart, Pending, Exists
  <2>2. CASE x # w
    BY <2>2, <1>3 DEF Start, CanStart, IInv, LoadedIsCurrent, Exists
  <2> QED
    BY <2>1, <2>2
<1>6. StatusMatchesVotes'
  BY <1>1 DEF IInv, StatusMatchesVotes, Exists
<1> QED
  BY <1>4, <1>5, <1>6 DEF IInv

\* A handler that ends leaves the others with what they loaded, if no row
\* disappears.
LEMMA EndKeepsLoaded ==
    ASSUME TypeOK, LoadedIsCurrent, NEW w \in Workers, sess[w] # Idle,
           sess' = [sess EXCEPT ![w] = Idle],
           \A a \in Approvals : rows[a] # NoRow => rows'[a] # NoRow
    PROVE  LoadedIsCurrent'
<1>1. sess \in [Workers -> Handler \union Escalating \union {Idle}]
  BY DEF TypeOK
<1>2. \A x \in Workers : sess'[x] # Idle => x # w /\ sess'[x] = sess[x]
  BY <1>1
<1> SUFFICES ASSUME NEW x \in Workers, sess'[x] # Idle
             PROVE  /\ \A a \in Approvals : Touches(sess'[x], a) =>
                          rows'[a] # NoRow /\ (~Overlap => rows'[a].status = "pending")
                    /\ ~Overlap => \A y \in Workers : sess'[y] # Idle => y = x
  BY DEF LoadedIsCurrent, Exists, Touches
<1>3. Overlap
  BY <1>2 DEF LoadedIsCurrent
<1> QED
  BY <1>2, <1>3 DEF LoadedIsCurrent, Exists

\* The type of the handlers survives the end of one.
LEMMA EndKeepsType ==
    ASSUME TypeOK, NEW w \in Workers, sess' = [sess EXCEPT ![w] = Idle]
    PROVE  /\ sess' \in [Workers -> Handler \union Escalating \union {Idle}]
           /\ sess'[Scheduler] \in Escalating \union {Idle}
           /\ \A s \in Sessions : sess'[s] \in Handler \union {Idle}
  BY DEF TypeOK, Workers

\* Steps that leave the handlers and the status of the requests alone.
LEMMA QuietKeepsLoaded ==
    ASSUME TypeOK, LoadedIsCurrent, sess' = sess,
           \A a \in Approvals : rows[a] # NoRow =>
               rows'[a] # NoRow /\ rows'[a].status = rows[a].status
    PROVE  LoadedIsCurrent'
  BY DEF LoadedIsCurrent, Exists, Touches

\* Without a new vote, a request that keeps its threshold, and its status
\* unless it is cancelled or expired, still agrees with its votes.
LEMMA StatusKept ==
    ASSUME StatusMatchesVotes, votes' = votes,
           \A a \in Approvals :
             \/ rows'[a] = rows[a]
             \/ /\ rows[a] # NoRow
                /\ rows'[a] # NoRow
                /\ rows'[a].required = rows[a].required
                /\ rows'[a].status \in {rows[a].status, "cancelled", "expired"}
    PROVE  StatusMatchesVotes'
<1> SUFFICES ASSUME NEW a \in Approvals
             PROVE  /\ rows'[a] = NoRow => votes[a] = <<>>
                    /\ rows'[a] # NoRow =>
                         /\ rows'[a].status = "approved" =>
                               Count(votes[a], "approve") >= rows'[a].required
                         /\ rows'[a].status = "rejected" =>
                               /\ Count(votes[a], "reject") >= rows'[a].required
                               /\ Count(votes[a], "approve") < rows'[a].required
                         /\ rows'[a].status = "pending" =>
                               /\ Count(votes[a], "approve") < rows'[a].required
                               /\ Count(votes[a], "reject") < rows'[a].required
  BY DEF StatusMatchesVotes, Exists, Count
<1> QED
  BY DEF StatusMatchesVotes, Exists

-----------------------------------------------------------------------------
(* The actions                                                              *)

\* A request created pending, with no votes and a threshold of at least one.
LEMMA CreateKeeps ==
    ASSUME IInv, NEW a \in Approvals, ~Exists(a),
           NEW row \in Row, row.status = "pending", row.required > 0,
           rows' = [rows EXCEPT ![a] = row], UNCHANGED <<votes, rules, sess>>
    PROVE  IInv'
<1>1. rows \in [Approvals -> Row \union {NoRow}]
  BY DEF IInv, TypeOK
<1>2. rows'[a] = row /\ \A b \in Approvals : b # a => rows'[b] = rows[b]
  BY <1>1
<1>3. TypeOK'
  BY <1>1 DEF IInv, TypeOK
<1>4. LoadedIsCurrent'
  BY <1>2, QuietKeepsLoaded DEF IInv, Exists
<1>5. Count(votes[a], "approve") = 0 /\ Count(votes[a], "reject") = 0
  <2>1. votes[a] = <<>>
    BY DEF IInv, StatusMatchesVotes
  <2>2. DOMAIN votes[a] = {}
    BY <2>1
  <2> QED
    BY <2>2, FS_EmptySet DEF Count
<1>6. StatusMatchesVotes'
  <2> SUFFICES ASSUME NEW b \in Approvals
               PROVE  /\ rows'[b] = NoRow => votes[b] = <<>>
                      /\ rows'[b] # NoRow =>
                           /\ rows'[b].status = "approved" =>
                                 Count(votes[b], "approve") >= rows'[b].required
                           /\ rows'[b].status = "rejected" =>
                                 /\ Count(votes[b], "reject") >= rows'[b].required
                                 /\ Count(votes[b], "approve") < rows'[b].required
                           /\ rows'[b].status = "pending" =>
                                 /\ Count(votes[b], "approve") < rows'[b].required
                                 /\ Count(votes[b], "reject") < rows'[b].required
    BY DEF StatusMatchesVotes, Exists, Count
  <2>1. CASE b = a
    BY <2>1, <1>2, <1>5, RowAssumption DEF Row
  <2>2. CASE b # a
    BY <2>2, <1>2 DEF IInv, StatusMatchesVotes, Exists
  <2> QED
    BY <2>1, <2>2
<1> QED
  BY <1>3, <1>4, <1>6 DEF IInv

\* create_approval and create_approval_request.
LEMMA CreateStep ==
    ASSUME IInv, NEW a \in Approvals, CreateApproval(a) \/ CreateApprovalRequest(a)
    PROVE  IInv'
<1>1. CASE CreateApproval(a)
  <2>1. PICK u \in Users, n \in Thresholds : \E id \in IdsOf(u) :
          rows' = [rows EXCEPT ![a] = NewRow(u, id, n, NoRule)]
    BY <1>1 DEF CreateApproval
  <2>2. PICK id \in IdsOf(u) : rows' = [rows EXCEPT ![a] = NewRow(u, id, n, NoRule)]
    BY <2>1
  <2>3. n \in Nat /\ n > 0
    BY ThresholdAssumption
  <2>4. id \in Users \union {NoId}
    BY <2>2 DEF IdsOf
  <2>5. /\ NewRow(u, id, n, NoRule) \in Row
        /\ NewRow(u, id, n, NoRule).status = "pending"
        /\ NewRow(u, id, n, NoRule).required > 0
    BY <2>3, <2>4 DEF NewRow, Row, Resolved
  <2> QED
    BY <1>1, <2>2, <2>5, CreateKeeps DEF CreateApproval
<1>2. CASE CreateApprovalRequest(a)
  <2>1. PICK u \in Users, n \in RuleThresholds, r \in rules :
          rows' = [rows EXCEPT ![a] = NewRow(u, u, n, r)]
    BY <1>2 DEF CreateApprovalRequest
  <2>2. n \in Nat /\ n > 0 /\ r \in Rules
    BY <2>1, ThresholdAssumption DEF IInv, TypeOK
  <2>3. /\ NewRow(u, u, n, r) \in Row
        /\ NewRow(u, u, n, r).status = "pending"
        /\ NewRow(u, u, n, r).required > 0
    BY <2>2 DEF NewRow, Row, Resolved
  <2> QED
    BY <1>2, <2>1, <2>3, CreateKeeps DEF CreateApprovalRequest
<1> QED
  BY <1>1, <1>2

\* delete_rule takes rule_id from the requests of the rule and nothing else.
LEMMA DeleteRuleStep ==
    ASSUME IInv, NEW r \in Rules, DeleteRule(r)
    PROVE  IInv'
<1>1. rows \in [Approvals -> Row \union {NoRow}]
  BY DEF IInv, TypeOK
<1>2. ASSUME NEW a \in Approvals
      PROVE  /\ rows'[a] \in Row \union {NoRow}
             /\ \/ rows'[a] = rows[a]
                \/ /\ rows[a] # NoRow
                   /\ rows'[a] # NoRow
                   /\ rows'[a].required = rows[a].required
                   /\ rows'[a].status = rows[a].status
  <2>1. CASE rows[a] # NoRow /\ rows[a].rule = r
    <3>1. rows[a] \in Row /\ rows'[a] = [rows[a] EXCEPT !.rule = NoRule]
      BY <1>1, <2>1 DEF DeleteRule, Exists
    <3>2. /\ rows'[a] \in Row
          /\ rows'[a].required = rows[a].required
          /\ rows'[a].status = rows[a].status
      BY <3>1 DEF Row
    <3>3. rows'[a] # NoRow
      BY <3>2, RowAssumption
    <3> QED
      BY <2>1, <3>2, <3>3
  <2>2. CASE ~(rows[a] # NoRow /\ rows[a].rule = r)
    BY <1>1, <2>2 DEF DeleteRule, Exists
  <2> QED
    BY <2>1, <2>2
<1>3. TypeOK'
  BY <1>2 DEF IInv, TypeOK, DeleteRule
<1>4. LoadedIsCurrent'
  <2>1. \A a \in Approvals : rows[a] # NoRow =>
               rows'[a] # NoRow /\ rows'[a].status = rows[a].status
    BY <1>2
  <2> QED
    BY <2>1, QuietKeepsLoaded DEF IInv, DeleteRule
<1>5. StatusMatchesVotes'
  BY <1>2, StatusKept DEF IInv, DeleteRule
<1> QED
  BY <1>3, <1>4, <1>5 DEF IInv

\* The clock changes no status.
LEMMA ElapseStep ==
    ASSUME IInv, NEW a \in Approvals, Elapse(a)
    PROVE  IInv'
<1>1. rows \in [Approvals -> Row \union {NoRow}]
  BY DEF IInv, TypeOK
<1>2. rows[a] \in Row /\ rows' = [rows EXCEPT ![a] = [rows[a] EXCEPT !.overdue = TRUE]]
  BY <1>1 DEF Elapse, Exists
<1>3. /\ rows'[a] \in Row
      /\ rows'[a].required = rows[a].required
      /\ rows'[a].status = rows[a].status
  BY <1>1, <1>2 DEF Row
<1>4. rows'[a] # NoRow
  BY <1>3, RowAssumption
<1>5. \A b \in Approvals : b # a => rows'[b] = rows[b]
  BY <1>1, <1>2
<1>6. TypeOK'
  BY <1>1, <1>2, <1>3 DEF IInv, TypeOK, Elapse
<1>7. LoadedIsCurrent'
  BY <1>3, <1>4, <1>5, QuietKeepsLoaded DEF IInv, Elapse
<1>8. StatusMatchesVotes'
  <2>1. rows[a] # NoRow
    BY DEF Elapse, Exists
  <2> QED
    BY <1>3, <1>4, <1>5, <2>1, StatusKept DEF IInv, Elapse
<1> QED
  BY <1>6, <1>7, <1>8 DEF IInv

\* The handlers that start have loaded pending requests.
LEMMA BeginStep ==
    ASSUME IInv, NEW s \in Sessions,
           \/ BeginVote(s) \/ BeginLegacyVote(s)
           \/ BeginCancel(s) \/ BeginCancelByName(s) \/ BeginList(s)
    PROVE  IInv'
<1>1. s \in Workers
  BY DEF Workers
<1>2. ASSUME NEW a \in Approvals, NEW v \in Vote, Pending(a),
             Start(s, [op |-> "vote", approval |-> a, vote |-> v])
      PROVE  IInv'
  <2> DEFINE h == [op |-> "vote", approval |-> a, vote |-> v]
  <2>1. h \in Handler
    BY DEF Handler, Voting
  <2>2. \A b \in Approvals : Touches(h, b) => Pending(b)
    BY <1>2 DEF Touches
  <2> QED
    BY <1>1, <1>2, <2>1, <2>2, StartKeeps
<1>3. ASSUME NEW a \in Approvals, Pending(a),
             Start(s, [op |-> "cancel", approval |-> a])
      PROVE  IInv'
  <2> DEFINE h == [op |-> "cancel", approval |-> a]
  <2>1. h \in Handler
    BY DEF Handler, Cancelling
  <2>2. \A b \in Approvals : Touches(h, b) => Pending(b)
    BY <1>3 DEF Touches
  <2> QED
    BY <1>1, <1>3, <2>1, <2>2, StartKeeps
<1>4. CASE BeginVote(s)
  <2>1. PICK a \in Approvals, u \in Users, kind \in {"approve", "reject"} :
          /\ CastVoteAccepts(a, u)
          /\ Start(s, [op |-> "vote", approval |-> a,
                       vote |-> [user |-> u, user_id |-> u, vote |-> kind]])
    BY <1>4 DEF BeginVote
  <2>2. [user |-> u, user_id |-> u, vote |-> kind] \in Vote
    BY DEF Vote
  <2> QED
    BY <1>2, <2>1, <2>2 DEF CastVoteAccepts
<1>5. CASE BeginLegacyVote(s)
  <2>1. PICK a \in Approvals, u \in Users, kind \in {"approve", "reject"} :
          /\ LegacyVoteAccepts(a, u)
          /\ \E id \in IdsOf(u) :
               Start(s, [op |-> "vote", approval |-> a,
                         vote |-> [user |-> u, user_id |-> id, vote |-> kind]])
    BY <1>5 DEF BeginLegacyVote
  <2>2. PICK id \in IdsOf(u) :
               Start(s, [op |-> "vote", approval |-> a,
                         vote |-> [user |-> u, user_id |-> id, vote |-> kind]])
    BY <2>1
  <2>3. id \in Users \union {NoId}
    BY <2>2 DEF IdsOf
  <2>4. [user |-> u, user_id |-> id, vote |-> kind] \in Vote
    BY <2>3 DEF Vote
  <2> QED
    BY <1>2, <2>1, <2>2, <2>4 DEF LegacyVoteAccepts
<1>6. CASE BeginCancel(s)
  BY <1>3, <1>6 DEF BeginCancel
<1>7. CASE BeginCancelByName(s)
  BY <1>3, <1>7 DEF BeginCancelByName
<1>8. CASE BeginList(s)
  <2> DEFINE h == [op |-> "expire", due |-> Overdue]
  <2>1. h \in Handler
    BY DEF Handler, Expiring, Overdue
  <2>2. \A b \in Approvals : Touches(h, b) => Pending(b)
    BY DEF Touches, Overdue
  <2>3. Start(s, h)
    BY <1>8 DEF BeginList
  <2> QED
    BY <1>1, <2>1, <2>2, <2>3, StartKeeps
<1> QED
  BY <1>4, <1>5, <1>6, <1>7, <1>8

\* The job starts from the pending requests that are overdue.
LEMMA BeginEscalationStep ==
    ASSUME IInv, BeginEscalation
    PROVE  IInv'
<1> DEFINE seen == [a \in Approvals |-> IF a \in Overdue THEN rows[a] ELSE NoRow]
           h == [op |-> "escalate", seen |-> seen]
<1>1. seen \in [Approvals -> Row \union {NoRow}]
  BY DEF IInv, TypeOK
<1>2. h \in Escalating
  BY <1>1 DEF Escalating
<1>3. \A b \in Approvals : Touches(h, b) => Pending(b)
  BY DEF Touches, Overdue
<1>4. Start(Scheduler, h)
  BY DEF BeginEscalation
<1> QED
  BY <1>2, <1>3, <1>4, StartKeeps DEF Workers

\* A handler that ends and writes only the status, the escalations or the
\* deadline of requests, the status only to cancelled or expired.
LEMMA EndKeeps ==
    ASSUME IInv, NEW w \in Workers, sess[w] # Idle,
           sess' = [sess EXCEPT ![w] = Idle], UNCHANGED <<votes, rules>>,
           rows' = [a \in Approvals |-> rows'[a]],
           \A a \in Approvals :
             \/ rows'[a] = rows[a]
             \/ /\ rows[a] # NoRow
                /\ rows'[a] \in Row
                /\ rows'[a].required = rows[a].required
                /\ rows'[a].status \in {rows[a].status, "cancelled", "expired"}
    PROVE  IInv'
<1>1. rows \in [Approvals -> Row \union {NoRow}]
  BY DEF IInv, TypeOK
<1>2. \A a \in Approvals : rows[a] # NoRow => rows'[a] # NoRow
  BY RowAssumption
<1>3. rows' \in [Approvals -> Row \union {NoRow}]
  BY <1>1
<1>4. TypeOK'
  BY <1>3, EndKeepsType DEF IInv, TypeOK
<1>5. LoadedIsCurrent'
  BY <1>2, EndKeepsLoaded DEF IInv
<1>6. StatusMatchesVotes'
  BY <1>2, StatusKept DEF IInv
<1> QED
  BY <1>4, <1>5, <1>6 DEF IInv

\* Cancelling.
LEMMA FinishCancelStep ==
    ASSUME IInv, NEW s \in Sessions, FinishCancel(s)
    PROVE  IInv'
<1> DEFINE a == sess[s].approval
<1>1. rows \in [Approvals -> Row \union {NoRow}] /\ s \in Workers
  BY DEF IInv, TypeOK, Workers
<1>2. sess[s] \in Handler /\ sess[s].op = "cancel" /\ sess[s] # Idle
  BY DEF IInv, TypeOK, FinishCancel
<1>3. a \in Approvals
  BY <1>2, HandlerShape
<1>4. rows[a] # NoRow
  BY <1>1, <1>2, <1>3 DEF IInv, LoadedIsCurrent, Touches, Exists
<1>5. rows[a] \in Row /\ rows' = [rows EXCEPT ![a] = [rows[a] EXCEPT !.status = "cancelled"]]
  BY <1>1, <1>3, <1>4 DEF FinishCancel
<1>6. [rows[a] EXCEPT !.status = "cancelled"] \in Row
      /\ [rows[a] EXCEPT !.status = "cancelled"].required = rows[a].required
      /\ [rows[a] EXCEPT !.status = "cancelled"].status = "cancelled"
  BY <1>5 DEF Row, Resolved
<1>7. \A b \in Approvals :
        rows'[b] = IF b = a THEN [rows[a] EXCEPT !.status = "cancelled"] ELSE rows[b]
  BY <1>1, <1>5
<1>8. rows' = [b \in Approvals |-> rows'[b]]
  BY <1>1, <1>5
<1>9. /\ sess' = [sess EXCEPT ![s] = Idle]
      /\ UNCHANGED <<votes, rules>>
  BY DEF FinishCancel
<1> HIDE DEF a
<1> QED
  BY <1>1, <1>2, <1>4, <1>6, <1>7, <1>8, <1>9, EndKeeps

\* Listing.
LEMMA FinishListStep ==
    ASSUME IInv, NEW s \in Sessions, FinishList(s)
    PROVE  IInv'
<1>1. rows \in [Approvals -> Row \union {NoRow}] /\ s \in Workers
  BY DEF IInv, TypeOK, Workers
<1>2. sess[s].op = "expire" /\ sess[s] # Idle
  BY DEF FinishList
<1>3. ASSUME NEW a \in Approvals
      PROVE  \/ rows'[a] = rows[a]
             \/ /\ rows[a] # NoRow
                /\ rows'[a] \in Row
                /\ rows'[a].required = rows[a].required
                /\ rows'[a].status \in {rows[a].status, "cancelled", "expired"}
  <2>1. CASE a \in sess[s].due
    <3>1. rows[a] # NoRow
      BY <1>1, <1>2, <2>1 DEF IInv, LoadedIsCurrent, Touches, Exists
    <3>2. rows[a] \in Row /\ rows'[a] = [rows[a] EXCEPT !.status = "expired"]
      BY <1>1, <2>1, <3>1 DEF FinishList
    <3>3. /\ rows'[a] \in Row
          /\ rows'[a].required = rows[a].required
          /\ rows'[a].status = "expired"
      BY <3>2 DEF Row, Resolved
    <3> QED
      BY <3>1, <3>3
  <2>2. CASE a \notin sess[s].due
    BY <2>2 DEF FinishList
  <2> QED
    BY <2>1, <2>2
<1>4. rows' = [a \in Approvals |-> rows'[a]]
  BY DEF FinishList
<1>5. /\ sess' = [sess EXCEPT ![s] = Idle]
      /\ UNCHANGED <<votes, rules>>
  BY DEF FinishList
<1> QED
  BY <1>1, <1>2, <1>3, <1>4, <1>5, EndKeeps

\* An escalation writes the escalations and the deadline of a row.
LEMMA EscalatedRow ==
    ASSUME NEW row \in Row, NEW n \in Nat, NEW late \in BOOLEAN
    PROVE  /\ [row EXCEPT !.escalations = n, !.overdue = late] \in Row
           /\ [row EXCEPT !.escalations = n, !.overdue = late].required = row.required
           /\ [row EXCEPT !.escalations = n, !.overdue = late].status = row.status
  BY DEF Row

\* The job changes the escalations, the deadline or, to expired, the status.
LEMMA FinishEscalationStep ==
    ASSUME IInv, FinishEscalation
    PROVE  IInv'
<1> DEFINE h == sess[Scheduler]
<1>1. rows \in [Approvals -> Row \union {NoRow}] /\ Scheduler \in Workers
  BY DEF IInv, TypeOK, Workers
<1>2. h \in Escalating /\ h # Idle
  BY DEF IInv, TypeOK, FinishEscalation
<1>3. h.op = "escalate" /\ h.seen \in [Approvals -> Row \union {NoRow}]
  BY <1>2 DEF Escalating
<1>4. ASSUME NEW a \in Approvals
      PROVE  \/ rows'[a] = rows[a]
             \/ /\ rows[a] # NoRow
                /\ rows'[a] \in Row
                /\ rows'[a].required = rows[a].required
                /\ rows'[a].status \in {rows[a].status, "cancelled", "expired"}
  <2>1. CASE h.seen[a] # NoRow
    <3>1. rows[a] # NoRow
      BY <1>1, <1>2, <1>3, <2>1 DEF IInv, LoadedIsCurrent, Touches, Exists
    <3>2. rows[a] \in Row /\ rows'[a] = ProcessExpired(rows[a], h.seen[a])
      BY <1>1, <2>1, <3>1 DEF FinishEscalation
    <3>3. h.seen[a].escalations \in Nat
      BY <1>3, <2>1 DEF Row
    <3>4. /\ Escalate(rows[a], h.seen[a]) \in Row
          /\ Escalate(rows[a], h.seen[a]).required = rows[a].required
          /\ Escalate(rows[a], h.seen[a]).status = rows[a].status
      <4> DEFINE n == h.seen[a].escalations + 1
                 late == IF h.seen[a].rule \in rules THEN FALSE ELSE rows[a].overdue
      <4>1. n \in Nat
        BY <3>3
      <4>2. rows[a].overdue \in BOOLEAN
        BY <3>2 DEF Row
      <4>3. late \in BOOLEAN
        BY <4>2
      <4>4. Escalate(rows[a], h.seen[a]) =
              [rows[a] EXCEPT !.escalations = n, !.overdue = late]
        BY DEF Escalate
      <4> HIDE DEF n, late
      <4>5. rows[a] \in Row
        BY <3>2
      <4>6. /\ [rows[a] EXCEPT !.escalations = n, !.overdue = late] \in Row
            /\ [rows[a] EXCEPT !.escalations = n, !.overdue = late].required
                  = rows[a].required
            /\ [rows[a] EXCEPT !.escalations = n, !.overdue = late].status
                  = rows[a].status
        BY <4>1, <4>3, <4>5, EscalatedRow, Zenon
      <4> QED
        BY <4>4, <4>6, Zenon
    <3>5. /\ [rows[a] EXCEPT !.status = "expired"] \in Row
          /\ [rows[a] EXCEPT !.status = "expired"].required = rows[a].required
          /\ [rows[a] EXCEPT !.status = "expired"].status = "expired"
      BY <3>2 DEF Row, Resolved
    <3> QED
      BY <3>1, <3>2, <3>4, <3>5 DEF ProcessExpired
  <2>2. CASE h.seen[a] = NoRow
    BY <2>2 DEF FinishEscalation
  <2> QED
    BY <2>1, <2>2
<1>5. rows' = [a \in Approvals |-> rows'[a]]
  BY DEF FinishEscalation
<1>6. /\ sess' = [sess EXCEPT ![Scheduler] = Idle]
      /\ UNCHANGED <<votes, rules>>
  BY DEF FinishEscalation
<1> QED
  BY <1>1, <1>2, <1>4, <1>5, <1>6, EndKeeps

\* A vote: the recount agrees with the votes it was made from.
LEMMA FinishVoteStep ==
    ASSUME IInv, NEW s \in Sessions, FinishVote(s)
    PROVE  IInv'
<1> DEFINE a == sess[s].approval
           v == sess[s].vote
           vs == Append(votes[a], v)
           st == StatusAfter(rows[a], vs)
<1>1. /\ rows \in [Approvals -> Row \union {NoRow}]
      /\ votes \in [Approvals -> Seq(Vote)]
      /\ s \in Workers
  BY DEF IInv, TypeOK, Workers
<1>2. sess[s] \in Handler /\ sess[s].op = "vote" /\ sess[s] # Idle
  BY DEF IInv, TypeOK, FinishVote
<1>3. a \in Approvals /\ v \in Vote
  BY <1>2, HandlerShape
<1>4. rows[a] # NoRow
  BY <1>1, <1>2, <1>3 DEF IInv, LoadedIsCurrent, Touches, Exists
<1>5. rows[a] \in Row /\ votes[a] \in Seq(Vote)
  BY <1>1, <1>3, <1>4
<1>6. /\ rows[a].status = "approved" => Count(votes[a], "approve") >= rows[a].required
      /\ rows[a].status = "rejected" => Count(votes[a], "reject") >= rows[a].required
  BY <1>3, <1>4 DEF IInv, StatusMatchesVotes, Exists
<1>7. /\ st \in {"pending"} \union Resolved
      /\ st = "approved" => Count(vs, "approve") >= rows[a].required
      /\ st = "rejected" => /\ Count(vs, "reject") >= rows[a].required
                            /\ Count(vs, "approve") < rows[a].required
      /\ st = "pending" => /\ Count(vs, "approve") < rows[a].required
                           /\ Count(vs, "reject") < rows[a].required
  BY <1>3, <1>5, <1>6, Recount
<1>8. /\ rows' = [rows EXCEPT ![a] = [rows[a] EXCEPT !.status = st]]
      /\ votes' = [votes EXCEPT ![a] = vs]
      /\ sess' = [sess EXCEPT ![s] = Idle]
      /\ rules' = rules
  BY <1>1, <1>3, <1>5 DEF FinishVote
<1>9. vs \in Seq(Vote)
  BY <1>3, <1>5
<1> HIDE DEF a, v, vs, st
<1>10. /\ [rows[a] EXCEPT !.status = st] \in Row
       /\ [rows[a] EXCEPT !.status = st].required = rows[a].required
       /\ [rows[a] EXCEPT !.status = st].status = st
  BY <1>5, <1>7 DEF Row
<1>11. /\ rows'[a] \in Row
       /\ rows'[a].required = rows[a].required
       /\ rows'[a].status = st
       /\ votes'[a] = vs
       /\ \A b \in Approvals : b # a => rows'[b] = rows[b] /\ votes'[b] = votes[b]
  BY <1>1, <1>3, <1>8, <1>10
<1>12. TypeOK'
  <2>1. rows' \in [Approvals -> Row \union {NoRow}]
    BY <1>1, <1>3, <1>8, <1>10
  <2>2. votes' \in [Approvals -> Seq(Vote)]
    BY <1>1, <1>3, <1>8, <1>9
  <2> QED
    BY <1>1, <1>8, <2>1, <2>2, EndKeepsType DEF IInv, TypeOK
<1>13. LoadedIsCurrent'
  <2>1. \A b \in Approvals : rows[b] # NoRow => rows'[b] # NoRow
    BY <1>11, RowAssumption
  <2> QED
    BY <1>1, <1>2, <1>8, <2>1, EndKeepsLoaded DEF IInv
<1>14. StatusMatchesVotes'
  <2> SUFFICES ASSUME NEW b \in Approvals
               PROVE  /\ rows'[b] = NoRow => votes'[b] = <<>>
                      /\ rows'[b] # NoRow =>
                           /\ rows'[b].status = "approved" =>
                                 Count(votes'[b], "approve") >= rows'[b].required
                           /\ rows'[b].status = "rejected" =>
                                 /\ Count(votes'[b], "reject") >= rows'[b].required
                                 /\ Count(votes'[b], "approve") < rows'[b].required
                           /\ rows'[b].status = "pending" =>
                                 /\ Count(votes'[b], "approve") < rows'[b].required
                                 /\ Count(votes'[b], "reject") < rows'[b].required
    BY DEF StatusMatchesVotes, Exists, Count
  <2>1. CASE b = a
    BY <2>1, <1>7, <1>11, RowAssumption
  <2>2. CASE b # a
    BY <2>2, <1>11 DEF IInv, StatusMatchesVotes, Exists
  <2> QED
    BY <2>1, <2>2
<1> QED
  BY <1>12, <1>13, <1>14 DEF IInv

\* A handler that is rolled back changes no row.
LEMMA AbortStep ==
    ASSUME IInv, NEW w \in Workers, Abort(w)
    PROVE  IInv'
<1>1. rows \in [Approvals -> Row \union {NoRow}]
  BY DEF IInv, TypeOK
<1>2. /\ sess[w] # Idle /\ sess' = [sess EXCEPT ![w] = Idle]
      /\ UNCHANGED <<votes, rules>> /\ rows' = rows
  BY DEF Abort
<1>3. rows' = [a \in Approvals |-> rows'[a]]
  BY <1>1, <1>2
<1> QED
  BY <1>2, <1>3, EndKeeps

-----------------------------------------------------------------------------
\* The invariant holds initially: no requests, no votes, no handlers.
LEMMA InitIInv == Init => IInv
<1> SUFFICES ASSUME Init PROVE IInv
  OBVIOUS
<1>1. TypeOK
  BY DEF Init, TypeOK, Workers
<1>2. LoadedIsCurrent
  BY DEF Init, LoadedIsCurrent
<1>3. StatusMatchesVotes
  BY DEF Init, StatusMatchesVotes, Exists
<1> QED
  BY <1>1, <1>2, <1>3 DEF IInv

\* Every step keeps the invariant.
LEMMA NextIInv == IInv /\ [Next]_vars => IInv'
<1> SUFFICES ASSUME IInv, [Next]_vars PROVE IInv'
  OBVIOUS
<1>1. ASSUME NEW a \in Approvals, CreateApproval(a) \/ CreateApprovalRequest(a) PROVE IInv'
  BY <1>1, CreateStep
<1>2. ASSUME NEW a \in Approvals, Elapse(a) PROVE IInv'
  BY <1>2, ElapseStep
<1>3. ASSUME NEW r \in Rules, DeleteRule(r) PROVE IInv'
  BY <1>3, DeleteRuleStep
<1>4. ASSUME NEW s \in Sessions,
             \/ BeginVote(s) \/ BeginLegacyVote(s)
             \/ BeginCancel(s) \/ BeginCancelByName(s) \/ BeginList(s)
      PROVE IInv'
  BY <1>4, BeginStep
<1>5. ASSUME NEW s \in Sessions, Finish(s) PROVE IInv'
  BY <1>5, FinishVoteStep, FinishCancelStep, FinishListStep DEF Finish
<1>6. CASE BeginEscalation
  BY <1>6, BeginEscalationStep
<1>7. CASE FinishEscalation
  BY <1>7, FinishEscalationStep
<1>8. ASSUME NEW w \in Workers, Abort(w) PROVE IInv'
  BY <1>8, AbortStep
<1>9. CASE UNCHANGED vars
  BY <1>9 DEF vars, IInv, TypeOK, LoadedIsCurrent, StatusMatchesVotes, Exists,
              Touches, Count
<1> QED
  BY <1>1, <1>2, <1>3, <1>4, <1>5, <1>6, <1>7, <1>8, <1>9 DEF Next

\* Typing, currency of what handlers loaded, and agreement of status and votes
\* hold together in every reachable state.
THEOREM InvariantHolds == Spec => []IInv
  BY InitIInv, NextIInv, PTL DEF Spec

\* The tables and the handlers of the approval system keep their types.
THEOREM TypeCorrect == Spec => []TypeOK
<1>1. IInv => TypeOK
  BY DEF IInv
<1> QED
  BY <1>1, InvariantHolds, PTL

\* However the handlers of cast_vote, _cast_vote, the cancellations, the
\* listings and the job overlap, the status of a request agrees with its votes.
THEOREM StatusAgrees == Spec => []StatusMatchesVotes
<1>1. IInv => StatusMatchesVotes
  BY DEF IInv
<1> QED
  BY <1>1, InvariantHolds, PTL

-----------------------------------------------------------------------------
(* Handlers that do not overlap                                             *)

\* Handlers one at a time never write a resolved request.
LEMMA FinalStep ==
    ASSUME ~Overlap, IInv, Next, NEW a \in Approvals,
           rows[a] # NoRow, rows[a].status \in Resolved
    PROVE  rows'[a].status = rows[a].status
<1>1. rows \in [Approvals -> Row \union {NoRow}] /\ rows[a] \in Row
  BY DEF IInv, TypeOK
<1>2. \A w \in Workers : sess[w] # Idle => ~Touches(sess[w], a)
  BY DEF IInv, LoadedIsCurrent, Resolved
<1>3. ASSUME NEW b \in Approvals, CreateApproval(b) \/ CreateApprovalRequest(b)
      PROVE  rows'[a].status = rows[a].status
  <2>1. b # a
    BY <1>3 DEF CreateApproval, CreateApprovalRequest, Exists
  <2> QED
    BY <1>1, <1>3, <2>1 DEF CreateApproval, CreateApprovalRequest
<1>4. ASSUME NEW b \in Approvals, Elapse(b)
      PROVE  rows'[a].status = rows[a].status
  BY <1>1, <1>4 DEF Elapse, Row
<1>5. ASSUME NEW r \in Rules, DeleteRule(r)
      PROVE  rows'[a].status = rows[a].status
  BY <1>1, <1>5 DEF DeleteRule, Row
<1>6. ASSUME NEW s \in Sessions,
             \/ BeginVote(s) \/ BeginLegacyVote(s)
             \/ BeginCancel(s) \/ BeginCancelByName(s) \/ BeginList(s)
      PROVE  rows'[a].status = rows[a].status
  BY <1>6 DEF BeginVote, BeginLegacyVote, BeginCancel, BeginCancelByName,
              BeginList, Start
<1>7. ASSUME NEW s \in Sessions, FinishVote(s) \/ FinishCancel(s)
      PROVE  rows'[a].status = rows[a].status
  <2>1. sess[s].approval # a
    BY <1>2, <1>7 DEF FinishVote, FinishCancel, Touches, Workers
  <2> QED
    BY <1>1, <1>7, <2>1 DEF FinishVote, FinishCancel
<1>8. ASSUME NEW s \in Sessions, FinishList(s)
      PROVE  rows'[a].status = rows[a].status
  <2>1. a \notin sess[s].due
    BY <1>2, <1>8 DEF FinishList, Touches, Workers
  <2> QED
    BY <1>1, <1>8, <2>1 DEF FinishList
<1>9. CASE BeginEscalation
  BY <1>9 DEF BeginEscalation, Start
<1>10. CASE FinishEscalation
  <2>1. sess[Scheduler] \in Escalating /\ sess[Scheduler] # Idle
    BY <1>10 DEF FinishEscalation, IInv, TypeOK
  <2>2. sess[Scheduler].seen[a] = NoRow
    BY <1>2, <2>1 DEF Touches, Escalating, Workers
  <2> QED
    BY <1>1, <1>10, <2>2 DEF FinishEscalation
<1>11. ASSUME NEW w \in Workers, Abort(w)
       PROVE  rows'[a].status = rows[a].status
  BY <1>11 DEF Abort
<1> QED
  BY <1>3, <1>4, <1>5, <1>6, <1>7, <1>8, <1>9, <1>10, <1>11 DEF Next, Finish

\* If the handlers of the approval routes and the job never overlap, a request
\* once approved, rejected, cancelled or expired keeps that status.
THEOREM ResolutionFinal == ~Overlap => (Spec => ResolvedIsFinal)
<1> SUFFICES ASSUME ~Overlap PROVE Spec => ResolvedIsFinal
  OBVIOUS
<1>1. IInv /\ [Next]_vars =>
        [\A a \in Approvals : Exists(a) /\ rows[a].status \in Resolved =>
            rows'[a].status = rows[a].status]_vars
  <2> SUFFICES ASSUME IInv, Next, NEW a \in Approvals, rows[a] # NoRow,
                      rows[a].status \in Resolved
               PROVE  rows'[a].status = rows[a].status
    BY DEF Exists
  <2> QED
    BY FinalStep
<1> QED
  BY <1>1, InvariantHolds, PTL DEF Spec, ResolvedIsFinal
-----------------------------------------------------------------------------
(* What a step does to the rows, the votes and the handlers                 *)

\* A row that exists keeps its requester; its rule goes only with the rule, its
\* escalations grow only in the job, and only the job and a listing expire it.
RowKept(a) ==
    /\ rows'[a].requester = rows[a].requester
    /\ rows'[a].requester_id = rows[a].requester_id
    /\ \/ rows'[a].rule = rows[a].rule
       \/ DeleteRule(rows[a].rule) /\ rows'[a].rule = NoRule
    /\ FinishEscalation \/ rows'[a].escalations = rows[a].escalations
    /\ rows'[a].status = "expired" =>
         \/ FinishEscalation \/ rows[a].status = "expired"
         \/ \E s \in Sessions : FinishList(s)

\* A row that appears is one that a creation made.
RowMade(a) ==
    /\ \E u \in Users, n \in Nat : \E id \in IdsOf(u), r \in rules \union {NoRule} :
          rows'[a] = NewRow(u, id, n, r)
    /\ UNCHANGED <<votes, rules, sess>>

\* The fields of a row that an update of another field leaves alone.
LEMMA RowFields ==
    ASSUME NEW row \in Row
    PROVE  /\ \A st : LET new == [row EXCEPT !.status = st]
                      IN  /\ new.requester = row.requester /\ new.rule = row.rule
                          /\ new.requester_id = row.requester_id
                          /\ new.escalations = row.escalations /\ new.status = st
           /\ LET new == [row EXCEPT !.rule = NoRule]
              IN  /\ new.requester = row.requester /\ new.rule = NoRule
                  /\ new.requester_id = row.requester_id
                  /\ new.escalations = row.escalations /\ new.status = row.status
           /\ LET new == [row EXCEPT !.overdue = TRUE]
              IN  /\ new.requester = row.requester /\ new.rule = row.rule
                  /\ new.requester_id = row.requester_id
                  /\ new.escalations = row.escalations /\ new.status = row.status
           /\ \A n, late : LET new == [row EXCEPT !.escalations = n, !.overdue = late]
              IN  /\ new.requester = row.requester /\ new.rule = row.rule
                  /\ new.requester_id = row.requester_id
                  /\ new.escalations = n /\ new.status = row.status
  BY DEF Row

\* What the job leaves of a row.
LEMMA ProcessedRow ==
    ASSUME NEW row \in Row, NEW seen \in Row
    PROVE  /\ ProcessExpired(row, seen).requester = row.requester
           /\ ProcessExpired(row, seen).rule = row.rule
           /\ ProcessExpired(row, seen).requester_id = row.requester_id
           /\ seen.escalations < MaxEscalations =>
                 /\ ProcessExpired(row, seen).escalations = seen.escalations + 1
                 /\ ProcessExpired(row, seen).status = row.status
                 /\ seen.rule \in rules => ProcessExpired(row, seen).overdue = FALSE
           /\ ~(seen.escalations < MaxEscalations) =>
                 /\ ProcessExpired(row, seen).escalations = row.escalations
                 /\ ProcessExpired(row, seen).status = "expired"
<1> DEFINE late == IF seen.rule \in rules THEN FALSE ELSE row.overdue
           n == seen.escalations + 1
<1>1. CASE seen.escalations < MaxEscalations
  <2>1. ProcessExpired(row, seen) = [row EXCEPT !.escalations = n, !.overdue = late]
    BY <1>1 DEF ProcessExpired, Escalate
  <2>2. seen.rule \in rules => late = FALSE
    OBVIOUS
  <2> HIDE DEF late, n
  <2>3. [row EXCEPT !.escalations = n, !.overdue = late].overdue = late
    BY DEF Row
  <2>4. ProcessExpired(row, seen).overdue = late
    BY <2>1, <2>3, Zenon
  <2>5. /\ ProcessExpired(row, seen).requester = row.requester
        /\ ProcessExpired(row, seen).rule = row.rule
        /\ ProcessExpired(row, seen).requester_id = row.requester_id
        /\ ProcessExpired(row, seen).escalations = n
        /\ ProcessExpired(row, seen).status = row.status
    BY <2>1, RowFields
  <2>6. seen.rule \in rules => ProcessExpired(row, seen).overdue = FALSE
    BY <2>2, <2>4, Zenon
  <2> QED
    BY <1>1, <2>5, <2>6 DEF n
<1>2. CASE ~(seen.escalations < MaxEscalations)
  <2>1. ProcessExpired(row, seen) = [row EXCEPT !.status = "expired"]
    BY <1>2 DEF ProcessExpired
  <2> QED
    BY <1>2, <2>1, RowFields
<1> QED
  BY <1>1, <1>2

\* Every step keeps the rows that exist, makes new ones only by a creation.
LEMMA RowStep ==
    ASSUME IInv, Next, NEW a \in Approvals
    PROVE  /\ rows[a] # NoRow => RowKept(a)
           /\ rows[a] = NoRow => rows'[a] = NoRow \/ RowMade(a)
<1>1. rows \in [Approvals -> Row \union {NoRow}] /\ (rows[a] # NoRow => rows[a] \in Row)
  BY DEF IInv, TypeOK
<1> DEFINE Goal == /\ rows[a] # NoRow => RowKept(a)
                   /\ rows[a] = NoRow => rows'[a] = NoRow \/ RowMade(a)
<1>2. ASSUME rows'[a] = rows[a] PROVE Goal
  BY <1>2 DEF RowKept
<1>3. ASSUME NEW b \in Approvals, CreateApproval(b) PROVE Goal
  <2>1. PICK u \in Users, n \in Thresholds : \E id \in IdsOf(u) :
          rows' = [rows EXCEPT ![b] = NewRow(u, id, n, NoRule)]
    BY <1>3 DEF CreateApproval
  <2>2. PICK id \in IdsOf(u) : rows' = [rows EXCEPT ![b] = NewRow(u, id, n, NoRule)]
    BY <2>1
  <2>3. rows[b] = NoRow /\ n \in Nat /\ UNCHANGED <<votes, rules, sess>>
    BY <1>3, ThresholdAssumption DEF CreateApproval, Exists
  <2>4. CASE b = a
    <3>1. rows'[a] = NewRow(u, id, n, NoRule) /\ NoRule \in rules \union {NoRule}
      BY <1>1, <2>2, <2>4
    <3> QED
      BY <2>3, <2>4, <3>1 DEF RowMade
  <2>5. CASE b # a
    BY <1>1, <1>2, <2>2, <2>5
  <2> QED
    BY <2>4, <2>5
<1>4. ASSUME NEW b \in Approvals, CreateApprovalRequest(b) PROVE Goal
  <2>1. PICK u \in Users, n \in RuleThresholds, r \in rules :
          rows' = [rows EXCEPT ![b] = NewRow(u, u, n, r)]
    BY <1>4 DEF CreateApprovalRequest
  <2>2. rows[b] = NoRow /\ n \in Nat /\ UNCHANGED <<votes, rules, sess>> /\ u \in IdsOf(u)
    BY <1>4, ThresholdAssumption DEF CreateApprovalRequest, Exists, IdsOf
  <2>3. CASE b = a
    <3>1. rows'[a] = NewRow(u, u, n, r) /\ r \in rules \union {NoRule}
      BY <1>1, <2>1, <2>3
    <3> QED
      BY <2>2, <2>3, <3>1 DEF RowMade
  <2>4. CASE b # a
    BY <1>1, <1>2, <2>1, <2>4
  <2> QED
    BY <2>3, <2>4
<1>5. ASSUME NEW b \in Approvals, Elapse(b) PROVE Goal
  <2>1. rows[b] # NoRow /\ rows' = [rows EXCEPT ![b] = [rows[b] EXCEPT !.overdue = TRUE]]
    BY <1>1, <1>5 DEF Elapse, Exists
  <2>2. CASE b = a
    <3>1. rows[a] \in Row /\ rows'[a] = [rows[a] EXCEPT !.overdue = TRUE]
      BY <1>1, <2>1, <2>2
    <3> QED
      BY <2>1, <2>2, <3>1, RowFields DEF RowKept
  <2>3. CASE b # a
    BY <1>1, <1>2, <2>1, <2>3
  <2> QED
    BY <2>2, <2>3
<1>6. ASSUME NEW r \in Rules, DeleteRule(r) PROVE Goal
  <2>1. CASE rows[a] # NoRow /\ rows[a].rule = r
    <3>1. rows[a] \in Row /\ rows'[a] = [rows[a] EXCEPT !.rule = NoRule]
      BY <1>1, <1>6, <2>1 DEF DeleteRule, Exists
    <3> QED
      BY <1>6, <2>1, <3>1, RowFields DEF RowKept
  <2>2. CASE ~(rows[a] # NoRow /\ rows[a].rule = r)
    BY <1>2, <1>6, <2>2 DEF DeleteRule, Exists
  <2> QED
    BY <2>1, <2>2
<1>7. ASSUME NEW s \in Sessions, FinishVote(s) \/ FinishCancel(s) PROVE Goal
  <2> DEFINE b == sess[s].approval
  <2>1. sess[s] \in Handler /\ sess[s].op \in {"vote", "cancel"} /\ sess[s] # Idle
    BY <1>7 DEF IInv, TypeOK, FinishVote, FinishCancel
  <2>2. b \in Approvals
    BY <2>1, HandlerShape
  <2>3. rows[b] # NoRow
    BY <2>1, <2>2 DEF IInv, LoadedIsCurrent, Touches, Exists, Workers
  <2> DEFINE st == IF sess[s].op = "vote"
                   THEN StatusAfter(rows[b], Append(votes[b], sess[s].vote)) ELSE "cancelled"
  <2>4. /\ rows' = [rows EXCEPT ![b].status = st]
        /\ st = "expired" => rows[b].status = "expired"
    <3>1. rows' = [rows EXCEPT ![b].status = st]
      BY <1>7 DEF FinishVote, FinishCancel
    <3>2. st = "expired" => rows[b].status = "expired"
      BY DEF StatusAfter
    <3> QED
      BY <3>1, <3>2
  <2> HIDE DEF b, st
  <2>5. CASE b = a
    <3>1. rows[a] \in Row /\ rows'[a] = [rows[a] EXCEPT !.status = st]
      BY <1>1, <2>3, <2>4, <2>5
    <3> QED
      BY <2>3, <2>4, <2>5, <3>1, RowFields DEF RowKept
  <2>6. CASE b # a
    BY <1>1, <1>2, <2>4, <2>6
  <2> QED
    BY <2>5, <2>6
<1>8. ASSUME NEW s \in Sessions, FinishList(s) PROVE Goal
  <2>1. CASE a \in sess[s].due
    <3>1. rows[a] # NoRow
      BY <1>8, <2>1 DEF FinishList, IInv, LoadedIsCurrent, Touches, Exists, Workers
    <3>2. rows[a] \in Row /\ rows'[a] = [rows[a] EXCEPT !.status = "expired"]
      BY <1>1, <1>8, <2>1, <3>1 DEF FinishList
    <3> QED
      BY <1>8, <3>1, <3>2, RowFields DEF RowKept
  <2>2. CASE a \notin sess[s].due
    BY <1>2, <1>8, <2>2 DEF FinishList
  <2> QED
    BY <2>1, <2>2
<1>9. CASE FinishEscalation
  <2> DEFINE seen == sess[Scheduler].seen[a]
  <2>1. sess[Scheduler] \in Escalating /\ sess[Scheduler] # Idle /\ Scheduler \in Workers
    BY <1>9 DEF FinishEscalation, IInv, TypeOK, Workers
  <2>2. CASE seen # NoRow
    <3>1. seen \in Row /\ sess[Scheduler].op = "escalate"
      BY <2>1, <2>2 DEF Escalating
    <3>2. rows[a] # NoRow
      BY <2>1, <2>2, <3>1 DEF IInv, LoadedIsCurrent, Touches, Exists
    <3>3. rows[a] \in Row /\ rows'[a] = ProcessExpired(rows[a], seen)
      BY <1>1, <1>9, <2>2, <3>2 DEF FinishEscalation
    <3> HIDE DEF seen
    <3>4. /\ rows'[a].requester = rows[a].requester /\ rows'[a].rule = rows[a].rule
          /\ rows'[a].requester_id = rows[a].requester_id
      <4>1. \A r, x \in Row : /\ ProcessExpired(r, x).requester = r.requester
                              /\ ProcessExpired(r, x).rule = r.rule
                              /\ ProcessExpired(r, x).requester_id = r.requester_id
        BY ProcessedRow
      <4>2. seen \in Row /\ rows[a] \in Row /\ rows'[a] = ProcessExpired(rows[a], seen)
        BY <3>1, <3>3
      <4> QED
        BY <4>1, <4>2
    <3> QED
      BY <1>9, <3>2, <3>4 DEF RowKept
  <2>3. CASE seen = NoRow
    BY <1>2, <1>9, <2>3 DEF FinishEscalation
  <2> QED
    BY <2>2, <2>3
<1>10. CASE rows' = rows
  BY <1>2, <1>10
<1>11. \/ \E s \in Sessions :
            \/ BeginVote(s) \/ BeginLegacyVote(s)
            \/ BeginCancel(s) \/ BeginCancelByName(s) \/ BeginList(s)
       \/ BeginEscalation
       \/ \E w \in Workers : Abort(w)
       => rows' = rows
  BY DEF BeginVote, BeginLegacyVote, BeginCancel, BeginCancelByName, BeginList,
         BeginEscalation, Start, Abort
<1> QED
  BY <1>3, <1>4, <1>5, <1>6, <1>7, <1>8, <1>9, <1>10, <1>11 DEF Next, Finish

\* The user u has no vote on a and did not ask for it.
FreshVoter(u, a) ==
    u # rows[a].requester /\ \A i \in DOMAIN votes[a] : votes[a][i].user # u

\* A vote in flight was begun earlier, or begins in this step.
LEMMA VoteBegins ==
    ASSUME IInv, Next, NEW s \in Sessions, sess'[s] # Idle, sess'[s].op = "vote"
    PROVE  \/ sess'[s] = sess[s]
           \/ /\ UNCHANGED <<rows, votes>>
              /\ \E a \in Approvals, u \in Users, kind \in {"approve", "reject"} :
                   \E id \in IdsOf(u) :
                     /\ Exists(a) /\ FreshVoter(u, a)
                     /\ sess'[s] = [op |-> "vote", approval |-> a,
                                    vote |-> [user |-> u, user_id |-> id, vote |-> kind]]
<1>1. sess \in [Workers -> Handler \union Escalating \union {Idle}] /\ s \in Workers
  BY DEF IInv, TypeOK, Workers
<1> DEFINE Goal == \/ sess'[s] = sess[s]
                   \/ /\ UNCHANGED <<rows, votes>>
                      /\ \E a \in Approvals, u \in Users, kind \in {"approve", "reject"} :
                           \E id \in IdsOf(u) :
                             /\ Exists(a) /\ FreshVoter(u, a)
                             /\ sess'[s] = [op |-> "vote", approval |-> a,
                                            vote |-> [user |-> u, user_id |-> id, vote |-> kind]]
<1>2. ASSUME NEW w \in Workers, NEW h, Start(w, h), w # s PROVE Goal
  BY <1>1, <1>2 DEF Start
<1>3. ASSUME NEW h, Start(s, h) PROVE sess'[s] = h /\ UNCHANGED <<rows, votes>>
  BY <1>1, <1>3 DEF Start
<1>4. ASSUME NEW w \in Workers, sess' = [sess EXCEPT ![w] = Idle] PROVE Goal
  BY <1>1, <1>4
<1>5. ASSUME NEW t \in Sessions, BeginVote(t) PROVE Goal
  <2>1. PICK a \in Approvals, u \in Users, kind \in {"approve", "reject"} :
          /\ CastVoteAccepts(a, u)
          /\ Start(t, [op |-> "vote", approval |-> a,
                       vote |-> [user |-> u, user_id |-> u, vote |-> kind]])
    BY <1>5 DEF BeginVote
  <2>2. Exists(a) /\ FreshVoter(u, a) /\ u \in IdsOf(u) /\ t \in Workers
    BY <2>1 DEF CastVoteAccepts, Pending, FreshVoter, IdsOf, Workers
  <2> QED
    BY <1>2, <1>3, <2>1, <2>2
<1>6. ASSUME NEW t \in Sessions, BeginLegacyVote(t) PROVE Goal
  <2>1. PICK a \in Approvals, u \in Users, kind \in {"approve", "reject"} :
          /\ LegacyVoteAccepts(a, u)
          /\ \E id \in IdsOf(u) :
               Start(t, [op |-> "vote", approval |-> a,
                         vote |-> [user |-> u, user_id |-> id, vote |-> kind]])
    BY <1>6 DEF BeginLegacyVote
  <2>2. PICK id \in IdsOf(u) :
               Start(t, [op |-> "vote", approval |-> a,
                         vote |-> [user |-> u, user_id |-> id, vote |-> kind]])
    BY <2>1
  <2>3. Exists(a) /\ FreshVoter(u, a) /\ t \in Workers
    BY <2>1 DEF LegacyVoteAccepts, Pending, FreshVoter, Workers
  <2> QED
    BY <1>2, <1>3, <2>2, <2>3
<1>7. ASSUME NEW t \in Sessions, BeginCancel(t) \/ BeginCancelByName(t) PROVE Goal
  <2>1. PICK a \in Approvals : Start(t, [op |-> "cancel", approval |-> a])
    BY <1>7 DEF BeginCancel, BeginCancelByName
  <2>2. CASE t = s
    <3>1. sess'[s] = [op |-> "cancel", approval |-> a]
      BY <1>3, <2>1, <2>2
    <3> QED
      BY <3>1
  <2>3. CASE t # s
    BY <1>2, <2>1, <2>3 DEF Workers
  <2> QED
    BY <2>2, <2>3
<1>8. ASSUME NEW t \in Sessions, BeginList(t) PROVE Goal
  <2>1. Start(t, [op |-> "expire", due |-> Overdue])
    BY <1>8 DEF BeginList
  <2>2. CASE t = s
    <3>1. sess'[s] = [op |-> "expire", due |-> Overdue]
      BY <1>3, <2>1, <2>2
    <3> QED
      BY <3>1
  <2>3. CASE t # s
    BY <1>2, <2>1, <2>3 DEF Workers
  <2> QED
    BY <2>2, <2>3
<1>9. CASE BeginEscalation
  BY <1>2, <1>9, SentinelAssumption DEF BeginEscalation, Workers
<1>10. ASSUME NEW t \in Sessions, Finish(t) PROVE Goal
  BY <1>4, <1>10 DEF Finish, FinishVote, FinishCancel, FinishList, Workers
<1>11. CASE FinishEscalation
  BY <1>4, <1>11 DEF FinishEscalation, Workers
<1>12. ASSUME NEW w \in Workers, Abort(w) PROVE Goal
  BY <1>4, <1>12 DEF Abort
<1>13. CASE sess' = sess
  BY <1>13
<1>14. \/ \E a \in Approvals : CreateApproval(a) \/ CreateApprovalRequest(a) \/ Elapse(a)
       \/ \E r \in Rules : DeleteRule(r)
       => sess' = sess
  BY DEF CreateApproval, CreateApprovalRequest, Elapse, DeleteRule
<1> QED
  BY <1>5, <1>6, <1>7, <1>8, <1>9, <1>10, <1>11, <1>12, <1>13, <1>14 DEF Next

\* Votes are only inserted, by the handler that began with them.
LEMMA VotesStep ==
    ASSUME IInv, Next
    PROVE  votes' = votes \/ \E s \in Sessions : FinishVote(s)
  BY DEF Next, Finish, CreateApproval, CreateApprovalRequest, Elapse, DeleteRule, BeginVote,
         BeginLegacyVote, BeginCancel, BeginCancelByName, BeginList, BeginEscalation, Start,
         FinishCancel, FinishList, FinishEscalation, Abort
-----------------------------------------------------------------------------
(* Four eyes                                                                *)

\* The votes vs are by different users, and none by the requester u.
DifferentVoters(vs, u) ==
    /\ \A i, j \in DOMAIN vs : vs[i].user = vs[j].user => i = j
    /\ \A i \in DOMAIN vs : vs[i].user # u

\* Every request has votes by different users, and a vote in flight adds to
\* them one of yet another user.
VotersDiffer ==
    /\ \A a \in Approvals : Exists(a) => DifferentVoters(votes[a], rows[a].requester)
    /\ \A s \in Sessions : sess[s] # Idle /\ sess[s].op = "vote" =>
          FreshVoter(sess[s].vote.user, sess[s].approval)

\* A vote by a user who has not voted keeps the voters different.
LEMMA AppendDiffers ==
    ASSUME NEW vs \in Seq(Vote), NEW v \in Vote, NEW u, DifferentVoters(vs, u),
           v.user # u, \A i \in DOMAIN vs : vs[i].user # v.user
    PROVE  DifferentVoters(Append(vs, v), u)
<1> DEFINE new == Append(vs, v)
<1>1. Len(vs) \in Nat /\ DOMAIN vs = 1..Len(vs) /\ DOMAIN new = 1..(Len(vs) + 1)
  OBVIOUS
<1>2. \A i \in DOMAIN new : IF i = Len(vs) + 1 THEN new[i] = v
                            ELSE i \in DOMAIN vs /\ new[i] = vs[i]
  BY <1>1
<1> HIDE DEF new
<1>3. DifferentVoters(new, u)
  BY <1>2 DEF DifferentVoters
<1> QED
  BY <1>3 DEF new

\* With different voters, as many users approved as there are approvals.
LEMMA ApproversCounted ==
    ASSUME NEW vs \in Seq(Vote), NEW u, DifferentVoters(vs, u)
    PROVE  LET S == {i \in DOMAIN vs : vs[i].vote = "approve"}
           IN  Cardinality({vs[i].user : i \in S} \ {u}) = Count(vs, "approve")
<1> DEFINE S == {i \in DOMAIN vs : vs[i].vote = "approve"}
           T == {vs[i].user : i \in S}
           f == [i \in S |-> vs[i].user]
<1>1. IsFiniteSet(S)
  BY CountType
<1>2. f \in Surjection(S, T)
  BY DEF Surjection
<1>3. f \in Injection(S, T)
  BY DEF Injection, IsInjective, DifferentVoters
<1>4. Cardinality(T) = Cardinality(S)
  BY <1>1, <1>2, <1>3, FS_Surjection
<1>5. T \ {u} = T
  BY DEF DifferentVoters
<1> QED
  BY <1>4, <1>5 DEF Count

\* Handlers one at a time keep the voters of a request different: the checks of
\* cast_vote and _cast_vote still hold when the vote is inserted.
LEMMA VotersStep ==
    ASSUME ~Overlap, IInv, VotersDiffer, Next
    PROVE  VotersDiffer'
<1>0. /\ rows \in [Approvals -> Row \union {NoRow}] /\ votes \in [Approvals -> Seq(Vote)]
      /\ IInv'
  BY NextIInv DEF IInv, TypeOK
<1>1. ASSUME NEW s \in Sessions, FinishVote(s)
      PROVE  /\ sess[s] # Idle /\ sess[s].op = "vote"
             /\ sess[s].approval \in Approvals /\ sess[s].vote \in Vote
             /\ rows[sess[s].approval] # NoRow /\ sess'[s] = Idle
             /\ votes' = [votes EXCEPT ![sess[s].approval] =
                            Append(votes[sess[s].approval], sess[s].vote)]
             /\ \A t \in Sessions : sess'[t] = Idle
  <2>1. sess[s] # Idle /\ sess[s].op = "vote" /\ sess[s] \in Handler /\ s \in Workers
        /\ sess \in [Workers -> Handler \union Escalating \union {Idle}]
    BY <1>1 DEF FinishVote, IInv, TypeOK, Workers
  <2>2. sess[s].approval \in Approvals /\ sess[s].vote \in Vote
    BY <2>1, HandlerShape
  <2>3. rows[sess[s].approval] # NoRow
    BY <2>1, <2>2 DEF IInv, LoadedIsCurrent, Touches, Exists
  <2>4. \A t \in Workers : sess[t] # Idle => t = s
    BY <2>1 DEF IInv, LoadedIsCurrent
  <2>5. sess' = [sess EXCEPT ![s] = Idle]
        /\ votes' = [votes EXCEPT ![sess[s].approval] =
                       Append(votes[sess[s].approval], sess[s].vote)]
    BY <1>1 DEF FinishVote
  <2>6. \A t \in Workers : sess'[t] = Idle
    BY <2>1, <2>4, <2>5
  <2> QED
    BY <2>1, <2>2, <2>3, <2>5, <2>6 DEF Workers
<1>2. ASSUME NEW a \in Approvals, rows'[a] # NoRow
      PROVE  DifferentVoters(votes'[a], rows'[a].requester)
  <2>1. CASE rows[a] = NoRow
    <3>1. RowMade(a)
      BY <1>2, <2>1, RowStep
    <3>2. votes'[a] = <<>>
      BY <2>1, <3>1 DEF RowMade, IInv, StatusMatchesVotes, Exists
    <3> QED
      BY <3>2 DEF DifferentVoters
  <2>2. CASE rows[a] # NoRow
    <3>1. rows'[a].requester = rows[a].requester
      BY <2>2, RowStep DEF RowKept
    <3>2. DifferentVoters(votes[a], rows[a].requester)
      BY <2>2 DEF VotersDiffer, Exists
    <3>3. CASE votes' = votes
      BY <3>1, <3>2, <3>3
    <3>4. ASSUME NEW s \in Sessions, FinishVote(s)
          PROVE  DifferentVoters(votes'[a], rows'[a].requester)
      <4>1. CASE sess[s].approval = a
        <5>1. FreshVoter(sess[s].vote.user, a)
          BY <1>1, <3>4, <4>1 DEF VotersDiffer
        <5>2. votes'[a] = Append(votes[a], sess[s].vote) /\ votes[a] \in Seq(Vote)
              /\ sess[s].vote \in Vote
          BY <1>0, <1>1, <3>4, <4>1
        <5> QED
          BY <3>1, <3>2, <5>1, <5>2, AppendDiffers DEF FreshVoter
      <4>2. CASE sess[s].approval # a
        BY <1>0, <1>1, <3>1, <3>2, <3>4, <4>2
      <4> QED
        BY <4>1, <4>2
    <3> QED
      BY <3>3, <3>4, VotesStep
  <2> QED
    BY <2>1, <2>2
<1>3. ASSUME NEW s \in Sessions, sess'[s] # Idle, sess'[s].op = "vote"
      PROVE  /\ sess'[s].vote.user # rows'[sess'[s].approval].requester
             /\ \A i \in DOMAIN votes'[sess'[s].approval] :
                   votes'[sess'[s].approval][i].user # sess'[s].vote.user
  <2>0. votes' = votes
    BY <1>1, <1>3, VotesStep
  <2>1. CASE sess'[s] = sess[s]
    <3>1. sess[s] \in Handler /\ sess[s] # Idle /\ sess[s].op = "vote"
      BY <1>3, <2>1 DEF IInv, TypeOK
    <3>2. sess[s].approval \in Approvals
      BY <3>1, HandlerShape
    <3>3. rows[sess[s].approval] # NoRow
      BY <3>1, <3>2 DEF IInv, LoadedIsCurrent, Touches, Exists, Workers
    <3>4. rows'[sess[s].approval].requester = rows[sess[s].approval].requester
      BY <3>2, <3>3, RowStep DEF RowKept
    <3>5. FreshVoter(sess[s].vote.user, sess[s].approval)
      BY <3>1 DEF VotersDiffer
    <3> QED
      BY <2>0, <2>1, <3>4, <3>5 DEF FreshVoter
  <2>2. CASE sess'[s] # sess[s]
    <3>1. /\ rows' = rows
          /\ \E a \in Approvals, u \in Users, kind \in {"approve", "reject"} :
               \E id \in IdsOf(u) :
                 /\ Exists(a) /\ FreshVoter(u, a)
                 /\ sess'[s] = [op |-> "vote", approval |-> a,
                                vote |-> [user |-> u, user_id |-> id, vote |-> kind]]
      BY <1>3, <2>2, VoteBegins
    <3>2. PICK a \in Approvals, u \in Users :
            FreshVoter(u, a) /\ sess'[s].approval = a /\ sess'[s].vote.user = u
      BY <3>1
    <3> QED
      BY <2>0, <3>1, <3>2 DEF FreshVoter
  <2> QED
    BY <2>1, <2>2
<1> QED
  BY <1>2, <1>3 DEF VotersDiffer, Exists, FreshVoter, DifferentVoters

\* If handlers never overlap, an approved request was approved by as many
\* different users as it requires, none of them the requester.
THEOREM ApprovedByOthers == ~Overlap => (Spec => []FourEyes)
<1> SUFFICES ASSUME ~Overlap PROVE Spec => []FourEyes
  OBVIOUS
<1>1. Init => VotersDiffer
  BY DEF Init, VotersDiffer, Exists, Workers
<1>2. IInv /\ VotersDiffer /\ [Next]_vars => VotersDiffer'
  <2>1. CASE UNCHANGED vars
    BY <2>1 DEF vars, VotersDiffer, Exists, FreshVoter, DifferentVoters
  <2> QED
    BY <2>1, VotersStep
<1>3. IInv /\ VotersDiffer => FourEyes
  <2> SUFFICES ASSUME IInv, VotersDiffer, NEW a \in Approvals, Exists(a),
                      rows[a].status = "approved"
               PROVE  Cardinality(Approvers(a) \ {rows[a].requester}) >= rows[a].required
    BY DEF FourEyes
  <2>1. votes[a] \in Seq(Vote) /\ DifferentVoters(votes[a], rows[a].requester)
    BY DEF IInv, TypeOK, VotersDiffer
  <2>2. Cardinality(Approvers(a) \ {rows[a].requester}) = Count(votes[a], "approve")
    BY <2>1, ApproversCounted DEF Approvers
  <2> QED
    BY <2>2 DEF IInv, StatusMatchesVotes
<1> QED
  BY <1>1, <1>2, <1>3, InvariantHolds, PTL DEF Spec

-----------------------------------------------------------------------------
(* The list of requests to vote on                                          *)

\* Every request and every vote, inserted or in flight, carries the id of the
\* user whose name it carries, or none.
IdsAgree ==
    /\ \A a \in Approvals :
         /\ Exists(a) => rows[a].requester_id \in {rows[a].requester, NoId}
         /\ \A i \in DOMAIN votes[a] : votes[a][i].user_id \in {votes[a][i].user, NoId}
    /\ \A s \in Sessions : sess[s] # Idle /\ sess[s].op = "vote" =>
          sess[s].vote.user_id \in {sess[s].vote.user, NoId}

\* Callers give their own ids or leave them out.
LEMMA IdsStep ==
    ASSUME IInv, IdsAgree, Next
    PROVE  IdsAgree'
<1>0. votes \in [Approvals -> Seq(Vote)] /\ \A u \in Users : IdsOf(u) \subseteq {u, NoId}
  BY DEF IInv, TypeOK, IdsOf
<1>1. ASSUME NEW a \in Approvals, rows'[a] # NoRow
      PROVE  rows'[a].requester_id \in {rows'[a].requester, NoId}
  <2>1. CASE rows[a] = NoRow
    <3>1. PICK u \in Users, n \in Nat : \E id \in {u, NoId}, r \in rules \union {NoRule} :
            rows'[a] = NewRow(u, id, n, r)
      BY <1>0, <1>1, <2>1, RowStep DEF RowMade
    <3> QED
      BY <3>1 DEF NewRow
  <2>2. CASE rows[a] # NoRow
    BY <2>2, RowStep DEF RowKept, IdsAgree, Exists
  <2> QED
    BY <2>1, <2>2
<1>2. ASSUME NEW a \in Approvals, NEW i \in DOMAIN votes'[a]
      PROVE  votes'[a][i].user_id \in {votes'[a][i].user, NoId}
  <2>1. CASE votes' = votes
    BY <1>2, <2>1 DEF IdsAgree
  <2>2. ASSUME NEW s \in Sessions, FinishVote(s)
        PROVE  votes'[a][i].user_id \in {votes'[a][i].user, NoId}
    <3> DEFINE v == sess[s].vote
    <3>1. sess[s] # Idle /\ sess[s].op = "vote" /\ sess[s] \in Handler
          /\ votes' = [votes EXCEPT ![sess[s].approval] = Append(votes[sess[s].approval], v)]
      BY <2>2 DEF FinishVote, IInv, TypeOK
    <3>2. v \in Vote /\ v.user_id \in {v.user, NoId}
      BY <3>1, HandlerShape DEF IdsAgree
    <3> HIDE DEF v
    <3>3. CASE sess[s].approval = a
      <4>1. votes'[a] = Append(votes[a], v) /\ votes[a] \in Seq(Vote)
        BY <1>0, <3>1, <3>3
      <4>2. votes'[a][i] = v \/ (i \in DOMAIN votes[a] /\ votes'[a][i] = votes[a][i])
        BY <1>2, <3>2, <4>1
      <4> QED
        BY <3>2, <4>2 DEF IdsAgree
    <3>4. CASE sess[s].approval # a
      BY <1>0, <1>2, <3>1, <3>4 DEF IdsAgree
    <3> QED
      BY <3>3, <3>4
  <2> QED
    BY <2>1, <2>2, VotesStep
<1>3. ASSUME NEW s \in Sessions, sess'[s] # Idle, sess'[s].op = "vote"
      PROVE  sess'[s].vote.user_id \in {sess'[s].vote.user, NoId}
  <2>1. CASE sess'[s] = sess[s]
    BY <1>3, <2>1 DEF IdsAgree
  <2>2. CASE sess'[s] # sess[s]
    <3>1. \E a \in Approvals, u \in Users, kind \in {"approve", "reject"} :
            \E id \in IdsOf(u) :
              /\ Exists(a) /\ FreshVoter(u, a)
              /\ sess'[s] = [op |-> "vote", approval |-> a,
                             vote |-> [user |-> u, user_id |-> id, vote |-> kind]]
      BY <1>3, <2>2, VoteBegins
    <3>2. PICK u \in Users : sess'[s].vote.user = u /\ sess'[s].vote.user_id \in IdsOf(u)
      BY <3>1
    <3> QED
      BY <1>0, <3>2
  <2> QED
    BY <2>1, <2>2
<1> QED
  BY <1>1, <1>2, <1>3 DEF IdsAgree, Exists

\* Whatever overlaps and whoever leaves out an id, the list of a user holds
\* every request on which cast_vote would accept that user's vote, and beyond
\* these only what the user made or voted on without an id.
THEOREM PendingListComplete == Spec => []MyPendingMissesNothing
<1>1. Init => IdsAgree
  BY DEF Init, IdsAgree, Exists, Workers
<1>2. IInv /\ IdsAgree /\ [Next]_vars => IdsAgree'
  <2>1. CASE UNCHANGED vars
    BY <2>1 DEF vars, IdsAgree, Exists
  <2> QED
    BY <2>1, IdsStep
<1>3. IdsAgree => MyPendingMissesNothing
  BY SentinelAssumption
     DEF IdsAgree, MyPendingMissesNothing, LeftNoId, PendingForUser, CastVoteAccepts, Pending, Exists
<1> QED
  BY <1>1, <1>2, <1>3, InvariantHolds, PTL DEF Spec

-----------------------------------------------------------------------------
(* Escalations                                                              *)

\* A rule of a request exists, no request is past the limit, and the job holds
\* the number of escalations each request still has, and its rule unless the
\* rule was deleted since.
EscalationsCurrent ==
    /\ \A a \in Approvals : Exists(a) =>
          rows[a].rule \in rules \union {NoRule} /\ rows[a].escalations <= MaxEscalations
    /\ sess[Scheduler] # Idle =>
          \A a \in Approvals : sess[Scheduler].seen[a] # NoRow =>
              /\ sess[Scheduler].seen[a].escalations = rows[a].escalations
              /\ rows[a].rule \in {sess[Scheduler].seen[a].rule, NoRule}

\* What a run of the job does to a request.
LEMMA JobStep ==
    ASSUME IInv, EscalationsCurrent, FinishEscalation, NEW a \in Approvals, rows[a] # NoRow
    PROVE  \/ rows'[a] = rows[a]
           \/ /\ rows[a].escalations < MaxEscalations
              /\ rows'[a].escalations = rows[a].escalations + 1
              /\ rows'[a].status = rows[a].status
              /\ rows[a].rule # NoRule => ~rows'[a].overdue
           \/ /\ rows[a].escalations = MaxEscalations
              /\ rows'[a].escalations = rows[a].escalations
<1> DEFINE seen == sess[Scheduler].seen[a]
<1>1. sess[Scheduler] \in Escalating /\ sess[Scheduler] # Idle /\ rows[a] \in Row
  BY DEF FinishEscalation, IInv, TypeOK
<1>2. rows'[a] = IF seen # NoRow THEN ProcessExpired(rows[a], seen) ELSE rows[a]
  BY DEF FinishEscalation
<1>3. CASE seen # NoRow
  <2>1. seen \in Row
    BY <1>1, <1>3 DEF Escalating
  <2>2. /\ seen.escalations = rows[a].escalations
        /\ rows[a].rule \in {seen.rule, NoRule}
        /\ rows[a].rule \in rules \union {NoRule}
        /\ rows[a].escalations <= MaxEscalations
    BY <1>1, <1>3 DEF EscalationsCurrent, Exists
  <2> HIDE DEF seen
  <2>3. \A r, x \in Row :
          /\ x.escalations < MaxEscalations =>
                /\ ProcessExpired(r, x).escalations = x.escalations + 1
                /\ ProcessExpired(r, x).status = r.status
                /\ x.rule \in rules => ProcessExpired(r, x).overdue = FALSE
          /\ ~(x.escalations < MaxEscalations) =>
                ProcessExpired(r, x).escalations = r.escalations
    BY ProcessedRow
  <2>4. rows'[a] = ProcessExpired(rows[a], seen) /\ rows[a].escalations \in Nat
    BY <1>1, <1>2, <1>3 DEF Row
  <2>5. CASE seen.escalations < MaxEscalations
    <3>1. /\ rows'[a].escalations = seen.escalations + 1
          /\ rows'[a].status = rows[a].status
          /\ seen.rule \in rules => rows'[a].overdue = FALSE
      BY <1>1, <2>1, <2>3, <2>4, <2>5
    <3> QED
      BY <2>2, <2>5, <3>1
  <2>6. CASE ~(seen.escalations < MaxEscalations)
    <3>1. rows'[a].escalations = rows[a].escalations
      BY <1>1, <2>1, <2>3, <2>4, <2>6
    <3> QED
      BY <2>2, <2>4, <2>6, <3>1, EscalationAssumption
  <2> QED
    BY <2>5, <2>6
<1>4. CASE seen = NoRow
  BY <1>2, <1>4
<1> QED
  BY <1>3, <1>4

\* Every step keeps what the job holds current: nobody else counts escalations,
\* and a deleted rule leaves its requests.
LEMMA EscalationsStep ==
    ASSUME IInv, EscalationsCurrent, Next
    PROVE  EscalationsCurrent'
<1>1. ASSUME NEW a \in Approvals, rows'[a] # NoRow
      PROVE  rows'[a].rule \in rules' \union {NoRule} /\ rows'[a].escalations <= MaxEscalations
  <2>1. CASE rows[a] = NoRow
    <3>1. RowMade(a)
      BY <1>1, <2>1, RowStep
    <3>2. PICK u \in Users, n \in Nat : \E id \in IdsOf(u), r \in rules \union {NoRule} :
            rows'[a] = NewRow(u, id, n, r)
      BY <3>1 DEF RowMade
    <3>3. rows'[a].rule \in rules \union {NoRule} /\ rows'[a].escalations = 0
      BY <3>2 DEF NewRow
    <3> QED
      BY <3>1, <3>3, EscalationAssumption DEF RowMade
  <2>2. CASE rows[a] # NoRow
    <3>1. RowKept(a) /\ rows[a] \in Row
      BY <2>2, RowStep DEF IInv, TypeOK
    <3>2. rows[a].rule \in rules \union {NoRule} /\ rows[a].escalations <= MaxEscalations
          /\ rows[a].escalations \in Nat
      BY <2>2, <3>1 DEF EscalationsCurrent, Exists, Row
    <3>3. rows'[a].rule \in rules' \union {NoRule}
      <4>1. CASE rows'[a].rule = NoRule
        BY <4>1
      <4>2. CASE rows'[a].rule # NoRule
        <5>1. rows'[a].rule = rows[a].rule
          BY <3>1, <4>2 DEF RowKept
        <5>2. CASE rules' = rules
          BY <3>2, <5>1, <5>2
        <5>3. ASSUME NEW r \in Rules, DeleteRule(r) PROVE rows'[a].rule \in rules' \union {NoRule}
          <6>1. rules' = rules \ {r}
            BY <5>3 DEF DeleteRule
          <6>2. rows[a].rule # r
            <7>1. SUFFICES ASSUME rows[a].rule = r PROVE FALSE
              OBVIOUS
            <7>2. rows'[a] = [rows[a] EXCEPT !.rule = NoRule]
              BY <2>2, <5>3, <7>1 DEF DeleteRule, Exists
            <7> QED
              BY <3>1, <4>2, <7>2, RowFields
          <6> QED
            BY <3>2, <5>1, <6>1, <6>2
        <5>4. rules' = rules \/ \E r \in Rules : DeleteRule(r)
          BY DEF Next, Finish, CreateApproval, CreateApprovalRequest, Elapse, BeginVote,
                 BeginLegacyVote, BeginCancel, BeginCancelByName, BeginList, BeginEscalation,
                 Start, FinishVote, FinishCancel, FinishList, FinishEscalation, Abort
        <5> QED
          BY <5>2, <5>3, <5>4
      <4> QED
        BY <4>1, <4>2
    <3>4. rows'[a].escalations <= MaxEscalations
      <4>1. CASE FinishEscalation
        BY <2>2, <3>2, <4>1, JobStep, EscalationAssumption
      <4>2. CASE ~FinishEscalation
        BY <3>1, <3>2, <4>2 DEF RowKept
      <4> QED
        BY <4>1, <4>2
    <3> QED
      BY <3>3, <3>4
  <2> QED
    BY <2>1, <2>2
<1>2. ASSUME sess'[Scheduler] # Idle, NEW a \in Approvals, sess'[Scheduler].seen[a] # NoRow
      PROVE  /\ sess'[Scheduler].seen[a].escalations = rows'[a].escalations
             /\ rows'[a].rule \in {sess'[Scheduler].seen[a].rule, NoRule}
  <2>0. sess \in [Workers -> Handler \union Escalating \union {Idle}] /\ Scheduler \in Workers
        /\ Sessions \subseteq Workers /\ Scheduler \notin Sessions
    BY SentinelAssumption DEF IInv, TypeOK, Workers
  <2>1. CASE BeginEscalation
    <3> DEFINE seen == [b \in Approvals |-> IF b \in Overdue THEN rows[b] ELSE NoRow]
               h == [op |-> "escalate", seen |-> seen]
    <3>1. sess'[Scheduler] = h /\ rows' = rows
      BY <2>0, <2>1 DEF BeginEscalation, Start
    <3>2. h.seen = seen
      OBVIOUS
    <3> HIDE DEF h
    <3>3. seen[a] = rows[a]
      BY <1>2, <3>1, <3>2
    <3> QED
      BY <3>1, <3>2, <3>3
  <2>2. CASE sess'[Scheduler] = sess[Scheduler] /\ ~FinishEscalation
    <3>1. /\ sess[Scheduler] # Idle /\ sess[Scheduler].seen[a] # NoRow
          /\ sess[Scheduler].seen[a].escalations = rows[a].escalations
          /\ rows[a].rule \in {sess[Scheduler].seen[a].rule, NoRule}
      BY <1>2, <2>2 DEF EscalationsCurrent
    <3>2. rows[a] # NoRow
      <4>1. sess[Scheduler] \in Escalating
        BY <3>1 DEF IInv, TypeOK
      <4>2. Touches(sess[Scheduler], a)
        BY <3>1, <4>1 DEF Touches, Escalating
      <4> QED
        BY <2>0, <3>1, <4>2 DEF IInv, LoadedIsCurrent, Exists
    <3>3. RowKept(a)
      BY <3>2, RowStep
    <3> QED
      BY <2>2, <3>1, <3>3 DEF RowKept
  <2>3. BeginEscalation \/ (sess'[Scheduler] = sess[Scheduler] /\ ~FinishEscalation)
    <3>1. ASSUME FinishEscalation PROVE FALSE
      BY <1>2, <2>0, <3>1 DEF FinishEscalation
    <3>2. ASSUME NEW w \in Workers, Abort(w) PROVE sess'[Scheduler] = sess[Scheduler]
      BY <1>2, <2>0, <3>2 DEF Abort
    <3>3. ASSUME NEW s \in Sessions,
                 \/ BeginVote(s) \/ BeginLegacyVote(s) \/ BeginCancel(s)
                 \/ BeginCancelByName(s) \/ BeginList(s) \/ Finish(s)
          PROVE  sess'[Scheduler] = sess[Scheduler]
      <4>1. \E h : sess' = [sess EXCEPT ![s] = h]
        BY <3>3 DEF BeginVote, BeginLegacyVote, BeginCancel, BeginCancelByName, BeginList,
                    Start, Finish, FinishVote, FinishCancel, FinishList
      <4> QED
        BY <2>0, <4>1
    <3>4. ASSUME \/ \E b \in Approvals : CreateApproval(b) \/ CreateApprovalRequest(b) \/ Elapse(b)
                 \/ \E r \in Rules : DeleteRule(r)
          PROVE  sess'[Scheduler] = sess[Scheduler]
      BY <3>4 DEF CreateApproval, CreateApprovalRequest, Elapse, DeleteRule
    <3> QED
      BY <3>1, <3>2, <3>3, <3>4 DEF Next
  <2> QED
    BY <2>1, <2>2, <2>3
<1> QED
  BY <1>1, <1>2 DEF EscalationsCurrent, Exists

\* Whatever overlaps with the job, a request is given up only after every
\* escalation, or by a listing, and an escalation by a rule leaves time to vote.
THEOREM EscalatedBeforeExpired == Spec => EscalationsComeFirst
<1> DEFINE Step == \A a \in Approvals : Exists(a) =>
             /\ rows[a].status # "expired" /\ rows'[a].status = "expired" =>
                  \/ rows[a].escalations = MaxEscalations
                  \/ \E s \in Sessions : sess[s] # Idle /\ sess[s].op = "expire"
             /\ rows'[a].escalations > rows[a].escalations /\ rows[a].rule # NoRule =>
                  ~rows'[a].overdue
<1>1. Init => EscalationsCurrent
  BY DEF Init, EscalationsCurrent, Exists, Workers
<1>2. IInv /\ EscalationsCurrent /\ [Next]_vars => EscalationsCurrent'
  <2>1. CASE UNCHANGED vars
    BY <2>1 DEF vars, EscalationsCurrent, Exists
  <2> QED
    BY <2>1, EscalationsStep
<1>3. IInv /\ EscalationsCurrent /\ [Next]_vars => [Step]_vars
  <2> SUFFICES ASSUME IInv, EscalationsCurrent, Next, NEW a \in Approvals, rows[a] # NoRow
               PROVE  /\ rows[a].status # "expired" /\ rows'[a].status = "expired" =>
                           \/ rows[a].escalations = MaxEscalations
                           \/ \E s \in Sessions : sess[s] # Idle /\ sess[s].op = "expire"
                      /\ rows'[a].escalations > rows[a].escalations /\ rows[a].rule # NoRule =>
                           ~rows'[a].overdue
    BY DEF Exists
  <2>1. RowKept(a) /\ rows[a].escalations \in Nat
    BY RowStep DEF IInv, TypeOK, Row
  <2>2. CASE FinishEscalation
    BY <2>1, <2>2, JobStep
  <2>3. CASE ~FinishEscalation
    BY <2>1, <2>3 DEF RowKept, FinishList
  <2> QED
    BY <2>2, <2>3
<1> QED
  BY <1>1, <1>2, <1>3, InvariantHolds, PTL DEF Spec, EscalationsComeFirst
=============================================================================
