----------------------------- MODULE NodeHealth -----------------------------
(***************************************************************************)
(* Node health and its alerts (src/src/core/health_service.py, the jobs of *)
(* src/src/main.py, acknowledge_alert of routes/health.py and the part of  *)
(* report_node_status of routes/nodes.py that keeps them).                 *)
(*                                                                         *)
(* The health check, a report and an acknowledgement each read rows and    *)
(* write them in a later commit.  The alerts are read after the first      *)
(* write has locked the database, so that each of the three changes them   *)
(* in one step; the node row was read before, and an attribute that gets   *)
(* the value it was loaded with is not written.                            *)
(***************************************************************************)
EXTENDS Naturals

CONSTANTS
    HealthNodes,
    StaleThreshold, OfflineThreshold,   \* in ticks
    StalenessWeight,                    \* score_staleness_weight
    ScoreBelow,                         \* alert_on_score_below
    Penalties       \* what failed installs and reboots may take off the score

ASSUME NodeHealthAssumption ==
    /\ HealthNodes # {}
    /\ StaleThreshold \in Nat /\ OfflineThreshold \in Nat \ {0}
    /\ StaleThreshold <= OfflineThreshold
    /\ StalenessWeight \in 0 .. 100 /\ ScoreBelow \in 0 .. 100
    /\ Penalties \subseteq 0 .. 60

SilentAge == OfflineThreshold + 1

AlertTypes == {"node_stale", "node_offline", "low_health_score"}

VARIABLES
    health,     \* the node rows
    alerts,     \* per node and type: active alerts, and whether one is acknowledged
    check,      \* check_all_nodes
    report,     \* report_node_status, one per node
    ack         \* acknowledge_alert

healthVars == <<health, alerts, check, report, ack>>

HealthRow ==
    [ seen    : BOOLEAN, age : 0 .. SilentAge,      \* last_seen_at
      status  : {"unknown", "healthy", "stale", "offline"},
      penalty : Penalties,     \* off the score, which is only shown
      retired : BOOLEAN ]

Ack == [ pc : {"idle", "loaded"}, node : HealthNodes, type : AlertTypes,
         live : BOOLEAN ]      \* the alert it loaded is still active

NoCheck == [pc |-> "idle", read |-> <<>>]
NoReport == [pc |-> "idle", status |-> "unknown"]
NoAck == [pc |-> "idle", node |-> CHOOSE n \in HealthNodes : TRUE, type |-> "node_stale",
          live |-> FALSE]

NodeHealthInit ==
    /\ health \in [HealthNodes ->
                     {[seen |-> FALSE, age |-> 0, status |-> "unknown",
                       penalty |-> p, retired |-> FALSE] : p \in Penalties}]
    /\ alerts = [n \in HealthNodes |-> [t \in AlertTypes |-> [active |-> 0, acked |-> FALSE]]]
    /\ check = NoCheck
    /\ report = [n \in HealthNodes |-> NoReport]
    /\ ack = NoAck

-----------------------------------------------------------------------------
(* Verdicts.                                                                *)

DetermineHealthStatus(row) ==
    CASE ~row.seen                   -> "unknown"
      [] row.age <= StaleThreshold   -> "healthy"
      [] row.age <= OfflineThreshold -> "stale"
      [] OTHER                       -> "offline"

Least(a, b) == IF a < b THEN a ELSE b

\* 100 less the staleness and what installs and boots take off, from 0 to 100.
CalculateHealthScore(row) ==
    LET staleness == IF row.seen
                     THEN (Least(row.age, OfflineThreshold) * StalenessWeight) \div OfflineThreshold
                     ELSE StalenessWeight
        off == staleness + row.penalty
    IN  IF off < 100 THEN 100 - off ELSE 0

\* Mutation: any alert that is not resolved counts.
CreateAlertIfNewOnce(a) == IF a.active = 0 /\ ~a.acked THEN [a EXCEPT !.active = 1] ELSE a

\* Mutation: the alert is added without a look for an active one.
CreateAlertIfNewAlways(a) == [a EXCEPT !.active = @ + 1]

\* The look-up and the insert, which awaits between them, are one step: nothing
\* else makes alerts.
CreateAlertIfNew(a) == IF a.active = 0 THEN [a EXCEPT !.active = 1] ELSE a

ResolveAlert(a) == [a EXCEPT !.active = 0]

\* The alerts of a node whose row is this: what check_all_nodes raises and
\* resolves.
Checked(row, a) ==
    LET status == DetermineHealthStatus(row)
        low == CalculateHealthScore(row) < ScoreBelow
        raised == (CASE status = "stale"   -> {"node_stale"}
                     [] status = "offline" -> {"node_offline"}
                     [] OTHER              -> {})
                  \union (IF ScoreBelow > 0 /\ low THEN {"low_health_score"} ELSE {})
        cleared == (CASE status = "offline" -> {"node_stale"}
                      [] status = "healthy" -> {"node_stale", "node_offline"}
                      [] OTHER              -> {})
                   \union (IF ScoreBelow > 0 /\ ~low THEN {"low_health_score"} ELSE {})
    IN  [t \in AlertTypes |->
           CASE t \in raised  -> CreateAlertIfNew(a[t])
             [] t \in cleared -> ResolveAlert(a[t])
             [] OTHER         -> a[t]]

\* update_node_health on a row loaded with this status.
Updates(now, judged, loaded) ==
    [now EXCEPT !.status = IF DetermineHealthStatus(judged) = loaded THEN @
                           ELSE DetermineHealthStatus(judged)]

\* The acknowledgement's alert after other alerts were resolved.
AckSees(new) == ack' = [ack EXCEPT !.live = @ /\ new[ack.node][ack.type].active > 0]

-----------------------------------------------------------------------------
(* The jobs and the requests.                                               *)

CheckReads ==
    /\ check.pc = "idle"
    /\ check' = [pc |-> "loaded", read |-> health]
    /\ UNCHANGED <<health, alerts, report, ack>>

\* Nodes that were not retired when they were read.  Two active alerts of a
\* type make scalar_one_or_none raise, and the whole check is rolled back.
CheckCommits ==
    LET nodes == {n \in HealthNodes : ~check.read[n].retired}
        fails == \E n \in nodes, t \in AlertTypes : alerts[n][t].active > 1
        new == [n \in HealthNodes |->
                  IF n \in nodes /\ ~fails THEN Checked(check.read[n], alerts[n]) ELSE alerts[n]]
    IN  /\ check.pc = "loaded"
        /\ health' = [n \in HealthNodes |->
                        IF n \in nodes /\ ~fails
                        THEN Updates(health[n], check.read[n], check.read[n].status)
                        ELSE health[n]]
        /\ alerts' = new
        /\ AckSees(new)
        /\ check' = NoCheck
        /\ UNCHANGED report

ReportReads(n) ==
    /\ report[n].pc = "idle"
    /\ report' = [report EXCEPT ![n] = [pc |-> "loaded", status |-> health[n].status]]
    /\ UNCHANGED <<health, alerts, check, ack>>

\* The node was just seen: it is healthy.  Its events may change the penalty.
ReportCommits(n) ==
    LET new == [alerts EXCEPT ![n]["node_stale"] = ResolveAlert(@),
                              ![n]["node_offline"] = ResolveAlert(@)]
    IN  /\ report[n].pc = "loaded"
        /\ \E p \in Penalties :
              LET row == [health[n] EXCEPT !.seen = TRUE, !.age = 0, !.penalty = p]
              IN  health' = [health EXCEPT ![n] = Updates(row, row, report[n].status)]
        /\ alerts' = new
        /\ AckSees(new)
        /\ report' = [report EXCEPT ![n] = NoReport]
        /\ UNCHANGED check

\* A boot request sets last_seen_at and nothing else of the health.
BootSeen(n) ==
    /\ health' = [health EXCEPT ![n].seen = TRUE, ![n].age = 0]
    /\ UNCHANGED <<alerts, check, report, ack>>

AcknowledgeReads(n, t) ==
    /\ ack.pc = "idle" /\ alerts[n][t].active > 0
    /\ ack' = [pc |-> "loaded", node |-> n, type |-> t, live |-> TRUE]
    /\ UNCHANGED <<health, alerts, check, report>>

\* The alert becomes "acknowledged", even if it was resolved meanwhile.
AcknowledgeCommits ==
    /\ ack.pc = "loaded"
    /\ alerts' = [alerts EXCEPT ![ack.node][ack.type].acked = TRUE,
                                ![ack.node][ack.type].active = IF ack.live THEN @ - 1 ELSE @]
    /\ ack' = NoAck
    /\ UNCHANGED <<health, check, report>>

\* The retirement of a node (NodeLifecycle) touches neither its health nor its
\* alerts.
RetireHealth(n) ==
    /\ ~health[n].retired
    /\ health' = [health EXCEPT ![n].retired = TRUE]
    /\ UNCHANGED <<alerts, check, report, ack>>

HealthTick ==
    /\ health' = [n \in HealthNodes |->
                    [health[n] EXCEPT !.age = IF health[n].seen THEN Least(@ + 1, SilentAge) ELSE @]]
    /\ UNCHANGED <<alerts, check, report, ack>>

NodeHealthNext ==
    \/ CheckReads \/ CheckCommits \/ AcknowledgeCommits \/ HealthTick
    \/ \E n \in HealthNodes :
          \/ ReportReads(n) \/ ReportCommits(n) \/ BootSeen(n) \/ RetireHealth(n)
          \/ \E t \in AlertTypes : AcknowledgeReads(n, t)

\* The check is a scheduled job; a request that began ends.
NodeHealthFairness ==
    /\ WF_healthVars(CheckReads) /\ WF_healthVars(CheckCommits)
    /\ \A n \in HealthNodes : WF_healthVars(ReportCommits(n))

NodeHealthSpec == NodeHealthInit /\ [][NodeHealthNext]_healthVars /\ NodeHealthFairness

-----------------------------------------------------------------------------
(* Properties                                                               *)

\* Every variable has its type.
NodeHealthTypeOK ==
    /\ health \in [HealthNodes -> HealthRow]
    /\ alerts \in [HealthNodes -> [AlertTypes -> [active : Nat, acked : BOOLEAN]]]
    /\ check = NoCheck \/ check \in [pc : {"loaded"}, read : [HealthNodes -> HealthRow]]
    /\ \A n \in HealthNodes : report[n].pc \in {"idle", "loaded"}
    /\ ack \in Ack

\* A node has at most one active alert of a type.  With two, every further
\* check and every report of the node raises.
OneActiveAlert ==
    NodeHealthTypeOK /\ \A n \in HealthNodes, t \in AlertTypes : alerts[n][t].active <= 1

\* A node that stays silent ends up with an active offline alert, whoever
\* acknowledged the last one.
SilentIsAlerted ==
    \A n \in HealthNodes :
        <>[](health[n].seen /\ health[n].age = SilentAge /\ ~health[n].retired)
          => []<>(alerts[n]["node_offline"].active = 1)

\* A node that keeps reporting ends up healthy and without active alerts of its
\* silence, although a check may judge it by what it read before a report.
ReportingIsCleared ==
    \A n \in HealthNodes :
        <>[](health[n].seen /\ health[n].age <= StaleThreshold /\ ~health[n].retired)
          => <>[](/\ health[n].status = "healthy"
                  /\ \A t \in {"node_stale", "node_offline"} : alerts[n][t].active = 0)

\* Alerts of silence converge on the truth, either way.
AlertsConverge == SilentIsAlerted /\ ReportingIsCleared
=============================================================================
