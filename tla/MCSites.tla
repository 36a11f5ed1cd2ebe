------------------------------ MODULE MCSites -------------------------------
(***************************************************************************)
(* Remote sites and the watch on nodes, for TLC: the agents of the sites   *)
(* and their status, what an agent serves its nodes while the controller   *)
(* cannot be reached, and the health monitor.  They share no state; a      *)
(* behaviour is one of one of them, and the others stay as they begin.     *)
(***************************************************************************)
EXTENDS SiteAgents, AgentBoot, NodeHealth, TLC

VARIABLE on     \* the part that runs

siteVars == <<siteAgentVars, agentBootVars, healthVars, on>>

\* The first of the initial states of each part that does not run.
Init ==
    /\ on \in {"agents", "boots", "health"}
    /\ SiteAgentsInit
    /\ AgentBootInit /\ (on # "boots" =>
         LET m == CHOOSE m \in Macs : TRUE
         IN \A r \in Boots : boot[r].mac = m /\ \A l \in Lookups : lookup[l].mac = m)
    /\ NodeHealthInit

Next ==
    \/ on = "agents" /\ SiteAgentsNext /\ UNCHANGED <<agentBootVars, healthVars, on>>
    \/ on = "boots" /\ AgentBootNext /\ UNCHANGED <<siteAgentVars, healthVars, on>>
    \/ on = "health" /\ NodeHealthNext /\ UNCHANGED <<siteAgentVars, agentBootVars, on>>

\* The fairness of each part, where that part runs; nothing AgentBootFairness
\* is about can be done before a request is made.
Fairness ==
    /\ AgentBootFairness
    /\ \A s \in Sites, k \in Requested : WF_siteAgentVars(on = "agents" /\ RequestEnds(s, k))
    /\ WF_siteAgentVars(on = "agents" /\ StatusJobReads)
    /\ WF_siteAgentVars(on = "agents" /\ StatusJobCommits)
    /\ WF_siteAgentVars(on = "agents" /\ Interval)
    /\ WF_healthVars(on = "health" /\ CheckReads)
    /\ WF_healthVars(on = "health" /\ CheckCommits)
    /\ \A n \in HealthNodes : WF_healthVars(on = "health" /\ ReportCommits(n))

Spec == Init /\ [][Next]_siteVars /\ Fairness
=============================================================================
