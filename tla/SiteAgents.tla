----------------------------- MODULE SiteAgents -----------------------------
(***************************************************************************)
(* Site agents as the central controller sees them: the agent's start,     *)
(* registration and heartbeats (src/src/agent/main.py, heartbeat.py,       *)
(* central_client.py), the routes that receive them                        *)
(* (src/src/api/routes/agents.py, generate_agent_token of sites.py) and    *)
(* the job that judges the agents by their last heartbeat                  *)
(* (src/src/core/agent_status_job.py).                                     *)
(*                                                                         *)
(* A request and the job read a site's row and write it in a later commit. *)
(* An attribute that gets the value it was loaded with is not written:     *)
(* what another session committed in between then stays.                   *)
(***************************************************************************)
EXTENDS Naturals

CONSTANTS
    Sites,
    DEGRADED_THRESHOLD, OFFLINE_THRESHOLD,   \* in heartbeat intervals
    MaxFailures,    \* HeartbeatLoop._max_failures
    MaxTokens       \* bound: tokens generated for a site

ASSUME SiteAgentsAssumption ==
    /\ DEGRADED_THRESHOLD \in Nat \ {0} /\ OFFLINE_THRESHOLD \in Nat
    /\ DEGRADED_THRESHOLD <= OFFLINE_THRESHOLD
    /\ MaxFailures \in Nat /\ MaxTokens \in Nat

MaxAge == OFFLINE_THRESHOLD + 1

Statuses == {"none", "online", "degraded", "offline"}
Requested == {"register", "heartbeat"}

VARIABLES
    siteRow,     \* the agent columns of the sites
    agent,       \* the agents
    agentReq,    \* their requests in the controller
    way,         \* the network between them
    statusJob    \* update_agent_statuses

siteAgentVars == <<siteRow, agent, agentReq, way, statusJob>>

\* agent_status, agent_last_seen as an age in intervals, agent_token_hash.
SiteRow ==
    [ status : Statuses, seen : BOOLEAN, age : 0 .. MaxAge, token : 0 .. MaxTokens ]

Agent ==
    [ pc       : {"down", "registering", "serving"},
      token    : 0 .. MaxTokens,
      failures : 0 .. MaxFailures,   \* _consecutive_failures, counted no further
      due      : BOOLEAN ]           \* the heartbeat loop is not in its sleep

AgentReq ==
    [ pc     : {"idle", "loaded"},
      status : Statuses,       \* as loaded
      mine   : BOOLEAN ]       \* the agent that sent it still runs

NoReq == [pc |-> "idle", status |-> "none", mine |-> FALSE]

SiteAgentsInit ==
    /\ siteRow = [s \in Sites |-> [status |-> "none", seen |-> FALSE, age |-> 0, token |-> 0]]
    /\ agent = [s \in Sites |-> [pc |-> "down", token |-> 0, failures |-> 0, due |-> FALSE]]
    /\ agentReq = [s \in Sites |-> [k \in Requested |-> NoReq]]
    /\ way = [s \in Sites |-> TRUE]
    /\ statusJob = [pc |-> "idle", read |-> siteRow]

-----------------------------------------------------------------------------
(* The agents.                                                              *)

\* A new token replaces the old one.
GenerateAgentToken(s) ==
    /\ siteRow[s].token < MaxTokens
    /\ siteRow' = [siteRow EXCEPT ![s].token = @ + 1]
    /\ UNCHANGED <<agent, agentReq, way, statusJob>>

\* The operator writes the token into the agent's configuration.
ConfigureAgent(s) ==
    /\ agent[s].pc = "down"
    /\ agent' = [agent EXCEPT ![s].token = siteRow[s].token]
    /\ UNCHANGED <<siteRow, agentReq, way, statusJob>>

\* run starts the heartbeat loop before it registers; without a token the
\* configuration is refused.
StartAgent(s) ==
    /\ agent[s].pc = "down" /\ agent[s].token # 0
    /\ agent' = [agent EXCEPT ![s].pc = "registering", ![s].failures = 0, ![s].due = TRUE]
    /\ UNCHANGED <<siteRow, agentReq, way, statusJob>>

\* A signal, a crash, or _handle_shutdown after a refused registration.
Down(a) == [a EXCEPT !.pc = "down", !.due = FALSE]

\* The agent of s becomes a, with these requests; when it ends, the controller
\* goes on with them and nobody takes the answers.
Becomes(s, a, reqs) ==
    /\ agent' = [agent EXCEPT ![s] = a]
    /\ agentReq' = [agentReq EXCEPT ![s] =
                       [k \in Requested |-> [reqs[k] EXCEPT !.mine = @ /\ a.pc # "down"]]]

StopAgent(s) ==
    /\ agent[s].pc # "down"
    /\ Becomes(s, Down(agent[s]), agentReq[s])
    /\ UNCHANGED <<siteRow, way, statusJob>>

Fails(a) == [a EXCEPT !.failures = IF @ < MaxFailures THEN @ + 1 ELSE @, !.due = FALSE]

\* What the agent makes of the outcome of its request.
Outcome(a, k, ok) ==
    CASE k = "register" -> IF ok THEN [a EXCEPT !.pc = "serving"] ELSE Down(a)
      [] ok             -> [a EXCEPT !.failures = 0, !.due = FALSE]
      [] OTHER          -> Fails(a)

Wants(s, k) ==
    /\ agentReq[s][k].pc = "idle"
    /\ IF k = "register" THEN agent[s].pc = "registering" ELSE agent[s].pc # "down" /\ agent[s].due

\* The request does not reach the controller.
RequestLost(s, k) ==
    /\ Wants(s, k) /\ ~way[s]
    /\ Becomes(s, Outcome(agent[s], k, FALSE), agentReq[s])
    /\ UNCHANGED <<siteRow, way, statusJob>>

\* 400 or 401: no token, or not the one of the site.
RegisterRefused(s) ==
    /\ Wants(s, "register") /\ way[s] /\ agent[s].token # siteRow[s].token
    /\ Becomes(s, Outcome(agent[s], "register", FALSE), agentReq[s])
    /\ UNCHANGED <<siteRow, way, statusJob>>

\* register_agent or agent_heartbeat loads the row.
RequestLoads(s, k) ==
    /\ Wants(s, k) /\ way[s]
    /\ k = "register" => agent[s].token = siteRow[s].token
    /\ agentReq' = [agentReq EXCEPT ![s][k] =
                       [pc |-> "loaded", status |-> siteRow[s].status, mine |-> TRUE]]
    /\ UNCHANGED <<siteRow, agent, way, statusJob>>

Seen(row, loaded) ==
    [row EXCEPT !.status = IF loaded = "online" THEN @ ELSE "online", !.seen = TRUE, !.age = 0]

\* It commits; the answer may not arrive.
RequestCommits(s, k) ==
    /\ agentReq[s][k].pc = "loaded"
    /\ siteRow' = [siteRow EXCEPT ![s] = Seen(@, agentReq[s][k].status)]
    /\ \E ok \in {way[s], TRUE} :
          Becomes(s, IF agentReq[s][k].mine THEN Outcome(agent[s], k, ok) ELSE agent[s],
                  [agentReq[s] EXCEPT ![k] = NoReq])
    /\ UNCHANGED <<way, statusJob>>

-----------------------------------------------------------------------------
(* The job, time and the network.                                           *)

StatusFor(age) ==
    CASE age > OFFLINE_THRESHOLD  -> "offline"
      [] age > DEGRADED_THRESHOLD -> "degraded"
      [] OTHER                    -> "online"

StatusJobReads ==
    /\ statusJob.pc = "idle"
    /\ statusJob' = [pc |-> "loaded", read |-> siteRow]
    /\ UNCHANGED <<siteRow, agent, agentReq, way>>

\* Mutation: only agents that are online are looked at.
JudgedWhileOnline(read, now) ==
    IF read.seen /\ read.status = "online" /\ read.status # StatusFor(read.age)
    THEN [now EXCEPT !.status = StatusFor(read.age)] ELSE now

\* The row is judged as it was read, and written where that changes it.
Judged(read, now) ==
    IF read.seen /\ read.status # StatusFor(read.age)
    THEN [now EXCEPT !.status = StatusFor(read.age)] ELSE now

StatusJobCommits ==
    /\ statusJob.pc = "loaded"
    /\ siteRow' = [s \in Sites |-> Judged(statusJob.read[s], siteRow[s])]
    /\ statusJob' = [statusJob EXCEPT !.pc = "idle"]
    /\ UNCHANGED <<agent, agentReq, way>>

\* An interval passes.  A heartbeat is over well within it: the client waits
\* 30 of 60 seconds.
Interval ==
    /\ \A s \in Sites : ~agent[s].due /\ agentReq[s]["heartbeat"].pc = "idle"
    /\ siteRow' = [s \in Sites |-> [siteRow[s] EXCEPT !.age = IF @ < MaxAge THEN @ + 1 ELSE @]]
    /\ agent' = [s \in Sites |-> [agent[s] EXCEPT !.due = (agent[s].pc # "down")]]
    /\ UNCHANGED <<agentReq, way, statusJob>>

WayChanges(s) ==
    /\ way' = [way EXCEPT ![s] = ~@]
    /\ UNCHANGED <<siteRow, agent, agentReq, statusJob>>

RequestEnds(s, k) == RequestLost(s, k) \/ RequestLoads(s, k) \/ RequestCommits(s, k)

SiteAgentsNext ==
    \/ \E s \in Sites :
          \/ GenerateAgentToken(s) \/ ConfigureAgent(s) \/ StartAgent(s) \/ StopAgent(s)
          \/ RegisterRefused(s) \/ WayChanges(s)
          \/ \E k \in Requested : RequestEnds(s, k)
    \/ StatusJobReads \/ StatusJobCommits \/ Interval

\* Requests end (the client has a timeout), the job is scheduled every minute,
\* and time passes.
SiteAgentsFairness ==
    /\ \A s \in Sites, k \in Requested : WF_siteAgentVars(RequestEnds(s, k))
    /\ WF_siteAgentVars(StatusJobReads) /\ WF_siteAgentVars(StatusJobCommits)
    /\ WF_siteAgentVars(Interval)

SiteAgentsSpec == SiteAgentsInit /\ [][SiteAgentsNext]_siteAgentVars /\ SiteAgentsFairness

-----------------------------------------------------------------------------
(* Properties                                                               *)

\* Every variable has its type.
SiteAgentsTypeOK ==
    /\ siteRow \in [Sites -> SiteRow]
    /\ agent \in [Sites -> Agent]
    /\ agentReq \in [Sites -> [Requested -> AgentReq]]
    /\ way \in [Sites -> BOOLEAN]
    /\ statusJob.pc \in {"idle", "loaded"} /\ statusJob.read \in [Sites -> SiteRow]

\* An agent that stays down is shown offline in the end, even when a request
\* of its last moments was committed after the job had judged it.
SilentIsOffline ==
    \A s \in Sites :
        <>[](agent[s].pc = "down") => <>[](siteRow[s].status \in {"none", "offline"})

\* An agent whose heartbeats get through is shown online in the end, even when
\* a heartbeat and the job overwrote each other's verdict on the way.
BeatingIsOnline ==
    \A s \in Sites :
        <>[](agent[s].pc # "down" /\ way[s]) => <>[](siteRow[s].status = "online")

\* The status shown of an agent converges on the truth, either way.
StatusConverges == []SiteAgentsTypeOK /\ SilentIsOffline /\ BeatingIsOnline
=============================================================================
