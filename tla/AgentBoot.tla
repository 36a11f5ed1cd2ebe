----------------------------- MODULE AgentBoot -----------------------------
(***************************************************************************)
(* The boot scripts and node look-ups of a site agent (get_boot_script and *)
(* BootMetrics of src/src/agent/boot_service.py, offline_boot.py,          *)
(* get_node_by_mac of proxy.py, cache/state_cache.py and the routes over   *)
(* them).                                                                  *)
(*                                                                         *)
(* The agent asks the central controller while the connectivity monitor    *)
(* says it is online, which may be wrong either way, and answers from its  *)
(* node cache otherwise.  A connection that cannot be made raises a        *)
(* ClientError, which the code handles; a controller that accepts the      *)
(* connection and never answers raises a TimeoutError, which it does not.  *)
(*                                                                         *)
(* A look-up caches what GET /nodes?mac=... returned: a page of nodes, not *)
(* a node, so that the row has no node id and the default state            *)
(* "discovered".  The state updates the proxy makes find no row by node id *)
(* and leave the cache alone.                                              *)
(***************************************************************************)
EXTENDS Naturals, FiniteSets

CONSTANTS
    Boots,          \* requests for a boot script
    Lookups,        \* requests for a node
    Macs,           \* the nodes of the site
    DefaultAction,  \* offline_default_action
    AgentCrashes    \* TRUE when the agent may be restarted

ASSUME AgentBootAssumption ==
    /\ IsFiniteSet(Boots)
    /\ DefaultAction \in {"local", "discovery", "last_known"}
    /\ AgentCrashes \in BOOLEAN

VARIABLES
    link,           \* the way to the central controller
    online,         \* what the connectivity monitor says
    nodeCache,      \* the rows of the node cache
    boot,           \* the boot requests
    lookup,         \* the look-ups
    activeBoots     \* BootMetrics.active_boots

agentBootVars == <<link, online, nodeCache, boot, lookup, activeBoots>>

NodeRow == {"none", "fresh", "expired"}

Scripts == {"central",   \* the central controller's
            "fallback",  \* it answered with an error
            "discovered", "local", "discovery"}    \* made offline

BootRequest ==
    [ pc  : {"idle", "asks", "offline"},
      mac : Macs,
      got : Scripts \union {"nothing", "error"} ]

Lookup ==
    [ pc  : {"idle", "asks", "stores"},
      mac : Macs,
      had : BOOLEAN,        \* an expired row was found
      got : {"nothing", "cached", "stale", "central", "none", "error"} ]

AgentBootInit ==
    /\ link = "up" /\ online = TRUE
    /\ nodeCache = [m \in Macs |-> "none"]
    /\ boot \in [Boots -> {[pc |-> "idle", mac |-> m, got |-> "nothing"] : m \in Macs}]
    /\ lookup \in [Lookups -> {[pc |-> "idle", mac |-> m, had |-> FALSE, got |-> "nothing"] :
                                 m \in Macs}]
    /\ activeBoots = 0

-----------------------------------------------------------------------------
(* Boot scripts.                                                            *)

\* record_boot_request, then the choice between the controller and the cache.
\* The lock of BootMetrics is never held across an await.
GetBootScript(b) ==
    /\ boot[b].pc = "idle"
    /\ activeBoots' = activeBoots + 1
    /\ boot' = [boot EXCEPT ![b].pc = IF online THEN "asks" ELSE "offline",
                            ![b].got = "nothing"]
    /\ UNCHANGED <<link, online, nodeCache, lookup>>

\* The answer; complete_boot_request runs in the finally.
Answers(b, got) ==
    /\ boot' = [boot EXCEPT ![b].pc = "idle", ![b].got = got]
    /\ activeBoots' = IF activeBoots > 0 THEN activeBoots - 1 ELSE 0

CentralAnswers(b) ==
    /\ boot[b].pc = "asks" /\ link = "up"
    /\ \E got \in {"central", "fallback"} : Answers(b, got)
    /\ UNCHANGED <<link, online, nodeCache, lookup>>

\* Mutation: the request is sent again for as long as it fails.
CentralUnreachableRetrying(b) ==
    /\ boot[b].pc = "asks" /\ link = "down"
    /\ UNCHANGED agentBootVars

\* except aiohttp.ClientError
CentralUnreachable(b) ==
    /\ boot[b].pc = "asks" /\ link = "down"
    /\ boot' = [boot EXCEPT ![b].pc = "offline"]
    /\ UNCHANGED <<link, online, nodeCache, lookup, activeBoots>>

\* The TimeoutError leaves get_boot_script: the node gets an error page.
CentralHangs(b) ==
    /\ boot[b].pc = "asks" /\ link = "hangs"
    /\ Answers(b, "error")
    /\ UNCHANGED <<link, online, nodeCache, lookup>>

\* _generate_unknown_script: "last_known" finds no row either.
UnknownScript == IF DefaultAction = "discovery" THEN "discovery" ELSE "local"

\* generate_script reads the row whether or not it is expired.
OfflineScript(b) ==
    /\ boot[b].pc = "offline"
    /\ Answers(b, IF nodeCache[boot[b].mac] = "none" THEN UnknownScript ELSE "discovered")
    /\ UNCHANGED <<link, online, nodeCache, lookup>>

-----------------------------------------------------------------------------
(* Look-ups.                                                                *)

Returns(l, got) == lookup' = [lookup EXCEPT ![l].pc = "idle", ![l].got = got]

GetNodeByMac(l) ==
    LET row == nodeCache[lookup[l].mac] IN
    /\ lookup[l].pc = "idle"
    /\ IF row = "fresh" THEN Returns(l, "cached")
       ELSE lookup' = [lookup EXCEPT ![l].pc = "asks", ![l].had = (row = "expired"),
                                     ![l].got = "nothing"]
    /\ UNCHANGED <<link, online, nodeCache, boot, activeBoots>>

\* 200, or any other status.
NodeAnswers(l) ==
    /\ lookup[l].pc = "asks" /\ link = "up"
    /\ \/ lookup' = [lookup EXCEPT ![l].pc = "stores"]
       \/ Returns(l, "none")
    /\ UNCHANGED <<link, online, nodeCache, boot, activeBoots>>

SetNode(l) ==
    /\ lookup[l].pc = "stores"
    /\ nodeCache' = [nodeCache EXCEPT ![lookup[l].mac] = "fresh"]
    /\ Returns(l, "central")
    /\ UNCHANGED <<link, online, boot, activeBoots>>

\* The row read before the request, whatever became of it since.
NodeUnreachable(l) ==
    /\ lookup[l].pc = "asks" /\ link = "down"
    /\ Returns(l, IF lookup[l].had THEN "stale" ELSE "none")
    /\ UNCHANGED <<link, online, nodeCache, boot, activeBoots>>

NodeHangs(l) ==
    /\ lookup[l].pc = "asks" /\ link = "hangs"
    /\ Returns(l, "error")
    /\ UNCHANGED <<link, online, nodeCache, boot, activeBoots>>

-----------------------------------------------------------------------------
(* The cache routes, time, the link and the monitor.                        *)

Invalidate(m) ==
    /\ nodeCache[m] # "none"
    /\ nodeCache' = [nodeCache EXCEPT ![m] = "none"]
    /\ UNCHANGED <<link, online, boot, lookup, activeBoots>>

\* DELETE /cache/nodes, and POST /cache/evict with the policy "all".
ClearNodes ==
    /\ nodeCache' = [m \in Macs |-> "none"]
    /\ UNCHANGED <<link, online, boot, lookup, activeBoots>>

\* POST /cache/evict with the policy "expired".
InvalidateExpired ==
    /\ nodeCache' = [m \in Macs |-> IF nodeCache[m] = "expired" THEN "none" ELSE nodeCache[m]]
    /\ UNCHANGED <<link, online, boot, lookup, activeBoots>>

NodeExpires(m) ==
    /\ nodeCache[m] = "fresh"
    /\ nodeCache' = [nodeCache EXCEPT ![m] = "expired"]
    /\ UNCHANGED <<link, online, boot, lookup, activeBoots>>

LinkChanges ==
    /\ link' \in {"up", "down", "hangs"} \ {link}
    /\ UNCHANGED <<online, nodeCache, boot, lookup, activeBoots>>

MonitorSees ==
    /\ online' = (link = "up")
    /\ UNCHANGED <<link, nodeCache, boot, lookup, activeBoots>>

\* The node cache is a file; the requests and the metrics end.
AgentBootRestart ==
    /\ AgentCrashes
    /\ boot' = [b \in Boots |-> [boot[b] EXCEPT !.pc = "idle", !.got = "nothing"]]
    /\ lookup' = [l \in Lookups |-> [lookup[l] EXCEPT !.pc = "idle", !.had = FALSE,
                                                      !.got = "nothing"]]
    /\ activeBoots' = 0 /\ online' = TRUE
    /\ UNCHANGED <<link, nodeCache>>

BootEnds(b) ==
    CentralAnswers(b) \/ CentralUnreachable(b) \/ CentralHangs(b) \/ OfflineScript(b)

LookupEnds(l) == NodeAnswers(l) \/ SetNode(l) \/ NodeUnreachable(l) \/ NodeHangs(l)

AgentBootNext ==
    \/ \E b \in Boots : GetBootScript(b) \/ BootEnds(b)
    \/ \E l \in Lookups : GetNodeByMac(l) \/ LookupEnds(l)
    \/ \E m \in Macs : Invalidate(m) \/ NodeExpires(m)
    \/ ClearNodes \/ InvalidateExpired
    \/ LinkChanges \/ MonitorSees \/ AgentBootRestart

\* A request is answered, refused or timed out by aiohttp.
AgentBootFairness ==
    /\ \A b \in Boots : WF_agentBootVars(BootEnds(b))
    /\ \A l \in Lookups : WF_agentBootVars(LookupEnds(l))

AgentBootSpec == AgentBootInit /\ [][AgentBootNext]_agentBootVars /\ AgentBootFairness

-----------------------------------------------------------------------------
(* Properties                                                               *)

\* Every variable has its type.
AgentBootTypeOK ==
    /\ link \in {"up", "down", "hangs"}
    /\ online \in BOOLEAN
    /\ nodeCache \in [Macs -> NodeRow]
    /\ boot \in [Boots -> BootRequest]
    /\ lookup \in [Lookups -> Lookup]
    /\ activeBoots \in 0 .. Cardinality(Boots)

\* The active_boots of the heartbeat are the boot requests in progress: no
\* error path leaks one, and the bound at zero is never what keeps the count.
ActiveBootsAreInFlight ==
    activeBoots = Cardinality({b \in Boots : boot[b].pc # "idle"})

\* A boot request ends, with a script or with the error page of CentralHangs,
\* whatever the link and the monitor do meanwhile.
BootsEnd == \A b \in Boots : boot[b].pc # "idle" ~> boot[b].pc = "idle"

\* A controller that is down, or goes down while it is asked, or that the
\* monitor is wrong about, costs a node nothing: as long as the link does not
\* hang, a boot is not turned away with an error page.
ScriptUnlessHung ==
    \A b \in Boots :
        (boot[b].pc # "idle" /\ [](link # "hangs"))
            ~> (boot[b].pc = "idle" /\ boot[b].got # "error")

\* An agent cut off from the controller serves its site: every boot ends and is
\* counted only while it is in progress, and it gets a script unless the link
\* hangs: a controller that accepts the connection and does not answer raises
\* TimeoutError, where only ClientError is caught.
BootsAreAnswered ==
    [](AgentBootTypeOK /\ ActiveBootsAreInFlight) /\ BootsEnd /\ ScriptUnlessHung
=============================================================================
