--------------------------- MODULE MCNodeSessions ---------------------------
(* Instances of NodeSessions for TLC.                                       *)
EXTENDS NodeSessions, TLC

\* Every request the controller accepts.
MCAllRequests == AllRequests

\* Requests that race in practice: two registrations, an admin's moves, the
\* node's own reports, its boots, a workflow assignment and a clone.
MCRacing ==
    {Req("create_node", "none", FALSE),
     Req("boot", "none", FALSE),
     Req("assign_workflow", "known", FALSE),
     Req("clone_boot", "none", FALSE),
     Req("transition_node_state", "pending", FALSE),
     Req("bulk_change_state", "active", FALSE),
     Req("report_event", "install_started", FALSE),
     Req("report_event", "install_complete", FALSE),
     Req("report_event", "install_failed", FALSE)}

\* Sessions are interchangeable.
SessionSymmetry == Permutations(Sessions)
=============================================================================
