-------------------------- MODULE MCNodeLifecycle --------------------------
(* Instances of NodeLifecycle for TLC.                                      *)
EXTENDS NodeLifecycle

\* Every request the controller accepts.
MCAllRequests == AllRequests
=============================================================================
