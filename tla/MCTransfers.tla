---------------------------- MODULE MCTransfers -----------------------------
(***************************************************************************)
(* What moves data and changes disks, for TLC: the TFTP server, the        *)
(* throttled boot files, disk clones and their resize plans, partition     *)
(* operations and the sync jobs of the storage backends.  They share no    *)
(* state; a behaviour is one of one of them, and the others stay as they   *)
(* begin.                                                                  *)
(***************************************************************************)
EXTENDS TftpTransfer, Throttle, CloneSessions, ResizePlan, PartitionOps,
        SyncJobs, TLC

VARIABLE on     \* the part that runs

transferVars == <<tftpVars, throttleVars, cloneVars, planVars, partVars, syncVars, on>>

Init ==
    /\ on \in {"tftp", "throttle", "clone", "plan", "partitions", "sync"}
    /\ TftpInit /\ (on # "tftp" => file.blocks = 0 /\ ~file.full /\ ~options)
    /\ CloneInit /\ (on # "clone" => session.mode = "direct" /\ session.target = NoTarget)
    /\ ThrottleInit /\ PlanInit /\ PartInit /\ SyncInit

Next ==
    \/ on = "tftp" /\ TftpNext /\ UNCHANGED <<throttleVars, cloneVars, planVars, partVars, syncVars, on>>
    \/ on = "throttle" /\ ThrottleNext /\ UNCHANGED <<tftpVars, cloneVars, planVars, partVars, syncVars, on>>
    \/ on = "clone" /\ CloneNext /\ UNCHANGED <<tftpVars, throttleVars, planVars, partVars, syncVars, on>>
    \/ on = "plan" /\ PlanNext /\ UNCHANGED <<tftpVars, throttleVars, cloneVars, partVars, syncVars, on>>
    \/ on = "partitions" /\ PartNext /\ UNCHANGED <<tftpVars, throttleVars, cloneVars, planVars, syncVars, on>>
    \/ on = "sync" /\ SyncNext /\ UNCHANGED <<tftpVars, throttleVars, cloneVars, planVars, partVars, on>>

\* What these are about cannot be done before something has been asked for, so
\* they hold of a part that does not run.
Fairness == TftpFairness /\ ThrottleFairness /\ SyncFairness

Spec == Init /\ [][Next]_transferVars /\ Fairness
=============================================================================
