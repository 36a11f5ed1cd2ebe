---------------------------- MODULE MCFileCopies ----------------------------
(***************************************************************************)
(* Files and rows that are kept in step, for TLC: the two file caches of a *)
(* site agent, its queue of what to tell the controller, and the boot      *)
(* directories of Raspberry Pis.  They share no state; a behaviour is one  *)
(* of one of them, and the others stay as they begin.                      *)
(***************************************************************************)
EXTENDS ContentSync, AgentFiles, AgentQueue, PiBoot, TLC

CONSTANTS
    fa, fb, fc,    \* files
    s1             \* a Pi

\* Two of the files have one stem.
FileStem == fa :> "x" @@ fb :> "y" @@ fc :> "y"

\* The Pi is not of the model the code takes for the default.
PiHardware == s1 :> "pi3"

\* The firmware of the default model is not installed.
PiInstalled == Links("pi3") \union {Dtb["pi4"]}

VARIABLE on     \* the part that runs

copyVars == <<contentVars, agentFileVars, vars, piVars, on>>

CopyInit ==
    /\ on \in {"content", "files", "queue", "pi"}
    /\ ContentInit /\ Init /\ PiInit
    /\ AgentFilesInit /\ (on # "files" => \A r \in Requests : req[r].file = fa)

CopyNext ==
    \/ on = "content" /\ ContentNext /\ UNCHANGED <<agentFileVars, vars, piVars, on>>
    \/ on = "files" /\ AgentFilesNext /\ UNCHANGED <<contentVars, vars, piVars, on>>
    \/ on = "queue" /\ Next /\ UNCHANGED <<contentVars, agentFileVars, piVars, on>>
    \/ on = "pi" /\ PiNext /\ UNCHANGED <<contentVars, agentFileVars, vars, on>>

\* The fairness of the queue, where it runs.
CopyFairness ==
    /\ WF_vars(on = "queue" /\ CheckConnectivity) /\ WF_vars(on = "queue" /\ Wake)
    /\ WF_vars(on = "queue" /\ NextBatch) /\ WF_vars(on = "queue" /\ EndBatch)
    /\ WF_vars(on = "queue" /\ MarkProcessing) /\ WF_vars(on = "queue" /\ SendItem)
    /\ WF_vars(on = "queue" /\ SettleItem) /\ WF_vars(on = "queue" /\ Restart)

CopySpec == CopyInit /\ [][CopyNext]_copyVars /\ CopyFairness
=============================================================================
