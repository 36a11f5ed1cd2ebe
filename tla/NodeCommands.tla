---------------------------- MODULE NodeCommands ----------------------------
(***************************************************************************)
(* The pending_command of a node row: an admin writes it                   *)
(* (send_node_command of src/src/api/routes/nodes.py), and two pollers     *)
(* take it out, iPXE                                                       *)
(* (get_boot_status of src/src/api/routes/boot.py) and pureboot-pending.sh *)
(* (get_node_command).  A request reads the row and writes the column when *)
(* it commits.  Only for iPXE are these two steps: what the script read is *)
(* dropped, so its commit is all that is seen of it.                       *)
(***************************************************************************)
EXTENDS Naturals, FiniteSets

CONSTANTS
    Commands,  \* commands an admin may send, each once
    Rescan,    \* those that iPXE cannot carry out
    NoCommand  \* pending_command is NULL

ASSUME CommandAssumption == Rescan \subseteq Commands /\ NoCommand \notin Commands

VARIABLES
    pending_command, \* the column of the node
    sent,     \* history: commands sent
    ipxe,     \* the command the open request of iPXE has read
    fetched,  \* the command in the answer to iPXE, until it acts on it
    runs       \* history: commands iPXE carried out, with their number of runs

commandVars == <<pending_command, sent, ipxe, fetched, runs>>

CommandInit ==
    /\ pending_command = NoCommand /\ sent = {}
    /\ ipxe = NoCommand /\ fetched = NoCommand
    /\ runs = [c \in Commands |-> 0]

\* send_node_command overwrites a command nobody has fetched.
SendNodeCommand(c) ==
    /\ c \notin sent
    /\ pending_command' = c
    /\ sent' = sent \union {c}
    /\ UNCHANGED <<ipxe, fetched, runs>>

\* get_boot_status reads the row; iPXE has one request at a time.
BootStatusReads ==
    /\ ipxe = NoCommand /\ fetched = NoCommand
    /\ pending_command # NoCommand
    /\ ipxe' = pending_command
    /\ UNCHANGED <<pending_command, sent, fetched, runs>>

\* Mutation: the command stays pending.
BootStatusCommitsKept ==
    /\ ipxe # NoCommand
    /\ ipxe' = NoCommand
    /\ \E delivered \in BOOLEAN : fetched' = IF delivered THEN ipxe ELSE NoCommand
    /\ UNCHANGED <<pending_command, sent, runs>>

\* It commits: the column is NULL, whatever was written to it since; the answer
\* may be lost.
BootStatusCommits ==
    /\ ipxe # NoCommand
    /\ pending_command' = NoCommand
    /\ ipxe' = NoCommand
    /\ \E delivered \in BOOLEAN : fetched' = IF delivered THEN ipxe ELSE NoCommand
    /\ UNCHANGED <<sent, runs>>

\* iPXE carries out poweroff and reboot; nothing is there for a rescan.
IpxeActs ==
    /\ fetched # NoCommand
    /\ fetched' = NoCommand
    /\ runs' = [runs EXCEPT ![fetched] = IF fetched \in Rescan THEN @ ELSE @ + 1]
    /\ UNCHANGED <<pending_command, sent, ipxe>>

\* get_node_command?clear=true of pureboot-pending.sh, which then looks for a
\* field "command" that the answer does not have: the command is dropped.
GetNodeCommand ==
    /\ pending_command # NoCommand
    /\ pending_command' = NoCommand
    /\ UNCHANGED <<sent, ipxe, fetched, runs>>

CommandNext ==
    \/ \E c \in Commands : SendNodeCommand(c)
    \/ BootStatusReads \/ BootStatusCommits \/ IpxeActs \/ GetNodeCommand

CommandSpec == CommandInit /\ [][CommandNext]_commandVars

\* No command is carried out twice, although it is read in one step, cleared
\* in another and acted on in a third: a command that ran is neither in the
\* pending_command nor in an open request.
CommandsRunOnce ==
    \A c \in Commands :
        runs[c] > 0 => runs[c] = 1 /\ c \in sent /\ c \notin {pending_command, ipxe, fetched}
=============================================================================
