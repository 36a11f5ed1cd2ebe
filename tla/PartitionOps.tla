---------------------------- MODULE PartitionOps ----------------------------
(***************************************************************************)
(* The partition operations and disk reports of one node                   *)
(* (src/src/api/routes/disks.py) and the script that carries them out on   *)
(* the node (src/deploy/scripts/pureboot-partition.sh).                    *)
(*                                                                         *)
(* The script announces "in_progress", which the endpoint refuses with     *)
(* 400, so an operation is pending until its outcome has been reported.    *)
(* apply_partition_operations changes nothing: the script takes whatever   *)
(* is pending when it polls.                                               *)
(*                                                                         *)
(* The script runs under set -e, where an arithmetic command whose value   *)
(* is 0 ends it: ((flushed++)) and ((failed++)) after the first report of  *)
(* the queue that is tried, ((sleep_count++)) in the first second of the   *)
(* pause after the first turn of the loop.  Its clean-up flushes the queue *)
(* once more, under the same rule.  It is the init process of the node,    *)
(* so a second turn takes another boot.                                    *)
(***************************************************************************)
EXTENDS Naturals, Sequences, FiniteSets, SequencesExt

CONSTANTS
    Ops,          \* partition operations
    Devices,      \* a set of numbers: the devices in the order of their names
    NoDevice,     \* the operation has no row
    MaxRuns,      \* bound on the operations the node carries out
    NodeRestarts  \* the node may be switched off and boot again

ASSUME PartitionAssumption ==
    /\ IsFiniteSet(Ops)
    /\ Devices \subseteq Nat /\ NoDevice \notin Devices
    /\ MaxRuns \in Nat
    /\ NodeRestarts \in BOOLEAN

VARIABLES
    ops,     \* the partition_operations rows
    disks,   \* the disk_info rows: how many operations they take account of
    script,  \* the script: its step, the operations it read, unsent reports
    ran,     \* history: the operations carried out, in order
    good,    \* history: the operations that succeeded at least once
    astray   \* history: operations whose report a restart threw away, and
             \* whether a disk report was thrown away or overtaken

partVars == <<ops, disks, script, ran, good, astray>>

OpRow ==
    [ status : {"none", "queuing", "pending", "completed", "failed", "removed"},
      device : Devices \union {NoDevice},
      sequence : Nat,
      after  : SUBSET Ops ]   \* history: rows there when the request began

Outcome(o, s) == [kind |-> "outcome", op |-> o, status |-> s]
DiskReport(n) == [kind |-> "disks", runs |-> n]

PartReports ==
    [kind : {"outcome"}, op : Ops, status : {"completed", "failed"}]
    \union [kind : {"disks"}, runs : 0..MaxRuns]

PendingOn(d) == {o \in Ops : ops[o].status = "pending" /\ ops[o].device = d}

PartInit ==
    /\ ops = [o \in Ops |-> [status |-> "none", device |-> NoDevice,
                             sequence |-> 0, after |-> {}]]
    /\ disks = 0
    /\ script = [step |-> "scan", batch |-> <<>>, queue |-> {}]
    /\ ran = <<>> /\ good = {} /\ astray = [ops |-> {}, disks |-> FALSE]

-----------------------------------------------------------------------------
(* The requests of the admin                                                *)

\* func.max over the pending operations of the device, plus one.
NextSequence(d) ==
    IF PendingOn(d) = {} THEN 1 ELSE 1 + Max({ops[o].sequence : o \in PendingOn(d)})

\* queue_partition_operation reads the largest sequence ...
QueueReads(o, d) ==
    /\ ops[o].status = "none"
    /\ ops' = [ops EXCEPT ![o] =
                 [ status |-> "queuing", device |-> d,
                   sequence |-> NextSequence(d),
                   after |-> {a \in Ops : /\ ops[a].device = d
                                          /\ ops[a].status # "queuing"} ]]
    /\ UNCHANGED <<disks, script, ran, good, astray>>

\* ... and the row is there when the request commits.
QueuePartitionOperation(o) ==
    /\ ops[o].status = "queuing"
    /\ ops' = [ops EXCEPT ![o].status = "pending"]
    /\ UNCHANGED <<disks, script, ran, good, astray>>

\* remove_partition_operation: only a pending one, which it may be while the
\* node is carrying it out.
RemovePartitionOperation(o) ==
    /\ ops[o].status = "pending"
    /\ ops' = [ops EXCEPT ![o].status = "removed"]
    /\ UNCHANGED <<disks, script, ran, good, astray>>

-----------------------------------------------------------------------------
(* What a report does                                                       *)

\* update_operation_status: 404 once the row is removed, otherwise the status
\* is overwritten whatever it was.
UpdateOperationStatus(r) ==
    /\ ops[r.op].status # "removed"
    /\ ops' = [ops EXCEPT ![r.op].status = r.status]
    /\ UNCHANGED disks

\* receive_disk_report: the rows are replaced.  The request for a scan that it
\* also ends is a mark no poll sees: GET .../disks/scan-status is answered by
\* the route declared before it for .../disks/{device}.
ReceiveDiskReport(r) ==
    /\ disks' = r.runs
    /\ UNCHANGED ops

\* api_post: the report is applied, and the answer may be lost; or it never
\* arrives.
PartPost(r, ok) ==
    \/ /\ \/ r.kind = "outcome" /\ UpdateOperationStatus(r)
          \/ r.kind = "disks" /\ ReceiveDiskReport(r)
    \/ /\ ~ok
       /\ UNCHANGED <<ops, disks>>

\* A report that got no answer is written to the queue directory.
Unsent(r, ok) == IF ok THEN script.queue ELSE script.queue \union {r}

-----------------------------------------------------------------------------
(* The script: a turn of its main loop, and its clean-up                    *)

Steps == {"scan", "flush", "poll", "run", "rescan", "exit", "gone"}

\* Where a flush that tried something leads.
AfterFlush == IF script.step = "flush" THEN "exit" ELSE "gone"

\* flush_queue, in the loop or in the clean-up, tries one queued report.
FlushOne ==
    /\ script.step \in {"flush", "exit"}
    /\ \E r \in script.queue, ok \in BOOLEAN :
         /\ PartPost(r, ok)
         /\ script' = [script EXCEPT !.step = AfterFlush, !.queue = IF ok THEN @ \ {r} ELSE @]
         /\ astray' = [astray EXCEPT !.disks = @ \/ (r.kind = "disks" /\ r.runs # Len(ran))]
    /\ UNCHANGED <<ran, good>>

\* Or it tries the online status, which is queued as well when it cannot be
\* sent; or the clean-up has nothing to flush.
FlushStatus ==
    /\ script.step \in {"flush", "exit"}
    /\ script' = [script EXCEPT !.step = AfterFlush]
    /\ UNCHANGED <<ops, disks, ran, good, astray>>

FlushEnds ==
    /\ script.step = "flush" /\ script.queue = {}
    /\ script' = [script EXCEPT !.step = "poll"]
    /\ UNCHANGED <<ops, disks, ran, good, astray>>

\* Mutation: the rows come in no particular order.
InOrderUnordered(a, b) == TRUE

\* ORDER BY device, sequence
InOrder(a, b) ==
    \/ ops[a].device < ops[b].device
    \/ ops[a].device = ops[b].device /\ ops[a].sequence <= ops[b].sequence

\* poll_operations: status=pending
Polled == {o \in Ops : ops[o].status = "pending"}

\* list_all_node_partition_operations: the rows there are, in their order.
PollOperations ==
    /\ script.step = "poll"
    /\ \E batch \in SetToSeqs(Polled) :
         /\ \A i, j \in 1..Len(batch) : i < j => InOrder(batch[i], batch[j])
         /\ script' = [script EXCEPT !.batch = batch,
                         !.step = IF batch = <<>> THEN "exit" ELSE "run"]
    /\ UNCHANGED <<ops, disks, ran, good, astray>>

PollFails ==
    /\ script.step = "poll"
    /\ script' = [script EXCEPT !.step = "exit"]
    /\ UNCHANGED <<ops, disks, ran, good, astray>>

\* execute_operation, whose outcome is reported or queued.  The operations
\* after a failed one are carried out all the same.
ExecuteOperation ==
    /\ script.step = "run" /\ script.batch # <<>> /\ Len(ran) < MaxRuns
    /\ \E status \in {"completed", "failed"}, ok \in BOOLEAN :
         LET o == Head(script.batch)
             r == Outcome(o, status)
         IN
         /\ PartPost(r, ok)
         /\ ran' = Append(ran, o)
         /\ good' = IF status = "completed" THEN good \union {o} ELSE good
         /\ script' = [script EXCEPT !.batch = Tail(@), !.queue = Unsent(r, ok)]
    /\ UNCHANGED astray

\* The batch is done, with or without failures.
BatchEnds ==
    /\ script.step = "run" /\ script.batch = <<>>
    /\ script' = [script EXCEPT !.step = "rescan"]
    /\ UNCHANGED <<ops, disks, ran, good, astray>>

\* report_disk_info, when the script starts and after a batch.
ReportDiskInfo ==
    /\ script.step \in {"scan", "rescan"}
    /\ \E ok \in BOOLEAN :
         LET r == DiskReport(Len(ran)) IN
         /\ PartPost(r, ok)
         /\ script' = [script EXCEPT !.step = IF @ = "scan" THEN "flush" ELSE "exit",
                                     !.queue = Unsent(r, ok)]
    /\ UNCHANGED <<ran, good, astray>>

UnsentOps == {o \in Ops : \E r \in script.queue : r.kind = "outcome" /\ r.op = o}
UnsentDisks == \E r \in script.queue : r.kind = "disks"

\* The node is switched off, or boots again: the queue directory was in
\* memory.  It starts with a scan of the disks.
RestartNode ==
    /\ NodeRestarts
    /\ astray' = [ ops |-> astray.ops \union UnsentOps,
                   disks |-> astray.disks \/ UnsentDisks ]
    /\ script' = [step |-> "scan", batch |-> <<>>, queue |-> {}]
    /\ UNCHANGED <<ops, disks, ran, good>>

-----------------------------------------------------------------------------
ScriptStep ==
    \/ FlushOne \/ FlushStatus \/ FlushEnds \/ PollOperations \/ PollFails
    \/ ExecuteOperation \/ BatchEnds \/ ReportDiskInfo

PartNext ==
    \/ \E o \in Ops :
         \/ \E d \in Devices : QueueReads(o, d)
         \/ QueuePartitionOperation(o) \/ RemovePartitionOperation(o)
    \/ ScriptStep \/ RestartNode

PartSpec == PartInit /\ [][PartNext]_partVars

-----------------------------------------------------------------------------
(* Properties                                                               *)

\* Every variable has its type.
PartTypeOK ==
    /\ ops \in [Ops -> OpRow]
    /\ disks \in 0..MaxRuns
    /\ script \in [step : Steps, batch : Seq(Ops),
                   queue : SUBSET PartReports]
    /\ astray \in [ops : SUBSET Ops, disks : BOOLEAN]
    /\ ran \in Seq(Ops) /\ good \subseteq Ops

\* The operations of a device are carried out in the order in which their
\* requests followed one another: before an operation runs, every one that was
\* stored when it was asked for has run or was removed.  The sequence numbers
\* start again at 1 whenever nothing is pending, so the numbers alone do not
\* say so.
ExecutedInOrder ==
    \A i \in 1..Len(ran) : \A a \in ops[ran[i]].after :
        \/ ops[a].status = "removed"
        \/ \E j \in 1..i : ran[j] = a

\* An operation shown as completed succeeded on the node at least once,
\* however late or often the reports arrive.
CompletedIsExecuted ==
    \A o \in Ops : ops[o].status = "completed" => o \in good

\* An operation runs a second time only because the controller never learned
\* of the first: its report was still queued when the node went down.
RerunIsUnreported ==
    \A i \in 1..Len(script.batch) :
        LET o == script.batch[i] IN
        o \in ToSet(ran) => o \in astray.ops

\* When no operation is at work and no report of the disks went astray, the
\* rows show the disks after everything that was done to them, failures
\* included.
ShownDisksAreCurrent ==
    script.step \in {"flush", "poll", "exit", "gone"} /\ ~UnsentDisks /\ ~astray.disks
        => disks = Len(ran)

\* The queue of operations and the disks shown agree with what was done on the
\* node, through lost, late and repeated reports and restarts of the node.
OperationsAreTrue ==
    PartTypeOK /\ ExecutedInOrder /\ CompletedIsExecuted /\ RerunIsUnreported
        /\ ShownDisksAreCurrent
=============================================================================
