----------------------------- MODULE AgentQueue -----------------------------
(***************************************************************************)
(* Offline operation of the site agent: the connectivity monitor           *)
(* (src/src/agent/connectivity.py), the proxy that queues what nodes       *)
(* report while the central controller is unreachable                      *)
(* (src/src/agent/proxy.py), the durable queue (src/src/agent/queue.py)    *)
(* and the processor that drains it (src/src/agent/queue_processor.py).    *)
(*                                                                         *)
(* The queue's statements are each a committed transaction.  The two       *)
(* seconds of _process_with_delay outlast a statement, so an enqueue and   *)
(* the end of a drain are single steps.                                    *)
(***************************************************************************)
EXTENDS Naturals, Sequences, FiniteSets

CONSTANTS
    Ops,               \* registrations, state updates and events to report
    FailureThreshold,  \* failure_threshold of the monitor
    MaxRetries,        \* queue_max_retries
    BatchSize,         \* queue_batch_size
    NoItem,            \* no item is being sent
    CentralRefuses,    \* the central controller may answer with an error
    Crashes,           \* the agent may stop and be started again
    ThreadHops         \* a statement may run on a thread that did not open
                       \* the connection, which sqlite3 refuses

ASSUME BoundsAssumption ==
    /\ FailureThreshold \in Nat \ {0}
    /\ MaxRetries \in Nat
    /\ BatchSize \in Nat \ {0}
ASSUME SwitchAssumption ==
    CentralRefuses \in BOOLEAN /\ Crashes \in BOOLEAN /\ ThreadHops \in BOOLEAN

VARIABLES
    link,      \* the central controller can be reached
    up,        \* the agent runs
    online,    \* _is_online
    failures,  \* _consecutive_failures, up to the threshold
    wake,      \* a _process_with_delay task is waiting
    rows,      \* the sync_queue table
    created,   \* its rows by created_at
    proc,      \* the progress of process_queue
    central,   \* the operations the central controller has applied
    told       \* what the node was answered

monitor == <<online, failures>>
vars == <<link, up, online, failures, wake, rows, created, proc, central, told>>

\* A row; "absent" when it was not inserted or has been deleted.
Row == [status : {"absent", "pending", "processing", "failed"}, attempts : Nat]

\* An item of a batch: attempts is the value peek() read.
Item == [op : Ops, attempts : Nat]

\* _processing and where its loop stands.
Progress ==
    [ phase : {"idle",      \* not processing
               "loop",      \* at the head of the while loop
               "batch",     \* between two items of the batch
               "sending",   \* item marked processing, request under way
               "sent"},     \* request answered
      batch : SUBSET Item,              \* items of the batch not yet taken
      item  : Item \union {NoItem},
      ok    : BOOLEAN ]

ASSUME NoItemAssumption == NoItem \notin Item

IdleProgress == [phase |-> "idle", batch |-> {}, item |-> NoItem, ok |-> FALSE]

Applied(op) == \E i \in DOMAIN central : central[i] = op

\* The row of a was inserted before the row of b.
Before(a, b) ==
    \E m, n \in DOMAIN created : m < n /\ created[m] = a /\ created[n] = b

At(phase) == up /\ proc.phase = phase

-----------------------------------------------------------------------------
\* The agent has started with the central controller reachable.
Init ==
    /\ link = TRUE
    /\ up = TRUE
    /\ online = TRUE
    /\ failures = 0
    /\ wake = TRUE
    /\ rows = [op \in Ops |-> [status |-> "absent", attempts |-> 0]]
    /\ created = <<>>
    /\ proc = IdleProgress
    /\ central = <<>>
    /\ told = [op \in Ops |-> "nothing"]

\* The network between agent and central controller.
LinkChanges ==
    /\ link' = ~link
    /\ UNCHANGED <<up, monitor, wake, rows, created, proc, central, told>>

-----------------------------------------------------------------------------
(* The connectivity monitor                                                 *)

\* Mutation: going online wakes nobody.
UpdateStateSilent(result, wasOnline, count) ==
    IF result
    THEN /\ failures' = 0
         /\ online' = TRUE
         /\ wake' = wake
    ELSE LET n == count + 1 IN
         /\ failures' = IF n < FailureThreshold THEN n ELSE FailureThreshold
         /\ online' = (wasOnline /\ n < FailureThreshold)
         /\ wake' = wake

\* _update_state, with the listener of the queue processor.
UpdateState(result, wasOnline, count) ==
    IF result
    THEN /\ failures' = 0
         /\ online' = TRUE
         /\ wake' = (wake \/ ~wasOnline)
    ELSE LET n == count + 1 IN
         /\ failures' = IF n < FailureThreshold THEN n ELSE FailureThreshold
         /\ online' = (wasOnline /\ n < FailureThreshold)
         /\ wake' = wake

\* One turn of _run_loop, or force_check.
CheckConnectivity ==
    /\ up
    /\ UpdateState(link, online, failures)
    /\ UNCHANGED <<link, up, rows, created, proc, central, told>>

-----------------------------------------------------------------------------
(* The proxy                                                                *)

\* An operation reported while the agent believes itself offline is queued.
Queue(op) ==
    /\ up
    /\ told[op] = "nothing"
    /\ ~online
    /\ rows' = [rows EXCEPT ![op] = [status |-> "pending", attempts |-> 0]]
    /\ created' = Append(created, op)
    /\ told' = [told EXCEPT ![op] = "queued"]
    /\ UNCHANGED <<link, up, monitor, wake, proc, central>>

\* The insert fails, and with it the node's request.
QueueRaises(op) ==
    /\ ThreadHops
    /\ up
    /\ told[op] = "nothing"
    /\ ~online
    /\ told' = [told EXCEPT ![op] = "refused"]
    /\ UNCHANGED <<link, up, monitor, wake, rows, created, proc, central>>

\* Sending op: it is applied and acknowledged, applied with the answer lost,
\* or not applied.
Send(op, ok) ==
    \/ /\ link
       /\ central' = Append(central, op)
       /\ ok \in BOOLEAN
    \/ /\ ~link \/ CentralRefuses
       /\ central' = central
       /\ ok = FALSE

\* Online, the operation is forwarded; an error is the node's to handle.
Forward(op) ==
    /\ up
    /\ told[op] = "nothing"
    /\ online
    /\ \E ok \in BOOLEAN :
         /\ Send(op, ok)
         /\ told' = [told EXCEPT ![op] = IF ok THEN "done" ELSE "refused"]
    /\ UNCHANGED <<link, up, monitor, wake, rows, created, proc>>

-----------------------------------------------------------------------------
(* The queue processor                                                      *)

Processor == <<link, up, monitor, created, told>>

\* The delayed task: it processes if the agent is online and not processing.
Wake ==
    /\ up
    /\ wake
    /\ wake' = FALSE
    /\ proc' = IF online /\ proc.phase = "idle"
               THEN [proc EXCEPT !.phase = "loop"] ELSE proc
    /\ UNCHANGED <<Processor, rows, central>>

\* Mutation: peek also returns the rows that failed.
PendingOpsAny == {op \in Ops : rows[op].status \in {"pending", "failed"}}

\* The rows with status 'pending'.
PendingOps == {op \in Ops : rows[op].status = "pending"}

\* peek(limit): the oldest pending rows.
Peek ==
    {[op |-> op, attempts |-> rows[op].attempts] : op \in
        {p \in PendingOps :
            Cardinality({q \in PendingOps : Before(q, p)}) < BatchSize}}

\* The head of the while loop.
NextBatch ==
    /\ At("loop")
    /\ proc' = IF online /\ Peek # {}
               THEN [proc EXCEPT !.phase = "batch", !.batch = Peek]
               ELSE IdleProgress
    /\ UNCHANGED <<Processor, wake, rows, central>>

\* The for loop ends with the batch, or because the agent went offline.
EndBatch ==
    /\ At("batch")
    /\ proc.batch = {} \/ ~online
    /\ proc' = [proc EXCEPT !.phase = "loop", !.batch = {}]
    /\ UNCHANGED <<Processor, wake, rows, central>>

\* The next item of the batch: the oldest.
IsNext(item) ==
    item \in proc.batch /\ \A other \in proc.batch : ~Before(other.op, item.op)

\* Mutation: the row is deleted before it is sent.
MarkProcessingTakes ==
    /\ At("batch")
    /\ online
    /\ \E item \in proc.batch :
         /\ IsNext(item)
         /\ rows' = [rows EXCEPT ![item.op].status = "absent"]
         /\ proc' = [proc EXCEPT !.phase = "sending", !.item = item,
                                 !.batch = @ \ {item}]
    /\ UNCHANGED <<Processor, wake, central>>

\* mark_processing of the next item.
MarkProcessing ==
    /\ At("batch")
    /\ online
    /\ \E item \in proc.batch :
         /\ IsNext(item)
         /\ rows' = [rows EXCEPT ![item.op] =
                       [status |-> "processing", attempts |-> @.attempts + 1]]
         /\ proc' = [proc EXCEPT !.phase = "sending", !.item = item,
                                 !.batch = @ \ {item}]
    /\ UNCHANGED <<Processor, wake, central>>

\* _process_registration, _process_state_update, _process_event.
SendItem ==
    /\ At("sending")
    /\ \E ok \in BOOLEAN :
         /\ Send(proc.item.op, ok)
         /\ proc' = [proc EXCEPT !.phase = "sent", !.ok = ok]
    /\ UNCHANGED <<Processor, wake, rows>>

\* Mutation: the limit is compared one too late.
SettledLate(row, item, ok) ==
    IF ok THEN [status |-> "absent", attempts |-> 0]
    ELSE [row EXCEPT !.status =
            IF item.attempts > MaxRetries THEN "failed" ELSE "pending"]

\* What becomes of the row: dequeue, mark_failed or mark_pending, by the
\* attempts read before this one was counted.
Settled(row, item, ok) ==
    IF ok THEN [status |-> "absent", attempts |-> 0]
    ELSE [row EXCEPT !.status =
            IF item.attempts >= MaxRetries THEN "failed" ELSE "pending"]

SettleItem ==
    /\ At("sent")
    /\ rows' = [rows EXCEPT ![proc.item.op] = Settled(@, proc.item, proc.ok)]
    /\ proc' = [proc EXCEPT !.phase = "batch", !.item = NoItem, !.ok = FALSE]
    /\ UNCHANGED <<Processor, wake, central>>

\* dequeue fails and the except branch treats the item as not sent.
DequeueRaises ==
    /\ ThreadHops
    /\ At("sent")
    /\ proc.ok
    /\ rows' = [rows EXCEPT ![proc.item.op] = Settled(@, proc.item, FALSE)]
    /\ proc' = [proc EXCEPT !.phase = "batch", !.item = NoItem, !.ok = FALSE]
    /\ UNCHANGED <<Processor, wake, central>>

\* Any other statement fails and ends process_queue.
ProcessingRaises ==
    /\ ThreadHops
    /\ At("loop") \/ At("batch") \/ At("sent")
    /\ proc' = IdleProgress
    /\ UNCHANGED <<Processor, wake, rows, central>>

-----------------------------------------------------------------------------
(* Stopping and starting                                                    *)

\* The process ends; the tables stay.
Crash ==
    /\ Crashes
    /\ up
    /\ up' = FALSE
    /\ wake' = FALSE
    /\ proc' = IdleProgress
    /\ UNCHANGED <<link, monitor, rows, created, central, told>>

\* ConnectivityMonitor.start with its first check, then QueueProcessor.start.
Restart ==
    /\ ~up
    /\ up' = TRUE
    /\ failures' = IF link THEN 0 ELSE 1
    /\ online' = (link \/ FailureThreshold > 1)
    /\ wake' = online'
    /\ UNCHANGED <<link, rows, created, proc, central, told>>

Next ==
    \/ LinkChanges
    \/ CheckConnectivity
    \/ \E op \in Ops : Queue(op) \/ QueueRaises(op) \/ Forward(op)
    \/ Wake \/ NextBatch \/ EndBatch
    \/ MarkProcessing \/ SendItem \/ SettleItem
    \/ DequeueRaises \/ ProcessingRaises
    \/ Crash \/ Restart

Spec == Init /\ [][Next]_vars

\* The event loop runs every task that is ready; the agent is started again.
Fairness ==
    /\ WF_vars(CheckConnectivity)
    /\ WF_vars(Wake)
    /\ WF_vars(NextBatch)
    /\ WF_vars(EndBatch)
    /\ WF_vars(MarkProcessing)
    /\ WF_vars(SendItem)
    /\ WF_vars(SettleItem)
    /\ WF_vars(Restart)

FairSpec == Spec /\ Fairness

-----------------------------------------------------------------------------
(* Properties                                                               *)

\* Every variable has its type.
TypeOK ==
    /\ link \in BOOLEAN /\ up \in BOOLEAN /\ online \in BOOLEAN /\ wake \in BOOLEAN
    /\ failures \in 0..FailureThreshold
    /\ rows \in [Ops -> Row]
    /\ created \in Seq(Ops)
    /\ proc \in Progress
    /\ central \in Seq(Ops)
    /\ told \in [Ops -> {"nothing", "queued", "done", "refused"}]

\* An operation the node was told is queued is in the table, or the central
\* controller has applied it, through lost answers, retries and crashes; no
\* other operation is in the table.
QueuedIsNotLost ==
    \A op \in Ops :
        IF told[op] = "queued" THEN rows[op].status # "absent" \/ Applied(op)
                               ELSE rows[op].status = "absent"

\* An operation is sent at most once more than queue_max_retries says, and is
\* given up only then.
RetriesBounded ==
    \A op \in Ops :
        /\ rows[op].status = "pending" => rows[op].attempts <= MaxRetries
        /\ rows[op].attempts <= MaxRetries + 1
        /\ rows[op].status = "failed" => rows[op].attempts = MaxRetries + 1

\* What process_queue remembers of the table is what the table holds: the item
\* it sends is the row marked processing, with one attempt more, an answer it
\* has taken for a success was one, and the rest of its batch is still pending.
BatchIsCurrent ==
    /\ proc.item # NoItem <=> proc.phase \in {"sending", "sent"}
    /\ proc.item # NoItem =>
         rows[proc.item.op] = [status |-> "processing",
                               attempts |-> proc.item.attempts + 1]
    /\ proc.phase = "sent" /\ proc.ok => Applied(proc.item.op)
    /\ \A item \in proc.batch :
         rows[item.op] = [status |-> "pending", attempts |-> item.attempts]

\* If from some time on the agent runs and the central controller is reachable,
\* every queued operation leaves the queue or is given up.
QueuedIsSettled ==
    <>[](link /\ up) => \A op \in Ops :
        told[op] = "queued" ~> rows[op].status \in {"absent", "failed"}
=============================================================================
