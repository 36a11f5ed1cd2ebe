-------------------------- MODULE AgentQueueProofs --------------------------
(***************************************************************************)
(* Theorems about AgentQueue, for any set of operations, thresholds, retry *)
(* limits and batch sizes, with crashes and failing statements.  The       *)
(* invariant joins TypeOK, QueuedIsNotLost, RetriesBounded and             *)
(* BatchIsCurrent: an item is deleted only when what the processor         *)
(* remembers of its answer is true.                                        *)
(***************************************************************************)
EXTENDS AgentQueue, TLAPS

IInv == TypeOK /\ QueuedIsNotLost /\ RetriesBounded /\ BatchIsCurrent

\* What the central controller has applied it keeps.
LEMMA AppliedGrows ==
    ASSUME TypeOK, NEW op, NEW new \in Ops,
           central' = central \/ central' = Append(central, new)
    PROVE  /\ Applied(op) => Applied(op)'
           /\ central' = Append(central, new) => Applied(new)'
           /\ central' \in Seq(Ops)
<1>1. central \in Seq(Ops)
  BY DEF TypeOK
<1>2. CASE central' = central
  BY <1>1, <1>2 DEF Applied
<1>3. CASE central' = Append(central, new)
  BY <1>1, <1>3 DEF Applied
<1> QED
  BY <1>2, <1>3

\* A step that changes neither the table nor the work of the processor.
LEMMA OutsideStep ==
    ASSUME IInv, TypeOK', UNCHANGED <<rows, proc>>,
           \A op \in Ops : Applied(op) => Applied(op)',
           \A op \in Ops : told'[op] = "queued" <=> told[op] = "queued"
    PROVE  IInv'
<1>1. QueuedIsNotLost'
  BY DEF IInv, QueuedIsNotLost
<1>2. RetriesBounded'
  BY DEF IInv, RetriesBounded
<1>3. BatchIsCurrent'
  <2>1. proc.item # NoItem => proc.item.op \in Ops
    BY DEF IInv, TypeOK, Progress, Item
  <2> QED
    BY <2>1, NoItemAssumption DEF IInv, BatchIsCurrent
<1> QED
  BY <1>1, <1>2, <1>3 DEF IInv

\* A step that leaves table, answers and central alone and makes the processor
\* forget what it was doing.
LEMMA ForgetStep ==
    ASSUME IInv, TypeOK', UNCHANGED <<rows, central, told>>,
           proc'.item = NoItem, proc'.batch = {},
           proc'.phase \notin {"sending", "sent"}
    PROVE  IInv'
<1>1. QueuedIsNotLost'
  BY DEF IInv, QueuedIsNotLost, Applied
<1>2. RetriesBounded'
  BY DEF IInv, RetriesBounded
<1>3. BatchIsCurrent'
  BY DEF BatchIsCurrent
<1> QED
  BY <1>1, <1>2, <1>3 DEF IInv

\* What the processor remembers is typed.
LEMMA ItemTyped ==
    ASSUME IInv
    PROVE  /\ \A item \in proc.batch : item.op \in Ops /\ item.attempts \in Nat
           /\ proc.item # NoItem => /\ proc.item \in Item
                                   /\ proc.item.op \in Ops
                                   /\ proc.item.attempts \in Nat
           /\ \A op \in Ops : rows[op] \in Row /\ rows[op].attempts \in Nat
BY DEF IInv, TypeOK, Progress, Item, Row

LEMMA IdleTyped ==
    /\ IdleProgress \in Progress
    /\ IdleProgress.phase = "idle"
    /\ IdleProgress.batch = {}
    /\ IdleProgress.item = NoItem
BY DEF IdleProgress, Progress

LEMMA InitIInv == Init => IInv
<1> SUFFICES ASSUME Init PROVE IInv
  OBVIOUS
<1>1. TypeOK
  BY BoundsAssumption DEF Init, TypeOK, Row, Progress, IdleProgress
<1>2. QueuedIsNotLost
  BY DEF Init, QueuedIsNotLost
<1>3. RetriesBounded
  BY BoundsAssumption DEF Init, RetriesBounded
<1>4. BatchIsCurrent
  BY DEF Init, BatchIsCurrent, IdleProgress
<1> QED
  BY <1>1, <1>2, <1>3, <1>4 DEF IInv

LEMMA LinkChangesStep ==
    ASSUME IInv, LinkChanges PROVE IInv'
<1>1. TypeOK'
  BY DEF IInv, TypeOK, LinkChanges, monitor
<1> QED
  BY <1>1, OutsideStep DEF LinkChanges, Applied

LEMMA CheckConnectivityStep ==
    ASSUME IInv, CheckConnectivity PROVE IInv'
<1>1. failures' \in 0..FailureThreshold
  <2>1. CASE link
    BY <2>1, BoundsAssumption DEF IInv, TypeOK, CheckConnectivity, UpdateState
  <2>2. CASE ~link
    BY <2>2, BoundsAssumption DEF IInv, TypeOK, CheckConnectivity, UpdateState
  <2> QED
    BY <2>1, <2>2
<1>3. online' \in BOOLEAN /\ wake' \in BOOLEAN
  <2>1. CASE link
    BY <2>1 DEF IInv, TypeOK, CheckConnectivity, UpdateState
  <2>2. CASE ~link
    BY <2>2 DEF IInv, TypeOK, CheckConnectivity, UpdateState
  <2> QED
    BY <2>1, <2>2
<1>2. TypeOK'
  BY <1>1, <1>3 DEF IInv, TypeOK, CheckConnectivity
<1> QED
  BY <1>2, OutsideStep DEF CheckConnectivity, Applied

\* A row inserted now is of no item the processor holds.
LEMMA QueueStep ==
    ASSUME IInv, NEW op \in Ops, Queue(op) PROVE IInv'
<1>1. TypeOK'
  BY DEF IInv, TypeOK, Queue, monitor, Row
<1>2. rows[op].status = "absent"
  BY DEF IInv, QueuedIsNotLost, Queue
<1>3. QueuedIsNotLost'
  BY DEF IInv, TypeOK, QueuedIsNotLost, Queue, Applied
<1>4. RetriesBounded'
  BY BoundsAssumption DEF IInv, TypeOK, RetriesBounded, Queue
<1>5. BatchIsCurrent'
  <2>1. \A item \in proc.batch : item.op # op
    <3>1. ASSUME NEW item \in proc.batch PROVE rows[item.op].status = "pending"
      <4>1. rows[item.op] = [status |-> "pending", attempts |-> item.attempts]
        BY DEF IInv, BatchIsCurrent
      <4> QED
        BY <4>1
    <3> QED
      BY <1>2, <3>1
  <2>2. proc.item # NoItem => proc.item.op # op
    BY <1>2 DEF IInv, BatchIsCurrent
  <2>3. \A o \in Ops : o # op => rows'[o] = rows[o]
    BY DEF IInv, TypeOK, Queue
  <2> QED
    BY <2>1, <2>2, <2>3, ItemTyped DEF IInv, BatchIsCurrent, Queue, Applied
<1> QED
  BY <1>1, <1>3, <1>4, <1>5 DEF IInv

LEMMA QueueRaisesStep ==
    ASSUME IInv, NEW op \in Ops, QueueRaises(op) PROVE IInv'
<1>1. TypeOK'
  BY DEF IInv, TypeOK, QueueRaises, monitor
<1>2. \A o \in Ops : told'[o] = "queued" <=> told[o] = "queued"
  BY DEF IInv, TypeOK, QueueRaises
<1> QED
  BY <1>1, <1>2, OutsideStep DEF QueueRaises, Applied

LEMMA ForwardStep ==
    ASSUME IInv, NEW op \in Ops, Forward(op) PROVE IInv'
<1>1. central' = central \/ central' = Append(central, op)
  BY DEF Forward, Send
<1>2. central' \in Seq(Ops) /\ \A o \in Ops : Applied(o) => Applied(o)'
  BY <1>1, AppliedGrows DEF IInv
<1>3. /\ told' \in [Ops -> {"nothing", "queued", "done", "refused"}]
      /\ \A o \in Ops : told'[o] = "queued" <=> told[o] = "queued"
  BY DEF IInv, TypeOK, Forward
<1>4. TypeOK'
  BY <1>2, <1>3 DEF IInv, TypeOK, Forward, monitor
<1> QED
  BY <1>2, <1>3, <1>4, OutsideStep DEF Forward

LEMMA WakeStep ==
    ASSUME IInv, Wake PROVE IInv'
<1>1. CASE online /\ proc.phase = "idle"
  <2>1. proc' = [proc EXCEPT !.phase = "loop"]
    BY <1>1 DEF Wake
  <2>2. proc' \in Progress
    BY <2>1 DEF IInv, TypeOK, Progress
  <2>3. TypeOK'
    BY <2>2 DEF IInv, TypeOK, Wake, Processor, monitor
  <2>4. proc.item = NoItem
    BY <1>1 DEF IInv, BatchIsCurrent
  <2>5. QueuedIsNotLost' /\ RetriesBounded'
    BY DEF IInv, QueuedIsNotLost, RetriesBounded, Wake, Processor, Applied
  <2>6. BatchIsCurrent'
    BY <2>1, <2>4 DEF IInv, TypeOK, Progress, BatchIsCurrent, Wake
  <2> QED
    BY <2>3, <2>5, <2>6 DEF IInv
<1>2. CASE ~(online /\ proc.phase = "idle")
  <2>1. TypeOK'
    BY <1>2 DEF IInv, TypeOK, Wake, Processor, monitor
  <2> QED
    BY <1>2, <2>1, OutsideStep DEF Wake, Processor, Applied
<1> QED
  BY <1>1, <1>2

\* What peek returns agrees with the table.
LEMMA PeekCurrent ==
    ASSUME TypeOK
    PROVE  /\ Peek \subseteq Item
           /\ \A item \in Peek :
                rows[item.op] = [status |-> "pending", attempts |-> item.attempts]
<1> SUFFICES ASSUME NEW item \in Peek
             PROVE  /\ item \in Item
                    /\ rows[item.op] = [status |-> "pending",
                                        attempts |-> item.attempts]
  OBVIOUS
<1>1. PICK op \in PendingOps : item = [op |-> op, attempts |-> rows[op].attempts]
  BY DEF Peek
<1>2. op \in Ops /\ rows[op] \in Row /\ rows[op].status = "pending"
  BY <1>1 DEF PendingOps, TypeOK
<1> QED
  BY <1>1, <1>2 DEF Item, Row

LEMMA NextBatchStep ==
    ASSUME IInv, NextBatch PROVE IInv'
<1>1. CASE online /\ Peek # {}
  <2>1. proc' = [proc EXCEPT !.phase = "batch", !.batch = Peek]
    BY <1>1 DEF NextBatch
  <2>2. proc' \in Progress
    BY <2>1, PeekCurrent DEF IInv, TypeOK, Progress
  <2>3. TypeOK'
    BY <2>2 DEF IInv, TypeOK, NextBatch, Processor, monitor
  <2>4. proc.item = NoItem
    BY DEF IInv, BatchIsCurrent, NextBatch, At
  <2>5. QueuedIsNotLost' /\ RetriesBounded'
    BY DEF IInv, QueuedIsNotLost, RetriesBounded, NextBatch, Processor, Applied
  <2>6. proc'.phase = "batch" /\ proc'.batch = Peek /\ proc'.item = NoItem
    BY <2>1, <2>4 DEF IInv, TypeOK, Progress
  <2>7. BatchIsCurrent'
    BY <2>6, PeekCurrent DEF IInv, BatchIsCurrent, NextBatch
  <2> QED
    BY <2>3, <2>5, <2>7 DEF IInv
<1>2. CASE ~(online /\ Peek # {})
  <2>1. proc' = IdleProgress
    BY <1>2 DEF NextBatch
  <2>2. TypeOK'
    BY <2>1, IdleTyped DEF IInv, TypeOK, NextBatch, Processor, monitor
  <2>3. /\ UNCHANGED <<rows, central, told>>
        /\ proc'.item = NoItem /\ proc'.batch = {} /\ proc'.phase = "idle"
    BY <2>1, IdleTyped DEF NextBatch, Processor
  <2> QED
    BY <2>2, <2>3, ForgetStep
<1> QED
  BY <1>1, <1>2

LEMMA EndBatchStep ==
    ASSUME IInv, EndBatch PROVE IInv'
<1>1. proc' \in Progress
  BY DEF IInv, TypeOK, EndBatch, Progress
<1>2. TypeOK'
  BY <1>1 DEF IInv, TypeOK, EndBatch, Processor, monitor
<1>3. proc.item = NoItem
  BY DEF IInv, BatchIsCurrent, EndBatch, At
<1>4. proc'.item = NoItem /\ proc'.batch = {} /\ proc'.phase = "loop"
  BY <1>3 DEF IInv, TypeOK, Progress, EndBatch
<1> QED
  BY <1>2, <1>4, ForgetStep DEF EndBatch, Processor

\* The row taken is the pending row of the batch, and no other item's.
LEMMA MarkProcessingStep ==
    ASSUME IInv, MarkProcessing PROVE IInv'
<1>1. PICK item \in proc.batch :
        /\ rows' = [rows EXCEPT ![item.op] =
                      [status |-> "processing", attempts |-> @.attempts + 1]]
        /\ proc' = [proc EXCEPT !.phase = "sending", !.item = item,
                                !.batch = @ \ {item}]
  BY DEF MarkProcessing
<1>2. /\ item \in Item /\ item.op \in Ops /\ item.attempts \in Nat
      /\ rows[item.op] = [status |-> "pending", attempts |-> item.attempts]
  BY DEF IInv, TypeOK, Progress, Item, BatchIsCurrent
<1>3. /\ rows'[item.op] = [status |-> "processing", attempts |-> item.attempts + 1]
      /\ rows' \in [Ops -> Row]
      /\ \A op \in Ops : op # item.op => rows'[op] = rows[op]
  BY <1>1, <1>2 DEF IInv, TypeOK, Row
<1>4. /\ proc' \in Progress
      /\ proc'.phase = "sending" /\ proc'.item = item
      /\ proc'.batch = proc.batch \ {item}
  BY <1>1, <1>2 DEF IInv, TypeOK, Progress
<1>5. TypeOK'
  BY <1>3, <1>4 DEF IInv, TypeOK, MarkProcessing, Processor, monitor
<1>6. QueuedIsNotLost'
  BY <1>2, <1>3 DEF IInv, QueuedIsNotLost, MarkProcessing, Processor, Applied
<1>7. RetriesBounded'
  BY <1>2, <1>3, BoundsAssumption DEF IInv, RetriesBounded
<1>8. BatchIsCurrent'
  <2>1. item # NoItem
    BY <1>2, NoItemAssumption
  <2>2. ASSUME NEW other \in proc.batch, other # item
        PROVE  other.op # item.op /\ other.op \in Ops
    <3>1. /\ other \in Item /\ other.attempts \in Nat /\ other.op \in Ops
          /\ rows[other.op] = [status |-> "pending", attempts |-> other.attempts]
      BY DEF IInv, TypeOK, Progress, Item, BatchIsCurrent
    <3> QED
      BY <1>2, <2>2, <3>1 DEF Item
  <2> QED
    BY <1>3, <1>4, <2>1, <2>2 DEF IInv, BatchIsCurrent
<1> QED
  BY <1>5, <1>6, <1>7, <1>8 DEF IInv

LEMMA SendItemStep ==
    ASSUME IInv, SendItem PROVE IInv'
<1>1. PICK ok \in BOOLEAN :
        Send(proc.item.op, ok) /\ proc' = [proc EXCEPT !.phase = "sent", !.ok = ok]
  BY DEF SendItem
<1>2. proc.item # NoItem /\ proc.item.op \in Ops
  BY ItemTyped DEF IInv, BatchIsCurrent, SendItem, At
<1>3. /\ central' = central \/ central' = Append(central, proc.item.op)
      /\ ok => central' = Append(central, proc.item.op)
  BY <1>1 DEF Send
<1>4. /\ central' \in Seq(Ops)
      /\ \A op \in Ops : Applied(op) => Applied(op)'
      /\ central' = Append(central, proc.item.op) =>
            \E i \in DOMAIN central' : central'[i] = proc.item.op
  <2>1. PICK new \in Ops : new = proc.item.op
    BY <1>2
  <2>2. TypeOK /\ (central' = central \/ central' = Append(central, new))
    BY <1>3, <2>1 DEF IInv
  <2>3. /\ central' \in Seq(Ops)
        /\ \A op \in Ops : Applied(op) => Applied(op)'
        /\ central' = Append(central, new) => Applied(new)'
    BY <2>2, AppliedGrows
  <2> QED
    BY <2>1, <2>3 DEF Applied
<1>5. /\ proc' \in Progress
      /\ proc'.phase = "sent" /\ proc'.ok = ok
      /\ proc'.item = proc.item /\ proc'.batch = proc.batch
  BY <1>1 DEF IInv, TypeOK, Progress
<1>6. TypeOK'
  BY <1>4, <1>5 DEF IInv, TypeOK, SendItem, Processor, monitor
<1>7. QueuedIsNotLost' /\ RetriesBounded'
  BY <1>4 DEF IInv, QueuedIsNotLost, RetriesBounded, SendItem, Processor
<1>8. BatchIsCurrent'
  BY <1>2, <1>3, <1>4, <1>5 DEF IInv, BatchIsCurrent, SendItem, Applied
<1> QED
  BY <1>6, <1>7, <1>8 DEF IInv

\* The row of a settled item: deleted only after a success, failed only after
\* MaxRetries + 1 attempts.
LEMMA SettledRow ==
    ASSUME NEW n \in Nat, n <= MaxRetries, NEW ok \in BOOLEAN,
           NEW item, item.attempts = n,
           NEW row, row = [status |-> "processing", attempts |-> n + 1]
    PROVE  LET new == Settled(row, item, ok) IN
           /\ new \in Row
           /\ ok <=> new.status = "absent"
           /\ new.status = "pending" => new.attempts <= MaxRetries
           /\ new.attempts <= MaxRetries + 1
           /\ new.status = "failed" => new.attempts = MaxRetries + 1
<1>1. CASE ok
  BY <1>1, BoundsAssumption DEF Settled, Row
<1>2. CASE ~ok /\ n >= MaxRetries
  BY <1>2, BoundsAssumption DEF Settled, Row
<1>3. CASE ~ok /\ n < MaxRetries
  BY <1>3, BoundsAssumption DEF Settled, Row
<1> QED
  BY <1>1, <1>2, <1>3, BoundsAssumption

\* Settling the item with the answer ok, which is a success only if it was one.
LEMMA SettleStep ==
    ASSUME IInv, At("sent"), NEW ok \in BOOLEAN, ok => proc.ok,
           rows' = [rows EXCEPT ![proc.item.op] = Settled(@, proc.item, ok)],
           proc' = [proc EXCEPT !.phase = "batch", !.item = NoItem, !.ok = FALSE],
           UNCHANGED <<Processor, wake, central>>
    PROVE  IInv'
<1>1. /\ proc.item # NoItem /\ proc.item.op \in Ops /\ proc.item.attempts \in Nat
      /\ rows[proc.item.op] = [status |-> "processing",
                               attempts |-> proc.item.attempts + 1]
      /\ ok => Applied(proc.item.op)
  BY ItemTyped DEF IInv, BatchIsCurrent, At
<1>2. proc.item.attempts <= MaxRetries
  BY <1>1, BoundsAssumption DEF IInv, RetriesBounded
<1> DEFINE new == Settled(rows[proc.item.op], proc.item, ok)
<1>3. /\ new \in Row
      /\ ok <=> new.status = "absent"
      /\ new.status = "pending" => new.attempts <= MaxRetries
      /\ new.attempts <= MaxRetries + 1
      /\ new.status = "failed" => new.attempts = MaxRetries + 1
  BY <1>1, <1>2, SettledRow
<1>4. rows' = [rows EXCEPT ![proc.item.op] = new]
  OBVIOUS
<1> HIDE DEF new
<1>5. /\ rows'[proc.item.op] = new
      /\ rows' \in [Ops -> Row]
      /\ \A op \in Ops : op # proc.item.op => rows'[op] = rows[op]
  BY <1>1, <1>3, <1>4 DEF IInv, TypeOK
<1>6. /\ proc' \in Progress
      /\ proc'.phase = "batch" /\ proc'.item = NoItem /\ proc'.batch = proc.batch
  BY DEF IInv, TypeOK, Progress
<1>7. TypeOK'
  BY <1>5, <1>6 DEF IInv, TypeOK, Processor, monitor
<1>8. QueuedIsNotLost'
  <2>1. told[proc.item.op] = "queued"
    BY <1>1 DEF IInv, QueuedIsNotLost
  <2>2. told' = told /\ central' = central
    BY DEF Processor
  <2>3. ASSUME NEW op \in Ops
        PROVE  IF told[op] = "queued" THEN rows'[op].status # "absent" \/ Applied(op)
                                      ELSE rows'[op].status = "absent"
    <3>1. CASE op = proc.item.op
      BY <1>1, <1>3, <1>5, <2>1, <3>1
    <3>2. CASE op # proc.item.op
      BY <1>5, <3>2 DEF IInv, QueuedIsNotLost
    <3> QED
      BY <3>1, <3>2
  <2> QED
    BY <2>2, <2>3 DEF QueuedIsNotLost, Applied
<1>9. RetriesBounded'
  <2>1. ASSUME NEW op \in Ops
        PROVE  /\ rows'[op].status = "pending" => rows'[op].attempts <= MaxRetries
               /\ rows'[op].attempts <= MaxRetries + 1
               /\ rows'[op].status = "failed" => rows'[op].attempts = MaxRetries + 1
    <3>1. CASE op = proc.item.op
      BY <1>3, <1>5, <3>1
    <3>2. CASE op # proc.item.op
      BY <1>5, <3>2 DEF IInv, RetriesBounded
    <3> QED
      BY <3>1, <3>2
  <2> QED
    BY <2>1 DEF RetriesBounded
<1>10. BatchIsCurrent'
  <2>1. ASSUME NEW item \in proc.batch
        PROVE  rows'[item.op] = [status |-> "pending", attempts |-> item.attempts]
    <3>1. /\ item.op \in Ops
          /\ rows[item.op] = [status |-> "pending", attempts |-> item.attempts]
      BY ItemTyped DEF IInv, BatchIsCurrent
    <3>2. rows[item.op].status = "pending" /\ rows[proc.item.op].status = "processing"
      BY <1>1, <3>1
    <3> QED
      BY <1>5, <3>1, <3>2
  <2> QED
    BY <1>6, <2>1 DEF BatchIsCurrent
<1> QED
  BY <1>7, <1>8, <1>9, <1>10 DEF IInv

LEMMA SettleItemStep ==
    ASSUME IInv, SettleItem PROVE IInv'
<1>1. proc.ok \in BOOLEAN
  BY DEF IInv, TypeOK, Progress
<1>2. PICK ok \in BOOLEAN : ok = proc.ok
  BY <1>1
<1> QED
  BY <1>2, SettleStep DEF SettleItem

LEMMA DequeueRaisesStep ==
    ASSUME IInv, DequeueRaises PROVE IInv'
<1>1. PICK ok \in BOOLEAN : ok = FALSE
  OBVIOUS
<1> QED
  BY <1>1, SettleStep DEF DequeueRaises

LEMMA ProcessingRaisesStep ==
    ASSUME IInv, ProcessingRaises PROVE IInv'
<1>1. proc' = IdleProgress
  BY DEF ProcessingRaises
<1>2. TypeOK'
  BY <1>1, IdleTyped DEF IInv, TypeOK, ProcessingRaises, Processor, monitor
<1>3. /\ UNCHANGED <<rows, central, told>>
      /\ proc'.item = NoItem /\ proc'.batch = {} /\ proc'.phase = "idle"
  BY <1>1, IdleTyped DEF ProcessingRaises, Processor
<1> QED
  BY <1>2, <1>3, ForgetStep

LEMMA CrashStep ==
    ASSUME IInv, Crash PROVE IInv'
<1>1. proc' = IdleProgress
  BY DEF Crash
<1>2. TypeOK'
  BY <1>1, IdleTyped DEF IInv, TypeOK, Crash, monitor
<1>3. /\ UNCHANGED <<rows, central, told>>
      /\ proc'.item = NoItem /\ proc'.batch = {} /\ proc'.phase = "idle"
  BY <1>1, IdleTyped DEF Crash
<1> QED
  BY <1>2, <1>3, ForgetStep

LEMMA RestartStep ==
    ASSUME IInv, Restart PROVE IInv'
<1>1. failures' \in 0..FailureThreshold
  BY BoundsAssumption DEF IInv, TypeOK, Restart
<1>2. online' \in BOOLEAN
  BY DEF Restart
<1>3. wake' \in BOOLEAN
  BY <1>2 DEF Restart
<1>4. TypeOK'
  BY <1>1, <1>2, <1>3 DEF IInv, TypeOK, Restart
<1> QED
  BY <1>4, OutsideStep DEF Restart, Applied

LEMMA NextIInv == IInv /\ [Next]_vars => IInv'
<1> SUFFICES ASSUME IInv, [Next]_vars PROVE IInv'
  OBVIOUS
<1>1. CASE LinkChanges
  BY <1>1, LinkChangesStep
<1>2. CASE CheckConnectivity
  BY <1>2, CheckConnectivityStep
<1>3. ASSUME NEW op \in Ops, Queue(op) \/ QueueRaises(op) \/ Forward(op)
      PROVE  IInv'
  BY <1>3, QueueStep, QueueRaisesStep, ForwardStep
<1>4. CASE Wake \/ NextBatch \/ EndBatch
  BY <1>4, WakeStep, NextBatchStep, EndBatchStep
<1>5. CASE MarkProcessing \/ SendItem \/ SettleItem
  BY <1>5, MarkProcessingStep, SendItemStep, SettleItemStep
<1>6. CASE DequeueRaises \/ ProcessingRaises
  BY <1>6, DequeueRaisesStep, ProcessingRaisesStep
<1>7. CASE Crash \/ Restart
  BY <1>7, CrashStep, RestartStep
<1>8. CASE UNCHANGED vars
  BY <1>8 DEF vars, IInv, TypeOK, QueuedIsNotLost, RetriesBounded, BatchIsCurrent,
              Applied
<1> QED
  BY <1>1, <1>2, <1>3, <1>4, <1>5, <1>6, <1>7, <1>8 DEF Next

\* The invariant holds, whatever crashes, refusals and failing statements.
THEOREM InvariantHolds == Spec => []IInv
BY InitIInv, NextIInv, PTL DEF Spec

\* The queue's table and the processor's progress keep their types.
THEOREM TypeCorrect == Spec => []TypeOK
<1>1. IInv => TypeOK
  BY DEF IInv
<1> QED
  BY <1>1, InvariantHolds, PTL

\* No operation acknowledged as queued disappears before the central controller
\* has applied it: dequeue runs only after a success.
THEOREM QueuedNotLost == Spec => []QueuedIsNotLost
<1>1. IInv => QueuedIsNotLost
  BY DEF IInv
<1> QED
  BY <1>1, InvariantHolds, PTL

\* The processor sends an operation at most MaxRetries + 1 times from one row,
\* and gives it up only after the last of them.
THEOREM RetriesLimited == Spec => []RetriesBounded
<1>1. IInv => RetriesBounded
  BY DEF IInv
<1> QED
  BY <1>1, InvariantHolds, PTL

\* What process_queue read of the table before its awaits is still so when it
\* acts on it.
THEOREM BatchCurrent == Spec => []BatchIsCurrent
<1>1. IInv => BatchIsCurrent
  BY DEF IInv
<1> QED
  BY <1>1, InvariantHolds, PTL
=============================================================================
