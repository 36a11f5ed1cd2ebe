--------------------------- MODULE StorageProofs ----------------------------
(***************************************************************************)
(* Proofs about what changes disks and copies of them: clone sessions      *)
(* (CloneSessions) and their resize plans (ResizePlan), partition          *)
(* operations (PartitionOps), the sync jobs of the storage backends        *)
(* (SyncJobs) and the streams of stored files (Throttle), for any          *)
(* machines, operations, jobs, runs, streams, limits and sizes.            *)
(***************************************************************************)
EXTENDS CloneSessions, ResizePlan, PartitionOps, SyncJobs, Throttle,
        FiniteSetTheorems, WellFoundedInduction, TLAPS

-----------------------------------------------------------------------------
(***************************************************************************)
(* CloneSessions: a clone session shows what its scripts did, for any      *)
(* targets and any size of the disk, through reports that are lost,        *)
(* repeated and flushed late.                                              *)
(*                                                                         *)
(* SessionIsTrue is not inductive: it has to be known of the reports still *)
(* in the queues that what they say is true, and will be for good.         *)
(***************************************************************************)

\* What a row says is true of the image im and the copy dk on the disk.
RowSound(row, im, dk) ==
    /\ row \in SessionRow
    /\ row.status = "completed" => dk # "none"
    /\ row.staging = "ready" => im # "none"
    /\ row.status \in {"source_ready", "cloning"} => row.known

\* So is what a report says.
ReportSound(r, im, dk) ==
    /\ r \in Reports
    /\ r.kind = "complete" => dk # "none"
    /\ r.kind = "staging" /\ r.status = "ready" => im # "none"

SourceSound(s, im, dk) ==
    /\ s \in [step : {"start", "serving", "uploading", "done"}, queue : SUBSET Reports]
    /\ \A r \in s.queue : ReportSound(r, im, dk)

TargetSound(t, im, dk, mode) ==
    /\ t \in [step : {"wait", "copy", "done"}, bytes : 0..MaxProgress, queue : SUBSET Reports]
    /\ \A r \in t.queue : ReportSound(r, im, dk)
    /\ t.step = "copy" /\ mode = "staged" => im # "none"

CloneInv ==
    /\ image \in Copies /\ disk \in Copies /\ link \in BOOLEAN
    /\ told \in Targets \union {NoTarget} /\ patch \in Targets \union {NoTarget}
    /\ RowSound(session, image, disk)
    /\ SourceSound(source, image, disk)
    /\ TargetSound(target, image, disk, session.mode)

-----------------------------------------------------------------------------
(* Reports and rows                                                         *)

\* clone_source_ready keeps a row true.
LEMMA SourceReadySound ==
  ASSUME NEW im \in Copies, NEW dk \in Copies, NEW row, RowSound(row, im, dk)
  PROVE  LET new == SourceReady(row) IN
         /\ RowSound(new, im, dk)
         /\ new.mode = row.mode /\ new.target = row.target
  BY DEF RowSound, SessionRow, SourceReady, CloneStatuses

\* clone_progress keeps a row true: "cloning" is reached from "source_ready" only.
LEMMA ProgressSound ==
  ASSUME NEW im \in Copies, NEW dk \in Copies, NEW row, RowSound(row, im, dk),
         NEW n \in 0..MaxProgress
  PROVE  LET new == CloneProgress(row, n) IN
         /\ RowSound(new, im, dk)
         /\ new.mode = row.mode /\ new.target = row.target
  BY DEF RowSound, SessionRow, CloneProgress, CloneStatuses

\* clone_complete keeps a row true if the disk holds the copy.
LEMMA CompleteSound ==
  ASSUME NEW im \in Copies, NEW dk \in Copies, NEW row, RowSound(row, im, dk), dk # "none"
  PROVE  LET new == CloneComplete(row) IN
         /\ RowSound(new, im, dk)
         /\ new.mode = row.mode /\ new.target = row.target
  <1> DEFINE n == IF row.known THEN MaxProgress ELSE row.bytes
  <1>1. n \in 0..MaxProgress
    BY CloneAssumption DEF RowSound, SessionRow
  <1>2. CloneComplete(row) = [row EXCEPT !.status = "completed", !.ended = TRUE, !.bytes = n]
    BY DEF CloneComplete, RowSound, SessionRow
  <1> HIDE DEF n
  <1> QED BY <1>1, <1>2 DEF RowSound, SessionRow, CloneStatuses

\* clone_failed keeps a row true.
LEMMA FailedSound ==
  ASSUME NEW im \in Copies, NEW dk \in Copies, NEW row, RowSound(row, im, dk)
  PROVE  LET new == CloneFailed(row) IN
         /\ RowSound(new, im, dk)
         /\ new.mode = row.mode /\ new.target = row.target
  BY DEF RowSound, SessionRow, CloneFailed, CloneStatuses

\* update_staging_status keeps a row true if the image is there when it says so.
LEMMA StagingSound ==
  ASSUME NEW im \in Copies, NEW dk \in Copies, NEW row, RowSound(row, im, dk),
         NEW s \in {"uploading", "ready"}, s = "ready" => im # "none"
  PROVE  LET new == UpdateStagingStatus(row, s) IN
         /\ RowSound(new, im, dk)
         /\ new.mode = row.mode /\ new.target = row.target
  BY DEF RowSound, SessionRow, UpdateStagingStatus, CloneStatuses

\* Whatever report arrives, if it is true the row stays so; its mode and its
\* target stay.
LEMMA ApplySound ==
  ASSUME NEW im \in Copies, NEW dk \in Copies, NEW row, RowSound(row, im, dk),
         NEW r, ReportSound(r, im, dk)
  PROVE  /\ RowSound(Apply(row, r), im, dk)
         /\ Apply(row, r).mode = row.mode /\ Apply(row, r).target = row.target
  <1>1. \/ r.kind \in {"source_ready", "complete", "failed"}
        \/ r.kind = "progress" /\ r.bytes \in 0..MaxProgress
        \/ r.kind = "staging" /\ r.status \in {"uploading", "ready"}
    BY DEF ReportSound, Reports
  <1>2. CASE r.kind = "source_ready"
    <2>1. Apply(row, r) = SourceReady(row)
      BY <1>2 DEF Apply
    <2> QED BY <1>2, <2>1, SourceReadySound
  <1>3. CASE r.kind = "complete"
    <2>1. Apply(row, r) = CloneComplete(row)
      BY <1>3 DEF Apply
    <2>2. dk # "none"
      BY <1>3 DEF ReportSound
    <2> QED BY <1>3, <2>1, <2>2, CompleteSound
  <1>4. CASE r.kind = "failed"
    <2>1. Apply(row, r) = CloneFailed(row)
      BY <1>4 DEF Apply
    <2> QED BY <1>4, <2>1, FailedSound
  <1>5. CASE r.kind = "progress" /\ r.bytes \in 0..MaxProgress
    <2>1. Apply(row, r) = CloneProgress(row, r.bytes)
      BY <1>5 DEF Apply
    <2> QED BY <1>5, <2>1, ProgressSound
  <1>6. CASE r.kind = "staging" /\ r.status \in {"uploading", "ready"}
    <2>1. Apply(row, r) = UpdateStagingStatus(row, r.status)
      BY <1>6 DEF Apply
    <2>2. r.status = "ready" => im # "none"
      BY <1>6 DEF ReportSound
    <2> QED BY <1>6, <2>1, <2>2, StagingSound
  <1> QED BY <1>1, <1>2, <1>3, <1>4, <1>5, <1>6

\* What is true of image and disk stays so when they are completed.
LEMMA SoundStays ==
  ASSUME NEW im \in Copies, NEW dk \in Copies, NEW im2 \in Copies, NEW dk2 \in Copies,
         im # "none" => im2 # "none", dk # "none" => dk2 # "none"
  PROVE  /\ \A row : RowSound(row, im, dk) => RowSound(row, im2, dk2)
         /\ \A s : SourceSound(s, im, dk) => SourceSound(s, im2, dk2)
         /\ \A t, m : TargetSound(t, im, dk, m) => TargetSound(t, im2, dk2, m)
         /\ \A r : ReportSound(r, im, dk) => ReportSound(r, im2, dk2)
  BY DEF RowSound, SourceSound, TargetSound, ReportSound

\* The reports the scripts make.
LEMMA ReportsMade ==
  /\ Report("source_ready") \in Reports /\ Report("complete") \in Reports
  /\ Report("failed") \in Reports
  /\ Staging("uploading") \in Reports /\ Staging("ready") \in Reports
  /\ \A n \in 0..MaxProgress : Progressed(n) \in Reports
  BY DEF Report, Staging, Progressed, Reports

\* api_post of a true report keeps the row true, whether it arrives, arrives
\* without an answer, or does not.
LEMMA PostSound ==
  ASSUME NEW im \in Copies, NEW dk \in Copies, NEW r, NEW ok \in BOOLEAN,
         RowSound(session, im, dk), told \in Targets \union {NoTarget}, ReportSound(r, im, dk),
         Post(r, ok)
  PROVE  RowSound(session', im, dk) /\ told' \in Targets \union {NoTarget}
         /\ session'.mode = session.mode
  <1>1. CASE link /\ session.exists /\ ~CompletionRaises(session, r)
    <2>1. session' = Apply(session, r) /\ told' = Told(session, r, told)
      BY <1>1 DEF Post
    <2>2. RowSound(Apply(session, r), im, dk) /\ Apply(session, r).mode = session.mode
      BY ApplySound
    <2>3. Told(session, r, told) \in Targets \union {NoTarget}
      BY DEF RowSound, SessionRow, Told
    <2> QED BY <2>1, <2>2, <2>3
  <1>2. CASE ~(link /\ session.exists /\ ~CompletionRaises(session, r))
    BY <1>2 DEF Post
  <1> QED BY <1>1, <1>2

-----------------------------------------------------------------------------
(* The steps                                                                *)

\* A step of the source that makes a true report keeps the invariant.
LEMMA SourceReportKeeps ==
  ASSUME CloneInv, NEW r, NEW step \in {"serving", "uploading", "done"},
         SourceReports(r, step), image' \in Copies, image # "none" => image' # "none",
         ReportSound(r, image', disk)
  PROVE  CloneInv'
  <1>1. PICK ok \in BOOLEAN : Post(r, ok)
                /\ source' = [step |-> step, queue |-> Queued(source.queue, r, ok)]
    BY DEF SourceReports
  <1>2. patch' = patch /\ disk' = disk /\ target' = target /\ link' = link
    BY DEF SourceReports
  <1>3. /\ RowSound(session, image', disk) /\ SourceSound(source, image', disk)
        /\ TargetSound(target, image', disk, session.mode)
    BY SoundStays DEF CloneInv
  <1>4. RowSound(session', image', disk) /\ told' \in Targets \union {NoTarget} /\ session'.mode = session.mode
    BY <1>1, <1>3, PostSound DEF CloneInv
  <1>5. SourceSound(source', image', disk)
    BY <1>1, <1>3 DEF SourceSound, Queued, ReportSound
  <1> QED BY <1>2, <1>3, <1>4, <1>5 DEF CloneInv

\* So does one of the target, if the image is there when a staged copy begins.
LEMMA TargetReportKeeps ==
  ASSUME CloneInv, NEW r, NEW step \in {"copy", "done"}, NEW bytes \in 0..MaxProgress,
         TargetReports(r, step, bytes), disk' \in Copies, disk # "none" => disk' # "none",
         ReportSound(r, image, disk'),
         step = "copy" /\ session.mode = "staged" => image # "none"
  PROVE  CloneInv'
  <1>1. PICK ok \in BOOLEAN : Post(r, ok)
                /\ target' = [step |-> step, bytes |-> bytes, queue |-> Queued(target.queue, r, ok)]
    BY DEF TargetReports
  <1>2. patch' = patch /\ image' = image /\ source' = source /\ link' = link
    BY DEF TargetReports
  <1>3. /\ RowSound(session, image, disk') /\ SourceSound(source, image, disk')
        /\ TargetSound(target, image, disk', session.mode)
    BY SoundStays DEF CloneInv
  <1>4. RowSound(session', image, disk') /\ told' \in Targets \union {NoTarget} /\ session'.mode = session.mode
    BY <1>1, <1>3, PostSound DEF CloneInv
  <1>5. TargetSound(target', image, disk', session.mode)
    BY <1>1, <1>3 DEF TargetSound, Queued, ReportSound
  <1> QED BY <1>2, <1>3, <1>4, <1>5 DEF CloneInv

\* The source serves, uploads, ends or fails: "ready" is reported with the image.
LEMMA SourceKeeps ==
  ASSUME CloneInv, SourceServes \/ SourceUploads \/ SourceStages \/ SourceFails
  PROVE  CloneInv'
  <1>1. CASE SourceServes
    <2>1. ReportSound(Report("source_ready"), image, disk)
      BY ReportsMade DEF ReportSound, Report
    <2>2. SourceReports(Report("source_ready"), "serving") /\ image' = image
      BY <1>1 DEF SourceServes
    <2> QED BY <2>1, <2>2, SourceReportKeeps DEF CloneInv
  <1>2. CASE SourceUploads
    <2>1. ReportSound(Staging("uploading"), image, disk)
      BY ReportsMade DEF ReportSound, Staging
    <2>2. SourceReports(Staging("uploading"), "uploading") /\ image' = image
      BY <1>2 DEF SourceUploads
    <2> QED BY <2>1, <2>2, SourceReportKeeps DEF CloneInv
  <1>3. CASE SourceStages
    <2>1. SourceReports(Staging("ready"), "done") /\ image' \in Copies /\ image' # "none"
      BY <1>3 DEF SourceStages, Piped, Copies
    <2>2. ReportSound(Staging("ready"), image', disk)
      BY <2>1, ReportsMade DEF ReportSound, Staging
    <2> QED BY <2>1, <2>2, SourceReportKeeps
  <1>4. CASE SourceFails
    <2>1. ReportSound(Report("failed"), image, disk)
      BY ReportsMade DEF ReportSound, Report
    <2>2. SourceReports(Report("failed"), "done") /\ image' = image
      BY <1>4 DEF SourceFails
    <2> QED BY <2>1, <2>2, SourceReportKeeps DEF CloneInv
  <1> QED BY <1>1, <1>2, <1>3, <1>4

\* The target starts, copies, gives up or fails: it starts a staged copy only
\* when "ready" is in the row, which is true.
LEMMA TargetKeeps ==
  ASSUME CloneInv, TargetStarts \/ TargetGivesUp \/ TargetCopies \/ TargetFails
  PROVE  CloneInv'
  <1>0. target.bytes \in 0..MaxProgress /\ 0 \in 0..MaxProgress
    BY CloneAssumption DEF CloneInv, TargetSound
  <1>1. CASE TargetStarts
    <2>1. ReportSound(Progressed(0), image, disk)
      BY <1>0, ReportsMade DEF ReportSound, Progressed
    <2>2. TargetReports(Progressed(0), "copy", 0) /\ disk' = disk
      BY <1>1 DEF TargetStarts
    <2>3. session.mode = "staged" => image # "none"
      BY <1>1 DEF TargetStarts, ReadyToCopy, CloneInv, RowSound
    <2> QED BY <1>0, <2>1, <2>2, <2>3, TargetReportKeeps DEF CloneInv
  <1>2. CASE TargetGivesUp \/ TargetFails
    <2>1. ReportSound(Report("failed"), image, disk)
      BY ReportsMade DEF ReportSound, Report
    <2>2. TargetReports(Report("failed"), "done", target.bytes) /\ disk' = disk
      BY <1>2 DEF TargetGivesUp, TargetFails
    <2> QED BY <1>0, <2>1, <2>2, TargetReportKeeps DEF CloneInv
  <1>3. CASE TargetCopies
    <2>0. target.bytes + 1 \in 0..MaxProgress
      BY <1>0, <1>3, CloneAssumption DEF TargetCopies
    <2>1. ReportSound(Progressed(target.bytes + 1), image, disk)
      BY <2>0, ReportsMade DEF ReportSound, Progressed
    <2>2. TargetReports(Progressed(target.bytes + 1), "copy", target.bytes + 1) /\ disk' = disk
      BY <1>3 DEF TargetCopies
    <2>3. session.mode = "staged" => image # "none"
      BY <1>3 DEF TargetCopies, CloneInv, TargetSound
    <2> QED BY <2>0, <2>1, <2>2, <2>3, TargetReportKeeps DEF CloneInv
  <1> QED BY <1>1, <1>2, <1>3

\* The target reports "complete" with its disk written: a staged copy was made
\* from an image whose upload was over.
LEMMA CompletionKeeps ==
  ASSUME CloneInv, TargetCompletes
  PROVE  CloneInv'
  <1>1. session.mode \in {"direct", "staged"}
    BY DEF CloneInv, RowSound, SessionRow
  <1>2. disk' \in Copies /\ disk' # "none"
    BY <1>1 DEF CloneInv, TargetSound, TargetCompletes, Piped, PipedFrom, Copies
  <1>3. ReportSound(Report("complete"), image, disk')
    BY <1>2, ReportsMade DEF ReportSound, Report
  <1>4. TargetReports(Report("complete"), "done", target.bytes)
    BY DEF TargetCompletes
  <1>5. target.bytes \in 0..MaxProgress
    BY DEF CloneInv, TargetSound
  <1> QED BY <1>2, <1>3, <1>4, <1>5, TargetReportKeeps

\* flush_queue posts reports that are still true.
LEMMA CloneFlushKeeps ==
  ASSUME CloneInv, SourceFlushes \/ TargetFlushes
  PROVE  CloneInv'
  <1>1. CASE SourceFlushes
    <2>1. PICK r \in source.queue, ok \in BOOLEAN :
             /\ Post(r, ok)
             /\ source' = [source EXCEPT !.queue = IF ok THEN @ \ {r} ELSE @]
             /\ UNCHANGED <<patch, image, disk, target, link>>
      BY <1>1 DEF SourceFlushes
    <2>2. ReportSound(r, image, disk)
      BY DEF CloneInv, SourceSound
    <2>3. RowSound(session', image, disk) /\ told' \in Targets \union {NoTarget} /\ session'.mode = session.mode
      BY <2>1, <2>2, PostSound DEF CloneInv
    <2>4. SourceSound(source', image, disk)
      BY <2>1 DEF CloneInv, SourceSound
    <2> QED BY <2>1, <2>3, <2>4 DEF CloneInv
  <1>2. CASE TargetFlushes
    <2>1. PICK r \in target.queue, ok \in BOOLEAN :
             /\ Post(r, ok)
             /\ target' = [target EXCEPT !.queue = IF ok THEN @ \ {r} ELSE @]
             /\ UNCHANGED <<patch, image, disk, source, link>>
      BY <1>2 DEF TargetFlushes
    <2>2. ReportSound(r, image, disk)
      BY DEF CloneInv, TargetSound
    <2>3. RowSound(session', image, disk) /\ told' \in Targets \union {NoTarget} /\ session'.mode = session.mode
      BY <2>1, <2>2, PostSound DEF CloneInv
    <2>4. TargetSound(target', image, disk, session.mode)
      BY <2>1 DEF CloneInv, TargetSound
    <2> QED BY <2>1, <2>3, <2>4 DEF CloneInv
  <1> QED BY <1>1, <1>2

\* The admin changes the target of a session, starts it, or deletes or cancels
\* it: none of this says anything of the machines.
LEMMA CloneAdminKeeps ==
  ASSUME CloneInv,
         (\E t \in Targets : BeginUpdate(t)) \/ UpdateCloneSession
         \/ StartCloneSession \/ DeleteCloneSession
  PROVE  CloneInv'
  <1>1. /\ UNCHANGED <<told, image, disk, source, target, link>>
        /\ patch' \in Targets \union {NoTarget}
    BY DEF BeginUpdate, UpdateCloneSession, StartCloneSession, DeleteCloneSession, CloneInv
  <1>2. RowSound(session', image, disk) /\ session'.mode = session.mode
    <2>1. CASE \E t \in Targets : BeginUpdate(t)
      BY <2>1 DEF BeginUpdate, CloneInv
    <2>2. CASE UpdateCloneSession
      BY <2>2 DEF UpdateCloneSession, CloneInv, RowSound, SessionRow
    <2>3. CASE StartCloneSession
      BY <2>3 DEF StartCloneSession, CloneInv, RowSound, SessionRow
    <2>4. CASE DeleteCloneSession
      BY <2>4 DEF DeleteCloneSession, CloneInv, RowSound, SessionRow, CloneStatuses
    <2> QED BY <2>1, <2>2, <2>3, <2>4
  <1> QED BY <1>1, <1>2 DEF CloneInv

-----------------------------------------------------------------------------
\* The invariant holds of a session just created.
LEMMA CloneInitInv == CloneInit => CloneInv
  <1> SUFFICES ASSUME CloneInit PROVE CloneInv
    OBVIOUS
  <1>1. RowSound(session, image, disk)
    BY CloneAssumption DEF CloneInit, RowSound, SessionRow, CloneStatuses
  <1>2. told \in Targets \union {NoTarget} /\ patch \in Targets \union {NoTarget}
    BY DEF CloneInit
  <1>3. SourceSound(source, image, disk)
    BY DEF CloneInit, SourceSound
  <1>4. TargetSound(target, image, disk, session.mode)
    <2>1. target = [step |-> "wait", bytes |-> 0, queue |-> {}] /\ 0 \in 0..MaxProgress
      BY CloneAssumption DEF CloneInit
    <2> QED BY <2>1 DEF TargetSound
  <1>5. image \in Copies /\ disk \in Copies /\ link \in BOOLEAN
    BY Zenon DEF CloneInit, Copies
  <1> QED BY <1>1, <1>2, <1>3, <1>4, <1>5 DEF CloneInv

\* The session row is true: completed only when the target has written its disk
\* from an image whose upload was over, ready only when it was, and cloning only
\* towards a known total, whatever is lost, repeated, late, short, changed or
\* cancelled.
THEOREM SessionsTrue == CloneSpec => []SessionIsTrue
  <1>1. CloneInv /\ [CloneNext]_cloneVars => CloneInv'
    <2> SUFFICES ASSUME CloneInv, [CloneNext]_cloneVars
                 PROVE  CloneInv'
      OBVIOUS
    <2>1. CASE CloneLinkChanges
      BY <2>1 DEF CloneLinkChanges, CloneInv
    <2>2. CASE SourceServes \/ SourceUploads \/ SourceStages \/ SourceFails
      BY <2>2, SourceKeeps
    <2>3. CASE TargetStarts \/ TargetGivesUp \/ TargetCopies \/ TargetFails
      BY <2>3, TargetKeeps
    <2>4. CASE TargetCompletes
      BY <2>4, CompletionKeeps
    <2>5. CASE SourceFlushes \/ TargetFlushes
      BY <2>5, CloneFlushKeeps
    <2>6. CASE (\E t \in Targets : BeginUpdate(t)) \/ UpdateCloneSession
               \/ StartCloneSession \/ DeleteCloneSession
      BY <2>6, CloneAdminKeeps
    <2>7. CASE UNCHANGED cloneVars
      BY <2>7 DEF CloneInv, cloneVars
    <2> QED BY <2>1, <2>2, <2>3, <2>4, <2>5, <2>6, <2>7
            DEF CloneNext, CloneSourceStep, CloneTargetStep
  <1>2. CloneInv => SessionIsTrue
    BY DEF CloneInv, RowSound, SourceSound, TargetSound, SessionIsTrue, CloneTypeOK,
           CompletedIsCopied, ReadyIsUploaded, CloningHasSource
  <1> QED BY CloneInitInv, <1>1, <1>2, PTL DEF CloneSpec

-----------------------------------------------------------------------------
(***************************************************************************)
(* PartitionOps: the queue of partition operations and the disks shown     *)
(* agree with what was done on the node.                                   *)
(*                                                                         *)
(* An operation queued last has the largest number of those pending, and   *)
(* the node carries out what it loaded by number: the invariant follows an *)
(* operation from the queue into the batch, the script and the reports.    *)
(***************************************************************************)

-----------------------------------------------------------------------------
(* Finite sets of numbers, and enumerations                                 *)

\* A finite set of numbers that is not empty has a largest.
LEMMA LargestOfFinite ==
    ASSUME NEW S, IsFiniteSet(S), S # {}, S \subseteq Nat
    PROVE  \E m \in S : \A n \in S : m >= n
<1> DEFINE Has(T) == T = {} \/ \E m \in T : \A n \in T : m >= n
           Bad == {k \in Nat : \E T \in SUBSET S : Cardinality(T) = k /\ ~Has(T)}
<1>1. SUFFICES ASSUME ~Has(S) PROVE FALSE
  OBVIOUS
<1>2. Cardinality(S) \in Bad
  BY <1>1, FS_CardinalityType
<1>3. PICK k \in Bad : \A l \in Bad : ~(<<l, k>> \in OpToRel(<, Nat))
  <2> HIDE DEF Has
  <2>1. Bad \subseteq Nat /\ Bad # {}
    BY <1>2
  <2> HIDE DEF Bad
  <2> QED
    BY <2>1, WFMin, NatLessThanWellFounded, Zenon
<1>4. \A l \in Bad : ~(l < k)
  BY <1>3 DEF OpToRel
<1>5. PICK T \in SUBSET S : Cardinality(T) = k /\ ~Has(T)
  OBVIOUS
<1>6. IsFiniteSet(T) /\ T # {} /\ k \in Nat
  BY <1>5, FS_Subset
<1>7. PICK x \in T : TRUE
  BY <1>6
<1>8. Cardinality(T \ {x}) = k - 1 /\ k - 1 \in Nat /\ T \ {x} \in SUBSET S
  <2>1. Cardinality(T \ {x}) = Cardinality(T) - 1 /\ IsFiniteSet(T \ {x})
    BY <1>6, <1>7, FS_RemoveElement
  <2>2. Cardinality(T \ {x}) \in Nat
    BY <2>1, FS_CardinalityType
  <2>3. Cardinality(T) = k
    BY <1>5
  <2> QED
    BY <2>1, <2>2, <2>3
<1>9. Has(T \ {x})
  BY <1>4, <1>6, <1>8
<1>10. T \subseteq Nat
  BY <1>5
<1>11. Has(T)
  BY <1>6, <1>7, <1>9, <1>10
<1> QED
  BY <1>5, <1>11

\* An enumeration of a finite set without repetition meets every element.
LEMMA EnumerationMeetsAll ==
    ASSUME NEW S, IsFiniteSet(S), NEW s \in SetToSeqs(S)
    PROVE  /\ s \in Seq(S) /\ Len(s) = Cardinality(S)
           /\ \A i, j \in 1..Len(s) : i # j => s[i] # s[j]
           /\ \A x \in S : \E i \in 1..Len(s) : s[i] = x
<1> DEFINE D == 1..Cardinality(S)
<1>1. s \in [D -> S] /\ \A i, j \in D : i # j => s[i] # s[j]
  BY DEF SetToSeqs
<1>2. Cardinality(S) \in Nat /\ IsFiniteSet(D) /\ Cardinality(D) = Cardinality(S)
  BY FS_CardinalityType, FS_Interval
<1>3. s \in Seq(S) /\ Len(s) = Cardinality(S)
  BY <1>1, <1>2
<1>4. s \in Injection(D, S)
  BY <1>1 DEF Injection, IsInjective
<1>5. s \in Surjection(D, S)
  BY <1>2, <1>4, FS_Injection
<1> QED
  BY <1>1, <1>3, <1>5 DEF Surjection

-----------------------------------------------------------------------------
(* The inductive invariant                                                  *)

HasRun(o) == o \in ToSet(ran)
InBatch(o) == o \in ToSet(script.batch)
Stored(o) == ops[o].status \notin {"none", "queuing"}

\* The script holds operations only while it carries them out, each once.
BatchIsWork ==
    /\ script.step # "run" => script.batch = <<>>
    /\ \A i, j \in 1..Len(script.batch) : i # j => script.batch[i] # script.batch[j]

\* What the node has seen was stored.
SeenIsStored ==
    /\ Len(ran) <= MaxRuns
    /\ \A o \in Ops : HasRun(o) \/ InBatch(o) => Stored(o)

\* An operation has a device from its request on.
AskedHasDevice ==
    \A o \in Ops : ops[o].status = "none" <=> ops[o].device = NoDevice

\* An operation comes after stored ones of its device, and has a larger number
\* than those that are still pending.
AfterStored ==
    \A o \in Ops : \A a \in ops[o].after :
        /\ Stored(a) /\ ops[a].device = ops[o].device
        /\ ops[a].status = "pending" => ops[a].sequence < ops[o].sequence

\* An operation with an outcome has run; so has one whose report is unsent,
\* which says no more than what happened.
OutcomesRan ==
    /\ \A o \in Ops : ops[o].status \in {"completed", "failed"} => HasRun(o)
    /\ \A r \in script.queue : r.kind = "outcome" =>
          HasRun(r.op) /\ (r.status = "completed" => r.op \in good)

\* The batch holds whatever must run before its operations.
BatchInOrder ==
    \A i \in 1..Len(script.batch) : \A a \in ops[script.batch[i]].after :
        \/ ops[a].status = "removed" \/ HasRun(a)
        \/ \E k \in 1..(i - 1) : script.batch[k] = a

\* The controller shows an operation that has run as pending only while it has
\* not learned of it.
PendingIsUnreported ==
    \A o \in Ops : ops[o].status = "pending" /\ HasRun(o) =>
        o \in UnsentOps \union astray.ops

\* The script polls with nothing left to report.
PollsWithNoneQueued == script.step = "poll" => script.queue = {}

PartInv ==
    /\ PartTypeOK /\ BatchIsWork /\ PollsWithNoneQueued /\ SeenIsStored /\ AskedHasDevice
    /\ AfterStored /\ OutcomesRan /\ BatchInOrder /\ PendingIsUnreported /\ ExecutedInOrder /\ CompletedIsExecuted
    /\ RerunIsUnreported /\ ShownDisksAreCurrent

-----------------------------------------------------------------------------
(* Sequences                                                                *)

\* The elements of a sequence, by their places.
LEMMA ElementsOf ==
    ASSUME NEW S, NEW s \in Seq(S)
    PROVE  /\ ToSet(s) \subseteq S
           /\ \A x : x \in ToSet(s) <=> \E i \in 1..Len(s) : s[i] = x
<1>1. DOMAIN s = 1..Len(s) /\ \A i \in 1..Len(s) : s[i] \in S
  OBVIOUS
<1> QED
  BY <1>1 DEF ToSet

LEMMA AppendElements ==
    ASSUME NEW S, NEW s \in Seq(S), NEW x \in S
    PROVE  /\ Append(s, x) \in Seq(S) /\ Len(Append(s, x)) = Len(s) + 1
           /\ ToSet(Append(s, x)) = ToSet(s) \union {x}
           /\ \A i \in 1..Len(s) : Append(s, x)[i] = s[i]
           /\ Append(s, x)[Len(s) + 1] = x
<1>1. /\ Append(s, x) \in Seq(S) /\ Len(Append(s, x)) = Len(s) + 1
      /\ \A i \in 1..Len(s) : Append(s, x)[i] = s[i]
      /\ Append(s, x)[Len(s) + 1] = x
  <2>1. Append(s, x) \in Seq(S) /\ Len(Append(s, x)) = Len(s) + 1
    OBVIOUS
  <2>2. \A i \in 1..Len(s) : Append(s, x)[i] = s[i]
    OBVIOUS
  <2>3. Append(s, x)[Len(s) + 1] = x
    OBVIOUS
  <2> QED
    BY <2>1, <2>2, <2>3
<1>2. \A y : y \in ToSet(Append(s, x)) <=> \E i \in 1..(Len(s) + 1) : Append(s, x)[i] = y
  <2>1. PICK t \in Seq(S) : t = Append(s, x)
    BY <1>1
  <2>2. \A y : y \in ToSet(t) <=> \E i \in 1..Len(t) : t[i] = y
    BY ElementsOf
  <2> QED
    BY <1>1, <2>1, <2>2
<1>3. \A y : y \in ToSet(s) <=> \E i \in 1..Len(s) : s[i] = y
  BY ElementsOf
<1>4. ASSUME NEW y PROVE y \in ToSet(Append(s, x)) <=> y \in ToSet(s) \union {x}
  BY <1>1, <1>2, <1>3
<1> QED
  BY <1>1, <1>4

LEMMA TailElements ==
    ASSUME NEW S, NEW s \in Seq(S), s # <<>>
    PROVE  /\ Tail(s) \in Seq(S) /\ Len(Tail(s)) = Len(s) - 1 /\ Len(s) \in Nat \ {0}
           /\ Head(s) = s[1] /\ Head(s) \in S
           /\ \A i \in 1..Len(Tail(s)) : i + 1 \in 1..Len(s) /\ Tail(s)[i] = s[i + 1]
           /\ ToSet(Tail(s)) \subseteq ToSet(s)
<1>1. /\ Tail(s) \in Seq(S) /\ Len(Tail(s)) = Len(s) - 1 /\ Len(s) \in Nat \ {0}
      /\ Head(s) = s[1] /\ Head(s) \in S
      /\ \A i \in 1..Len(Tail(s)) : i + 1 \in 1..Len(s) /\ Tail(s)[i] = s[i + 1]
  <2>1. Tail(s) \in Seq(S) /\ Len(Tail(s)) = Len(s) - 1 /\ Len(s) \in Nat \ {0}
    OBVIOUS
  <2>2. Head(s) = s[1] /\ Head(s) \in S
    OBVIOUS
  <2>3. ASSUME NEW i \in 1..Len(Tail(s))
        PROVE  i + 1 \in 1..Len(s) /\ Tail(s)[i] = s[i + 1]
    BY <2>1
  <2> QED
    BY <2>1, <2>2, <2>3
<1>2. \A y : y \in ToSet(Tail(s)) <=> \E i \in 1..Len(Tail(s)) : Tail(s)[i] = y
  <2>1. PICK t \in Seq(S) : t = Tail(s)
    BY <1>1
  <2>2. \A y : y \in ToSet(t) <=> \E i \in 1..Len(t) : t[i] = y
    BY ElementsOf
  <2> QED
    BY <2>1, <2>2
<1>3. \A y : y \in ToSet(s) <=> \E i \in 1..Len(s) : s[i] = y
  BY ElementsOf
<1> QED
  BY <1>1, <1>2, <1>3

-----------------------------------------------------------------------------
(* What may happen to the rows                                              *)

\* The status of an operation is written, and nothing else.
OpStatusBecomes(o, s) == ops' = [ops EXCEPT ![o].status = s]

\* A status is written into a row.
LEMMA OpStatusSet ==
    ASSUME ops \in [Ops -> OpRow], NEW o \in Ops,
           NEW s \in {"pending", "completed", "failed", "removed"},
           OpStatusBecomes(o, s)
    PROVE  /\ ops' \in [Ops -> OpRow]
           /\ \A p \in Ops : /\ ops'[p].device = ops[p].device
                             /\ ops'[p].sequence = ops[p].sequence
                             /\ ops'[p].after = ops[p].after
                             /\ ops'[p].status = IF p = o THEN s ELSE ops[p].status
<1> DEFINE x == [ops[o] EXCEPT !.status = s]
<1>1. ops[o] \in OpRow
  OBVIOUS
<1>2. /\ x \in OpRow /\ x.device = ops[o].device /\ x.sequence = ops[o].sequence
      /\ x.after = ops[o].after /\ x.status = s
  BY <1>1 DEF OpRow
<1>3. ops' = [ops EXCEPT ![o] = x]
  BY DEF OpStatusBecomes
<1> HIDE DEF x
<1>4. /\ ops' \in [Ops -> OpRow] /\ ops'[o] = x
      /\ \A p \in Ops : p # o => ops'[p] = ops[p]
  BY <1>2, <1>3
<1> QED
  BY <1>2, <1>4

\* How a status may change: a request commits, or removes what is pending, or a
\* truthful outcome of a stored operation arrives.
StatusMoves(o) ==
    \/ ops'[o].status = ops[o].status
    \/ ops[o].status = "queuing" /\ ops'[o].status = "pending"
    \/ ops[o].status = "pending" /\ ops'[o].status = "removed"
    \/ /\ Stored(o) /\ ops[o].status # "removed"
       /\ ops'[o].status \in {"completed", "failed"}
       /\ HasRun(o)' /\ (ops'[o].status = "completed" => o \in good')

RowsMove ==
    /\ ops' \in [Ops -> OpRow]
    /\ \A o \in Ops : HasRun(o) => HasRun(o)'
    /\ good \subseteq good'
    /\ \A o \in Ops : /\ ops'[o].device = ops[o].device
                      /\ ops'[o].sequence = ops[o].sequence
                      /\ ops'[o].after = ops[o].after
                      /\ StatusMoves(o)

LEMMA RowsMoveKeeps ==
    ASSUME PartInv, RowsMove
    PROVE  /\ AfterStored' /\ CompletedIsExecuted' /\ AskedHasDevice'
           /\ \A o \in Ops : ops'[o].status \in {"completed", "failed"} => HasRun(o)'
           /\ \A o \in Ops : /\ Stored(o) => Stored(o)'
                             /\ ops[o].status = "removed" => ops'[o].status = "removed"
                             /\ ops'[o].status = "pending" /\ Stored(o) => ops[o].status = "pending"
<1>1. \A o \in Ops : /\ Stored(o) => Stored(o)'
                     /\ ops[o].status = "removed" => ops'[o].status = "removed"
                     /\ ops'[o].status = "pending" /\ Stored(o) => ops[o].status = "pending"
  BY DEF RowsMove, StatusMoves, Stored
<1>2. \A o \in Ops : ops'[o].status \in {"completed", "failed"} => HasRun(o)'
  BY DEF PartInv, OutcomesRan, RowsMove, StatusMoves
<1>3. CompletedIsExecuted'
  BY DEF PartInv, CompletedIsExecuted, RowsMove, StatusMoves
<1>4. AfterStored'
  <2>1. ASSUME NEW o \in Ops, NEW a \in ops'[o].after
        PROVE  /\ Stored(a)' /\ ops'[a].device = ops'[o].device
               /\ ops'[a].status = "pending" => ops'[a].sequence < ops'[o].sequence
    <3>1. a \in ops[o].after /\ a \in Ops
      BY <2>1 DEF RowsMove, PartInv, PartTypeOK, OpRow
    <3>2. /\ Stored(a) /\ ops[a].device = ops[o].device
          /\ ops[a].status = "pending" => ops[a].sequence < ops[o].sequence
      BY <3>1 DEF PartInv, AfterStored
    <3> QED
      BY <1>1, <3>1, <3>2 DEF RowsMove
  <2> QED
    BY <2>1 DEF AfterStored
<1>5. AskedHasDevice'
  BY DEF PartInv, AskedHasDevice, RowsMove, StatusMoves, Stored
<1> QED
  BY <1>1, <1>2, <1>3, <1>4, <1>5

\* Where nothing runs, the order of what has run stands.
LEMMA OrderStands ==
    ASSUME PartInv, RowsMove, ran' = ran
    PROVE  ExecutedInOrder'
<1>1. ASSUME NEW i \in 1..Len(ran), NEW a \in ops'[ran[i]].after
      PROVE  ops'[a].status = "removed" \/ \E j \in 1..i : ran[j] = a
  <2>1. ran[i] \in Ops
    BY DEF PartInv, PartTypeOK
  <2>2. a \in ops[ran[i]].after /\ a \in Ops
    BY <1>1, <2>1 DEF RowsMove, PartInv, PartTypeOK, OpRow
  <2>3. ops[a].status = "removed" \/ \E j \in 1..i : ran[j] = a
    BY <2>2 DEF PartInv, ExecutedInOrder
  <2> QED
    BY <2>2, <2>3, RowsMoveKeeps
<1> QED
  BY <1>1 DEF ExecutedInOrder

\* Where the script takes and runs nothing, the order of its batch stands.
LEMMA BatchStands ==
    ASSUME PartInv, RowsMove, script'.batch = script.batch
    PROVE  BatchInOrder'
<1>1. ASSUME NEW i \in 1..Len(script.batch), NEW a \in ops'[script.batch[i]].after
      PROVE  \/ ops'[a].status = "removed" \/ HasRun(a)'
             \/ \E k \in 1..(i - 1) : script.batch[k] = a
  <2>1. script.batch[i] \in Ops
    BY DEF PartInv, PartTypeOK
  <2>2. a \in ops[script.batch[i]].after /\ a \in Ops
    BY <1>1, <2>1 DEF RowsMove, PartInv, PartTypeOK, OpRow
  <2>3. \/ ops[a].status = "removed" \/ HasRun(a)
        \/ \E k \in 1..(i - 1) : script.batch[k] = a
    BY <2>2 DEF PartInv, BatchInOrder
  <2>4. HasRun(a) => HasRun(a)'
    BY <2>2 DEF RowsMove
  <2> QED
    BY <2>2, <2>3, <2>4, RowsMoveKeeps
<1> QED
  BY <1>1 DEF BatchInOrder

-----------------------------------------------------------------------------
(* The requests of the admin                                                *)

\* A status that an admin writes leaves what the node knows alone.
LEMMA AdminKeeps ==
    ASSUME PartInv, RowsMove, UNCHANGED <<disks, script, ran, good, astray>>,
           \A o \in Ops : HasRun(o) /\ ops'[o].status = "pending" => ops[o].status = "pending"
    PROVE  PartInv'
<1>1. /\ AfterStored' /\ CompletedIsExecuted' /\ ExecutedInOrder' /\ BatchInOrder'
      /\ AskedHasDevice'
      /\ \A o \in Ops : ops'[o].status \in {"completed", "failed"} => HasRun(o)'
      /\ \A o \in Ops : Stored(o) => Stored(o)'
  BY RowsMoveKeeps, OrderStands, BatchStands
<1>2. PartTypeOK'
  BY DEF PartInv, PartTypeOK, RowsMove
<1>3. BatchIsWork' /\ ShownDisksAreCurrent' /\ PollsWithNoneQueued'
  BY DEF PartInv, BatchIsWork, ShownDisksAreCurrent, UnsentDisks, PollsWithNoneQueued
<1>4. SeenIsStored'
  BY <1>1 DEF PartInv, SeenIsStored, HasRun, InBatch
<1>5. OutcomesRan'
  BY <1>1 DEF PartInv, OutcomesRan, HasRun
<1>6. UnsentOps' = UnsentOps
  BY DEF UnsentOps
<1>7. PendingIsUnreported' /\ RerunIsUnreported'
  BY <1>6 DEF PartInv, PendingIsUnreported, HasRun, RerunIsUnreported
<1> QED
  BY <1>1, <1>2, <1>3, <1>4, <1>5, <1>7 DEF PartInv

LEMMA QueueCommitsKeeps ==
    ASSUME PartInv, NEW o \in Ops, QueuePartitionOperation(o)
    PROVE  PartInv'
<1>1. /\ ops' \in [Ops -> OpRow]
      /\ \A p \in Ops : /\ ops'[p].device = ops[p].device
                        /\ ops'[p].sequence = ops[p].sequence
                        /\ ops'[p].after = ops[p].after
                        /\ ops'[p].status = IF p = o THEN "pending" ELSE ops[p].status
  BY OpStatusSet DEF PartInv, PartTypeOK, QueuePartitionOperation, OpStatusBecomes
<1>2. UNCHANGED <<disks, script, ran, good, astray>> /\ ops[o].status = "queuing"
  BY DEF QueuePartitionOperation
<1>3. RowsMove
  BY <1>1, <1>2 DEF RowsMove, StatusMoves, HasRun
<1>4. ~HasRun(o)
  BY <1>2 DEF PartInv, SeenIsStored, Stored
<1> QED
  BY <1>1, <1>2, <1>3, <1>4, AdminKeeps

LEMMA RemoveKeeps ==
    ASSUME PartInv, NEW o \in Ops, RemovePartitionOperation(o)
    PROVE  PartInv'
<1>1. /\ ops' \in [Ops -> OpRow]
      /\ \A p \in Ops : /\ ops'[p].device = ops[p].device
                        /\ ops'[p].sequence = ops[p].sequence
                        /\ ops'[p].after = ops[p].after
                        /\ ops'[p].status = IF p = o THEN "removed" ELSE ops[p].status
  BY OpStatusSet DEF PartInv, PartTypeOK, RemovePartitionOperation, OpStatusBecomes
<1>2. UNCHANGED <<disks, script, ran, good, astray>> /\ ops[o].status = "pending"
  BY DEF RemovePartitionOperation
<1>3. RowsMove
  BY <1>1, <1>2 DEF RowsMove, StatusMoves, HasRun
<1> QED
  BY <1>1, <1>2, <1>3, AdminKeeps

\* The next number of a device is larger than those of its pending operations.
LEMMA NextIsLarger ==
    ASSUME ops \in [Ops -> OpRow], NEW d
    PROVE  /\ NextSequence(d) \in Nat
           /\ \A o \in PendingOn(d) : ops[o].sequence < NextSequence(d)
<1>1. CASE PendingOn(d) = {}
  BY <1>1 DEF NextSequence
<1>2. CASE PendingOn(d) # {}
  <2> DEFINE S == {ops[o].sequence : o \in PendingOn(d)}
  <2>1. PendingOn(d) \subseteq Ops /\ IsFiniteSet(PendingOn(d))
    BY FS_Subset, PartitionAssumption DEF PendingOn
  <2>2. IsFiniteSet(S)
    <3> DEFINE f == [o \in PendingOn(d) |-> ops[o].sequence]
    <3>1. f \in Surjection(PendingOn(d), S)
      BY DEF Surjection
    <3> QED
      BY <2>1, <3>1, FS_Surjection
  <2>3. S \subseteq Nat /\ S # {}
    BY <1>2, <2>1 DEF OpRow
  <2>4. \E m \in S : \A n \in S : m >= n
    <3> HIDE DEF S
    <3> QED
      BY <2>2, <2>3, LargestOfFinite
  <2>5. Max(S) \in S /\ \A n \in S : Max(S) >= n
    <3> HIDE DEF S
    <3> QED
      BY <2>4 DEF Max
  <2>6. NextSequence(d) = 1 + Max(S)
    BY <1>2 DEF NextSequence
  <2>7. \A o \in PendingOn(d) : ops[o].sequence \in S
    OBVIOUS
  <2> HIDE DEF S
  <2>8. PICK m \in Nat : NextSequence(d) = 1 + m /\ \A n \in S : m >= n
    BY <2>3, <2>5, <2>6
  <2>9. ASSUME NEW o \in PendingOn(d) PROVE ops[o].sequence < NextSequence(d)
    <3>1. ops[o].sequence \in Nat /\ m >= ops[o].sequence
      BY <2>3, <2>7, <2>8
    <3> QED
      BY <2>8, <3>1
  <2> QED
    BY <2>8, <2>9
<1> QED
  BY <1>1, <1>2

LEMMA QueueReadsKeeps ==
    ASSUME PartInv, NEW o \in Ops, NEW d \in Devices, QueueReads(o, d)
    PROVE  PartInv'
<1> DEFINE before == {a \in Ops : ops[a].device = d /\ ops[a].status # "queuing"}
           x == [status |-> "queuing", device |-> d, sequence |-> NextSequence(d), after |-> before]
<1>0. ops \in [Ops -> OpRow]
  BY DEF PartInv, PartTypeOK
<1>1. NextSequence(d) \in Nat /\ \A a \in PendingOn(d) : ops[a].sequence < NextSequence(d)
  BY <1>0, NextIsLarger
<1>2. /\ x \in OpRow /\ x.status = "queuing" /\ x.device = d /\ x.sequence = NextSequence(d)
      /\ x.after = before
  BY <1>1 DEF OpRow
<1>3. ops' = [ops EXCEPT ![o] = x] /\ UNCHANGED <<disks, script, ran, good, astray>>
      /\ ops[o].status = "none"
  BY DEF QueueReads
<1> HIDE DEF x
<1>4. /\ ops' \in [Ops -> OpRow] /\ ops'[o] = x
      /\ \A p \in Ops : p # o => ops'[p] = ops[p]
  BY <1>0, <1>2, <1>3
<1>5. /\ ~HasRun(o) /\ ~InBatch(o)
      /\ \A p \in Ops : Stored(p) => p # o
  BY <1>3 DEF PartInv, SeenIsStored, Stored
<1>6. PartTypeOK'
  BY <1>3, <1>4 DEF PartInv, PartTypeOK
<1>7. BatchIsWork' /\ ShownDisksAreCurrent' /\ PollsWithNoneQueued'
  BY <1>3 DEF PartInv, BatchIsWork, ShownDisksAreCurrent, UnsentDisks, PollsWithNoneQueued
<1>8. SeenIsStored'
  BY <1>3, <1>4, <1>5 DEF PartInv, SeenIsStored, HasRun, InBatch, Stored
<1>9. AfterStored'
  <2>1. ASSUME NEW p \in Ops, NEW a \in ops'[p].after
        PROVE  /\ Stored(a)' /\ ops'[a].device = ops'[p].device
               /\ ops'[a].status = "pending" => ops'[a].sequence < ops'[p].sequence
    <3>1. CASE p = o
      <4>1. a \in Ops /\ ops[a].device = d /\ ops[a].status # "queuing"
        BY <1>2, <1>4, <2>1, <3>1
      <4>2. ops[a].status # "none" /\ a # o
        BY <1>3, <4>1, PartitionAssumption DEF PartInv, PartTypeOK, AskedHasDevice
      <4>3. ops[a].status = "pending" => ops[a].sequence < NextSequence(d)
        BY <1>1, <4>1 DEF PendingOn
      <4> QED
        BY <1>2, <1>4, <3>1, <4>1, <4>2, <4>3 DEF Stored
    <3>2. CASE p # o
      <4>1. a \in ops[p].after /\ a \in Ops
        BY <1>0, <1>4, <2>1, <3>2 DEF OpRow
      <4>2. /\ Stored(a) /\ ops[a].device = ops[p].device
            /\ ops[a].status = "pending" => ops[a].sequence < ops[p].sequence
        BY <4>1 DEF PartInv, AfterStored
      <4> QED
        BY <1>4, <1>5, <3>2, <4>1, <4>2 DEF Stored
    <3> QED
      BY <3>1, <3>2
  <2> QED
    BY <2>1 DEF AfterStored
<1>10. OutcomesRan' /\ CompletedIsExecuted' /\ AskedHasDevice'
  BY <1>2, <1>3, <1>4, PartitionAssumption
     DEF PartInv, OutcomesRan, CompletedIsExecuted, HasRun, AskedHasDevice
<1>11. BatchInOrder'
  <2>1. ASSUME NEW i \in 1..Len(script.batch), NEW a \in ops'[script.batch[i]].after
        PROVE  \/ ops'[a].status = "removed" \/ HasRun(a)
               \/ \E k \in 1..(i - 1) : script.batch[k] = a
    <3>1. script.batch[i] \in Ops /\ script.batch[i] # o
      BY <1>5, ElementsOf DEF PartInv, PartTypeOK, InBatch
    <3>2. a \in ops[script.batch[i]].after /\ a \in Ops
      BY <1>0, <1>4, <2>1, <3>1 DEF OpRow
    <3>3. /\ Stored(a)
          /\ \/ ops[a].status = "removed" \/ HasRun(a)
             \/ \E k \in 1..(i - 1) : script.batch[k] = a
      BY <3>1, <3>2 DEF PartInv, BatchInOrder, AfterStored
    <3> QED
      BY <1>4, <1>5, <3>2, <3>3
  <2> QED
    BY <1>3, <2>1 DEF BatchInOrder, HasRun
<1>12. ExecutedInOrder'
  <2>1. ASSUME NEW i \in 1..Len(ran), NEW a \in ops'[ran[i]].after
        PROVE  ops'[a].status = "removed" \/ \E j \in 1..i : ran[j] = a
    <3>1. ran[i] \in Ops /\ ran[i] # o
      BY <1>5, ElementsOf DEF PartInv, PartTypeOK, HasRun
    <3>2. a \in ops[ran[i]].after /\ a \in Ops
      BY <1>0, <1>4, <2>1, <3>1 DEF OpRow
    <3>3. Stored(a) /\ (ops[a].status = "removed" \/ \E j \in 1..i : ran[j] = a)
      BY <3>1, <3>2 DEF PartInv, ExecutedInOrder, AfterStored
    <3> QED
      BY <1>4, <1>5, <3>2, <3>3
  <2> QED
    BY <1>3, <2>1 DEF ExecutedInOrder
<1>13. PendingIsUnreported' /\ RerunIsUnreported'
  <2>1. UnsentOps' = UnsentOps
    BY <1>3 DEF UnsentOps
  <2> QED
    BY <1>2, <1>3, <1>4, <2>1 DEF PartInv, PendingIsUnreported, HasRun, RerunIsUnreported
<1> QED
  BY <1>6, <1>7, <1>8, <1>9, <1>10, <1>11, <1>12, <1>13 DEF PartInv

-----------------------------------------------------------------------------
(* The script, where it reports nothing                                     *)

Script == [step : Steps, batch : Seq(Ops), queue : SUBSET PartReports]

\* The rows and what has run stay as they are.
LEMMA RowsStay ==
    ASSUME PartInv, UNCHANGED <<ops, disks, ran, good>>
    PROVE  /\ AskedHasDevice' /\ AfterStored' /\ ExecutedInOrder' /\ CompletedIsExecuted'
           /\ \A o \in Ops : (Stored(o)' <=> Stored(o)) /\ (HasRun(o)' <=> HasRun(o))
           /\ \A o \in Ops : ops'[o].status \in {"completed", "failed"} => HasRun(o)'
  BY DEF PartInv, AskedHasDevice, AfterStored, ExecutedInOrder, CompletedIsExecuted, Stored,
         HasRun, OutcomesRan

\* The script goes on to another step with nothing in its batch.
LEMMA StepKeeps ==
    ASSUME PartInv, UNCHANGED <<ops, disks, ran, good, astray>>, script.batch = <<>>,
           NEW s \in {"poll", "rescan", "exit", "gone"}, script' = [script EXCEPT !.step = s],
           s = "poll" => script.queue = {},
           s # "rescan" => script.step \in {"flush", "poll", "exit"}
    PROVE  PartInv'
<1>1. /\ AskedHasDevice' /\ AfterStored' /\ ExecutedInOrder' /\ CompletedIsExecuted'
      /\ \A o \in Ops : (Stored(o)' <=> Stored(o)) /\ (HasRun(o)' <=> HasRun(o))
      /\ \A o \in Ops : ops'[o].status \in {"completed", "failed"} => HasRun(o)'
  BY RowsStay
<1>2. script' \in Script /\ script'.step = s /\ script'.batch = <<>> /\ script'.queue = script.queue
  BY DEF PartInv, PartTypeOK, Script, Steps
<1>3. PartTypeOK'
  BY <1>2 DEF PartInv, PartTypeOK, Script
<1>4. BatchIsWork' /\ BatchInOrder' /\ RerunIsUnreported' /\ PollsWithNoneQueued'
  BY <1>2 DEF BatchIsWork, BatchInOrder, RerunIsUnreported, PollsWithNoneQueued
<1>5. SeenIsStored'
  BY <1>1, <1>2 DEF PartInv, SeenIsStored, InBatch
<1>6. OutcomesRan'
  BY <1>1, <1>2 DEF PartInv, OutcomesRan, HasRun
<1>7. PendingIsUnreported'
  BY <1>1, <1>2 DEF PartInv, PendingIsUnreported, UnsentOps
<1>8. ShownDisksAreCurrent'
  BY <1>2 DEF PartInv, ShownDisksAreCurrent, UnsentDisks
<1> QED
  BY <1>1, <1>3, <1>4, <1>5, <1>6, <1>7, <1>8 DEF PartInv

LEMMA QuietStepsKeep ==
    ASSUME PartInv, FlushStatus \/ FlushEnds \/ PollFails \/ BatchEnds
    PROVE  PartInv'
<1>1. script.step # "run" => script.batch = <<>>
  BY DEF PartInv, BatchIsWork
<1>2. CASE FlushEnds
  BY <1>1, <1>2, StepKeeps DEF FlushEnds
<1>3. CASE PollFails
  BY <1>1, <1>3, StepKeeps DEF PollFails
<1>4. CASE BatchEnds
  BY <1>1, <1>4, StepKeeps DEF BatchEnds
<1>5. CASE FlushStatus
  BY <1>1, <1>5, StepKeeps DEF FlushStatus, AfterFlush
<1> QED
  BY <1>2, <1>3, <1>4, <1>5

\* What was unsent when the node went down went astray.
LEMMA RestartNodeKeeps ==
    ASSUME PartInv, RestartNode
    PROVE  PartInv'
<1>0. UNCHANGED <<ops, disks, ran, good>>
  BY DEF RestartNode
<1>1. /\ AskedHasDevice' /\ AfterStored' /\ ExecutedInOrder' /\ CompletedIsExecuted'
      /\ \A o \in Ops : (Stored(o)' <=> Stored(o)) /\ (HasRun(o)' <=> HasRun(o))
      /\ \A o \in Ops : ops'[o].status \in {"completed", "failed"} => HasRun(o)'
  BY <1>0, RowsStay
<1>2. script' \in Script /\ script'.step = "scan" /\ script'.batch = <<>> /\ script'.queue = {}
  BY DEF RestartNode, Script, Steps
<1>3. astray'.ops = astray.ops \union UnsentOps /\ astray' \in [ops : SUBSET Ops, disks : BOOLEAN]
  <2>1. astray.ops \union UnsentOps \in SUBSET Ops
    BY DEF PartInv, PartTypeOK, UnsentOps
  <2>2. PICK d \in BOOLEAN : d = (astray.disks \/ UnsentDisks)
    OBVIOUS
  <2>3. astray' = [ops |-> astray.ops \union UnsentOps, disks |-> d]
    BY <2>2, Zenon DEF RestartNode
  <2> QED
    BY <2>1, <2>2, <2>3
<1>4. PartTypeOK'
  BY <1>0, <1>2, <1>3 DEF PartInv, PartTypeOK, Script
<1>5. /\ BatchIsWork' /\ BatchInOrder' /\ RerunIsUnreported' /\ ShownDisksAreCurrent'
      /\ PollsWithNoneQueued'
  BY <1>2 DEF BatchIsWork, BatchInOrder, RerunIsUnreported, ShownDisksAreCurrent,
              PollsWithNoneQueued
<1>6. SeenIsStored'
  <2>1. \A o \in Ops : ~InBatch(o)'
    BY <1>2 DEF InBatch, ToSet
  <2> QED
    BY <1>0, <1>1, <2>1 DEF PartInv, SeenIsStored
<1>7. OutcomesRan'
  BY <1>1, <1>2 DEF OutcomesRan
<1>8. PendingIsUnreported'
  BY <1>0, <1>1, <1>3 DEF PartInv, PendingIsUnreported
<1> QED
  BY <1>1, <1>4, <1>5, <1>6, <1>7, <1>8 DEF PartInv

-----------------------------------------------------------------------------
(* The poll                                                                 *)

\* In a batch in the order of the rows, what comes after a pending operation of
\* its device follows it.
LEMMA PollKeeps ==
    ASSUME PartInv, PollOperations
    PROVE  PartInv'
<1>0. UNCHANGED <<ops, disks, ran, good, astray>> /\ script.step = "poll"
  BY DEF PollOperations
<1>1. PICK batch \in SetToSeqs(Polled) :
        /\ \A i, j \in 1..Len(batch) : i < j => InOrder(batch[i], batch[j])
        /\ script' = [script EXCEPT !.batch = batch,
                         !.step = IF batch = <<>> THEN "exit" ELSE "run"]
  BY DEF PollOperations
<1>2. IsFiniteSet(Polled) /\ Polled \subseteq Ops
  BY FS_Subset, PartitionAssumption DEF Polled
<1>3. /\ batch \in Seq(Polled)
      /\ \A i, j \in 1..Len(batch) : i # j => batch[i] # batch[j]
      /\ \A x \in Polled : \E i \in 1..Len(batch) : batch[i] = x
  BY <1>2, EnumerationMeetsAll
<1>4. batch \in Seq(Ops) /\ \A i \in 1..Len(batch) : batch[i] \in Polled
  BY <1>2, <1>3
<1>5. /\ AskedHasDevice' /\ AfterStored' /\ ExecutedInOrder' /\ CompletedIsExecuted'
      /\ \A o \in Ops : (Stored(o)' <=> Stored(o)) /\ (HasRun(o)' <=> HasRun(o))
      /\ \A o \in Ops : ops'[o].status \in {"completed", "failed"} => HasRun(o)'
  BY <1>0, RowsStay
<1>6. /\ script' \in Script /\ script'.batch = batch /\ script'.queue = script.queue
      /\ script'.step = IF batch = <<>> THEN "exit" ELSE "run"
  BY <1>1, <1>4 DEF PartInv, PartTypeOK, Script, Steps
<1>7. PartTypeOK'
  BY <1>0, <1>6 DEF PartInv, PartTypeOK, Script
<1>8. BatchIsWork' /\ PollsWithNoneQueued'
  BY <1>3, <1>6 DEF BatchIsWork, PollsWithNoneQueued
<1>9. SeenIsStored'
  <2>1. \A o \in Ops : InBatch(o)' => o \in Polled
    BY <1>4, <1>6, ElementsOf DEF InBatch
  <2> QED
    BY <1>0, <1>5, <2>1 DEF PartInv, SeenIsStored, Polled, Stored
<1>10. OutcomesRan'
  BY <1>5, <1>0, <1>6 DEF PartInv, OutcomesRan, HasRun
<1>11. UnsentOps' = UnsentOps
  BY <1>6 DEF UnsentOps
<1>12. PendingIsUnreported'
  BY <1>0, <1>5, <1>11 DEF PartInv, PendingIsUnreported
<1>13. RerunIsUnreported'
  <2>1. ASSUME NEW i \in 1..Len(batch), batch[i] \in ToSet(ran)
        PROVE  batch[i] \in astray.ops
    <3>1. UnsentOps = {}
      BY <1>0 DEF PartInv, PollsWithNoneQueued, UnsentOps
    <3> QED
      BY <1>2, <1>4, <2>1, <3>1 DEF PartInv, PendingIsUnreported, HasRun, Polled
  <2> QED
    BY <1>0, <1>6, <2>1 DEF RerunIsUnreported
<1>14. BatchInOrder'
  <2>1. ASSUME NEW i \in 1..Len(batch), NEW a \in ops[batch[i]].after
        PROVE  \/ ops[a].status = "removed" \/ HasRun(a)
               \/ \E k \in 1..(i - 1) : batch[k] = a
    <3>1. batch[i] \in Ops /\ ops[batch[i]] \in OpRow /\ ops[batch[i]].status = "pending"
      BY <1>4 DEF PartInv, PartTypeOK, Polled
    <3>2. a \in Ops /\ ops[a] \in OpRow
      BY <2>1, <3>1 DEF PartInv, PartTypeOK, OpRow
    <3>3. /\ Stored(a) /\ ops[a].device = ops[batch[i]].device
          /\ ops[a].status = "pending" => ops[a].sequence < ops[batch[i]].sequence
      BY <2>1, <3>1 DEF PartInv, AfterStored
    <3>4. CASE ops[a].status = "pending"
      <4>1. PICK k \in 1..Len(batch) : batch[k] = a
        BY <1>3, <3>2, <3>4 DEF Polled
      <4>2. ops[a].device \in Nat
        BY <3>2, <3>4, PartitionAssumption DEF PartInv, AskedHasDevice, OpRow
      <4>3. ~InOrder(batch[i], batch[k])
        BY <3>1, <3>2, <3>3, <3>4, <4>1, <4>2 DEF InOrder, OpRow
      <4>4. k # i
        BY <3>1, <3>2, <3>3, <3>4, <4>1 DEF OpRow
      <4>5. k < i
        BY <1>1, <4>3, <4>4
      <4> QED
        BY <4>1, <4>5
    <3>5. CASE ops[a].status # "pending"
      BY <3>2, <3>3, <3>5 DEF PartInv, OutcomesRan, Stored, OpRow
    <3> QED
      BY <3>4, <3>5
  <2> QED
    BY <1>0, <1>6, <2>1 DEF BatchInOrder, HasRun
<1>15. ShownDisksAreCurrent'
  BY <1>0, <1>6 DEF PartInv, ShownDisksAreCurrent, UnsentDisks
<1> QED
  BY <1>5, <1>7, <1>8, <1>9, <1>10, <1>12, <1>13, <1>14, <1>15 DEF PartInv

-----------------------------------------------------------------------------
(* Reports                                                                  *)

LEMMA ReportShape ==
    ASSUME NEW r \in PartReports
    PROVE  \/ r.kind = "outcome" /\ r.op \in Ops /\ r.status \in {"completed", "failed"}
           \/ r.kind = "disks" /\ r.runs \in 0..MaxRuns
  BY DEF PartReports

\* A report that is truthful once the step is done, applied or lost.
LEMMA PostMoves ==
    ASSUME PartInv, NEW r \in PartReports, NEW ok \in BOOLEAN, PartPost(r, ok),
           \A o \in Ops : HasRun(o) => HasRun(o)', good \subseteq good',
           r.kind = "outcome" => /\ Stored(r.op) /\ HasRun(r.op)'
                                 /\ r.status = "completed" => r.op \in good'
    PROVE  /\ RowsMove /\ disks' \in 0..MaxRuns
           /\ r.kind = "outcome" => disks' = disks /\ (ok => ops'[r.op].status # "pending")
           /\ r.kind = "disks" => ops' = ops /\ (ok => disks' = r.runs)
           /\ \A o \in Ops : ops'[o].status = "pending" => ops[o].status = "pending"
<1>0. ops \in [Ops -> OpRow] /\ disks \in 0..MaxRuns
  BY DEF PartInv, PartTypeOK
<1>1. CASE r.kind = "outcome" /\ UpdateOperationStatus(r)
  <2>1. PICK o \in Ops, s \in {"completed", "failed"} : o = r.op /\ s = r.status
    BY <1>1, ReportShape
  <2>2. ops[o].status # "removed" /\ ops' = [ops EXCEPT ![o].status = s] /\ disks' = disks
    BY <1>1, <2>1 DEF UpdateOperationStatus
  <2>3. /\ ops' \in [Ops -> OpRow]
        /\ \A p \in Ops : /\ ops'[p].device = ops[p].device
                          /\ ops'[p].sequence = ops[p].sequence
                          /\ ops'[p].after = ops[p].after
                          /\ ops'[p].status = IF p = o THEN s ELSE ops[p].status
    <3>1. s \in {"pending", "completed", "failed", "removed"}
      OBVIOUS
    <3>2. OpStatusBecomes(o, s)
      BY <2>2 DEF OpStatusBecomes
    <3> QED
      BY <1>0, <3>1, <3>2, OpStatusSet
  <2>4. RowsMove
    BY <1>1, <2>1, <2>2, <2>3 DEF RowsMove, StatusMoves
  <2> QED
    BY <1>0, <1>1, <2>1, <2>2, <2>3, <2>4
<1>2. CASE r.kind = "disks" /\ ReceiveDiskReport(r)
  <2>1. ops' = ops /\ disks' = r.runs /\ r.runs \in 0..MaxRuns
    BY <1>2, ReportShape DEF ReceiveDiskReport
  <2>2. RowsMove
    BY <1>0, <2>1 DEF RowsMove, StatusMoves
  <2> QED
    BY <1>2, <2>1, <2>2
<1>3. CASE ~ok /\ UNCHANGED <<ops, disks>>
  <2>1. RowsMove
    BY <1>0, <1>3 DEF RowsMove, StatusMoves
  <2> QED
    BY <1>0, <1>3, <2>1
<1> QED
  BY <1>1, <1>2, <1>3 DEF PartPost

\* A report leaves the queue of unsent ones when it was answered.
LEMMA FlushKeeps ==
    ASSUME PartInv, FlushOne
    PROVE  PartInv'
<1>0. UNCHANGED <<ran, good>> /\ script.step \in {"flush", "exit"} /\ script.batch = <<>>
  BY DEF FlushOne, PartInv, BatchIsWork
<1>1. PICK r \in script.queue, ok \in BOOLEAN :
         /\ PartPost(r, ok)
         /\ script' = [script EXCEPT !.step = AfterFlush, !.queue = IF ok THEN @ \ {r} ELSE @]
         /\ astray' = [astray EXCEPT !.disks = @ \/ (r.kind = "disks" /\ r.runs # Len(ran))]
  BY DEF FlushOne
<1>2. r \in PartReports
  BY DEF PartInv, PartTypeOK
<1>3. r.kind = "outcome" => /\ r.op \in Ops /\ Stored(r.op) /\ HasRun(r.op)'
                            /\ r.status = "completed" => r.op \in good'
  BY <1>0, <1>2, ReportShape DEF PartInv, OutcomesRan, SeenIsStored, HasRun
<1>4. /\ RowsMove /\ disks' \in 0..MaxRuns
      /\ r.kind = "outcome" => disks' = disks /\ (ok => ops'[r.op].status # "pending")
      /\ r.kind = "disks" => ops' = ops /\ (ok => disks' = r.runs)
      /\ \A o \in Ops : ops'[o].status = "pending" => ops[o].status = "pending"
  <2>1. (\A o \in Ops : HasRun(o) => HasRun(o)') /\ good \subseteq good'
    BY <1>0 DEF HasRun
  <2> QED
    BY <1>1, <1>2, <1>3, <2>1, PostMoves
<1>5. /\ script' \in Script /\ script'.step \in {"exit", "gone"} /\ script'.batch = <<>>
      /\ script'.queue = IF ok THEN script.queue \ {r} ELSE script.queue
  BY <1>0, <1>1 DEF PartInv, PartTypeOK, Script, Steps, AfterFlush
<1>6. /\ astray' \in [ops : SUBSET Ops, disks : BOOLEAN] /\ astray'.ops = astray.ops
      /\ ~astray'.disks => ~astray.disks /\ (r.kind = "disks" => r.runs = Len(ran))
  <2>1. PICK d \in BOOLEAN : d = (astray.disks \/ (r.kind = "disks" /\ r.runs # Len(ran)))
    OBVIOUS
  <2>2. astray \in [ops : SUBSET Ops, disks : BOOLEAN]
    BY DEF PartInv, PartTypeOK
  <2>3. astray' = [astray EXCEPT !.disks = d]
    BY <1>1, <2>1
  <2>4. /\ astray' \in [ops : SUBSET Ops, disks : BOOLEAN] /\ astray'.ops = astray.ops
        /\ astray'.disks = d
    BY <2>2, <2>3
  <2> QED
    BY <2>1, <2>4
<1>7. /\ AfterStored' /\ CompletedIsExecuted' /\ AskedHasDevice'
      /\ \A o \in Ops : ops'[o].status \in {"completed", "failed"} => HasRun(o)'
      /\ \A o \in Ops : Stored(o) => Stored(o)'
  BY <1>4, RowsMoveKeeps
<1>8. ExecutedInOrder'
  BY <1>0, <1>4, OrderStands
<1>9. PartTypeOK'
  BY <1>0, <1>4, <1>5, <1>6 DEF PartInv, PartTypeOK, RowsMove, Script
<1>10. BatchIsWork' /\ BatchInOrder' /\ RerunIsUnreported' /\ PollsWithNoneQueued'
  BY <1>5 DEF BatchIsWork, BatchInOrder, RerunIsUnreported, PollsWithNoneQueued
<1>11. SeenIsStored'
  BY <1>0, <1>5, <1>7 DEF PartInv, SeenIsStored, HasRun, InBatch
<1>12. OutcomesRan'
  BY <1>0, <1>5, <1>7 DEF PartInv, OutcomesRan, HasRun
<1>13. PendingIsUnreported'
  <2>1. ASSUME NEW o \in Ops, ops'[o].status = "pending", HasRun(o)'
        PROVE  o \in UnsentOps' \union astray'.ops
    <3>1. o \in UnsentOps \union astray.ops
      BY <1>0, <1>4, <2>1 DEF PartInv, PendingIsUnreported, HasRun
    <3>2. ASSUME NEW q \in script.queue, q.kind = "outcome", q.op = o
          PROVE  q \in script'.queue
      BY <1>4, <1>5, <2>1, <3>2
    <3> QED
      BY <1>6, <3>1, <3>2 DEF UnsentOps
  <2> QED
    BY <2>1 DEF PendingIsUnreported
<1>14. ShownDisksAreCurrent'
  <2>1. CASE r.kind = "disks"
    <3>1. ~ok => UnsentDisks'
      BY <1>5, <2>1 DEF UnsentDisks
    <3>2. ok /\ ~astray'.disks => disks' = Len(ran')
      BY <1>0, <1>4, <1>6, <2>1
    <3> QED
      BY <3>1, <3>2 DEF ShownDisksAreCurrent
  <2>2. CASE r.kind = "outcome"
    <3>1. UnsentDisks => UnsentDisks'
      BY <1>5, <2>2 DEF UnsentDisks
    <3> QED
      BY <1>0, <1>4, <1>6, <2>2, <3>1 DEF PartInv, ShownDisksAreCurrent
  <2> QED
    BY <1>2, <2>1, <2>2, ReportShape
<1> QED
  BY <1>7, <1>8, <1>9, <1>10, <1>11, <1>12, <1>13, <1>14 DEF PartInv

\* The disks are reported as they are after everything that has run.
LEMMA DiskReportKeeps ==
    ASSUME PartInv, ReportDiskInfo
    PROVE  PartInv'
<1>0. UNCHANGED <<ran, good, astray>> /\ script.step \in {"scan", "rescan"} /\ script.batch = <<>>
  BY DEF ReportDiskInfo, PartInv, BatchIsWork
<1> DEFINE r == DiskReport(Len(ran))
<1>1. PICK ok \in BOOLEAN :
        /\ PartPost(r, ok)
        /\ script' = [script EXCEPT !.step = IF @ = "scan" THEN "flush" ELSE "exit",
                                    !.queue = Unsent(r, ok)]
  BY DEF ReportDiskInfo
<1>2. r \in PartReports /\ r.kind = "disks" /\ r.runs = Len(ran)
  BY DEF PartInv, PartTypeOK, SeenIsStored, DiskReport, PartReports
<1> HIDE DEF r
<1>3. RowsMove /\ disks' \in 0..MaxRuns /\ ops' = ops /\ (ok => disks' = r.runs)
  <2>1. (\A o \in Ops : HasRun(o) => HasRun(o)') /\ good \subseteq good'
    BY <1>0 DEF HasRun
  <2>2. ASSUME NEW q \in PartReports, q.kind = "disks", PartPost(q, ok)
        PROVE  RowsMove /\ disks' \in 0..MaxRuns /\ ops' = ops /\ (ok => disks' = q.runs)
    BY <2>1, <2>2, PostMoves
  <2> QED
    BY <1>1, <1>2, <2>2
<1>4. /\ script' \in Script /\ script'.step \in {"flush", "exit"} /\ script'.batch = <<>>
      /\ script'.queue = IF ok THEN script.queue ELSE script.queue \union {r}
  BY <1>0, <1>1, <1>2 DEF PartInv, PartTypeOK, Script, Steps, Unsent
<1>5. /\ AfterStored' /\ CompletedIsExecuted' /\ AskedHasDevice'
      /\ \A o \in Ops : ops'[o].status \in {"completed", "failed"} => HasRun(o)'
      /\ \A o \in Ops : Stored(o) => Stored(o)'
  BY <1>3, RowsMoveKeeps
<1>6. ExecutedInOrder'
  BY <1>0, <1>3, OrderStands
<1>7. PartTypeOK'
  BY <1>0, <1>3, <1>4 DEF PartInv, PartTypeOK, RowsMove, Script
<1>8. BatchIsWork' /\ BatchInOrder' /\ RerunIsUnreported' /\ PollsWithNoneQueued'
  BY <1>4 DEF BatchIsWork, BatchInOrder, RerunIsUnreported, PollsWithNoneQueued
<1>9. SeenIsStored'
  BY <1>0, <1>4, <1>5 DEF PartInv, SeenIsStored, HasRun, InBatch
<1>10. OutcomesRan'
  BY <1>0, <1>2, <1>4, <1>5 DEF PartInv, OutcomesRan, HasRun
<1>11. UnsentOps \subseteq UnsentOps'
  BY <1>4 DEF UnsentOps
<1>12. PendingIsUnreported'
  BY <1>0, <1>3, <1>11 DEF PartInv, PendingIsUnreported, HasRun
<1>13. ShownDisksAreCurrent'
  <2>1. CASE ok
    BY <1>0, <1>2, <1>3, <2>1 DEF ShownDisksAreCurrent
  <2>2. CASE ~ok
    BY <1>2, <1>4, <2>2 DEF ShownDisksAreCurrent, UnsentDisks
  <2> QED
    BY <2>1, <2>2
<1> QED
  BY <1>5, <1>6, <1>7, <1>8, <1>9, <1>10, <1>12, <1>13 DEF PartInv

\* The operation that is first in the batch runs: everything that must run
\* before it has run or was removed.
LEMMA ExecuteKeeps ==
    ASSUME PartInv, ExecuteOperation
    PROVE  PartInv'
<1>0. /\ script.step = "run" /\ script.batch # <<>> /\ Len(ran) < MaxRuns /\ UNCHANGED astray
      /\ script.batch \in Seq(Ops) /\ ran \in Seq(Ops) /\ ran' \in Seq(Ops)
      /\ ops \in [Ops -> OpRow]
  <2>1. script.batch \in Seq(Ops) /\ ran \in Seq(Ops) /\ ops \in [Ops -> OpRow]
    BY DEF PartInv, PartTypeOK
  <2>2. script.step = "run" /\ script.batch # <<>> /\ Len(ran) < MaxRuns /\ UNCHANGED astray
    BY DEF ExecuteOperation
  <2>3. Head(script.batch) \in Ops
    BY <2>1, <2>2
  <2>4. ran' = Append(ran, Head(script.batch))
    BY DEF ExecuteOperation
  <2> QED
    BY <2>1, <2>2, <2>3, <2>4
<1>1. PICK o \in Ops : o = Head(script.batch)
  BY <1>0
<1>2. PICK status \in {"completed", "failed"}, ok \in BOOLEAN :
        /\ PartPost(Outcome(o, status), ok)
        /\ ran' = Append(ran, o)
        /\ good' = IF status = "completed" THEN good \union {o} ELSE good
        /\ script' = [script EXCEPT !.batch = Tail(@), !.queue = Unsent(Outcome(o, status), ok)]
  BY <1>1 DEF ExecuteOperation
<1> DEFINE r == Outcome(o, status)
<1>3. r \in PartReports /\ r.kind = "outcome" /\ r.op = o /\ r.status = status
  BY DEF Outcome, PartReports
<1> HIDE DEF r
<1>4. /\ Len(ran') = Len(ran) + 1 /\ ToSet(ran') = ToSet(ran) \union {o}
      /\ \A i \in 1..Len(ran) : ran'[i] = ran[i]
      /\ ran'[Len(ran) + 1] = o
  BY <1>0, <1>2, AppendElements
<1>5. \A p \in Ops : HasRun(p)' <=> HasRun(p) \/ p = o
  BY <1>4 DEF HasRun
<1>6. /\ Tail(script.batch) \in Seq(Ops) /\ Len(Tail(script.batch)) = Len(script.batch) - 1
      /\ Len(script.batch) \in Nat \ {0} /\ o = script.batch[1]
      /\ \A i \in 1..Len(Tail(script.batch)) :
           i + 1 \in 1..Len(script.batch) /\ Tail(script.batch)[i] = script.batch[i + 1]
      /\ ToSet(Tail(script.batch)) \subseteq ToSet(script.batch)
  BY <1>0, <1>1, TailElements
<1>7. /\ script' \in Script /\ script'.step = "run" /\ script'.batch = Tail(script.batch)
      /\ script'.queue = IF ok THEN script.queue ELSE script.queue \union {r}
  BY <1>0, <1>2, <1>3, <1>6 DEF PartInv, PartTypeOK, Script, Unsent, r
<1>8. Stored(o)
  <2>1. o \in ToSet(script.batch)
    BY <1>0, <1>6, ElementsOf
  <2> QED
    BY <2>1 DEF PartInv, SeenIsStored, InBatch
<1>9. /\ RowsMove /\ disks' \in 0..MaxRuns /\ (ok => ops'[o].status # "pending")
      /\ \A p \in Ops : ops'[p].status = "pending" => ops[p].status = "pending"
  <2>1. (\A p \in Ops : HasRun(p) => HasRun(p)') /\ good \subseteq good'
    BY <1>2, <1>5
  <2>2. ASSUME NEW q \in PartReports, q.kind = "outcome", q.op = o, q.status = status,
               PartPost(q, ok)
        PROVE  /\ RowsMove /\ disks' \in 0..MaxRuns /\ (ok => ops'[o].status # "pending")
               /\ \A p \in Ops : ops'[p].status = "pending" => ops[p].status = "pending"
    <3>1. q.kind = "outcome" => /\ Stored(q.op) /\ HasRun(q.op)'
                                /\ q.status = "completed" => q.op \in good'
      BY <1>2, <1>5, <1>8, <2>2
    <3> QED
      BY <2>1, <2>2, <3>1, PostMoves
  <2> QED
    BY <1>2, <1>3, <2>2 DEF r
<1>10. /\ AfterStored' /\ CompletedIsExecuted' /\ AskedHasDevice'
       /\ \A p \in Ops : ops'[p].status \in {"completed", "failed"} => HasRun(p)'
       /\ \A p \in Ops : /\ Stored(p) => Stored(p)'
                         /\ ops[p].status = "removed" => ops'[p].status = "removed"
  BY <1>9, RowsMoveKeeps
<1>11. PartTypeOK'
  BY <1>0, <1>2, <1>7, <1>9 DEF PartInv, PartTypeOK, RowsMove, Script
<1>12. BatchIsWork' /\ ShownDisksAreCurrent' /\ PollsWithNoneQueued'
  <2>1. ASSUME NEW i \in 1..Len(Tail(script.batch)), NEW j \in 1..Len(Tail(script.batch)), i # j
        PROVE  Tail(script.batch)[i] # Tail(script.batch)[j]
    BY <1>6, <2>1 DEF PartInv, BatchIsWork
  <2> QED
    BY <1>7, <2>1 DEF BatchIsWork, ShownDisksAreCurrent, PollsWithNoneQueued
<1>13. SeenIsStored'
  <2>1. \A p \in Ops : InBatch(p)' => InBatch(p)
    BY <1>6, <1>7 DEF InBatch
  <2>2. Len(ran') <= MaxRuns
    BY <1>0, <1>4, PartitionAssumption
  <2> QED
    BY <1>5, <1>8, <1>10, <2>1, <2>2 DEF PartInv, SeenIsStored
<1>14. OutcomesRan'
  <2>1. ASSUME NEW q \in script'.queue, q.kind = "outcome"
        PROVE  HasRun(q.op)' /\ (q.status = "completed" => q.op \in good')
    <3>1. CASE q = r
      BY <1>2, <1>3, <1>5, <3>1
    <3>2. CASE q \in script.queue
      <4>1. q \in PartReports
        BY <3>2 DEF PartInv, PartTypeOK
      <4>2. q.op \in Ops
        BY <2>1, <4>1, ReportShape
      <4> QED
        BY <1>2, <1>5, <2>1, <3>2, <4>2 DEF PartInv, OutcomesRan
    <3> QED
      BY <1>7, <2>1, <3>1, <3>2
  <2> QED
    BY <1>10, <2>1 DEF OutcomesRan
<1>15. BatchInOrder'
  <2>1. ASSUME NEW i \in 1..Len(Tail(script.batch)), NEW a \in ops'[Tail(script.batch)[i]].after
        PROVE  \/ ops'[a].status = "removed" \/ HasRun(a)'
               \/ \E k \in 1..(i - 1) : Tail(script.batch)[k] = a
    <3>1. PICK p \in Ops : p = script.batch[i + 1] /\ p = Tail(script.batch)[i]
      BY <1>0, <1>6
    <3>2. a \in ops[p].after /\ a \in Ops
      BY <1>0, <1>9, <2>1, <3>1 DEF RowsMove, OpRow
    <3>3. \/ ops[a].status = "removed" \/ HasRun(a)
          \/ \E k \in 1..i : script.batch[k] = a
      <4>1. i + 1 \in 1..Len(script.batch) /\ (i + 1) - 1 = i
        BY <1>6
      <4> QED
        BY <3>1, <3>2, <4>1 DEF PartInv, BatchInOrder
    <3>4. ASSUME NEW k \in 1..i, script.batch[k] = a, k # 1
          PROVE  \E l \in 1..(i - 1) : Tail(script.batch)[l] = a
      <4>1. k - 1 \in 1..(i - 1) /\ k - 1 \in 1..Len(Tail(script.batch))
        BY <1>6, <3>4
      <4>2. Tail(script.batch)[k - 1] = script.batch[k]
        BY <1>6, <4>1
      <4> QED
        BY <3>4, <4>1, <4>2
    <3> QED
      BY <1>5, <1>6, <1>10, <3>2, <3>3, <3>4
  <2> QED
    BY <1>7, <2>1 DEF BatchInOrder
<1>16. ExecutedInOrder'
  <2>1. ASSUME NEW i \in 1..Len(ran'), NEW a \in ops'[ran'[i]].after
        PROVE  ops'[a].status = "removed" \/ \E j \in 1..i : ran'[j] = a
    <3>1. PICK p \in Ops : p = ran'[i]
      BY <1>0
    <3>2. a \in ops[p].after /\ a \in Ops
      BY <1>0, <1>9, <2>1, <3>1 DEF RowsMove, OpRow
    <3>3. CASE i \in 1..Len(ran)
      <4>1. ops[a].status = "removed" \/ \E j \in 1..i : ran[j] = a
        BY <1>4, <3>1, <3>2, <3>3 DEF PartInv, ExecutedInOrder
      <4>2. \A j \in 1..i : ran'[j] = ran[j]
        BY <1>4, <3>3
      <4> QED
        BY <1>10, <3>2, <4>1, <4>2
    <3>4. CASE i = Len(ran) + 1
      <4>1. p = o
        BY <1>4, <3>1, <3>4
      <4>2. ops[a].status = "removed" \/ HasRun(a)
        <5>1. 1 \in 1..Len(script.batch) /\ 1..(1 - 1) = {}
          BY <1>6
        <5> QED
          BY <1>6, <3>2, <4>1, <5>1 DEF PartInv, BatchInOrder
      <4>3. HasRun(a) => \E j \in 1..Len(ran) : ran[j] = a
        BY <1>0, ElementsOf DEF HasRun
      <4>4. \A j \in 1..Len(ran) : j \in 1..i /\ ran'[j] = ran[j]
        BY <1>0, <1>4, <3>4
      <4> QED
        BY <1>10, <3>2, <4>2, <4>3, <4>4
    <3> QED
      BY <1>0, <1>4, <2>1, <3>3, <3>4
  <2> QED
    BY <2>1 DEF ExecutedInOrder
<1>17. UnsentOps \subseteq UnsentOps' /\ (~ok => o \in UnsentOps')
  BY <1>3, <1>7 DEF UnsentOps
<1>18. PendingIsUnreported'
  BY <1>0, <1>5, <1>9, <1>17 DEF PartInv, PendingIsUnreported
<1>19. RerunIsUnreported'
  <2>1. ASSUME NEW i \in 1..Len(Tail(script.batch)), Tail(script.batch)[i] \in ToSet(ran')
        PROVE  Tail(script.batch)[i] \in astray.ops
    <3>1. i + 1 \in 1..Len(script.batch) /\ i + 1 # 1 /\ 1 \in 1..Len(script.batch)
          /\ Tail(script.batch)[i] = script.batch[i + 1]
      BY <1>6
    <3>2. script.batch[i + 1] # o
      BY <1>6, <3>1 DEF PartInv, BatchIsWork
    <3>3. script.batch[i + 1] \in ToSet(ran)
      BY <1>4, <2>1, <3>1, <3>2
    <3> QED
      BY <3>1, <3>3 DEF PartInv, RerunIsUnreported
  <2> QED
    BY <1>0, <1>7, <2>1 DEF RerunIsUnreported
<1> QED
  BY <1>10, <1>11, <1>12, <1>13, <1>14, <1>15, <1>16, <1>18, <1>19 DEF PartInv

-----------------------------------------------------------------------------
(* The theorem                                                              *)

LEMMA PartInvInit ==
    PartInit => PartInv
<1> SUFFICES ASSUME PartInit PROVE PartInv
  OBVIOUS
<1>1. \A o \in Ops : /\ ops[o] \in OpRow /\ ops[o].status = "none"
                     /\ ops[o].device = NoDevice /\ ops[o].after = {}
  BY DEF PartInit, OpRow
<1>2. script \in Script /\ script.step = "scan" /\ script.batch = <<>> /\ script.queue = {}
  BY DEF PartInit, Script, Steps
<1>3. ran = <<>> /\ ToSet(ran) = {} /\ ToSet(script.batch) = {} /\ Len(ran) = 0
  BY <1>2 DEF PartInit, ToSet
<1>4. PartTypeOK
  <2>1. astray \in [ops : SUBSET Ops, disks : BOOLEAN] /\ ops \in [Ops -> OpRow]
    BY DEF PartInit, OpRow
  <2>2. disks \in 0..MaxRuns /\ ran \in Seq(Ops) /\ good \subseteq Ops
    BY PartitionAssumption DEF PartInit
  <2> QED
    BY <1>2, <2>1, <2>2 DEF PartTypeOK, Script
<1>5. /\ BatchIsWork /\ BatchInOrder /\ RerunIsUnreported /\ ShownDisksAreCurrent
      /\ ExecutedInOrder /\ PollsWithNoneQueued
  BY <1>2, <1>3 DEF BatchIsWork, BatchInOrder, RerunIsUnreported, ShownDisksAreCurrent,
                    ExecutedInOrder, PollsWithNoneQueued
<1>6. SeenIsStored /\ AskedHasDevice /\ AfterStored /\ OutcomesRan /\ PendingIsUnreported
      /\ CompletedIsExecuted
  BY <1>1, <1>2, <1>3, PartitionAssumption
     DEF SeenIsStored, AskedHasDevice, AfterStored, OutcomesRan, PendingIsUnreported,
         CompletedIsExecuted, HasRun, InBatch
<1> QED
  BY <1>4, <1>5, <1>6 DEF PartInv

LEMMA PartInvStep ==
    PartInv /\ [PartNext]_partVars => PartInv'
<1> SUFFICES ASSUME PartInv, [PartNext]_partVars PROVE PartInv'
  OBVIOUS
<1>1. ASSUME NEW o \in Ops, NEW d \in Devices, QueueReads(o, d)
      PROVE  PartInv'
  BY <1>1, QueueReadsKeeps
<1>2. ASSUME NEW o \in Ops, QueuePartitionOperation(o) \/ RemovePartitionOperation(o)
      PROVE  PartInv'
  BY <1>2, QueueCommitsKeeps, RemoveKeeps
<1>3. CASE ScriptStep
  BY <1>3, QuietStepsKeep, FlushKeeps, PollKeeps, ExecuteKeeps, DiskReportKeeps DEF ScriptStep
<1>4. CASE RestartNode
  BY <1>4, RestartNodeKeeps
<1>5. CASE UNCHANGED partVars
  <2>1. UNCHANGED <<ops, disks, script, ran, good, astray>>
    BY <1>5 DEF partVars
  <2>2. RowsMove
    BY <2>1 DEF PartInv, PartTypeOK, RowsMove, StatusMoves, HasRun
  <2> QED
    BY <2>1, <2>2, AdminKeeps
<1> QED
  BY <1>1, <1>2, <1>3, <1>4, <1>5 DEF PartNext

\* What the controller shows of the operations and the disks of a node agrees
\* with what was done on it, whatever reports are lost, late or repeated and
\* however often the node restarts.
THEOREM OperationsTrue == PartSpec => []OperationsAreTrue
<1>1. PartInv => OperationsAreTrue
  BY DEF PartInv, OperationsAreTrue
<1> QED
  BY <1>1, PartInvInit, PartInvStep, PTL DEF PartSpec

-----------------------------------------------------------------------------
(***************************************************************************)
(* SyncJobs: the rows and directories of the sync jobs agree with their    *)
(* runs.                                                                   *)
(*                                                                         *)
(* That "running" is ended by a run rests on there being one that has not  *)
(* read the row yet, or read "running" (RunningHasEnder), and on a request *)
(* that has not committed being ahead of its run, or the job being noted   *)
(* as early (OpenIsAhead).  That a good copy survives pruning rests on the *)
(* runs of a job ending one after the other (OneUnended) and on the        *)
(* directory of the last of them being the newest (NewestIsOwn).           *)
(***************************************************************************)

-----------------------------------------------------------------------------
(* The inductive invariant                                                  *)

\* A row that was not inserted has the status it begins with.
NewIsIdle == \A j \in Jobs : job[j].row = "new" => job[j].status = "idle"

\* A run that was asked for has a job, and succeeds when rsync has ended.
RunsHaveJobs ==
    \A r \in SyncRuns :
        /\ run[r].phase # "none" => run[r].job \in Jobs /\ job[run[r].job].row # "new"
        /\ run[r].ok => run[r].phase \in {"exited", "writing", "saved", "done"}

\* The request of a run commits before the run has read the rows, or the job
\* is one of those noted.
OpenIsAhead ==
    \A r \in SyncRuns :
        run[r].open => Unread(r) \/ (run[r].phase = "writing" /\ run[r].job \in early)

\* The run is going to write a status over "running".
Ender(r) == Unread(r) \/ (run[r].phase = "writing" /\ ~run[r].same)

\* A row that shows a run.
Shown(j) == job[j].row = "there" /\ job[j].status = "running"

RunningHasEnder ==
    \A j \in Jobs \ early :
        Shown(j) => restarted \/ \E r \in SyncRuns : run[r].job = j /\ Ender(r)

HoldersBounded == Cardinality(Holders) <= MaxConcurrent

\* The runs of a job that did not overlap follow one another ...
OneUnended ==
    \A j \in Jobs \ overlapping : \A r, q \in UnendedOf(j) : r = q

\* The run has made its directory, and may prune.
HasDirectory(r) == run[r].phase \in {"rsync", "exited"} \/ run[r].ok

\* ... so the directory of the one at work is the newest.
NewestIsOwn ==
    \A j \in Jobs \ overlapping : \A r \in UnendedOf(j) :
        HasDirectory(r) => dirs[j] # <<>> /\ dirs[j][Len(dirs[j])] = r

\* The good runs of a job that did not overlap, without the set of the property.
GoodRun(q, k) == run[q].job = k /\ run[q].ok /\ run[q].phase \in {"saved", "done"}

GoodKept ==
    \A k \in Jobs \ overlapping, q \in SyncRuns : GoodRun(q, k) =>
        \E i \in 1..Len(dirs[k]) : dirs[k][i] \in SyncRuns /\ GoodRun(dirs[k][i], k)

\* What is said of the runs ...
RunsInv == HoldersBounded /\ OneUnended /\ NewestIsOwn /\ GoodKept

\* ... and of the rows.
RowsInv == NewIsIdle /\ RunsHaveJobs /\ OpenIsAhead /\ RunningHasEnder

SyncInv == SyncTypeOK /\ RowsInv /\ RunsInv

-----------------------------------------------------------------------------
(* The semaphore                                                            *)

\* The holders of the semaphore, and any of them, are finitely many.
LEMMA HoldersFinite ==
    ASSUME NEW S \in SUBSET SyncRuns, NEW T \in SUBSET S
    PROVE  /\ IsFiniteSet(S) /\ Cardinality(S) \in Nat /\ Cardinality(T) \in Nat
           /\ Cardinality(T) <= Cardinality(S)
<1>1. IsFiniteSet(S) /\ IsFiniteSet(T)
  BY FS_Subset, SyncAssumption
<1> QED
  BY <1>1, FS_Subset, FS_CardinalityType

\* Where no run enters the semaphore it is held by no more than before.
LEMMA NobodyEnters ==
    ASSUME SyncTypeOK, HoldersBounded, Holders' \subseteq Holders
    PROVE  HoldersBounded'
<1>1. Holders \subseteq SyncRuns
  BY DEF Holders
<1>2. Cardinality(Holders') <= Cardinality(Holders) /\ Cardinality(Holders') \in Nat
      /\ Cardinality(Holders) \in Nat
  BY <1>1, HoldersFinite
<1> QED
  BY <1>2, SyncAssumption DEF HoldersBounded

\* A run enters only where the semaphore has a place.
LEMMA OneEnters ==
    ASSUME NEW r \in SyncRuns, SemaphoreFree, Holders' = Holders \union {r}
    PROVE  HoldersBounded'
<1>1. Holders \subseteq SyncRuns
  BY DEF Holders
<1>2. IsFiniteSet(Holders) /\ Cardinality(Holders) \in Nat
  BY <1>1, HoldersFinite
<1>3. Cardinality(Holders') <= Cardinality(Holders) + 1 /\ Cardinality(Holders') \in Nat
  BY <1>2, FS_AddElement
<1> QED
  BY <1>2, <1>3, SyncAssumption DEF HoldersBounded, SemaphoreFree

-----------------------------------------------------------------------------
(* Pruning                                                                  *)

\* Pruning keeps the newest directory.
LEMMA KeptNewest ==
    ASSUME NEW s \in Seq(SyncRuns), s # <<>>
    PROVE  /\ Kept(s) \in Seq(SyncRuns) /\ Kept(s) # <<>>
           /\ Kept(s)[Len(Kept(s))] = s[Len(s)]
<1>1. CASE KeepVersions = 0 \/ Len(s) <= KeepVersions
  BY <1>1 DEF Kept
<1>2. CASE KeepVersions \in Nat \ {0} /\ Len(s) > KeepVersions
  <2>1. Kept(s) = SubSeq(s, Len(s) - KeepVersions + 1, Len(s))
    BY <1>2, SyncAssumption DEF Kept
  <2>2. /\ Kept(s) \in Seq(SyncRuns) /\ Len(Kept(s)) = KeepVersions
        /\ Kept(s)[KeepVersions] = s[Len(s)]
    BY <1>2, <2>1
  <2> QED
    BY <1>2, <2>2
<1> QED
  BY <1>1, <1>2, SyncAssumption

\* Pruning removes the directories of no other run.
LEMMA KeptTyped ==
    ASSUME NEW s \in Seq(SyncRuns) PROVE Kept(s) \in Seq(SyncRuns)
<1>1. CASE s = <<>>
  BY <1>1, SyncAssumption DEF Kept
<1>2. CASE s # <<>>
  BY <1>2, KeptNewest
<1> QED
  BY <1>1, <1>2

-----------------------------------------------------------------------------
(* A step of one run                                                        *)

\* Run r becomes x, and the other runs stay as they are.
Becomes(r, x) == run' = [run EXCEPT ![r] = x]

LEMMA OneRun ==
    ASSUME SyncTypeOK, NEW r \in SyncRuns, NEW x \in SyncRun, Becomes(r, x)
    PROVE  /\ run' \in [SyncRuns -> SyncRun] /\ run'[r] = x
           /\ \A q \in SyncRuns : q # r => run'[q] = run[q]
  BY DEF SyncTypeOK, Becomes

\* What is said of the runs stays true where no directory comes or goes and r
\* has not ended: if it is at work afterwards it was before.
LEMMA RunMoves ==
    ASSUME SyncInv, NEW r \in SyncRuns, NEW x \in SyncRun, Becomes(r, x), HoldersBounded',
           UNCHANGED <<dirs, overlapping>>, run[r].phase \notin {"saved", "done"},
           Unended(r)' => /\ Unended(r) /\ x.job = run[r].job
                          /\ HasDirectory(r)' => HasDirectory(r),
           x.ok /\ x.phase \in {"saved", "done"} => run[r].ok /\ Unended(r) /\ x.job = run[r].job
    PROVE  RunsInv'
<1>1. /\ run'[r] = x
      /\ \A q \in SyncRuns : q # r => run'[q] = run[q]
  BY OneRun DEF SyncInv
<1>2. ASSUME NEW k \in Jobs, NEW q \in UnendedOf(k)'
      PROVE  q \in SyncRuns /\ q \in UnendedOf(k) /\ (HasDirectory(q)' => HasDirectory(q))
  <2>1. q \in SyncRuns /\ run'[q].job = k /\ Unended(q)'
    BY <1>2 DEF UnendedOf
  <2>2. CASE q = r
    BY <1>1, <2>1, <2>2 DEF UnendedOf
  <2>3. CASE q # r
    BY <1>1, <2>1, <2>3 DEF UnendedOf, Unended, InFlight, Unread, HasDirectory
  <2> QED
    BY <2>2, <2>3
<1>3. OneUnended'
  BY <1>2 DEF SyncInv, RunsInv, OneUnended
<1>4. NewestIsOwn'
  BY <1>2 DEF SyncInv, RunsInv, NewestIsOwn
<1>5. ASSUME NEW k \in Jobs \ overlapping, NEW q \in SyncRuns, GoodRun(q, k)'
      PROVE  \E i \in 1..Len(dirs[k]) : dirs[k][i] \in SyncRuns /\ GoodRun(dirs[k][i], k)'
  <2>1. CASE q = r
    <3>1. r \in UnendedOf(k) /\ HasDirectory(r)
      BY <1>1, <1>5, <2>1 DEF GoodRun, UnendedOf, HasDirectory
    <3>2. dirs[k] # <<>> /\ dirs[k][Len(dirs[k])] = r /\ dirs[k] \in Seq(SyncRuns)
      BY <1>5, <3>1 DEF SyncInv, RunsInv, NewestIsOwn, SyncTypeOK
    <3>3. Len(dirs[k]) \in 1..Len(dirs[k])
      BY <3>2
    <3> QED
      BY <1>5, <2>1, <3>2, <3>3
  <2>2. CASE q # r
    <3>1. GoodRun(q, k)
      BY <1>1, <1>5, <2>2 DEF GoodRun
    <3>2. PICK i \in 1..Len(dirs[k]) : dirs[k][i] \in SyncRuns /\ GoodRun(dirs[k][i], k)
      BY <1>5, <3>1 DEF SyncInv, RunsInv, GoodKept
    <3>3. PICK g \in SyncRuns : g = dirs[k][i] /\ GoodRun(g, k)
      BY <3>2
    <3>4. g # r
      BY <3>3 DEF GoodRun
    <3>5. GoodRun(g, k)'
      BY <1>1, <3>3, <3>4 DEF GoodRun
    <3> QED
      BY <3>2, <3>3, <3>5
  <2> QED
    BY <2>1, <2>2
<1>6. GoodKept'
  BY <1>5 DEF GoodKept
<1> QED
  BY <1>3, <1>4, <1>6 DEF RunsInv

\* Steps that leave the runs alone.
LEMMA RunsUntouched ==
    ASSUME SyncInv, run' = run, dirs' = dirs, overlapping' = overlapping
    PROVE  RunsInv'
  BY DEF SyncInv, RunsInv, HoldersBounded, Holders, OneUnended, UnendedOf, Unended, InFlight,
         Unread, NewestIsOwn, HasDirectory, GoodKept, GoodRun

\* A row that is shown as running was so before, and what ends it still does.
LEMMA EnderStays ==
    ASSUME SyncInv, restarted' = restarted, early \subseteq early',
           \A k \in Jobs : Shown(k)' =>
               /\ Shown(k)
               /\ \A q \in SyncRuns : run[q].job = k /\ Ender(q) => run'[q].job = k /\ Ender(q)'
    PROVE  RunningHasEnder'
<1> SUFFICES ASSUME NEW k \in Jobs \ early', Shown(k)', ~restarted'
             PROVE  \E q \in SyncRuns : run'[q].job = k /\ Ender(q)'
  BY DEF RunningHasEnder
<1>1. k \in Jobs \ early /\ Shown(k) /\ ~restarted
  OBVIOUS
<1>2. PICK q \in SyncRuns : run[q].job = k /\ Ender(q)
  BY <1>1 DEF SyncInv, RowsInv, RunningHasEnder
<1> QED
  BY <1>2

-----------------------------------------------------------------------------
(* The rows                                                                 *)

\* The row of job j becomes y.
RowBecomes(j, y) == job' = [job EXCEPT ![j] = y]

LEMMA OneRow ==
    ASSUME SyncTypeOK, NEW j \in Jobs, NEW y \in JobRow, RowBecomes(j, y)
    PROVE  /\ job' \in [Jobs -> JobRow] /\ job'[j] = y
           /\ \A k \in Jobs : k # j => job'[k] = job[k]
  BY DEF SyncTypeOK, RowBecomes

\* A row is written that does not show a run, or did so before, and the runs
\* are left alone.
LEMMA RowWritten ==
    ASSUME SyncInv, NEW j \in Jobs, NEW y \in JobRow, RowBecomes(j, y), y.row # "new",
           y.row = "there" /\ y.status = "running" => Shown(j),
           UNCHANGED <<run, dirs, overlapping, early, restarted>>,
           entry' \in [Jobs -> BOOLEAN], procs' \in [Jobs -> SyncRuns \union {NoRun}],
           cancelling' \subseteq cancelling
    PROVE  SyncInv'
<1>1. /\ job' \in [Jobs -> JobRow] /\ job'[j] = y
      /\ \A k \in Jobs : k # j => job'[k] = job[k]
  BY OneRow DEF SyncInv
<1>2. SyncTypeOK'
  BY <1>1 DEF SyncInv, SyncTypeOK
<1>3. NewIsIdle' /\ RunsHaveJobs'
  BY <1>1 DEF SyncInv, RowsInv, NewIsIdle, RunsHaveJobs
<1>4. OpenIsAhead'
  BY DEF SyncInv, RowsInv, OpenIsAhead, Unread
<1>5. RunningHasEnder'
  <2>1. \A k \in Jobs : Shown(k)' => Shown(k)
    BY <1>1 DEF Shown
  <2>2. \A q \in SyncRuns : Ender(q) => Ender(q)'
    BY DEF Ender, Unread
  <2> QED
    BY <2>1, <2>2, EnderStays
<1>6. RunsInv'
  BY RunsUntouched
<1> QED
  BY <1>2, <1>3, <1>4, <1>5, <1>6 DEF SyncInv, RowsInv

LEMMA CreateJobKeeps ==
    ASSUME SyncInv, NEW j \in Jobs, NEW manual \in BOOLEAN, CreateSyncJob(j, manual)
    PROVE  SyncInv'
<1> DEFINE y == [job[j] EXCEPT !.row = "there", !.manual = manual]
<1>1. job[j] \in JobRow /\ job[j].status = "idle"
  BY DEF SyncInv, SyncTypeOK, RowsInv, NewIsIdle, CreateSyncJob
<1>2. y \in JobRow /\ y.row = "there" /\ y.status = "idle"
  BY <1>1 DEF JobRow, Statuses
<1>3. RowBecomes(j, y)
  BY DEF CreateSyncJob, RowBecomes
<1> HIDE DEF y
<1> QED
  BY <1>2, <1>3, RowWritten DEF CreateSyncJob, SyncInv, SyncTypeOK

LEMMA UpdateJobKeeps ==
    ASSUME SyncInv, NEW j \in Jobs, NEW manual \in BOOLEAN, UpdateSyncJob(j, manual)
    PROVE  SyncInv'
<1> DEFINE y == [job[j] EXCEPT !.manual = manual]
<1>1. job[j] \in JobRow /\ job[j].status # "running" /\ job[j].row = "there"
  BY DEF SyncInv, SyncTypeOK, UpdateSyncJob
<1>2. y \in JobRow /\ y.row = "there" /\ y.status # "running"
  BY <1>1 DEF JobRow
<1>3. RowBecomes(j, y)
  BY DEF UpdateSyncJob, RowBecomes
<1>4. entry' \in [Jobs -> BOOLEAN]
  BY DEF SyncInv, SyncTypeOK, UpdateSyncJob
<1> HIDE DEF y
<1> QED
  BY <1>2, <1>3, <1>4, RowWritten DEF UpdateSyncJob, SyncInv, SyncTypeOK

\* A status other than "running" is written.
LEMMA StatusWritten ==
    ASSUME SyncInv, NEW j \in Jobs, NEW s \in {"idle", "synced", "failed"},
           job' = [job EXCEPT ![j].status = s], job[j].row = "there",
           UNCHANGED <<entry, run, procs, dirs, overlapping, early, restarted>>,
           cancelling' \subseteq cancelling
    PROVE  SyncInv'
<1> DEFINE y == [job[j] EXCEPT !.status = s]
<1>1. job[j] \in JobRow
  BY DEF SyncInv, SyncTypeOK
<1>2. y \in JobRow /\ y.row = "there" /\ y.status # "running"
  BY <1>1 DEF JobRow, Statuses
<1>3. RowBecomes(j, y)
  BY DEF RowBecomes
<1> HIDE DEF y
<1> QED
  BY <1>2, <1>3, RowWritten DEF SyncInv, SyncTypeOK

LEMMA CancelCommitsKeeps ==
    ASSUME SyncInv, NEW j \in Jobs, CancelCommits(j)
    PROVE  SyncInv'
<1>1. CASE job[j].row = "there"
  BY <1>1, StatusWritten DEF CancelCommits
<1>2. CASE job[j].row # "there"
  <2>1. job' = job
    BY <1>2 DEF CancelCommits
  <2>2. SyncTypeOK' /\ NewIsIdle' /\ RunsHaveJobs' /\ OpenIsAhead'
    BY <2>1 DEF SyncInv, RowsInv, SyncTypeOK, NewIsIdle, RunsHaveJobs, OpenIsAhead, Unread,
                CancelCommits
  <2>3. RunningHasEnder'
    BY <2>1 DEF SyncInv, RowsInv, RunningHasEnder, Shown, Ender, Unread, CancelCommits
  <2> QED
    BY <2>2, <2>3, RunsUntouched DEF SyncInv, RowsInv, CancelCommits
<1> QED
  BY <1>1, <1>2

LEMMA BackendOfflineKeeps ==
    ASSUME SyncInv, NEW j \in Jobs, BackendOffline(j)
    PROVE  SyncInv'
  BY StatusWritten DEF BackendOffline

-----------------------------------------------------------------------------
(* The steps of a run                                                       *)

\* What stays of its type beside the rows and the runs.
TasksRest ==
    /\ procs' \in [Jobs -> SyncRuns \union {NoRun}] /\ dirs' \in [Jobs -> Seq(SyncRuns)]
    /\ overlapping' \subseteq Jobs /\ cancelling' \subseteq Jobs
    /\ early' \subseteq Jobs /\ early \subseteq early'

\* What a step of run r on job j gives, if it touches neither the directories
\* nor "running", and r ends what it did.
LEMMA TaskStep ==
    ASSUME SyncInv, NEW r \in SyncRuns, NEW x \in SyncRun, Becomes(r, x), RunsInv',
           NEW j \in Jobs, run[r].job = j, x.job = j, x.phase # "none", run[r].phase # "none",
           x.ok => x.phase \in {"exited", "writing", "saved", "done"},
           x.open => Unread(r)' \/ (x.phase = "writing" /\ j \in early'),
           Shown(j)' => Shown(j) /\ (Ender(r) => Ender(r)'),
           job' \in [Jobs -> JobRow], job'[j].row = job[j].row,
           \A k \in Jobs : k # j => job'[k] = job[k],
           TasksRest, UNCHANGED <<entry, restarted>>
    PROVE  SyncInv'
<1>1. /\ run' \in [SyncRuns -> SyncRun] /\ run'[r] = x
      /\ \A q \in SyncRuns : q # r => run'[q] = run[q]
  BY OneRun DEF SyncInv
<1>2. SyncTypeOK'
  BY <1>1 DEF SyncInv, SyncTypeOK, TasksRest
<1>3. NewIsIdle'
  BY DEF SyncInv, RowsInv, NewIsIdle, RunsHaveJobs
<1>4. RunsHaveJobs'
  BY <1>1 DEF SyncInv, RowsInv, RunsHaveJobs
<1>5. OpenIsAhead'
  <2>1. ASSUME NEW q \in SyncRuns, run'[q].open
        PROVE  Unread(q)' \/ (run'[q].phase = "writing" /\ run'[q].job \in early')
    <3>1. CASE q = r
      BY <1>1, <2>1, <3>1
    <3>2. CASE q # r
      BY <1>1, <2>1, <3>2 DEF SyncInv, RowsInv, OpenIsAhead, Unread, TasksRest
    <3> QED
      BY <3>1, <3>2
  <2> QED
    BY <2>1 DEF OpenIsAhead
<1>6. RunningHasEnder'
  <2>1. ASSUME NEW k \in Jobs, Shown(k)', NEW q \in SyncRuns, run[q].job = k, Ender(q)
        PROVE  run'[q].job = k /\ Ender(q)'
    <3>1. CASE q = r
      BY <1>1, <2>1, <3>1
    <3>2. CASE q # r
      BY <1>1, <2>1, <3>2 DEF Ender, Unread
    <3> QED
      BY <3>1, <3>2
  <2>2. ASSUME NEW k \in Jobs, Shown(k)' PROVE Shown(k)
    BY <2>2 DEF Shown
  <2> QED
    BY <2>1, <2>2, EnderStays DEF TasksRest
<1> QED
  BY <1>2, <1>3, <1>4, <1>5, <1>6 DEF SyncInv, RowsInv

\* What the invariant says of a run that was asked for.
LEMMA AskedFor ==
    ASSUME SyncInv, NEW r \in SyncRuns, run[r].phase # "none"
    PROVE  /\ run[r] \in SyncRun /\ run[r].job \in Jobs
           /\ job[run[r].job] \in JobRow /\ job[run[r].job].row # "new"
           /\ job \in [Jobs -> JobRow]
  BY DEF SyncInv, SyncTypeOK, RowsInv, RunsHaveJobs

LEMMA RunChecksKeeps ==
    ASSUME SyncInv, NEW r \in SyncRuns, NEW j \in Jobs, NEW kind \in {"manual", "scheduled"},
           RunChecks(r, j, kind)
    PROVE  SyncInv'
<1> DEFINE x == [NotAsked EXCEPT !.job = j, !.kind = kind, !.phase = "checked"]
<1>1. x \in SyncRun /\ x.job = j /\ x.phase = "checked" /\ x.ok = FALSE /\ x.open = FALSE
  BY DEF SyncRun, NotAsked
<1>2. Becomes(r, x) /\ run[r].phase = "none" /\ job[j].row = "there"
      /\ UNCHANGED <<job, entry, procs, cancelling, dirs, overlapping, early, restarted>>
  BY DEF RunChecks, Becomes
<1> HIDE DEF x
<1>3. /\ run' \in [SyncRuns -> SyncRun] /\ run'[r] = x
      /\ \A q \in SyncRuns : q # r => run'[q] = run[q]
  BY <1>1, <1>2, OneRun DEF SyncInv
<1>4. ~Unended(r)' /\ ~Ender(r) /\ ~Ender(r)' /\ Holders' = Holders
  BY <1>1, <1>2, <1>3 DEF Unended, InFlight, Ender, Unread, Holders
<1>5. RunsInv'
  <2>1. HoldersBounded'
    BY <1>4 DEF SyncInv, RunsInv, HoldersBounded
  <2> QED
    BY <1>1, <1>2, <1>4, <2>1, RunMoves
<1>6. SyncTypeOK' /\ NewIsIdle'
  BY <1>2, <1>3 DEF SyncInv, SyncTypeOK, RowsInv, NewIsIdle
<1>7. RunsHaveJobs'
  BY <1>1, <1>2, <1>3 DEF SyncInv, RowsInv, RunsHaveJobs
<1>8. OpenIsAhead'
  BY <1>1, <1>2, <1>3 DEF SyncInv, RowsInv, OpenIsAhead, Unread
<1>9. RunningHasEnder'
  <2>1. \A q \in SyncRuns : Ender(q) => Ender(q)' /\ run'[q].job = run[q].job
    BY <1>3, <1>4 DEF Ender, Unread
  <2>2. \A k \in Jobs : Shown(k)' => Shown(k)
    BY <1>2 DEF Shown
  <2> QED
    BY <1>2, <2>1, <2>2, EnderStays
<1> QED
  BY <1>5, <1>6, <1>7, <1>8, <1>9 DEF SyncInv, RowsInv

\* A run whose job is gone ends without having begun.
LEMMA AsksForNothing ==
    ASSUME SyncInv, NEW r \in SyncRuns, RunCommits(r) \/ RunStarts(r),
           job[run[r].job].row # "there"
    PROVE  SyncInv'
<1> DEFINE x == [run[r] EXCEPT !.phase = "done"]
<1>0. PICK j \in Jobs : j = run[r].job
  BY AskedFor DEF RunCommits, RunStarts
<1>1. /\ run[r] \in SyncRun /\ job \in [Jobs -> JobRow]
      /\ run[r].phase = "checked" /\ ~run[r].ok /\ ~run[r].open
  BY AskedFor DEF RunCommits, RunStarts, SyncInv, RowsInv, RunsHaveJobs, Unlocked
<1>2. /\ Becomes(r, x)
      /\ UNCHANGED <<job, entry, procs, cancelling, dirs, overlapping, early, restarted>>
  BY DEF RunCommits, RunStarts, Becomes
<1>3. x \in SyncRun /\ x.job = run[r].job /\ x.phase = "done" /\ ~x.ok /\ ~x.open
  BY <1>1 DEF SyncRun
<1> HIDE DEF x
<1>4. /\ run'[r] = x
      /\ \A q \in SyncRuns : q # r => run'[q] = run[q]
  BY <1>2, <1>3, OneRun DEF SyncInv
<1>5. ~Unended(r)' /\ ~Ender(r) /\ Holders' = Holders
  BY <1>1, <1>3, <1>4 DEF Unended, InFlight, Ender, Unread, Holders
<1>6. RunsInv'
  <2>1. HoldersBounded'
    BY <1>5 DEF SyncInv, RunsInv, HoldersBounded
  <2> QED
    BY <1>1, <1>2, <1>3, <1>5, <2>1, RunMoves
<1>7. Shown(j)' => Shown(j)
  BY <1>2 DEF Shown
<1>8. TasksRest
  BY <1>2 DEF TasksRest, SyncInv, SyncTypeOK
<1> QED
  BY <1>0, <1>1, <1>2, <1>3, <1>5, <1>6, <1>7, <1>8, TaskStep

\* Otherwise run r waits for the semaphore; it is an overlap where another run
\* of the job has not ended.
Queues(r, x, j) ==
    /\ x \in SyncRun /\ x.job = j /\ x.phase = "queued" /\ ~x.ok
    /\ Becomes(r, x)
    /\ overlapping' = IF UnendedOf(j) = {} THEN overlapping ELSE overlapping \union {j}
    /\ UNCHANGED <<entry, procs, cancelling, dirs, early, restarted>>

LEMMA QueuesKeeps ==
    ASSUME SyncInv, NEW r \in SyncRuns, NEW x, NEW j \in Jobs, j = run[r].job,
           run[r].phase = "checked", Queues(r, x, j)
    PROVE  RunsInv' /\ TasksRest
<1>1. /\ run'[r] = x
      /\ \A q \in SyncRuns : q # r => run'[q] = run[q]
  BY OneRun DEF SyncInv, Queues
<1>2. ~run[r].ok
  BY DEF SyncInv, RowsInv, RunsHaveJobs
<1>3. HoldersBounded'
  <2>1. Holders' = Holders
    BY <1>1 DEF Holders, Queues
  <2> QED
    BY <2>1 DEF SyncInv, RunsInv, HoldersBounded
<1>4. /\ \A k \in Jobs : k # j => UnendedOf(k)' = UnendedOf(k)
      /\ UnendedOf(j)' = UnendedOf(j) \union {r}
      /\ ~HasDirectory(r)'
      /\ \A q \in SyncRuns : q # r => (HasDirectory(q)' <=> HasDirectory(q))
      /\ Jobs \ overlapping' \subseteq Jobs \ overlapping
  BY <1>1 DEF UnendedOf, Unended, InFlight, Unread, HasDirectory, Queues
<1>5. OneUnended'
  BY <1>4 DEF SyncInv, RunsInv, OneUnended, Queues
<1>6. NewestIsOwn'
  <2>1. ASSUME NEW k \in Jobs \ overlapping', NEW q \in UnendedOf(k)', HasDirectory(q)'
        PROVE  dirs'[k] # <<>> /\ dirs'[k][Len(dirs'[k])] = q
    <3>1. q \in SyncRuns /\ q # r
      BY <1>4, <2>1 DEF UnendedOf
    <3>2. q \in UnendedOf(k) /\ k \in Jobs \ overlapping /\ HasDirectory(q)
      BY <1>4, <2>1, <3>1
    <3> QED
      BY <3>2 DEF SyncInv, RunsInv, NewestIsOwn, Queues
  <2> QED
    BY <2>1 DEF NewestIsOwn
<1>7. GoodKept'
  <2>1. \A q \in SyncRuns, k \in Jobs : GoodRun(q, k)' <=> GoodRun(q, k)
    BY <1>1, <1>2 DEF GoodRun, Queues
  <2>2. ASSUME NEW k \in Jobs \ overlapping', NEW q \in SyncRuns, GoodRun(q, k)'
        PROVE  \E i \in 1..Len(dirs[k]) : dirs[k][i] \in SyncRuns /\ GoodRun(dirs[k][i], k)'
    <3>1. PICK i \in 1..Len(dirs[k]) : dirs[k][i] \in SyncRuns /\ GoodRun(dirs[k][i], k)
      BY <1>4, <2>1, <2>2 DEF SyncInv, RunsInv, GoodKept
    <3>2. PICK g \in SyncRuns : g = dirs[k][i] /\ GoodRun(g, k)'
      BY <1>4, <2>1, <2>2, <3>1
    <3>3. dirs' = dirs
      BY DEF Queues
    <3> QED
      BY <3>1, <3>2, <3>3
  <2> QED
    BY <2>2 DEF GoodKept, Queues
<1>8. TasksRest
  BY DEF TasksRest, Queues, SyncInv, SyncTypeOK
<1> QED
  BY <1>3, <1>5, <1>6, <1>7, <1>8 DEF RunsInv

\* The request starts its run: the rows are as they were for everybody else.
LEMMA RunStartsKeeps ==
    ASSUME SyncInv, NEW r \in SyncRuns, RunStarts(r)
    PROVE  SyncInv'
<1>0. PICK j \in Jobs : j = run[r].job
  BY AskedFor DEF RunStarts
<1>1. CASE job[j].row # "there"
  BY <1>0, <1>1, AsksForNothing
<1>2. CASE job[j].row = "there"
  <2> DEFINE x == [run[r] EXCEPT !.phase = "queued", !.open = TRUE]
  <2>1. /\ run[r] \in SyncRun /\ job \in [Jobs -> JobRow] /\ run[r].phase = "checked" /\ ~run[r].ok
    BY AskedFor DEF RunStarts, SyncInv, RowsInv, RunsHaveJobs
  <2>2. x \in SyncRun /\ x.job = j /\ x.phase = "queued" /\ ~x.ok
    BY <1>0, <2>1 DEF SyncRun
  <2>3. /\ Becomes(r, x) /\ job' = job /\ UNCHANGED <<entry, procs, cancelling, dirs, early, restarted>>
        /\ overlapping' = IF UnendedOf(j) = {} THEN overlapping ELSE overlapping \union {j}
    BY <1>0, <1>2 DEF RunStarts, Becomes
  <2> HIDE DEF x
  <2>4. RunsInv' /\ TasksRest
    BY <1>0, <2>1, <2>2, <2>3, QueuesKeeps DEF Queues
  <2>5. run'[r] = x
    BY <2>2, <2>3, OneRun DEF SyncInv
  <2>6. Unread(r)' /\ Ender(r)' /\ (Shown(j)' => Shown(j))
    BY <2>2, <2>3, <2>5 DEF Unread, Ender, Shown
  <2> QED
    BY <1>0, <2>1, <2>2, <2>3, <2>4, <2>6, TaskStep
<1> QED
  BY <1>1, <1>2

\* Where a run not read yet is in hand, its job may be shown as running.
LEMMA ShowsRun ==
    ASSUME SyncInv, NEW r \in SyncRuns, NEW x \in SyncRun, Becomes(r, x), RunsInv', TasksRest,
           NEW j \in Jobs, run[r].job = j, x.job = j, run[r].phase # "none", x.phase # "none",
           x.ok => x.phase \in {"exited", "writing", "saved", "done"}, ~x.open,
           Ender(r)' \/ j \in early, job' = [job EXCEPT ![j].status = "running"],
           UNCHANGED <<entry, restarted, early>>, Ender(r) => Ender(r)'
    PROVE  SyncInv'
<1> DEFINE y == [job[j] EXCEPT !.status = "running"]
<1>1. job[j] \in JobRow /\ job[j].row # "new"
  BY AskedFor
<1>2. y \in JobRow /\ y.row = job[j].row
  BY <1>1 DEF JobRow, Statuses
<1>3. RowBecomes(j, y)
  BY DEF RowBecomes
<1> HIDE DEF y
<1>4. /\ job' \in [Jobs -> JobRow] /\ job'[j] = y
      /\ \A k \in Jobs : k # j => job'[k] = job[k]
  BY <1>2, <1>3, OneRow DEF SyncInv
<1>5. /\ run' \in [SyncRuns -> SyncRun] /\ run'[r] = x
      /\ \A q \in SyncRuns : q # r => run'[q] = run[q]
  BY OneRun DEF SyncInv
<1>6. SyncTypeOK'
  BY <1>4, <1>5 DEF SyncInv, SyncTypeOK, TasksRest
<1>7. NewIsIdle' /\ RunsHaveJobs'
  <2>1. NewIsIdle'
    BY <1>1, <1>2, <1>4 DEF SyncInv, RowsInv, NewIsIdle
  <2>2. \A k \in Jobs : job'[k].row = job[k].row
    BY <1>2, <1>4
  <2>3. RunsHaveJobs'
    BY <1>1, <1>5, <2>2 DEF SyncInv, RowsInv, RunsHaveJobs
  <2> QED
    BY <2>1, <2>3
<1>8. OpenIsAhead'
  BY <1>5 DEF SyncInv, RowsInv, OpenIsAhead, Unread
<1>9. RunningHasEnder'
  <2> SUFFICES ASSUME NEW k \in Jobs \ early, Shown(k)', ~restarted
               PROVE  \E q \in SyncRuns : run'[q].job = k /\ Ender(q)'
    BY DEF RunningHasEnder
  <2>1. CASE k = j
    BY <1>5, <2>1
  <2>2. CASE k # j
    <3>1. PICK q \in SyncRuns : run[q].job = k /\ Ender(q)
      BY <1>4, <2>2 DEF SyncInv, RowsInv, RunningHasEnder, Shown
    <3> QED
      BY <1>5, <2>2, <3>1 DEF Ender, Unread
  <2> QED
    BY <2>1, <2>2
<1> QED
  BY <1>6, <1>7, <1>8, <1>9 DEF SyncInv, RowsInv

LEMMA RunCommitsKeeps ==
    ASSUME SyncInv, NEW r \in SyncRuns, RunCommits(r)
    PROVE  SyncInv'
<1>0. PICK j \in Jobs : j = run[r].job
  BY AskedFor DEF RunCommits
<1>1. CASE job[j].row # "there"
  BY <1>0, <1>1, AsksForNothing
<1>2. CASE job[j].row = "there"
  <2> DEFINE x == [run[r] EXCEPT !.phase = "queued"]
  <2>1. run[r] \in SyncRun /\ run[r].phase = "checked" /\ ~run[r].ok /\ ~run[r].open
    BY AskedFor DEF RunCommits, SyncInv, RowsInv, RunsHaveJobs, Unlocked
  <2>2. x \in SyncRun /\ x.job = j /\ x.phase = "queued" /\ ~x.ok /\ ~x.open
    BY <1>0, <2>1 DEF SyncRun
  <2>3. /\ Becomes(r, x) /\ UNCHANGED <<entry, procs, cancelling, dirs, early, restarted>>
        /\ overlapping' = IF UnendedOf(j) = {} THEN overlapping ELSE overlapping \union {j}
        /\ job' = [job EXCEPT ![j].status = "running"]
    BY <1>0, <1>2 DEF RunCommits, Becomes
  <2> HIDE DEF x
  <2>4. RunsInv' /\ TasksRest
    BY <1>0, <2>1, <2>2, <2>3, QueuesKeeps DEF Queues
  <2>5. run'[r] = x
    BY <2>2, <2>3, OneRun DEF SyncInv
  <2>6. Ender(r)'
    BY <2>2, <2>5 DEF Unread, Ender
  <2> QED
    BY <1>0, <2>1, <2>2, <2>3, <2>4, <2>6, ShowsRun
<1> QED
  BY <1>1, <1>2

\* The request commits: its run has not read the rows, or the job is noted.
LEMMA RequestCommitsKeeps ==
    ASSUME SyncInv, NEW r \in SyncRuns, RequestCommits(r)
    PROVE  SyncInv'
<1> DEFINE x == [run[r] EXCEPT !.open = FALSE]
<1>1. Unread(r) \/ (run[r].phase = "writing" /\ run[r].job \in early)
  BY DEF SyncInv, RowsInv, OpenIsAhead, RequestCommits
<1>2. run[r].phase \notin {"none", "saved", "done"} /\ Unended(r)
  BY <1>1 DEF Unread, Unended, InFlight
<1>3. PICK j \in Jobs : j = run[r].job
  BY <1>2, AskedFor
<1>4. run[r] \in SyncRun
  BY <1>2, AskedFor
<1>5. /\ x \in SyncRun /\ x.job = j /\ x.phase = run[r].phase /\ x.ok = run[r].ok
      /\ x.same = run[r].same /\ ~x.open
  BY <1>3, <1>4 DEF SyncRun
<1>6. /\ Becomes(r, x) /\ job' = [job EXCEPT ![j].status = "running"]
      /\ UNCHANGED <<entry, procs, cancelling, dirs, overlapping, early, restarted>>
  BY <1>3 DEF RequestCommits, Becomes
<1> HIDE DEF x
<1>7. /\ run'[r] = x
      /\ \A q \in SyncRuns : q # r => run'[q] = run[q]
  BY <1>5, <1>6, OneRun DEF SyncInv
<1>8. /\ Unread(r)' <=> Unread(r)
      /\ Ender(r)' <=> Ender(r)
      /\ HasDirectory(r)' <=> HasDirectory(r)
      /\ Holders' = Holders
  BY <1>5, <1>7 DEF Unread, Ender, HasDirectory, Holders
<1>9. RunsInv'
  <2>1. HoldersBounded'
    BY <1>8 DEF SyncInv, RunsInv, HoldersBounded
  <2> QED
    BY <1>2, <1>3, <1>5, <1>6, <1>8, <2>1, RunMoves
<1>10. TasksRest
  BY <1>6 DEF TasksRest, SyncInv, SyncTypeOK
<1>11. x.ok => x.phase \in {"exited", "writing", "saved", "done"}
  BY <1>5 DEF SyncInv, RowsInv, RunsHaveJobs
<1>12. Ender(r)' \/ j \in early
  BY <1>1, <1>3, <1>8 DEF Ender
<1> QED
  BY <1>2, <1>3, <1>5, <1>6, <1>8, <1>9, <1>10, <1>11, <1>12, ShowsRun

\* A run that enters the semaphore makes the newest directory of its job.
LEMMA StartRsyncKeeps ==
    ASSUME SyncInv, NEW r \in SyncRuns, StartRsync(r)
    PROVE  SyncInv'
<1> DEFINE x == [run[r] EXCEPT !.phase = "rsync"]
<1>0. PICK j \in Jobs : j = run[r].job
  BY AskedFor DEF StartRsync
<1>1. run[r] \in SyncRun /\ run[r].phase = "queued" /\ ~run[r].ok /\ job \in [Jobs -> JobRow]
  BY AskedFor DEF StartRsync, SyncInv, RowsInv, RunsHaveJobs
<1>2. x \in SyncRun /\ x.job = j /\ x.phase = "rsync" /\ ~x.ok /\ x.open = run[r].open
  BY <1>0, <1>1 DEF SyncRun
<1>3. /\ Becomes(r, x)
      /\ procs' = [procs EXCEPT ![j] = r] /\ dirs' = [dirs EXCEPT ![j] = Append(dirs[j], r)]
      /\ UNCHANGED <<job, entry, cancelling, overlapping, early, restarted>>
  BY <1>0 DEF StartRsync, Becomes
<1> HIDE DEF x
<1>4. /\ run'[r] = x
      /\ \A q \in SyncRuns : q # r => run'[q] = run[q]
  BY <1>2, <1>3, OneRun DEF SyncInv
<1>5. /\ dirs' \in [Jobs -> Seq(SyncRuns)] /\ dirs[j] \in Seq(SyncRuns)
      /\ dirs'[j] = Append(dirs[j], r)
      /\ \A k \in Jobs : k # j => dirs'[k] = dirs[k]
  BY <1>3 DEF SyncInv, SyncTypeOK
<1>6. /\ Unread(r)' /\ Ender(r)' /\ (Shown(j)' => Shown(j))
      /\ \A k \in Jobs : UnendedOf(k)' = UnendedOf(k)
      /\ r \in UnendedOf(j)
      /\ Holders' = Holders \union {r}
  BY <1>0, <1>1, <1>2, <1>3, <1>4 DEF Unread, Ender, Shown, UnendedOf, Unended, InFlight, Holders
<1>7. HoldersBounded'
  BY <1>6, OneEnters DEF StartRsync
<1>8. OneUnended'
  BY <1>3, <1>6 DEF SyncInv, RunsInv, OneUnended
<1>9. NewestIsOwn'
  <2>1. ASSUME NEW k \in Jobs \ overlapping, NEW q \in UnendedOf(k), HasDirectory(q)'
        PROVE  dirs'[k] # <<>> /\ dirs'[k][Len(dirs'[k])] = q
    <3>1. q \in SyncRuns /\ run[q].job = k
      BY DEF UnendedOf
    <3>2. CASE k = j
      <4>1. q = r
        BY <1>6, <3>2 DEF SyncInv, RunsInv, OneUnended
      <4> QED
        BY <1>5, <3>2, <4>1
    <3>3. CASE k # j
      <4>1. q # r /\ HasDirectory(q)
        BY <1>0, <1>4, <2>1, <3>1, <3>3 DEF HasDirectory
      <4> QED
        BY <1>5, <3>3, <4>1 DEF SyncInv, RunsInv, NewestIsOwn
    <3> QED
      BY <3>2, <3>3
  <2> QED
    BY <1>3, <1>6, <2>1 DEF NewestIsOwn
<1>10. GoodKept'
  <2>1. \A q \in SyncRuns, k \in Jobs : GoodRun(q, k)' <=> GoodRun(q, k)
    BY <1>1, <1>2, <1>4 DEF GoodRun
  <2>2. ASSUME NEW k \in Jobs, NEW i \in 1..Len(dirs[k])
        PROVE  i \in 1..Len(dirs'[k]) /\ dirs'[k][i] = dirs[k][i]
    <3>1. ASSUME NEW s \in Seq(SyncRuns), i \in 1..Len(s)
          PROVE  i \in 1..Len(Append(s, r)) /\ Append(s, r)[i] = s[i]
      BY <3>1
    <3>2. CASE k = j
      BY <1>5, <2>2, <3>1, <3>2
    <3>3. CASE k # j
      BY <1>5, <2>2, <3>3
    <3> QED
      BY <3>2, <3>3
  <2>3. ASSUME NEW k \in Jobs \ overlapping, NEW q \in SyncRuns, GoodRun(q, k)'
        PROVE  (\E i \in 1..Len(dirs[k]) : dirs[k][i] \in SyncRuns /\ GoodRun(dirs[k][i], k))'
    <3>1. PICK i \in 1..Len(dirs[k]) : dirs[k][i] \in SyncRuns /\ GoodRun(dirs[k][i], k)
      BY <2>1, <2>3 DEF SyncInv, RunsInv, GoodKept
    <3>2. PICK g \in SyncRuns : g = dirs[k][i] /\ GoodRun(g, k)'
      BY <2>1, <2>3, <3>1
    <3>3. i \in 1..Len(dirs'[k]) /\ dirs'[k][i] = g
      BY <2>2, <3>2
    <3> QED
      BY <3>2, <3>3 DEF GoodRun
  <2> QED
    BY <1>3, <2>3 DEF GoodKept
<1>11. TasksRest
  BY <1>3, <1>5 DEF TasksRest, SyncInv, SyncTypeOK
<1> QED
  BY <1>0, <1>1, <1>2, <1>3, <1>6, <1>7, <1>8, <1>9, <1>10, <1>11, TaskStep DEF RunsInv

\* A run enters the semaphore and fails at once.
LEMMA StartRaisesKeeps ==
    ASSUME SyncInv, NEW r \in SyncRuns, StartRaises(r)
    PROVE  SyncInv'
<1> DEFINE x == [run[r] EXCEPT !.phase = "raised"]
<1>0. PICK j \in Jobs : j = run[r].job
  BY AskedFor DEF StartRaises
<1>1. run[r] \in SyncRun /\ run[r].phase = "queued" /\ ~run[r].ok /\ job \in [Jobs -> JobRow]
  BY AskedFor DEF StartRaises, SyncInv, RowsInv, RunsHaveJobs
<1>2. x \in SyncRun /\ x.job = j /\ x.phase = "raised" /\ ~x.ok /\ x.open = run[r].open
  BY <1>0, <1>1 DEF SyncRun
<1>3. /\ Becomes(r, x)
      /\ UNCHANGED <<job, entry, procs, cancelling, dirs, overlapping, early, restarted>>
  BY DEF StartRaises, Becomes
<1> HIDE DEF x
<1>4. /\ run'[r] = x
      /\ \A q \in SyncRuns : q # r => run'[q] = run[q]
  BY <1>2, <1>3, OneRun DEF SyncInv
<1>5. /\ Unread(r)' /\ Ender(r)' /\ (Shown(j)' => Shown(j))
      /\ Unended(r) /\ ~HasDirectory(r)'
      /\ Holders' = Holders \union {r}
  BY <1>1, <1>2, <1>3, <1>4 DEF Unread, Ender, Shown, Unended, InFlight, HasDirectory, Holders
<1>6. RunsInv'
  <2>1. HoldersBounded'
    BY <1>5, OneEnters DEF StartRaises
  <2> QED
    BY <1>0, <1>1, <1>2, <1>3, <1>5, <2>1, RunMoves
<1>7. TasksRest
  BY <1>3 DEF TasksRest, SyncInv, SyncTypeOK
<1> QED
  BY <1>0, <1>1, <1>2, <1>3, <1>5, <1>6, <1>7, TaskStep

\* The rsync of a run ends, by itself or by a cancel or a deletion.
LEMMA RsyncStops ==
    ASSUME SyncInv, NEW r \in SyncRuns, NEW ok \in BOOLEAN, run[r].phase = "rsync",
           run' = [run EXCEPT ![r].phase = "exited", ![r].ok = ok],
           procs' \in [Jobs -> SyncRuns \union {NoRun}],
           cancelling' \subseteq Jobs, UNCHANGED <<job, entry, dirs, overlapping, early, restarted>>
    PROVE  SyncInv'
<1> DEFINE x == [run[r] EXCEPT !.phase = "exited", !.ok = ok]
<1>0. PICK j \in Jobs : j = run[r].job
  BY AskedFor
<1>1. run[r] \in SyncRun /\ ~run[r].ok /\ job \in [Jobs -> JobRow]
  BY AskedFor DEF SyncInv, RowsInv, RunsHaveJobs
<1>2. x \in SyncRun /\ x.job = j /\ x.phase = "exited" /\ x.open = run[r].open
  BY <1>0, <1>1 DEF SyncRun
<1>3. Becomes(r, x)
  BY DEF Becomes
<1> HIDE DEF x
<1>4. /\ run'[r] = x
      /\ \A q \in SyncRuns : q # r => run'[q] = run[q]
  BY <1>2, <1>3, OneRun DEF SyncInv
<1>5. /\ Unread(r)' /\ Ender(r)' /\ (Shown(j)' => Shown(j))
      /\ Unended(r) /\ HasDirectory(r) /\ Holders' = Holders
  BY <1>2, <1>4 DEF Unread, Ender, Shown, Unended, InFlight, HasDirectory, Holders
<1>6. RunsInv'
  <2>1. HoldersBounded'
    BY <1>5 DEF SyncInv, RunsInv, HoldersBounded
  <2> QED
    BY <1>0, <1>2, <1>3, <1>5, <2>1, RunMoves
<1>7. TasksRest
  BY DEF TasksRest, SyncInv, SyncTypeOK
<1> QED
  BY <1>0, <1>1, <1>2, <1>3, <1>5, <1>6, <1>7, TaskStep

LEMMA RsyncEndsKeeps ==
    ASSUME SyncInv, NEW r \in SyncRuns, NEW ok \in BOOLEAN, RsyncEnds(r, ok)
    PROVE  SyncInv'
<1>1. run[r].job \in Jobs /\ procs' \in [Jobs -> SyncRuns \union {NoRun}] /\ cancelling' \subseteq Jobs
  BY AskedFor DEF SyncInv, SyncTypeOK, RsyncEnds
<1> QED
  BY <1>1, RsyncStops DEF RsyncEnds

LEMMA CancelTerminatesKeeps ==
    ASSUME SyncInv, NEW j \in Jobs, CancelTerminates(j)
    PROVE  SyncInv'
<1>1. procs' \in [Jobs -> SyncRuns \union {NoRun}] /\ cancelling' \subseteq Jobs
  BY DEF SyncInv, SyncTypeOK, CancelTerminates, Terminated
<1>2. CASE run[procs[j]].phase = "rsync"
  <2>1. PICK r \in SyncRuns : r = procs[j]
    BY DEF SyncInv, SyncTypeOK, CancelTerminates
  <2>2. run' = [run EXCEPT ![r].phase = "exited", ![r].ok = FALSE]
    BY <1>2, <2>1 DEF CancelTerminates, Terminated
  <2> QED
    BY <1>1, <1>2, <2>1, <2>2, RsyncStops DEF CancelTerminates
<1>3. CASE run[procs[j]].phase # "rsync"
  <2>1. run' = run
    BY <1>3 DEF CancelTerminates, Terminated
  <2>2. SyncTypeOK' /\ NewIsIdle' /\ RunsHaveJobs' /\ OpenIsAhead'
    BY <1>1, <2>1 DEF SyncInv, RowsInv, SyncTypeOK, NewIsIdle, RunsHaveJobs, OpenIsAhead, Unread,
                      CancelTerminates
  <2>3. RunningHasEnder'
    BY <2>1 DEF SyncInv, RowsInv, RunningHasEnder, Shown, Ender, Unread, CancelTerminates
  <2> QED
    BY <2>1, <2>2, <2>3, RunsUntouched DEF SyncInv, RowsInv, CancelTerminates
<1> QED
  BY <1>2, <1>3

\* The rows of the job go, and its rsync ends.
LEMMA DeleteJobKeeps ==
    ASSUME SyncInv, NEW j \in Jobs, DeleteSyncJob(j)
    PROVE  SyncInv'
<1> DEFINE y == [job[j] EXCEPT !.row = "deleted"]
<1>1. job[j] \in JobRow
  BY DEF SyncInv, SyncTypeOK
<1>2. y \in JobRow /\ y.row = "deleted"
  BY <1>1 DEF JobRow
<1>3. /\ RowBecomes(j, y) /\ UNCHANGED <<cancelling, dirs, overlapping, early, restarted>>
      /\ entry' \in [Jobs -> BOOLEAN] /\ procs' \in [Jobs -> SyncRuns \union {NoRun}]
  BY DEF DeleteSyncJob, RowBecomes, SyncInv, SyncTypeOK, Terminated
<1> HIDE DEF y
<1>4. CASE run' = run
  BY <1>2, <1>3, <1>4, RowWritten
<1>5. CASE run' # run
  <2>1. /\ procs[j] # NoRun /\ run[procs[j]].phase = "rsync"
        /\ run' = [run EXCEPT ![procs[j]].phase = "exited", ![procs[j]].ok = FALSE]
    BY <1>5 DEF DeleteSyncJob, Terminated
  <2>2. PICK r \in SyncRuns : r = procs[j]
    BY <2>1 DEF SyncInv, SyncTypeOK
  <2> DEFINE x == [run[r] EXCEPT !.phase = "exited", !.ok = FALSE]
  <2>3. run[r] \in SyncRun /\ ~run[r].ok /\ run[r].phase = "rsync" /\ run[r].job \in Jobs
    BY <2>1, <2>2, AskedFor DEF SyncInv, RowsInv, RunsHaveJobs
  <2>4. x \in SyncRun /\ x.job = run[r].job /\ x.phase = "exited" /\ ~x.ok
    BY <2>3 DEF SyncRun
  <2>5. Becomes(r, x)
    BY <2>1, <2>2 DEF Becomes
  <2> HIDE DEF x
  <2>6. /\ run' \in [SyncRuns -> SyncRun] /\ run'[r] = x
        /\ \A q \in SyncRuns : q # r => run'[q] = run[q]
    BY <2>4, <2>5, OneRun DEF SyncInv
  <2>7. /\ job' \in [Jobs -> JobRow] /\ job'[j] = y
        /\ \A k \in Jobs : k # j => job'[k] = job[k]
    BY <1>2, <1>3, OneRow DEF SyncInv
  <2>8. /\ Unread(r)' /\ Unended(r) /\ HasDirectory(r) /\ Holders' = Holders
        /\ \A k \in Jobs : Shown(k)' => Shown(k)
        /\ \A q \in SyncRuns : Ender(q) => Ender(q)' /\ run'[q].job = run[q].job
    BY <1>2, <2>3, <2>4, <2>6, <2>7
       DEF Unread, Unended, InFlight, HasDirectory, Holders, Shown, Ender
  <2>9. RunsInv'
    <3>1. HoldersBounded'
      BY <2>8 DEF SyncInv, RunsInv, HoldersBounded
    <3> QED
      BY <1>3, <2>3, <2>4, <2>5, <2>8, <3>1, RunMoves
  <2>10. SyncTypeOK'
    BY <1>3, <2>6, <2>7 DEF SyncInv, SyncTypeOK
  <2>11. NewIsIdle'
    BY <1>2, <2>7 DEF SyncInv, RowsInv, NewIsIdle
  <2>12. RunsHaveJobs'
    <3>1. \A k \in Jobs : job[k].row # "new" => job'[k].row # "new"
      BY <1>2, <2>7
    <3> QED
      BY <2>3, <2>4, <2>6, <3>1 DEF SyncInv, RowsInv, RunsHaveJobs
  <2>13. OpenIsAhead'
    BY <1>3, <2>6, <2>8 DEF SyncInv, RowsInv, OpenIsAhead, Unread
  <2>14. RunningHasEnder'
    BY <1>3, <2>8, EnderStays
  <2> QED
    BY <2>9, <2>10, <2>11, <2>12, <2>13, <2>14 DEF SyncInv, RowsInv
<1> QED
  BY <1>4, <1>5

\* The rows are read: where a run is shown, its outcome is not what was read,
\* and where the request has not committed the job is noted.
LEMMA ReadsRowsKeeps ==
    ASSUME SyncInv, NEW r \in SyncRuns, NEW ok \in BOOLEAN, ok => run[r].ok,
           run[r].phase \in {"exited", "raised"}, ReadsRows(r, ok)
    PROVE  SyncInv'
<1>0. PICK j \in Jobs : j = run[r].job
  BY AskedFor
<1> DEFINE same == job[j].status = OutcomeStatus(ok)
           x == [run[r] EXCEPT !.phase = "writing", !.ok = ok, !.same = same]
<1>1. run[r] \in SyncRun /\ job \in [Jobs -> JobRow]
  BY AskedFor
<1>2. /\ x \in SyncRun /\ x.job = j /\ x.phase = "writing" /\ x.ok = ok /\ x.same = same
      /\ x.open = run[r].open
  BY <1>0, <1>1 DEF SyncRun
<1>3. /\ Becomes(r, x)
      /\ early' = IF run[r].open THEN early \union {j} ELSE early
      /\ UNCHANGED <<job, entry, procs, cancelling, dirs, overlapping, restarted>>
  BY <1>0 DEF ReadsRows, Becomes
<1>4. job[j].status = "running" => ~same
  BY DEF OutcomeStatus
<1> HIDE DEF x, same
<1>5. /\ run'[r] = x
      /\ \A q \in SyncRuns : q # r => run'[q] = run[q]
  BY <1>2, <1>3, OneRun DEF SyncInv
<1>6. Shown(j)' => Shown(j) /\ Ender(r)'
  BY <1>2, <1>3, <1>4, <1>5 DEF Shown, Ender
<1>7. /\ Unended(r) /\ (HasDirectory(r)' => HasDirectory(r))
      /\ Holders' = Holders
  BY <1>2, <1>5 DEF Unended, InFlight, Unread, HasDirectory, Holders
<1>8. RunsInv'
  <2>1. HoldersBounded'
    BY <1>7 DEF SyncInv, RunsInv, HoldersBounded
  <2> QED
    BY <1>0, <1>2, <1>3, <1>7, <2>1, RunMoves
<1>9. TasksRest
  BY <1>3 DEF TasksRest, SyncInv, SyncTypeOK
<1> QED
  BY <1>0, <1>1, <1>2, <1>3, <1>6, <1>8, <1>9, TaskStep

LEMMA OutcomeReadsKeeps ==
    ASSUME SyncInv, NEW r \in SyncRuns, OutcomeReads(r)
    PROVE  SyncInv'
<1>0. PICK j \in Jobs : j = run[r].job
  BY AskedFor DEF OutcomeReads
<1>1. run[r] \in SyncRun /\ run[r].phase = "exited" /\ job \in [Jobs -> JobRow] /\ run[r].ok \in BOOLEAN
  BY AskedFor DEF OutcomeReads, SyncRun
<1>2. CASE run[r].open \/ job[j].row # "there"
  <2> DEFINE x == [run[r] EXCEPT !.phase = "raised", !.ok = FALSE]
  <2>1. x \in SyncRun /\ x.job = j /\ x.phase = "raised" /\ ~x.ok
    BY <1>0, <1>1 DEF SyncRun
  <2>2. /\ Becomes(r, x)
        /\ UNCHANGED <<job, entry, procs, cancelling, dirs, overlapping, early, restarted>>
    BY <1>0, <1>2 DEF OutcomeReads, Becomes
  <2> HIDE DEF x
  <2>3. /\ run'[r] = x
        /\ \A q \in SyncRuns : q # r => run'[q] = run[q]
    BY <2>1, <2>2, OneRun DEF SyncInv
  <2>4. /\ Unread(r)' /\ Ender(r)' /\ (Shown(j)' => Shown(j))
        /\ Unended(r) /\ ~HasDirectory(r)' /\ Holders' = Holders
    BY <1>1, <2>1, <2>2, <2>3 DEF Unread, Ender, Shown, Unended, InFlight, HasDirectory, Holders
  <2>5. RunsInv'
    <3>1. HoldersBounded'
      BY <2>4 DEF SyncInv, RunsInv, HoldersBounded
    <3> QED
      BY <1>0, <1>1, <2>1, <2>2, <2>4, <3>1, RunMoves
  <2>6. TasksRest
    BY <2>2 DEF TasksRest, SyncInv, SyncTypeOK
  <2> QED
    BY <1>0, <1>1, <2>1, <2>2, <2>4, <2>5, <2>6, TaskStep
<1>3. CASE ~(run[r].open \/ job[j].row # "there")
  <2>1. ReadsRows(r, run[r].ok)
    BY <1>0, <1>3 DEF OutcomeReads
  <2>2. ASSUME NEW ok \in BOOLEAN, ok = run[r].ok, ReadsRows(r, ok)
        PROVE  SyncInv'
    BY <1>1, <2>2, ReadsRowsKeeps
  <2> QED
    BY <1>1, <2>1, <2>2
<1> QED
  BY <1>2, <1>3

LEMMA RaisedReadsKeeps ==
    ASSUME SyncInv, NEW r \in SyncRuns, RaisedReads(r)
    PROVE  SyncInv'
  BY ReadsRowsKeeps DEF RaisedReads

\* The outcome of a run is saved: if the row showed a run, either not any more,
\* or this was not the one to end it.
LEMMA RunSavesKeeps ==
    ASSUME SyncInv, NEW r \in SyncRuns, RunSaves(r)
    PROVE  SyncInv'
<1>0. PICK j \in Jobs : j = run[r].job
  BY AskedFor DEF RunSaves
<1>1. /\ run[r] \in SyncRun /\ run[r].phase = "writing" /\ job \in [Jobs -> JobRow] /\ ~run[r].open
      /\ job[j] \in JobRow
  BY <1>0, AskedFor DEF RunSaves, Unlocked
<1>2. UNCHANGED <<entry, procs, cancelling, dirs, overlapping, early, restarted>>
  BY DEF RunSaves
<1>3. TasksRest
  BY <1>2 DEF TasksRest, SyncInv, SyncTypeOK
<1>4. Unended(r) /\ (run[r].ok => HasDirectory(r)) /\ r \in Holders
  BY <1>1 DEF Unended, InFlight, HasDirectory, Holders
<1>5. CASE job[j].row = "there"
  <2> DEFINE x == [run[r] EXCEPT !.phase = "saved", !.same = FALSE]
             s == IF run[r].same THEN job[j].status ELSE OutcomeStatus(run[r].ok)
             y == [job[j] EXCEPT !.status = s]
  <2>1. x \in SyncRun /\ x.job = j /\ x.phase = "saved" /\ x.ok = run[r].ok /\ ~x.open
    BY <1>0, <1>1 DEF SyncRun
  <2>2. s \in Statuses /\ (s = "running" => run[r].same /\ job[j].status = "running")
    BY <1>1 DEF JobRow, OutcomeStatus, Statuses
  <2>3. Becomes(r, x)
    BY <1>0, <1>5 DEF RunSaves, Becomes
  <2>4. RowBecomes(j, y)
    BY <1>0, <1>5 DEF RunSaves, RowBecomes
  <2> HIDE DEF x, s
  <2>5. y \in JobRow /\ y.row = job[j].row /\ y.status = s
    BY <1>1, <2>2 DEF JobRow
  <2> HIDE DEF y
  <2>6. /\ run'[r] = x
        /\ \A q \in SyncRuns : q # r => run'[q] = run[q]
    BY <2>1, <2>3, OneRun DEF SyncInv
  <2>7. /\ job' \in [Jobs -> JobRow] /\ job'[j] = y
        /\ \A k \in Jobs : k # j => job'[k] = job[k]
    BY <2>4, <2>5, OneRow DEF SyncInv
  <2>8. Shown(j)' => Shown(j) /\ ~Ender(r)
    BY <1>1, <1>5, <2>2, <2>5, <2>7 DEF Shown, Ender, Unread
  <2>9. Holders' = Holders /\ (HasDirectory(r)' => HasDirectory(r))
    BY <1>1, <1>4, <2>1, <2>6 DEF Holders, HasDirectory
  <2>10. RunsInv'
    <3>1. HoldersBounded'
      BY <2>9 DEF SyncInv, RunsInv, HoldersBounded
    <3> QED
      BY <1>0, <1>1, <1>2, <1>4, <2>1, <2>3, <2>9, <3>1, RunMoves
  <2> QED
    BY <1>0, <1>1, <1>2, <1>3, <2>1, <2>3, <2>5, <2>7, <2>8, <2>10, TaskStep
<1>6. CASE job[j].row # "there"
  <2> DEFINE x == [run[r] EXCEPT !.phase = "done", !.ok = FALSE, !.same = FALSE]
  <2>1. x \in SyncRun /\ x.job = j /\ x.phase = "done" /\ ~x.ok /\ ~x.open
    BY <1>0, <1>1 DEF SyncRun
  <2>2. Becomes(r, x) /\ job' = job
    BY <1>0, <1>6 DEF RunSaves, Becomes
  <2> HIDE DEF x
  <2>3. /\ run'[r] = x
        /\ \A q \in SyncRuns : q # r => run'[q] = run[q]
    BY <2>1, <2>2, OneRun DEF SyncInv
  <2>4. Holders' \subseteq Holders /\ ~Unended(r)' /\ ~Shown(j)'
    BY <1>6, <2>1, <2>2, <2>3 DEF Holders, Unended, InFlight, Unread, Shown
  <2>5. RunsInv'
    <3>1. HoldersBounded'
      BY <2>4, NobodyEnters DEF SyncInv, RunsInv
    <3> QED
      BY <1>0, <1>1, <1>2, <2>1, <2>2, <2>4, <3>1, RunMoves
  <2> QED
    BY <1>0, <1>1, <1>2, <1>3, <2>1, <2>2, <2>4, <2>5, TaskStep
<1> QED
  BY <1>5, <1>6

\* The end of a run: where nothing overlapped its own directory is the newest,
\* which pruning keeps.
LEMMA RunEndsKeeps ==
    ASSUME SyncInv, NEW r \in SyncRuns, RunEnds(r)
    PROVE  SyncInv'
<1> DEFINE x == [run[r] EXCEPT !.phase = "done"]
<1>0. PICK j \in Jobs : j = run[r].job
  BY AskedFor DEF RunEnds
<1>1. run[r] \in SyncRun /\ run[r].phase = "saved" /\ job \in [Jobs -> JobRow] /\ ~run[r].open
  BY AskedFor DEF RunEnds, SyncInv, RowsInv, OpenIsAhead, Unread
<1>2. x \in SyncRun /\ x.job = j /\ x.phase = "done" /\ x.ok = run[r].ok /\ ~x.open
  BY <1>0, <1>1 DEF SyncRun
<1>3. Becomes(r, x) /\ UNCHANGED <<job, entry, procs, cancelling, overlapping, early, restarted>>
  BY DEF RunEnds, Becomes
<1> HIDE DEF x
<1>4. /\ run'[r] = x
      /\ \A q \in SyncRuns : q # r => run'[q] = run[q]
  BY <1>2, <1>3, OneRun DEF SyncInv
<1>5. /\ dirs' \in [Jobs -> Seq(SyncRuns)] /\ dirs[j] \in Seq(SyncRuns)
      /\ \A k \in Jobs : k # j \/ ~run[r].ok => dirs'[k] = dirs[k]
      /\ run[r].ok => dirs'[j] = Kept(dirs[j])
  <2>1. dirs \in [Jobs -> Seq(SyncRuns)] /\ dirs[j] \in Seq(SyncRuns)
    BY DEF SyncInv, SyncTypeOK
  <2>2. Kept(dirs[j]) \in Seq(SyncRuns)
    BY <2>1, KeptTyped
  <2>3. CASE run[r].ok
    <3>1. dirs' = [dirs EXCEPT ![j] = Kept(dirs[j])]
      BY <1>0, <2>3 DEF RunEnds
    <3> QED
      BY <2>1, <2>2, <2>3, <3>1
  <2>4. CASE ~run[r].ok
    BY <2>1, <2>4 DEF RunEnds
  <2> QED
    BY <2>3, <2>4
<1>6. /\ \A k \in Jobs : UnendedOf(k)' \subseteq UnendedOf(k) \ {r}
      /\ r \in UnendedOf(j)
      /\ Holders' \subseteq Holders
      /\ ~Ender(r) /\ (Shown(j)' => Shown(j))
  BY <1>0, <1>1, <1>2, <1>3, <1>4 DEF UnendedOf, Unended, InFlight, Unread, Holders, Ender, Shown
<1>7. HoldersBounded'
  BY <1>6, NobodyEnters DEF SyncInv, RunsInv
<1>8. OneUnended'
  BY <1>3, <1>6 DEF SyncInv, RunsInv, OneUnended
<1>9. NewestIsOwn'
  <2>1. ASSUME NEW k \in Jobs \ overlapping, NEW q \in UnendedOf(k)', HasDirectory(q)'
        PROVE  dirs'[k] # <<>> /\ dirs'[k][Len(dirs'[k])] = q
    <3>1. q \in UnendedOf(k) /\ q # r /\ q \in SyncRuns
      BY <1>6, <2>1 DEF UnendedOf
    <3>2. k # j
      BY <1>6, <3>1 DEF SyncInv, RunsInv, OneUnended
    <3>3. HasDirectory(q)
      BY <1>4, <2>1, <3>1 DEF HasDirectory
    <3> QED
      BY <1>5, <3>1, <3>2, <3>3 DEF SyncInv, RunsInv, NewestIsOwn
  <2> QED
    BY <1>3, <2>1 DEF NewestIsOwn
<1>10. GoodKept'
  <2>1. \A q \in SyncRuns, k \in Jobs : GoodRun(q, k)' <=> GoodRun(q, k)
    BY <1>0, <1>1, <1>2, <1>4 DEF GoodRun
  <2>2. ASSUME NEW k \in Jobs \ overlapping, NEW q \in SyncRuns, GoodRun(q, k)'
        PROVE  (\E i \in 1..Len(dirs[k]) : dirs[k][i] \in SyncRuns /\ GoodRun(dirs[k][i], k))'
    <3>1. CASE k # j \/ ~run[r].ok
      <4>1. PICK i \in 1..Len(dirs[k]) : dirs[k][i] \in SyncRuns /\ GoodRun(dirs[k][i], k)
        BY <2>1, <2>2 DEF SyncInv, RunsInv, GoodKept
      <4>2. PICK g \in SyncRuns : g = dirs[k][i] /\ GoodRun(g, k)'
        BY <2>1, <2>2, <4>1
      <4>3. dirs'[k] = dirs[k]
        BY <1>5, <3>1
      <4> QED
        BY <4>1, <4>2, <4>3 DEF GoodRun
    <3>2. CASE k = j /\ run[r].ok
      <4>1. dirs[j] # <<>> /\ dirs[j][Len(dirs[j])] = r
        BY <1>6, <3>2 DEF SyncInv, RunsInv, NewestIsOwn, HasDirectory
      <4>2. /\ dirs'[j] \in Seq(SyncRuns) /\ dirs'[j] # <<>>
            /\ dirs'[j][Len(dirs'[j])] = r
        BY <1>5, <3>2, <4>1, KeptNewest
      <4>3. Len(dirs'[j]) \in 1..Len(dirs'[j])
        BY <4>2
      <4>4. GoodRun(r, j)'
        BY <1>2, <1>4, <3>2 DEF GoodRun
      <4> QED
        BY <3>2, <4>2, <4>3, <4>4 DEF GoodRun
    <3> QED
      BY <3>1, <3>2
  <2> QED
    BY <1>3, <2>2 DEF GoodKept
<1>11. TasksRest
  BY <1>3, <1>5 DEF TasksRest, SyncInv, SyncTypeOK
<1>12. x.ok => x.phase \in {"exited", "writing", "saved", "done"}
  BY <1>2
<1> QED
  BY <1>0, <1>1, <1>2, <1>3, <1>6, <1>7, <1>8, <1>9, <1>10, <1>11, <1>12, TaskStep DEF RunsInv

-----------------------------------------------------------------------------
(* The restart, and the theorem                                             *)

\* A restart ends every run where it is; a directory that rsync had finished
\* stays.
LEMMA RestartServerKeeps ==
    ASSUME SyncInv, RestartServer
    PROVE  SyncInv'
<1>1. ASSUME NEW q \in SyncRuns
      PROVE  /\ run'[q] \in SyncRun /\ run'[q].job = run[q].job /\ run'[q].ok = run[q].ok
             /\ run'[q].phase = IF run[q].phase = "none" THEN "none" ELSE "done"
             /\ ~run'[q].open
  <2>1. run[q] \in SyncRun /\ (run[q].phase = "none" => ~run[q].open)
    BY DEF SyncInv, SyncTypeOK, RowsInv, OpenIsAhead, Unread
  <2> DEFINE x == [run[q] EXCEPT !.phase = "done", !.same = FALSE, !.open = FALSE]
  <2>2. x \in SyncRun /\ x.job = run[q].job /\ x.ok = run[q].ok /\ x.phase = "done" /\ ~x.open
    BY <2>1 DEF SyncRun
  <2>3. run'[q] = IF run[q].phase = "none" THEN run[q] ELSE x
    BY DEF RestartServer
  <2> HIDE DEF x
  <2> QED
    BY <2>1, <2>2, <2>3
<1>2. run' \in [SyncRuns -> SyncRun]
  <2>1. run' = [q \in SyncRuns |-> run'[q]]
    BY DEF RestartServer
  <2> QED
    BY <1>1, <2>1
<1>3. entry' \in [Jobs -> BOOLEAN] /\ procs' \in [Jobs -> SyncRuns \union {NoRun}]
  BY DEF RestartServer
<1>4. /\ UNCHANGED <<job, dirs, overlapping, early>> /\ cancelling' = {} /\ restarted' = TRUE
  BY DEF RestartServer
<1>5. SyncTypeOK' /\ NewIsIdle'
  BY <1>2, <1>3, <1>4 DEF SyncInv, SyncTypeOK, RowsInv, NewIsIdle
<1>6. RunsHaveJobs'
  BY <1>1, <1>4 DEF SyncInv, RowsInv, RunsHaveJobs
<1>7. OpenIsAhead' /\ RunningHasEnder'
  BY <1>1, <1>4 DEF OpenIsAhead, RunningHasEnder
<1>8. /\ Holders' = {} /\ \A k \in Jobs : UnendedOf(k)' = {}
  BY <1>1 DEF Holders, UnendedOf, Unended, InFlight, Unread
<1>9. HoldersBounded'
  BY <1>8, NobodyEnters DEF SyncInv, RunsInv
<1>10. OneUnended' /\ NewestIsOwn'
  BY <1>4, <1>8 DEF OneUnended, NewestIsOwn
<1>11. ASSUME NEW k \in Jobs \ overlapping, NEW q \in SyncRuns, GoodRun(q, k)'
       PROVE  \E i \in 1..Len(dirs[k]) : dirs[k][i] \in SyncRuns /\ GoodRun(dirs[k][i], k)'
  <2>1. run[q].job = k /\ run[q].ok /\ run[q].phase \in {"exited", "writing", "saved", "done"}
    BY <1>1, <1>11 DEF GoodRun, SyncInv, RowsInv, RunsHaveJobs
  <2>2. CASE run[q].phase \in {"exited", "writing"}
    <3>1. q \in UnendedOf(k) /\ HasDirectory(q)
      BY <2>1, <2>2 DEF UnendedOf, Unended, InFlight, Unread, HasDirectory
    <3>2. dirs[k] # <<>> /\ dirs[k][Len(dirs[k])] = q /\ dirs[k] \in Seq(SyncRuns)
      BY <3>1 DEF SyncInv, RunsInv, NewestIsOwn, SyncTypeOK
    <3>3. Len(dirs[k]) \in 1..Len(dirs[k])
      BY <3>2
    <3> QED
      BY <1>4, <1>11, <3>2, <3>3
  <2>3. CASE run[q].phase \in {"saved", "done"}
    <3>1. PICK i \in 1..Len(dirs[k]) : dirs[k][i] \in SyncRuns /\ GoodRun(dirs[k][i], k)
      BY <2>1, <2>3 DEF SyncInv, RunsInv, GoodKept, GoodRun
    <3>2. PICK g \in SyncRuns : g = dirs[k][i] /\ GoodRun(g, k)
      BY <3>1
    <3>3. GoodRun(g, k)'
      BY <1>1, <3>2 DEF GoodRun
    <3> QED
      BY <1>4, <3>1, <3>2, <3>3
  <2> QED
    BY <2>1, <2>2, <2>3
<1>12. GoodKept'
  BY <1>4, <1>11 DEF GoodKept
<1> QED
  BY <1>5, <1>6, <1>7, <1>9, <1>10, <1>12 DEF SyncInv, RowsInv, RunsInv

LEMMA SyncInvInit ==
    SyncInit => SyncInv
<1> SUFFICES ASSUME SyncInit PROVE SyncInv
  OBVIOUS
<1>1. \A r \in SyncRuns : /\ run[r] \in SyncRun
                          /\ run[r].phase = "none" /\ ~run[r].ok /\ ~run[r].open
  BY DEF SyncInit, NotAsked, SyncRun
<1>2. \A j \in Jobs : job[j] \in JobRow /\ job[j].status = "idle"
  BY DEF SyncInit, JobRow, Statuses
<1>3. SyncTypeOK
  <2>1. run \in [SyncRuns -> SyncRun] /\ job \in [Jobs -> JobRow]
    BY DEF SyncInit, NotAsked, SyncRun, JobRow, Statuses
  <2>2. entry \in [Jobs -> BOOLEAN]
    BY DEF SyncInit
  <2>3. dirs \in [Jobs -> Seq(SyncRuns)] /\ procs \in [Jobs -> SyncRuns \union {NoRun}]
    BY DEF SyncInit
  <2> QED
    BY <2>1, <2>2, <2>3 DEF SyncInit, SyncTypeOK
<1>4. RowsInv
  BY <1>1, <1>2 DEF RowsInv, NewIsIdle, RunsHaveJobs, OpenIsAhead, RunningHasEnder, Shown
<1>5. Holders = {} /\ \A k \in Jobs : UnendedOf(k) = {}
  BY <1>1 DEF Holders, UnendedOf, Unended, InFlight, Unread
<1>6. RunsInv
  BY <1>1, <1>5, FS_EmptySet, SyncAssumption
     DEF RunsInv, HoldersBounded, OneUnended, NewestIsOwn, GoodKept, GoodRun
<1> QED
  BY <1>3, <1>4, <1>6 DEF SyncInv

LEMMA SyncInvStep ==
    SyncInv /\ [SyncNext]_syncVars => SyncInv'
<1> SUFFICES ASSUME SyncInv, [SyncNext]_syncVars PROVE SyncInv'
  OBVIOUS
<1>1. ASSUME NEW j \in Jobs, NEW manual \in BOOLEAN,
             CreateSyncJob(j, manual) \/ UpdateSyncJob(j, manual)
      PROVE  SyncInv'
  BY <1>1, CreateJobKeeps, UpdateJobKeeps
<1>2. ASSUME NEW j \in Jobs,
             \/ DeleteSyncJob(j) \/ CancelTerminates(j) \/ CancelCommits(j)
             \/ BackendOffline(j)
      PROVE  SyncInv'
  BY <1>2, DeleteJobKeeps, CancelTerminatesKeeps, CancelCommitsKeeps, BackendOfflineKeeps
<1>3. ASSUME NEW j \in Jobs, NEW r \in SyncRuns, NEW kind \in {"manual", "scheduled"},
             RunChecks(r, j, kind)
      PROVE  SyncInv'
  BY <1>3, RunChecksKeeps
<1>4. ASSUME NEW r \in SyncRuns, RunCommits(r) \/ RunStarts(r) \/ RequestCommits(r)
      PROVE  SyncInv'
  BY <1>4, RunCommitsKeeps, RunStartsKeeps, RequestCommitsKeeps
<1>5. ASSUME NEW r \in SyncRuns, NEW ok \in BOOLEAN, RsyncEnds(r, ok)
      PROVE  SyncInv'
  BY <1>5, RsyncEndsKeeps
<1>6. ASSUME NEW r \in SyncRuns,
             \/ StartRsync(r) \/ StartRaises(r) \/ OutcomeReads(r) \/ RaisedReads(r)
             \/ RunSaves(r) \/ RunEnds(r)
      PROVE  SyncInv'
  BY <1>6, StartRsyncKeeps, StartRaisesKeeps, OutcomeReadsKeeps, RaisedReadsKeeps,
     RunSavesKeeps, RunEndsKeeps
<1>7. CASE RestartServer
  BY <1>7, RestartServerKeeps
<1>8. CASE UNCHANGED syncVars
  <2>1. RunsInv'
    BY <1>8, RunsUntouched DEF syncVars
  <2>2. SyncTypeOK' /\ RowsInv'
    BY <1>8 DEF syncVars, SyncInv, SyncTypeOK, RowsInv, NewIsIdle, RunsHaveJobs, OpenIsAhead,
                RunningHasEnder, Shown, Ender, Unread
  <2> QED
    BY <2>1, <2>2 DEF SyncInv
<1> QED
  BY <1>1, <1>2, <1>3, <1>4, <1>5, <1>6, <1>7, <1>8 DEF SyncNext, RunStep

\* The rows and directories of the sync jobs agree with their runs, for any
\* number of jobs, runs and places of the semaphore, and any keep_versions: a
\* job shown as running has a run that will end it, unless the controller was
\* restarted or a run of the job read the row before its request committed.
THEOREM JobsTrue == SyncSpec => []JobsAreTrue
<1>1. SyncInv => RsyncsBounded
  <2> SUFFICES ASSUME SyncInv PROVE RsyncsBounded
    OBVIOUS
  <2> DEFINE S == {r \in SyncRuns : run[r].phase = "rsync"}
  <2>1. S \subseteq Holders /\ Holders \subseteq SyncRuns
    BY DEF Holders
  <2>2. Cardinality(S) <= Cardinality(Holders) /\ Cardinality(S) \in Nat /\ Cardinality(Holders) \in Nat
    BY <2>1, HoldersFinite
  <2> QED
    BY <2>2, SyncAssumption DEF SyncInv, RunsInv, HoldersBounded, RsyncsBounded
<1>2. SyncInv => RunningUnlessEarly
  BY DEF SyncInv, RowsInv, RunningHasEnder, Shown, Ender, RunningUnlessEarly, InFlightOf, InFlight
<1>3. SyncInv => LatestVersionKept
  BY DEF SyncInv, RunsInv, GoodKept, GoodRun, LatestVersionKept
<1>4. SyncInv => JobsAreTrue
  BY <1>1, <1>2, <1>3 DEF SyncInv, JobsAreTrue
<1> QED
  BY <1>4, SyncInvInit, SyncInvStep, PTL DEF SyncSpec

-----------------------------------------------------------------------------
(***************************************************************************)
(* ResizePlan: the plan of a clone to a disk of another size is right, for *)
(* any number of partitions and any sizes.                                 *)
(*                                                                         *)
(* What is left to shrink after the partitions behind i is the difference  *)
(* of the disks without what those could give, and never less than nothing *)
(* (Left); the loop computes it.  So what it takes from a partition is the *)
(* difference of two of them, and all of it together the first without the *)
(* last.                                                                   *)
(***************************************************************************)

\* A set of numbers that is not empty has a smallest.
LEMMA SmallestOfNumbers ==
    ASSUME NEW S, S \subseteq Nat, S # {}
    PROVE  \E m \in S : \A n \in S : m <= n
<1>1. PICK m \in S : \A n \in S : ~(<<n, m>> \in OpToRel(<, Nat))
  BY WFMin, NatLessThanWellFounded, Zenon
<1>2. \A n \in S : ~(n < m)
  BY <1>1 DEF OpToRel
<1>3. \A n \in S : m <= n
  BY <1>2
<1> QED
  BY <1>3

\* Induction up to a bound, over a set.
LEMMA Climb ==
    ASSUME NEW n \in Nat, NEW K, 0 \in K, \A i \in 1 .. n : i - 1 \in K => i \in K
    PROVE  0 .. n \subseteq K
<1> DEFINE S == (0 .. n) \ K
<1>1. S \subseteq Nat
  OBVIOUS
<1>2. ASSUME S # {} PROVE FALSE
  <2>1. PICK m \in S : \A k \in S : m <= k
    <3> HIDE DEF S
    <3> QED BY <1>1, <1>2, SmallestOfNumbers
  <2>2. m \in 0 .. n /\ m \notin K
    OBVIOUS
  <2>3. m # 0
    BY <2>2
  <2>4. m \in 1 .. n /\ (m - 1) \in 0 .. n /\ ~(m <= m - 1)
    BY <2>2, <2>3
  <2>5. m - 1 \in K
    BY <2>1, <2>4
  <2> QED BY <2>2, <2>4, <2>5
<1> QED BY <1>2

\* A list of n partitions or numbers.
LEMMA LenOfRows ==
    ASSUME NEW n \in Nat, NEW T, NEW f \in [1 .. n -> T]
    PROVE  f \in Seq(T) /\ Len(f) = n
  OBVIOUS

\* The sums are there, and each is the one before and a number more.
LEMMA SumsAre ==
    ASSUME NEW n \in Nat, NEW f \in [1 .. n -> Int]
    PROVE  /\ Sums(f) \in [0 .. n -> Int]
           /\ Sums(f)[0] = 0
           /\ \A i \in 1 .. n : Sums(f)[i] = Sums(f)[i - 1] + f[i]
           /\ SumOf(f) = Sums(f)[n]
<1>0. Len(f) = n
  BY LenOfRows
<1> DEFINE Adds(s, m) == /\ s \in [0 .. m -> Int] /\ s[0] = 0
                         /\ \A i \in 1 .. m : s[i] = s[i - 1] + f[i]
           K == {m \in 0 .. n : \E s : Adds(s, m)}
<1>1. 0 \in K
  <2>1. Adds([i \in 0 .. 0 |-> 0], 0)
    OBVIOUS
  <2> HIDE DEF Adds
  <2> QED BY <2>1
<1>2. ASSUME NEW m \in 1 .. n, m - 1 \in K PROVE m \in K
  <2>1. PICK s : Adds(s, m - 1)
    BY <1>2
  <2> DEFINE t == [i \in 0 .. m |-> IF i = m THEN s[m - 1] + f[m] ELSE s[i]]
  <2>2. \A i \in 0 .. (m - 1) : s[i] \in Int
    BY <2>1
  <2>3. (m - 1) \in 0 .. (m - 1) /\ f[m] \in Int /\ 0 # m
    OBVIOUS
  <2>4. t \in [0 .. m -> Int]
    <3>1. \A i \in 0 .. m : i # m => i \in 0 .. (m - 1)
      OBVIOUS
    <3> QED BY <2>2, <2>3, <3>1
  <2>5. t[0] = 0
    BY <2>1, <2>3
  <2>6. ASSUME NEW i \in 1 .. m PROVE t[i] = t[i - 1] + f[i]
    <3>1. CASE i = m
      BY <3>1
    <3>2. CASE i # m
      <4>1. i \in 1 .. (m - 1) /\ (i - 1) \in 0 .. m /\ i - 1 # m /\ i \in 0 .. m
        BY <3>2
      <4>2. s[i] = s[i - 1] + f[i]
        BY <2>1, <4>1
      <4> QED BY <3>2, <4>1, <4>2
    <3> QED BY <3>1, <3>2
  <2> HIDE DEF t
  <2>7. Adds(t, m)
    BY <2>4, <2>5, <2>6
  <2> HIDE DEF Adds
  <2> QED BY <2>7
<1>3. n \in K
  <2>1. 0 .. n \subseteq K
    <3> HIDE DEF K
    <3>1. \A i \in 1 .. n : i - 1 \in K => i \in K
      BY <1>2
    <3> QED BY <1>1, <3>1, Climb
  <2> HIDE DEF K
  <2> QED BY <2>1
<1>4. PICK s : Adds(s, n)
  BY <1>3
<1> DEFINE Body(x) == [i \in 0 .. n |-> IF i = 0 THEN 0 ELSE x[i - 1] + f[i]]
<1>5. s = Body(s)
  <2>1. \A i \in 0 .. n : s[i] = IF i = 0 THEN 0 ELSE s[i - 1] + f[i]
    BY <1>4
  <2> QED BY <1>4, <2>1
<1>6. Sums(f) = CHOOSE x : x = Body(x)
  BY <1>0 DEF Sums
<1>7. Sums(f) = Body(Sums(f))
  BY <1>5, <1>6
<1> DEFINE z == Sums(f)
<1> HIDE DEF z
<1>8. \A i \in 0 .. n : z[i] = IF i = 0 THEN 0 ELSE z[i - 1] + f[i]
  BY <1>7 DEF z
<1>9. z = [i \in 0 .. n |-> z[i]]
  BY <1>7 DEF z
<1> DEFINE I == {i \in 0 .. n : z[i] \in Int}
<1>10. 0 .. n \subseteq I
  <2>1. 0 \in I
    BY <1>8
  <2>2. \A i \in 1 .. n : i - 1 \in I => i \in I
    BY <1>8
  <2> HIDE DEF I
  <2> QED BY <2>1, <2>2, Climb
<1>11. z \in [0 .. n -> Int]
  BY <1>9, <1>10
<1>12. z[0] = 0 /\ \A i \in 1 .. n : z[i] = z[i - 1] + f[i]
  BY <1>8
<1> QED
  BY <1>0, <1>11, <1>12 DEF z, SumOf

\* A sum is no larger than one of numbers that are no smaller.
LEMMA SumOfLess ==
    ASSUME NEW n \in Nat, NEW f \in [1 .. n -> Int], NEW g \in [1 .. n -> Int],
           \A i \in 1 .. n : f[i] <= g[i]
    PROVE  SumOf(f) <= SumOf(g)
<1> DEFINE s == Sums(f)
           t == Sums(g)
           K == {i \in 0 .. n : s[i] <= t[i]}
<1>1. /\ s \in [0 .. n -> Int] /\ s[0] = 0 /\ SumOf(f) = s[n]
      /\ \A i \in 1 .. n : s[i] = s[i - 1] + f[i]
  BY SumsAre
<1>2. /\ t \in [0 .. n -> Int] /\ t[0] = 0 /\ SumOf(g) = t[n]
      /\ \A i \in 1 .. n : t[i] = t[i - 1] + g[i]
  BY SumsAre
<1> HIDE DEF s, t
<1>3. 0 \in K
  BY <1>1, <1>2
<1>4. ASSUME NEW i \in 1 .. n, i - 1 \in K PROVE i \in K
  <2>1. /\ s[i - 1] \in Int /\ t[i - 1] \in Int /\ f[i] \in Int /\ g[i] \in Int /\ f[i] <= g[i]
        /\ s[i - 1] <= t[i - 1] /\ i \in 0 .. n
    BY <1>1, <1>2, <1>4
  <2> QED BY <1>1, <1>2, <2>1
<1>5. 0 .. n \subseteq K
  <2> HIDE DEF K
  <2>1. \A i \in 1 .. n : i - 1 \in K => i \in K
    BY <1>4
  <2> QED BY <1>3, <2>1, Climb
<1> QED
  BY <1>1, <1>2, <1>5

\* What a partition gives to the shrinking is between nothing and its size.
LEMMA PotentialType ==
    ASSUME NEW p \in Partition
    PROVE  /\ Potential(p) \in 0 .. MaxSize /\ p.size \in 0 .. MaxSize /\ p.can \in BOOLEAN
           /\ p.min # NoMinimum => p.min \in 0 .. MaxSize
           /\ Potential(p) # 0 => p.can /\ p.min # NoMinimum /\ Potential(p) = p.size - p.min
  BY PlanAssumption DEF Partition, Potential

\* The lists that are added up are lists of numbers.
LEMMA PartsTypes ==
    ASSUME NEW n \in Nat, NEW parts \in [1 .. n -> Partition]
    PROVE  /\ DOMAIN parts = 1 .. n /\ Len(parts) = n
           /\ Sizes(parts) \in [1 .. n -> Int] /\ Potentials(parts) \in [1 .. n -> Int]
           /\ \A i \in 1 .. n : /\ Sizes(parts)[i] = parts[i].size
                                /\ Potentials(parts)[i] = Potential(parts[i])
                                /\ parts[i].size \in Int
                                /\ Potential(parts[i]) \in 0 .. MaxSize
<1>1. Len(parts) = n /\ DOMAIN parts = 1 .. n
  BY LenOfRows
<1>2. \A i \in 1 .. n : Potential(parts[i]) \in 0 .. MaxSize /\ parts[i].size \in 0 .. MaxSize
  BY PotentialType
<1>3. MaxSize \in Nat
  BY PlanAssumption
<1> QED
  BY <1>1, <1>2, <1>3 DEF Sizes, Potentials

-----------------------------------------------------------------------------
(* The loop that shrinks.                                                   *)

\* What is left to shrink after the partitions behind i have given all they can.
Left(parts, amount, i) ==
    LET P == Sums(Potentials(parts))
        x == amount - (P[Len(parts)] - P[i])
    IN  IF x > 0 THEN x ELSE 0

\* The loop computes it.
LEMMA RemainingIsLeft ==
    ASSUME NEW n \in Nat, NEW parts \in [1 .. n -> Partition], NEW amount \in Nat
    PROVE  /\ \A i \in 0 .. n : Remaining(parts, amount)[i] = Left(parts, amount, i)
           /\ \A i \in 0 .. n : Left(parts, amount, i) \in Nat
           /\ Left(parts, amount, n) = amount
           /\ amount <= SumOf(Potentials(parts)) => Left(parts, amount, 0) = 0
           /\ \A i \in 1 .. n :
                Left(parts, amount, i - 1) =
                  IF Potential(parts[i]) < Left(parts, amount, i)
                  THEN Left(parts, amount, i) - Potential(parts[i]) ELSE 0
<1> DEFINE P == Sums(Potentials(parts))
           A(i) == Left(parts, amount, i)
           pot(i) == Potential(parts[i])
<1>0. Len(parts) = n
  BY PartsTypes
<1>1. \A i \in 1 .. n : pot(i) \in Nat /\ Potentials(parts)[i] = pot(i)
  BY PartsTypes, PlanAssumption
<1>2. /\ P \in [0 .. n -> Int] /\ P[0] = 0 /\ SumOf(Potentials(parts)) = P[n]
      /\ \A i \in 1 .. n : P[i] = P[i - 1] + pot(i)
  <2> DEFINE f == Potentials(parts)
  <2>1. f \in [1 .. n -> Int] /\ \A i \in 1 .. n : f[i] = pot(i)
    BY <1>1, PartsTypes
  <2> HIDE DEF pot, f
  <2>2. /\ Sums(f) \in [0 .. n -> Int] /\ Sums(f)[0] = 0 /\ SumOf(f) = Sums(f)[n]
        /\ \A i \in 1 .. n : Sums(f)[i] = Sums(f)[i - 1] + f[i]
    BY <2>1, SumsAre
  <2> QED BY <2>1, <2>2 DEF f
<1>3. \A i \in 0 .. n : A(i) = IF amount - (P[n] - P[i]) > 0 THEN amount - (P[n] - P[i]) ELSE 0
  BY <1>0 DEF Left
<1> HIDE DEF P, A, pot
<1>4. \A i \in 0 .. n : P[i] \in Int /\ A(i) \in Nat
  <2>1. \A i \in 0 .. n : P[i] \in Int
    BY <1>2
  <2> QED BY <1>3, <2>1
<1>5. A(n) = amount
  BY <1>3, <1>4
<1>6. amount <= P[n] => A(0) = 0
  BY <1>2, <1>3, <1>4
<1>7. ASSUME NEW i \in 1 .. n
      PROVE  A(i - 1) = IF pot(i) < A(i) THEN A(i) - pot(i) ELSE 0
  <2>1. i - 1 \in 0 .. n /\ i \in 0 .. n /\ n \in 0 .. n
    OBVIOUS
  <2>2. P[i] \in Int /\ P[i - 1] \in Int /\ P[n] \in Int /\ pot(i) \in Nat /\ P[i] = P[i - 1] + pot(i)
    BY <1>1, <1>2, <1>4, <2>1
  <2>3. /\ A(i) = IF amount - (P[n] - P[i]) > 0 THEN amount - (P[n] - P[i]) ELSE 0
        /\ A(i - 1) = IF amount - (P[n] - P[i - 1]) > 0 THEN amount - (P[n] - P[i - 1]) ELSE 0
    BY <1>3, <2>1
  <2> DEFINE x == amount - (P[n] - P[i])
  <2>4. x \in Int /\ amount - (P[n] - P[i - 1]) = x - pot(i)
    BY <2>2
  <2> HIDE DEF x
  <2>5. A(i) = (IF x > 0 THEN x ELSE 0) /\ A(i - 1) = (IF x - pot(i) > 0 THEN x - pot(i) ELSE 0)
    BY <2>3, <2>4 DEF x
  <2> QED BY <2>2, <2>4, <2>5
<1> DEFINE Body(s) == [i \in 0 .. n |->
                         IF i = n THEN amount
                         ELSE LET left == s[i + 1]
                                  p == Potential(parts[i + 1])
                              IN  IF p < left THEN left - p ELSE 0]
           a == [i \in 0 .. n |-> A(i)]
<1>8. a = Body(a)
  <2>1. ASSUME NEW i \in 0 .. n, i # n
        PROVE  A(i) = IF pot(i + 1) < A(i + 1) THEN A(i + 1) - pot(i + 1) ELSE 0
    <3>1. i + 1 \in 1 .. n /\ (i + 1) - 1 = i
      BY <2>1
    <3> QED BY <1>7, <3>1
  <2>2. \A i \in 0 .. n : i # n => i + 1 \in 0 .. n
    OBVIOUS
  <2> QED BY <1>5, <2>1, <2>2 DEF pot
<1>9. Remaining(parts, amount) = CHOOSE s : s = Body(s)
  BY <1>0 DEF Remaining
<1> DEFINE z == Remaining(parts, amount)
<1>10. z = Body(z)
  BY <1>8, <1>9
<1> HIDE DEF z
<1>11. /\ z[n] = amount
       /\ \A i \in 0 .. n : i # n => z[i] = IF pot(i + 1) < z[i + 1] THEN z[i + 1] - pot(i + 1) ELSE 0
  BY <1>10 DEF pot
<1> DEFINE K == {k \in 0 .. n : z[n - k] = A(n - k)}
<1>12. 0 .. n \subseteq K
  <2>1. 0 \in K
    BY <1>5, <1>11
  <2>2. ASSUME NEW k \in 1 .. n, k - 1 \in K PROVE k \in K
    <3>1. /\ n - k \in 0 .. n /\ n - k # n /\ (n - k) + 1 = n - (k - 1) /\ (n - k) + 1 \in 1 .. n
          /\ ((n - k) + 1) - 1 = n - k
      OBVIOUS
    <3> DEFINE j == n - k
    <3>2. z[j + 1] = A(j + 1)
      BY <2>2, <3>1
    <3> HIDE DEF j
    <3>3. z[j] = A(j)
      BY <1>7, <1>11, <3>1, <3>2 DEF j
    <3> QED BY <3>3 DEF j
  <2> HIDE DEF K
  <2>3. \A k \in 1 .. n : k - 1 \in K => k \in K
    BY <2>2
  <2> QED BY <2>1, <2>3, Climb
<1>13. ASSUME NEW i \in 0 .. n PROVE z[i] = A(i)
  <2>1. n - i \in 0 .. n /\ n - (n - i) = i
    OBVIOUS
  <2> QED BY <1>12, <2>1
<1> QED
  BY <1>2, <1>4, <1>5, <1>6, <1>7, <1>13 DEF z, A, pot

\* What the loop takes away from the partitions: the reductions r, which add up
\* to the difference of the disks when the partitions can give as much.
LEMMA LoopReduces ==
    ASSUME NEW n \in Nat, NEW parts \in [1 .. n -> Partition], NEW amount \in Nat,
           amount <= SumOf(Potentials(parts))
    PROVE  \E r \in Reductions(parts) :
              /\ r \in [1 .. n -> Nat] /\ SumOf(r) = amount
              /\ \A i \in 1 .. n : Shrunk(parts, amount)[i] = parts[i].size - r[i]
<1> DEFINE A(i) == Left(parts, amount, i)
           pot(i) == Potential(parts[i])
           r == [i \in 1 .. n |-> IF pot(i) < A(i) THEN pot(i) ELSE A(i)]
<1>1. /\ DOMAIN parts = 1 .. n
      /\ \A i \in 1 .. n : pot(i) \in 0 .. MaxSize /\ pot(i) \in Nat
  <2>1. DOMAIN parts = 1 .. n /\ \A i \in 1 .. n : pot(i) \in 0 .. MaxSize
    BY PartsTypes
  <2> HIDE DEF pot
  <2> QED BY <2>1, PlanAssumption
<1>2. /\ \A i \in 0 .. n : Remaining(parts, amount)[i] = A(i) /\ A(i) \in Nat
      /\ A(n) = amount /\ A(0) = 0
      /\ \A i \in 1 .. n : A(i - 1) = IF pot(i) < A(i) THEN A(i) - pot(i) ELSE 0
  BY RemainingIsLeft
<1>3. \A i \in 1 .. n : Shrunk(parts, amount)[i] = parts[i].size - r[i]
  <2> HIDE DEF A
  <2> QED BY <1>1, <1>2 DEF Shrunk
<1> HIDE DEF A, pot
<1>4. \A i \in 1 .. n : /\ r[i] \in Nat /\ r[i] <= pot(i) /\ r[i] \in 0 .. MaxSize
                        /\ r[i] = A(i) - A(i - 1)
  <2> SUFFICES ASSUME NEW i \in 1 .. n
               PROVE  /\ r[i] \in Nat /\ r[i] <= pot(i) /\ r[i] \in 0 .. MaxSize
                      /\ r[i] = A(i) - A(i - 1)
    OBVIOUS
  <2>1. /\ A(i) \in Nat /\ pot(i) \in Nat /\ pot(i) <= MaxSize /\ MaxSize \in Nat
        /\ A(i - 1) = IF pot(i) < A(i) THEN A(i) - pot(i) ELSE 0
        /\ r[i] = IF pot(i) < A(i) THEN pot(i) ELSE A(i)
    BY <1>1, <1>2, PlanAssumption
  <2> HIDE DEF r
  <2> QED BY <2>1
<1>5. r = [i \in 1 .. n |-> r[i]]
  OBVIOUS
<1> HIDE DEF r
<1>6. r \in [1 .. n -> Nat] /\ r \in [1 .. n -> Int] /\ r \in [1 .. n -> 0 .. MaxSize]
  BY <1>4, <1>5
<1>7. r \in Reductions(parts)
  BY <1>1, <1>4, <1>6 DEF Reductions, pot
<1> DEFINE s == Sums(r)
           K == {i \in 0 .. n : s[i] = A(i)}
<1>8. /\ s \in [0 .. n -> Int] /\ s[0] = 0 /\ SumOf(r) = s[n]
      /\ \A i \in 1 .. n : s[i] = s[i - 1] + r[i]
  BY <1>6, SumsAre
<1> HIDE DEF s
<1>9. 0 .. n \subseteq K
  <2>1. 0 \in K
    BY <1>2, <1>8
  <2>2. ASSUME NEW i \in 1 .. n, i - 1 \in K PROVE i \in K
    <3>1. /\ i - 1 \in 0 .. n /\ i \in 0 .. n /\ s[i - 1] = A(i - 1) /\ s[i] = s[i - 1] + r[i]
          /\ r[i] = A(i) - A(i - 1)
      BY <1>4, <1>8, <2>2
    <3>2. A(i) \in Int /\ A(i - 1) \in Int
      BY <1>2, <3>1
    <3> QED BY <3>1, <3>2
  <2> HIDE DEF K
  <2>3. \A i \in 1 .. n : i - 1 \in K => i \in K
    BY <2>2
  <2> QED BY <2>1, <2>3, Climb
<1>10. SumOf(r) = amount
  <2>1. n \in K
    BY <1>9
  <2> QED BY <1>2, <1>8, <2>1
<1> QED
  BY <1>3, <1>6, <1>7, <1>10

\* Sums of differences.
LEMMA SumOfDifference ==
    ASSUME NEW n \in Nat, NEW f \in [1 .. n -> Int], NEW g \in [1 .. n -> Int],
           NEW h \in [1 .. n -> Int], \A i \in 1 .. n : h[i] = f[i] - g[i]
    PROVE  SumOf(h) = SumOf(f) - SumOf(g)
<1> DEFINE s == Sums(f)
           t == Sums(g)
           u == Sums(h)
           K == {i \in 0 .. n : u[i] = s[i] - t[i]}
<1>1. /\ s \in [0 .. n -> Int] /\ s[0] = 0 /\ SumOf(f) = s[n]
      /\ \A i \in 1 .. n : s[i] = s[i - 1] + f[i]
  BY SumsAre
<1>2. /\ t \in [0 .. n -> Int] /\ t[0] = 0 /\ SumOf(g) = t[n]
      /\ \A i \in 1 .. n : t[i] = t[i - 1] + g[i]
  BY SumsAre
<1>3. /\ u \in [0 .. n -> Int] /\ u[0] = 0 /\ SumOf(h) = u[n]
      /\ \A i \in 1 .. n : u[i] = u[i - 1] + h[i]
  BY SumsAre
<1> HIDE DEF s, t, u
<1>4. 0 \in K
  BY <1>1, <1>2, <1>3
<1>5. ASSUME NEW i \in 1 .. n, i - 1 \in K PROVE i \in K
  <2>1. /\ s[i - 1] \in Int /\ t[i - 1] \in Int /\ f[i] \in Int /\ g[i] \in Int
        /\ h[i] = f[i] - g[i] /\ u[i - 1] = s[i - 1] - t[i - 1] /\ i \in 0 .. n
    <3>1. s[i - 1] \in Int /\ t[i - 1] \in Int /\ f[i] \in Int /\ g[i] \in Int /\ i \in 0 .. n
      BY <1>1, <1>2
    <3> QED BY <1>5, <3>1
  <2>2. s[i] = s[i - 1] + f[i] /\ t[i] = t[i - 1] + g[i] /\ u[i] = u[i - 1] + h[i]
    BY <1>1, <1>2, <1>3
  <2>3. u[i] = s[i] - t[i]
    BY <2>1, <2>2
  <2> QED BY <2>1, <2>3
<1>6. 0 .. n \subseteq K
  <2> HIDE DEF K
  <2>1. \A i \in 1 .. n : i - 1 \in K => i \in K
    BY <1>5
  <2> QED BY <1>4, <2>1, Climb
<1> QED
  BY <1>1, <1>2, <1>3, <1>6

\* One partition at most grows, by what the target has more.
LEMMA GrownBy ==
    ASSUME NEW n \in Nat, NEW parts \in [1 .. n -> Partition], NEW extra \in Nat
    PROVE  /\ Grown(parts, extra) \in [1 .. n -> Int]
           /\ SumOf(Grown(parts, extra)) <= SumOf(Sizes(parts)) + extra
           /\ \A i \in 1 .. n : /\ Grown(parts, extra)[i] >= parts[i].size
                                /\ Grown(parts, extra)[i] # parts[i].size => parts[i].can
<1> DEFINE g == Growable(parts)
           f == Sizes(parts)
           h == Grown(parts, extra)
           s == Sums(f)
           u == Sums(h)
           K == {i \in 0 .. n : u[i] = s[i] + (IF g # 0 /\ g <= i THEN extra ELSE 0)}
<1>1. DOMAIN parts = 1 .. n /\ f \in [1 .. n -> Int] /\ \A i \in 1 .. n : f[i] = parts[i].size
  BY PartsTypes
<1>2. g \in 0 .. n /\ (g # 0 => parts[g].can)
  <2> DEFINE S == {i \in 1 .. n : parts[i].can /\ parts[i].fs}
  <2>1. g = IF S = {} THEN 0 ELSE CHOOSE i \in S : \A j \in S : j <= i
    BY <1>1 DEF Growable
  <2>2. ASSUME S # {} PROVE \E i \in S : \A j \in S : j <= i
    <3> DEFINE T == {k \in 0 .. n : n - k \in S}
    <3>1. PICK e \in S : TRUE
      BY <2>2
    <3>2. n - e \in T /\ T \subseteq Nat
      OBVIOUS
    <3>3. PICK m \in T : \A k \in T : m <= k
      <4> HIDE DEF T
      <4> QED BY <3>2, SmallestOfNumbers
    <3>4. n - m \in S /\ m \in 0 .. n
      OBVIOUS
    <3>5. ASSUME NEW j \in S PROVE j <= n - m
      <4>1. j \in 1 .. n
        OBVIOUS
      <4>2. n - j \in T
        BY <4>1
      <4>3. m <= n - j
        BY <3>3, <4>2
      <4> QED BY <3>4, <4>1, <4>3
    <3> QED BY <3>4, <3>5
  <2>3. g = 0 \/ g \in S
    BY <2>1, <2>2
  <2> HIDE DEF g
  <2> QED BY <2>3
<1> HIDE DEF g, f
<1>3. h = [i \in 1 .. n |-> parts[i].size + (IF i = g THEN extra ELSE 0)]
  BY <1>1 DEF Grown, g
<1>4. \A i \in 1 .. n : parts[i].size \in Int
  BY PartsTypes
<1>5. \A i \in 1 .. n : h[i] = f[i] + (IF i = g THEN extra ELSE 0) /\ f[i] \in Int
  BY <1>1, <1>3, <1>4
<1>6. h \in [1 .. n -> Int]
  BY <1>3, <1>4
<1> HIDE DEF h
<1>7. /\ s \in [0 .. n -> Int] /\ s[0] = 0 /\ SumOf(f) = s[n]
      /\ \A i \in 1 .. n : s[i] = s[i - 1] + f[i]
  BY <1>1, SumsAre
<1>8. /\ u \in [0 .. n -> Int] /\ u[0] = 0 /\ SumOf(h) = u[n]
      /\ \A i \in 1 .. n : u[i] = u[i - 1] + h[i]
  BY <1>6, SumsAre
<1> HIDE DEF s, u
<1>9. 0 .. n \subseteq K
  <2>1. 0 \in K
    BY <1>2, <1>7, <1>8
  <2>2. ASSUME NEW i \in 1 .. n, i - 1 \in K PROVE i \in K
    <3>1. /\ s[i - 1] \in Int /\ f[i] \in Int /\ i \in 0 .. n
          /\ s[i] = s[i - 1] + f[i] /\ u[i] = u[i - 1] + h[i]
          /\ h[i] = f[i] + (IF i = g THEN extra ELSE 0)
          /\ u[i - 1] = s[i - 1] + (IF g # 0 /\ g <= i - 1 THEN extra ELSE 0)
      BY <1>5, <1>7, <1>8, <2>2
    <3>2. CASE g = i
      BY <1>2, <3>1, <3>2
    <3>3. CASE g # i
      BY <1>2, <3>1, <3>3
    <3> QED BY <3>2, <3>3
  <2> HIDE DEF K
  <2>3. \A i \in 1 .. n : i - 1 \in K => i \in K
    BY <2>2
  <2> QED BY <2>1, <2>3, Climb
<1>10. SumOf(h) <= SumOf(f) + extra
  <2>1. n \in K /\ s[n] \in Int
    BY <1>7, <1>9
  <2> QED BY <1>7, <1>8, <2>1
<1>11. \A i \in 1 .. n : h[i] >= parts[i].size /\ (h[i] # parts[i].size => parts[i].can)
  BY <1>1, <1>2, <1>5
<1> QED
  BY <1>6, <1>10, <1>11 DEF f, h

-----------------------------------------------------------------------------
(* The plan.                                                                *)

\* A plan is the one of the request.
PlanInv ==
    plan = <<>> \/
    \E n \in 0 .. MaxPartitions :
       \E parts \in [1 .. n -> Partition], from, to \in 0 .. MaxDisk,
          mode \in {"none", "shrink_source", "grow_target"} :
          /\ SumOf(Sizes(parts)) <= from
          /\ request = [parts |-> parts, from |-> from, to |-> to, mode |-> mode]
          /\ plan = <<GenerateResizePlan(parts, from, to, mode)>>

\* No choice of reductions is larger than the potentials together.
LEMMA ReductionsBounded ==
    ASSUME NEW n \in Nat, NEW parts \in [1 .. n -> Partition], NEW r \in Reductions(parts)
    PROVE  SumOf(r) <= SumOf(Potentials(parts))
<1>1. /\ r \in [1 .. n -> 0 .. MaxSize]
      /\ \A i \in 1 .. n : r[i] <= Potentials(parts)[i]
  BY PartsTypes DEF Reductions
<1>2. r \in [1 .. n -> Int]
  BY <1>1, PlanAssumption
<1>3. Potentials(parts) \in [1 .. n -> Int]
  BY PartsTypes
<1> QED
  BY <1>1, <1>2, <1>3, SumOfLess

\* A target that is smaller, and enough to give.
LEMMA ShrunkIsExact ==
    ASSUME NEW n \in Nat, NEW parts \in [1 .. n -> Partition], NEW amount \in Nat,
           amount <= SumOf(Potentials(parts))
    PROVE  /\ Shrunk(parts, amount) \in [1 .. n -> Int]
           /\ SumOf(Sizes(parts)) \in Int
           /\ SumOf(Shrunk(parts, amount)) = SumOf(Sizes(parts)) - amount
           /\ \A i \in 1 .. n :
                Shrunk(parts, amount)[i] # parts[i].size =>
                   /\ parts[i].can /\ parts[i].min # NoMinimum
                   /\ Shrunk(parts, amount)[i] >= parts[i].min
           /\ \E r \in Reductions(parts) : SumOf(r) = amount
<1> DEFINE new == Shrunk(parts, amount)
<1>1. PICK r \in Reductions(parts) :
         /\ r \in [1 .. n -> Nat] /\ SumOf(r) = amount
         /\ \A i \in 1 .. n : new[i] = parts[i].size - r[i]
  BY LoopReduces
<1>2. /\ DOMAIN parts = 1 .. n /\ Sizes(parts) \in [1 .. n -> Int]
      /\ \A i \in 1 .. n : Sizes(parts)[i] = parts[i].size /\ parts[i].size \in Int
  BY PartsTypes
<1>3. new = [i \in 1 .. n |-> new[i]]
  BY <1>2 DEF Shrunk
<1> HIDE DEF new
<1>4. \A i \in 1 .. n : r[i] \in Int /\ r[i] \in Nat
  BY <1>1
<1>5. new \in [1 .. n -> Int] /\ r \in [1 .. n -> Int]
  <2>1. \A i \in 1 .. n : new[i] \in Int
    BY <1>1, <1>2, <1>4
  <2> QED BY <1>1, <1>3, <1>4, <2>1
<1>6. SumOf(new) = SumOf(Sizes(parts)) - SumOf(r)
  <2> DEFINE f == Sizes(parts)
  <2>1. f \in [1 .. n -> Int] /\ \A i \in 1 .. n : new[i] = f[i] - r[i]
    BY <1>1, <1>2
  <2> HIDE DEF f
  <2>2. SumOf(new) = SumOf(f) - SumOf(r)
    BY <1>5, <2>1, SumOfDifference
  <2> QED BY <2>2 DEF f
<1>7. SumOf(Sizes(parts)) \in Int
  <2>1. SumOf(Sizes(parts)) = Sums(Sizes(parts))[n] /\ Sums(Sizes(parts)) \in [0 .. n -> Int]
    BY <1>2, SumsAre
  <2> QED BY <2>1
<1>8. ASSUME NEW i \in 1 .. n, new[i] # parts[i].size
      PROVE  parts[i].can /\ parts[i].min # NoMinimum /\ new[i] >= parts[i].min
  <2> DEFINE p == parts[i]
  <2>1. p \in Partition /\ r[i] <= Potential(p) /\ r[i] \in Nat /\ new[i] = p.size - r[i]
    BY <1>1, <1>2 DEF Reductions
  <2> HIDE DEF p
  <2>2. /\ Potential(p) \in 0 .. MaxSize /\ p.size \in 0 .. MaxSize
        /\ p.min # NoMinimum => p.min \in 0 .. MaxSize
        /\ Potential(p) # 0 => p.can /\ p.min # NoMinimum /\ Potential(p) = p.size - p.min
    BY <2>1, PotentialType
  <2>3. r[i] # 0
    BY <1>8, <2>1, <2>2, PlanAssumption DEF p
  <2>4. Potential(p) # 0
    BY <2>1, <2>2, <2>3, PlanAssumption
  <2>5. new[i] >= p.min
    BY <2>1, <2>2, <2>4, PlanAssumption
  <2> QED BY <2>2, <2>4, <2>5 DEF p
<1> QED
  BY <1>1, <1>5, <1>6, <1>7, <1>8 DEF new

\* Such a plan is exact.
LEMMA PlansAreExact == PlanInv => PlanIsExact
<1> SUFFICES ASSUME PlanInv, plan # <<>> PROVE PlanIsExact
  BY DEF PlanIsExact, PlanFits, PlanIsTight
<1>1. PICK n \in 0 .. MaxPartitions : \E parts \in [1 .. n -> Partition], from, to \in 0 .. MaxDisk,
          mode \in {"none", "shrink_source", "grow_target"} :
          /\ SumOf(Sizes(parts)) <= from
          /\ request = [parts |-> parts, from |-> from, to |-> to, mode |-> mode]
          /\ plan = <<GenerateResizePlan(parts, from, to, mode)>>
  BY DEF PlanInv
<1>2. PICK parts \in [1 .. n -> Partition], from \in 0 .. MaxDisk, to \in 0 .. MaxDisk,
           mode \in {"none", "shrink_source", "grow_target"} :
          /\ SumOf(Sizes(parts)) <= from
          /\ request = [parts |-> parts, from |-> from, to |-> to, mode |-> mode]
          /\ plan = <<GenerateResizePlan(parts, from, to, mode)>>
  BY <1>1
<1> DEFINE made == GenerateResizePlan(parts, from, to, mode)
           f == Sizes(parts)
<1>3. /\ request.parts = parts /\ request.from = from /\ request.to = to /\ plan[1] = made
  BY <1>2
<1>4. n \in Nat /\ from \in Nat /\ to \in Nat
  BY PlanAssumption
<1>5. /\ DOMAIN parts = 1 .. n /\ f \in [1 .. n -> Int]
      /\ \A i \in 1 .. n : f[i] = parts[i].size /\ parts[i].size \in Int
  BY <1>4, PartsTypes
<1>6. SumOf(f) \in Int /\ SumOf(f) <= from /\ SumOf(Potentials(parts)) \in Int
  <2>1. SumOf(f) = Sums(f)[n] /\ Sums(f) \in [0 .. n -> Int]
    BY <1>4, <1>5, SumsAre
  <2> DEFINE h == Potentials(parts)
  <2>2. h \in [1 .. n -> Int]
    BY <1>4, PartsTypes
  <2> HIDE DEF h, f
  <2>3. SumOf(h) = Sums(h)[n] /\ Sums(h) \in [0 .. n -> Int]
    BY <1>4, <2>2, SumsAre
  <2> QED BY <1>2, <1>4, <2>1, <2>3 DEF h, f
<1> DEFINE FitsTarget(new) ==
             /\ SumOf(new) <= to
             /\ \A i \in 1 .. n :
                  new[i] # parts[i].size => /\ parts[i].can
                                            /\ parts[i].min # NoMinimum \/ new[i] > parts[i].size
                                            /\ new[i] < parts[i].size => new[i] >= parts[i].min
<1>7. ASSUME made.sizes \in [1 .. n -> Int], made.feasible => FitsTarget(made.sizes) PROVE PlanFits
  <2>1. DOMAIN made.sizes = 1 .. n
    BY <1>7
  <2> HIDE DEF made
  <2> QED BY <1>3, <1>7, <2>1 DEF PlanFits
<1>8. CASE to >= from
  <2>1. made = [feasible |-> TRUE,
                sizes |-> IF mode = "grow_target" THEN Grown(parts, to - from) ELSE f]
    BY <1>8 DEF GenerateResizePlan
  <2>2. PlanIsTight
    BY <1>3, <1>4, <1>8 DEF PlanIsTight
  <2>3. f \in [1 .. n -> Int] /\ FitsTarget(f)
    BY <1>4, <1>5, <1>6, <1>8
  <2>4. Grown(parts, to - from) \in [1 .. n -> Int] /\ FitsTarget(Grown(parts, to - from))
    <3> DEFINE extra == to - from
               g == Grown(parts, extra)
    <3>1. extra \in Nat /\ to = from + extra
      BY <1>4, <1>8
    <3> HIDE DEF extra
    <3>2. /\ g \in [1 .. n -> Int] /\ SumOf(g) <= SumOf(f) + extra
          /\ \A i \in 1 .. n : g[i] >= parts[i].size /\ (g[i] # parts[i].size => parts[i].can)
      BY <1>4, <3>1, GrownBy
    <3>3. SumOf(g) \in Int
      <4> HIDE DEF g
      <4>1. SumOf(g) = Sums(g)[n] /\ Sums(g) \in [0 .. n -> Int]
        BY <1>4, <3>2, SumsAre
      <4> QED BY <1>4, <4>1
    <3> HIDE DEF g, f
    <3>4. SumOf(g) <= to
      BY <1>4, <1>6, <3>1, <3>2, <3>3
    <3>5. \A i \in 1 .. n : g[i] \in Int
      BY <3>2
    <3>6. FitsTarget(g)
      BY <1>5, <3>2, <3>4, <3>5
    <3> QED BY <3>2, <3>6 DEF g, extra
  <2>5. made.sizes \in [1 .. n -> Int] /\ FitsTarget(made.sizes)
    <3> HIDE DEF made, FitsTarget, f
    <3> QED BY <2>1, <2>3, <2>4
  <2> HIDE DEF made, FitsTarget
  <2> QED BY <1>7, <2>2, <2>5 DEF PlanIsExact
<1>9. CASE to < from
  <2> DEFINE need == from - to
  <2>1. need \in Nat /\ from - need = to
    BY <1>4, <1>9
  <2>2. PlanIsTight <=>
          /\ made.feasible <=> \E r \in Reductions(parts) : SumOf(r) = need
          /\ made.feasible => SumOf(f) - SumOf(made.sizes) = need
    <3> HIDE DEF made, f
    <3> QED BY <1>3, <1>9 DEF PlanIsTight, f
  <2>3. CASE Feasible(parts, need)
    <3>1. made = [feasible |-> TRUE, sizes |-> Shrunk(parts, need)]
      BY <1>4, <1>9, <2>3 DEF GenerateResizePlan
    <3> HIDE DEF need
    <3>2. need <= SumOf(Potentials(parts))
      BY <1>6, <2>1, <2>3 DEF Feasible
    <3> DEFINE new == Shrunk(parts, need)
    <3>3. /\ new \in [1 .. n -> Int] /\ SumOf(new) = SumOf(f) - need
          /\ \A i \in 1 .. n : new[i] # parts[i].size =>
                /\ parts[i].can /\ parts[i].min # NoMinimum /\ new[i] >= parts[i].min
          /\ \E r \in Reductions(parts) : SumOf(r) = need
      BY <1>4, <2>1, <3>2, ShrunkIsExact
    <3>4. made.feasible = TRUE /\ made.sizes = new
      BY <3>1
    <3> HIDE DEF new, made, f
    <3>5. SumOf(new) <= to /\ SumOf(f) - SumOf(new) = need
      BY <1>4, <1>6, <2>1, <3>3
    <3>6. FitsTarget(new)
      BY <3>3, <3>5
    <3> HIDE DEF FitsTarget
    <3> QED BY <1>7, <2>2, <3>3, <3>4, <3>5, <3>6 DEF PlanIsExact
  <2>4. CASE ~Feasible(parts, need)
    <3>1. made = [feasible |-> FALSE, sizes |-> f]
      BY <1>4, <1>9, <2>4 DEF GenerateResizePlan
    <3>2. made.feasible = FALSE /\ made.sizes = f
      BY <3>1
    <3> HIDE DEF need, made, FitsTarget
    <3>3. ~(need <= SumOf(Potentials(parts)))
      BY <1>6, <2>1, <2>4 DEF Feasible
    <3>4. \A r \in Reductions(parts) : SumOf(r) # need
      BY <1>4, <3>3, ReductionsBounded
    <3> QED BY <1>5, <1>7, <2>2, <3>2, <3>4 DEF PlanIsExact
  <2> QED BY <2>3, <2>4
<1> QED
  BY <1>4, <1>8, <1>9

\* A plan of _generate_resize_plan fits and is refused only when the partitions
\* cannot give up the difference of the disks, for any number and sizes of
\* partitions and disks.
THEOREM PlanExact == PlanSpec => []PlanIsExact
<1>1. PlanInit => PlanInv
  BY DEF PlanInit, PlanInv
<1>2. PlanInv /\ [PlanNext]_planVars => PlanInv'
  <2> SUFFICES ASSUME PlanInv, [PlanNext]_planVars PROVE PlanInv'
    OBVIOUS
  <2>1. CASE AnalyzeCloneSession
    BY <2>1 DEF AnalyzeCloneSession, PlanInv
  <2>2. CASE UNCHANGED planVars
    BY <2>2 DEF planVars, PlanInv
  <2> QED BY <2>1, <2>2 DEF PlanNext
<1>3. PlanInv => PlanIsExact
  BY PlansAreExact
<1> QED
  BY <1>1, <1>2, <1>3, PTL DEF PlanSpec

-----------------------------------------------------------------------------
(***************************************************************************)
(* Throttle: the shares of the streams add up to no more than the          *)
(* bandwidth, for any streams, sizes and bandwidth.                        *)
(*                                                                         *)
(* A sum over a set takes an element and goes on with the rest.  With T    *)
(* the sum of the priorities, T times a share is at most the bandwidth     *)
(* times its priority; so it is for the sums, and T divides out.           *)
(***************************************************************************)

First(x) == CHOOSE t \in x : TRUE
Rest(x) == x \ {First(x)}

\* The rest is smaller by one.
LEMMA RestIsSmaller ==
    ASSUME NEW S, IsFiniteSet(S), NEW x \in SUBSET S
    PROVE  /\ Cardinality(x) \in Nat
           /\ x = {} <=> Cardinality(x) = 0
           /\ x # {} => /\ First(x) \in x /\ Rest(x) \in SUBSET S
                        /\ Cardinality(Rest(x)) = Cardinality(x) - 1
<1>1. IsFiniteSet(x) /\ Cardinality(x) \in Nat
  BY FS_Subset, FS_CardinalityType
<1>2. x = {} <=> Cardinality(x) = 0
  BY <1>1, FS_EmptySet
<1>3. x # {} => First(x) \in x
  BY DEF First
<1> QED
  BY <1>1, <1>2, <1>3, FS_RemoveElement DEF Rest

\* Induction over the subsets of a finite set, in the order a sum takes them.
LEMMA SubsetsAll ==
    ASSUME NEW S, IsFiniteSet(S), NEW K, {} \in K,
           \A x \in SUBSET S : x # {} /\ Rest(x) \in K => x \in K
    PROVE  SUBSET S \subseteq K
<1> DEFINE n == Cardinality(S)
           L == {i \in Nat : \A x \in SUBSET S : Cardinality(x) = i => x \in K}
<1>1. n \in Nat /\ \A x \in SUBSET S : Cardinality(x) \in 0 .. n
  <2>1. \A x \in SUBSET S : Cardinality(x) \in Nat /\ Cardinality(x) <= n
    BY FS_Subset, FS_CardinalityType
  <2>2. n \in Nat
    BY FS_CardinalityType
  <2> HIDE DEF n
  <2> QED BY <2>1, <2>2
<1> HIDE DEF n
<1>2. 0 \in L
  BY RestIsSmaller
<1>3. ASSUME NEW i \in 1 .. n, i - 1 \in L PROVE i \in L
  <2>1. SUFFICES ASSUME NEW x \in SUBSET S, Cardinality(x) = i PROVE x \in K
    BY <1>1
  <2>2. x # {} /\ Rest(x) \in SUBSET S /\ Cardinality(Rest(x)) = i - 1
    BY <1>1, <2>1, RestIsSmaller
  <2> QED BY <1>3, <2>2
<1>4. 0 .. n \subseteq L
  <2> HIDE DEF L
  <2>1. \A i \in 1 .. n : i - 1 \in L => i \in L
    BY <1>3
  <2> QED BY <1>1, <1>2, <2>1, Climb
<1> QED
  BY <1>1, <1>4

\* The function behind a sum over a set.
AddsUp(s, f, S) ==
    s = [x \in SUBSET S |-> IF x = {} THEN 0 ELSE f[First(x)] + s[Rest(x)]]

Partials(f, S) == CHOOSE s : AddsUp(s, f, S)

LEMMA SumIsPartial ==
    ASSUME NEW f, NEW S
    PROVE  SumOver(f, S) = Partials(f, S)[S]
  BY DEF SumOver, MapThenSumSet, MapThenFoldSet, AddsUp, Partials, First, Rest

\* There is such a function: it is built from the small subsets up.
LEMMA SumExists ==
    ASSUME NEW S, IsFiniteSet(S), NEW f
    PROVE  AddsUp(Partials(f, S), f, S)
<1> DEFINE n == Cardinality(S)
           Small(i) == {x \in SUBSET S : Cardinality(x) <= i}
           Value(s, x) == IF x = {} THEN 0 ELSE f[First(x)] + s[Rest(x)]
           L == {i \in Nat : \E s : \A x \in Small(i) : s[x] = Value(s, x)}
<1>0. n \in Nat
  BY FS_CardinalityType
<1>1. 0 \in L
  <2> DEFINE s == [x \in SUBSET S |-> 0]
  <2>1. \A x \in Small(0) : x = {} /\ x \in SUBSET S
    BY RestIsSmaller
  <2>2. \A x \in Small(0) : s[x] = Value(s, x)
    BY <2>1
  <2> QED BY <2>2
<1>2. ASSUME NEW i \in 1 .. n, i - 1 \in L PROVE i \in L
  <2>1. PICK s : \A x \in Small(i - 1) : s[x] = Value(s, x)
    BY <1>2
  <2> DEFINE t == [x \in SUBSET S |-> Value(s, x)]
  <2>2. \A x \in Small(i) : x # {} => Rest(x) \in Small(i - 1)
    BY <1>0, RestIsSmaller
  <2>3. \A x \in Small(i) : x # {} => t[Rest(x)] = s[Rest(x)]
    BY <2>1, <2>2
  <2>4. \A x \in Small(i) : t[x] = Value(t, x)
    <3>1. \A x \in Small(i) : t[x] = Value(s, x)
      OBVIOUS
    <3> HIDE DEF t
    <3> QED BY <2>3, <3>1
  <2> HIDE DEF t
  <2> QED BY <1>0, <2>4
<1>3. n \in L
  <2>1. \A i \in 1 .. n : i - 1 \in L => i \in L
    BY <1>2
  <2> HIDE DEF L, n
  <2>2. 0 .. n \subseteq L
    BY <1>0, <1>1, <2>1, Climb
  <2> QED BY <1>0, <2>2
<1>4. PICK s : \A x \in Small(n) : s[x] = Value(s, x)
  BY <1>3
<1>5. \A x \in SUBSET S : x \in Small(n)
  BY FS_Subset
<1> DEFINE r == [x \in SUBSET S |-> s[x]]
<1>6. \A x \in SUBSET S : r[x] = Value(r, x)
  <2>1. \A x \in SUBSET S : x # {} => r[Rest(x)] = s[Rest(x)]
    BY RestIsSmaller
  <2>2. \A x \in SUBSET S : r[x] = Value(s, x)
    BY <1>4, <1>5
  <2> HIDE DEF r
  <2> QED BY <2>1, <2>2
<1>7. AddsUp(r, f, S)
  BY <1>6 DEF AddsUp
<1> HIDE DEF r
<1> QED
  BY <1>7 DEF Partials

\* What the partial sums are.
LEMMA PartialsAre ==
    ASSUME NEW S, IsFiniteSet(S), NEW f \in [S -> Nat]
    PROVE  /\ Partials(f, S) \in [SUBSET S -> Nat]
           /\ Partials(f, S)[{}] = 0
           /\ \A x \in SUBSET S :
                x # {} => Partials(f, S)[x] = f[First(x)] + Partials(f, S)[Rest(x)]
<1> DEFINE s == Partials(f, S)
           K == {x \in SUBSET S : s[x] \in Nat}
<1>1. s = [x \in SUBSET S |-> IF x = {} THEN 0 ELSE f[First(x)] + s[Rest(x)]]
  BY SumExists DEF AddsUp
<1> HIDE DEF s
<1>2. s[{}] = 0 /\ \A x \in SUBSET S : x # {} => s[x] = f[First(x)] + s[Rest(x)]
  BY <1>1
<1>3. {} \in K
  BY <1>2
<1>4. \A x \in SUBSET S : x # {} /\ Rest(x) \in K => x \in K
  BY <1>2, RestIsSmaller
<1>5. SUBSET S \subseteq K
  <2> HIDE DEF K
  <2> QED BY <1>3, <1>4, SubsetsAll
<1>6. s \in [SUBSET S -> Nat]
  BY <1>1, <1>5
<1> QED
  BY <1>2, <1>6 DEF s

\* The sum of numbers of 1 and more is one too, unless there are none.
LEMMA SumPositive ==
    ASSUME NEW S, IsFiniteSet(S), NEW f \in [S -> Nat \ {0}], S # {}
    PROVE  SumOver(f, S) \in Nat \ {0}
<1>1. f \in [S -> Nat] /\ \A t \in S : f[t] \in Nat \ {0}
  OBVIOUS
<1> DEFINE s == Partials(f, S)
<1>2. /\ s \in [SUBSET S -> Nat] /\ s[S] = f[First(S)] + s[Rest(S)]
  BY <1>1, PartialsAre
<1>3. SumOver(f, S) = s[S]
  BY SumIsPartial
<1> HIDE DEF s
<1>4. First(S) \in S /\ s[Rest(S)] \in Nat
  BY <1>2, RestIsSmaller
<1> QED
  BY <1>1, <1>2, <1>3, <1>4

\* Bounds by a factor add up.
LEMMA SumsScale ==
    ASSUME NEW S, IsFiniteSet(S), NEW f \in [S -> Nat], NEW g \in [S -> Nat],
           NEW a \in Nat, NEW b \in Nat, \A t \in S : a * f[t] <= b * g[t]
    PROVE  /\ SumOver(f, S) \in Nat /\ SumOver(g, S) \in Nat
           /\ a * SumOver(f, S) <= b * SumOver(g, S)
<1> DEFINE p == Partials(f, S)
           q == Partials(g, S)
           K == {x \in SUBSET S : a * p[x] <= b * q[x]}
<1>1. /\ p \in [SUBSET S -> Nat] /\ p[{}] = 0
      /\ \A x \in SUBSET S : x # {} => p[x] = f[First(x)] + p[Rest(x)]
  BY PartialsAre
<1>2. /\ q \in [SUBSET S -> Nat] /\ q[{}] = 0
      /\ \A x \in SUBSET S : x # {} => q[x] = g[First(x)] + q[Rest(x)]
  BY PartialsAre
<1>3. SumOver(f, S) = p[S] /\ SumOver(g, S) = q[S]
  BY SumIsPartial
<1> HIDE DEF p, q
<1>4. {} \in K
  BY <1>1, <1>2
<1>5. ASSUME NEW x \in SUBSET S, x # {}, Rest(x) \in K PROVE x \in K
  <2>1. First(x) \in S /\ Rest(x) \in SUBSET S
    BY <1>5, RestIsSmaller
  <2> DEFINE f1 == f[First(x)]
             g1 == g[First(x)]
             p1 == p[Rest(x)]
             q1 == q[Rest(x)]
  <2>2. f1 \in Nat /\ g1 \in Nat /\ p1 \in Nat /\ q1 \in Nat
    BY <1>1, <1>2, <2>1
  <2>3. a * f1 <= b * g1 /\ a * p1 <= b * q1
    BY <1>5, <2>1
  <2>4. p[x] = f1 + p1 /\ q[x] = g1 + q1
    BY <1>1, <1>2, <1>5
  <2> HIDE DEF f1, g1, p1, q1
  <2>5. a * (f1 + p1) = a * f1 + a * p1 /\ b * (g1 + q1) = b * g1 + b * q1
    BY <2>2
  <2>6. a * f1 \in Nat /\ a * p1 \in Nat /\ b * g1 \in Nat /\ b * q1 \in Nat
    BY <2>2
  <2> QED BY <2>3, <2>4, <2>5, <2>6
<1>6. SUBSET S \subseteq K
  <2> HIDE DEF K
  <2>1. \A x \in SUBSET S : x # {} /\ Rest(x) \in K => x \in K
    BY <1>5
  <2> QED BY <1>4, <2>1, SubsetsAll
<1> QED
  BY <1>1, <1>2, <1>3, <1>6

\* What a division leaves out.
LEMMA Divided ==
    ASSUME NEW a \in Nat, NEW b \in Nat \ {0}
    PROVE  a \div b \in Nat /\ b * (a \div b) <= a
  OBVIOUS

LEMMA DividedBelow ==
    ASSUME NEW a \in Nat, NEW b \in Nat \ {0}, NEW c \in Nat, a <= c * b
    PROVE  a \div b <= c
  BY Divided

\* A priority is a number of 100 and more.
LEMMA PriorityType ==
    ASSUME NEW s \in Stream, s.sent <= s.total
    PROVE  CalculatePriority(s) \in Nat \ {0}
<1> DEFINE n == s.total
           m == s.sent
           P1 == IF n < SmallUnits THEN 100 - (100 * n) \div SmallUnits ELSE 0
           P2 == IF n > 0 /\ 5 * m > 4 * n
                 THEN (100 * (5 * Lesser(m, n) - 4 * n)) \div n ELSE 0
<1>1. n \in Nat /\ m \in Nat /\ m <= n /\ SmallUnits \in Nat \ {0}
  BY ThrottleAssumption DEF Stream, Units
<1>2. CalculatePriority(s) = 100 + P1 + P2
  BY DEF CalculatePriority
<1> HIDE DEF n, m
<1>3. P1 \in Nat
  <2>1. CASE n < SmallUnits
    <3>1. 100 * n <= 100 * SmallUnits /\ 100 * n \in Nat
      BY <1>1, <2>1
    <3>2. (100 * n) \div SmallUnits \in Nat /\ (100 * n) \div SmallUnits <= 100
      BY <1>1, <3>1, Divided, DividedBelow
    <3> QED BY <2>1, <3>2
  <2>2. CASE ~(n < SmallUnits)
    BY <2>2
  <2> QED BY <2>1, <2>2
<1>4. P2 \in Nat
  <2>1. CASE n > 0 /\ 5 * m > 4 * n
    <3>1. Lesser(m, n) = m
      BY <1>1 DEF Lesser
    <3>2. 100 * (5 * m - 4 * n) \in Nat /\ n \in Nat \ {0}
      BY <1>1, <2>1
    <3>3. (100 * (5 * m - 4 * n)) \div n \in Nat
      BY <3>2, Divided
    <3> QED BY <2>1, <3>1, <3>3
  <2>2. CASE ~(n > 0 /\ 5 * m > 4 * n)
    BY <2>2
  <2> QED BY <2>1, <2>2
<1> HIDE DEF P1, P2
<1> QED
  BY <1>2, <1>3, <1>4

Priorities == [t \in active |-> CalculatePriority(stream[t])]

\* The priorities and their sum are positive, and the shares are numbers of
\* which the sum keeps to the bandwidth.
LEMMA SharesAre ==
    ASSUME ThrottleTypeOK
    PROVE  (\A t \in active : Share(t) \in Nat) /\ SharesFit
<1>1. IsFiniteSet(active) /\ Bandwidth \in Nat
  BY ThrottleAssumption, FS_Subset DEF ThrottleTypeOK
<1>2. \A t \in active : CalculatePriority(stream[t]) \in Nat \ {0}
  <2>1. \A t \in active : stream[t] \in Stream /\ stream[t].sent <= stream[t].total
    BY DEF ThrottleTypeOK
  <2> QED BY <2>1, PriorityType
<1>3. Priorities \in [active -> Nat \ {0}] /\ Priorities \in [active -> Nat]
  BY <1>2 DEF Priorities
<1>4. TotalPriority = SumOver(Priorities, active)
  BY DEF TotalPriority, Priorities
<1>5. SUFFICES ASSUME active # {} PROVE (\A t \in active : Share(t) \in Nat) /\ SharesFit
  BY DEF SharesFit
<1>6. TotalPriority \in Nat \ {0}
  BY <1>1, <1>3, <1>4, <1>5, SumPositive
<1> DEFINE f == [t \in active |-> Share(t)]
<1>7. ASSUME NEW t \in active
      PROVE  f[t] \in Nat /\ TotalPriority * f[t] <= Bandwidth * Priorities[t]
  <2>1. Priorities[t] \in Nat /\ Priorities[t] = CalculatePriority(stream[t])
    BY <1>3 DEF Priorities
  <2>2. Bandwidth * Priorities[t] \in Nat
    BY <1>1, <2>1
  <2>3. f[t] = (Bandwidth * Priorities[t]) \div TotalPriority
    BY <2>1 DEF Share
  <2> HIDE DEF f
  <2> QED BY <1>6, <2>2, <2>3, Divided
<1>8. f \in [active -> Nat]
  BY <1>7
<1>9. /\ SumOver(f, active) \in Nat
      /\ TotalPriority * SumOver(f, active) <= Bandwidth * TotalPriority
  <2> HIDE DEF f
  <2> QED BY <1>1, <1>3, <1>4, <1>6, <1>7, <1>8, SumsScale
<1>10. SumOver(f, active) <= Bandwidth
  <2> DEFINE x == SumOver(f, active)
             T == TotalPriority
  <2>1. x \in Nat /\ T \in Nat \ {0} /\ T * x <= Bandwidth * T
    BY <1>6, <1>9
  <2> HIDE DEF x, T, f
  <2>2. x <= Bandwidth
    BY <1>1, <2>1
  <2> QED BY <2>2 DEF x
<1> QED
  BY <1>7, <1>10 DEF SharesFit

-----------------------------------------------------------------------------
(* Streams.                                                                 *)

\* A stream takes from its file what it sends, and has sent nothing before it
\* begins.
StreamsKeepCount ==
    \A t \in Streams :
        /\ stream[t].sent + stream[t].buffer + stream[t].content <= MaxUnits
        /\ stream[t].pc \in {"idle", "open"} => stream[t].sent = 0

ThrottleInv == ThrottleTypeOK /\ RegisteredIsLive /\ StreamsKeepCount

LEMMA ThrottleInvInit == ThrottleInit => ThrottleInv
  BY ThrottleAssumption
     DEF ThrottleInit, ThrottleInv, ThrottleTypeOK, RegisteredIsLive, StreamsKeepCount, Stream, Units

\* What is granted is no more than what the stream was registered with leaves.
LEMMA AllowedType ==
    ASSUME ThrottleTypeOK, NEW t \in Streams
    PROVE  Allowed(t) \in 0 .. (stream[t].total - stream[t].sent)
<1> DEFINE rest == stream[t].total - stream[t].sent
<1>1. rest \in Nat
  BY DEF ThrottleTypeOK, Stream, Units
<1>2. CASE t \notin active
  BY <1>1, <1>2 DEF Allowed
<1>3. CASE t \in active
  <2>1. Share(t) \in Nat /\ FloorUnits \in Nat
    BY <1>3, SharesAre, ThrottleAssumption
  <2>2. Greater(Share(t), FloorUnits) \in Nat
    BY <2>1 DEF Greater
  <2>3. Allowed(t) = Lesser(Greater(Share(t), FloorUnits), rest)
    BY <1>3 DEF Allowed
  <2> HIDE DEF rest
  <2> QED BY <1>1, <2>2, <2>3 DEF Lesser, rest
<1> QED
  BY <1>2, <1>3

\* A step of stream t that leaves it a record with the right counts.
LEMMA StreamStepKeeps ==
    ASSUME ThrottleInv, NEW t \in Streams, NEW s \in Stream,
           stream' = [stream EXCEPT ![t] = s],
           active' \in {active, active \union {t}, active \ {t}},
           s.sent <= s.total, s.sent + s.buffer + s.content <= MaxUnits,
           s.pc \in {"idle", "open"} => s.sent = 0,
           t \in active' => s.pc \in {"open", "streaming"} \/ (s.pc = "gone" /\ s.sent = 0)
    PROVE  ThrottleInv'
<1>1. stream \in [Streams -> Stream] /\ active \subseteq Streams
  BY DEF ThrottleInv, ThrottleTypeOK
<1>2. stream' \in [Streams -> Stream] /\ active' \subseteq Streams
  BY <1>1
<1>3. stream'[t] = s /\ \A u \in Streams \ {t} : stream'[u] = stream[u]
  BY <1>1
<1>4. \A u \in active' : u # t => u \in active
  OBVIOUS
<1>5. ThrottleTypeOK'
  BY <1>2, <1>3 DEF ThrottleInv, ThrottleTypeOK
<1>6. RegisteredIsLive'
  BY <1>1, <1>2, <1>3, <1>4 DEF ThrottleInv, RegisteredIsLive
<1>7. StreamsKeepCount'
  BY <1>3 DEF ThrottleInv, StreamsKeepCount
<1> QED
  BY <1>5, <1>6, <1>7 DEF ThrottleInv

LEMMA ThrottleInvStep == ThrottleInv /\ [ThrottleNext]_throttleVars => ThrottleInv'
<1> SUFFICES ASSUME ThrottleInv, [ThrottleNext]_throttleVars PROVE ThrottleInv'
  OBVIOUS
<1>0. CASE UNCHANGED throttleVars
  BY <1>0 DEF throttleVars, ThrottleInv, ThrottleTypeOK, RegisteredIsLive, StreamsKeepCount
<1> SUFFICES ASSUME NEW t \in Streams,
                    Register(t) \/ BeginStream(t) \/ NeverBegun(t) \/ StreamStep(t) \/ ClientGone(t)
             PROVE  ThrottleInv'
  BY <1>0 DEF ThrottleNext
<1> DEFINE s == stream[t]
<1>1. /\ stream \in [Streams -> Stream] /\ s \in Stream
      /\ s.total \in Nat /\ s.content \in Nat /\ s.buffer \in Nat /\ s.sent \in Nat
      /\ s.total <= MaxUnits /\ MaxUnits \in Nat
  BY ThrottleAssumption DEF ThrottleInv, ThrottleTypeOK, Stream, Units
<1>2. /\ s.sent <= s.total /\ s.sent + s.buffer + s.content <= MaxUnits
      /\ s.pc \in {"idle", "open"} => s.sent = 0
      /\ t \in active => s.pc \in {"open", "streaming"} \/ (s.pc = "gone" /\ s.sent = 0)
  BY DEF ThrottleInv, ThrottleTypeOK, StreamsKeepCount, RegisteredIsLive
<1>3. CASE Register(t)
  <2>1. PICK total \in Units, content \in Units :
          stream' = [stream EXCEPT ![t] = [pc |-> "open", total |-> total, content |-> content,
                                           buffer |-> 0, sent |-> 0]]
    BY <1>3 DEF Register
  <2> DEFINE r == [pc |-> "open", total |-> total, content |-> content, buffer |-> 0, sent |-> 0]
  <2>2. /\ r \in Stream /\ r.pc = "open" /\ r.sent = 0 /\ r.buffer = 0 /\ r.content \in Nat
        /\ r.content <= MaxUnits /\ r.total \in Nat
    BY <1>1 DEF Stream, Units
  <2>3. stream' = [stream EXCEPT ![t] = r] /\ active' = active \union {t}
    BY <1>3, <2>1 DEF Register
  <2> HIDE DEF r
  <2>4. r.sent <= r.total /\ r.sent + r.buffer + r.content <= MaxUnits
    BY <1>1, <2>2
  <2> QED BY <2>2, <2>3, <2>4, StreamStepKeeps
<1>4. ASSUME NEW pc \in {"streaming", "done", "gone"},
             stream' = [stream EXCEPT ![t].pc = pc],
             active' \in {active, active \ {t}},
             t \in active' => pc = "streaming" \/ (pc = "gone" /\ s.sent = 0)
      PROVE  ThrottleInv'
  <2> DEFINE r == [s EXCEPT !.pc = pc]
  <2>1. /\ r \in Stream /\ r.pc = pc /\ r.total = s.total /\ r.content = s.content
        /\ r.buffer = s.buffer /\ r.sent = s.sent
    BY <1>1 DEF Stream
  <2>2. stream' = [stream EXCEPT ![t] = r]
    BY <1>4
  <2> HIDE DEF r
  <2> QED BY <1>2, <1>4, <2>1, <2>2, StreamStepKeeps
<1>5. CASE BeginStream(t)
  BY <1>4, <1>5 DEF BeginStream
<1>6. CASE NeverBegun(t)
  BY <1>2, <1>4, <1>6 DEF NeverBegun
<1>7. CASE Exhausted(t)
  BY <1>4, <1>7 DEF Exhausted, StreamEnds
<1>8. CASE ClientGone(t)
  BY <1>4, <1>8 DEF ClientGone, StreamEnds
<1>9. ASSUME NEW r \in Stream, stream' = [stream EXCEPT ![t] = r], active' = active,
             s.pc = "streaming", r.pc = s.pc, r.total = s.total, r.sent <= s.total,
             r.sent + r.buffer + r.content = s.sent + s.buffer + s.content
      PROVE  ThrottleInv'
  BY <1>2, <1>9, StreamStepKeeps
<1>10. CASE ReadContent(t)
  <2> DEFINE n == Lesser(ReadUnits, s.content)
             r == [s EXCEPT !.content = @ - n, !.buffer = @ + n]
  <2>1. n \in Nat /\ n <= s.content
    BY <1>1, ThrottleAssumption DEF Lesser
  <2>2. s.pc = "streaming" /\ active' = active /\ stream' = [stream EXCEPT ![t] = r]
    BY <1>1, <1>10 DEF ReadContent
  <2>3. /\ r.pc = s.pc /\ r.total = s.total /\ r.sent = s.sent
        /\ r.content = s.content - n /\ r.buffer = s.buffer + n
    BY <1>1 DEF Stream
  <2>4. s.content - n \in Units /\ s.buffer + n \in Units
    <3> HIDE DEF n
    <3> QED BY <1>1, <1>2, <2>1 DEF Units
  <2>5. r \in Stream
    <3> HIDE DEF n
    <3> QED BY <1>1, <2>4 DEF Stream
  <2> HIDE DEF n, r
  <2>6. r.sent <= s.total /\ r.sent + r.buffer + r.content = s.sent + s.buffer + s.content
    BY <1>1, <1>2, <2>1, <2>3
  <2> QED BY <1>9, <2>2, <2>3, <2>5, <2>6
<1>11. CASE SendChunk(t)
  <2> DEFINE n == SendSize(t)
             r == [s EXCEPT !.buffer = @ - n, !.sent = @ + n]
  <2>1. n \in Nat /\ n <= s.buffer /\ n <= s.total - s.sent
    <3>1. Allowed(t) \in Nat /\ Allowed(t) <= s.total - s.sent
      BY <1>1, AllowedType DEF ThrottleInv
    <3> QED BY <1>1, <1>2, <3>1, ThrottleAssumption DEF SendSize, Lesser
  <2>2. s.pc = "streaming" /\ active' = active /\ stream' = [stream EXCEPT ![t] = r]
    BY <1>1, <1>11 DEF SendChunk
  <2>3. /\ r.pc = s.pc /\ r.total = s.total /\ r.content = s.content
        /\ r.buffer = s.buffer - n /\ r.sent = s.sent + n
    BY <1>1 DEF Stream
  <2>4. s.buffer - n \in Units /\ s.sent + n \in Units
    <3> HIDE DEF n
    <3> QED BY <1>1, <1>2, <2>1 DEF Units
  <2>5. r \in Stream
    <3> HIDE DEF n
    <3> QED BY <1>1, <2>4 DEF Stream
  <2> HIDE DEF n, r
  <2>6. r.sent <= s.total /\ r.sent + r.buffer + r.content = s.sent + s.buffer + s.content
    BY <1>1, <1>2, <2>1, <2>3
  <2> QED BY <1>9, <2>2, <2>3, <2>5, <2>6
<1> QED
  BY <1>3, <1>5, <1>6, <1>7, <1>8, <1>10, <1>11 DEF StreamStep

\* For any streams, in whatever order they begin, send and end, and with
\* registrations left behind: the shares the throttler computes fit the
\* bandwidth, no stream is granted more than it was registered with, and only a
\* stream that never began stays registered when it is over.
THEOREM SharesSound == ThrottleSpec => []StreamsShare
<1>1. ThrottleInv => StreamsShare
  BY SharesAre DEF ThrottleInv, StreamsShare
<1> QED
  BY <1>1, ThrottleInvInit, ThrottleInvStep, PTL DEF ThrottleSpec
=============================================================================
