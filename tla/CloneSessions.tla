--------------------------- MODULE CloneSessions ---------------------------
(***************************************************************************)
(* A disk clone: the session row and its endpoints                         *)
(* (src/src/api/routes/clone.py), and the scripts that run on the source   *)
(* and on the target node (src/deploy/scripts) and report to them.         *)
(*                                                                         *)
(* A script that cannot deliver a report writes it to a queue directory    *)
(* and delivers it later, so the controller sees reports late, twice and   *)
(* out of order.  No endpoint that takes a report looks at the status.     *)
(* The scripts are modelled as they use the endpoints; the names of fields *)
(* on which the two disagree (README, section 7) are left aside.  A report *)
(* is applied in one step: its handler writes what the report says, and    *)
(* awaits nothing between the load of the row and the flush.               *)
(***************************************************************************)
EXTENDS Naturals

CONSTANTS
    Targets,     \* nodes that may be the target
    NoTarget,    \* target_node_id is NULL
    MaxProgress, \* bytes_total, in units of one progress report
    AnswersLost  \* a report may be applied and its answer lost

ASSUME CloneAssumption ==
    /\ NoTarget \notin Targets
    /\ MaxProgress \in Nat \ {0}
    /\ AnswersLost \in BOOLEAN

VARIABLES
    session,  \* the clone_sessions row
    told,     \* the node whose workflow is clone-target for this session
    patch,    \* the target an update in flight will write, or NoTarget
    image,    \* the staged image
    disk,     \* the copy on the target's disk
    source,   \* the source script: its step and its queue
    target,   \* the target script: its step, its progress and its queue
    link      \* the controller can be reached

cloneVars == <<session, told, patch, image, disk, source, target, link>>

-----------------------------------------------------------------------------
(* The row and the reports                                                  *)

CloneStatuses ==
    {"pending", "source_ready", "cloning", "completed", "failed", "cancelled"}

SessionRow ==
    [ exists  : BOOLEAN,
      mode    : {"direct", "staged"},
      status  : CloneStatuses,
      target  : Targets \union {NoTarget},
      known   : BOOLEAN,             \* source_ip, source_port, bytes_total
      bytes   : 0..MaxProgress,      \* bytes_transferred
      started : BOOLEAN,             \* started_at
      ended   : BOOLEAN,             \* completed_at
      staging : {"none", "uploading", "ready", "downloading", "cleanup",
                 "deleted"} ]

Reports ==
    [kind : {"source_ready", "complete", "failed"}]
    \union [kind : {"progress"}, bytes : 0..MaxProgress]
    \union [kind : {"staging"}, status : {"uploading", "ready"}]

\* A copy is made by a pipe, and a pipe ends as its last command does: the
\* scripts run without pipefail, and when the command that reads fails what
\* was written is short and the script goes on as if it were whole.
Copies == {"none", "short", "whole"}

Piped == {"short", "whole"}

\* What is read of an image: nothing before its upload is over, and no more
\* than was uploaded.
PipedFrom(img) == IF img = "whole" THEN Piped ELSE {img}

Report(kind) == [kind |-> kind]
Progressed(n) == [kind |-> "progress", bytes |-> n]
Staging(s) == [kind |-> "staging", status |-> s]

\* clone_source_ready
SourceReady(row) ==
    [row EXCEPT !.status = "source_ready", !.known = TRUE, !.started = TRUE]

\* clone_progress
CloneProgress(row, n) ==
    [row EXCEPT !.bytes = n,
                !.status = IF @ = "source_ready" THEN "cloning" ELSE @]

\* clone_complete
CloneComplete(row) ==
    [row EXCEPT !.status = "completed", !.ended = TRUE,
                !.bytes = IF row.known THEN MaxProgress ELSE @]

\* clone_failed
CloneFailed(row) == [row EXCEPT !.status = "failed", !.ended = TRUE]

\* update_staging_status
UpdateStagingStatus(row, status) == [row EXCEPT !.staging = status]

\* clone_complete subtracts started_at, which the database returns without an
\* offset, from an aware completed_at after the flush: that raises, and the
\* request is rolled back.
CompletionRaises(row, r) == r.kind = "complete" /\ row.started

\* What a report does to the row.
Apply(row, r) ==
    CASE r.kind = "source_ready" -> SourceReady(row)
      [] r.kind = "progress"     -> CloneProgress(row, r.bytes)
      [] r.kind = "complete"     -> CloneComplete(row)
      [] r.kind = "failed"       -> CloneFailed(row)
      [] r.kind = "staging"      -> UpdateStagingStatus(row, r.status)

\* A direct clone's target is configured to boot when the source is ready.
Told(row, r, was) ==
    IF r.kind = "source_ready" /\ row.mode = "direct" /\ row.target # NoTarget
    THEN row.target ELSE was

\* api_post: delivered, applied with the answer lost, or not delivered.
\* A session that was deleted answers 404, and a handler that raises 500.
Post(r, ok) ==
    IF link /\ session.exists /\ ~CompletionRaises(session, r)
    THEN /\ ok \/ AnswersLost
         /\ session' = Apply(session, r)
         /\ told' = Told(session, r, told)
    ELSE ~ok /\ UNCHANGED <<session, told>>

\* A report without an answer is queued.
Queued(q, r, ok) == IF ok THEN q ELSE q \union {r}

-----------------------------------------------------------------------------
CloneInit ==
    /\ \E mode \in {"direct", "staged"}, t \in Targets \union {NoTarget} :
         session = [ exists |-> TRUE, mode |-> mode, status |-> "pending",
                     target |-> t, known |-> FALSE, bytes |-> 0,
                     started |-> FALSE, ended |-> FALSE, staging |-> "none" ]
    /\ told = NoTarget
    /\ patch = NoTarget
    /\ image = "none"
    /\ disk = "none"
    /\ source = [step |-> "start", queue |-> {}]
    /\ target = [step |-> "wait", bytes |-> 0, queue |-> {}]
    /\ link = TRUE

CloneLinkChanges ==
    /\ link' = ~link
    /\ UNCHANGED <<session, told, patch, image, disk, source, target>>

-----------------------------------------------------------------------------
(* The source script                                                        *)

\* Reports r and goes to step: api_post, else queue_update.
SourceReports(r, step) ==
    /\ \E ok \in BOOLEAN :
         /\ Post(r, ok)
         /\ source' = [step |-> step, queue |-> Queued(source.queue, r, ok)]
    /\ UNCHANGED <<patch, disk, target, link>>

\* Direct mode: the disk is served, and stays so.
SourceServes ==
    /\ session.mode = "direct" /\ source.step = "start"
    /\ SourceReports(Report("source_ready"), "serving")
    /\ UNCHANGED image

\* Staged mode: the upload begins, ends, and is reported; or it fails.
SourceUploads ==
    /\ session.mode = "staged" /\ source.step = "start"
    /\ SourceReports(Staging("uploading"), "uploading")
    /\ UNCHANGED image

SourceStages ==
    /\ source.step = "uploading"
    /\ SourceReports(Staging("ready"), "done")
    /\ image' \in Piped

SourceFails ==
    /\ source.step = "uploading"
    /\ SourceReports(Report("failed"), "done")
    /\ UNCHANGED image

\* flush_queue: queued reports are tried again; those that fail stay.
SourceFlushes ==
    \E r \in source.queue, ok \in BOOLEAN :
        /\ Post(r, ok)
        /\ source' = [source EXCEPT !.queue = IF ok THEN @ \ {r} ELSE @]
        /\ UNCHANGED <<patch, image, disk, target, link>>

-----------------------------------------------------------------------------
(* The target script                                                        *)

TargetReports(r, step, bytes) ==
    /\ \E ok \in BOOLEAN :
         /\ Post(r, ok)
         /\ target' = [step |-> step, bytes |-> bytes,
                       queue |-> Queued(target.queue, r, ok)]
    /\ UNCHANGED <<patch, image, source, link>>

\* Mutation: the target does not wait for the upload.
ReadyToCopyAnyStaging(row) ==
    IF row.mode = "direct" THEN row.status = "source_ready"
                           ELSE row.staging # "none"

\* wait_for_source, wait_for_staging_ready
ReadyToCopy(row) ==
    IF row.mode = "direct" THEN row.status = "source_ready"
                           ELSE row.staging = "ready"

TargetStarts ==
    /\ target.step = "wait" /\ link /\ session.exists
    /\ ReadyToCopy(session)
    /\ TargetReports(Progressed(0), "copy", 0)
    /\ UNCHANGED disk

\* The session failed or was cancelled, or the wait timed out.
TargetGivesUp ==
    /\ target.step = "wait"
    /\ TargetReports(Report("failed"), "done", target.bytes)
    /\ UNCHANGED disk

TargetCopies ==
    /\ target.step = "copy" /\ target.bytes < MaxProgress
    /\ TargetReports(Progressed(target.bytes + 1), "copy", target.bytes + 1)
    /\ UNCHANGED disk

TargetFails ==
    /\ target.step = "copy"
    /\ TargetReports(Report("failed"), "done", target.bytes)
    /\ UNCHANGED disk

\* The pipe has ended: a direct copy reads the source's disk, a staged one the
\* image.
TargetCompletes ==
    /\ target.step = "copy" /\ target.bytes = MaxProgress
    /\ TargetReports(Report("complete"), "done", target.bytes)
    /\ disk' \in IF session.mode = "direct" THEN Piped ELSE PipedFrom(image)

TargetFlushes ==
    \E r \in target.queue, ok \in BOOLEAN :
        /\ Post(r, ok)
        /\ target' = [target EXCEPT !.queue = IF ok THEN @ \ {r} ELSE @]
        /\ UNCHANGED <<patch, image, disk, source, link>>

-----------------------------------------------------------------------------
(* The admin                                                                *)

Updatable(row) == row.status = "pending"

\* update_clone_session looks at the status it loaded, then awaits the look-up
\* of the new target ...
BeginUpdate(t) ==
    /\ patch = NoTarget
    /\ session.exists /\ Updatable(session)
    /\ patch' = t
    /\ UNCHANGED <<session, told, image, disk, source, target, link>>

\* ... and writes target_node_id, whatever the status is by then; a session
\* deleted meanwhile makes the flush raise.
UpdateCloneSession ==
    /\ patch # NoTarget
    /\ session' = IF session.exists THEN [session EXCEPT !.target = patch]
                                   ELSE session
    /\ patch' = NoTarget
    /\ UNCHANGED <<told, image, disk, source, target, link>>

\* start_clone_session: the source node is configured to boot, and the status
\* stays as it is.
StartCloneSession ==
    /\ session.exists /\ session.status = "pending"
    /\ session' = [session EXCEPT !.started = TRUE]
    /\ UNCHANGED <<told, patch, image, disk, source, target, link>>

\* delete_clone_session: a copy under way is cancelled, any other session is
\* deleted.  The scripts are not told.
DeleteCloneSession ==
    /\ session.exists
    /\ session' = IF session.status = "cloning"
                  THEN [session EXCEPT !.status = "cancelled", !.ended = TRUE]
                  ELSE [session EXCEPT !.exists = FALSE]
    /\ UNCHANGED <<told, patch, image, disk, source, target, link>>

CloneSourceStep ==
    SourceServes \/ SourceUploads \/ SourceStages \/ SourceFails \/ SourceFlushes

CloneTargetStep ==
    \/ TargetStarts \/ TargetGivesUp \/ TargetCopies
    \/ TargetCompletes \/ TargetFails \/ TargetFlushes

CloneNext ==
    \/ CloneLinkChanges
    \/ CloneSourceStep \/ CloneTargetStep
    \/ \E t \in Targets : BeginUpdate(t)
    \/ UpdateCloneSession
    \/ StartCloneSession \/ DeleteCloneSession

CloneSpec == CloneInit /\ [][CloneNext]_cloneVars

-----------------------------------------------------------------------------
(* Properties                                                               *)

\* Every variable has its type.
CloneTypeOK ==
    /\ session \in SessionRow
    /\ told \in Targets \union {NoTarget}
    /\ patch \in Targets \union {NoTarget}
    /\ image \in Copies /\ disk \in Copies /\ link \in BOOLEAN
    /\ source \in [step : {"start", "serving", "uploading", "done"},
                   queue : SUBSET Reports]
    /\ target \in [step : {"wait", "copy", "done"}, bytes : 0..MaxProgress,
                   queue : SUBSET Reports]

\* A session counts as completed only when the target has written its disk,
\* from an image whose upload was over, however late, often or disordered the
\* reports arrive.
CompletedIsCopied == session.status = "completed" => disk # "none"

\* A staged image is announced as ready only when its upload is over.
ReadyIsUploaded == session.staging = "ready" => image # "none"

\* The progress of a direct clone is progress towards a known total: no report
\* of the target overtakes the source's.
CloningHasSource ==
    session.status \in {"source_ready", "cloning"} => session.known

\* What the session shows is what its scripts did: none of the above is upset
\* by reports that are lost, repeated or flushed after newer ones.
SessionIsTrue ==
    CloneTypeOK /\ CompletedIsCopied /\ ReadyIsUploaded /\ CloningHasSource
=============================================================================
