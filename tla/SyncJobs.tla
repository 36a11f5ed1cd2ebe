------------------------------ MODULE SyncJobs ------------------------------
(***************************************************************************)
(* Storage sync jobs: the requests (src/src/api/routes/sync_jobs.py), the  *)
(* scheduler (src/src/core/scheduler.py) and the runs of rsync             *)
(* (src/src/core/sync.py).  A run is asked for by a request or by the      *)
(* scheduler, waits for the semaphore, runs rsync into a new directory,    *)
(* saves the result in a session of its own and prunes old directories.    *)
(* A request starts the task of its run before its own session commits: it *)
(* has written the rows, nobody else sees them, and nobody else can write. *)
(***************************************************************************)
EXTENDS Naturals, Sequences, FiniteSets

CONSTANTS
    Jobs,           \* sync jobs
    SyncRuns,       \* runs
    NoRun,          \* no run
    NoJob,          \* the run has not been asked for
    MaxConcurrent,  \* MAX_CONCURRENT_SYNCS
    KeepVersions,   \* keep_versions of every job
    ServerRestarts  \* the controller may stop and start again

ASSUME SyncAssumption ==
    /\ NoRun \notin SyncRuns /\ NoJob \notin Jobs /\ IsFiniteSet(SyncRuns)
    /\ MaxConcurrent \in Nat \ {0} /\ KeepVersions \in Nat
    /\ ServerRestarts \in BOOLEAN

VARIABLES
    job,        \* the sync_jobs rows
    entry,      \* the scheduler has a schedule under the job's id
    run,        \* the runs
    procs,      \* running_processes
    cancelling, \* jobs whose cancel request has ended rsync and not committed
    dirs,       \* the directories of each job, oldest first
    overlapping,\* history: jobs of which a run was asked for before another ended
    early,      \* history: jobs whose row a run read before its request committed
    restarted   \* history: the controller has been restarted

syncVars == <<job, entry, run, procs, cancelling, dirs, overlapping, early, restarted>>

Statuses == {"idle", "running", "synced", "failed"}

JobRow ==
    [ row    : {"new", "there", "deleted"},
      status : Statuses,
      manual : BOOLEAN ]

SyncRun ==
    [ job   : Jobs \union {NoJob},
      kind  : {"manual", "scheduled"},
      phase : {"none",
               "checked",  \* the request saw that the job is not running
               "queued",   \* the task waits for the semaphore
               "rsync",
               "exited",   \* rsync has ended
               "raised",   \* the handler of the task's exceptions
               "writing",  \* the task has read the rows it writes the outcome to
               "saved",    \* the outcome is in the database
               "done"},
      ok    : BOOLEAN,
      same  : BOOLEAN,     \* the status it read is the one it writes
      open  : BOOLEAN ]    \* its request has not committed yet

NotAsked ==
    [ job |-> NoJob, kind |-> "manual", phase |-> "none", ok |-> FALSE, same |-> FALSE,
      open |-> FALSE ]

\* One session at a time has written and not committed; the others wait.
Unlocked == \A r \in SyncRuns : ~run[r].open

\* The task has not read the rows it writes the outcome to.
Unread(r) == run[r].phase \in {"queued", "rsync", "exited", "raised"}

InFlight(r) == Unread(r) \/ run[r].phase = "writing"
InFlightOf(j) == {r \in SyncRuns : run[r].job = j /\ InFlight(r)}

\* Asked for and not at its end: the last of them may still prune.
Unended(r) == InFlight(r) \/ run[r].phase = "saved"
UnendedOf(j) == {r \in SyncRuns : run[r].job = j /\ Unended(r)}

\* Inside "async with sync_semaphore".
Holders == {r \in SyncRuns : run[r].phase \in {"rsync", "exited", "raised", "writing", "saved"}}

SyncInit ==
    /\ job = [j \in Jobs |-> [row |-> "new", status |-> "idle", manual |-> TRUE]]
    /\ entry = [j \in Jobs |-> FALSE]
    /\ run = [r \in SyncRuns |-> NotAsked]
    /\ procs = [j \in Jobs |-> NoRun]
    /\ cancelling = {}
    /\ dirs = [j \in Jobs |-> <<>>]
    /\ overlapping = {} /\ early = {} /\ restarted = FALSE

-----------------------------------------------------------------------------
(* Requests                                                                 *)

\* create_sync_job: the row has no id before the flush, so the schedule is
\* registered under none, and fires for a job that does not exist.
CreateSyncJob(j, manual) ==
    /\ job[j].row = "new" /\ Unlocked
    /\ job' = [job EXCEPT ![j].row = "there", ![j].manual = manual]
    /\ UNCHANGED <<entry, run, procs, cancelling, dirs, overlapping, early, restarted>>

\* update_sync_job with a schedule.
UpdateSyncJob(j, manual) ==
    /\ job[j].row = "there" /\ job[j].status # "running" /\ Unlocked
    /\ job' = [job EXCEPT ![j].manual = manual]
    /\ entry' = [entry EXCEPT ![j] = ~manual]
    /\ UNCHANGED <<run, procs, cancelling, dirs, overlapping, early, restarted>>

\* cancel_sync: rsync is terminated, and the entry is gone when it has ended.
Terminated(j) ==
    /\ run' = IF procs[j] # NoRun /\ run[procs[j]].phase = "rsync"
              THEN [run EXCEPT ![procs[j]].phase = "exited",
                               ![procs[j]].ok = FALSE]
              ELSE run
    /\ procs' = [procs EXCEPT ![j] = NoRun]

\* delete_sync_job
DeleteSyncJob(j) ==
    /\ job[j].row = "there" /\ Unlocked
    /\ IF job[j].status = "running" THEN Terminated(j) ELSE UNCHANGED <<run, procs>>
    /\ entry' = [entry EXCEPT ![j] = FALSE]
    /\ job' = [job EXCEPT ![j].row = "deleted"]
    /\ UNCHANGED <<cancelling, dirs, overlapping, early, restarted>>

\* cancel_sync_job ends rsync ...
CancelTerminates(j) ==
    /\ job[j].row = "there" /\ job[j].status = "running"
    /\ j \notin cancelling /\ procs[j] # NoRun
    /\ Terminated(j)
    /\ cancelling' = cancelling \union {j}
    /\ UNCHANGED <<job, entry, dirs, overlapping, early, restarted>>

\* ... and commits "idle", before or after the run saves its outcome.
CancelCommits(j) ==
    /\ j \in cancelling /\ Unlocked
    /\ cancelling' = cancelling \ {j}
    /\ job' = IF job[j].row = "there" THEN [job EXCEPT ![j].status = "idle"] ELSE job
    /\ UNCHANGED <<entry, run, procs, dirs, overlapping, early, restarted>>

-----------------------------------------------------------------------------
(* Asking for a run                                                         *)

\* run_sync_job and _scheduled_job_callback read the job ...  The scheduler
\* runs one instance of a job at a time.
RunChecks(r, j, kind) ==
    /\ run[r].phase = "none"
    /\ job[j].row = "there" /\ job[j].status # "running"
    /\ kind = "scheduled" =>
         /\ entry[j]
         /\ \A q \in SyncRuns : run[q].job = j /\ run[q].kind = "scheduled"
                                  => run[q].phase \in {"none", "done"}
    /\ run' = [run EXCEPT ![r] = [NotAsked EXCEPT !.job = j, !.kind = kind, !.phase = "checked"]]
    /\ UNCHANGED <<job, entry, procs, cancelling, dirs, overlapping, early, restarted>>

\* ... and write the run and the job's status, unless the job is gone.  The
\* scheduler commits them and goes on to the run.
RunCommits(r) ==
    LET j == run[r].job IN
    /\ run[r].phase = "checked" /\ run[r].kind = "scheduled" /\ Unlocked
    /\ IF job[j].row = "there"
       THEN /\ job' = [job EXCEPT ![j].status = "running"]
            /\ run' = [run EXCEPT ![r].phase = "queued"]
            /\ overlapping' = IF UnendedOf(j) = {} THEN overlapping
                                                  ELSE overlapping \union {j}
       ELSE /\ run' = [run EXCEPT ![r].phase = "done"]
            /\ UNCHANGED <<job, overlapping>>
    /\ UNCHANGED <<entry, procs, cancelling, dirs, early, restarted>>

\* The request flushes them and creates the task of the run ...
RunStarts(r) ==
    LET j == run[r].job IN
    /\ run[r].phase = "checked" /\ run[r].kind = "manual" /\ Unlocked
    /\ IF job[j].row = "there"
       THEN /\ run' = [run EXCEPT ![r].phase = "queued", ![r].open = TRUE]
            /\ overlapping' = IF UnendedOf(j) = {} THEN overlapping
                                                  ELSE overlapping \union {j}
       ELSE /\ run' = [run EXCEPT ![r].phase = "done"]
            /\ UNCHANGED overlapping
    /\ UNCHANGED <<job, entry, procs, cancelling, dirs, early, restarted>>

\* ... and get_db commits when the handler has returned.
RequestCommits(r) ==
    /\ run[r].open
    /\ run' = [run EXCEPT ![r].open = FALSE]
    /\ job' = [job EXCEPT ![run[r].job].status = "running"]
    /\ UNCHANGED <<entry, procs, cancelling, dirs, overlapping, early, restarted>>

\* The scheduled run finds the backend offline.
BackendOffline(j) ==
    /\ entry[j] /\ job[j].row = "there" /\ job[j].status # "running" /\ Unlocked
    /\ job' = [job EXCEPT ![j].status = "failed"]
    /\ UNCHANGED <<entry, run, procs, cancelling, dirs, overlapping, early, restarted>>

-----------------------------------------------------------------------------
(* run_sync                                                                 *)

SemaphoreFree == Cardinality(Holders) < MaxConcurrent

\* _execute_sync makes the directory, starts rsync and enters it in the dict.
StartRsync(r) ==
    LET j == run[r].job IN
    /\ run[r].phase = "queued" /\ SemaphoreFree
    /\ run' = [run EXCEPT ![r].phase = "rsync"]
    /\ procs' = [procs EXCEPT ![j] = r]
    /\ dirs' = [dirs EXCEPT ![j] = Append(@, r)]
    /\ UNCHANGED <<job, entry, cancelling, overlapping, early, restarted>>

\* The backend is not mounted.
StartRaises(r) ==
    /\ run[r].phase = "queued" /\ SemaphoreFree
    /\ run' = [run EXCEPT ![r].phase = "raised"]
    /\ UNCHANGED <<job, entry, procs, cancelling, dirs, overlapping, early, restarted>>

\* rsync ends by itself; the dict loses the job's entry, whichever run's it is.
RsyncEnds(r, ok) ==
    /\ run[r].phase = "rsync"
    /\ run' = [run EXCEPT ![r].phase = "exited", ![r].ok = ok]
    /\ procs' = [procs EXCEPT ![run[r].job] = NoRun]
    /\ UNCHANGED <<job, entry, cancelling, dirs, overlapping, early, restarted>>

OutcomeStatus(ok) == IF ok THEN "synced" ELSE "failed"

\* The rows are read, the job's status as it is committed.
ReadsRows(r, ok) ==
    /\ run' = [run EXCEPT ![r].phase = "writing", ![r].ok = ok,
                          ![r].same = job[run[r].job].status = OutcomeStatus(ok)]
    /\ early' = IF run[r].open THEN early \union {run[r].job} ELSE early
    /\ UNCHANGED <<job, entry, procs, cancelling, dirs, overlapping, restarted>>

\* The run's row is not there for another session before the request commits,
\* nor when the job is deleted: scalar_one raises.
OutcomeReads(r) ==
    /\ run[r].phase = "exited"
    /\ IF run[r].open \/ job[run[r].job].row # "there"
       THEN /\ run' = [run EXCEPT ![r].phase = "raised", ![r].ok = FALSE]
            /\ UNCHANGED <<job, entry, procs, cancelling, dirs, overlapping, early, restarted>>
       ELSE ReadsRows(r, run[r].ok)

\* What the handler of the exception writes is a failure.
RaisedReads(r) == run[r].phase = "raised" /\ ReadsRows(r, FALSE)

\* The outcome is committed.  A session writes the columns that it changed: a
\* status that is what was read stays as it is by then.  The row of a deleted
\* job is not there, and the task ends.
RunSaves(r) ==
    LET j == run[r].job IN
    /\ run[r].phase = "writing" /\ Unlocked
    /\ IF job[j].row = "there"
       THEN /\ job' = [job EXCEPT ![j].status = IF run[r].same THEN @ ELSE OutcomeStatus(run[r].ok)]
            /\ run' = [run EXCEPT ![r].phase = "saved", ![r].same = FALSE]
       ELSE /\ run' = [run EXCEPT ![r].phase = "done", ![r].ok = FALSE, ![r].same = FALSE]
            /\ UNCHANGED job
    /\ UNCHANGED <<entry, procs, cancelling, dirs, overlapping, early, restarted>>

\* Mutation: the newest directories are removed instead of the oldest.
KeptOldest(s) ==
    IF KeepVersions = 0 \/ Len(s) <= KeepVersions THEN s
    ELSE SubSeq(s, 1, KeepVersions)

\* _prune_versions: the newest directories stay, those of failed runs too.
Kept(s) ==
    IF KeepVersions = 0 \/ Len(s) <= KeepVersions THEN s
    ELSE SubSeq(s, Len(s) - KeepVersions + 1, Len(s))

\* Mutation: the task hangs on to its place when the run failed.
RunEndsHolding(r) ==
    /\ run[r].phase = "saved" /\ run[r].ok
    /\ run' = [run EXCEPT ![r].phase = "done"]
    /\ dirs' = [dirs EXCEPT ![run[r].job] = Kept(@)]
    /\ UNCHANGED <<job, entry, procs, cancelling, overlapping, early, restarted>>

\* A successful run prunes; the task ends and releases the semaphore.
RunEnds(r) ==
    /\ run[r].phase = "saved"
    /\ run' = [run EXCEPT ![r].phase = "done"]
    /\ dirs' = IF run[r].ok THEN [dirs EXCEPT ![run[r].job] = Kept(@)] ELSE dirs
    /\ UNCHANGED <<job, entry, procs, cancelling, overlapping, early, restarted>>

\* The controller stops with everything in memory, and starts:
\* _register_scheduled_jobs.  No row is touched but what was not committed.
RestartServer ==
    /\ ServerRestarts
    /\ run' = [r \in SyncRuns |-> IF run[r].phase = "none" THEN run[r]
                                  ELSE [run[r] EXCEPT !.phase = "done", !.same = FALSE, !.open = FALSE]]
    /\ procs' = [j \in Jobs |-> NoRun]
    /\ cancelling' = {}
    /\ entry' = [j \in Jobs |-> job[j].row = "there" /\ ~job[j].manual]
    /\ restarted' = TRUE
    /\ UNCHANGED <<job, dirs, overlapping, early>>

-----------------------------------------------------------------------------
RunStep(r) ==
    \/ RunCommits(r) \/ RunStarts(r) \/ RequestCommits(r)
    \/ StartRsync(r) \/ StartRaises(r)
    \/ \E ok \in BOOLEAN : RsyncEnds(r, ok)
    \/ OutcomeReads(r) \/ RaisedReads(r) \/ RunSaves(r) \/ RunEnds(r)

SyncNext ==
    \/ \E j \in Jobs :
         \/ \E manual \in BOOLEAN : CreateSyncJob(j, manual) \/ UpdateSyncJob(j, manual)
         \/ DeleteSyncJob(j) \/ CancelTerminates(j) \/ CancelCommits(j)
         \/ BackendOffline(j)
         \/ \E r \in SyncRuns, kind \in {"manual", "scheduled"} : RunChecks(r, j, kind)
    \/ \E r \in SyncRuns : RunStep(r)
    \/ RestartServer

SyncSpec == SyncInit /\ [][SyncNext]_syncVars

\* The event loop runs every request and task, and rsync ends.
SyncFairness == \A r \in SyncRuns : WF_syncVars(RunStep(r))

-----------------------------------------------------------------------------
(* Properties                                                               *)

\* Every variable has its type.
SyncTypeOK ==
    /\ job \in [Jobs -> JobRow] /\ entry \in [Jobs -> BOOLEAN]
    /\ run \in [SyncRuns -> SyncRun] /\ procs \in [Jobs -> SyncRuns \union {NoRun}]
    /\ cancelling \subseteq Jobs /\ overlapping \subseteq Jobs /\ early \subseteq Jobs
    /\ dirs \in [Jobs -> Seq(SyncRuns)] /\ restarted \in BOOLEAN

\* No more rsync processes run than the semaphore allows, counting the runs of
\* deleted jobs and those that overlap after a cancel.
RsyncsBounded ==
    Cardinality({r \in SyncRuns : run[r].phase = "rsync"}) <= MaxConcurrent

\* A job shown as running, which run_sync_job, the scheduler and
\* update_sync_job then refuse to touch, has a run in flight that will end it:
\* requests racing the scheduler, cancels, deletions and runs that overlap leave
\* none behind.  A restart does, and a run that fails at once: it can read
\* "failed", the outcome of the run before, while its request has not committed
\* "running", writes no status then, and "running" stays.
RunningUnlessEarly ==
    \A j \in Jobs \ early :
        job[j].row = "there" /\ job[j].status = "running" =>
            InFlightOf(j) # {} \/ restarted

\* Pruning never removes the last good copy: as long as runs of the job did not
\* overlap, once a run has succeeded the directory of a run that succeeded is
\* there, although the directories of failed runs count as versions too.  A run
\* asked for after the outcome of another was saved and before that one has
\* pruned is an overlap: its directory is the newest when the other prunes, and
\* the good copy goes if only one version is kept.
LatestVersionKept ==
    \A j \in Jobs \ overlapping :
        LET good == {r \in SyncRuns : run[r].job = j /\ run[r].ok
                                      /\ run[r].phase \in {"saved", "done"}}
        IN  good # {} => \E i \in 1..Len(dirs[j]) : dirs[j][i] \in good

\* The rows and directories of the jobs agree with their runs, through requests
\* that race the scheduler, their own tasks, cancels, deletions, failures and
\* restarts, unless a run was ahead of its request.
JobsAreTrue == SyncTypeOK /\ RsyncsBounded /\ RunningUnlessEarly /\ LatestVersionKept

\* Every run that was started ends and gives its place free.
RunsEnd == \A r \in SyncRuns : run[r].phase = "queued" ~> run[r].phase = "done"
=============================================================================
