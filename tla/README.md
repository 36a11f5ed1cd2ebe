# PureBoot: a TLA+ verification project

PureBoot is a network-boot provisioning controller: a FastAPI/SQLAlchemy service
that tells machines what to boot, follows their installation, clones disks between
them, synchronises storage, and takes approvals for dangerous operations; a site
agent repeats part of that service at a remote site and keeps working when the
central controller cannot be reached. This directory models the parts of it whose
correctness depends on order: requests that overlap, reports that come late,
packets that are lost, timeouts, retries, crashes.

## 1. Inventory

| part | state it keeps | operations | hard behaviour | module |
|---|---|---|---|---|
| node lifecycle (`core/state_machine.py`, `core/state_service.py`, `api/routes/nodes.py`, `boot.py`, `boot_pi.py`) | rows of `nodes`, `node_state_logs` | register, transition (checked or forced), bulk change, retire, report, callbacks, boot | reports late, duplicated or racing an admin; install timeout; retry counter; lost updates between sessions | `NodeStateMachine`, `NodeLifecycle`, `NodeSessions` |
| node commands (`nodes.py`, `boot.py`) | `nodes.pending_command` | send, two kinds of poll | read, clear and execution are three steps | `NodeCommands` |
| approvals (`services/approvals.py`, `api/routes/approvals.py`, `core/escalation_job.py`) | `approvals`, `approval_votes`, `approval_rules` | create, vote (two entry points), cancel, list, expire, escalate | votes racing votes, listing and escalation racing over expiry, four-eye rule | `Approvals` |
| agent's offline queue (`agent/queue.py`, `queue_processor.py`, `connectivity.py`, `proxy.py`) | SQLite queue, connectivity state | enqueue, peek, mark, dequeue, process, monitor | partitions, crash between send and dequeue, retries | `AgentQueue` |
| agent's boots and look-ups (`agent/boot_service.py`, `offline_boot.py`, `proxy.py`, `cache/state_cache.py`) | node cache, metrics | boot script, look-up, invalidate | a controller that hangs, stale rows | `AgentBoot` |
| agent's boot files (`agent/boot_service.py`) | cache directory | serve, fetch, publish | concurrent misses share a temporary file | `AgentFiles` |
| agent's content cache (`agent/cache/content_cache.py`, `sync.py`) | files, metadata, two locks | put, evict, clear, sync | lock re-entry, crash between file and metadata | `ContentSync` |
| sites and their agents (`api/routes/agents.py`, `sites.py`, `core/agent_status_job.py`, `agent/main.py`, `heartbeat.py`) | the site's agent columns, tokens | token, register, heartbeat, status job | heartbeats and the job overwrite each other | `SiteAgents` |
| health (`core/health_service.py`, `api/routes/health.py`) | health columns, alerts | report, periodic check, acknowledge, retire | alert created and resolved by different actors | `NodeHealth` |
| clone sessions (`api/routes/clone.py`, `deploy/scripts/pureboot-clone-*.sh`) | `clone_sessions`, the disks | create, start, source-ready, progress, complete, failed, staging, resize plan | two machines reporting independently, queued and repeated reports, pipes that end short, updates that race reports | `CloneSessions`, `ResizePlan` |
| partitions (`api/routes/disks.py`, `deploy/scripts/pureboot-partition.sh`) | `partition_operations`, disk reports | queue, remove, poll, execute, report | order, lost outcomes, stale reports | `PartitionOps` |
| storage sync (`core/sync.py`, `core/scheduler.py`, `api/routes/sync_jobs.py`) | `sync_jobs`, `sync_job_runs`, process table, version directories | run, schedule, cancel, delete, prune | a task ahead of its commit, cancel racing completion, restart, concurrency limit | `SyncJobs` |
| TFTP server (`pxe/tftp_server.py`) | transfers | read request, block, acknowledgement, timeout | loss, duplication, delay; block numbering | `TftpTransfer`, `FileDelivery` |
| Raspberry Pi boot (`pxe/pi_manager.py`, `boot_pi.py`) | directories per serial number, rows | register, boot, retire, discovery | the directory is made file by file, outside the transaction of the row | `PiBoot` |
| bandwidth throttler (`core/bandwidth_throttler.py`, `boot_files.py`) | registered streams | register, allowance, send, end | shares at the limit, streams that break off | `Throttle` |
| device groups and sites as a tree (`api/routes/groups.py`, `sites.py`) | parent, path, depth | create, move, rename, delete, assign | cycles, stale paths | `GroupTree` |
| iSCSI LUNs (`api/routes/luns.py`, `core/iscsi.py`) | `iscsi_luns`, the target's configuration | create, delete, rename, assign, unassign | multi-step commands that fail half way | `IscsiLuns` |
| users and sessions (`api/routes/users.py`, `auth.py`) | `users`, `refresh_tokens` | login, refresh, logout, role, activity, password, delete | checks on rows another request is changing | `UserAccounts` |
| RBAC, LDAP, audit, ProxyDHCP, iPXE builder, templates, hypervisors, websockets, certificates, settings | single tables or external systems | CRUD, text, thin wrappers | no protocol of their own | not modelled (section 6) |

Parts meet in three ways: through the one database (every request has its own
session, committed when the handler returns and rolled back when it raises), through
`asyncio` tasks in the same process (schedulers, escalation, health), and through
HTTP and TFTP between node, agent and controller, where every call can be lost, late
or repeated.

What makes the parts correct: a node never exceeds its retry limit, its log tells the
truth and "retired" is final; a request's status follows from the votes of enough
different people and stays once resolved; an operation a node was told is queued
reaches the central controller or is visibly given up; a file arrives whole or the
transfer is not called complete; a clone, an operation or a job shown as done was
done; who is shown alive is alive; what is kept twice agrees; and everything that is
begun ends.

## 2. Plan

Done: the modules of section 1, and proofs for the node core and the refinement of its
atomic requests by sessions, the approvals, the agent's offline queue, the TFTP server
with its abstract specification, clone sessions and resize plans, partition operations,
sync jobs, the agent's boot files and content cache, accounts, LUNs, node commands,
alerts and the group tree: every invariant a run checks is a theorem. The order was that
of importance for the machines: what they boot, what is done to their disks, then what
admins see.

To come, most important first:

1. Overlapping requests on the group tree, where a cycle needs no confusion of names
   (section 7).
2. `ApprovalRules`: the matching order of `find_matching_rule`, once a route calls it.
3. Overlapping requests on accounts, with what is still guaranteed then.

## 3. Modules and the code

| module | role |
|---|---|
| `NodeStateMachine` | the table of `NodeStateMachine`, and `StateTransitionService` as operators from a loaded row to an outcome (row, log entry, raised or not) |
| `NodeLifecycle` | EXTENDS it; the handlers as atomic requests; the abstract specification of the node tables |
| `NodeSessions` | EXTENDS it; the same requests as database sessions; implements `NodeLifecycle` when one session runs at a time |
| `FileDelivery` | the abstract specification of a file transfer; `TftpTransfer` implements it |
| one module per part | see section 1; state, Init, actions, properties |
| `MCNodeLifecycle`, `MCNodeSessions`, `MCApprovals`, `MCAgentQueue`, `MCGroupTree` | instances for TLC: request sets and symmetries |
| `MCTransfers`, `MCSites`, `MCFileCopies`, `MCAdministration` | several parts that share no state, checked in one run: a variable `on` chooses in the initial state which part runs, the others stay as they begin |
| `...Proofs` | theorems and their proofs |

Names follow the source (`HandleInstallFailure` is `handle_install_failure`); PROJECT.json
maps every definition to its lines. Definitions under a comment `Mutation:` are
plausible wrong versions of the definition after them; no specification uses them.
They are there to show that a property notices.

A request of SQLAlchemy loads rows, awaits, and writes at its commit the columns whose
value differs from the loaded one. Modules in which that matters have a step that
reads and a step that commits, and a column set to the value it had is not written
(`NodeSessions`, `SiteAgents`, `NodeHealth`, `NodeCommands`). SQLite takes its write
lock at the first write of a transaction, so what a handler reads after that is
current. A handler that raises is rolled back and is no step, unless it did something
outside the database first.

`AuthMiddleware` asks for an Authorization header on every path except a few public
ones (`/boot`, `/ipxe`, `/report`, `/api/v1/boot/*`, `/api/v1/ipxe/*`, login, health).
Neither the agent nor the deploy scripts send one; the models take their requests as
let through.

### 3.1 Node lifecycle

`rows[n]` keeps of a `Node` row what the handlers test: `state`, `attempts`
(`install_attempts`), `failed` (`last_install_error` is set), `changed` (age of
`state_changed_at`: never set, recent, past the install timeout), `workflow` (none, one
that exists, one that does not, a clone's). `history[n]` is the newest row of
`node_state_logs`. A request is an operation, an argument and a force flag; `Serve`
runs its handler on the row and commits the outcome, or rolls back if the handler
raised, as `get_db` does. The names of the actions are those of the route functions.
Bulk changes try each node and commit those that could move.

`AwareTimestamps` is whether timestamps come back with their offset. It is FALSE in every
run: the columns are declared without one (`models.py:167`), and `boot.py:500` subtracts the
column from an aware `now`, which raises on every boot of an installing node. The theorems
hold either way. An unknown Pi in discovery mode is registered whatever the setting says
(`discover_pi`, `boot_pi.py:129`).

### 3.2 Sessions

`sess[s]` holds the rows a request loaded. `Begin` is the handler's first SELECT,
`FinishServe` and `FinishRegister` its commit: SQLAlchemy writes the columns that differ
from the loaded value (`WriteChanged`) without a version check; the unique
`mac_address` refuses a second insert. `Crash` drops every session in flight.

### 3.3 Approvals

`rows[a]` is the `approvals` row (absent, or status, threshold, rule, requester,
escalation count, and whether `expires_at` has passed); `votes[a]` the sequence of
`approval_votes`. From the first write to the commit a handler is one step, and what it
loaded before may be old: `Begin...` loads, `Finish...` writes. A vote recounts the votes
after its insert, as `cast_vote` does after its `flush` and `refresh`. On PostgreSQL
under READ COMMITTED two recounts could miss each other; that is not modelled.
`Overlap = FALSE` is one handler at a time. The `expired` that a vote on an overdue
request assigns just before raising is rolled back with it. `create_approval_request`,
which makes a request from a rule, has no route that calls it yet; it is an action
(`CreateApprovalRequest`) because the escalation code is written for its requests. The
ids of requester and voter are optional (`AnonymousIds`, TRUE in the passing runs); the list
of a user's pending approvals compares ids, a vote ids and names.

### 3.4 Agent queue

`link` is the network and moves freely; `online` and `failures` are what the monitor
believes. `rows` is the `sync_queue` table, `created` its order by `created_at`.
`proc` is where `process_queue` stands: its phase, the rest of its batch, the item
being sent with the attempt count `peek` read, the answer. A send that reaches the
central controller is applied and acknowledged, or applied with the answer lost; one
that does not reach it, or is refused, changes nothing there. `told` is what the node
was answered. With `Crashes` the process may stop between any two steps, the table
staying; with `ThreadHops` a statement may be refused by `sqlite3`, because the
connection was opened on one thread of the default executor and each statement runs on
whichever thread is free. The central controller has no `/nodes/register` and no
`/nodes/{id}/event` route at this commit, so `CentralRefuses` is the normal case for
two of the three kinds of operation.

### 3.5 TFTP

`xfer[t]` is a `TFTPTransfer`: where `send_file` stands, its block number, the chunks
read, the retry counters of `send_file` and of `wait_for_ack`, `last_ack_block`, the
event and the done flag. `packets` is everything ever sent: a packet may be received
never, once or again, at any later time, which is loss, duplication and reordering in
one. A retransmission puts the same packet there. The client follows RFC 1350 and may
repeat its request, which starts a second transfer on a second socket. `Wake` is the
coroutine after the event, `Timeout` the timer; `Retries` and `NotAcknowledged` are the
two nested loops. `FileDelivery` says what the client may rely on; the mapping takes the
client's blocks for `received` and a transfer that returned without an error for
`complete`.

### 3.6 Throttle

`stream[t]` is a request for a boot file with its registered size, what is left of the
file, the buffer of `throttled_iterator` and `bytes_transferred`; `active` the streams
the throttler knows. Sizes are in units, priorities in hundredths. The size registered
and the file's content are chosen independently, as the file may change between `stat`
and `open`. A stream without an allowance sleeps, so sending waits for one.

### 3.7 Clone sessions and resize plans

`session` is the row; `source` and `target` are the scripts, with the queue directory
of `pureboot-common.sh`: a report that cannot be posted is queued and flushed later.
`link` comes and goes, and a posted report may be applied with its answer lost, which
queues it too. `image` and `disk` are what really was uploaded and copied: nothing, a
short copy or a whole one, since the scripts copy through pipes without `pipefail`, and a
pipe whose reading side failed ends like one that worked. `told` is the node the boot
configuration was written for. The endpoints take reports without looking at the status.
Admins start, delete or cancel, and update in two steps: `BeginUpdate` checks the status,
`UpdateCloneSession` writes the new target (`patch`) after the look-up it awaited. The
completion of a session that was started raises and changes nothing. The scripts flush in
a loop; `set -e` in fact ends them after the first report of a flush, so the model has
those behaviours and more. `ResizePlan` is
`_generate_resize_plan` as operators, with the loop over the partitions as a recursive
function; its one step computes the plan of an arbitrary request, and `PlanIsExact`
compares it with every way to shrink the partitions by the difference of the two disks. That
is what the code asks for; space of the source that no partition uses is not taken into
account (`clone.py:696`), so a plan may be refused where the partitions would fit.

### 3.8 Partition operations

`ops[o]` is a row with device, sequence number, status, and, as history, the
operations stored before it; queueing reads the largest pending sequence number in one
step and inserts in another. `script` is `pureboot-partition.sh`: scan and report the disks,
flush the queue, poll, run each operation and report it, scan again. It runs under `set -e`,
which ends it in the pause after its first turn and after the first report a flush tries;
the next turn takes another boot (`RestartNode`). `ran` and `good` are what was done to
the disks, `disks` the layout the controller shows (as the number of operations carried
out before the scan), `astray` the reports lost with the queue directory when the node
restarts, or flushed late.

### 3.9 Sync jobs

`job[j]` is the row, `entry[j]` the scheduler's entry, `run[r]` a run with its phase:
checked, queued on the semaphore, rsync, exited, raised (the handler of its exceptions),
writing (it has read the rows it writes its outcome to), saved, done. A request starts the
task of its run before its own session commits: until then the run is `open`, its rows
cannot be read by the task, whose look-up raises, and SQLite's lock keeps every other
session from writing (`Unlocked`). A task writes the status only if it differs from the one
it read. `procs` is the dict of processes that cancel looks at, `dirs[j]` the version
directories in order. `overlapping` (the jobs of which a run was asked for before another
had ended), `early` (those whose row a run read before its request committed) and
`restarted` are history. Cancel is two steps, terminating the process and committing the
status.

### 3.10 Sites, boots and health

`SiteAgents`: `siteRow[s]` is the agent's columns of a site, `agent[s]` the agent
process, `agentReq` its requests in flight (loaded, not committed), `statusJob` the
job's. Ages are counted in thresholds; `Interval` lets a heartbeat interval pass.
`AgentBoot`: `link` is up, down or hangs; `online` is what the monitor believes;
`nodeCache` has a row fresh, expired or not; a boot or look-up asks the controller if
it is believed online and then answers from what it got or from the cache. A link that
hangs costs a boot its script (`CentralHangs`): `TimeoutError` is not caught.
`NodeHealth`: `health[n]` is age, status and score of a node; the check, a report and an
acknowledgement each load and commit; `alerts[n][t]` counts active alerts of a type.

### 3.11 Copies of files

`PiBoot`: `piDir[s]` is a Pi's TFTP directory: whether it exists, its links, the model
`config.txt` names, and `cmdline.txt`; `piRow[s]` is its row, `disc` the discovery
directory, `pi[s]` how far the firmware got. A directory is made, updated and removed file
by file, and the controller may stop or the file system fail at any of them; links are made
for what is installed. The request commits afterwards, or fails to. `spoiled` records what
the property excepts. `ContentSync`: the tasks with their program counters, the two
`asyncio` locks, the metadata in memory and on disk, the files. A manual synchronisation
waits for a lock it holds and so never gets as far as the cache; the steps of the scheduled
one, which nothing else calls, are there because they are the code it would run.
`AgentFiles`: each request for a boot file checks, fetches, writes a temporary file in a
thread, which may fail, and renames it in another; `inode` is what a file on disk holds,
`temp` and `published` which file a name leads to.

### 3.12 Administration

`GroupTree`: a row with parent, path and depth; moves and renames rewrite what LIKE
finds. Names and paths are sequences of characters, the slash one of them, and a name may
be any; `Alike` are the pairs of characters of which LIKE takes the second for the first;
what is found is rewritten as `str.replace` does it, at the first place where the old path
comes. The history variable `mistaken` says that a row was rewritten that is not below the
group. `IscsiLuns`: a slot is a request and the background task it leaves, one step per
`targetcli` call and per commit, each of which may fail, or raise in a task, which then
sets the row's status to "error". `UserAccounts`: users, sessions
(`refresh_tokens`), the browser's cookie, and requests in flight. `NodeCommands`: the
column, the iPXE poll that reads and clears in two steps, and the script's poll.

## 4. Runs

| run | checks | shows |
|---|---|---|
| `node_lifecycle` | `RetryLimitHolds`, `FailuresBelongToInstall`, `AuditedMoves`, `RetiredLeavesByForce` | holds for every request in every order, one at a time |
| `node_sessions_serial` | `ImplementsAtomicRequests` | load and commit as two steps, with crashes between, implement `NodeLifecycle` |
| `node_sessions_racing` | `RacersKeepToTheirOwn` | what two overlapping requests still guarantee: workflows survive, one registration |
| `approvals_serial` | `FourEyes`, `MyPendingMissesNothing`, `ResolvedIsFinal` | holds when handlers do not overlap, with optional ids missing |
| `approvals_racing` | `StatusMatchesVotes`, `EscalationsComeFirst`, `EveryRequestResolved` | holds with two handlers and the job in flight |
| `approvals_late_vote` | `ResolvedIsFinal`, violated | of an approve and a reject in flight together the reject resolves the request, then the approve makes it approved |
| `agent_queue` | `QueuedIsNotLost`, `RetriesBounded`, `BatchIsCurrent` | holds through outages, refusals, lost answers, crashes and failing statements |
| `transfers` | `TransferIsSound`, `DeliversFile`, `TransfersEnd` (TFTP); `StreamsEnd` (throttler); `SessionIsTrue` (clones); `PlanIsExact` (resize plans); `OperationsAreTrue` (partitions); `JobsAreTrue`, `RunsEnd` (sync jobs) | what moves data and changes disks does what it says and ends |
| `sites` | `StatusConverges` (site agents); `BootsAreAnswered` (boots through an agent); `OneActiveAlert`, `AlertsConverge` (health) | who is shown alive is alive, and a boot at a cut-off site ends, with a script unless the link hangs |
| `file_copies` | `RegisteredIsWhole` (Pi directories); `EntryHasFile` (content cache); `FilesAreWhole` (boot-file cache); `QueuedIsSettled` (agent queue) | files agree with the rows and entries that stand for them; once the link stays up, everything queued is synced or given up |
| `administration` | `TreeIsSound` (groups); `LunsAreTrue` (iSCSI); `AccountsAreSound`, `AllSessionsEnd` (users); `CommandsRunOnce` (node commands) | what admins change stays consistent |
| `groups_circular` | `NoCircularReference`, violated | seven requests, one after the other, make two groups each other's parents |

A type invariant is a conjunct of the named properties of its module where a run
checks it; those of the node, session, approval and queue modules are theorems of their own
(section 5).

Bounds and why they are enough.

- *Node runs.* One node: handlers touch one row, and the bulk change treats each node
  alone; the retry limit is the default 3 (2 where two sessions multiply the states) and
  `AttemptsCap` only stops new requests on rows that overlapping requests carried past it.
- *Approvals.* `approvals_serial` has two requests, three users, thresholds 1 and 2: the
  smallest in which two approvals, the requester and a stranger differ. The racing runs
  have one request, two sessions and the job: three handlers in flight cover every pair
  and the job between them. `MaxEscalations` is the code's 3.
- *Agent queue.* Three operations and batches of two, so that a batch ends with rows
  left; `MaxRetries` 2 and a threshold of 2 let the link fail within a batch with and
  without the monitor noticing. In `file_copies`, where the queue is shown to settle, they
  are the defaults 3 and 3, for two operations.
- *Transfers.* Two TFTP transfers to one client, files of up to two blocks, the last full or
  not, block numbers up to 2 for the protocol's 65535, two retries: one transfer is old
  while another runs, a file needs a block more than there are numbers, the retry counters
  reach their limit with and without stale acknowledgements. Two streams of up to three
  units with a read of three, a chunk of two and a floor of one: a buffer outlives a chunk
  and the floor is larger than a share. One clone session with two possible targets, so that
  the target can be changed. Two operations on one device. Two partitions of up to two units
  on disks of up to four: every plan over them is compared with all reductions. One job with
  two runs, one place, one version to keep and restarts: a run waits for its place and loses
  it, a failed run's directory is there when a good one prunes, and a second run meets the
  status the first has left.
- *Sites.* One site and one node (rows do not meet), two boots, one look-up and two
  machines at the agent, thresholds one and two intervals apart.
- *File copies.* One Pi, not of the default model, where the firmware of the default model
  is not installed, so that its directory is made for one model and updated for another;
  `pi.nodes_dir` is the TFTP root, since with the default directories a registered Pi does
  not boot (section 7) and most of its steps would not be taken (the theorem covers both);
  two cache tasks, a cache of one file, three files of which one is never evicted and one
  the controller refuses; three requests for boot files, two of which share a stem.
- *Administration.* Three groups with the names `a`, `A` and `ab`: LIKE takes one for
  another, and one begins another; paths of up to seven characters, enough for three
  levels. The theorem is for any length, and `groups_circular` has twelve, which is what it
  takes for the name of a deleted site to come again further down, and the names `a`, `A`,
  `c`. Two requests on two LUNs and one node; two users, one browser, two sessions, two
  requests; three commands. `LunsOfInterest` does not follow
  states after two of a restart, an overlap and a rename, and `GroupsOfInterest` none after
  a row was rewritten by mistake: `past` and `mistaken` only grow, and what the properties
  still say of these states (who is at work on a LUN, that the groups referred to exist) is
  proved of all.

Symmetry is used only in runs without liveness, on sets whose members are
interchangeable in Init, Next and every property. Deadlock is checked in the node and
queue runs; the other parts may come to rest with everything done.

Fairness, and what in the code gives it. In the runs of several parts it is asked only
of the part that is on.

- `Approvals`: deadlines pass; the scheduler starts the job every five minutes (weak
  fairness of `BeginEscalation`), and a job that runs again and again commits some time
  (strong fairness of `FinishEscalation`, since a run can be aborted).
- `AgentQueue`: the event loop runs every task that is ready, and the service manager
  starts the agent again; the link is not assumed to be fair, the property asks for it.
- `TftpTransfer`: the event loop runs the coroutine and its timer fires. Nothing is
  assumed of the network or of the client.
- `Throttle`: a response that is being iterated is iterated on, or its client leaves.
- `SyncJobs`: a background run goes on, and rsync ends.
- `SiteAgents`: a request ends, if by its client's timeout; the job runs every minute; time
  passes. `AgentBoot`: a call is answered, refused or times out. `NodeHealth`: the check
  runs on its schedule, a report that was begun commits.

Nothing is assumed of the scripts on the machines, of Pis or of admins.

## 5. Proofs

The theorems hold for every value of the constants that satisfies the named
assumptions, which TLC evaluates in the runs.

`NodeLifecycleProofs`. The invariant is `TypeOK`, `RetryLimitHolds`,
`FailuresBelongToInstall` and `LegalHistory` together. The retry limit is not inductive
alone: a node at the limit may be retired, or installed with its count, unless the count
is known to be zero outside the install loop. Handlers are pure functions of a row, so
the work is in lemmas of the form: a handler given a good row leaves a good row
(`RowOK`), logs a legal entry, and logs the move it makes (`OutcomeOK`). Theorems:
`TypeCorrect`, `RetryLimit`, `FailuresConfined`, `HistoryLegal`, `MovesAudited`,
`RetiredStaysRetired`, `ValidTransitionsExact`.

`NodeSessionsProofs`. Nothing is assumed of the rows: a request in flight may have loaded
a row that others have changed since, so the invariant of `NodeLifecycleProofs` is not
available, and the lemmas about handlers are about any row of the right type. The invariant
`SessionInv` is the types and that the nodes a session found are registered. Theorems, for any
number of sessions: `SessionTypes`; `RacersKeep` (`RacersKeepToTheirOwn`: a handler
that does not assign workflows leaves the column as it loaded it, hence unwritten). For one
session at a time (`OneAtATime`): `OneSessionIsAtomic`, the refinement of `NodeLifecycle`.
A row loaded is then the row at the commit, so writing the changed columns is writing the
row; loading and crashing are stutters. `SerialRetryLimit` follows: the retry limit holds
of the two-step requests.

`ApprovalsProofs`. The invariant is `TypeOK`, `LoadedIsCurrent` and
`StatusMatchesVotes`. A vote in flight may commit onto a request resolved since; the
status still agrees with the votes because counts only grow (`CountGrows`) and the
recount is made on the committed votes (`Recount`), and `LoadedIsCurrent` says the
request exists. Without overlap the same invariant gives `ResolutionFinal`: what a
handler loaded as pending is pending still. Three more invariants rest on this one:

- `VotersDiffer`: the voters of a request differ from each other and from its requester,
  and the voter of a vote in flight has not voted. It needs `~Overlap`: two votes of one
  user in flight both pass the check (section 7). Theorem: `ApprovedByOthers` (`FourEyes`).
- `IdsAgree`: an id that was given is of the user whose name is. Overlap and missing ids are
  allowed. Theorem: `PendingListComplete` (`MyPendingMissesNothing`): whoever is refused by
  id is refused by name too, so the list misses nothing.
- `EscalationsCurrent`: the counts and rules the job loaded are those of the table, since no
  other handler writes them. Nothing is assumed. Theorem: `EscalatedBeforeExpired`
  (`EscalationsComeFirst`).

Assumption: thresholds are at least 1. Theorems besides: `StatusAgrees`,
`ResolutionFinal`, `TypeCorrect`.

`AgentQueueProofs`. The invariant is `TypeOK`, `QueuedIsNotLost`, `RetriesBounded` and
`BatchIsCurrent`. Deleting a row loses nothing only if the answer remembered as a success
was one, and giving up is right only if the attempts in the batch are those of the table:
both are `BatchIsCurrent`, which needs that rows queued meanwhile and other items of the
batch are different rows. Crashes, refusals and failing statements are part of the
specification. Theorems: `QueuedNotLost`, `RetriesLimited`, `BatchCurrent`,
`TypeCorrect`.

`TftpProofs`. `TransferIsSound` is not inductive: a transfer moves on when it remembers an
acknowledgement, so the invariant `TftpInv` has to say where acknowledgements come from.
Its parts: the client has the blocks of a prefix of the file (`ClientSound`); a block on
the network is one of the file and the client has the one before it (`DataSound`); an
acknowledgement on the network is of a block the client has (`AckSound`); a transfer
remembers only acknowledgements that are on the network and, at each point of
`send_file`, counts as sent only what the client acknowledged (`TransferSound`,
`PhaseSound`); the entry of the dict is running (`EntryIsRunning`). Nothing is ever
taken from the network, so each part only has to survive additions; what the client has
only grows (`OkStays` keeps a completed delivery complete). Theorems: `TransfersSound`,
and `TransfersDeliver`, the refinement of `FileDelivery`: each step is a block delivered, the
completion, or a stutter. They hold for any number of transfers, file length, retry
limit and largest block number.

The module also proves `RegisteredIsWhole` of the Pi directories. It is not inductive alone:
whether a registration makes the directory or only updates it depends on its existence, so
`PiInv` adds that a directory that is not there has no configuration (`Unmade`). So a Pi
with a row and nothing spoiled has a directory, and a registration updates it; what is made
from nothing is for a Pi without a row, and that row commits after the last file
(`CreatesKeep`, with `HalfCreatedKeeps` for every place to stop at). Theorem:
`PiRegisteredWhole`, for any Pis, models and installed files.

`StorageProofs`, in five parts.

- *Clone sessions.* `SessionIsTrue` is not inductive: a report that is still in a queue may
  be flushed at any time, so the invariant `CloneInv` says of each queued report that it is
  true (`ReportSound`: "complete" only with a copy on the disk, "ready" only with an upload
  that is over; `SourceSound` and `TargetSound` are about the two queues), that image and
  disk, once there, stay so, that a staged copy that has begun has an image (`TargetSound`),
  and what the row may say (`RowSound`). How
  much was copied is not part of it: the scripts do not know. Theorem: `SessionsTrue`.
- *Resize plans.* Sums are recursive functions, and so is the loop over the partitions
  (`Remaining`). Induction is replaced by a lemma about sets of numbers (`Climb`: a set with
  0 that has i whenever it has i - 1 has all numbers up to n), proved from the smallest
  number that is missing; with it `SumsAre` shows that the recursive definition defines a
  function. What is left to shrink after the partitions behind i is a closed form (`Left`):
  the difference of the disks without the potentials behind i, or nothing. It satisfies the
  loop's equation and nothing else does (`RemainingIsLeft`). So the loop takes from each
  partition the difference of two neighbours, the sum telescopes (`LoopReduces`), and a
  larger sum of reductions than that of the potentials there is not
  (`ReductionsBounded`). Theorem: `PlanExact`, for any partitions and disks.
- *Partition operations.* The order in which operations run is decided three times: by the
  number given at the insert, by the order of the batch a poll answers, and by what the node
  has already run. `PartInv` links them: an operation has a larger number than the pending
  ones stored before it (`AfterStored`), so a batch holds before each operation whatever
  must precede it and has not run (`BatchInOrder`), and what is pending although it has run
  has an outcome that was not delivered (`PendingIsUnreported`); the script polls only with an
  empty queue (`PollsWithNoneQueued`), so an operation in a batch that has run lost its
  report in a restart. That the largest of the pending
  numbers exists is the lemma `LargestOfFinite`, proved from a minimal counterexample over
  the well-founded subset order of finite sets: a set instance of induction, without
  an operator as parameter. Theorem: `OperationsTrue`.
- *Sync jobs.* `SyncInv` has two halves. Of the rows (`RowsInv`): a run whose request has
  not committed is ahead of it only in steps that wrote nothing (`OpenIsAhead`), and a job
  shown as running has a run that will write another status (`RunningHasEnder`), unless a
  run read the row early or the controller was restarted. Of the runs (`RunsInv`): the
  holders of the semaphore are no more than its places (`HoldersBounded`), a job none of
  whose runs overlapped has one that has not ended (`OneUnended`), and the newest directory
  is that run's (`NewestIsOwn`), so pruning after a success keeps a good copy (`GoodKept`).
  The attempts to prove this with fewer exceptions failed for reasons in the code (section
  7, storage sync), hence `overlapping` and `early`. Theorem: `JobsTrue`, restarts included.
- *Throttle.* The safety part of `StreamsEnd`. A sum over a set is the community modules'
  fold, a recursive function on the subsets; that there is such a function (`SumExists`) and
  induction along it (`SubsetsAll`) come from `Climb` over the cardinality. The total
  priority times a share is at most the bandwidth times the priority, because the division
  rounds down; bounds by a factor add up (`SumsScale`), and the total, which is positive
  (`SumPositive`), divides out (`SharesAre`). With that a grant is a number between nothing
  and what is left of the registered size (`AllowedType`), on which the counts of
  `ThrottleInv` rest. Theorem: `SharesSound`. It is about the shares by priority; the floor
  may lift what is granted above them.

`AgentFilesProofs`, in three parts.

- *Boot files.* A file may be published while it is empty, when a second miss truncates the
  temporary file before the first renames it. The invariant says that a named file is not
  empty or is open in a request that is about to write it (`NamedIsFilled`), and that names,
  writers and contents of a file are of one stem (`NamedByStem`, `ContentByStem`). A
  write that fails may leave the truncated file for good, which the property excepts. Theorem:
  `CacheWhole`.
- *Content cache.* `EntryHasFile` speaks of moments at which the lock is free; while it is
  held an entry may have lost its file. `ContentInv` says whose eviction that is
  (`EntriesCovered`), that it holds the lock (`LockIsHeld`), and that what `put` has
  written is there when it makes the entry (`FilesInHand`). Theorem: `EntriesHaveFiles`.
- *Boots.* The safety part of `BootsAreAnswered`. The count of active boots stays the
  number of requests in progress because whoever ends one finds it above zero, so the bound in
  complete_boot_request never acts (`AnswerMoves`); a restart ends all of them and
  the count. Theorem: `BootsCounted`.

`AdministrationProofs`, in five parts.

- *Accounts.* The invariant says of the one request in progress, as long as none
  overlapped, that what it checked is still so when it commits (`RequestSound`): another
  administrator is there, the user is, and its sessions are among those loaded. Users
  created and sessions given up in between do not disturb it. Theorems: `AccountsSound`,
  `SessionsAllEnd`.
- *LUNs.* A row and the target's configuration are changed by different steps of different
  tasks, so `LunInv` says what each may rely on: a row that is "creating" or "deleting" has
  somebody at work on it (`Worked`), nobody else has its row (`Serial`), the
  task's name and number are the row's (`TasksNamed`); the store is exported before the
  row becomes ready (`CreatedIsExported`), and an ACL is there before a node is assigned
  and is for one LUN (`AclIsForOne`). Each part holds as long as what disturbs it (a
  restart, overlapping requests, a rename) has not happened; `past` records these.
  Theorem: `LunsTrue`.
- *Commands.* A command in an answer to iPXE was cleared when the answer was made and is in
  no second place (`FetchedIsCleared`). Theorem: `CommandsOnce`.
- *Alerts.* The check looks for an active alert in the step that inserts one; reports only
  resolve. An acknowledgement closes an alert it loaded earlier; it does not disturb the
  count because the alert it holds as active still is (`AckIsCurrent`). Theorem:
  `AlertsUnique`.
- *Groups.* `TreeInv` is that the groups referred to exist and that, as long as no row was
  rewritten by mistake, paths and depths follow the parents. A move or a rename that makes
  no mistake finds with each row its children and nothing else (`FoundIsBelow`), in a path
  below the old one is replaced at the beginning (`ReplaceBeginning`), and so parents and
  children change alike (`RewriteKeeps`), whatever characters names are made of. Paths get
  shorter towards the root, so a walk up the parents meets no row twice and, by the
  pigeonhole principle, ends (`TreeWalks`). Theorems: `TreeSound`; and
  `PlainNamesKeepTheTree`, that if LIKE took no character for another and no name had a
  slash, no row would ever be rewritten by mistake, so that paths and depths were always
  right and no circular reference could be made. For this `NamedInv` adds that names are
  unique and that a path ends in a slash and the name, also of rows whose parent was
  deleted. Without these assumptions TLC finds the circle (`groups_circular`, section 7).

Only model-checked: everything that needs fairness (`EveryRequestResolved`,
`QueuedIsSettled`, `TransfersEnd`, `StreamsEnd`, `RunsEnd`, `StatusConverges`,
`AlertsConverge` and the endings in `BootsAreAnswered`), which the prover does not handle.
What these state of every state or step is proved above, but for the types of `SiteAgents`.

## 6. What is not modelled

The component list of PROJECT.json names every part. Left out are:

- code that nothing calls at this commit: the conflict detector's check, the staging
  service, `find_matching_rule`, `clear_failed` and `retry_failed` of the queue;
- code that ends every request with an error: the agent's node routes, the workflow
  callbacks (section 7);
- parts without a protocol of their own: permissions, roles, user groups, service
  accounts, audit and activity logs, workflows, templates, settings, migrations (CRUD on
  single tables); ProxyDHCP (each packet is answered from its own content); the iPXE
  builder and scripts (text); the agent's command line; the websocket broadcast;
- thin wrappers of external systems: LDAP, NFS exports, hypervisors, S3 and HTTP storage,
  certificates; the front end and the deployment images.

In the modelled parts: authentication of the callers, hardware columns, tags,
statistics, events and notifications, the contents of payloads and files, exact times
(a deadline has passed or has not), bandwidth in bytes per second, approval thresholds of
0, which no validation excludes for a rule, and PostgreSQL's READ COMMITTED where a
recount is concerned (section 3.3). Smaller simplifications: a session that waits for
SQLite's write lock gets it, with no busy time-out, and the update and the deletion of a
sync job check and write in one step; a storage backend that is never mounted is one whose
runs all raise; a LUN task whose error status cannot be committed either, and the partition
script's heartbeat, are left out; the health check looks an alert up and adds it in one
step, since nothing else adds any.

## 7. Deviations met while modelling

The two with a run (a late vote, and the circular groups below) are in PROJECT.json
(`findings`). The following were met while reading the code against its comments and
against itself; most of them show as a counterexample when the models are asked. They are
part of the models where the code has them: a property that would not hold because of one
names the exception.

Nodes
- A stalled installation is never given up. `boot.py:500` subtracts the column
  `state_changed_at`, which SQLite returns without an offset, from an aware time: every boot
  of an installing node raises and is answered with an error, so the timeout below the
  comment "Check for installation timeout" (`boot.py:498`) is never counted, and the node
  stays `installing`.
- A report that loaded the node before it was retired writes the state it computed and
  revives it (`state_service.py:50`). In `NodeSessions` with two sessions
  `RetiredLeavesByForce` fails.
- `clone.py:592` and `clone.py:360` set a node's state to `pending` directly, also from
  `active` and `installed`, without an entry in `node_state_logs`, against the design
  document's "All state transitions are: 1. Recorded". `AuditedMoves` states the exception.
- `nodes.py:930` accepts the installed callback from `pending`, from which the state
  machine has no transition to `installed`; the exception undoes the request.
- A command overwrites one not yet fetched, and none is acknowledged; `pureboot-pending.sh`
  reads `.data.command`, the answer has `pending_command`; a rescan handed to iPXE is lost.

Approvals
- With `Overlap = TRUE`, `FourEyes` fails: two votes of one user in flight together both
  pass the duplicate check of `services/approvals.py:302`.
- `list_approvals` and the statistics expire overdue requests, so a listing before the
  job's run prevents their escalation. `EscalationsComeFirst` excepts it.
- A request made through `POST /approvals` has no rule, and `escalate_approval` renews the
  deadline only for one with a rule: its three escalations use up no more than three runs of
  the job. `EscalationsComeFirst` asks for new time only with a rule.
- `my_pending` lists requests on which the user's vote is refused: `services/approvals.py:442`
  compares ids only, `cast_vote` names too, and the ids are optional
  (`routes/approvals.py:36`, `:49`). A request made without `requester_id` is listed to its
  requester, against "only show pending approvals that the current user can vote on"
  (`routes/approvals.py:237`). `MyPendingMissesNothing` says what remains.

Agent
- A row left `processing` by a stopped agent is never taken up again: `peek` selects
  pending rows only (`queue.py:147`) and nothing resets the others. With
  `Crashes = TRUE`, `QueuedIsSettled` fails.
- The queue is described as FIFO (`queue.py:7`), but an item that fails is passed by the
  rest of its batch.
- With the default settings four attempts five seconds apart are over before three
  checks thirty seconds apart mark the agent offline: a short outage while the queue
  drains marks items `failed`, and nothing retries them.
- With `ThreadHops`, an operation reported offline may be refused instead of stored.
- The controller has no `POST /nodes/register` and no `/nodes/{id}/event`; the agent's node
  routes read `.status_code` of a dict and answer 500.
- A controller that takes the connection and does not answer makes `aiohttp` raise
  `TimeoutError`, of which `boot_service.py:241` catches only the `ClientError`s: the node
  gets an error page, where the docstring promises that cached state is used (`:208`).
  `BootsAreAnswered` excepts a link that hangs. While the controller cannot be reached, a
  cached row is used however old it is (`proxy.py:303`). A look-up caches the page it got as
  if it were a node (no id, state "discovered"); the update after a queued state change
  looks for the id and never finds the row; a late look-up stores a row that was invalidated
  meanwhile.
- The temporary file of a boot file is named by the stem alone (`boot_service.py:118-119`,
  "Write atomically using temp file"): two requests that miss one file write the same
  temporary file, and one may rename it just after the other has emptied it. The empty file is
  in the cache until the other has written, and for good if that write fails or the agent
  stops. Files with the same stem (`a.0`, `a.1`) may be published under each other's name;
  a second miss may fail in its rename and answer 500. `FilesAreWhole` excepts shared stems
  and failed writes.
- A manual synchronisation never ends: `run_manual_sync` holds `_sync_lock` (`sync.py:385`)
  when it calls `run_scheduled_sync` (`:397`), which takes it again (`:333`); every later one
  waits for the first. Nothing else starts a scheduled one. The agent's `POST /sync`, which
  "Downloads content from central based on cache policy" (`routes/cache.py:212`), is never
  wired and answers "skipped". `put` of the content cache likewise holds the lock that `evict`,
  which it calls when the cache is full, takes again (`content_cache.py:405`). The limit is
  exceeded when only protected files are left. A stop in the middle of an eviction leaves an
  entry without a file, which `get` drops.
- A heartbeat that loaded "online" leaves the column alone and so does not overwrite a
  verdict the job commits meanwhile; the next one does.

TFTP and Raspberry Pi
- An empty file is never sent, yet the transfer counts as complete. The final empty packet
  of a file of full blocks is sent once and its outcome is ignored. An OACK is not resent.
  Block 65536 raises `struct.error`. The first transfer of an address to end removes the
  entry of a newer one. Duplicate acknowledgements use up retries.
- With the default directories a registered Pi does not boot: `tftp_server.py:204` finds its
  directory in `pi_nodes_dir`, which is inside the root (`settings.py:75`), and `:206` looks
  for the file in the root itself. The guide says "Subsequent boots use node-specific files"
  (`docs/guides/raspberry-pi-network-boot.md:158`).
- A stop in the middle of a registration leaves a directory without a row. The TFTP server
  takes it for a registered node's and serves as much of it as there is, so the Pi gets
  stuck before it can ask to be registered, and nothing completes or removes the directory,
  where the guide says that an unknown Pi is served from the discovery directory (`:148`). A
  discovery directory half made is never repaired either.
- A Pi registered by its first boot gets the directory of a Pi 4 ("can be updated via register
  endpoint", `boot_pi.py:152`); the update rewrites `config.txt`, which then names a device
  tree that is not linked (`boot_pi.py:347`). Errors of the file system are logged, and the
  row commits. `tsize` and the read resolve the path separately.

Throttler
- A stream registered with size 0, or whose file has grown, is never allowed its last bytes
  and loops; a response that is never iterated keeps its registration; the allowance is
  granted anew at each call.

Clones and partitions
- No endpoint looks at the session's status: a repeated `source-ready` flushed late reopens
  a completed session. `SessionIsTrue` speaks of what was copied, not of order.
- An image announced as ready, and a disk reported as complete, may be short: the scripts copy
  through pipes under `set -e` without `pipefail` (`pureboot-clone-source-staged.sh:742`,
  `-target-direct.sh:290`, `-target-staged.sh:589`), and the pipe ends as its last command
  does when `dd` or the download fails. `SessionIsTrue` says only that a copy was made.
- `update_clone_session` checks that the session is pending (`clone.py:184`) and awaits the
  look-up of the new target before it writes (`:200`). A report of the source in between
  makes the old target boot into the clone, and the session names the new one.
- The completion of a session that was started is never recorded: `clone.py:467` subtracts
  `started_at`, which comes back without an offset, from an aware time after the flush, and
  the request is rolled back. Sessions complete only where nothing set `started_at`.
- A resize plan is refused when the reductions cannot make up for the difference of the disks,
  also where the source has unused space that would (`clone.py:696`).
- The direct target script reads `.status` where the answer has `.data.status`; the staged
  one sends `staging_status`, and `source-complete` lacks `size_bytes`, both refused with
  422; `boot.py` never recognises the ids `clone-source-` and `clone-target-`; `create`
  issues certificates for the id None; a resize plan is kept when the target changes. The
  scripts read the certificates (`pureboot-common.sh:347`) and the staging data
  (`pureboot-clone-source-staged.sh:293`) without `.data` too. The models take these fields
  as meant.
- The partition script does not stay: it is to be there "until receiving a shutdown signal"
  (`pureboot-partition.sh:6`), but under `set -e` (`:9`) the command `((sleep_count++))`
  (`:446`) has the value 0 and ends it in the pause after its first turn, and so does
  `((flushed++))` or `((failed++))` (`pureboot-common.sh:266`, `:269`) after the first queued
  report. An operation queued later is carried out at the next boot.
- The partition script sends `in_progress`, which is refused; the apply route only
  broadcasts; the routes `scan-status` and `{device}/operations` are shadowed; a lost outcome
  makes an operation run twice; a queued disk report overwrites a newer one; operations
  after a failed one run; sequence numbers start again at 1; the heartbeat writes
  `node.last_seen`, which is no column.

Storage sync
- The task of a run starts before its request commits (`sync_jobs.py:289`, `database.py:37`).
  One that raises at once, because the backend is not mounted, reads the status of the run
  before; if that is "failed" too it writes none, the commit leaves "running", and every
  later run is refused with "Job is already running" (`sync_jobs.py:270`). `JobsAreTrue`
  excepts runs that were ahead (`early`).
- `create` schedules the job under the id None. A job left "running" by a restart stays so.
  A cancel followed by the late "failed" lets runs overlap, and then pruning may remove the
  directory of the newest success. Directories of failed runs count as versions.
- A run that saved its success (`sync.py:158`) awaits a broadcast before it prunes
  (`sync.py:176`). A second run asked for in between, which the saved status allows, has
  made the newest directory when the first prunes, and with one version to keep the good
  copy is removed while the second may still fail. It takes two places in the semaphore.
  `LatestVersionKept` excepts jobs with overlapping runs.

Health
- Acknowledged alerts are not resolved, and the next check makes a new one; a stale and an
  offline alert may be active together; alerts of retired nodes stay; `health_score or 100`
  shows 0 as 100.

Groups, LUNs, users
- Deleting a site with children leaves their paths and depths; the group routes accept
  sites; overlapping moves can make a cycle (the model serves moves one at a time).
- A move changes paths of groups that are not below (`groups.py:273`, "Update descendants'
  paths" at `:264`): with `a` and `A` at the root and `ab` under `A`, moving `a` under `A`
  makes LIKE find `/A/ab` below `/a`, and the first `/a` in it is that of `ab`, whose path
  becomes `/A/A/ab`. LIKE takes "_" for any character and "%" for any characters too; the
  latter is left out.
- A circular reference without any overlap, where `groups.py:247` says it is prevented: site
  `a`, site `A` under it, group `c` under that; site `A` is deleted, and `c` keeps the path
  `/a/A/c`; a group `A` is made and moved under `c`. LIKE finds `/a/A/c` below `/A`, the
  replacement hits the second name, and the path of `c` becomes `/a/a/A/c/A/c`. Moving `c`
  under `A` is now allowed, since the path of `A` does not begin with that, and
  `get_group_ancestors` of either, and `compute_effective_settings` where a value is
  inherited, never end. An exact comparison of names without slashes would be enough
  (`PlainNamesKeepTheTree`). Run `groups_circular`.
- The third LUN raises `MultipleResultsFound`; rows left "creating" or "deleting" by a
  restart cannot be changed; a rename keeps the name in the store; overlapping creations
  share a number; a failed `delete_acl` leaves an ACL that prevents the next assignment; the
  background deletion ignores the outcome of its commands.
- The only active administrator can be demoted while a disabled one is there, and then nobody
  can administer users: the count below "Prevent demoting last admin" (`users.py:255`, `:258`)
  takes disabled administrators for administrators. `AccountsAreSound` is about accounts, active
  or not. A refresh or a login that overlaps a change of the password leaves a session
  (`auth.py:428`), which `AllSessionsEnd` excepts. Overlapping demotions can remove the
  last one; a refused login rolls back its own attempt counter and audit row; answers to
  refreshes that arrive out of order leave the older cookie.
- The workflow callbacks call an `AsyncSession` like a synchronous one and always raise.
