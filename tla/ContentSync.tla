---------------------------- MODULE ContentSync ----------------------------
(***************************************************************************)
(* The site agent's content cache (src/src/agent/cache/content_cache.py)   *)
(* and the service that fills it (src/src/agent/sync.py): coroutines that  *)
(* take two asyncio locks, neither of which may be taken twice by one      *)
(* coroutine.                                                              *)
(***************************************************************************)
EXTENDS Naturals, FiniteSets

CONSTANTS
    Tasks,        \* coroutines: syncs and evictions
    Kinds,        \* what is called: see StartTask
    NoTask,       \* a lock is free
    Files,        \* files the central controller offers, all of one size
    NoFile,
    Always,       \* bootloaders: always_cache
    Refused,      \* files the cache policy does not admit
    MaxFiles,     \* max_size_bytes, in files
    AgentRestarts \* the agent may stop and start again

ASSUME ContentAssumption ==
    /\ Kinds \subseteq {"manual", "scheduled", "evict"}
    /\ NoTask \notin Tasks /\ NoFile \notin Files
    /\ Always \subseteq Files /\ Refused \subseteq Files \ Always
    /\ MaxFiles \in Nat /\ AgentRestarts \in BOOLEAN

VARIABLES
    task,      \* the coroutines
    syncLock,  \* CacheSyncService._sync_lock
    cacheLock, \* ContentCache._lock
    meta,      \* _metadata
    metaSaved, \* .cache_meta.json
    store,     \* the files in the cache directory
    crashed    \* history: the agent has been restarted

contentVars == <<task, syncLock, cacheLock, meta, metaSaved, store, crashed>>

TaskState ==
    [ kind : {"manual", "scheduled", "evict"},
      pc   : {"idle",
              "want_sync",   \* at "async with _sync_lock"
              "clear",       \* manual sync: clears the cache
              "nested_sync", \* at the same "async with" of run_scheduled_sync,
                             \* called from run_manual_sync
              "next",        \* goes on to the next file
              "want_put",    \* at "async with _lock" of put
              "put",         \* inside put
              "nested_evict",\* evict inside put, at "async with _lock"
              "written",     \* put has written the file
              "want_evict",  \* at "async with _lock" of evict
              "deleted",     \* evict has deleted the file
              "done"},
      file : Files \union {NoFile},
      todo : SUBSET Files ]

IdleTask == [kind |-> "evict", pc |-> "idle", file |-> NoFile, todo |-> {}]

ContentInit ==
    /\ task = [t \in Tasks |-> IdleTask]
    /\ syncLock = NoTask /\ cacheLock = NoTask
    /\ meta = {} /\ metaSaved = {} /\ store = {}
    /\ crashed = FALSE

TaskGoes(t, pc) == task' = [task EXCEPT ![t].pc = pc]

-----------------------------------------------------------------------------
(* CacheSyncService                                                         *)

\* A coroutine begins: POST /sync and the command "sync", a manual sync;
\* DELETE /cache/... and the command "invalidate", an eviction.  Nothing in the
\* program calls run_scheduled_sync but run_manual_sync: without "scheduled" in
\* Kinds this is what the agent does, with it the service as it is offered to a
\* caller.
StartTask(t, kind, f) ==
    /\ task[t].pc = "idle" /\ kind \in Kinds
    /\ task' = [task EXCEPT ![t] =
                  [kind |-> kind, pc |-> IF kind = "evict" THEN "want_evict" ELSE "want_sync",
                   file |-> IF kind = "evict" THEN f ELSE NoFile, todo |-> {}]]
    /\ UNCHANGED <<syncLock, cacheLock, meta, metaSaved, store, crashed>>

\* run_manual_sync lists what there is to clear: all, some categories or,
\* without force, nothing; run_scheduled_sync lists what there is to fetch.
\* Called by run_manual_sync it waits for the lock its own task holds.
AcquireSync(t) ==
    /\ task[t].pc \in {"want_sync", "nested_sync"} /\ syncLock = NoTask
    /\ syncLock' = t
    /\ IF task[t].kind = "manual" /\ task[t].pc = "want_sync"
       THEN \E cleared \in SUBSET meta :
              task' = [task EXCEPT ![t].pc = "clear", ![t].todo = cleared]
       ELSE task' = [task EXCEPT ![t].pc = "next", ![t].todo = Files, ![t].kind = "scheduled"]
    /\ UNCHANGED <<cacheLock, meta, metaSaved, store, crashed>>

\* clear: one eviction after the other, and then run_scheduled_sync.
ClearNext(t) ==
    /\ task[t].pc = "clear"
    /\ IF task[t].todo = {} THEN TaskGoes(t, "nested_sync")
       ELSE \E f \in task[t].todo :
              task' = [task EXCEPT ![t].pc = "want_evict", ![t].file = f,
                                   ![t].todo = @ \ {f}]
    /\ UNCHANGED <<syncLock, cacheLock, meta, metaSaved, store, crashed>>

\* _sync_file with a file that is there: it is kept, or it has expired and is
\* evicted and fetched again.
SyncCached(t, f, expired) ==
    /\ task[t].pc = "next" /\ f \in task[t].todo
    /\ f \in store
    /\ expired => f \in meta \ Always
    /\ task' = IF expired
               THEN [task EXCEPT ![t].pc = "want_evict", ![t].file = f]
               ELSE [task EXCEPT ![t].todo = @ \ {f}]
    /\ UNCHANGED <<syncLock, cacheLock, meta, metaSaved, store, crashed>>

\* _sync_file with a file that is not: get drops an entry without a file; the
\* download succeeds or fails.
SyncMissing(t, f, ok) ==
    /\ task[t].pc = "next" /\ f \in task[t].todo
    /\ f \notin store
    /\ meta' = meta \ {f}
    /\ task' = IF ok THEN [task EXCEPT ![t].pc = "want_put", ![t].file = f]
                     ELSE [task EXCEPT ![t].todo = @ \ {f}]
    /\ UNCHANGED <<syncLock, cacheLock, metaSaved, store, crashed>>

SyncEnds(t) ==
    /\ task[t].pc = "next" /\ task[t].todo = {}
    /\ syncLock' = NoTask
    /\ TaskGoes(t, "done")
    /\ UNCHANGED <<cacheLock, meta, metaSaved, store, crashed>>

-----------------------------------------------------------------------------
(* ContentCache.put                                                         *)

AcquirePut(t) ==
    /\ task[t].pc = "want_put" /\ cacheLock = NoTask
    /\ cacheLock' = t
    /\ TaskGoes(t, "put")
    /\ UNCHANGED <<syncLock, meta, metaSaved, store, crashed>>

\* should_cache says no: ValueError, which _sync_file records.
PutRefused(t) ==
    /\ task[t].pc = "put" /\ task[t].file \in Refused
    /\ cacheLock' = NoTask
    /\ task' = [task EXCEPT ![t].pc = "next", ![t].todo = @ \ {task[t].file}]
    /\ UNCHANGED <<syncLock, meta, metaSaved, store, crashed>>

\* _ensure_space finds no room, and something it may evict: evict waits for
\* the lock that put holds.
NeedsEviction(f) == Cardinality(meta) + 1 > MaxFiles /\ meta \ Always # {}

PutFull(t) ==
    /\ task[t].pc = "put" /\ task[t].file \notin Refused
    /\ NeedsEviction(task[t].file)
    /\ TaskGoes(t, "nested_evict")
    /\ UNCHANGED <<syncLock, cacheLock, meta, metaSaved, store, crashed>>

\* Mutation: the entry is made before the file is there.
PutWritesLate(t) ==
    /\ task[t].pc = "put" /\ task[t].file \notin Refused
    /\ ~NeedsEviction(task[t].file)
    /\ TaskGoes(t, "written")
    /\ UNCHANGED <<syncLock, cacheLock, meta, metaSaved, store, crashed>>

\* The file is written and renamed.
PutWrites(t) ==
    /\ task[t].pc = "put" /\ task[t].file \notin Refused
    /\ ~NeedsEviction(task[t].file)
    /\ store' = store \union {task[t].file}
    /\ TaskGoes(t, "written")
    /\ UNCHANGED <<syncLock, cacheLock, meta, metaSaved, crashed>>

\* The entry is made and saved.
PutSaves(t) ==
    /\ task[t].pc = "written"
    /\ meta' = meta \union {task[t].file}
    /\ metaSaved' = meta'
    /\ cacheLock' = NoTask
    /\ task' = [task EXCEPT ![t].pc = "next", ![t].todo = @ \ {task[t].file}]
    /\ UNCHANGED <<syncLock, store, crashed>>

-----------------------------------------------------------------------------
(* ContentCache.evict                                                       *)

\* The lock is taken and the file deleted.
EvictDeletes(t) ==
    /\ task[t].pc = "want_evict" /\ cacheLock = NoTask
    /\ cacheLock' = t
    /\ store' = store \ {task[t].file}
    /\ TaskGoes(t, "deleted")
    /\ UNCHANGED <<syncLock, meta, metaSaved, crashed>>

\* The entry is dropped, if there is one, and the lock released; a sync goes
\* on with what it was doing.
EvictSaves(t) ==
    /\ task[t].pc = "deleted"
    /\ meta' = meta \ {task[t].file}
    /\ metaSaved' = IF task[t].file \in meta THEN meta' ELSE metaSaved
    /\ cacheLock' = NoTask
    /\ TaskGoes(t, CASE task[t].kind = "evict" -> "done"
                 [] task[t].kind = "manual" -> "clear"
                 [] task[t].kind = "scheduled" -> "next")
    /\ UNCHANGED <<syncLock, store, crashed>>

\* The agent stops and starts: initialize loads what was saved.
RestartAgent ==
    /\ AgentRestarts
    /\ task' = [t \in Tasks |-> IF task[t].pc = "idle" THEN task[t]
                                ELSE [task[t] EXCEPT !.pc = "done"]]
    /\ syncLock' = NoTask /\ cacheLock' = NoTask
    /\ meta' = metaSaved
    /\ crashed' = TRUE
    /\ UNCHANGED <<metaSaved, store>>

-----------------------------------------------------------------------------
\* Steps at which a task waits for a lock.
Acquires(t) == AcquireSync(t) \/ AcquirePut(t) \/ EvictDeletes(t)

TaskStep(t) ==
    \/ Acquires(t) \/ ClearNext(t)
    \/ \E f \in Files, b \in BOOLEAN : SyncCached(t, f, b) \/ SyncMissing(t, f, b)
    \/ SyncEnds(t)
    \/ PutRefused(t) \/ PutFull(t) \/ PutWrites(t) \/ PutSaves(t)
    \/ EvictSaves(t)

ContentNext ==
    \/ \E t \in Tasks, f \in Files, kind \in Kinds : StartTask(t, kind, f)
    \/ \E t \in Tasks : TaskStep(t)
    \/ RestartAgent

ContentSpec == ContentInit /\ [][ContentNext]_contentVars

-----------------------------------------------------------------------------
(* Properties                                                               *)

\* Every variable has its type.
ContentTypeOK ==
    /\ task \in [Tasks -> TaskState]
    /\ syncLock \in Tasks \union {NoTask} /\ cacheLock \in Tasks \union {NoTask}
    /\ meta \subseteq Files /\ metaSaved \subseteq Files /\ store \subseteq Files
    /\ crashed \in BOOLEAN

\* While nobody is inside put or evict, an entry stands for a file: what the
\* cache counts and lists is there.  get drops entries without taking the lock,
\* and a restart in the middle of an eviction leaves one behind.
EntryHasFile == ContentTypeOK /\ (cacheLock = NoTask /\ ~crashed => meta \subseteq store)
=============================================================================
