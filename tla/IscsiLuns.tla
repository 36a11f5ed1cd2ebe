----------------------------- MODULE IscsiLuns -----------------------------
(***************************************************************************)
(* The iSCSI LUNs of a storage backend (src/src/api/routes/luns.py) and    *)
(* the target they are exported from, which targetcli configures           *)
(* (src/src/core/iscsi.py).                                                *)
(*                                                                         *)
(* A slot is a request and, when it creates or deletes a LUN, the          *)
(* background task it leaves behind.  Requests load rows, run targetcli    *)
(* and commit; others run in between.  A targetcli command succeeds, fails *)
(* or is killed after 60 seconds, when it may or may not have had its      *)
(* effect; both of the last two are a failure to the caller.               *)
(*                                                                         *)
(* The number of a new LUN is read with scalar_one_or_none from the LUNs   *)
(* of the backend, which raises when there are two: a backend gets no      *)
(* third.  The ACL of a node is one for all LUNs, and creating it again    *)
(* fails.                                                                  *)
(***************************************************************************)
EXTENDS Naturals, FiniteSets

CONSTANTS
    Slots,
    LunIds,
    LunNames, NoLunName,
    LunNodes, NoLunNode,
    MaxLunNumber,       \* bound
    LunRestarts         \* TRUE when the controller may be restarted

ASSUME IscsiLunsAssumption ==
    /\ NoLunName \notin LunNames /\ NoLunNode \notin LunNodes
    /\ LunIds # {} /\ IsFiniteSet(LunIds) /\ LunNames # {}
    /\ MaxLunNumber \in Nat /\ LunRestarts \in BOOLEAN

LunNumbers == 0 .. MaxLunNumber
LunStatuses == {"creating", "ready", "active", "error", "deleting"}

VARIABLES
    lun,        \* the rows
    stores,     \* backing stores of the target, by name
    exports,    \* the name of the store behind each number
    acls,       \* nodes that have an ACL
    backend,    \* the row of the storage backend is there
    slot,
    past        \* history: overlaps, restarts and renames so far

lunVars == <<lun, stores, exports, acls, backend, slot, past>>

LunRow ==
    [ exists : BOOLEAN, name : LunNames, number : LunNumbers, status : LunStatuses,
      node : LunNodes \union {NoLunNode} ]

NoLun ==
    [ exists |-> FALSE, name |-> CHOOSE x \in LunNames : TRUE, number |-> 0,
      status |-> "error", node |-> NoLunNode ]

RequestPcs == {"create", "rename", "delete", "acl", "chap", "assign", "unacl", "unassign"}
TaskPcs == {"target", "store", "export", "cleanup", "created",
            "load", "unexport", "unstore", "deleted"}

\* What a request or a task holds: its LUN and what it loaded or was asked.
Slot ==
    [ pc     : {"idle"} \union RequestPcs \union TaskPcs,
      lun    : LunIds,
      name   : LunNames,
      number : LunNumbers,
      status : LunStatuses,
      node   : LunNodes \union {NoLunNode} ]

NoSlot ==
    [ pc |-> "idle", lun |-> CHOOSE l \in LunIds : TRUE, name |-> NoLun.name, number |-> 0,
      status |-> "error", node |-> NoLunNode ]

LunsInit ==
    /\ lun = [l \in LunIds |-> NoLun]
    /\ stores = {} /\ acls = {} /\ backend = TRUE
    /\ exports = [k \in LunNumbers |-> NoLunName]
    /\ slot = [r \in Slots |-> NoSlot]
    /\ past = {}

Luns == {l \in LunIds : lun[l].exists}
NameFree(name) == \A l \in Luns : lun[l].name # name

\* A request begins, with what it will use of what it loaded.
Begins(r, holds) ==
    /\ slot[r].pc = "idle"
    /\ slot' = [slot EXCEPT ![r] = holds]
    /\ past' = IF \E s \in Slots : slot[s].pc \in RequestPcs
               THEN past \union {"overlap"} ELSE past

SlotGoes(r, pc) == slot' = [slot EXCEPT ![r].pc = pc]
SlotEnds(r) == slot' = [slot EXCEPT ![r] = NoSlot]

\* An UPDATE of a row that is not there any more raises StaleDataError: the
\* request fails and is rolled back.
Writes(r, row) ==
    lun' = IF lun[slot[r].lun].exists THEN [lun EXCEPT ![slot[r].lun] = row] ELSE lun

-----------------------------------------------------------------------------
(* Creation.                                                                *)

\* Mutation: the LUNs are counted.
NextLunNumberCounted == Cardinality(Luns)

NextLunNumber ==
    IF Luns = {} THEN 0 ELSE lun[CHOOSE l \in Luns : TRUE].number + 1

\* An id that nobody knows; there are so many rows at a time as there are ids.
Unused(l) ==
    ~lun[l].exists /\ \A s \in Slots : slot[s].pc \notin {"idle", "create"} => slot[s].lun # l

\* create_lun reads; two LUNs make it raise.  The bounds are on numbers and ids.
CreateLunReads(r, name) ==
    /\ backend
    /\ NameFree(name) /\ Cardinality(Luns) <= 1
    /\ NextLunNumber <= MaxLunNumber /\ \E l \in LunIds : Unused(l)
    /\ Begins(r, [NoSlot EXCEPT !.pc = "create", !.name = name, !.number = NextLunNumber])
    /\ UNCHANGED <<lun, stores, exports, acls, backend>>

\* It commits a row under a new id, and starts the task; a name that was taken
\* meanwhile violates the unique constraint.
CreateLunCommits(r) ==
    /\ slot[r].pc = "create"
    /\ IF NameFree(slot[r].name)
       THEN \E l \in LunIds :
              /\ Unused(l)
              /\ lun' = [lun EXCEPT ![l] = [exists |-> TRUE, name |-> slot[r].name,
                                            number |-> slot[r].number, status |-> "creating",
                                            node |-> NoLunNode]]
              /\ slot' = [slot EXCEPT ![r].pc = "target", ![r].lun = l]
       ELSE SlotEnds(r) /\ UNCHANGED lun
    /\ UNCHANGED <<stores, exports, acls, backend, past>>

CreateFails(r) ==
    /\ Writes(r, [lun[slot[r].lun] EXCEPT !.status = "error"])
    /\ SlotEnds(r)

\* The backend is looked up and ensure_target_exists runs.
EnsureTarget(r) ==
    /\ slot[r].pc = "target"
    /\ \/ backend /\ SlotGoes(r, "store") /\ UNCHANGED lun
       \/ CreateFails(r)
    /\ UNCHANGED <<stores, exports, acls, backend, past>>

CreateBackingstore(r) ==
    LET name == slot[r].name IN
    /\ slot[r].pc = "store"
    /\ \/ name \notin stores /\ stores' = stores \union {name} /\ SlotGoes(r, "export") /\ UNCHANGED lun
       \/ stores' \in {stores, stores \union {name}} /\ CreateFails(r)
    /\ UNCHANGED <<exports, acls, backend, past>>

\* A number that is in use makes the command fail.
ExportLun(r) ==
    LET exported == [exports EXCEPT ![slot[r].number] = slot[r].name]
        free == exports[slot[r].number] = NoLunName /\ slot[r].name \in stores
    IN  /\ slot[r].pc = "export"
        /\ \/ free /\ exports' = exported /\ SlotGoes(r, "created")
           \/ exports' \in {exports} \union (IF free THEN {exported} ELSE {}) /\ SlotGoes(r, "cleanup")
        /\ UNCHANGED <<lun, stores, acls, backend, past>>

\* targetcli deletes a store together with the LUNs that export it, or fails.
DeletesStore(name) ==
    \/ /\ stores' = stores \ {name}
       /\ exports' = [k \in LunNumbers |-> IF exports[k] = name THEN NoLunName ELSE exports[k]]
    \/ UNCHANGED <<stores, exports>>

CleanupStore(r) ==
    /\ slot[r].pc = "cleanup"
    /\ DeletesStore(slot[r].name)
    /\ CreateFails(r)
    /\ UNCHANGED <<acls, backend, past>>

\* save_config, whose outcome is not looked at, and the commit.
CreateTaskReady(r) ==
    /\ slot[r].pc = "created"
    /\ Writes(r, [lun[slot[r].lun] EXCEPT !.status = "ready"])
    /\ SlotEnds(r)
    /\ UNCHANGED <<stores, exports, acls, backend, past>>

-----------------------------------------------------------------------------
(* Renaming and deletion.                                                   *)

\* update_lun: the target keeps the store under its first name.
RenameReads(r, l, name) ==
    /\ l \in Luns /\ lun[l].status \in {"ready", "active"}
    /\ name # lun[l].name /\ NameFree(name)
    /\ Begins(r, [NoSlot EXCEPT !.pc = "rename", !.lun = l, !.name = name])
    /\ UNCHANGED <<lun, stores, exports, acls, backend>>

RenameCommits(r) ==
    /\ slot[r].pc = "rename"
    /\ IF NameFree(slot[r].name) THEN Writes(r, [lun[slot[r].lun] EXCEPT !.name = slot[r].name])
                                 ELSE UNCHANGED lun
    /\ past' = past \union {"rename"}
    /\ SlotEnds(r)
    /\ UNCHANGED <<stores, exports, acls, backend>>

DeleteLunReads(r, l) ==
    /\ l \in Luns
    /\ lun[l].status \notin {"creating", "deleting"} /\ lun[l].node = NoLunNode
    /\ Begins(r, [NoSlot EXCEPT !.pc = "delete", !.lun = l])
    /\ UNCHANGED <<lun, stores, exports, acls, backend>>

\* The commit, and the start of the task.
DeleteLunCommits(r) ==
    /\ slot[r].pc = "delete"
    /\ Writes(r, [lun[slot[r].lun] EXCEPT !.status = "deleting"])
    /\ IF lun[slot[r].lun].exists THEN SlotGoes(r, "load") ELSE SlotEnds(r)
    /\ UNCHANGED <<stores, exports, acls, backend, past>>

\* The task loads the row; without a backend it only deletes it.
DeleteTaskLoads(r) ==
    LET row == lun[slot[r].lun] IN
    /\ slot[r].pc = "load"
    /\ IF row.exists
       THEN slot' = [slot EXCEPT ![r].pc = IF backend THEN "unexport" ELSE "deleted",
                                 ![r].name = row.name, ![r].number = row.number]
       ELSE SlotEnds(r)
    /\ UNCHANGED <<lun, stores, exports, acls, backend, past>>

\* delete_lun goes by the number; no outcome of these commands is looked at.
UnexportLun(r) ==
    /\ slot[r].pc = "unexport"
    /\ exports' \in {exports, [exports EXCEPT ![slot[r].number] = NoLunName]}
    /\ SlotGoes(r, "unstore")
    /\ UNCHANGED <<lun, stores, acls, backend, past>>

DeleteBackingstore(r) ==
    /\ slot[r].pc = "unstore"
    /\ DeletesStore(slot[r].name)
    /\ SlotGoes(r, "deleted")
    /\ UNCHANGED <<lun, acls, backend, past>>

DeleteRow(r) ==
    /\ slot[r].pc = "deleted"
    /\ lun' = [lun EXCEPT ![slot[r].lun] = NoLun]
    /\ SlotEnds(r)
    /\ UNCHANGED <<stores, exports, acls, backend, past>>

\* The exception branch of both tasks, wherever they are: the LUN, if it is
\* still there, is in error, and what was done to the target stays done.
TaskFails(r) ==
    /\ slot[r].pc \in TaskPcs
    /\ Writes(r, [lun[slot[r].lun] EXCEPT !.status = "error"])
    /\ SlotEnds(r)
    /\ UNCHANGED <<stores, exports, acls, backend, past>>

-----------------------------------------------------------------------------
(* Assignment.                                                              *)

AssignReads(r, l, n) ==
    /\ l \in Luns /\ backend
    /\ lun[l].status \in {"ready", "active"} /\ lun[l].node = NoLunNode
    /\ Begins(r, [NoSlot EXCEPT !.pc = "acl", !.lun = l, !.status = lun[l].status, !.node = n])
    /\ UNCHANGED <<lun, stores, exports, acls, backend>>

CreateAcl(r) ==
    LET n == slot[r].node IN
    /\ slot[r].pc = "acl"
    /\ \/ n \notin acls /\ acls' = acls \union {n} /\ SlotGoes(r, "chap")
       \/ acls' \in {acls, acls \union {n}} /\ SlotEnds(r)
    /\ UNCHANGED <<lun, stores, exports, backend, past>>

\* Where CHAP is enabled set_chap may fail, and the ACL is deleted.
SetChap(r) ==
    /\ slot[r].pc = "chap"
    /\ \/ SlotGoes(r, "assign") /\ UNCHANGED acls
       \/ acls' \in {acls, acls \ {slot[r].node}} /\ SlotEnds(r)
    /\ UNCHANGED <<lun, stores, exports, backend, past>>

AssignCommits(r) ==
    LET row == lun[slot[r].lun] IN
    /\ slot[r].pc = "assign"
    /\ Writes(r, [row EXCEPT !.node = slot[r].node,
                             !.status = IF slot[r].status = "active" THEN @ ELSE "active"])
    /\ SlotEnds(r)
    /\ UNCHANGED <<stores, exports, acls, backend, past>>

UnassignReads(r, l) ==
    /\ l \in Luns /\ lun[l].node # NoLunNode
    /\ Begins(r, [NoSlot EXCEPT !.pc = "unacl", !.lun = l, !.status = lun[l].status,
                            !.node = lun[l].node])
    /\ UNCHANGED <<lun, stores, exports, acls, backend>>

\* Without a backend the ACL stays; the outcome is not looked at.
DeleteAcl(r) ==
    /\ slot[r].pc = "unacl"
    /\ acls' \in {acls} \union (IF backend THEN {acls \ {slot[r].node}} ELSE {})
    /\ SlotGoes(r, "unassign")
    /\ UNCHANGED <<lun, stores, exports, backend, past>>

UnassignCommits(r) ==
    LET row == lun[slot[r].lun] IN
    /\ slot[r].pc = "unassign"
    /\ Writes(r, [row EXCEPT !.node = NoLunNode,
                             !.status = IF slot[r].status = "ready" THEN @ ELSE "ready"])
    /\ SlotEnds(r)
    /\ UNCHANGED <<stores, exports, acls, backend, past>>

-----------------------------------------------------------------------------
\* delete_backend does not look for LUNs.
DeleteBackend ==
    /\ backend
    /\ backend' = FALSE
    /\ UNCHANGED <<lun, stores, exports, acls, slot, past>>

\* Requests and tasks end where they are; nothing takes them up again.  The
\* bound is one restart.
RestartLuns ==
    /\ LunRestarts /\ "restart" \notin past
    /\ slot' = [r \in Slots |-> NoSlot]
    /\ past' = past \union {"restart"}
    /\ UNCHANGED <<lun, stores, exports, acls, backend>>

SlotStep(r) ==
    \/ CreateLunCommits(r) \/ EnsureTarget(r) \/ CreateBackingstore(r) \/ ExportLun(r)
    \/ CleanupStore(r) \/ CreateTaskReady(r) \/ RenameCommits(r)
    \/ DeleteLunCommits(r) \/ DeleteTaskLoads(r) \/ UnexportLun(r) \/ DeleteBackingstore(r)
    \/ DeleteRow(r) \/ TaskFails(r) \/ CreateAcl(r) \/ SetChap(r) \/ AssignCommits(r)
    \/ DeleteAcl(r) \/ UnassignCommits(r)

LunsNext ==
    \/ \E r \in Slots :
          \/ SlotStep(r)
          \/ \E name \in LunNames : CreateLunReads(r, name)
          \/ \E l \in LunIds :
                \/ DeleteLunReads(r, l) \/ UnassignReads(r, l)
                \/ \E name \in LunNames : RenameReads(r, l, name)
                \/ \E n \in LunNodes : AssignReads(r, l, n)
    \/ DeleteBackend \/ RestartLuns

LunsSpec == LunsInit /\ [][LunsNext]_lunVars

-----------------------------------------------------------------------------
(* Properties                                                               *)

\* Every variable has its type.
LunTypeOK ==
    /\ lun \in [LunIds -> LunRow]
    /\ stores \subseteq LunNames /\ acls \subseteq LunNodes /\ backend \in BOOLEAN
    /\ exports \in [LunNumbers -> LunNames \union {NoLunName}]
    /\ slot \in [Slots -> Slot]
    /\ past \subseteq {"overlap", "restart", "rename"}

\* A LUN that is ready or active is exported under its number from the store
\* of its name, however the commands of other LUNs failed, as long as requests
\* did not overlap and no LUN was renamed.
ReadyIsExported ==
    past \subseteq {"restart"} =>
        \A l \in Luns : lun[l].status \in {"ready", "active"} =>
            exports[lun[l].number] = lun[l].name /\ lun[l].name \in stores

\* The node of an assigned LUN has its ACL, and no other LUN: the ACL, of which
\* a node has one, is what keeps a second assignment out.
AssignedHasAcl ==
    past \subseteq {"rename"} =>
        \A l \in Luns : lun[l].node # NoLunNode =>
            /\ lun[l].node \in acls \/ \E r \in Slots : slot[r].lun = l /\ slot[r].pc = "unassign"
            /\ \A m \in Luns : lun[m].node = lun[l].node => m = l

\* Only a restart leaves a LUN "creating" or "deleting" with nobody at work on
\* it, which no request can then change: a task that fails says so in the row
\* (a database that refuses that commit too is not modelled).
StuckOnlyByRestart ==
    "restart" \notin past =>
        \A l \in Luns : lun[l].status \in {"creating", "deleting"} =>
            \E r \in Slots : slot[r].lun = l /\ slot[r].pc \in TaskPcs

\* The rows agree with the target, as far as overlapping requests, renames and
\* restarts let them.
LunsAreTrue == LunTypeOK /\ ReadyIsExported /\ AssignedHasAcl /\ StuckOnlyByRestart
=============================================================================
