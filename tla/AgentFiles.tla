----------------------------- MODULE AgentFiles -----------------------------
(***************************************************************************)
(* The boot files a site agent serves from its cache directory             *)
(* (CacheManager and serve_tftp_file of src/src/agent/boot_service.py).    *)
(* A missing file is fetched from the central controller, written to a     *)
(* temporary file by a thread and renamed by another; requests run         *)
(* concurrently and take no lock.                                          *)
(*                                                                         *)
(* The temporary name is the file's name with the suffix replaced, so      *)
(* files that differ only in their suffix share it.  A file on disk is     *)
(* named by the request that created it, and its content is the set of     *)
(* files written to it since it was last truncated: {} is an empty file.   *)
(***************************************************************************)
EXTENDS Naturals, FiniteSets

CONSTANTS
    Requests,   \* requests for files
    NoRequest,  \* no file on disk
    BootFiles,  \* boot files
    Stem        \* the name of each without its suffix

ASSUME AgentFilesAssumption ==
    /\ NoRequest \notin Requests
    /\ DOMAIN Stem = BootFiles

Stems == {Stem[f] : f \in BootFiles}

VARIABLES
    req,        \* the requests
    inode,      \* the content of the files on disk
    temp,       \* the file under the temporary name of each stem
    published   \* the file under the name of each boot file

agentFileVars == <<req, inode, temp, published>>

Request ==
    [ pc   : {"idle",
              "fetch",     \* a miss: waits for the central controller
              "write",     \* at write_bytes
              "writing",   \* the temporary file is open and truncated
              "rename",    \* at rename
              "cleanup",   \* the rename failed
              "undo",      \* the write failed
              "served", "failed", "unwritten"},
      file : BootFiles,
      ino  : Requests \union {NoRequest},   \* the temporary file it opened
      got  : SUBSET BootFiles ]             \* what it served

AgentFilesInit ==
    /\ req \in [Requests -> {[pc |-> "idle", file |-> f, ino |-> NoRequest, got |-> {}] :
                               f \in BootFiles}]
    /\ inode = [r \in Requests |-> {}]
    /\ temp = [s \in Stems |-> NoRequest]
    /\ published = [f \in BootFiles |-> NoRequest]

\* path.with_suffix(".tmp")
StemOf(r) == Stem[req[r].file]

Serves(r, content) == req' = [req EXCEPT ![r].pc = "served", ![r].got = content]
RequestGoes(r, pc) == req' = [req EXCEPT ![r].pc = pc]

-----------------------------------------------------------------------------
\* serve_tftp_file looks into the cache: a hit is read and answered.
ServeTftpFile(r) ==
    LET p == published[req[r].file] IN
    /\ req[r].pc = "idle"
    /\ IF p # NoRequest THEN Serves(r, inode[p]) ELSE RequestGoes(r, "fetch")
    /\ UNCHANGED <<inode, temp, published>>

Fetched(r) ==
    /\ req[r].pc = "fetch"
    /\ RequestGoes(r, "write")
    /\ UNCHANGED <<inode, temp, published>>

\* 404, 502 or 503.
FetchFails(r) ==
    /\ req[r].pc = "fetch"
    /\ RequestGoes(r, "failed")
    /\ UNCHANGED <<inode, temp, published>>

\* write_bytes opens the temporary file, which may be that of another request,
\* and truncates it ...
OpenTemp(r) ==
    LET i == IF temp[StemOf(r)] = NoRequest THEN r ELSE temp[StemOf(r)] IN
    /\ req[r].pc = "write"
    /\ temp' = [temp EXCEPT ![StemOf(r)] = i]
    /\ inode' = [inode EXCEPT ![i] = {}]
    /\ req' = [req EXCEPT ![r].pc = "writing", ![r].ino = i]
    /\ UNCHANGED published

\* Mutation: the write ends before everything is on disk.
WriteTempShort(r) ==
    /\ req[r].pc = "writing"
    /\ RequestGoes(r, "rename")
    /\ UNCHANGED <<inode, temp, published>>

\* ... and writes to it, under whatever name it has by now.
WriteTemp(r) ==
    /\ req[r].pc = "writing"
    /\ inode' = [inode EXCEPT ![req[r].ino] = @ \union {req[r].file}]
    /\ RequestGoes(r, "rename")
    /\ UNCHANGED <<temp, published>>

\* ... or raises, with the file truncated: the disk is full.
WriteFails(r) ==
    /\ req[r].pc = "writing"
    /\ RequestGoes(r, "undo")
    /\ UNCHANGED <<inode, temp, published>>

\* The temporary file, whoever wrote it, gets the name of the boot file, and
\* the request is answered with what it fetched; without a temporary file the
\* rename raises.
RenameTemp(r) ==
    LET s == StemOf(r) IN
    /\ req[r].pc = "rename"
    /\ IF temp[s] = NoRequest
       THEN RequestGoes(r, "cleanup") /\ UNCHANGED <<temp, published>>
       ELSE /\ published' = [published EXCEPT ![req[r].file] = temp[s]]
            /\ temp' = [temp EXCEPT ![s] = NoRequest]
            /\ Serves(r, {req[r].file})
    /\ UNCHANGED inode

\* The handler removes a temporary file there may be by now, and the request
\* fails although its content was fetched.
Cleanup(r) ==
    /\ req[r].pc \in {"cleanup", "undo"}
    /\ temp' = [temp EXCEPT ![StemOf(r)] = NoRequest]
    /\ RequestGoes(r, IF req[r].pc = "cleanup" THEN "failed" ELSE "unwritten")
    /\ UNCHANGED <<inode, published>>

RequestStep(r) ==
    \/ ServeTftpFile(r) \/ Fetched(r) \/ FetchFails(r)
    \/ OpenTemp(r) \/ WriteTemp(r) \/ WriteFails(r) \/ RenameTemp(r) \/ Cleanup(r)

AgentFilesNext == \E r \in Requests : RequestStep(r)

AgentFilesSpec == AgentFilesInit /\ [][AgentFilesNext]_agentFileVars

-----------------------------------------------------------------------------
(* Properties                                                               *)

\* Every variable has its type.
AgentFilesTypeOK ==
    /\ req \in [Requests -> Request]
    /\ inode \in [Requests -> SUBSET BootFiles]
    /\ temp \in [Stems -> Requests \union {NoRequest}]
    /\ published \in [BootFiles -> Requests \union {NoRequest}]

\* No other boot file has the name of f but for the suffix.
OwnStem(f) == \A g \in BootFiles : Stem[g] = Stem[f] => g = f

InProgress(s) ==
    \E r \in Requests :
        StemOf(r) = s /\ req[r].pc \in {"write", "writing", "rename", "cleanup", "undo"}

\* A write to the temporary file failed: another request may have renamed the
\* file it had truncated, which is then empty for good.
WriteFailed(s) == \E r \in Requests : StemOf(r) = s /\ req[r].pc = "unwritten"

\* A file with a temporary name of its own is in the cache whole as soon as
\* nobody is writing it, however its misses overlapped, unless a write failed.
CachedIsWhole ==
    \A f \in BootFiles :
        OwnStem(f) /\ published[f] # NoRequest /\ ~InProgress(Stem[f]) /\ ~WriteFailed(Stem[f])
          => inode[published[f]] = {f}

\* A node is never served another file's content for such a file.
ServedIsAsked ==
    \A r \in Requests :
        OwnStem(req[r].file) => req[r].got \subseteq {req[r].file}

\* Misses that overlap leave whole files behind and never mix up their answers.
FilesAreWhole == AgentFilesTypeOK /\ CachedIsWhole /\ ServedIsAsked
=============================================================================
