-------------------------- MODULE AgentFilesProofs --------------------------
(***************************************************************************)
(* Proofs about the files a site agent keeps: the boot files its TFTP and  *)
(* HTTP services fetch (AgentFiles) and the content cache its              *)
(* synchronisation fills (ContentSync), for any requests, tasks and files; *)
(* and about the boots it answers (AgentBoot).                             *)
(***************************************************************************)
EXTENDS AgentFiles, ContentSync, AgentBoot, FiniteSetTheorems, TLAPS

-----------------------------------------------------------------------------
(***************************************************************************)
(* AgentFiles: overlapping misses leave whole boot files in the cache.     *)
(*                                                                         *)
(* A file may be published empty: a second miss truncates the temporary    *)
(* file just before the first renames it.  What saves it is that the       *)
(* second still has it open and will write to it, under its new name,      *)
(* unless its write fails.                                                 *)
(***************************************************************************)

\* A request has a file open that it truncated, or failed to write to it.
Writers == {"writing", "undo", "unwritten"}

\* A file on disk has names, and writers, of the stem of the request that
\* created it only.
NamedByStem ==
    /\ \A s \in Stems : temp[s] # NoRequest => StemOf(temp[s]) = s
    /\ \A f \in BootFiles : published[f] # NoRequest => StemOf(published[f]) = Stem[f]
    /\ \A r \in Requests : req[r].pc \in Writers =>
          req[r].ino # NoRequest /\ StemOf(req[r].ino) = StemOf(r)

\* It holds, and requests were served, only files of that stem.
ContentByStem ==
    /\ \A i \in Requests : \A g \in inode[i] : Stem[g] = StemOf(i)
    /\ \A r \in Requests : \A g \in req[r].got : Stem[g] = StemOf(r)

\* A file that is empty is about to be written to, or a write to it failed.
Filled(i) == inode[i] # {} \/ \E r \in Requests : req[r].pc \in Writers /\ req[r].ino = i

NamedIsFilled ==
    /\ \A s \in Stems : temp[s] # NoRequest => Filled(temp[s])
    /\ \A f \in BootFiles : published[f] # NoRequest => Filled(published[f])

FilesInv == AgentFilesTypeOK /\ NamedByStem /\ ContentByStem /\ NamedIsFilled

-----------------------------------------------------------------------------
\* The invariant holds of an empty cache.
LEMMA FilesInitInv == AgentFilesInit => FilesInv
  <1> SUFFICES ASSUME AgentFilesInit PROVE FilesInv
    OBVIOUS
  <1>1. \A r \in Requests : \E f \in BootFiles :
           req[r] = [pc |-> "idle", file |-> f, ino |-> NoRequest, got |-> {}]
    BY DEF AgentFilesInit
  <1>2. req \in [Requests -> Request]
    BY <1>1 DEF AgentFilesInit, Request
  <1>3. AgentFilesTypeOK
    BY <1>2 DEF AgentFilesInit, AgentFilesTypeOK
  <1>4. NamedByStem
    BY <1>1 DEF AgentFilesInit, NamedByStem, Writers
  <1>5. ContentByStem
    BY <1>1 DEF AgentFilesInit, ContentByStem
  <1>6. NamedIsFilled
    BY DEF AgentFilesInit, NamedIsFilled
  <1> QED BY <1>3, <1>4, <1>5, <1>6 DEF FilesInv

\* A step that only moves a request on, not to or from writing, keeps the
\* invariant if what it serves is of the request's stem.
LEMMA MoveKeeps ==
  ASSUME FilesInv, NEW r \in Requests, UNCHANGED inode,
         req[r].pc \notin Writers,
         NEW pc \in {"fetch", "write", "cleanup", "served", "failed"},
         NEW got \in SUBSET BootFiles, \A g \in got : Stem[g] = StemOf(r),
         req' = [req EXCEPT ![r].pc = pc, ![r].got = got],
         temp' \in [Stems -> Requests \union {NoRequest}],
         published' \in [BootFiles -> Requests \union {NoRequest}],
         \A s \in Stems : temp'[s] \in {temp[s], NoRequest},
         \A f \in BootFiles : published'[f] = published[f]
            \/ published'[f] = temp[Stem[f]]
  PROVE  FilesInv'
  <1>1. /\ req' \in [Requests -> Request]
        /\ req'[r].file = req[r].file /\ req'[r].pc = pc /\ req'[r].got = got
        /\ \A q \in Requests : q # r => req'[q] = req[q]
    <2> DEFINE x == [req[r] EXCEPT !.pc = pc, !.got = got]
    <2>1. req \in [Requests -> Request] /\ req[r] \in Request
      BY DEF FilesInv, AgentFilesTypeOK
    <2>2. x \in Request /\ x.file = req[r].file /\ x.pc = pc /\ x.got = got
      BY <2>1 DEF Request
    <2>3. req' = [req EXCEPT ![r] = x]
      BY <2>1
    <2> HIDE DEF x
    <2>4. req'[r] = x /\ \A q \in Requests : q # r => req'[q] = req[q]
      BY <2>1, <2>3, Zenon
    <2>5. req' \in [Requests -> Request]
      BY <2>1, <2>2, <2>3, Zenon
    <2> QED BY <2>2, <2>4, <2>5
  <1>2. \A q \in Requests : req'[q].file = req[q].file
    BY <1>1
  <1>3. AgentFilesTypeOK'
    BY <1>1 DEF FilesInv, AgentFilesTypeOK
  <1>4. \A f \in BootFiles : Stem[f] \in Stems
    BY DEF Stems
  <1>5. NamedByStem'
    <2>1. \A s \in Stems : temp'[s] # NoRequest => Stem[req'[temp'[s]].file] = s
      BY <1>2 DEF FilesInv, AgentFilesTypeOK, NamedByStem, StemOf
    <2>2. \A f \in BootFiles : published'[f] # NoRequest => Stem[req'[published'[f]].file] = Stem[f]
      BY <1>2, <1>4 DEF FilesInv, AgentFilesTypeOK, NamedByStem, StemOf
    <2>3. \A q \in Requests : req'[q].pc \in Writers =>
             req'[q].ino # NoRequest /\ Stem[req'[req'[q].ino].file] = Stem[req'[q].file]
      BY <1>1, <1>2 DEF FilesInv, AgentFilesTypeOK, Request, NamedByStem, StemOf, Writers
    <2> QED BY <2>1, <2>2, <2>3 DEF NamedByStem, StemOf
  <1>6. ContentByStem'
    BY <1>1, <1>2 DEF FilesInv, ContentByStem, StemOf
  <1>7. \A i \in Requests : Filled(i) => Filled(i)'
    BY <1>1 DEF Filled
  <1>8. NamedIsFilled'
    BY <1>4, <1>7 DEF FilesInv, AgentFilesTypeOK, NamedIsFilled, Filled
  <1> QED BY <1>3, <1>5, <1>6, <1>8 DEF FilesInv

\* A hit is served, a miss is fetched or fails.
LEMMA FetchKeeps ==
  ASSUME FilesInv, NEW r \in Requests, ServeTftpFile(r) \/ Fetched(r) \/ FetchFails(r)
  PROVE  FilesInv'
  <1>0. /\ req[r].got \in SUBSET BootFiles /\ req[r].file \in BootFiles
        /\ \A g \in req[r].got : Stem[g] = StemOf(r)
        /\ UNCHANGED <<inode, temp, published>>
        /\ req[r].pc \notin Writers
    BY DEF FilesInv, AgentFilesTypeOK, Request, ContentByStem, ServeTftpFile, Fetched, FetchFails,
       Writers
  <1>t. /\ temp \in [Stems -> Requests \union {NoRequest}]
        /\ published \in [BootFiles -> Requests \union {NoRequest}]
        /\ req \in [Requests -> Request]
    BY DEF FilesInv, AgentFilesTypeOK
  <1>s. ASSUME NEW pc, req' = [req EXCEPT ![r].pc = pc]
        PROVE  req' = [req EXCEPT ![r].pc = pc, ![r].got = req[r].got]
    BY <1>s, <1>t DEF Request
  <1>1. CASE ServeTftpFile(r) /\ published[req[r].file] # NoRequest
    <2> DEFINE p == published[req[r].file]
    <2>1. p \in Requests /\ StemOf(p) = StemOf(r)
      BY <1>0, <1>1, <1>t DEF FilesInv, NamedByStem, StemOf
    <2>2. inode[p] \in SUBSET BootFiles /\ \A g \in inode[p] : Stem[g] = StemOf(r)
      BY <2>1 DEF FilesInv, AgentFilesTypeOK, ContentByStem
    <2>3. req' = [req EXCEPT ![r].pc = "served", ![r].got = inode[p]]
      BY <1>1 DEF ServeTftpFile, Serves
    <2> HIDE DEF p
    <2> QED BY <1>0, <1>t, <2>2, <2>3, MoveKeeps
  <1>2. CASE ServeTftpFile(r) /\ published[req[r].file] = NoRequest
    <2>1. req' = [req EXCEPT ![r].pc = "fetch"]
      BY <1>2 DEF ServeTftpFile, RequestGoes
    <2> QED BY <1>0, <1>t, <1>s, <2>1, MoveKeeps
  <1>3. CASE Fetched(r)
    <2>1. req' = [req EXCEPT ![r].pc = "write"]
      BY <1>3 DEF Fetched, RequestGoes
    <2> QED BY <1>0, <1>t, <1>s, <2>1, MoveKeeps
  <1>4. CASE FetchFails(r)
    <2>1. req' = [req EXCEPT ![r].pc = "failed"]
      BY <1>4 DEF FetchFails, RequestGoes
    <2> QED BY <1>0, <1>t, <1>s, <2>1, MoveKeeps
  <1> QED BY <1>1, <1>2, <1>3, <1>4

\* The temporary file is renamed, or is not there, or is removed.
LEMMA RenameKeeps ==
  ASSUME FilesInv, NEW r \in Requests, RenameTemp(r) \/ (Cleanup(r) /\ req[r].pc = "cleanup")
  PROVE  FilesInv'
  <1>0. /\ req[r].got \in SUBSET BootFiles /\ req[r].file \in BootFiles
        /\ \A g \in req[r].got : Stem[g] = StemOf(r)
        /\ inode' = inode /\ req[r].pc \notin Writers
    BY DEF FilesInv, AgentFilesTypeOK, Request, ContentByStem, RenameTemp, Cleanup, Writers
  <1>t. /\ temp \in [Stems -> Requests \union {NoRequest}]
        /\ published \in [BootFiles -> Requests \union {NoRequest}]
        /\ req \in [Requests -> Request]
        /\ StemOf(r) \in Stems /\ StemOf(r) = Stem[req[r].file]
    BY <1>0 DEF FilesInv, AgentFilesTypeOK, Stems, StemOf
  <1>s. ASSUME NEW pc, req' = [req EXCEPT ![r].pc = pc]
        PROVE  req' = [req EXCEPT ![r].pc = pc, ![r].got = req[r].got]
    BY <1>s, <1>t DEF Request
  <1>1. CASE RenameTemp(r) /\ temp[StemOf(r)] = NoRequest
    <2>1. req' = [req EXCEPT ![r].pc = "cleanup"] /\ temp' = temp /\ published' = published
      BY <1>1 DEF RenameTemp, RequestGoes
    <2> QED BY <1>0, <1>t, <1>s, <2>1, MoveKeeps
  <1>2. CASE RenameTemp(r) /\ temp[StemOf(r)] # NoRequest
    <2>1. /\ req' = [req EXCEPT ![r].pc = "served", ![r].got = {req[r].file}]
          /\ published' = [published EXCEPT ![req[r].file] = temp[StemOf(r)]]
          /\ temp' = [temp EXCEPT ![StemOf(r)] = NoRequest]
      BY <1>2 DEF RenameTemp, Serves
    <2>2. {req[r].file} \in SUBSET BootFiles /\ \A g \in {req[r].file} : Stem[g] = StemOf(r)
      BY <1>0, <1>t
    <2>3. /\ temp' \in [Stems -> Requests \union {NoRequest}]
          /\ \A s \in Stems : temp'[s] \in {temp[s], NoRequest}
      BY <1>t, <2>1
    <2>4. /\ published' \in [BootFiles -> Requests \union {NoRequest}]
          /\ \A f \in BootFiles : published'[f] = published[f] \/ published'[f] = temp[Stem[f]]
      BY <1>t, <2>1
    <2> QED BY <1>0, <2>1, <2>2, <2>3, <2>4, MoveKeeps
  <1>3. CASE Cleanup(r) /\ req[r].pc = "cleanup"
    <2>1. /\ req' = [req EXCEPT ![r].pc = "failed"]
          /\ temp' = [temp EXCEPT ![StemOf(r)] = NoRequest] /\ published' = published
      BY <1>3 DEF Cleanup, RequestGoes
    <2>2. /\ temp' \in [Stems -> Requests \union {NoRequest}]
          /\ \A s \in Stems : temp'[s] \in {temp[s], NoRequest}
      BY <1>t, <2>1
    <2> QED BY <1>0, <1>t, <1>s, <2>1, <2>2, MoveKeeps
  <1> QED BY <1>1, <1>2, <1>3

\* The temporary file is truncated: whoever truncates it is going to write.
LEMMA OpenKeeps ==
  ASSUME FilesInv, NEW r \in Requests, OpenTemp(r)
  PROVE  FilesInv'
  <1> DEFINE i == IF temp[StemOf(r)] = NoRequest THEN r ELSE temp[StemOf(r)]
  <1>0. /\ temp \in [Stems -> Requests \union {NoRequest}]
        /\ published \in [BootFiles -> Requests \union {NoRequest}]
        /\ req \in [Requests -> Request] /\ inode \in [Requests -> SUBSET BootFiles]
        /\ \A q \in Requests : StemOf(q) \in Stems
    BY DEF FilesInv, AgentFilesTypeOK, Stems, StemOf, Request
  <1>1. i \in Requests /\ StemOf(i) = StemOf(r) /\ i # NoRequest
    BY <1>0, AgentFilesAssumption DEF FilesInv, NamedByStem
  <1>2. /\ temp' = [temp EXCEPT ![StemOf(r)] = i]
        /\ inode' = [inode EXCEPT ![i] = {}]
        /\ req' = [req EXCEPT ![r].pc = "writing", ![r].ino = i]
        /\ published' = published
    BY DEF OpenTemp
  <1> HIDE DEF i
  <1>3. /\ req' \in [Requests -> Request]
        /\ req'[r].file = req[r].file /\ req'[r].pc = "writing" /\ req'[r].ino = i
        /\ req'[r].got = req[r].got
        /\ \A q \in Requests : q # r => req'[q] = req[q]
    BY <1>0, <1>1, <1>2 DEF Request
  <1>4. \A q \in Requests : req'[q].file = req[q].file
    BY <1>3
  <1>5. AgentFilesTypeOK'
    BY <1>0, <1>1, <1>2, <1>3 DEF AgentFilesTypeOK
  <1>6. NamedByStem'
    <2>1. \A s \in Stems : temp'[s] # NoRequest => Stem[req'[temp'[s]].file] = s
      BY <1>0, <1>1, <1>2, <1>4 DEF FilesInv, NamedByStem, StemOf
    <2>2. \A f \in BootFiles : published'[f] # NoRequest => Stem[req'[published'[f]].file] = Stem[f]
      BY <1>0, <1>2, <1>4 DEF FilesInv, NamedByStem, StemOf
    <2>3. \A q \in Requests : req'[q].pc \in Writers =>
             req'[q].ino # NoRequest /\ Stem[req'[req'[q].ino].file] = Stem[req'[q].file]
      BY <1>0, <1>1, <1>3, <1>4 DEF FilesInv, NamedByStem, StemOf, Request, Writers
    <2> QED BY <2>1, <2>2, <2>3 DEF NamedByStem, StemOf
  <1>7. ContentByStem'
    BY <1>0, <1>1, <1>2, <1>3, <1>4 DEF FilesInv, ContentByStem, StemOf
  <1>8. \E q \in Requests : req'[q].pc \in Writers /\ req'[q].ino = i
    BY <1>3 DEF Writers
  <1>9. \A j \in Requests : Filled(j) => Filled(j)'
    <2> SUFFICES ASSUME NEW j \in Requests, Filled(j), j # i PROVE Filled(j)'
      BY <1>8 DEF Filled
    <2>1. CASE inode[j] # {}
      BY <1>0, <1>2, <2>1 DEF Filled
    <2>2. CASE \E q \in Requests : req[q].pc \in Writers /\ req[q].ino = j
      <3>1. PICK q \in Requests : req[q].pc \in Writers /\ req[q].ino = j
        BY <2>2
      <3>2. q # r
        BY <3>1 DEF OpenTemp, Writers
      <3> QED BY <1>3, <3>1, <3>2 DEF Filled
    <2> QED BY <2>1, <2>2 DEF Filled
  <1>10. NamedIsFilled'
    BY <1>0, <1>1, <1>2, <1>8, <1>9 DEF FilesInv, NamedIsFilled, Filled
  <1> QED BY <1>5, <1>6, <1>7, <1>10 DEF FilesInv

\* The content is written to the file, wherever it is by now.
LEMMA WriteKeeps ==
  ASSUME FilesInv, NEW r \in Requests, WriteTemp(r)
  PROVE  FilesInv'
  <1>0. /\ temp \in [Stems -> Requests \union {NoRequest}]
        /\ published \in [BootFiles -> Requests \union {NoRequest}]
        /\ req \in [Requests -> Request] /\ inode \in [Requests -> SUBSET BootFiles]
    BY DEF FilesInv, AgentFilesTypeOK
  <1> DEFINE i == req[r].ino
             f == req[r].file
  <1>1. i \in Requests /\ StemOf(i) = StemOf(r) /\ f \in BootFiles /\ Stem[f] = StemOf(r)
    BY <1>0 DEF FilesInv, NamedByStem, WriteTemp, Request, StemOf, Writers
  <1>2. /\ inode' = [inode EXCEPT ![i] = inode[i] \union {f}]
        /\ req' = [req EXCEPT ![r].pc = "rename"]
        /\ temp' = temp /\ published' = published
    BY <1>0, <1>1 DEF WriteTemp, RequestGoes
  <1> HIDE DEF i, f
  <1>3. /\ req' \in [Requests -> Request]
        /\ req'[r].file = req[r].file /\ req'[r].pc = "rename" /\ req'[r].got = req[r].got
        /\ \A q \in Requests : q # r => req'[q] = req[q]
    BY <1>0, <1>2 DEF Request
  <1>4. \A q \in Requests : req'[q].file = req[q].file
    BY <1>3
  <1>5. AgentFilesTypeOK'
    BY <1>0, <1>1, <1>2, <1>3 DEF AgentFilesTypeOK
  <1>6. NamedByStem'
    BY <1>0, <1>2, <1>3, <1>4 DEF FilesInv, NamedByStem, StemOf, Request, Writers
  <1>7. ContentByStem'
    BY <1>0, <1>1, <1>2, <1>3, <1>4 DEF FilesInv, ContentByStem, StemOf
  <1>8. \A j \in Requests : Filled(j) => Filled(j)'
    <2> SUFFICES ASSUME NEW j \in Requests, Filled(j) PROVE Filled(j)'
      OBVIOUS
    <2>1. CASE j = i
      BY <1>0, <1>1, <1>2, <2>1 DEF Filled
    <2>2. CASE j # i
      <3>1. inode'[j] = inode[j]
        BY <1>0, <1>2, <2>2
      <3>2. \A q \in Requests : req[q].ino = j => q # r
        BY <2>2 DEF i
      <3> QED BY <1>3, <3>1, <3>2 DEF Filled
    <2> QED BY <2>1, <2>2
  <1>9. NamedIsFilled'
    BY <1>0, <1>2, <1>8 DEF FilesInv, NamedIsFilled, Filled
  <1> QED BY <1>5, <1>6, <1>7, <1>9 DEF FilesInv

\* A write fails, and the temporary file there may be is removed.
LEMMA FailKeeps ==
  ASSUME FilesInv, NEW r \in Requests, WriteFails(r) \/ (Cleanup(r) /\ req[r].pc = "undo")
  PROVE  FilesInv'
  <1>0. /\ temp \in [Stems -> Requests \union {NoRequest}]
        /\ published \in [BootFiles -> Requests \union {NoRequest}]
        /\ req \in [Requests -> Request] /\ inode \in [Requests -> SUBSET BootFiles]
    BY DEF FilesInv, AgentFilesTypeOK
  <1>1. /\ req[r].pc \in Writers /\ inode' = inode /\ published' = published
        /\ temp' \in [Stems -> Requests \union {NoRequest}]
        /\ \A s \in Stems : temp'[s] \in {temp[s], NoRequest}
        /\ \E pc \in {"undo", "unwritten"} : req' = [req EXCEPT ![r].pc = pc]
    BY <1>0 DEF WriteFails, Cleanup, RequestGoes, Writers
  <1>2. PICK pc \in {"undo", "unwritten"} : req' = [req EXCEPT ![r].pc = pc]
    BY <1>1
  <1>3. /\ req' \in [Requests -> Request]
        /\ req'[r].file = req[r].file /\ req'[r].pc \in Writers /\ req'[r].got = req[r].got
        /\ req'[r].ino = req[r].ino
        /\ \A q \in Requests : q # r => req'[q] = req[q]
    BY <1>0, <1>2 DEF Request, Writers
  <1>4. \A q \in Requests : /\ req'[q].file = req[q].file /\ req'[q].ino = req[q].ino
                            /\ req'[q].got = req[q].got
                            /\ (req'[q].pc \in Writers <=> req[q].pc \in Writers)
    BY <1>1, <1>3
  <1>5. AgentFilesTypeOK'
    BY <1>0, <1>1, <1>3 DEF AgentFilesTypeOK
  <1>6. NamedByStem'
    BY <1>0, <1>1, <1>4 DEF FilesInv, NamedByStem, StemOf, Request
  <1>7. ContentByStem'
    BY <1>1, <1>4 DEF FilesInv, ContentByStem, StemOf
  <1>8. \A j \in Requests : Filled(j) => Filled(j)'
    BY <1>1, <1>4 DEF Filled
  <1>9. NamedIsFilled'
    BY <1>0, <1>1, <1>8 DEF FilesInv, NamedIsFilled, Filled
  <1> QED BY <1>5, <1>6, <1>7, <1>9 DEF FilesInv

-----------------------------------------------------------------------------
\* The invariant says what the property says: a published file that nobody is
\* writing is not empty, and a file with a stem of its own holds nothing else.
LEMMA FilesInvWhole == FilesInv => FilesAreWhole
  <1> SUFFICES ASSUME FilesInv PROVE FilesAreWhole
    OBVIOUS
  <1>1. ServedIsAsked
    <2> SUFFICES ASSUME NEW r \in Requests, OwnStem(req[r].file), NEW g \in req[r].got
                 PROVE  g = req[r].file
      BY DEF ServedIsAsked
    <2>1. g \in BootFiles /\ Stem[g] = Stem[req[r].file]
      BY DEF FilesInv, AgentFilesTypeOK, Request, ContentByStem, StemOf
    <2> QED BY <2>1 DEF OwnStem
  <1>2. CachedIsWhole
    <2> SUFFICES ASSUME NEW f \in BootFiles, OwnStem(f), published[f] # NoRequest,
                        ~InProgress(Stem[f]), ~WriteFailed(Stem[f])
                 PROVE  inode[published[f]] = {f}
      BY DEF CachedIsWhole
    <2>1. published[f] \in Requests /\ StemOf(published[f]) = Stem[f]
      BY DEF FilesInv, AgentFilesTypeOK, NamedByStem
    <2>2. \A g \in inode[published[f]] : g = f
      BY <2>1 DEF FilesInv, AgentFilesTypeOK, ContentByStem, OwnStem
    <2>3. \A r \in Requests : req[r].pc \in Writers => req[r].ino # published[f]
      BY <2>1 DEF InProgress, WriteFailed, Writers, FilesInv, NamedByStem
    <2>4. inode[published[f]] # {}
      BY <2>3 DEF FilesInv, NamedIsFilled, Filled
    <2> QED BY <2>2, <2>4
  <1> QED BY <1>1, <1>2 DEF FilesAreWhole, FilesInv

\* However misses for the same and for other files overlap, the cache holds
\* whole files of the right name and nobody is served another file's content.
THEOREM CacheWhole == AgentFilesSpec => []FilesAreWhole
  <1>1. FilesInv /\ [AgentFilesNext]_agentFileVars => FilesInv'
    <2> SUFFICES ASSUME FilesInv, [AgentFilesNext]_agentFileVars
                 PROVE  FilesInv'
      OBVIOUS
    <2>1. ASSUME NEW r \in Requests, RequestStep(r) PROVE FilesInv'
      <3>1. Cleanup(r) => req[r].pc \in {"cleanup", "undo"}
        BY DEF Cleanup
      <3> QED BY <2>1, <3>1, FetchKeeps, RenameKeeps, OpenKeeps, WriteKeeps, FailKeeps DEF RequestStep
    <2>2. CASE UNCHANGED agentFileVars
      BY <2>2 DEF agentFileVars, FilesInv, AgentFilesTypeOK, NamedByStem, ContentByStem,
                  NamedIsFilled, Filled, StemOf
    <2> QED BY <2>1, <2>2 DEF AgentFilesNext
  <1> QED BY FilesInitInv, FilesInvWhole, <1>1, PTL DEF AgentFilesSpec

-----------------------------------------------------------------------------
(***************************************************************************)
(* ContentSync: every entry of the cache has its file on disk.             *)
(*                                                                         *)
(* The file is written before the entry and deleted before it is dropped,  *)
(* both inside the lock: a coroutine between the two is the only one       *)
(* there, and the invariant says what it has done so far.                  *)
(***************************************************************************)

\* Where a coroutine is between taking ContentCache._lock and releasing it.
InsideCache == {"put", "nested_evict", "written", "deleted"}

\* Where it works on one file.
WithFile == InsideCache \union {"want_put", "want_evict"}

\* One coroutine at a time is inside put or evict.
LockIsHeld == \A t \in Tasks : task[t].pc \in InsideCache => cacheLock = t

\* Each works on a file; once put has written it, it is there.
FilesInHand ==
    \A t \in Tasks : /\ task[t].pc \in WithFile => task[t].file \in Files
                     /\ task[t].pc = "written" => task[t].file \in store

\* An entry has a file, or the coroutine that deleted the file is about to drop
\* the entry.
EntriesCovered ==
    ~crashed => \A f \in meta : \/ f \in store
                                \/ \E t \in Tasks : task[t].pc = "deleted" /\ task[t].file = f

ContentInv == ContentTypeOK /\ LockIsHeld /\ FilesInHand /\ EntriesCovered

\* With the lock free nobody is in the middle of an eviction, so every entry
\* has its file.
LEMMA ContentInvSuffices == ContentInv => EntryHasFile
  <1> SUFFICES ASSUME ContentInv, cacheLock = NoTask, ~crashed, NEW f \in meta
               PROVE  f \in store
    BY DEF ContentInv, EntryHasFile
  <1>1. \A t \in Tasks : task[t].pc # "deleted"
    BY ContentAssumption DEF ContentInv, LockIsHeld, InsideCache
  <1> QED BY <1>1 DEF ContentInv, EntriesCovered

\* The invariant holds of an empty cache.
LEMMA ContentInitInv == ContentInit => ContentInv
  <1> SUFFICES ASSUME ContentInit
               PROVE  ContentInv
    OBVIOUS
  <1>1. IdleTask \in TaskState /\ \A t \in Tasks : task[t].pc = "idle"
    BY DEF ContentInit, IdleTask, TaskState
  <1>2. ContentTypeOK
    BY <1>1 DEF ContentInit, ContentTypeOK
  <1>3. LockIsHeld /\ FilesInHand
    BY <1>1 DEF LockIsHeld, FilesInHand, InsideCache, WithFile
  <1>4. EntriesCovered
    BY DEF ContentInit, EntriesCovered
  <1> QED BY <1>2, <1>3, <1>4 DEF ContentInv

\* A coroutine that stays outside put and evict disturbs nothing, even when get
\* drops an entry without the lock.
LEMMA OutsideKeeps ==
  ASSUME ContentInv, NEW t \in Tasks, NEW x \in TaskState,
         task' = [task EXCEPT ![t] = x],
         task[t].pc \notin InsideCache, x.pc \notin InsideCache,
         x.pc \in WithFile => x.file \in Files,
         meta' \subseteq meta, syncLock' \in Tasks \union {NoTask},
         UNCHANGED <<cacheLock, metaSaved, store, crashed>>
  PROVE  ContentInv'
  <1>1. task'[t] = x /\ \A u \in Tasks \ {t} : task'[u] = task[u]
    BY DEF ContentInv, ContentTypeOK
  <1>2. ContentTypeOK'
    BY DEF ContentInv, ContentTypeOK
  <1>3. LockIsHeld'
    BY <1>1 DEF ContentInv, LockIsHeld
  <1>4. FilesInHand'
    BY <1>1 DEF ContentInv, FilesInHand, InsideCache
  <1>5. EntriesCovered'
    BY <1>1 DEF ContentInv, EntriesCovered, InsideCache
  <1> QED BY <1>2, <1>3, <1>4, <1>5 DEF ContentInv

\* A sync takes its lock, goes through what it clears, and ends.
LEMMA SyncKeeps ==
  ASSUME ContentInv, NEW t \in Tasks, AcquireSync(t) \/ ClearNext(t) \/ SyncEnds(t)
  PROVE  ContentInv'
  <1>0. task[t] \in TaskState /\ task \in [Tasks -> TaskState] /\ meta \subseteq Files
        /\ syncLock \in Tasks \union {NoTask}
    BY DEF ContentInv, ContentTypeOK
  <1>1. CASE AcquireSync(t)
    <2>0. PICK cleared \in SUBSET meta :
            task' = IF task[t].kind = "manual" /\ task[t].pc = "want_sync"
                    THEN [task EXCEPT ![t].pc = "clear", ![t].todo = cleared]
                    ELSE [task EXCEPT ![t].pc = "next", ![t].todo = Files, ![t].kind = "scheduled"]
      BY <1>1 DEF AcquireSync
    <2> DEFINE x == IF task[t].kind = "manual" /\ task[t].pc = "want_sync"
                    THEN [task[t] EXCEPT !.pc = "clear", !.todo = cleared]
                    ELSE [task[t] EXCEPT !.pc = "next", !.todo = Files, !.kind = "scheduled"]
    <2>1. x \in TaskState /\ x.pc \notin InsideCache /\ (x.pc \in WithFile => x.file \in Files)
      BY <1>0 DEF TaskState, InsideCache, WithFile
    <2>2. task' = [task EXCEPT ![t] = x]
      BY <1>0, <2>0 DEF TaskState
    <2>3. task[t].pc \notin InsideCache /\ syncLock' = t
          /\ UNCHANGED <<cacheLock, meta, metaSaved, store, crashed>>
      BY <1>1 DEF AcquireSync, InsideCache
    <2> HIDE DEF x
    <2> QED BY <2>1, <2>2, <2>3, OutsideKeeps
  <1>2. CASE ClearNext(t)
    <2>1. task[t].pc \notin InsideCache
          /\ UNCHANGED <<syncLock, cacheLock, meta, metaSaved, store, crashed>>
      BY <1>2 DEF ClearNext, InsideCache
    <2>2. CASE task[t].todo = {}
      <3> DEFINE x == [task[t] EXCEPT !.pc = "nested_sync"]
      <3>1. x \in TaskState /\ x.pc \notin InsideCache /\ (x.pc \in WithFile => x.file \in Files)
        BY <1>0 DEF TaskState, InsideCache, WithFile
      <3>2. task' = [task EXCEPT ![t] = x]
        BY <1>2, <2>2 DEF ClearNext, TaskGoes
      <3> HIDE DEF x
      <3> QED BY <1>0, <2>1, <3>1, <3>2, OutsideKeeps
    <2>3. CASE task[t].todo # {}
      <3>1. PICK g \in task[t].todo :
              task' = [task EXCEPT ![t].pc = "want_evict", ![t].file = g, ![t].todo = @ \ {g}]
        BY <1>2, <2>3 DEF ClearNext
      <3> DEFINE x == [task[t] EXCEPT !.pc = "want_evict", !.file = g, !.todo = @ \ {g}]
      <3>2. x \in TaskState /\ x.pc \notin InsideCache /\ (x.pc \in WithFile => x.file \in Files)
        BY <1>0 DEF TaskState, InsideCache, WithFile
      <3>3. task' = [task EXCEPT ![t] = x]
        BY <1>0, <3>1 DEF TaskState
      <3> HIDE DEF x
      <3> QED BY <1>0, <2>1, <3>2, <3>3, OutsideKeeps
    <2> QED BY <2>2, <2>3
  <1>3. CASE SyncEnds(t)
    <2> DEFINE x == [task[t] EXCEPT !.pc = "done"]
    <2>1. x \in TaskState /\ x.pc \notin InsideCache /\ (x.pc \in WithFile => x.file \in Files)
      BY <1>0 DEF TaskState, InsideCache, WithFile
    <2>2. task' = [task EXCEPT ![t] = x] /\ task[t].pc \notin InsideCache /\ syncLock' = NoTask
          /\ UNCHANGED <<cacheLock, meta, metaSaved, store, crashed>>
      BY <1>3 DEF SyncEnds, TaskGoes, InsideCache
    <2> HIDE DEF x
    <2> QED BY <2>1, <2>2, OutsideKeeps
  <1> QED BY <1>1, <1>2, <1>3

\* A task begins, or a sync looks at a file and finds it or not.
LEMMA SyncFileKeeps ==
  ASSUME ContentInv, NEW t \in Tasks, NEW f \in Files, NEW b \in BOOLEAN,
         NEW kind \in {"manual", "scheduled", "evict"},
         StartTask(t, kind, f) \/ SyncCached(t, f, b) \/ SyncMissing(t, f, b)
  PROVE  ContentInv'
  <1>0. task[t] \in TaskState /\ task \in [Tasks -> TaskState] /\ meta \subseteq Files
        /\ syncLock \in Tasks \union {NoTask}
    BY DEF ContentInv, ContentTypeOK
  <1>1. CASE StartTask(t, kind, f)
    <2> DEFINE x == [kind |-> kind, pc |-> IF kind = "evict" THEN "want_evict" ELSE "want_sync",
                     file |-> IF kind = "evict" THEN f ELSE NoFile, todo |-> {}]
    <2>1. x \in TaskState /\ x.pc \notin InsideCache /\ (x.pc \in WithFile => x.file \in Files)
      BY DEF TaskState, InsideCache, WithFile
    <2>2. task' = [task EXCEPT ![t] = x] /\ task[t].pc \notin InsideCache
          /\ UNCHANGED <<syncLock, cacheLock, meta, metaSaved, store, crashed>>
      BY <1>1 DEF StartTask, InsideCache
    <2> HIDE DEF x
    <2> QED BY <1>0, <2>1, <2>2, OutsideKeeps
  <1>2. CASE SyncCached(t, f, b)
    <2> DEFINE x == IF b THEN [task[t] EXCEPT !.pc = "want_evict", !.file = f]
                    ELSE [task[t] EXCEPT !.todo = @ \ {f}]
    <2>1. x \in TaskState /\ x.pc \notin InsideCache /\ (x.pc \in WithFile => x.file \in Files)
      BY <1>0, <1>2 DEF SyncCached, TaskState, InsideCache, WithFile
    <2>2. task' = [task EXCEPT ![t] = x]
      BY <1>0, <1>2 DEF SyncCached, TaskState
    <2>3. task[t].pc \notin InsideCache
          /\ UNCHANGED <<syncLock, cacheLock, meta, metaSaved, store, crashed>>
      BY <1>2 DEF SyncCached, InsideCache
    <2> HIDE DEF x
    <2> QED BY <1>0, <2>1, <2>2, <2>3, OutsideKeeps
  <1>3. CASE SyncMissing(t, f, b)
    <2> DEFINE x == IF b THEN [task[t] EXCEPT !.pc = "want_put", !.file = f]
                    ELSE [task[t] EXCEPT !.todo = @ \ {f}]
    <2>1. x \in TaskState /\ x.pc \notin InsideCache /\ (x.pc \in WithFile => x.file \in Files)
      BY <1>0, <1>3 DEF SyncMissing, TaskState, InsideCache, WithFile
    <2>2. task' = [task EXCEPT ![t] = x]
      BY <1>0, <1>3 DEF SyncMissing, TaskState
    <2>3. task[t].pc \notin InsideCache /\ meta' \subseteq meta
          /\ UNCHANGED <<syncLock, cacheLock, metaSaved, store, crashed>>
      BY <1>3 DEF SyncMissing, InsideCache
    <2> HIDE DEF x
    <2> QED BY <1>0, <2>1, <2>2, <2>3, OutsideKeeps
  <1> QED BY <1>1, <1>2, <1>3

\* A step of the coroutine that is inside put or evict before or after it:
\* nobody else is there.
LEMMA InsideKeeps ==
  ASSUME ContentInv, NEW t \in Tasks, NEW x \in TaskState,
         task' = [task EXCEPT ![t] = x],
         cacheLock \in {t, NoTask}, task[t].pc \in WithFile,
         IF x.pc \in InsideCache THEN cacheLock' = t ELSE cacheLock' = NoTask,
         x.pc \in WithFile => x.file \in Files,
         x.pc = "written" => x.file \in store',
         meta' \subseteq Files, metaSaved' \subseteq Files, store' \subseteq Files,
         meta' \subseteq store' \union (IF x.pc = "deleted" THEN {x.file} ELSE {}) \/ crashed,
         UNCHANGED <<syncLock, crashed>>
  PROVE  ContentInv'
  <1>1. task'[t] = x /\ \A u \in Tasks \ {t} : task'[u] = task[u]
    BY DEF ContentInv, ContentTypeOK
  <1>2. ContentTypeOK'
    BY DEF ContentInv, ContentTypeOK
  <1>3. \A u \in Tasks \ {t} : task[u].pc \notin InsideCache
    BY ContentAssumption DEF ContentInv, LockIsHeld
  <1>4. LockIsHeld'
    BY <1>1, <1>3 DEF LockIsHeld
  <1>5. FilesInHand'
    BY <1>1, <1>3 DEF ContentInv, FilesInHand, InsideCache
  <1>6. EntriesCovered'
    BY <1>1 DEF EntriesCovered
  <1> QED BY <1>2, <1>4, <1>5, <1>6 DEF ContentInv

\* What the lock says of the entries: the holder may have deleted the file of
\* one; without a holder every entry has its file.
LEMMA EntriesOfHolder ==
  ASSUME ContentInv, NEW t \in Tasks, cacheLock \in {t, NoTask}, ~crashed
  PROVE  meta \subseteq store \union (IF task[t].pc = "deleted" THEN {task[t].file} ELSE {})
  <1>1. \A u \in Tasks \ {t} : task[u].pc # "deleted"
    BY ContentAssumption DEF ContentInv, LockIsHeld, InsideCache
  <1> QED BY <1>1 DEF ContentInv, EntriesCovered

\* put: the lock is taken, the file refused, or room looked for, or the file
\* written and then entered.
LEMMA PutKeeps ==
  ASSUME ContentInv, NEW t \in Tasks,
         \/ AcquirePut(t) \/ PutRefused(t) \/ PutFull(t) \/ PutWrites(t) \/ PutSaves(t)
  PROVE  ContentInv'
  <1>0. /\ task[t] \in TaskState /\ task \in [Tasks -> TaskState]
        /\ meta \subseteq Files /\ metaSaved \subseteq Files /\ store \subseteq Files
        /\ task[t].pc \in WithFile => task[t].file \in Files
        /\ task[t].pc \in InsideCache => cacheLock = t
    BY DEF ContentInv, ContentTypeOK, FilesInHand, LockIsHeld
  <1>1. CASE AcquirePut(t)
    <2> DEFINE x == [task[t] EXCEPT !.pc = "put"]
    <2>1. x \in TaskState /\ x.pc = "put" /\ x.file = task[t].file
      BY <1>0 DEF TaskState
    <2>2. task' = [task EXCEPT ![t] = x] /\ task[t].pc = "want_put"
          /\ cacheLock = NoTask /\ cacheLock' = t
          /\ UNCHANGED <<syncLock, meta, metaSaved, store, crashed>>
      BY <1>1 DEF AcquirePut, TaskGoes
    <2>3. ~crashed => meta \subseteq store
      BY <2>2, EntriesOfHolder
    <2> HIDE DEF x
    <2> QED BY <1>0, <2>1, <2>2, <2>3, InsideKeeps DEF InsideCache, WithFile
  <1>2. CASE PutRefused(t)
    <2> DEFINE x == [task[t] EXCEPT !.pc = "next", !.todo = @ \ {task[t].file}]
    <2>1. x \in TaskState /\ x.pc = "next"
      BY <1>0 DEF TaskState
    <2>2. task' = [task EXCEPT ![t] = x]
      BY <1>0, <1>2 DEF PutRefused, TaskState
    <2>3. task[t].pc = "put" /\ cacheLock' = NoTask
          /\ UNCHANGED <<syncLock, meta, metaSaved, store, crashed>>
      BY <1>2 DEF PutRefused
    <2>4. cacheLock = t /\ (~crashed => meta \subseteq store)
      BY <1>0, <2>3, EntriesOfHolder DEF InsideCache
    <2> HIDE DEF x
    <2> QED BY <1>0, <2>1, <2>2, <2>3, <2>4, InsideKeeps DEF InsideCache, WithFile
  <1>3. CASE PutFull(t)
    <2> DEFINE x == [task[t] EXCEPT !.pc = "nested_evict"]
    <2>1. x \in TaskState /\ x.pc = "nested_evict" /\ x.file = task[t].file
      BY <1>0 DEF TaskState
    <2>2. task' = [task EXCEPT ![t] = x] /\ task[t].pc = "put"
          /\ UNCHANGED <<syncLock, cacheLock, meta, metaSaved, store, crashed>>
      BY <1>3 DEF PutFull, TaskGoes
    <2>3. cacheLock = t /\ (~crashed => meta \subseteq store)
      BY <1>0, <2>2, EntriesOfHolder DEF InsideCache
    <2> HIDE DEF x
    <2> QED BY <1>0, <2>1, <2>2, <2>3, InsideKeeps DEF InsideCache, WithFile
  <1>4. CASE PutWrites(t)
    <2> DEFINE x == [task[t] EXCEPT !.pc = "written"]
    <2>1. x \in TaskState /\ x.pc = "written" /\ x.file = task[t].file
      BY <1>0 DEF TaskState
    <2>2. task' = [task EXCEPT ![t] = x] /\ task[t].pc = "put"
          /\ store' = store \union {task[t].file}
          /\ UNCHANGED <<syncLock, cacheLock, meta, metaSaved, crashed>>
      BY <1>4 DEF PutWrites, TaskGoes
    <2>3. cacheLock = t /\ (~crashed => meta \subseteq store)
      BY <1>0, <2>2, EntriesOfHolder DEF InsideCache
    <2> HIDE DEF x
    <2> QED BY <1>0, <2>1, <2>2, <2>3, InsideKeeps DEF InsideCache, WithFile
  <1>5. CASE PutSaves(t)
    <2> DEFINE x == [task[t] EXCEPT !.pc = "next", !.todo = @ \ {task[t].file}]
    <2>1. x \in TaskState /\ x.pc = "next"
      BY <1>0 DEF TaskState
    <2>2. task' = [task EXCEPT ![t] = x]
      BY <1>0, <1>5 DEF PutSaves, TaskState
    <2>3. task[t].pc = "written" /\ cacheLock' = NoTask
          /\ meta' = meta \union {task[t].file} /\ metaSaved' = meta'
          /\ UNCHANGED <<syncLock, store, crashed>>
      BY <1>5 DEF PutSaves
    <2>4. cacheLock = t /\ (~crashed => meta \subseteq store)
      BY <1>0, <2>3, EntriesOfHolder DEF InsideCache
    <2>5. task[t].file \in store
      BY <2>3 DEF ContentInv, FilesInHand
    <2> HIDE DEF x
    <2> QED BY <1>0, <2>1, <2>2, <2>3, <2>4, <2>5, InsideKeeps DEF InsideCache, WithFile
  <1> QED BY <1>1, <1>2, <1>3, <1>4, <1>5

\* evict: the file goes first and the entry after it, under the lock.
LEMMA EvictKeeps ==
  ASSUME ContentInv, NEW t \in Tasks, EvictDeletes(t) \/ EvictSaves(t)
  PROVE  ContentInv'
  <1>0. /\ task[t] \in TaskState /\ task \in [Tasks -> TaskState]
        /\ meta \subseteq Files /\ metaSaved \subseteq Files /\ store \subseteq Files
        /\ task[t].pc \in WithFile => task[t].file \in Files
        /\ task[t].pc \in InsideCache => cacheLock = t
    BY DEF ContentInv, ContentTypeOK, FilesInHand, LockIsHeld
  <1>1. CASE EvictDeletes(t)
    <2> DEFINE x == [task[t] EXCEPT !.pc = "deleted"]
    <2>1. x \in TaskState /\ x.pc = "deleted" /\ x.file = task[t].file
      BY <1>0 DEF TaskState
    <2>2. task' = [task EXCEPT ![t] = x] /\ task[t].pc = "want_evict"
          /\ cacheLock = NoTask /\ cacheLock' = t /\ store' = store \ {task[t].file}
          /\ UNCHANGED <<syncLock, meta, metaSaved, crashed>>
      BY <1>1 DEF EvictDeletes, TaskGoes
    <2>3. ~crashed => meta \subseteq store
      BY <2>2, EntriesOfHolder
    <2> HIDE DEF x
    <2> QED BY <1>0, <2>1, <2>2, <2>3, InsideKeeps DEF InsideCache, WithFile
  <1>2. CASE EvictSaves(t)
    <2> DEFINE pc == CASE task[t].kind = "evict" -> "done"
                       [] task[t].kind = "manual" -> "clear"
                       [] task[t].kind = "scheduled" -> "next"
               x == [task[t] EXCEPT !.pc = pc]
    <2>1. pc \in {"done", "clear", "next"}
      BY <1>0 DEF TaskState
    <2>2. task' = [task EXCEPT ![t] = x] /\ task[t].pc = "deleted" /\ cacheLock' = NoTask
          /\ meta' = meta \ {task[t].file} /\ metaSaved' \in {meta', metaSaved}
          /\ UNCHANGED <<syncLock, store, crashed>>
      BY <1>2 DEF EvictSaves, TaskGoes
    <2> HIDE DEF pc
    <2>3. x \in TaskState /\ x.pc = pc
      BY <1>0, <2>1 DEF TaskState
    <2>4. cacheLock = t /\ (~crashed => meta \subseteq store \union {task[t].file})
      BY <1>0, <2>2, EntriesOfHolder DEF InsideCache
    <2> HIDE DEF x
    <2> QED BY <1>0, <2>1, <2>2, <2>3, <2>4, InsideKeeps DEF InsideCache, WithFile
  <1> QED BY <1>1, <1>2

\* A restart ends every coroutine and frees the locks.
LEMMA RestartKeeps ==
  ASSUME ContentInv, RestartAgent
  PROVE  ContentInv'
  <1>1. \A t \in Tasks : task'[t] \in TaskState /\ task'[t].pc \in {"idle", "done"}
    BY DEF RestartAgent, ContentInv, ContentTypeOK, TaskState
  <1>2. ContentTypeOK'
    BY <1>1 DEF RestartAgent, ContentInv, ContentTypeOK
  <1>3. LockIsHeld' /\ FilesInHand'
    BY <1>1 DEF LockIsHeld, FilesInHand, InsideCache, WithFile
  <1> QED BY <1>2, <1>3 DEF RestartAgent, ContentInv, EntriesCovered

\* Whatever syncs and evictions run at once, and although get drops entries
\* without the lock, an entry of the content cache has its file whenever the lock
\* is free and no restart cut an eviction short.
THEOREM EntriesHaveFiles == ContentSpec => []EntryHasFile
  <1>1. ContentInv /\ [ContentNext]_contentVars => ContentInv'
    <2> SUFFICES ASSUME ContentInv, [ContentNext]_contentVars
                 PROVE  ContentInv'
      OBVIOUS
    <2>1. ASSUME NEW t \in Tasks, NEW f \in Files, NEW kind \in {"manual", "scheduled", "evict"},
                 StartTask(t, kind, f)
          PROVE  ContentInv'
      <3>1. TRUE \in BOOLEAN
        OBVIOUS
      <3> QED BY <2>1, <3>1, SyncFileKeeps
    <2>2. ASSUME NEW t \in Tasks, TaskStep(t)
          PROVE  ContentInv'
      <3>1. CASE AcquirePut(t) \/ PutRefused(t) \/ PutFull(t) \/ PutWrites(t) \/ PutSaves(t)
        BY <3>1, PutKeeps
      <3>2. CASE EvictDeletes(t) \/ EvictSaves(t)
        BY <3>2, EvictKeeps
      <3>3. ASSUME NEW f \in Files, NEW b \in BOOLEAN, SyncCached(t, f, b) \/ SyncMissing(t, f, b)
            PROVE  ContentInv'
        BY <3>3, SyncFileKeeps
      <3>4. CASE AcquireSync(t) \/ ClearNext(t) \/ SyncEnds(t)
        BY <3>4, SyncKeeps
      <3> QED BY <2>2, <3>1, <3>2, <3>3, <3>4 DEF TaskStep, Acquires
    <2>3. CASE RestartAgent
      BY <2>3, RestartKeeps
    <2>4. CASE UNCHANGED contentVars
      BY <2>4 DEF contentVars, ContentInv, ContentTypeOK, LockIsHeld, FilesInHand, EntriesCovered
    <2> QED BY <2>1, <2>2, <2>3, <2>4, ContentAssumption DEF ContentNext
  <1> QED BY ContentInitInv, ContentInvSuffices, <1>1, PTL DEF ContentSpec

-----------------------------------------------------------------------------
(***************************************************************************)
(* AgentBoot: the boots an agent reports are those in progress, for any    *)
(* requests, whatever the link and the monitor do.                         *)
(***************************************************************************)

InFlight == {b \in Boots : boot[b].pc # "idle"}

BootInv == AgentBootTypeOK /\ ActiveBootsAreInFlight

\* Requests in progress are finitely many.
LEMMA InFlightCount ==
    ASSUME AgentBootTypeOK
    PROVE  /\ IsFiniteSet(InFlight) /\ Cardinality(InFlight) \in Nat
           /\ Cardinality(InFlight) <= Cardinality(Boots) /\ Cardinality(Boots) \in Nat
           /\ IsFiniteSet(Boots)
<1>1. InFlight \subseteq Boots /\ IsFiniteSet(Boots)
  BY AgentBootAssumption DEF InFlight
<1> QED
  BY <1>1, FS_Subset, FS_CardinalityType

LEMMA BootInvInit == AgentBootInit => BootInv
<1> SUFFICES ASSUME AgentBootInit PROVE BootInv
  OBVIOUS
<1>1. InFlight = {}
  BY DEF AgentBootInit, InFlight
<1>2. Cardinality(InFlight) = 0 /\ Cardinality(Boots) \in Nat
  BY <1>1, FS_EmptySet, FS_CardinalityType, AgentBootAssumption
<1>3. boot \in [Boots -> BootRequest]
  <2>1. {[pc |-> "idle", mac |-> m, got |-> "nothing"] : m \in Macs} \subseteq BootRequest
    BY DEF BootRequest
  <2> QED BY <2>1 DEF AgentBootInit
<1>4. lookup \in [Lookups -> Lookup]
  <2> DEFINE New(m) == [pc |-> "idle", mac |-> m, had |-> FALSE, got |-> "nothing"]
  <2>1. \A m \in Macs : New(m) \in Lookup
    BY DEF Lookup
  <2>2. lookup \in [Lookups -> {New(m) : m \in Macs}]
    BY DEF AgentBootInit
  <2> HIDE DEF New
  <2> QED BY <2>1, <2>2
<1> QED
  BY <1>2, <1>3, <1>4
     DEF AgentBootInit, BootInv, AgentBootTypeOK, ActiveBootsAreInFlight, NodeRow, InFlight

\* A step of one request, which begins, goes on or ends.
LEMMA BootMoves ==
    ASSUME BootInv, NEW b \in Boots, NEW r \in BootRequest,
           boot' = [boot EXCEPT ![b] = r],
           UNCHANGED <<link, online, nodeCache, lookup>>,
           activeBoots' = IF boot[b].pc = "idle" /\ r.pc # "idle" THEN activeBoots + 1
                          ELSE IF boot[b].pc # "idle" /\ r.pc = "idle" THEN activeBoots - 1
                          ELSE activeBoots
    PROVE  BootInv'
<1>1. boot \in [Boots -> BootRequest] /\ activeBoots = Cardinality(InFlight)
  BY DEF BootInv, AgentBootTypeOK, ActiveBootsAreInFlight, InFlight
<1>2. boot' \in [Boots -> BootRequest]
  BY <1>1
<1>3. InFlight' = IF r.pc # "idle" THEN InFlight \union {b} ELSE InFlight \ {b}
  BY <1>1 DEF InFlight
<1>4. b \in InFlight <=> boot[b].pc # "idle"
  BY DEF InFlight
<1>5. IsFiniteSet(InFlight) /\ Cardinality(InFlight) \in Nat
  BY InFlightCount DEF BootInv
<1>6. Cardinality(InFlight') = activeBoots'
  <2>1. CASE b \notin InFlight /\ r.pc # "idle"
    BY <1>1, <1>3, <1>4, <1>5, <2>1, FS_AddElement
  <2>2. CASE b \in InFlight /\ r.pc = "idle"
    BY <1>1, <1>3, <1>4, <1>5, <2>2, FS_RemoveElement
  <2>3. CASE b \in InFlight <=> r.pc # "idle"
    <3>1. InFlight' = InFlight
      BY <1>3, <2>3
    <3> QED BY <1>1, <1>4, <2>3, <3>1
  <2> QED BY <2>1, <2>2, <2>3
<1>7. InFlight' \subseteq Boots /\ IsFiniteSet(Boots)
  BY AgentBootAssumption DEF InFlight
<1>8. activeBoots' \in 0 .. Cardinality(Boots)
  <2>1. Cardinality(InFlight') \in Nat /\ Cardinality(InFlight') <= Cardinality(Boots)
    BY <1>7, FS_Subset, FS_CardinalityType
  <2>2. Cardinality(Boots) \in Nat
    BY <1>7, FS_CardinalityType
  <2> QED BY <1>6, <2>1, <2>2
<1> QED
  BY <1>2, <1>6, <1>8 DEF BootInv, AgentBootTypeOK, ActiveBootsAreInFlight, InFlight

\* A step that no boot request takes.
LEMMA OthersMove ==
    ASSUME BootInv, UNCHANGED <<boot, activeBoots>>,
           link' \in {"up", "down", "hangs"}, online' \in BOOLEAN,
           nodeCache' \in [Macs -> NodeRow], lookup' \in [Lookups -> Lookup]
    PROVE  BootInv'
  BY DEF BootInv, AgentBootTypeOK, ActiveBootsAreInFlight

\* The end of a request in progress: the bound at zero of the count is idle.
LEMMA AnswerMoves ==
    ASSUME BootInv, NEW b \in Boots, boot[b].pc # "idle",
           NEW got \in Scripts \union {"error"}, Answers(b, got),
           UNCHANGED <<link, online, nodeCache, lookup>>
    PROVE  BootInv'
<1>1. boot \in [Boots -> BootRequest]
  BY DEF BootInv, AgentBootTypeOK
<1>2. activeBoots > 0 /\ activeBoots \in Nat
  <2>1. b \in InFlight /\ activeBoots = Cardinality(InFlight)
    BY DEF InFlight, BootInv, ActiveBootsAreInFlight
  <2> QED BY <2>1, InFlightCount, FS_EmptySet DEF BootInv
<1> DEFINE r == [boot[b] EXCEPT !.pc = "idle", !.got = got]
<1>3. r \in BootRequest /\ r.pc = "idle"
  BY <1>1 DEF BootRequest
<1>4. boot' = [boot EXCEPT ![b] = r] /\ activeBoots' = activeBoots - 1
  BY <1>1, <1>2 DEF Answers
<1> HIDE DEF r
<1> QED
  BY <1>3, <1>4, BootMoves

LEMMA BootInvStep == BootInv /\ [AgentBootNext]_agentBootVars => BootInv'
<1> SUFFICES ASSUME BootInv, [AgentBootNext]_agentBootVars PROVE BootInv'
  OBVIOUS
<1>0. AgentBootTypeOK
  BY DEF BootInv
<1>1. CASE UNCHANGED agentBootVars
  BY <1>0, <1>1, OthersMove DEF agentBootVars, AgentBootTypeOK
<1>2. ASSUME NEW b \in Boots, GetBootScript(b) PROVE BootInv'
  <2> DEFINE r == [boot[b] EXCEPT !.pc = IF online THEN "asks" ELSE "offline", !.got = "nothing"]
  <2>1. r \in BootRequest /\ r.pc # "idle"
    BY <1>0 DEF BootRequest, AgentBootTypeOK
  <2>2. boot' = [boot EXCEPT ![b] = r] /\ activeBoots' = activeBoots + 1
    BY <1>0, <1>2 DEF GetBootScript, AgentBootTypeOK
  <2>3. boot[b].pc = "idle" /\ UNCHANGED <<link, online, nodeCache, lookup>>
    BY <1>2 DEF GetBootScript
  <2> HIDE DEF r
  <2> QED BY <2>1, <2>2, <2>3, BootMoves
<1>3. ASSUME NEW b \in Boots, BootEnds(b) PROVE BootInv'
  <2>1. CASE CentralAnswers(b)
    <3>1. PICK got \in {"central", "fallback"} : Answers(b, got)
      BY <2>1 DEF CentralAnswers
    <3> QED BY <2>1, <3>1, AnswerMoves DEF CentralAnswers, Scripts
  <2>2. CASE CentralHangs(b)
    BY <2>2, AnswerMoves DEF CentralHangs
  <2>3. CASE OfflineScript(b)
    BY <2>3, AnswerMoves DEF OfflineScript, UnknownScript, Scripts
  <2>4. CASE CentralUnreachable(b)
    <3> DEFINE r == [boot[b] EXCEPT !.pc = "offline"]
    <3>1. r \in BootRequest /\ r.pc = "offline"
      BY <1>0 DEF BootRequest, AgentBootTypeOK
    <3>2. boot' = [boot EXCEPT ![b] = r] /\ activeBoots' = activeBoots
      BY <1>0, <2>4 DEF CentralUnreachable, AgentBootTypeOK
    <3>3. boot[b].pc = "asks" /\ UNCHANGED <<link, online, nodeCache, lookup>>
      BY <2>4 DEF CentralUnreachable
    <3> HIDE DEF r
    <3> QED BY <3>1, <3>2, <3>3, BootMoves
  <2> QED BY <1>3, <2>1, <2>2, <2>3, <2>4 DEF BootEnds
<1>4. ASSUME NEW l \in Lookups, GetNodeByMac(l) \/ LookupEnds(l) PROVE BootInv'
  <2>1. lookup' \in [Lookups -> Lookup]
    <3>1. lookup \in [Lookups -> Lookup] /\ lookup[l] \in Lookup
      BY <1>0 DEF AgentBootTypeOK
    <3>2. ASSUME NEW got \in {"cached", "stale", "central", "none", "error"}, Returns(l, got)
          PROVE  lookup' \in [Lookups -> Lookup]
      BY <3>1, <3>2 DEF Returns, Lookup
    <3>3. CASE GetNodeByMac(l)
      BY <3>1, <3>2, <3>3 DEF GetNodeByMac, Lookup
    <3>4. CASE NodeAnswers(l)
      BY <3>1, <3>2, <3>4 DEF NodeAnswers, Lookup
    <3>5. CASE SetNode(l)
      BY <3>2, <3>5 DEF SetNode
    <3>6. CASE NodeUnreachable(l)
      BY <3>2, <3>6 DEF NodeUnreachable
    <3>7. CASE NodeHangs(l)
      BY <3>2, <3>7 DEF NodeHangs
    <3> QED BY <1>4, <3>3, <3>4, <3>5, <3>6, <3>7 DEF LookupEnds
  <2>2. nodeCache' \in [Macs -> NodeRow]
    BY <1>0, <1>4 DEF AgentBootTypeOK, GetNodeByMac, LookupEnds, NodeAnswers, SetNode,
       NodeUnreachable, NodeHangs, NodeRow
  <2>3. UNCHANGED <<boot, activeBoots, link, online>>
    BY <1>4 DEF GetNodeByMac, LookupEnds, NodeAnswers, SetNode, NodeUnreachable, NodeHangs
  <2> QED BY <1>0, <2>1, <2>2, <2>3, OthersMove DEF AgentBootTypeOK
<1>5. ASSUME NEW m \in Macs, Invalidate(m) \/ NodeExpires(m) PROVE BootInv'
  BY <1>0, <1>5, OthersMove DEF AgentBootTypeOK, Invalidate, NodeExpires, NodeRow
<1>6. CASE ClearNodes \/ InvalidateExpired
  BY <1>0, <1>6, OthersMove DEF AgentBootTypeOK, ClearNodes, InvalidateExpired, NodeRow
<1>7. CASE LinkChanges \/ MonitorSees
  BY <1>0, <1>7, OthersMove DEF AgentBootTypeOK, LinkChanges, MonitorSees
<1>8. CASE AgentBootRestart
  <2>1. boot' \in [Boots -> BootRequest] /\ \A b \in Boots : boot'[b].pc = "idle"
    BY <1>0, <1>8 DEF AgentBootRestart, AgentBootTypeOK, BootRequest
  <2>2. lookup' \in [Lookups -> Lookup]
    BY <1>0, <1>8 DEF AgentBootRestart, AgentBootTypeOK, Lookup
  <2>3. InFlight' = {} /\ activeBoots' = 0
    BY <1>8, <2>1 DEF InFlight, AgentBootRestart
  <2>4. activeBoots' = Cardinality(InFlight') /\ activeBoots' \in 0 .. Cardinality(Boots)
    BY <2>3, FS_EmptySet, FS_CardinalityType, AgentBootAssumption
  <2> QED BY <1>0, <1>8, <2>1, <2>2, <2>4
          DEF AgentBootRestart, BootInv, AgentBootTypeOK, ActiveBootsAreInFlight, InFlight
<1> QED
  BY <1>1, <1>2, <1>3, <1>4, <1>5, <1>6, <1>7, <1>8 DEF AgentBootNext

\* The active_boots of an agent's heartbeat are exactly its boot requests in
\* progress, on every path an answer can take, through time-outs, restarts and a
\* monitor that is wrong about the link: no path leaks one or counts one twice.
THEOREM BootsCounted == AgentBootSpec => [](AgentBootTypeOK /\ ActiveBootsAreInFlight)
<1>1. BootInv => AgentBootTypeOK /\ ActiveBootsAreInFlight
  BY DEF BootInv
<1> QED
  BY <1>1, BootInvInit, BootInvStep, PTL DEF AgentBootSpec
=============================================================================
