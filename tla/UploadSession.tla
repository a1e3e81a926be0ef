--------------------------- MODULE UploadSession ---------------------------
(***************************************************************************)
(* The chunked-upload half of UploadService (upload_service.go): the HTTP  *)
(* handlers Init, UploadChunk, Finish and Cancel, each running in its own  *)
(* goroutine, over the upload_sessions table, the temp directories, the    *)
(* target file and its metadata VFS node.                                  *)
(*                                                                         *)
(* All sessions upload one file name of one storage source: the case in   *)
(* which they can disturb one another.  A handler is a record in req: its  *)
(* program point, its arguments and the row it read (the handlers work on  *)
(* that copy, never on the row).  One step is one call to the database or  *)
(* the file system.                                                        *)
(***************************************************************************)
EXTENDS Integers, FiniteSets

CONSTANTS
    Reqs,        \* handler goroutines
    Finishers,   \* those that may serve POST /upload/finish
    Sessions,    \* upload ids uuid.NewString can hand out (bounds Init)
    Contents,    \* versions of the file; md5 is taken to be collision-free
    Hashes,      \* the file_hash values of init requests
    NoHash,      \* file_hash = "": Finish does not compare
    N,           \* chunks of the file (its size over DefaultChunkSize)
    Drivers,     \* what the source may be: "local", "import" (an ImportDriver), or both
    FaultKinds,  \* what may go wrong: "write", "db", "commit", "journal",
                 \* "crash", "timeout"
    MaxFaults,   \* how many faults in a behaviour (bound)
    NoFile, Torn, Gap, NoNode, NoSession

ASSUME UploadAssumption ==
    /\ N \in Nat \ {0}
    /\ Finishers \subseteq Reqs
    /\ Hashes \subseteq Contents \cup {NoHash}
    /\ Drivers \subseteq {"local", "import"}
    /\ MaxFaults \in Nat
    /\ NoFile \notin Contents \cup {Torn}
    /\ Torn \notin Contents
    /\ Gap \notin Contents
    /\ NoNode \notin Contents \cup {NoHash}
    /\ NoHash \notin Contents
    /\ NoSession \notin Sessions

VARIABLES
    row,       \* upload_sessions
    dir,       \* which session temp directories exist
    chunk,     \* chunk-<index>.part files
    staged,    \* assembled-upload files (import driver)
    target,    \* the file at the target path
    node,      \* checksum of the target's committed metadata node
    journal,   \* sessions with an upload_commit failure in the journal
    req,       \* the handlers
    faults,    \* faults left
    committed, \* history: sessions whose Finish committed the metadata
    driver     \* the target source's driver

vars == <<row, dir, chunk, staged, target, node, journal, req, faults,
          committed, driver>>
disk == <<dir, chunk, staged, target>>

Idx == 0 .. N - 1

\* A file is what its chunk-sized slots hold; a slot never written is a Gap.
EmptyFile == [exists |-> TRUE, data |-> [k \in Idx |-> Gap]]
NoSuchFile == [exists |-> FALSE, data |-> [k \in Idx |-> Gap]]
File == [exists : BOOLEAN, data : [Idx -> Contents \cup {Gap}]]

\* Mutant: the comparison with file_hash is dropped.
MutantAnyHash(file, hash) == hash # NoHash /\ file.exists

\* hashFileMD5(path) = hash
HashIs(file, hash) ==
    /\ hash # NoHash
    /\ file.exists
    /\ \A k \in Idx : file.data[k] = hash

\* Where a handler stands; Done lists the answers it can have given.
Done == {"idle", "ok", "fast", "err"}
InitPoints == {"initCommit", "initFind", "initCreate", "initMkdir"}
ChunkPoints == {"chunkRead", "chunkMkdir", "chunkOpen", "chunkWrite", "chunkUpdate"}
FinishPoints == {"finishStat", "finishCreate", "finishCopy", "finishHash", "finishImport",
                 "finishCommit", "finishRemove", "finishDelete"}
CancelPoints == {"cancelDelete", "cancelRemove"}

Points == Done \cup InitPoints \cup ChunkPoints \cup FinishPoints \cup CancelPoints

Request == [pc : Points,
            id : Sessions \cup {NoSession},
            hash : Contents \cup {NoHash},
            uploaded : SUBSET Idx,
            index : Idx,         \* chunk index of UploadChunk
            next : 0 .. N,       \* loop counter of Finish
            data : Contents \cup {NoFile},
            off : Nat,           \* write offset of Finish's output, in slots
            linked : BOOLEAN]    \* the open file still has its name

NoRequest == [pc |-> "idle", id |-> NoSession, hash |-> NoHash, uploaded |-> {},
              index |-> 0, data |-> NoFile, next |-> 0, off |-> 0, linked |-> FALSE]

\* The points at which a handler works on a session it has found or created.
SessionPoints == {"initMkdir"} \cup ChunkPoints \cup FinishPoints \cup CancelPoints

Row == [status : {"absent", "uploading", "deleted"}, hash : Contents \cup {NoHash},
        uploaded : SUBSET Idx, expired : BOOLEAN]

StateOK ==
    /\ row \in [Sessions -> Row]
    /\ dir \in [Sessions -> BOOLEAN]
    /\ chunk \in [Sessions -> [Idx -> Contents \cup {Torn, NoFile}]]
    /\ staged \in [Sessions -> File]
    /\ target \in File
    /\ node \in Contents \cup {NoHash, NoNode}
    /\ journal \in SUBSET (Sessions \cup {NoSession})
    /\ req \in [Reqs -> Request]
    /\ faults \in 0 .. MaxFaults
    /\ committed \in [Sessions -> BOOLEAN]

TypeOK == StateOK /\ driver \in Drivers

Init ==
    /\ row = [s \in Sessions |-> [status |-> "absent", hash |-> NoHash,
                                  uploaded |-> {}, expired |-> FALSE]]
    /\ dir = [s \in Sessions |-> FALSE]
    /\ chunk = [s \in Sessions |-> [i \in Idx |-> NoFile]]
    /\ staged = [s \in Sessions |-> NoSuchFile]
    /\ target = NoSuchFile
    /\ node = NoNode
    /\ journal = {}
    /\ req = [r \in Reqs |-> NoRequest]
    /\ faults = MaxFaults
    /\ committed = [s \in Sessions |-> FALSE]
    /\ driver \in Drivers

-----------------------------------------------------------------------------
(* Steps shared by the handlers *)

At(r, point) == req[r].pc = point
Free(r) == req[r].pc \in Done
Goto(r, point) == req' = [req EXCEPT ![r].pc = point]

\* An answer ends the handler and with it its locals.
Answer(r, code) == req' = [req EXCEPT ![r] = [NoRequest EXCEPT !.pc = code]]

\* The session view that Init answers with: its id and uploaded_chunks
AnswerSession(r, s, uploaded) ==
    req' = [req EXCEPT ![r] = [NoRequest EXCEPT !.pc = "ok", !.id = s, !.uploaded = uploaded]]

Fault(kind) ==
    /\ kind \in FaultKinds
    /\ faults > 0
    /\ faults' = faults - 1

\* Mutant: a failed commit leaves no trace.
MutantForgetsFailure(r) == UNCHANGED journal

\* recordUploadMetadataCommitFailure, whose own failure is ignored
RecordFailure(r) ==
    \/ journal' = journal \cup {req[r].id}
    \/ "journal" \in FaultKinds /\ UNCHANGED journal

\* os.RemoveAll of the session's temp directory: open files lose their names.
RemoveTempDir(s) ==
    /\ dir' = [dir EXCEPT ![s] = FALSE]
    /\ chunk' = [chunk EXCEPT ![s] = [i \in Idx |-> NoFile]]
    /\ staged' = [staged EXCEPT ![s] = NoSuchFile]

Unlinked(s) == [q \in Reqs |-> [req[q] EXCEPT !.linked = @ /\ req[q].id # s]]

RowExists(s) == row[s].status = "uploading"

\* Mutants: Update as an upsert; chunk numbers stored from 1 instead of 0; Delete
\* as a soft delete that only ends the session's life time.
MutantUpsert(s) == TRUE
MutantUpdateFromOne(s, uploaded) == row' = [row EXCEPT ![s].uploaded = {i + 1 : i \in uploaded}]
MutantSoftDelete(s) == row' = [row EXCEPT ![s].expired = TRUE]

\* uploadRepo.Update writes every column of the row the handler holds,
\* whatever the row holds by now; it affects no row once that is deleted.
RepoUpdateAffects(s) == RowExists(s)
RepoUpdate(s, uploaded) ==
    row' = [row EXCEPT ![s] = [@ EXCEPT !.status = "uploading", !.uploaded = uploaded]]

\* uploadRepo.Delete
RepoDelete(s) == row' = [row EXCEPT ![s].status = "deleted"]

\* FindActiveByIdentity: same user, path, size and hash, not expired
ActiveSessions(hash) ==
    {s \in Sessions : RowExists(s) /\ row[s].hash = hash /\ ~ row[s].expired}

-----------------------------------------------------------------------------
(* Init: POST /upload/init, a local source looks at the target first *)

InitGoto(r, point, hash) ==
    req' = [req EXCEPT ![r] = [NoRequest EXCEPT !.pc = point, !.hash = hash]]

InitStat(r, hash) ==
    /\ Free(r)
    /\ \/ driver = "import" /\ InitGoto(r, "initCreate", hash)
       \/ /\ driver = "local"
          /\ \/ ~ target.exists /\ InitGoto(r, "initFind", hash)
             \/ HashIs(target, hash) /\ InitGoto(r, "initCommit", hash)
             \/ target.exists /\ ~ HashIs(target, hash) /\ Answer(r, "err")
    /\ UNCHANGED <<row, disk, node, journal, faults, committed>>

\* commitUploadInitMetadataFile: the target already holds this content
InitCommit(r) ==
    /\ At(r, "initCommit")
    /\ \/ /\ node' = req[r].hash
          /\ Answer(r, "fast")
          /\ UNCHANGED <<journal, faults>>
       \/ /\ Fault("commit")
          /\ RecordFailure(r)
          /\ Answer(r, "err")
          /\ UNCHANGED node
    /\ UNCHANGED <<row, disk, committed>>

\* An active session of the same file is handed back to the client.
InitFind(r) ==
    /\ At(r, "initFind")
    /\ \/ \E s \in ActiveSessions(req[r].hash) :
            AnswerSession(r, s, row[s].uploaded)
       \/ /\ ActiveSessions(req[r].hash) = {}
          /\ Goto(r, "initCreate")
    /\ UNCHANGED <<row, disk, node, journal, faults, committed>>

InitCreate(r) ==
    /\ At(r, "initCreate")
    /\ \/ \E s \in Sessions :
            /\ row[s].status = "absent"
            /\ row' = [row EXCEPT ![s] = [status |-> "uploading", hash |-> req[r].hash,
                                          uploaded |-> {}, expired |-> FALSE]]
            /\ IF driver = "local"
               THEN req' = [req EXCEPT ![r] = [@ EXCEPT !.pc = "initMkdir", !.id = s]]
               ELSE AnswerSession(r, s, {})
            /\ UNCHANGED faults
       \/ /\ \A s \in Sessions : row[s].status # "absent"   \* bound on sessions
          /\ Answer(r, "err")
          /\ UNCHANGED <<row, faults>>
       \/ /\ Fault("db")
          /\ Answer(r, "err")
          /\ UNCHANGED row
    /\ UNCHANGED <<disk, node, journal, committed>>

InitMkdir(r) ==
    /\ At(r, "initMkdir")
    /\ \/ /\ dir' = [dir EXCEPT ![req[r].id] = TRUE]
          /\ AnswerSession(r, req[r].id, {})
          /\ UNCHANGED faults
       \/ /\ Fault("write")
          /\ Answer(r, "err")
          /\ UNCHANGED dir
    /\ UNCHANGED <<row, chunk, staged, target, node, journal, committed>>

-----------------------------------------------------------------------------
(* UploadChunk: PUT /upload/chunk *)

\* What a handler knows once FindByID has returned the row
Found(s, point, index, data) ==
    [NoRequest EXCEPT !.pc = point, !.id = s, !.hash = row[s].hash,
                      !.uploaded = row[s].uploaded, !.index = index, !.data = data]

\* FindByID and the early return of the handlers that take an upload_id
Find(r, s, point, index, data) ==
    /\ Free(r)
    /\ \/ /\ RowExists(s)
          /\ req' = [req EXCEPT ![r] = Found(s, point, index, data)]
       \/ /\ ~ RowExists(s)
          /\ Answer(r, "err")                   \* ErrUploadSessionNotFound
    /\ UNCHANGED <<row, disk, node, journal, faults, committed>>

ChunkFind(r, s, i, data) == Find(r, s, "chunkRead", i, data)

\* A chunk file that is there decides the answer; the row is not looked at.
ChunkRead(r) ==
    LET q == req[r]
        found == chunk[q.id][q.index]
    IN  /\ At(r, "chunkRead")
        /\ CASE found = q.data -> Answer(r, "ok")        \* already_uploaded
             [] found = NoFile -> Goto(r, "chunkMkdir")
             [] OTHER          -> Answer(r, "err")       \* ErrUploadChunkConflict
        /\ UNCHANGED <<row, disk, node, journal, faults, committed>>

ChunkMkdir(r) ==
    /\ At(r, "chunkMkdir")
    /\ dir' = [dir EXCEPT ![req[r].id] = TRUE]
    /\ Goto(r, "chunkOpen")
    /\ UNCHANGED <<row, chunk, staged, target, node, journal, faults, committed>>

\* os.WriteFile opens with O_CREATE|O_TRUNC ...
ChunkOpen(r) ==
    LET q == req[r]
    IN  /\ At(r, "chunkOpen")
        /\ \/ /\ dir[q.id]
              /\ chunk' = [chunk EXCEPT ![q.id] = [@ EXCEPT ![q.index] = Torn]]
              /\ req' = [req EXCEPT ![r] = [@ EXCEPT !.pc = "chunkWrite", !.linked = TRUE]]
           \/ /\ ~ dir[q.id]
              /\ Answer(r, "err")
              /\ UNCHANGED chunk
        /\ UNCHANGED <<row, dir, staged, target, node, journal, faults, committed>>

\* ... and then writes; a failed write leaves the truncated file behind.
ChunkWrite(r) ==
    LET q == req[r]
    IN  /\ At(r, "chunkWrite")
        /\ \/ /\ chunk' = IF q.linked THEN [chunk EXCEPT ![q.id] = [@ EXCEPT ![q.index] = q.data]] ELSE chunk
              /\ Goto(r, "chunkUpdate")
              /\ UNCHANGED faults
           \/ /\ Fault("write")
              /\ Answer(r, "err")
              /\ UNCHANGED chunk
        /\ UNCHANGED <<row, dir, staged, target, node, journal, committed>>

ChunkUpdate(r) ==
    LET q == req[r]
    IN  /\ At(r, "chunkUpdate")
        /\ \/ /\ RepoUpdateAffects(q.id)
              /\ RepoUpdate(q.id, q.uploaded \cup {q.index})
              /\ Answer(r, "ok")
              /\ UNCHANGED faults
           \/ /\ ~ RepoUpdateAffects(q.id)    \* RowsAffected = 0
              /\ Answer(r, "err")
              /\ UNCHANGED <<row, faults>>
           \/ /\ Fault("db")
              /\ Answer(r, "err")
              /\ UNCHANGED row
        /\ UNCHANGED <<disk, node, journal, committed>>

-----------------------------------------------------------------------------
(* Finish: POST /upload/finish *)

Complete(uploaded) == Cardinality(uploaded) >= N

FinishFind(r, s) ==
    /\ r \in Finishers
    /\ \/ /\ RowExists(s) => Complete(row[s].uploaded)
          /\ Find(r, s, IF driver = "local" THEN "finishStat" ELSE "finishCreate", 0, NoFile)
       \/ /\ Free(r)
          /\ RowExists(s) /\ ~ Complete(row[s].uploaded)  \* ErrUploadFinishIncomplete
          /\ Answer(r, "err")
          /\ UNCHANGED <<row, disk, node, journal, faults, committed>>

\* Mutant: finishLocal without its os.Stat of the target
MutantNoStat(r) ==
    /\ At(r, "finishStat")
    /\ Goto(r, "finishCreate")
    /\ UNCHANGED <<row, disk, node, journal, faults, committed>>

\* finishLocal refuses an existing target ...
FinishStat(r) ==
    /\ At(r, "finishStat")
    /\ \/ /\ ~ target.exists
          /\ Goto(r, "finishCreate")
       \/ /\ target.exists
          /\ Answer(r, "err")                             \* ErrFileAlreadyExists
    /\ UNCHANGED <<row, disk, node, journal, faults, committed>>

\* ... and os.Create truncates whatever is there by now.  The import driver's
\* output is the session's assembled-upload file, in its temp directory.
FinishCreate(r) ==
    LET q == req[r]
    IN  /\ At(r, "finishCreate")
        /\ \/ /\ driver = "local"
              /\ target' = EmptyFile
              /\ Goto(r, "finishCopy")
              /\ UNCHANGED staged
           \/ /\ driver = "import" /\ dir[q.id]
              /\ staged' = [staged EXCEPT ![q.id] = EmptyFile]
              /\ req' = [req EXCEPT ![r] = [@ EXCEPT !.pc = "finishCopy", !.linked = TRUE]]
              /\ UNCHANGED target
           \/ /\ driver = "import" /\ ~ dir[q.id]
              /\ Answer(r, "err")
              /\ UNCHANGED <<target, staged>>
        /\ UNCHANGED <<row, dir, chunk, node, journal, faults, committed>>

\* The output after data is written at slot off; a truncated chunk adds nothing.
Written(file, off, data) == [file EXCEPT !.data = [@ EXCEPT ![off] = data]]

FinishCopy(r) ==
    LET q == req[r]
        data == chunk[q.id][q.next]
    IN  /\ At(r, "finishCopy")
        /\ \/ /\ q.next < N /\ data \in Contents
              /\ target' = IF driver = "local" THEN Written(target, q.off, data) ELSE target
              /\ staged' = IF driver = "import" /\ q.linked
                           THEN [staged EXCEPT ![q.id] = Written(@, q.off, data)] ELSE staged
              /\ req' = [req EXCEPT ![r] = [@ EXCEPT !.next = q.next + 1, !.off = q.off + 1]]
              /\ UNCHANGED faults
           \/ /\ q.next < N /\ data = Torn
              /\ req' = [req EXCEPT ![r] = [@ EXCEPT !.next = q.next + 1]]
              /\ UNCHANGED <<target, staged, faults>>
           \/ /\ q.next < N /\ data = NoFile             \* ErrUploadFinishIncomplete
              /\ Answer(r, "err")
              /\ UNCHANGED <<target, staged, faults>>
           \/ /\ q.next < N /\ Fault("write")
              /\ Answer(r, "err")
              /\ UNCHANGED <<target, staged>>
           \/ /\ q.next = N
              /\ Goto(r, "finishHash")
              /\ UNCHANGED <<target, staged, faults>>
        /\ UNCHANGED <<row, dir, chunk, node, journal, committed>>

Output(r) == IF driver = "local" THEN target ELSE staged[req[r].id]

FinishHash(r) ==
    LET accepted == Output(r).exists /\ (req[r].hash = NoHash \/ HashIs(Output(r), req[r].hash))
    IN  /\ At(r, "finishHash")
        /\ \/ /\ accepted
              /\ Goto(r, IF driver = "local" THEN "finishCommit" ELSE "finishImport")
           \/ /\ ~ accepted                               \* ErrUploadHashMismatch
              /\ Answer(r, "err")
        /\ UNCHANGED <<row, disk, node, journal, faults, committed>>

\* driver.ImportFile: refuses an existing name, needs the staged file
FinishImport(r) ==
    LET q == req[r]
    IN  /\ At(r, "finishImport")
        /\ \/ /\ ~ target.exists /\ staged[q.id].exists
              /\ target' = staged[q.id]
              /\ Goto(r, "finishCommit")
           \/ /\ target.exists \/ ~ staged[q.id].exists
              /\ Answer(r, "err")
              /\ UNCHANGED target
        /\ UNCHANGED <<row, dir, chunk, staged, node, journal, faults, committed>>

\* Mutant: a failed commit is recorded and Finish goes on.
MutantBestEffortCommit(r) ==
    LET q == req[r]
    IN  /\ At(r, "finishCommit")
        /\ \/ /\ node' = q.hash
              /\ committed' = [committed EXCEPT ![q.id] = TRUE]
              /\ UNCHANGED <<journal, faults>>
           \/ /\ Fault("commit")
              /\ RecordFailure(r)
              /\ UNCHANGED <<node, committed>>
        /\ Goto(r, "finishRemove")
        /\ UNCHANGED <<row, disk>>

\* commitUploadSessionMetadataFile
FinishCommit(r) ==
    LET q == req[r]
    IN  /\ At(r, "finishCommit")
        /\ \/ /\ node' = q.hash
              /\ committed' = [committed EXCEPT ![q.id] = TRUE]
              /\ Goto(r, "finishRemove")
              /\ UNCHANGED <<journal, faults>>
           \/ /\ Fault("commit")
              /\ RecordFailure(r)
              /\ Answer(r, "err")
              /\ UNCHANGED <<node, committed>>
        /\ UNCHANGED <<row, disk>>

FinishRemove(r) ==
    /\ At(r, "finishRemove")
    /\ RemoveTempDir(req[r].id)
    /\ req' = [Unlinked(req[r].id) EXCEPT ![r].pc = "finishDelete"]
    /\ UNCHANGED <<row, target, node, journal, faults, committed>>

\* The result of Delete is ignored.
FinishDelete(r) ==
    /\ At(r, "finishDelete")
    /\ \/ RepoDelete(req[r].id) /\ UNCHANGED faults
       \/ Fault("db") /\ UNCHANGED row
    /\ Answer(r, "ok")
    /\ UNCHANGED <<disk, node, journal, committed>>

-----------------------------------------------------------------------------
(* Cancel: DELETE /upload/:id *)

CancelFind(r, s) == Find(r, s, "cancelDelete", 0, NoFile)

CancelDelete(r) ==
    /\ At(r, "cancelDelete")
    /\ \/ /\ RowExists(req[r].id)
          /\ RepoDelete(req[r].id)
          /\ Goto(r, "cancelRemove")
          /\ UNCHANGED faults
       \/ /\ ~ RowExists(req[r].id)
          /\ Answer(r, "err")
          /\ UNCHANGED <<row, faults>>
       \/ /\ Fault("db")
          /\ Answer(r, "err")
          /\ UNCHANGED row
    /\ UNCHANGED <<disk, node, journal, committed>>

CancelRemove(r) ==
    /\ At(r, "cancelRemove")
    /\ RemoveTempDir(req[r].id)
    /\ req' = [Unlinked(req[r].id) EXCEPT ![r] = [NoRequest EXCEPT !.pc = "ok"]]
    /\ UNCHANGED <<row, target, node, journal, faults, committed>>

-----------------------------------------------------------------------------
(* The environment *)

\* Seven days pass: the session is no longer resumed, and nothing else looks.
Expire(s) ==
    /\ RowExists(s) /\ ~ row[s].expired
    /\ row' = [row EXCEPT ![s].expired = TRUE]
    /\ UNCHANGED <<disk, node, journal, req, faults, committed>>

\* The process dies; tables and files stay, there is no recovery at start.
Crash ==
    /\ Fault("crash")
    /\ req' = [r \in Reqs |-> [NoRequest EXCEPT !.pc = "err"]]
    /\ UNCHANGED <<row, disk, node, journal, committed>>

\* A request arrives ...
Begin(r) ==
    \/ \E h \in Hashes : InitStat(r, h)
    \/ \E s \in Sessions : \E i \in Idx : \E d \in Contents : ChunkFind(r, s, i, d)
    \/ \E s \in Sessions : FinishFind(r, s) \/ CancelFind(r, s)

\* ... and its handler takes its next step.
Continue(r) ==
    \/ InitCommit(r) \/ InitFind(r) \/ InitCreate(r) \/ InitMkdir(r)
    \/ ChunkRead(r) \/ ChunkMkdir(r) \/ ChunkOpen(r) \/ ChunkWrite(r) \/ ChunkUpdate(r)
    \/ FinishStat(r) \/ FinishCreate(r) \/ FinishCopy(r) \/ FinishHash(r)
    \/ FinishImport(r) \/ FinishCommit(r) \/ FinishRemove(r) \/ FinishDelete(r)
    \/ CancelDelete(r) \/ CancelRemove(r)

Next ==
    /\ \/ \E r \in Reqs : Begin(r) \/ Continue(r)
       \/ \E s \in Sessions : Expire(s)
       \/ Crash
    /\ UNCHANGED driver

Spec == Init /\ [][Next]_vars

-----------------------------------------------------------------------------
(* What the service owes its clients *)

\* A chunk that a live session lists has its file in the temp directory, unless
\* the session's own Finish has already committed the file.  So a resumed
\* session, whose client skips the chunks that Init reports, has lost nothing
\* to a Cancel, a late UploadChunk or a crash.
ListedChunksOnDisk ==
    \A s \in Sessions :
        RowExists(s) /\ ~ committed[s] =>
            \A i \in row[s].uploaded : chunk[s][i] # NoFile

\* The committed node describes the bytes on the storage source: the checksum
\* that Finish or the fast upload recorded is the checksum of the file.
\* It needs Finish requests to be served one at a time.
CommittedFileMatches ==
    node # NoNode =>
        /\ target.exists
        /\ node # NoHash => \A k \in Idx : target.data[k] = node

\* finishLocal answers ErrFileAlreadyExists for a target that exists: once a
\* file has been committed no upload changes its bytes.
NoOverwrite == [][node # NoNode => target' = target]_vars

\* A deleted session stays deleted: an UploadChunk that read the row before a
\* Cancel or a Finish deleted it does not write it back.
DeletedStaysDeleted ==
    [][\A s \in Sessions : row[s].status = "deleted" => row'[s].status = "deleted"]_vars
=============================================================================
