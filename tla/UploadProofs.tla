---------------------------- MODULE UploadProofs ----------------------------
(***************************************************************************)
(* Proofs about UploadSession, and about UploadClient on top of it, for    *)
(* any number of handlers, sessions, file versions, chunks and faults, and *)
(* for both drivers.                                                       *)
(***************************************************************************)
EXTENDS UploadClient, TLAPS

\* Two handler records with the same arguments and the same copy of the row.
SameSession(p, q) ==
    /\ p.id = q.id
    /\ p.hash = q.hash
    /\ p.uploaded = q.uploaded
    /\ p.index = q.index
    /\ p.data = q.data

\* A session's temp directory may go: its row is deleted or its file committed.
Gone(s) == row[s].status = "deleted" \/ committed[s]

\* What holds of a handler between its steps.
HandlerOK(r) ==
    LET q == req[r]
    IN  /\ q.pc \in SessionPoints => q.id \in Sessions
        /\ q.pc \in ChunkPoints =>
              /\ row[q.id].status # "absent" /\ q.data # NoFile
              /\ Gone(q.id) \/ \A i \in q.uploaded : chunk[q.id][i] # NoFile
        /\ q.pc \in {"chunkWrite", "chunkUpdate"} => Gone(q.id) \/ chunk[q.id][q.index] # NoFile
        /\ q.pc \in {"finishRemove", "cancelRemove"} => Gone(q.id)

\* The inductive invariant behind ListedChunksOnDisk: the row a handler read
\* lists only chunks that are on disk, because UploadChunk writes the file
\* before the row and RemoveAll comes after Delete or after the commit.
FileInv ==
    /\ \A r \in Reqs : HandlerOK(r)
    /\ ListedChunksOnDisk

-----------------------------------------------------------------------------
(* The records the handlers keep *)

\* An empty handler record, and what its fields hold once a handler has
\* answered (Answer).
LEMMA NoRequestType ==
    /\ NoRequest \in Request
    /\ NoRequest.pc = "idle" /\ NoRequest.id = NoSession /\ NoRequest.uploaded = {}
  BY UploadAssumption DEF NoRequest, Request, Points, Done, Idx

\* Updating one field of a handler record within its type (Goto).
LEMMA PcUpdate ==
    ASSUME NEW q \in Request, NEW point \in Points
    PROVE  /\ [q EXCEPT !.pc = point] \in Request
           /\ [q EXCEPT !.pc = point].pc = point
           /\ [q EXCEPT !.pc = point].id = q.id
           /\ [q EXCEPT !.pc = point].hash = q.hash
           /\ [q EXCEPT !.pc = point].uploaded = q.uploaded
           /\ [q EXCEPT !.pc = point].index = q.index
           /\ [q EXCEPT !.pc = point].data = q.data
           /\ [q EXCEPT !.pc = point].next = q.next
           /\ [q EXCEPT !.pc = point].off = q.off
  BY DEF Request

\* What the record holds when Find has started a handler.
LEMMA FoundRecord ==
    ASSUME StateOK, NEW s \in Sessions, NEW point \in Points, NEW i \in Idx,
           NEW d \in Contents \cup {NoFile}
    PROVE  /\ Found(s, point, i, d) \in Request
           /\ Found(s, point, i, d).pc = point
           /\ Found(s, point, i, d).id = s
           /\ Found(s, point, i, d).uploaded = row[s].uploaded
           /\ Found(s, point, i, d).data = d
<1>1. row[s].hash \in Contents \cup {NoHash} /\ row[s].uploaded \in SUBSET Idx
  BY DEF StateOK, Row
<1>. QED
  BY <1>1, NoRequestType DEF Found, Request

\* The record of a handler that answers with a session (AnswerSession).
LEMMA SessionRecord ==
    ASSUME NEW s \in Sessions \cup {NoSession}, NEW u \in SUBSET Idx
    PROVE  /\ [NoRequest EXCEPT !.pc = "ok", !.id = s, !.uploaded = u] \in Request
           /\ [NoRequest EXCEPT !.pc = "ok", !.id = s, !.uploaded = u].pc = "ok"
  BY NoRequestType, ZenonT(60) DEF Request, Points, Done

\* The record of an Init handler that has begun (InitGoto).
LEMMA InitRecord ==
    ASSUME NEW point \in Points, NEW h \in Contents \cup {NoHash}
    PROVE  /\ [NoRequest EXCEPT !.pc = point, !.hash = h] \in Request
           /\ [NoRequest EXCEPT !.pc = point, !.hash = h].pc = point
           /\ [NoRequest EXCEPT !.pc = point, !.hash = h].hash = h
  BY NoRequestType DEF Request

\* Updating a function at a point that may lie outside its domain.
LEMMA UpdateType ==
    ASSUME NEW S, NEW T, NEW f \in [S -> T], NEW k, NEW v, k \in S => v \in T
    PROVE  [f EXCEPT ![k] = v] \in [S -> T]
  OBVIOUS

-----------------------------------------------------------------------------
(* Type correctness *)

LEMMA TypeInit == Init => StateOK
  BY UploadAssumption, NoRequestType
  DEF Init, StateOK, Row, File, NoSuchFile, Idx

\* What the four ways of moving a handler do to the handler records.
LEMMA AnswerType ==
    ASSUME StateOK, NEW r \in Reqs, NEW code \in Done, Answer(r, code)
    PROVE  /\ req' \in [Reqs -> Request]
           /\ req'[r].pc = code
           /\ \A q \in Reqs \ {r} : req'[q] = req[q]
<1>1. /\ [NoRequest EXCEPT !.pc = code] \in Request
      /\ [NoRequest EXCEPT !.pc = code].pc = code
  BY NoRequestType, PcUpdate DEF Points
<1>. QED
  BY <1>1 DEF StateOK, Answer

LEMMA GotoType ==
    ASSUME StateOK, NEW r \in Reqs, NEW point \in Points, Goto(r, point)
    PROVE  /\ req' \in [Reqs -> Request]
           /\ req'[r].pc = point
           /\ SameSession(req'[r], req[r])
           /\ req'[r].next = req[r].next
           /\ req'[r].off = req[r].off
           /\ \A q \in Reqs \ {r} : req'[q] = req[q]
<1>1. /\ req[r] \in Request
      /\ [req[r] EXCEPT !.pc = point] \in Request
      /\ [req[r] EXCEPT !.pc = point].pc = point
      /\ SameSession([req[r] EXCEPT !.pc = point], req[r])
      /\ [req[r] EXCEPT !.pc = point].next = req[r].next
      /\ [req[r] EXCEPT !.pc = point].off = req[r].off
  BY PcUpdate DEF StateOK, SameSession
<1>. QED
  BY <1>1 DEF StateOK, Goto

LEMMA AnswerSessionType ==
    ASSUME StateOK, NEW r \in Reqs, NEW s \in Sessions \cup {NoSession},
           NEW u \in SUBSET Idx, AnswerSession(r, s, u)
    PROVE  /\ req' \in [Reqs -> Request]
           /\ req'[r].pc = "ok"
           /\ \A q \in Reqs \ {r} : req'[q] = req[q]
<1>1. /\ [NoRequest EXCEPT !.pc = "ok", !.id = s, !.uploaded = u] \in Request
      /\ [NoRequest EXCEPT !.pc = "ok", !.id = s, !.uploaded = u].pc = "ok"
  BY SessionRecord
<1>. QED
  BY <1>1 DEF StateOK, AnswerSession

LEMMA InitGotoType ==
    ASSUME StateOK, NEW r \in Reqs, NEW point \in Points, NEW h \in Hashes,
           InitGoto(r, point, h)
    PROVE  /\ req' \in [Reqs -> Request]
           /\ req'[r].pc = point
           /\ req'[r].hash = h
           /\ \A q \in Reqs \ {r} : req'[q] = req[q]
<1>1. /\ [NoRequest EXCEPT !.pc = point, !.hash = h] \in Request
      /\ [NoRequest EXCEPT !.pc = point, !.hash = h].pc = point
      /\ [NoRequest EXCEPT !.pc = point, !.hash = h].hash = h
  BY InitRecord, UploadAssumption
<1>. QED
  BY <1>1 DEF InitGoto, StateOK

LEMMA FindType ==
    ASSUME StateOK, NEW r \in Reqs, NEW s \in Sessions, NEW point \in Points,
           NEW i \in Idx, NEW d \in Contents \cup {NoFile}, Find(r, s, point, i, d)
    PROVE  StateOK'
<1>1. req' \in [Reqs -> Request]
  BY FoundRecord, AnswerType, SMTT(150) DEF StateOK, Find, Done
<1>. QED
  BY <1>1 DEF StateOK, Find, disk

LEMMA InitStatType ==
    ASSUME StateOK, NEW r \in Reqs, NEW h \in Hashes, InitStat(r, h)
    PROVE  StateOK'
<1>2. {"initCreate", "initFind", "initCommit"} \subseteq Points
  BY DEF Points, InitPoints
<1>3. req' \in [Reqs -> Request]
  BY <1>2, AnswerType, InitGotoType DEF InitStat, Done
<1>. QED
  BY <1>3 DEF StateOK, InitStat, disk

LEMMA FaultType ==
    ASSUME StateOK, NEW kind, Fault(kind)
    PROVE  faults' \in 0 .. MaxFaults
  BY UploadAssumption DEF StateOK, Fault

\* The handlers that start or end with Answer, AnswerSession or Goto.
LEMMA InitHandlerType ==
    ASSUME StateOK, NEW r \in Reqs,
           InitCommit(r) \/ InitFind(r) \/ InitCreate(r) \/ InitMkdir(r)
    PROVE  StateOK'
<1>1. CASE InitCommit(r)
  <2>1. req[r] \in Request
    BY DEF StateOK
  <2>2. req' \in [Reqs -> Request]
    BY <1>1, AnswerType DEF InitCommit, Done
  <2>3. faults' \in 0 .. MaxFaults
    BY <1>1, FaultType DEF InitCommit, StateOK
  <2>. QED
    BY <1>1, <2>1, <2>2, <2>3 DEF InitCommit, RecordFailure, StateOK, Request, disk
<1>2. CASE InitFind(r)
  <2>1. ASSUME NEW s \in Sessions PROVE row[s].uploaded \in SUBSET Idx
    BY DEF StateOK, Row
  <2>2. req' \in [Reqs -> Request]
    BY <1>2, <2>1, AnswerSessionType, GotoType
    DEF InitFind, ActiveSessions, Points, InitPoints
  <2>. QED
    BY <1>2, <2>2 DEF InitFind, StateOK, disk
<1>3. CASE InitCreate(r)
  <2>1. req[r] \in Request
    BY DEF StateOK
  <2>2. faults' \in 0 .. MaxFaults
    BY <1>3, FaultType DEF InitCreate, StateOK
  <2>3. row' \in [Sessions -> Row]
    <3>1. [status |-> "uploading", hash |-> req[r].hash, uploaded |-> {}, expired |-> FALSE]
            \in Row
      BY <2>1 DEF Row, Request
    <3>. QED
      BY <1>3, <3>1 DEF InitCreate, StateOK
  <2>4. ASSUME NEW s \in Sessions,
               req' = [req EXCEPT ![r] = [@ EXCEPT !.pc = "initMkdir", !.id = s]]
        PROVE  req' \in [Reqs -> Request]
    <3>1. [req[r] EXCEPT !.pc = "initMkdir", !.id = s] \in Request
      BY <2>1 DEF Request, Points, InitPoints
    <3>. QED
      BY <2>4, <3>1 DEF StateOK
  <2>5. req' \in [Reqs -> Request]
    <3>1. {} \in SUBSET Idx /\ "err" \in Done
      BY DEF Done
    <3>. QED
      BY <1>3, <2>4, <3>1, AnswerType, AnswerSessionType DEF InitCreate
  <2>. QED
    BY <1>3, <2>2, <2>3, <2>5 DEF InitCreate, StateOK, disk
<1>4. CASE InitMkdir(r)
  <2>1. req[r].id \in Sessions \cup {NoSession}
    BY DEF StateOK, Request
  <2>2. req' \in [Reqs -> Request]
    BY <1>4, <2>1, AnswerType, AnswerSessionType DEF InitMkdir, Done
  <2>3. faults' \in 0 .. MaxFaults
    BY <1>4, FaultType DEF InitMkdir, StateOK
  <2>4. dir' \in [Sessions -> BOOLEAN]
    BY <1>4 DEF InitMkdir, StateOK
  <2>. QED
    BY <1>4, <2>2, <2>3, <2>4 DEF InitMkdir, StateOK
<1>. QED
  BY <1>1, <1>2, <1>3, <1>4

LEMMA RowUpdate ==
    ASSUME StateOK, NEW s, NEW u \in SUBSET Idx, RepoUpdate(s, u)
    PROVE  row' \in [Sessions -> Row]
<1>0. s \in Sessions => row[s] \in Row
  BY DEF StateOK
<1>1. s \in Sessions => [row[s] EXCEPT !.status = "uploading", !.uploaded = u] \in Row
  BY <1>0 DEF Row
<1>2. [row EXCEPT ![s] = [row[s] EXCEPT !.status = "uploading", !.uploaded = u]]
        \in [Sessions -> Row]
  BY <1>1, UpdateType DEF StateOK
<1>. QED
  BY <1>2 DEF RepoUpdate

LEMMA RowDelete ==
    ASSUME StateOK, NEW s, RepoDelete(s)
    PROVE  row' \in [Sessions -> Row]
<1>0. s \in Sessions => row[s] \in Row
  BY DEF StateOK
<1>1. s \in Sessions => [row[s] EXCEPT !.status = "deleted"] \in Row
  BY <1>0 DEF Row
<1>2. [row EXCEPT ![s] = [row[s] EXCEPT !.status = "deleted"]] \in [Sessions -> Row]
  BY <1>1, UpdateType DEF StateOK
<1>. QED
  BY <1>2 DEF RepoDelete

LEMMA ChunkHandlerType ==
    ASSUME StateOK, NEW r \in Reqs,
           ChunkRead(r) \/ ChunkMkdir(r) \/ ChunkOpen(r) \/ ChunkWrite(r) \/ ChunkUpdate(r)
    PROVE  StateOK'
<1>. DEFINE q == req[r]
<1>0. q \in Request
  BY DEF StateOK
<1>1. CASE ChunkRead(r)
  <2>1. req' \in [Reqs -> Request]
    BY <1>1, AnswerType, GotoType DEF ChunkRead, Done, Points, ChunkPoints
  <2>. QED
    BY <1>1, <2>1 DEF ChunkRead, StateOK, disk
<1>2. CASE ChunkMkdir(r)
  <2>1. req' \in [Reqs -> Request]
    BY <1>2, GotoType DEF ChunkMkdir, Points, ChunkPoints
  <2>. QED
    BY <1>2, <2>1 DEF ChunkMkdir, StateOK
<1>3. CASE ChunkOpen(r)
  <2>1. [q EXCEPT !.pc = "chunkWrite", !.linked = TRUE] \in Request
    BY <1>0 DEF Request, Points, ChunkPoints
  <2>2. req' \in [Reqs -> Request]
    <3>1. CASE req' = [req EXCEPT ![r] = [@ EXCEPT !.pc = "chunkWrite", !.linked = TRUE]]
      BY <3>1, <2>1 DEF StateOK
    <3>2. CASE Answer(r, "err")
      BY <3>2, AnswerType DEF Done
    <3>. QED
      BY <1>3, <3>1, <3>2 DEF ChunkOpen
  <2>3. chunk' \in [Sessions -> [Idx -> Contents \cup {Torn, NoFile}]]
    <3>1. q.id \in Sessions => [chunk[q.id] EXCEPT ![q.index] = Torn]
                                  \in [Idx -> Contents \cup {Torn, NoFile}]
      BY DEF StateOK
    <3>2. [chunk EXCEPT ![q.id] = [chunk[q.id] EXCEPT ![q.index] = Torn]]
            \in [Sessions -> [Idx -> Contents \cup {Torn, NoFile}]]
      BY <3>1, UpdateType DEF StateOK
    <3>. QED
      BY <1>3, <3>2 DEF ChunkOpen, StateOK
  <2>. QED
    BY <1>3, <2>2, <2>3 DEF ChunkOpen, StateOK
<1>4. CASE ChunkWrite(r)
  <2>1. req' \in [Reqs -> Request]
    BY <1>4, AnswerType, GotoType DEF ChunkWrite, Done, Points, ChunkPoints
  <2>2. faults' \in 0 .. MaxFaults
    BY <1>4, FaultType DEF ChunkWrite, StateOK
  <2>3. chunk' \in [Sessions -> [Idx -> Contents \cup {Torn, NoFile}]]
    <3>0. q.data \in Contents \cup {Torn, NoFile}
      BY <1>0 DEF Request
    <3>1. q.id \in Sessions => [chunk[q.id] EXCEPT ![q.index] = q.data]
                                  \in [Idx -> Contents \cup {Torn, NoFile}]
      BY <3>0 DEF StateOK
    <3>2. [chunk EXCEPT ![q.id] = [chunk[q.id] EXCEPT ![q.index] = q.data]]
            \in [Sessions -> [Idx -> Contents \cup {Torn, NoFile}]]
      BY <3>1, UpdateType DEF StateOK
    <3>. QED
      BY <1>4, <3>2 DEF ChunkWrite, StateOK
  <2>. QED
    BY <1>4, <2>1, <2>2, <2>3 DEF ChunkWrite, StateOK
<1>5. CASE ChunkUpdate(r)
  <2>1. req' \in [Reqs -> Request]
    BY <1>5, AnswerType DEF ChunkUpdate, Done
  <2>2. faults' \in 0 .. MaxFaults
    BY <1>5, FaultType DEF ChunkUpdate, StateOK
  <2>3. row' \in [Sessions -> Row]
    <3>1. q.uploaded \cup {q.index} \in SUBSET Idx
      BY <1>0 DEF Request
    <3>2. RepoUpdate(q.id, q.uploaded \cup {q.index}) => row' \in [Sessions -> Row]
      BY <3>1, RowUpdate
    <3>. QED
      BY <1>5, <3>2 DEF ChunkUpdate, StateOK
  <2>. QED
    BY <1>5, <2>1, <2>2, <2>3 DEF ChunkUpdate, StateOK, disk
<1>. QED
  BY <1>1, <1>2, <1>3, <1>4, <1>5

LEMMA EmptyFileType == EmptyFile \in File /\ NoSuchFile \in File
  BY DEF EmptyFile, NoSuchFile, File

LEMMA WrittenType ==
    ASSUME NEW f \in File, NEW off, NEW d \in Contents
    PROVE  Written(f, off, d) \in File
<1>1. f.data \in [Idx -> Contents \cup {Gap}]
  BY DEF File
<1>2. [f.data EXCEPT ![off] = d] \in [Idx -> Contents \cup {Gap}]
  BY <1>1, UpdateType
<1>. QED
  BY <1>2 DEF Written, File

\* RemoveTempDir and the file descriptors it cuts off
LEMMA RemoveType ==
    ASSUME StateOK, NEW s, RemoveTempDir(s)
    PROVE  /\ dir' \in [Sessions -> BOOLEAN]
           /\ chunk' \in [Sessions -> [Idx -> Contents \cup {Torn, NoFile}]]
           /\ staged' \in [Sessions -> File]
           /\ Unlinked(s) \in [Reqs -> Request]
<1>1. ASSUME NEW q \in Reqs PROVE [req[q] EXCEPT !.linked = @ /\ req[q].id # s] \in Request
  <2>1. req[q] \in Request
    BY DEF StateOK
  <2>2. (req[q].linked /\ req[q].id # s) \in BOOLEAN
    OBVIOUS
  <2>. QED
    BY <2>1, <2>2 DEF Request
<1>2. Unlinked(s) \in [Reqs -> Request]
  BY <1>1 DEF Unlinked
<1>. QED
  BY <1>2, EmptyFileType DEF StateOK, RemoveTempDir

LEMMA FinishHandlerType ==
    ASSUME StateOK, FileInv, NEW r \in Reqs,
           \/ FinishStat(r) \/ FinishCreate(r) \/ FinishCopy(r) \/ FinishHash(r)
           \/ FinishImport(r) \/ FinishCommit(r) \/ FinishRemove(r) \/ FinishDelete(r)
    PROVE  StateOK'
<1>. DEFINE q == req[r]
<1>0. q \in Request
  BY DEF StateOK
<1>a. "err" \in Done /\ "ok" \in Done /\ FinishPoints \subseteq Points
  BY DEF Done, Points
<1>1. CASE FinishStat(r)
  <2>1. req' \in [Reqs -> Request]
    BY <1>1, <1>a, AnswerType, GotoType DEF FinishStat, FinishPoints
  <2>. QED
    BY <1>1, <2>1 DEF FinishStat, StateOK, disk
<1>2. CASE FinishCreate(r)
  <2>1. [q EXCEPT !.pc = "finishCopy", !.linked = TRUE] \in Request
    BY <1>0 DEF Request, Points, FinishPoints
  <2>2. req' \in [Reqs -> Request]
    <3>1. CASE req' = [req EXCEPT ![r] = [@ EXCEPT !.pc = "finishCopy", !.linked = TRUE]]
      BY <3>1, <2>1 DEF StateOK
    <3>2. CASE Answer(r, "err") \/ Goto(r, "finishCopy")
      BY <3>2, <1>a, AnswerType, GotoType DEF FinishPoints
    <3>. QED
      BY <1>2, <3>1, <3>2 DEF FinishCreate
  <2>3. staged' \in [Sessions -> File] /\ target' \in File
    BY <1>2, EmptyFileType DEF FinishCreate, StateOK
  <2>. QED
    BY <1>2, <2>2, <2>3 DEF FinishCreate, StateOK
<1>3. CASE FinishCopy(r)
  <2>. DEFINE data == chunk[q.id][q.next]
  <2>1. faults' \in 0 .. MaxFaults
    BY <1>3, FaultType DEF FinishCopy, StateOK
  <2>2. target' \in File
    BY <1>3, WrittenType, SMTT(60) DEF FinishCopy, StateOK
  <2>3. staged' \in [Sessions -> File]
    <3>1. data \in Contents => (q.id \in Sessions => Written(staged[q.id], q.off, data) \in File)
      BY WrittenType DEF StateOK
    <3>2. data \in Contents =>
            [staged EXCEPT ![q.id] = Written(staged[q.id], q.off, data)] \in [Sessions -> File]
      BY <3>1, UpdateType DEF StateOK
    <3>. QED
      BY <1>3, <3>2 DEF FinishCopy, StateOK
  <2>4. req' \in [Reqs -> Request]
    <3>1. CASE q.next < N
      <4>1. /\ [q EXCEPT !.next = q.next + 1, !.off = q.off + 1] \in Request
            /\ [q EXCEPT !.next = q.next + 1] \in Request
        <5>1. q.next + 1 \in 0 .. N /\ q.off + 1 \in Nat
          BY <1>0, <3>1, UploadAssumption DEF Request
        <5>. QED
          BY <1>0, <5>1 DEF Request
      <4>2. CASE req' = [req EXCEPT ![r] = [@ EXCEPT !.next = q.next + 1, !.off = q.off + 1]]
        BY <4>1, <4>2 DEF StateOK
      <4>3. CASE req' = [req EXCEPT ![r] = [@ EXCEPT !.next = q.next + 1]]
        BY <4>1, <4>3 DEF StateOK
      <4>4. CASE Answer(r, "err")
        BY <4>4, <1>a, AnswerType, SMTT(60)
      <4>. QED
        BY <1>3, <3>1, <4>2, <4>3, <4>4, <1>0 DEF FinishCopy, Request
    <3>2. CASE ~ q.next < N
      BY <1>3, <3>2, <1>a, GotoType DEF FinishCopy, FinishPoints
    <3>. QED
      BY <3>1, <3>2, SMTT(60)
  <2>. QED
    BY <1>3, <2>1, <2>2, <2>3, <2>4 DEF FinishCopy, StateOK
<1>4. CASE FinishHash(r)
  <2>1. req' \in [Reqs -> Request]
    BY <1>4, <1>a, AnswerType, GotoType DEF FinishHash, FinishPoints
  <2>. QED
    BY <1>4, <2>1 DEF FinishHash, StateOK, disk
<1>5. CASE FinishImport(r)
  <2>1. req' \in [Reqs -> Request]
    BY <1>5, <1>a, AnswerType, GotoType DEF FinishImport, FinishPoints
  <2>2. q.id \in Sessions
    BY <1>5 DEF FinishImport, At, FileInv, HandlerOK, SessionPoints, FinishPoints
  <2>3. target' \in File
    BY <1>5, <2>2 DEF FinishImport, StateOK
  <2>. QED
    BY <1>5, <2>1, <2>3 DEF FinishImport, StateOK
<1>6. CASE FinishCommit(r)
  <2>1. req' \in [Reqs -> Request]
    BY <1>6, <1>a, AnswerType, GotoType DEF FinishCommit, FinishPoints
  <2>2. faults' \in 0 .. MaxFaults
    BY <1>6, FaultType DEF FinishCommit, StateOK
  <2>3. /\ node' \in Contents \cup {NoHash, NoNode}
        /\ journal' \in SUBSET (Sessions \cup {NoSession})
        /\ committed' \in [Sessions -> BOOLEAN]
    BY <1>0, <1>6, ZenonT(60) DEF FinishCommit, RecordFailure, StateOK, Request
  <2>. QED
    BY <1>6, <2>1, <2>2, <2>3 DEF FinishCommit, StateOK, disk
<1>7. CASE FinishRemove(r)
  <2>1. Unlinked(q.id) \in [Reqs -> Request]
    BY <1>7, RemoveType DEF FinishRemove
  <2>2. [Unlinked(q.id)[r] EXCEPT !.pc = "finishDelete"] \in Request
    BY <2>1, <1>a, PcUpdate DEF FinishPoints
  <2>3. req' \in [Reqs -> Request]
    BY <1>7, <2>1, <2>2 DEF FinishRemove
  <2>. QED
    BY <1>7, <2>3, RemoveType DEF FinishRemove, StateOK
<1>8. CASE FinishDelete(r)
  <2>1. req' \in [Reqs -> Request]
    BY <1>8, <1>a, AnswerType DEF FinishDelete
  <2>2. faults' \in 0 .. MaxFaults
    BY <1>8, FaultType DEF FinishDelete, StateOK
  <2>3. row' \in [Sessions -> Row]
    BY <1>8, RowDelete DEF FinishDelete, StateOK
  <2>. QED
    BY <1>8, <2>1, <2>2, <2>3 DEF FinishDelete, StateOK, disk
<1>. QED
  BY <1>1, <1>2, <1>3, <1>4, <1>5, <1>6, <1>7, <1>8

LEMMA CancelHandlerType ==
    ASSUME StateOK, NEW r \in Reqs, CancelDelete(r) \/ CancelRemove(r)
    PROVE  StateOK'
<1>a. "err" \in Done /\ "ok" \in Done /\ "cancelRemove" \in Points
  BY DEF Done, Points, CancelPoints
<1>1. CASE CancelDelete(r)
  <2>1. req' \in [Reqs -> Request]
    BY <1>1, <1>a, AnswerType, GotoType DEF CancelDelete
  <2>2. faults' \in 0 .. MaxFaults
    BY <1>1, FaultType DEF CancelDelete, StateOK
  <2>3. row' \in [Sessions -> Row]
    BY <1>1, RowDelete DEF CancelDelete, StateOK
  <2>. QED
    BY <1>1, <2>1, <2>2, <2>3 DEF CancelDelete, StateOK, disk
<1>2. CASE CancelRemove(r)
  <2>1. Unlinked(req[r].id) \in [Reqs -> Request]
    BY <1>2, RemoveType DEF CancelRemove
  <2>2. [NoRequest EXCEPT !.pc = "ok"] \in Request
    BY NoRequestType, PcUpdate DEF Points, Done
  <2>3. req' \in [Reqs -> Request]
    BY <1>2, <2>1, <2>2 DEF CancelRemove
  <2>. QED
    BY <1>2, <2>3, RemoveType DEF CancelRemove, StateOK
<1>. QED
  BY <1>1, <1>2

LEMMA EnvironmentType ==
    ASSUME StateOK, (\E s \in Sessions : Expire(s)) \/ Crash
    PROVE  StateOK'
<1>1. ASSUME NEW s \in Sessions, Expire(s) PROVE StateOK'
  <2>1. row[s] \in Row
    BY DEF StateOK
  <2>2. [row[s] EXCEPT !.expired = TRUE] \in Row
    BY <2>1 DEF Row
  <2>. QED
    BY <1>1, <2>2 DEF Expire, StateOK, disk
<1>2. CASE Crash
  <2>1. [NoRequest EXCEPT !.pc = "err"] \in Request
    BY NoRequestType, PcUpdate DEF Points, Done
  <2>. QED
    BY <1>2, <2>1, FaultType DEF Crash, StateOK, disk
<1>. QED
  BY <1>1, <1>2

LEMMA TypeStep ==
    ASSUME StateOK, FileInv, [Next]_vars
    PROVE  StateOK'
<1>1. CASE UNCHANGED vars
  BY <1>1 DEF StateOK, vars
<1>2. ASSUME NEW r \in Reqs, Begin(r) PROVE StateOK'
  <2>0. ChunkPoints \cup FinishPoints \cup CancelPoints \subseteq Points /\ 0 \in Idx
    BY UploadAssumption DEF Points, Idx
  <2>1. ASSUME NEW h \in Hashes, InitStat(r, h) PROVE StateOK'
    BY <2>1, InitStatType
  <2>2. ASSUME NEW s \in Sessions, NEW i \in Idx, NEW d \in Contents, ChunkFind(r, s, i, d)
        PROVE  StateOK'
    BY <2>0, <2>2, FindType DEF ChunkFind, ChunkPoints
  <2>3. ASSUME NEW s \in Sessions, FinishFind(r, s) PROVE StateOK'
    <3>1. CASE Find(r, s, IF driver = "local" THEN "finishStat" ELSE "finishCreate", 0, NoFile)
      BY <2>0, <3>1, FindType DEF FinishPoints
    <3>2. CASE Answer(r, "err") /\ UNCHANGED <<row, disk, node, journal, faults, committed>>
      BY <3>2, AnswerType DEF StateOK, disk, Done
    <3>. QED
      BY <2>3, <3>1, <3>2 DEF FinishFind
  <2>4. ASSUME NEW s \in Sessions, CancelFind(r, s) PROVE StateOK'
    BY <2>0, <2>4, FindType DEF CancelFind, CancelPoints
  <2>. QED
    BY <1>2, <2>1, <2>2, <2>3, <2>4 DEF Begin
<1>3. ASSUME NEW r \in Reqs, Continue(r) PROVE StateOK'
  BY <1>3, InitHandlerType, ChunkHandlerType, FinishHandlerType, CancelHandlerType
  DEF Continue
<1>. QED
  BY <1>1, <1>2, <1>3, EnvironmentType DEF Next

-----------------------------------------------------------------------------
(* The files of a live session *)

\* What no step takes back: a session stays gone, its row stays known, and
\* until it is gone a chunk file that exists keeps its name.
Frame ==
    \A s \in Sessions :
        /\ Gone(s) => Gone(s)'
        /\ row[s].status # "absent" => row'[s].status # "absent"
        /\ ~ Gone(s)' => \A i \in Idx : chunk[s][i] # NoFile => chunk'[s][i] # NoFile

LEMMA FileInit == Init => FileInv
  BY NoRequestType
  DEF Init, FileInv, HandlerOK, ListedChunksOnDisk, RowExists, SessionPoints, ChunkPoints,
      FinishPoints, CancelPoints

LEMMA Quiet ==
    ASSUME StateOK, FileInv, UNCHANGED <<row, chunk, committed>>
    PROVE  Frame /\ ListedChunksOnDisk'
  BY DEF Frame, Gone, FileInv, ListedChunksOnDisk, RowExists

LEMMA OtherHandler ==
    ASSUME StateOK, Frame, NEW q \in Reqs, HandlerOK(q),
           req'[q].pc = req[q].pc, SameSession(req'[q], req[q])
    PROVE  HandlerOK(q)'
<1>0. /\ req[q].uploaded \subseteq Idx /\ req[q].index \in Idx
      /\ ChunkPoints \subseteq SessionPoints
      /\ {"chunkWrite", "chunkUpdate"} \subseteq ChunkPoints
      /\ {"finishRemove", "cancelRemove"} \subseteq SessionPoints
  BY DEF StateOK, Request, SessionPoints, ChunkPoints, FinishPoints, CancelPoints
<1>1. CASE req[q].pc \in SessionPoints
  <2>1. PICK s \in Sessions : s = req[q].id
    BY <1>1 DEF HandlerOK
  <2>2. /\ Gone(s) => Gone(s)'
        /\ row[s].status # "absent" => row'[s].status # "absent"
        /\ ~ Gone(s)' => \A i \in Idx : chunk[s][i] # NoFile => chunk'[s][i] # NoFile
    BY <2>1 DEF Frame
  <2>3. /\ req'[q].id = s /\ req'[q].uploaded = req[q].uploaded
        /\ req'[q].index = req[q].index /\ req'[q].data = req[q].data
    BY <2>1 DEF SameSession
  <2>. QED
    BY <1>0, <2>1, <2>2, <2>3 DEF HandlerOK, Gone
<1>2. CASE req[q].pc \notin SessionPoints
  BY <1>0, <1>2 DEF HandlerOK
<1>. QED
  BY <1>1, <1>2

\* A step of handler r keeps FileInv if it keeps the frame, the listed chunks
\* and what is known of r; the other handlers are where they were.
LEMMA OneHandler ==
    ASSUME StateOK, FileInv, Frame, ListedChunksOnDisk', NEW r \in Reqs, HandlerOK(r)',
           \A q \in Reqs \ {r} : req'[q].pc = req[q].pc /\ SameSession(req'[q], req[q])
    PROVE  FileInv'
<1>1. ASSUME NEW q \in Reqs PROVE HandlerOK(q)'
  <2>1. CASE q = r
    BY <2>1
  <2>2. CASE q # r
    BY <2>2, OtherHandler DEF FileInv
  <2>. QED
    BY <2>1, <2>2
<1>. QED
  BY <1>1 DEF FileInv

\* Points at which nothing is claimed of a handler.
LEMMA FreePoint ==
    ASSUME NEW r \in Reqs, req'[r].pc \in Done \cup {"initCommit", "initFind", "initCreate"}
    PROVE  HandlerOK(r)'
  BY DEF HandlerOK, Done, SessionPoints, ChunkPoints, FinishPoints, CancelPoints

LEMMA AnswerKeeps ==
    ASSUME StateOK, FileInv, Frame, ListedChunksOnDisk', NEW r \in Reqs, NEW code \in Done,
           Answer(r, code)
    PROVE  FileInv'
<1>1. HandlerOK(r)' /\ \A q \in Reqs \ {r} : req'[q] = req[q]
  BY AnswerType, FreePoint
<1>. QED
  BY <1>1, OneHandler DEF SameSession

LEMMA AnswerSessionKeeps ==
    ASSUME StateOK, FileInv, Frame, ListedChunksOnDisk', NEW r \in Reqs,
           NEW s \in Sessions \cup {NoSession}, NEW u \in SUBSET Idx, AnswerSession(r, s, u)
    PROVE  FileInv'
<1>1. HandlerOK(r)' /\ \A q \in Reqs \ {r} : req'[q] = req[q]
  BY AnswerSessionType, FreePoint DEF Done
<1>. QED
  BY <1>1, OneHandler DEF SameSession

\* Moving on to a point for which nothing new has to be known.
LEMMA GotoKeeps ==
    ASSUME StateOK, FileInv, Frame, ListedChunksOnDisk', NEW r \in Reqs, NEW point \in Points,
           Goto(r, point),
           point \in SessionPoints => req[r].id \in Sessions,
           point \in ChunkPoints => req[r].pc \in ChunkPoints,
           point \notin {"chunkWrite", "chunkUpdate", "finishRemove", "cancelRemove"}
    PROVE  FileInv'
<1>1. /\ req'[r].pc = point /\ SameSession(req'[r], req[r])
      /\ \A q \in Reqs \ {r} : req'[q] = req[q]
  BY GotoType
<1>2. HandlerOK(r)'
  <2>1. CASE point \in ChunkPoints
    <3>0. ChunkPoints \subseteq SessionPoints
      BY DEF SessionPoints
    <3>1. PICK s \in Sessions : s = req[r].id
      BY <2>1, <3>0
    <3>2. /\ req'[r].id = s /\ req'[r].uploaded = req[r].uploaded
          /\ req'[r].data = req[r].data /\ req[r].uploaded \subseteq Idx
      BY <1>1, <3>1 DEF SameSession, StateOK, Request
    <3>3. /\ Gone(s) => Gone(s)'
          /\ row[s].status # "absent" => row'[s].status # "absent"
          /\ ~ Gone(s)' => \A i \in Idx : chunk[s][i] # NoFile => chunk'[s][i] # NoFile
      BY DEF Frame
    <3>4. /\ row[s].status # "absent" /\ req[r].data # NoFile
          /\ Gone(s) \/ \A i \in req[r].uploaded : chunk[s][i] # NoFile
      BY <2>1, <3>1 DEF FileInv, HandlerOK
    <3>. QED
      BY <1>1, <2>1, <3>1, <3>2, <3>3, <3>4 DEF HandlerOK, Gone
  <2>2. CASE point \notin ChunkPoints
    BY <1>1, <2>2 DEF HandlerOK, SameSession, ChunkPoints
  <2>. QED
    BY <2>1, <2>2, SMTT(60)
<1>. QED
  BY <1>1, <1>2, OneHandler DEF SameSession

LEMMA InitKeeps ==
    ASSUME StateOK, FileInv, NEW r \in Reqs,
           \/ \E h \in Hashes : InitStat(r, h)
           \/ InitCommit(r) \/ InitFind(r) \/ InitCreate(r) \/ InitMkdir(r)
    PROVE  FileInv'
<1>0. "ok" \in Done /\ "err" \in Done /\ "fast" \in Done /\ {} \in SUBSET Idx
  BY DEF Done
<1>1. ASSUME NEW h \in Hashes, InitStat(r, h) PROVE FileInv'
  <2>1. Frame /\ ListedChunksOnDisk'
    BY <1>1, Quiet DEF InitStat, disk
  <2>2. ASSUME NEW point \in {"initCreate", "initFind", "initCommit"}, InitGoto(r, point, h)
        PROVE  FileInv'
    <3>1. point \in Points
      BY DEF Points, InitPoints
    <3>2. req'[r].pc = point /\ \A q \in Reqs \ {r} : req'[q] = req[q]
      BY <2>2, <3>1, InitGotoType
    <3>3. HandlerOK(r)'
      BY <3>2, FreePoint
    <3>. QED
      BY <2>1, <3>2, <3>3, OneHandler DEF SameSession
  <2>. QED
    BY <1>0, <1>1, <2>1, <2>2, AnswerKeeps DEF InitStat
<1>2. CASE InitCommit(r)
  <2>1. Frame /\ ListedChunksOnDisk'
    BY <1>2, Quiet DEF InitCommit, disk
  <2>. QED
    BY <1>0, <1>2, <2>1, AnswerKeeps DEF InitCommit
<1>3. CASE InitFind(r)
  <2>1. Frame /\ ListedChunksOnDisk'
    BY <1>3, Quiet DEF InitFind, disk
  <2>2. ASSUME NEW s \in Sessions, AnswerSession(r, s, row[s].uploaded) PROVE FileInv'
    <3>1. row[s].uploaded \in SUBSET Idx
      BY DEF StateOK, Row
    <3>. QED
      BY <2>1, <2>2, <3>1, AnswerSessionKeeps
  <2>3. CASE Goto(r, "initCreate")
    BY <2>1, <2>3, GotoKeeps
    DEF Points, InitPoints, SessionPoints, ChunkPoints, FinishPoints, CancelPoints
  <2>. QED
    BY <1>3, <2>2, <2>3 DEF InitFind, ActiveSessions
<1>4. CASE InitCreate(r)
  <2>1. CASE UNCHANGED row /\ Answer(r, "err")
    <3>1. Frame /\ ListedChunksOnDisk'
      BY <1>4, <2>1, Quiet DEF InitCreate, disk
    <3>. QED
      BY <1>0, <2>1, <3>1, AnswerKeeps
  <2>2. ASSUME NEW s \in Sessions, row[s].status = "absent",
               row' = [row EXCEPT ![s] = [status |-> "uploading", hash |-> req[r].hash,
                                          uploaded |-> {}, expired |-> FALSE]],
               IF driver = "local"
               THEN req' = [req EXCEPT ![r] = [@ EXCEPT !.pc = "initMkdir", !.id = s]]
               ELSE AnswerSession(r, s, {})
        PROVE  FileInv'
    <3>1. chunk' = chunk /\ committed' = committed
      BY <1>4 DEF InitCreate, disk
    <3>2. Frame
      BY <2>2, <3>1 DEF Frame, Gone, StateOK
    <3>3. ListedChunksOnDisk'
      BY <2>2, <3>1 DEF ListedChunksOnDisk, RowExists, FileInv, StateOK
    <3>4. CASE req' = [req EXCEPT ![r] = [@ EXCEPT !.pc = "initMkdir", !.id = s]]
      <4>1. req[r] \in Request
        BY DEF StateOK
      <4>2. /\ [req[r] EXCEPT !.pc = "initMkdir", !.id = s].pc = "initMkdir"
            /\ [req[r] EXCEPT !.pc = "initMkdir", !.id = s].id = s
        BY <4>1 DEF Request
      <4>3. /\ req'[r].pc = "initMkdir" /\ req'[r].id = s
            /\ \A q \in Reqs \ {r} : req'[q] = req[q]
        BY <3>4, <4>2 DEF StateOK
      <4>4. HandlerOK(r)'
        BY <4>3 DEF HandlerOK, ChunkPoints
      <4>. QED
        BY <3>2, <3>3, <4>3, <4>4, OneHandler DEF SameSession
    <3>5. CASE AnswerSession(r, s, {})
      BY <1>0, <3>2, <3>3, <3>5, AnswerSessionKeeps
    <3>. QED
      BY <2>2, <3>4, <3>5
  <2>. QED
    BY <1>4, <2>1, <2>2 DEF InitCreate
<1>5. CASE InitMkdir(r)
  <2>1. Frame /\ ListedChunksOnDisk'
    BY <1>5, Quiet DEF InitMkdir
  <2>2. req[r].id \in Sessions \cup {NoSession}
    BY DEF StateOK, Request
  <2>. QED
    BY <1>0, <1>5, <2>1, <2>2, AnswerKeeps, AnswerSessionKeeps DEF InitMkdir
<1>. QED
  BY <1>1, <1>2, <1>3, <1>4, <1>5

LEMMA FindKeeps ==
    ASSUME StateOK, FileInv, NEW r \in Reqs, NEW s \in Sessions,
           NEW point \in {"chunkRead", "finishStat", "finishCreate", "cancelDelete"},
           NEW i \in Idx, NEW d \in Contents \cup {NoFile},
           point = "chunkRead" => d # NoFile, Find(r, s, point, i, d)
    PROVE  FileInv'
<1>1. Frame /\ ListedChunksOnDisk'
  BY Quiet DEF Find, disk
<1>2. CASE RowExists(s) /\ req' = [req EXCEPT ![r] = Found(s, point, i, d)]
  <2>1. point \in Points
    BY DEF Points, ChunkPoints, FinishPoints, CancelPoints
  <2>2. /\ req'[r].pc = point /\ req'[r].id = s /\ req'[r].uploaded = row[s].uploaded
        /\ req'[r].data = d
        /\ \A q \in Reqs \ {r} : req'[q] = req[q]
    BY <1>2, <2>1, FoundRecord DEF StateOK
  <2>3. row' = row /\ chunk' = chunk /\ committed' = committed
    BY DEF Find, disk
  <2>4. committed[s] \/ \A k \in row[s].uploaded : chunk[s][k] # NoFile
    BY <1>2 DEF FileInv, ListedChunksOnDisk
  <2>5. point \in ChunkPoints => point = "chunkRead"
    BY DEF ChunkPoints
  <2>6. row[s].status # "absent"
    BY <1>2 DEF RowExists
  <2>7. HandlerOK(r)'
    BY <2>2, <2>3, <2>4, <2>5, <2>6 DEF HandlerOK, Gone
  <2>. QED
    BY <1>1, <2>2, <2>7, OneHandler DEF SameSession
<1>3. CASE Answer(r, "err")
  BY <1>1, <1>3, AnswerKeeps DEF Done
<1>. QED
  BY <1>2, <1>3 DEF Find

LEMMA ChunkKeeps ==
    ASSUME StateOK, FileInv, NEW r \in Reqs,
           ChunkRead(r) \/ ChunkMkdir(r) \/ ChunkOpen(r) \/ ChunkWrite(r) \/ ChunkUpdate(r)
    PROVE  FileInv'
<1>0. "ok" \in Done /\ "err" \in Done /\ ChunkPoints \subseteq Points
  BY SMTT(60) DEF Done, Points
<1>1. req[r].pc \in ChunkPoints
  BY DEF ChunkRead, ChunkMkdir, ChunkOpen, ChunkWrite, ChunkUpdate, At, ChunkPoints
<1>2. PICK s \in Sessions : s = req[r].id
  BY <1>1 DEF FileInv, HandlerOK, SessionPoints
<1>3. PICK k \in Idx : k = req[r].index
  BY DEF StateOK, Request
<1>4. /\ row[s].status # "absent" /\ req[r].data # NoFile
      /\ Gone(s) \/ \A i \in req[r].uploaded : chunk[s][i] # NoFile
      /\ req[r].uploaded \subseteq Idx /\ req[r] \in Request
  BY <1>1, <1>2 DEF FileInv, HandlerOK, StateOK, Request
<1>5. CASE ChunkRead(r)
  <2>1. Frame /\ ListedChunksOnDisk'
    BY <1>5, Quiet DEF ChunkRead, disk
  <2>2. CASE Goto(r, "chunkMkdir")
    BY <1>0, <1>1, <1>2, <2>1, <2>2, GotoKeeps DEF ChunkPoints
  <2>3. CASE Answer(r, "ok") \/ Answer(r, "err")
    BY <1>0, <2>1, <2>3, AnswerKeeps
  <2>. QED
    BY <1>5, <2>2, <2>3 DEF ChunkRead
<1>6. CASE ChunkMkdir(r)
  <2>1. Frame /\ ListedChunksOnDisk'
    BY <1>6, Quiet DEF ChunkMkdir
  <2>. QED
    BY <1>0, <1>1, <1>2, <1>6, <2>1, GotoKeeps DEF ChunkMkdir, ChunkPoints
<1>7. CASE ChunkOpen(r)
  <2>1. CASE chunk' = chunk /\ Answer(r, "err")
    <3>1. Frame /\ ListedChunksOnDisk'
      BY <1>7, <2>1, Quiet DEF ChunkOpen
    <3>. QED
      BY <1>0, <2>1, <3>1, AnswerKeeps
  <2>2. CASE /\ chunk' = [chunk EXCEPT ![s] = [@ EXCEPT ![k] = Torn]]
             /\ req' = [req EXCEPT ![r] = [@ EXCEPT !.pc = "chunkWrite", !.linked = TRUE]]
    <3>1. row' = row /\ committed' = committed
      BY <1>7 DEF ChunkOpen
    <3>2. \A z \in Sessions : \A i \in Idx : chunk[z][i] # NoFile => chunk'[z][i] # NoFile
      BY <2>2, UploadAssumption DEF StateOK
    <3>3. chunk'[s][k] # NoFile
      BY <2>2, UploadAssumption DEF StateOK
    <3>4. Frame
      BY <3>1, <3>2 DEF Frame, Gone
    <3>5. \A z \in Sessions : row[z].uploaded \subseteq Idx
      BY DEF StateOK, Row
    <3>6. ListedChunksOnDisk'
      BY <3>1, <3>2, <3>5 DEF FileInv, ListedChunksOnDisk, RowExists
    <3>7. /\ [req[r] EXCEPT !.pc = "chunkWrite", !.linked = TRUE].pc = "chunkWrite"
          /\ SameSession([req[r] EXCEPT !.pc = "chunkWrite", !.linked = TRUE], req[r])
      BY <1>4 DEF Request, SameSession
    <3>8. /\ req'[r].pc = "chunkWrite" /\ SameSession(req'[r], req[r])
          /\ \A q \in Reqs \ {r} : req'[q] = req[q]
      BY <2>2, <3>7 DEF StateOK
    <3>9. HandlerOK(r)'
      BY <1>2, <1>3, <1>4, <3>1, <3>2, <3>3, <3>8 DEF HandlerOK, SameSession, Gone
    <3>. QED
      BY <3>4, <3>6, <3>8, <3>9, OneHandler DEF SameSession
  <2>. QED
    BY <1>2, <1>3, <1>7, <2>1, <2>2 DEF ChunkOpen
<1>8. CASE ChunkWrite(r)
  <2>0. Gone(s) \/ chunk[s][k] # NoFile
    BY <1>2, <1>3, <1>8 DEF ChunkWrite, At, FileInv, HandlerOK
  <2>1. row' = row /\ committed' = committed
    BY <1>8 DEF ChunkWrite
  <2>2. \A z \in Sessions : \A i \in Idx : chunk[z][i] # NoFile => chunk'[z][i] # NoFile
    <3>1. CASE chunk' = chunk
      BY <3>1
    <3>2. CASE chunk' = [chunk EXCEPT ![s] = [@ EXCEPT ![k] = req[r].data]]
      BY <1>4, <3>2 DEF StateOK
    <3>. QED
      BY <1>2, <1>3, <1>8, <3>1, <3>2 DEF ChunkWrite
  <2>3. Frame
    BY <2>1, <2>2 DEF Frame, Gone
  <2>4. \A z \in Sessions : row[z].uploaded \subseteq Idx
    BY DEF StateOK, Row
  <2>5. ListedChunksOnDisk'
    BY <2>1, <2>2, <2>4 DEF FileInv, ListedChunksOnDisk, RowExists
  <2>6. CASE Answer(r, "err")
    BY <1>0, <2>3, <2>5, <2>6, AnswerKeeps
  <2>7. CASE Goto(r, "chunkUpdate")
    <3>1. /\ req'[r].pc = "chunkUpdate" /\ SameSession(req'[r], req[r])
          /\ \A q \in Reqs \ {r} : req'[q] = req[q]
      BY <1>0, <2>7, GotoType, SMTT(60) DEF ChunkPoints
    <3>2. HandlerOK(r)'
      BY <1>2, <1>3, <1>4, <2>0, <2>1, <2>2, <3>1 DEF HandlerOK, SameSession, Gone
    <3>. QED
      BY <2>3, <2>5, <3>1, <3>2, OneHandler DEF SameSession
  <2>. QED
    BY <1>8, <2>6, <2>7 DEF ChunkWrite
<1>9. CASE ChunkUpdate(r)
  <2>0. Gone(s) \/ chunk[s][k] # NoFile
    BY <1>2, <1>3, <1>9 DEF ChunkUpdate, At, FileInv, HandlerOK
  <2>1. chunk' = chunk /\ committed' = committed
    BY <1>9 DEF ChunkUpdate, disk
  <2>2. Answer(r, "ok") \/ Answer(r, "err")
    BY <1>9 DEF ChunkUpdate
  <2>3. CASE UNCHANGED row
    <3>1. Frame /\ ListedChunksOnDisk'
      BY <2>1, <2>3, Quiet
    <3>. QED
      BY <1>0, <2>2, <3>1, AnswerKeeps
  <2>4. CASE RowExists(s) /\ RepoUpdate(s, req[r].uploaded \cup {k})
    <3>1. /\ row'[s].status = "uploading" /\ row'[s].uploaded = req[r].uploaded \cup {k}
          /\ \A z \in Sessions \ {s} : row'[z] = row[z]
      <4>1. row[s] \in Row
        BY DEF StateOK
      <4>. QED
        BY <2>4, <4>1 DEF RepoUpdate, StateOK, Row
    <3>2. row[s].status = "uploading"
      BY <2>4 DEF RowExists
    <3>3. Frame
      BY <2>1, <3>1, <3>2 DEF Frame, Gone
    <3>4. ListedChunksOnDisk'
      <4>1. ~ committed[s] => \A i \in req[r].uploaded \cup {k} : chunk[s][i] # NoFile
        BY <1>4, <2>0, <3>2 DEF Gone
      <4>. QED
        BY <2>1, <3>1, <4>1 DEF FileInv, ListedChunksOnDisk, RowExists
    <3>. QED
      BY <1>0, <2>2, <3>3, <3>4, AnswerKeeps
  <2>. QED
    BY <1>2, <1>3, <1>9, <2>3, <2>4 DEF ChunkUpdate, RepoUpdateAffects
<1>. QED
  BY <1>5, <1>6, <1>7, <1>8, <1>9

\* Deleting a row and removing the temp directory of a session that is gone
LEMMA DeleteKeeps ==
    ASSUME StateOK, FileInv, NEW s \in Sessions, RepoDelete(s), UNCHANGED <<chunk, committed>>
    PROVE  Frame /\ ListedChunksOnDisk' /\ row'[s].status = "deleted"
<1>1. /\ row'[s].status = "deleted"
      /\ \A z \in Sessions \ {s} : row'[z] = row[z]
  <2>1. row[s] \in Row
    BY DEF StateOK
  <2>. QED
    BY <2>1 DEF RepoDelete, StateOK, Row
<1>. QED
  BY <1>1 DEF Frame, Gone, FileInv, ListedChunksOnDisk, RowExists

LEMMA RemoveKeeps ==
    ASSUME StateOK, FileInv, NEW s \in Sessions, Gone(s), RemoveTempDir(s),
           UNCHANGED <<row, committed>>
    PROVE  /\ Frame /\ ListedChunksOnDisk'
           /\ \A q \in Reqs : Unlinked(s)[q].pc = req[q].pc /\ SameSession(Unlinked(s)[q], req[q])
<1>1. \A z \in Sessions \ {s} : chunk'[z] = chunk[z]
  BY DEF RemoveTempDir, StateOK
<1>2. Frame /\ ListedChunksOnDisk'
  BY <1>1 DEF Frame, Gone, FileInv, ListedChunksOnDisk, RowExists
<1>3. ASSUME NEW q \in Reqs
      PROVE  Unlinked(s)[q].pc = req[q].pc /\ SameSession(Unlinked(s)[q], req[q])
  <2>1. req[q] \in Request
    BY DEF StateOK
  <2>. QED
    BY <2>1 DEF Unlinked, Request, SameSession
<1>. QED
  BY <1>2, <1>3

LEMMA FinishKeeps ==
    ASSUME StateOK, FileInv, NEW r \in Reqs,
           \/ FinishStat(r) \/ FinishCreate(r) \/ FinishCopy(r) \/ FinishHash(r)
           \/ FinishImport(r) \/ FinishCommit(r) \/ FinishRemove(r) \/ FinishDelete(r)
    PROVE  FileInv'
<1>0. "ok" \in Done /\ "err" \in Done /\ FinishPoints \subseteq Points
  BY SMTT(60) DEF Done, Points
<1>1. req[r].pc \in FinishPoints
  BY DEF FinishStat, FinishCreate, FinishCopy, FinishHash, FinishImport, FinishCommit,
         FinishRemove, FinishDelete, At, FinishPoints
<1>2. PICK s \in Sessions : s = req[r].id
  BY <1>1 DEF FileInv, HandlerOK, SessionPoints
<1>3. req[r] \in Request
  BY DEF StateOK
<1>4. ASSUME UNCHANGED <<row, chunk, committed>>,
             \/ Answer(r, "err")
             \/ \E point \in {"finishCreate", "finishCopy", "finishHash", "finishImport", "finishCommit"} :
                   Goto(r, point)
      PROVE  FileInv'
  <2>1. Frame /\ ListedChunksOnDisk'
    BY <1>4, Quiet
  <2>2. ASSUME NEW point \in {"finishCreate", "finishCopy", "finishHash", "finishImport", "finishCommit"},
               Goto(r, point)
        PROVE  FileInv'
    <3>1. point \in Points /\ point \notin ChunkPoints
      BY DEF Points, FinishPoints, ChunkPoints
    <3>2. point \notin {"chunkWrite", "chunkUpdate", "finishRemove", "cancelRemove"}
      OBVIOUS
    <3>. QED
      BY <1>2, <2>1, <2>2, <3>1, <3>2, GotoKeeps
  <2>. QED
    BY <1>0, <1>4, <2>1, <2>2, AnswerKeeps
<1>5. ASSUME NEW q, UNCHANGED <<row, chunk, committed>>, req' = [req EXCEPT ![r] = q],
             q.id = s, q.pc = "finishCopy"
      PROVE  FileInv'
  <2>1. Frame /\ ListedChunksOnDisk'
    BY <1>5, Quiet
  <2>2. /\ req'[r].pc = "finishCopy" /\ req'[r].id = s
        /\ \A p \in Reqs \ {r} : req'[p] = req[p]
    BY <1>5 DEF StateOK
  <2>3. HandlerOK(r)'
    BY <2>2 DEF HandlerOK, ChunkPoints
  <2>. QED
    BY <2>1, <2>2, <2>3, OneHandler DEF SameSession
<1>6. CASE FinishStat(r)
  BY <1>4, <1>6 DEF FinishStat, disk
<1>7. CASE FinishCreate(r)
  <2>1. [req[r] EXCEPT !.pc = "finishCopy", !.linked = TRUE].id = s
    BY <1>2, <1>3 DEF Request
  <2>2. [req[r] EXCEPT !.pc = "finishCopy", !.linked = TRUE].pc = "finishCopy"
    BY <1>3 DEF Request
  <2>3. CASE req' = [req EXCEPT ![r] = [@ EXCEPT !.pc = "finishCopy", !.linked = TRUE]]
    BY <1>5, <1>7, <2>1, <2>2, <2>3 DEF FinishCreate
  <2>. QED
    BY <1>4, <1>7, <2>3 DEF FinishCreate
<1>8. CASE FinishCopy(r)
  <2>. DEFINE a == [req[r] EXCEPT !.next = req[r].next + 1, !.off = req[r].off + 1]
              b == [req[r] EXCEPT !.next = req[r].next + 1]
  <2>1. a.id = s /\ a.pc = "finishCopy" /\ b.id = s /\ b.pc = "finishCopy"
    BY <1>2, <1>3, <1>8, SMTT(60) DEF Request, FinishCopy, At
  <2>2. CASE req' = [req EXCEPT ![r] = [@ EXCEPT !.next = req[r].next + 1, !.off = req[r].off + 1]]
    BY <1>5, <1>8, <2>1, <2>2 DEF FinishCopy
  <2>3. CASE req' = [req EXCEPT ![r] = [@ EXCEPT !.next = req[r].next + 1]]
    BY <1>5, <1>8, <2>1, <2>3 DEF FinishCopy
  <2>. QED
    BY <1>4, <1>8, <2>2, <2>3, SMTT(60) DEF FinishCopy
<1>9. CASE FinishHash(r)
  BY <1>4, <1>9 DEF FinishHash, disk
<1>10. CASE FinishImport(r)
  BY <1>4, <1>10 DEF FinishImport
<1>11. CASE FinishCommit(r)
  <2>1. CASE Answer(r, "err") /\ UNCHANGED committed
    BY <1>4, <1>11, <2>1 DEF FinishCommit, disk
  <2>2. CASE Goto(r, "finishRemove") /\ committed' = [committed EXCEPT ![s] = TRUE]
    <3>1. row' = row /\ chunk' = chunk
      BY <1>11 DEF FinishCommit, disk
    <3>2. committed'[s] /\ \A z \in Sessions : committed[z] => committed'[z]
      BY <2>2 DEF StateOK
    <3>3. Frame /\ ListedChunksOnDisk'
      BY <3>1, <3>2 DEF Frame, Gone, FileInv, ListedChunksOnDisk, RowExists
    <3>4. /\ req'[r].pc = "finishRemove" /\ SameSession(req'[r], req[r])
          /\ \A q \in Reqs \ {r} : req'[q] = req[q]
      BY <1>0, <2>2, GotoType DEF FinishPoints
    <3>5. HandlerOK(r)'
      BY <1>2, <3>2, <3>4 DEF HandlerOK, Gone, SameSession, ChunkPoints
    <3>. QED
      BY <3>3, <3>4, <3>5, OneHandler DEF SameSession
  <2>. QED
    BY <1>2, <1>11, <2>1, <2>2 DEF FinishCommit
<1>12. CASE FinishRemove(r)
  <2>1. Gone(s)
    BY <1>2, <1>12 DEF FinishRemove, At, FileInv, HandlerOK
  <2>2. /\ Frame /\ ListedChunksOnDisk'
        /\ \A q \in Reqs : Unlinked(s)[q].pc = req[q].pc /\ SameSession(Unlinked(s)[q], req[q])
    BY <1>2, <1>12, <2>1, RemoveKeeps DEF FinishRemove
  <2>3. Unlinked(s) \in [Reqs -> Request]
    BY <1>2, <1>12, RemoveType DEF FinishRemove
  <2>4. req' = [Unlinked(s) EXCEPT ![r] = [Unlinked(s)[r] EXCEPT !.pc = "finishDelete"]]
    BY <1>2, <1>12, <2>3 DEF FinishRemove
  <2>5. /\ [Unlinked(s)[r] EXCEPT !.pc = "finishDelete"].pc = "finishDelete"
        /\ [Unlinked(s)[r] EXCEPT !.pc = "finishDelete"].id = Unlinked(s)[r].id
    BY <1>0, <2>3, PcUpdate DEF FinishPoints
  <2>6. /\ req'[r].pc = "finishDelete" /\ req'[r].id = s
        /\ \A q \in Reqs \ {r} : req'[q] = Unlinked(s)[q]
    BY <1>2, <2>2, <2>3, <2>4, <2>5 DEF SameSession
  <2>7. HandlerOK(r)'
    BY <2>6 DEF HandlerOK, ChunkPoints
  <2>. QED
    BY <2>2, <2>6, <2>7, OneHandler
<1>13. CASE FinishDelete(r)
  <2>1. chunk' = chunk /\ committed' = committed /\ Answer(r, "ok")
    BY <1>13 DEF FinishDelete, disk
  <2>2. Frame /\ ListedChunksOnDisk'
    BY <1>2, <1>13, <2>1, Quiet, DeleteKeeps DEF FinishDelete
  <2>. QED
    BY <1>0, <2>1, <2>2, AnswerKeeps
<1>. QED
  BY <1>6, <1>7, <1>8, <1>9, <1>10, <1>11, <1>12, <1>13

LEMMA CancelKeeps ==
    ASSUME StateOK, FileInv, NEW r \in Reqs, CancelDelete(r) \/ CancelRemove(r)
    PROVE  FileInv'
<1>0. "err" \in Done /\ "cancelRemove" \in Points
  BY DEF Done, Points, CancelPoints
<1>1. PICK s \in Sessions : s = req[r].id
  BY DEF CancelDelete, CancelRemove, At, FileInv, HandlerOK, SessionPoints, CancelPoints
<1>2. CASE CancelDelete(r)
  <2>1. chunk' = chunk /\ committed' = committed
    BY <1>2 DEF CancelDelete, disk
  <2>2. CASE RepoDelete(s) /\ Goto(r, "cancelRemove")
    <3>1. Frame /\ ListedChunksOnDisk' /\ row'[s].status = "deleted"
      BY <2>1, <2>2, DeleteKeeps
    <3>2. /\ req'[r].pc = "cancelRemove" /\ req'[r].id = s
          /\ \A q \in Reqs \ {r} : req'[q] = req[q]
      BY <1>0, <1>1, <2>2, GotoType DEF SameSession
    <3>3. HandlerOK(r)'
      BY <3>1, <3>2 DEF HandlerOK, Gone, ChunkPoints
    <3>. QED
      BY <3>1, <3>2, <3>3, OneHandler DEF SameSession
  <2>3. CASE UNCHANGED row /\ Answer(r, "err")
    BY <1>0, <2>1, <2>3, Quiet, AnswerKeeps
  <2>. QED
    BY <1>1, <1>2, <2>2, <2>3 DEF CancelDelete
<1>3. CASE CancelRemove(r)
  <2>1. Gone(s)
    BY <1>1, <1>3 DEF CancelRemove, At, FileInv, HandlerOK
  <2>2. /\ Frame /\ ListedChunksOnDisk'
        /\ \A q \in Reqs : Unlinked(s)[q].pc = req[q].pc /\ SameSession(Unlinked(s)[q], req[q])
    BY <1>1, <1>3, <2>1, RemoveKeeps DEF CancelRemove
  <2>3. Unlinked(s) \in [Reqs -> Request]
    BY <1>1, <1>3, RemoveType DEF CancelRemove
  <2>4. [NoRequest EXCEPT !.pc = "ok"].pc = "ok"
    BY NoRequestType, PcUpdate DEF Points, Done
  <2>5. req'[r].pc = "ok" /\ \A q \in Reqs \ {r} : req'[q] = Unlinked(s)[q]
    BY <1>1, <1>3, <2>3, <2>4 DEF CancelRemove
  <2>6. HandlerOK(r)'
    BY <2>5, FreePoint DEF Done
  <2>. QED
    BY <2>2, <2>5, <2>6, OneHandler
<1>. QED
  BY <1>2, <1>3

LEMMA EnvironmentKeeps ==
    ASSUME StateOK, FileInv, (\E s \in Sessions : Expire(s)) \/ Crash
    PROVE  FileInv'
<1>1. ASSUME NEW s \in Sessions, Expire(s) PROVE FileInv'
  <2>1. /\ chunk' = chunk /\ committed' = committed /\ req' = req
        /\ row' = [row EXCEPT ![s].expired = TRUE]
    BY <1>1 DEF Expire, disk
  <2>2. \A z \in Sessions : row'[z].status = row[z].status /\ row'[z].uploaded = row[z].uploaded
    <3>1. row[s] \in Row
      BY DEF StateOK
    <3>. QED
      BY <2>1, <3>1 DEF StateOK, Row
  <2>3. Frame /\ ListedChunksOnDisk'
    BY <2>1, <2>2 DEF Frame, Gone, FileInv, ListedChunksOnDisk, RowExists
  <2>4. \A q \in Reqs : HandlerOK(q)'
    BY <2>1, <2>3, OtherHandler DEF FileInv, SameSession
  <2>. QED
    BY <2>3, <2>4 DEF FileInv
<1>2. CASE Crash
  <2>1. UNCHANGED <<row, chunk, committed>>
    BY <1>2 DEF Crash, disk
  <2>2. [NoRequest EXCEPT !.pc = "err"].pc = "err"
    BY NoRequestType, PcUpdate DEF Points, Done
  <2>3. \A q \in Reqs : HandlerOK(q)'
    BY <1>2, <2>2, FreePoint DEF Crash, Done
  <2>. QED
    BY <2>1, <2>3, Quiet DEF FileInv
<1>. QED
  BY <1>1, <1>2

LEMMA FileStep ==
    ASSUME StateOK, FileInv, [Next]_vars
    PROVE  FileInv'
<1>1. CASE UNCHANGED vars
  <2>1. Frame /\ ListedChunksOnDisk' /\ req' = req
    BY <1>1, Quiet DEF vars
  <2>. QED
    BY <2>1, OtherHandler DEF FileInv, SameSession
<1>2. ASSUME NEW r \in Reqs, Begin(r) PROVE FileInv'
  <2>0. 0 \in Idx /\ \A d \in Contents : d # NoFile
    BY UploadAssumption DEF Idx
  <2>1. ASSUME NEW s \in Sessions, NEW i \in Idx, NEW d \in Contents, ChunkFind(r, s, i, d)
        PROVE  FileInv'
    BY <2>0, <2>1, FindKeeps DEF ChunkFind
  <2>2. ASSUME NEW s \in Sessions, FinishFind(r, s) PROVE FileInv'
    <3>1. CASE Find(r, s, IF driver = "local" THEN "finishStat" ELSE "finishCreate", 0, NoFile)
      BY <2>0, <3>1, FindKeeps
    <3>2. CASE Answer(r, "err") /\ UNCHANGED <<row, disk, node, journal, faults, committed>>
      BY <3>2, Quiet, AnswerKeeps DEF disk, Done
    <3>. QED
      BY <2>2, <3>1, <3>2 DEF FinishFind
  <2>3. ASSUME NEW s \in Sessions, CancelFind(r, s) PROVE FileInv'
    BY <2>0, <2>3, FindKeeps DEF CancelFind
  <2>. QED
    BY <1>2, <2>1, <2>2, <2>3, InitKeeps DEF Begin
<1>3. ASSUME NEW r \in Reqs, Continue(r) PROVE FileInv'
  BY <1>3, InitKeeps, ChunkKeeps, FinishKeeps, CancelKeeps DEF Continue
<1>. QED
  BY <1>1, <1>2, <1>3, EnvironmentKeeps DEF Next

\* The variables keep their types: the tables, the files and the handlers.
THEOREM TypeCorrect == Spec => []TypeOK
<1>1. Init => StateOK /\ FileInv
  BY TypeInit, FileInit
<1>2. StateOK /\ FileInv /\ [Next]_vars => StateOK' /\ FileInv'
  BY TypeStep, FileStep
<1>3. Init => driver \in Drivers
  BY DEF Init
<1>4. driver \in Drivers /\ [Next]_vars => (driver \in Drivers)'
  BY DEF Next, vars
<1>5. StateOK /\ driver \in Drivers => TypeOK
  BY DEF TypeOK
<1>. QED
  BY <1>1, <1>2, <1>3, <1>4, <1>5, PTL DEF Spec

\* A live session never lists a chunk whose file is gone, unless its Finish has
\* committed: any interleaving of UploadChunk, Finish, Cancel and crashes, any
\* number of handlers, sessions and chunks.
THEOREM ListedChunksAreOnDisk == Spec => []ListedChunksOnDisk
<1>1. Init => StateOK /\ FileInv
  BY TypeInit, FileInit
<1>2. StateOK /\ FileInv /\ [Next]_vars => StateOK' /\ FileInv'
  BY TypeStep, FileStep
<1>3. FileInv => ListedChunksOnDisk
  BY DEF FileInv
<1>. QED
  BY <1>1, <1>2, <1>3, PTL DEF Spec
-----------------------------------------------------------------------------
(* The rows: deleted is the last status *)

\* No step of the model changes the status of a deleted row: Update affects no
\* row, Init creates only new ones.
LEMMA DeletedRow ==
    ASSUME StateOK, [Next]_vars, NEW s \in Sessions, row[s].status = "deleted"
    PROVE  row'[s].status = "deleted"
<1>0. row[s] \in Row /\ row \in [Sessions -> Row]
  BY DEF StateOK
<1>1. ASSUME NEW z, RepoDelete(z) PROVE row'[s].status = "deleted"
  BY <1>0, <1>1 DEF RepoDelete, Row
<1>2. ASSUME NEW r \in Reqs, Begin(r) PROVE row' = row
  BY <1>2 DEF Begin, InitStat, ChunkFind, FinishFind, CancelFind, Find
<1>3. ASSUME NEW r \in Reqs, Continue(r) PROVE row'[s].status = "deleted"
  <2>1. CASE InitCreate(r)
    <3>1. ASSUME NEW z \in Sessions, row[z].status = "absent",
                 row' = [row EXCEPT ![z] = [status |-> "uploading", hash |-> req[r].hash,
                                            uploaded |-> {}, expired |-> FALSE]]
          PROVE  row'[s].status = "deleted"
      BY <1>0, <3>1
    <3>2. CASE UNCHANGED row
      BY <3>2
    <3>3. \/ UNCHANGED row
          \/ \E z \in Sessions :
                /\ row[z].status = "absent"
                /\ row' = [row EXCEPT ![z] = [status |-> "uploading", hash |-> req[r].hash,
                                             uploaded |-> {}, expired |-> FALSE]]
      BY <2>1, Zenon DEF InitCreate
    <3>. QED
      BY <3>1, <3>2, <3>3
  <2>2. CASE ChunkUpdate(r)
    BY <1>0, <2>2 DEF ChunkUpdate, RepoUpdateAffects, RowExists, RepoUpdate
  <2>3. CASE FinishDelete(r) \/ CancelDelete(r)
    BY <1>1, <2>3 DEF FinishDelete, CancelDelete
  <2>4. CASE InitCommit(r) \/ InitFind(r) \/ InitMkdir(r)
    BY <2>4 DEF InitCommit, InitFind, InitMkdir
  <2>5. CASE ChunkRead(r) \/ ChunkMkdir(r) \/ ChunkOpen(r) \/ ChunkWrite(r)
    BY <2>5, SMTT(60) DEF ChunkRead, ChunkMkdir, ChunkOpen, ChunkWrite
  <2>6. CASE \/ FinishStat(r) \/ FinishCreate(r) \/ FinishCopy(r) \/ FinishHash(r)
             \/ FinishImport(r) \/ FinishCommit(r) \/ FinishRemove(r) \/ CancelRemove(r)
    BY <2>6 DEF FinishStat, FinishCreate, FinishCopy, FinishHash, FinishImport, FinishCommit,
                FinishRemove, CancelRemove
  <2>. QED
    BY <1>3, <2>1, <2>2, <2>3, <2>4, <2>5, <2>6 DEF Continue
<1>4. ASSUME NEW z \in Sessions, Expire(z) PROVE row'[s].status = "deleted"
  BY <1>0, <1>4 DEF Expire, RowExists
<1>5. CASE Crash \/ UNCHANGED vars
  BY <1>5 DEF Crash, vars
<1>. QED
  BY <1>2, <1>3, <1>4, <1>5 DEF Next

\* A deleted session stays deleted: no UploadChunk that read the row before a
\* Cancel or a Finish deleted it writes it back, whatever the number of handlers.
THEOREM DeletedSessionsStay == Spec => DeletedStaysDeleted
<1>1. Init => StateOK /\ FileInv
  BY TypeInit, FileInit
<1>2. StateOK /\ FileInv /\ [Next]_vars => StateOK' /\ FileInv'
  BY TypeStep, FileStep
<1>3. StateOK /\ [Next]_vars =>
        [\A s \in Sessions : row[s].status = "deleted" => row'[s].status = "deleted"]_vars
  BY DeletedRow
<1>. QED
  BY <1>1, <1>2, <1>3, PTL DEF Spec, DeletedStaysDeleted

-----------------------------------------------------------------------------
(* The target file and its node, when one goroutine at a time serves Finish *)

\* Finish requests are served one at a time.
OneFinisher == \A f, g \in Finishers : f = g

Full(file) == file.exists /\ \A k \in Idx : file.data[k] # Gap
Accepted(file, hash) == hash = NoHash \/ HashIs(file, hash)

\* What a handler relies on of the target while others move: the fast upload
\* of its hash, finishLocal of its stat and of the gaps it has yet to fill.
TargetOK(r) ==
    LET q == req[r]
    IN  /\ q.pc = "initCommit" => HashIs(target, q.hash)
        /\ q.pc \in FinishPoints => r \in Finishers
        /\ q.pc \in {"finishStat", "finishCreate", "finishCopy"} => q.off <= q.next
        /\ driver = "local" /\ q.pc = "finishCreate" => ~ target.exists
        /\ driver = "local" /\ q.pc = "finishCopy" =>
              /\ target.exists /\ node # NoHash
              /\ \A k \in Idx : q.off <= k => target.data[k] = Gap
        /\ q.pc = "finishImport" /\ staged[q.id].exists => Accepted(staged[q.id], q.hash)
        /\ q.pc = "finishCommit" => target.exists /\ Accepted(target, q.hash)

\* The inductive invariant behind CommittedFileMatches and NoOverwrite.  A
\* target that the fast upload can accept has no gap left, so a Finish that
\* still has slots to write has not been overtaken by it.
MatchInv ==
    /\ \A r \in Reqs : TargetOK(r)
    /\ CommittedFileMatches

SameProgress(p, q) ==
    p.pc = q.pc /\ p.id = q.id /\ p.hash = q.hash /\ p.next = q.next /\ p.off = q.off

\* What handler r leaves to the others: a full target is left alone, and the
\* target, the staged files and the node are the finisher's.
TargetFrame(r) ==
    /\ Full(target) => target' = target
    /\ r \notin Finishers => target' = target
    /\ r \notin Finishers => \A s \in Sessions : staged'[s] = staged[s] \/ ~ staged'[s].exists
    /\ r \notin Finishers /\ node' = NoHash => node = NoHash

LEMMA MatchInit == Init => MatchInv
  BY NoRequestType
  DEF Init, MatchInv, TargetOK, FinishPoints, CommittedFileMatches

LEMMA HashIsFull ==
    ASSUME NEW h \in Contents \cup {NoHash}, HashIs(target, h)
    PROVE  Full(target)
  BY UploadAssumption DEF HashIs, Full

\* The handlers other than the one that moves keep what they rely on.
LEMMA OtherTarget ==
    ASSUME OneFinisher, StateOK, FileInv, MatchInv, NEW r \in Reqs, NEW p \in Reqs, p # r,
           TargetFrame(r), driver' = driver, SameProgress(req'[p], req[p])
    PROVE  TargetOK(p)'
<1>. DEFINE q == req[p]
<1>0. q \in Request /\ TargetOK(p)
  BY DEF StateOK, MatchInv
<1>1. CASE q.pc = "initCommit"
  <2>1. HashIs(target, q.hash) /\ q.hash \in Contents \cup {NoHash}
    BY <1>0, <1>1 DEF TargetOK, Request
  <2>2. target' = target
    BY <2>1, HashIsFull DEF TargetFrame
  <2>3. HashIs(target', q.hash)
    BY <2>1, <2>2
  <2>. QED
    BY <1>1, <2>3 DEF TargetOK, SameProgress, FinishPoints, HashIs
<1>2. CASE q.pc \in FinishPoints
  <2>1. p \in Finishers /\ r \notin Finishers
    BY <1>0, <1>2 DEF TargetOK, OneFinisher
  <2>2. target' = target
    BY <2>1 DEF TargetFrame
  <2>3. q.id \in Sessions
    BY <1>2 DEF FileInv, HandlerOK, SessionPoints
  <2>4. staged'[q.id] = staged[q.id] \/ ~ staged'[q.id].exists
    BY <2>1, <2>3 DEF TargetFrame
  <2>5. node' = NoHash => node = NoHash
    BY <2>1 DEF TargetFrame
  <2>. QED
    BY <1>0, <1>2, <2>1, <2>2, <2>4, <2>5
    DEF TargetOK, SameProgress, Accepted, HashIs, FinishPoints
<1>3. CASE q.pc # "initCommit" /\ q.pc \notin FinishPoints
  BY <1>3 DEF TargetOK, SameProgress, FinishPoints
<1>. QED
  BY <1>1, <1>2, <1>3

LEMMA OneTarget ==
    ASSUME OneFinisher, StateOK, FileInv, MatchInv, NEW r \in Reqs,
           TargetFrame(r), driver' = driver, TargetOK(r)', CommittedFileMatches',
           \A p \in Reqs \ {r} : SameProgress(req'[p], req[p])
    PROVE  MatchInv'
<1>1. ASSUME NEW p \in Reqs PROVE TargetOK(p)'
  <2>1. CASE p = r
    BY <2>1
  <2>2. CASE p # r
    BY <2>2, OtherTarget
  <2>. QED
    BY <2>1, <2>2
<1>. QED
  BY <1>1 DEF MatchInv

\* A step that leaves the target, the staged files and the node alone.
LEMMA SameTarget ==
    ASSUME MatchInv, NEW r \in Reqs, UNCHANGED <<target, staged, node>>
    PROVE  TargetFrame(r) /\ CommittedFileMatches'
  BY DEF MatchInv, TargetFrame, CommittedFileMatches

LEMMA IdleTarget ==
    ASSUME NEW r \in Reqs, req'[r].pc \notin FinishPoints \cup {"initCommit"}
    PROVE  TargetOK(r)'
  BY DEF TargetOK, FinishPoints

LEMMA AnswerTarget ==
    ASSUME OneFinisher, StateOK, FileInv, MatchInv, NEW r \in Reqs, NEW code \in Done,
           Answer(r, code), TargetFrame(r), CommittedFileMatches', driver' = driver
    PROVE  MatchInv'
<1>1. req'[r].pc = code /\ \A p \in Reqs \ {r} : req'[p] = req[p]
  BY AnswerType
<1>2. TargetOK(r)'
  BY <1>1, IdleTarget DEF Done, FinishPoints
<1>. QED
  BY <1>1, <1>2, OneTarget DEF SameProgress
\* A handler that goes on to a point at which it relies on nothing.
LEMMA MoveTarget ==
    ASSUME OneFinisher, StateOK, FileInv, MatchInv, NEW r \in Reqs, NEW point \in Points,
           Goto(r, point), TargetFrame(r), CommittedFileMatches', driver' = driver,
           point \notin FinishPoints \cup {"initCommit"}
    PROVE  MatchInv'
<1>1. req'[r].pc = point /\ \A p \in Reqs \ {r} : req'[p] = req[p]
  BY GotoType
<1>2. TargetOK(r)'
  BY <1>1, IdleTarget
<1>. QED
  BY <1>1, <1>2, OneTarget DEF SameProgress

LEMMA InitTarget ==
    ASSUME OneFinisher, StateOK, FileInv, MatchInv, driver' = driver, NEW r \in Reqs,
           \/ \E h \in Hashes : InitStat(r, h)
           \/ InitCommit(r) \/ InitFind(r) \/ InitCreate(r) \/ InitMkdir(r)
    PROVE  MatchInv' /\ target' = target
<1>0. /\ "ok" \in Done /\ "err" \in Done /\ "fast" \in Done /\ {} \in SUBSET Idx
      /\ req[r] \in Request /\ TargetOK(r) /\ CommittedFileMatches
  BY DEF Done, StateOK, MatchInv
<1>a. ASSUME NEW s \in Sessions \cup {NoSession}, NEW u \in SUBSET Idx, AnswerSession(r, s, u),
             UNCHANGED <<target, staged, node>>
      PROVE  MatchInv'
  <2>1. req'[r].pc = "ok" /\ \A p \in Reqs \ {r} : req'[p] = req[p]
    BY <1>a, AnswerSessionType
  <2>2. TargetOK(r)'
    BY <2>1, IdleTarget DEF FinishPoints
  <2>3. TargetFrame(r) /\ CommittedFileMatches'
    BY <1>a, SameTarget
  <2>. QED
    BY <2>1, <2>2, <2>3, OneTarget DEF SameProgress
<1>b. ASSUME Answer(r, "err"), UNCHANGED <<target, staged, node>>
      PROVE  MatchInv'
  BY <1>0, <1>b, SameTarget, AnswerTarget
<1>1. ASSUME NEW h \in Hashes, InitStat(r, h) PROVE MatchInv' /\ target' = target
  <2>1. UNCHANGED <<target, staged, node>>
    BY <1>1 DEF InitStat, disk
  <2>2. ASSUME NEW point \in {"initCreate", "initFind", "initCommit"}, InitGoto(r, point, h),
               point = "initCommit" => HashIs(target, h)
        PROVE  MatchInv'
    <3>1. point \in Points
      BY DEF Points, InitPoints
    <3>2. /\ req'[r].pc = point /\ req'[r].hash = h
          /\ \A p \in Reqs \ {r} : req'[p] = req[p]
      BY <2>2, <3>1, InitGotoType
    <3>3. TargetOK(r)'
      BY <2>1, <2>2, <3>2 DEF TargetOK, FinishPoints, HashIs
    <3>4. TargetFrame(r) /\ CommittedFileMatches'
      BY <2>1, SameTarget
    <3>. QED
      BY <3>2, <3>3, <3>4, OneTarget DEF SameProgress
  <2>. QED
    BY <1>1, <1>b, <2>1, <2>2 DEF InitStat
<1>2. CASE InitCommit(r)
  <2>1. UNCHANGED <<target, staged>>
    BY <1>2 DEF InitCommit, disk
  <2>2. CASE node' = req[r].hash /\ Answer(r, "fast")
    <3>1. HashIs(target, req[r].hash)
      BY <1>0, <1>2 DEF InitCommit, At, TargetOK
    <3>2. CommittedFileMatches'
      BY <2>1, <2>2, <3>1 DEF CommittedFileMatches, HashIs
    <3>3. TargetFrame(r)
      BY <2>1, <2>2, <3>1 DEF TargetFrame, HashIs
    <3>. QED
      BY <1>0, <2>1, <2>2, <3>2, <3>3, AnswerTarget
  <2>3. CASE Answer(r, "err") /\ UNCHANGED node
    BY <1>b, <2>1, <2>3
  <2>. QED
    BY <1>2, <2>2, <2>3 DEF InitCommit
<1>3. CASE InitFind(r)
  <2>1. UNCHANGED <<target, staged, node>>
    BY <1>3 DEF InitFind, disk
  <2>2. ASSUME NEW s \in Sessions PROVE row[s].uploaded \in SUBSET Idx
    BY DEF StateOK, Row
  <2>3. CASE Goto(r, "initCreate")
    BY <2>1, <2>3, SameTarget, MoveTarget DEF Points, InitPoints, FinishPoints
  <2>. QED
    BY <1>3, <1>a, <2>1, <2>2, <2>3 DEF InitFind, ActiveSessions
<1>4. CASE InitCreate(r)
  <2>0. UNCHANGED <<disk, node>>
    BY <1>4, Zenon DEF InitCreate
  <2>1. UNCHANGED <<target, staged, node>>
    BY <2>0 DEF disk
  <2>2. ASSUME NEW s \in Sessions,
               req' = [req EXCEPT ![r] = [@ EXCEPT !.pc = "initMkdir", !.id = s]]
        PROVE  MatchInv'
    <3>1. [req[r] EXCEPT !.pc = "initMkdir", !.id = s].pc = "initMkdir"
      BY <1>0 DEF Request
    <3>2. req'[r].pc = "initMkdir" /\ \A p \in Reqs \ {r} : req'[p] = req[p]
      BY <2>2, <3>1 DEF StateOK
    <3>3. TargetOK(r)'
      BY <3>2, IdleTarget DEF FinishPoints
    <3>. QED
      BY <2>1, <3>2, <3>3, SameTarget, OneTarget DEF SameProgress
  <2>3. \/ Answer(r, "err")
        \/ \E s \in Sessions :
              \/ req' = [req EXCEPT ![r] = [@ EXCEPT !.pc = "initMkdir", !.id = s]]
              \/ AnswerSession(r, s, {})
    BY <1>4, Zenon DEF InitCreate
  <2>4. ASSUME NEW s \in Sessions, AnswerSession(r, s, {}) PROVE MatchInv'
    BY <1>0, <1>a, <2>1, <2>4
  <2>5. Answer(r, "err") => MatchInv'
    BY <1>b, <2>1
  <2>6. MatchInv'
    BY <2>2, <2>3, <2>4, <2>5, Zenon
  <2>. QED
    BY <2>1, <2>6
<1>5. CASE InitMkdir(r)
  <2>1. UNCHANGED <<target, staged, node>>
    BY <1>5 DEF InitMkdir
  <2>2. req[r].id \in Sessions \cup {NoSession}
    BY <1>0 DEF Request
  <2>. QED
    BY <1>0, <1>5, <1>a, <1>b, <2>1, <2>2 DEF InitMkdir
<1>. QED
  BY <1>1, <1>2, <1>3, <1>4, <1>5

\* Find starts Finish with its counters at zero, and only on a finisher.
LEMMA FindTarget ==
    ASSUME OneFinisher, StateOK, FileInv, MatchInv, driver' = driver, NEW r \in Reqs,
           NEW s \in Sessions,
           NEW point \in {"chunkRead", "finishStat", "finishCreate", "cancelDelete"},
           NEW i \in Idx, NEW d \in Contents \cup {NoFile}, Find(r, s, point, i, d),
           point \in {"finishStat", "finishCreate"} => r \in Finishers,
           point = "finishCreate" => driver # "local"
    PROVE  MatchInv' /\ target' = target
<1>1. UNCHANGED <<target, staged, node>>
  BY DEF Find, disk
<1>2. CASE req' = [req EXCEPT ![r] = Found(s, point, i, d)]
  <2>1. point \in Points
    BY DEF Points, ChunkPoints, FinishPoints, CancelPoints
  <2>2. Found(s, point, i, d).off = 0 /\ Found(s, point, i, d).next = 0
    BY DEF Found, NoRequest
  <2>3. /\ req'[r].pc = point /\ req'[r].off = 0 /\ req'[r].next = 0
        /\ \A p \in Reqs \ {r} : req'[p] = req[p]
    BY <1>2, <2>1, <2>2, FoundRecord DEF StateOK
  <2>4. TargetOK(r)'
    BY <2>3 DEF TargetOK, FinishPoints
  <2>. QED
    BY <1>1, <2>3, <2>4, SameTarget, OneTarget DEF SameProgress
<1>3. CASE Answer(r, "err")
  BY <1>1, <1>3, SameTarget, AnswerTarget DEF Done
<1>. QED
  BY <1>1, <1>2, <1>3 DEF Find

LEMMA ChunkTarget ==
    ASSUME OneFinisher, StateOK, FileInv, MatchInv, driver' = driver, NEW r \in Reqs,
           ChunkRead(r) \/ ChunkMkdir(r) \/ ChunkOpen(r) \/ ChunkWrite(r) \/ ChunkUpdate(r)
    PROVE  MatchInv' /\ target' = target
<1>1. UNCHANGED <<target, staged, node>>
  BY DEF ChunkRead, ChunkMkdir, ChunkOpen, ChunkWrite, ChunkUpdate, disk
<1>2. TargetFrame(r) /\ CommittedFileMatches'
  BY <1>1, SameTarget
<1>3. CASE Answer(r, "ok") \/ Answer(r, "err")
  BY <1>1, <1>2, <1>3, AnswerTarget DEF Done
<1>4. ASSUME NEW point \in ChunkPoints, Goto(r, point) PROVE MatchInv'
  BY <1>2, <1>4, MoveTarget DEF Points, ChunkPoints, FinishPoints
<1>5. CASE req' = [req EXCEPT ![r] = [@ EXCEPT !.pc = "chunkWrite", !.linked = TRUE]]
  <2>1. [req[r] EXCEPT !.pc = "chunkWrite", !.linked = TRUE].pc = "chunkWrite"
    BY DEF StateOK, Request
  <2>2. req'[r].pc = "chunkWrite" /\ \A p \in Reqs \ {r} : req'[p] = req[p]
    BY <1>5, <2>1 DEF StateOK
  <2>3. TargetOK(r)'
    BY <2>2, IdleTarget DEF FinishPoints
  <2>. QED
    BY <1>1, <1>2, <2>2, <2>3, OneTarget DEF SameProgress
<1>6. \/ Answer(r, "ok") \/ Answer(r, "err")
      \/ \E point \in ChunkPoints : Goto(r, point)
      \/ req' = [req EXCEPT ![r] = [@ EXCEPT !.pc = "chunkWrite", !.linked = TRUE]]
  BY DEF ChunkRead, ChunkMkdir, ChunkOpen, ChunkWrite, ChunkUpdate, ChunkPoints
<1>. QED
  BY <1>1, <1>3, <1>4, <1>5, <1>6, SMTT(60)
\* RemoveAll only takes staged files away.
LEMMA RemoveTarget ==
    ASSUME StateOK, MatchInv, NEW r \in Reqs, NEW s \in Sessions, RemoveTempDir(s),
           UNCHANGED <<target, node>>
    PROVE  /\ TargetFrame(r) /\ CommittedFileMatches'
           /\ \A p \in Reqs : SameProgress(Unlinked(s)[p], req[p])
<1>1. \A z \in Sessions : staged'[z] = staged[z] \/ ~ staged'[z].exists
  BY DEF RemoveTempDir, StateOK, NoSuchFile
<1>2. ASSUME NEW p \in Reqs PROVE SameProgress(Unlinked(s)[p], req[p])
  <2>1. req[p] \in Request
    BY DEF StateOK
  <2>. QED
    BY <2>1 DEF Unlinked, Request, SameProgress
<1>. QED
  BY <1>1, <1>2 DEF MatchInv, TargetFrame, CommittedFileMatches

\* The steps of Finish up to the copy: the target is created only where there
\* was none, and a slot is written only while no node describes the file.
LEMMA FinishWrites ==
    ASSUME OneFinisher, StateOK, FileInv, MatchInv, driver' = driver, NEW r \in Reqs,
           FinishStat(r) \/ FinishCreate(r) \/ FinishCopy(r)
    PROVE  MatchInv' /\ (node # NoNode => target' = target)
<1>. DEFINE q == req[r]
<1>0. /\ "err" \in Done /\ FinishPoints \subseteq Points
      /\ q \in Request /\ TargetOK(r) /\ CommittedFileMatches /\ target \in File
  BY DEF Done, Points, StateOK, MatchInv
<1>1. q.pc \in FinishPoints
  BY DEF FinishStat, FinishCreate, FinishCopy, At, FinishPoints
<1>2. q.id \in Sessions /\ r \in Finishers
  BY <1>0, <1>1 DEF TargetOK, FileInv, HandlerOK, SessionPoints
<1>b. ASSUME Answer(r, "err"), UNCHANGED <<target, staged, node>>
      PROVE  MatchInv' /\ target' = target
  BY <1>0, <1>b, SameTarget, AnswerTarget
<1>3. CASE FinishStat(r)
  <2>1. UNCHANGED <<target, staged, node>>
    BY <1>3 DEF FinishStat, disk
  <2>2. CASE ~ target.exists /\ Goto(r, "finishCreate")
    <3>1. /\ req'[r].pc = "finishCreate" /\ req'[r].off = q.off /\ req'[r].next = q.next
          /\ \A p \in Reqs \ {r} : req'[p] = req[p]
      BY <1>0, <2>2, GotoType DEF FinishPoints
    <3>2. q.off <= q.next
      BY <1>0, <1>3 DEF TargetOK, FinishStat, At
    <3>3. TargetOK(r)'
      BY <1>2, <2>1, <2>2, <3>1, <3>2 DEF TargetOK
    <3>. QED
      BY <2>1, <3>1, <3>3, SameTarget, OneTarget DEF SameProgress
  <2>. QED
    BY <1>3, <1>b, <2>1, <2>2 DEF FinishStat
<1>4. CASE FinishCreate(r)
  <2>0. node' = node /\ q.off <= q.next
    BY <1>0, <1>4 DEF FinishCreate, At, TargetOK
  <2>1. CASE driver = "local" /\ target' = EmptyFile /\ Goto(r, "finishCopy") /\ UNCHANGED staged
    <3>1. ~ target.exists /\ node = NoNode
      BY <1>0, <1>4, <2>1 DEF FinishCreate, At, TargetOK, CommittedFileMatches
    <3>2. /\ req'[r].pc = "finishCopy" /\ req'[r].off = q.off /\ req'[r].next = q.next
          /\ \A p \in Reqs \ {r} : req'[p] = req[p]
      BY <1>0, <2>1, GotoType DEF FinishPoints
    <3>3. target'.exists /\ \A k \in Idx : target'.data[k] = Gap
      BY <2>1 DEF EmptyFile
    <3>4. TargetOK(r)'
      BY <1>2, <2>0, <3>1, <3>2, <3>3, UploadAssumption DEF TargetOK
    <3>5. TargetFrame(r)
      BY <1>2, <3>1 DEF TargetFrame, Full
    <3>6. CommittedFileMatches'
      BY <2>0, <3>1 DEF CommittedFileMatches
    <3>. QED
      BY <3>1, <3>2, <3>4, <3>5, <3>6, OneTarget DEF SameProgress
  <2>2. CASE /\ driver = "import" /\ UNCHANGED target
             /\ req' = [req EXCEPT ![r] = [@ EXCEPT !.pc = "finishCopy", !.linked = TRUE]]
    <3>1. /\ [q EXCEPT !.pc = "finishCopy", !.linked = TRUE].pc = "finishCopy"
          /\ [q EXCEPT !.pc = "finishCopy", !.linked = TRUE].off = q.off
          /\ [q EXCEPT !.pc = "finishCopy", !.linked = TRUE].next = q.next
      BY <1>0 DEF Request
    <3>2. /\ req'[r].pc = "finishCopy" /\ req'[r].off = q.off /\ req'[r].next = q.next
          /\ \A p \in Reqs \ {r} : req'[p] = req[p]
      BY <2>2, <3>1 DEF StateOK
    <3>3. TargetOK(r)'
      BY <1>2, <2>0, <2>2, <3>2 DEF TargetOK
    <3>4. TargetFrame(r) /\ CommittedFileMatches'
      BY <1>0, <1>2, <2>0, <2>2, SMTT(60) DEF TargetFrame, CommittedFileMatches
    <3>. QED
      BY <2>2, <3>2, <3>3, <3>4, OneTarget DEF SameProgress
  <2>. QED
    BY <1>4, <1>b, <2>0, <2>1, <2>2 DEF FinishCreate
<1>5. CASE FinishCopy(r)
  <2>0. node' = node /\ q.off <= q.next /\ q.pc = "finishCopy"
    BY <1>0, <1>5 DEF FinishCopy, At, TargetOK
  <2>. DEFINE data == chunk[q.id][q.next]
              a == [q EXCEPT !.next = q.next + 1, !.off = q.off + 1]
              b == [q EXCEPT !.next = q.next + 1]
  <2>a. /\ a.pc = "finishCopy" /\ a.next = q.next + 1 /\ a.off = q.off + 1
        /\ b.pc = "finishCopy" /\ b.next = q.next + 1 /\ b.off = q.off
    BY <1>0, <2>0 DEF Request
  <2>1. CASE /\ q.next < N /\ data \in Contents
             /\ target' = IF driver = "local" THEN Written(target, q.off, data) ELSE target
             /\ req' = [req EXCEPT ![r] = [@ EXCEPT !.next = q.next + 1, !.off = q.off + 1]]
    <3>1. /\ req'[r].pc = "finishCopy" /\ req'[r].off = q.off + 1 /\ req'[r].next = q.next + 1
          /\ \A p \in Reqs \ {r} : req'[p] = req[p]
      BY <2>1, <2>a DEF StateOK
    <3>2. req'[r].off <= req'[r].next
      BY <1>0, <2>0, <3>1 DEF Request
    <3>3. CASE driver = "local"
      <4>1. q.off \in Idx
        BY <1>0, <2>0, <2>1, UploadAssumption DEF Request, Idx
      <4>2. /\ target.exists /\ node # NoHash
            /\ \A k \in Idx : q.off <= k => target.data[k] = Gap
        BY <1>0, <2>0, <3>3 DEF TargetOK
      <4>3. target.data[q.off] = Gap
        BY <1>0, <4>1, <4>2 DEF Request
      <4>4. node = NoNode
        BY <1>0, <4>1, <4>2, <4>3, UploadAssumption DEF CommittedFileMatches, StateOK
      <4>5. target'.exists /\ \A k \in Idx : k # q.off => target'.data[k] = target.data[k]
        BY <1>0, <2>1, <3>3, <4>1, <4>2 DEF Written, File
      <4>6. \A k \in Idx : q.off + 1 <= k => target'.data[k] = Gap
        BY <1>0, <4>2, <4>5 DEF Request, Idx
      <4>7. TargetOK(r)'
        BY <1>2, <2>0, <3>1, <3>2, <4>2, <4>5, <4>6 DEF TargetOK
      <4>8. TargetFrame(r)
        BY <1>2, <4>1, <4>3 DEF TargetFrame, Full
      <4>9. CommittedFileMatches'
        BY <2>0, <4>4 DEF CommittedFileMatches
      <4>. QED
        BY <3>1, <4>4, <4>7, <4>8, <4>9, OneTarget DEF SameProgress
    <3>4. CASE driver # "local"
      <4>1. target' = target
        BY <2>1, <3>4
      <4>2. TargetOK(r)'
        BY <1>2, <3>1, <3>2, <3>4 DEF TargetOK
      <4>3. TargetFrame(r) /\ CommittedFileMatches'
        BY <1>0, <1>2, <2>0, <4>1 DEF TargetFrame, CommittedFileMatches
      <4>. QED
        BY <3>1, <4>1, <4>2, <4>3, OneTarget DEF SameProgress
    <3>. QED
      BY <3>3, <3>4
  <2>2. CASE /\ req' = [req EXCEPT ![r] = [@ EXCEPT !.next = q.next + 1]]
             /\ UNCHANGED <<target, staged>>
    <3>1. /\ req'[r].pc = "finishCopy" /\ req'[r].off = q.off /\ req'[r].next = q.next + 1
          /\ \A p \in Reqs \ {r} : req'[p] = req[p]
      BY <2>2, <2>a DEF StateOK
    <3>2. q.off <= q.next + 1
      BY <1>0, <2>0 DEF Request
    <3>3. TargetOK(r)'
      BY <1>0, <1>2, <2>0, <2>2, <3>1, <3>2 DEF TargetOK
    <3>. QED
      BY <2>0, <2>2, <3>1, <3>3, SameTarget, OneTarget DEF SameProgress
  <2>3. CASE Goto(r, "finishHash") /\ UNCHANGED <<target, staged>>
    <3>1. req'[r].pc = "finishHash" /\ \A p \in Reqs \ {r} : req'[p] = req[p]
      BY <1>0, <2>3, GotoType DEF FinishPoints
    <3>2. TargetOK(r)'
      BY <1>2, <3>1 DEF TargetOK
    <3>. QED
      BY <2>0, <2>3, <3>1, <3>2, SameTarget, OneTarget DEF SameProgress
  <2>. QED
    BY <1>5, <1>b, <2>0, <2>1, <2>2, <2>3, SMTT(60) DEF FinishCopy
<1>. QED
  BY <1>3, <1>4, <1>5

\* The rest of Finish: only a file with the session's hash gets its node.
LEMMA FinishCommits ==
    ASSUME OneFinisher, StateOK, FileInv, MatchInv, driver' = driver, NEW r \in Reqs,
           FinishHash(r) \/ FinishImport(r) \/ FinishCommit(r) \/ FinishRemove(r) \/ FinishDelete(r)
    PROVE  MatchInv' /\ (node # NoNode => target' = target)
<1>. DEFINE q == req[r]
<1>0. /\ "err" \in Done /\ "ok" \in Done /\ FinishPoints \subseteq Points
      /\ q \in Request /\ TargetOK(r) /\ CommittedFileMatches
  BY DEF Done, Points, StateOK, MatchInv
<1>1. q.pc \in FinishPoints
  BY DEF FinishHash, FinishImport, FinishCommit, FinishRemove, FinishDelete, At, FinishPoints
<1>2. q.id \in Sessions /\ r \in Finishers
  BY <1>0, <1>1 DEF TargetOK, FileInv, HandlerOK, SessionPoints
<1>b. ASSUME Answer(r, "err") \/ Answer(r, "ok"), UNCHANGED <<target, staged, node>>
      PROVE  MatchInv' /\ target' = target
  BY <1>0, <1>b, SameTarget, AnswerTarget
<1>c. ASSUME NEW point \in FinishPoints, Goto(r, point)
      PROVE  /\ req'[r].pc = point /\ req'[r].id = q.id /\ req'[r].hash = q.hash
             /\ \A p \in Reqs \ {r} : req'[p] = req[p]
  BY <1>0, <1>c, GotoType DEF SameSession
<1>3. CASE FinishHash(r)
  <2>1. UNCHANGED <<target, staged, node>>
    BY <1>3 DEF FinishHash, disk
  <2>2. CASE /\ Output(r).exists /\ Accepted(Output(r), q.hash)
             /\ Goto(r, IF driver = "local" THEN "finishCommit" ELSE "finishImport")
    <3>1. /\ req'[r].pc = IF driver = "local" THEN "finishCommit" ELSE "finishImport"
          /\ req'[r].id = q.id /\ req'[r].hash = q.hash
          /\ \A p \in Reqs \ {r} : req'[p] = req[p]
      BY <1>c, <2>2, SMTT(60) DEF FinishPoints
    <3>2. TargetOK(r)'
      BY <1>2, <2>1, <2>2, <3>1 DEF TargetOK, Output, Accepted, HashIs
    <3>. QED
      BY <2>1, <3>1, <3>2, SameTarget, OneTarget DEF SameProgress
  <2>. QED
    BY <1>3, <1>b, <2>1, <2>2 DEF FinishHash, Accepted
<1>4. CASE FinishImport(r)
  <2>0. node' = node /\ staged' = staged
    BY <1>4 DEF FinishImport
  <2>1. CASE ~ target.exists /\ staged[q.id].exists /\ target' = staged[q.id] /\ Goto(r, "finishCommit")
    <3>1. Accepted(staged[q.id], q.hash)
      BY <1>0, <1>4, <2>1 DEF FinishImport, At, TargetOK
    <3>2. node = NoNode
      BY <1>0, <2>1 DEF CommittedFileMatches
    <3>3. /\ req'[r].pc = "finishCommit" /\ req'[r].hash = q.hash
          /\ \A p \in Reqs \ {r} : req'[p] = req[p]
      BY <1>c, <2>1 DEF FinishPoints
    <3>4. TargetOK(r)'
      BY <1>2, <2>1, <3>1, <3>3 DEF TargetOK, Accepted, HashIs
    <3>5. TargetFrame(r) /\ CommittedFileMatches'
      BY <1>2, <2>0, <2>1, <3>2 DEF TargetFrame, Full, CommittedFileMatches
    <3>. QED
      BY <3>2, <3>3, <3>4, <3>5, OneTarget DEF SameProgress
  <2>. QED
    BY <1>4, <1>b, <2>0, <2>1 DEF FinishImport
<1>5. CASE FinishCommit(r)
  <2>0. target' = target /\ staged' = staged
    BY <1>5 DEF FinishCommit, disk
  <2>1. CASE node' = q.hash /\ Goto(r, "finishRemove")
    <3>1. target.exists /\ Accepted(target, q.hash)
      BY <1>0, <1>5 DEF FinishCommit, At, TargetOK
    <3>2. CommittedFileMatches'
      BY <2>0, <2>1, <3>1 DEF CommittedFileMatches, Accepted, HashIs
    <3>3. req'[r].pc = "finishRemove" /\ \A p \in Reqs \ {r} : req'[p] = req[p]
      BY <1>c, <2>1 DEF FinishPoints
    <3>4. TargetOK(r)'
      BY <1>2, <3>3 DEF TargetOK
    <3>5. TargetFrame(r)
      BY <1>2, <2>0 DEF TargetFrame
    <3>. QED
      BY <2>0, <3>2, <3>3, <3>4, <3>5, OneTarget DEF SameProgress
  <2>. QED
    BY <1>5, <1>b, <2>0, <2>1 DEF FinishCommit
<1>6. CASE FinishRemove(r)
  <2>1. /\ TargetFrame(r) /\ CommittedFileMatches' /\ target' = target
        /\ \A p \in Reqs : SameProgress(Unlinked(q.id)[p], req[p])
    BY <1>2, <1>6, RemoveTarget DEF FinishRemove
  <2>2. Unlinked(q.id) \in [Reqs -> Request]
    BY <1>6, RemoveType DEF FinishRemove
  <2>3. [Unlinked(q.id)[r] EXCEPT !.pc = "finishDelete"].pc = "finishDelete"
    BY <1>0, <2>2, PcUpdate DEF FinishPoints
  <2>4. req' = [Unlinked(q.id) EXCEPT ![r] = [Unlinked(q.id)[r] EXCEPT !.pc = "finishDelete"]]
    BY <1>6, <2>2 DEF FinishRemove
  <2>5. req'[r].pc = "finishDelete" /\ \A p \in Reqs \ {r} : req'[p] = Unlinked(q.id)[p]
    BY <2>2, <2>3, <2>4
  <2>6. TargetOK(r)'
    BY <1>2, <2>5 DEF TargetOK
  <2>. QED
    BY <2>1, <2>5, <2>6, OneTarget
<1>7. CASE FinishDelete(r)
  BY <1>7, <1>b DEF FinishDelete, disk
<1>. QED
  BY <1>3, <1>4, <1>5, <1>6, <1>7

LEMMA CancelTarget ==
    ASSUME OneFinisher, StateOK, FileInv, MatchInv, driver' = driver, NEW r \in Reqs,
           CancelDelete(r) \/ CancelRemove(r)
    PROVE  MatchInv' /\ target' = target
<1>0. "err" \in Done /\ "ok" \in Done /\ "cancelRemove" \in Points
  BY DEF Done, Points, CancelPoints
<1>1. PICK s \in Sessions : s = req[r].id
  BY DEF CancelDelete, CancelRemove, At, FileInv, HandlerOK, SessionPoints, CancelPoints
<1>2. CASE CancelDelete(r)
  <2>1. UNCHANGED <<target, staged, node>>
    BY <1>2 DEF CancelDelete, disk
  <2>2. CASE Goto(r, "cancelRemove")
    BY <1>0, <2>1, <2>2, SameTarget, MoveTarget DEF FinishPoints
  <2>3. CASE Answer(r, "err")
    BY <1>0, <2>1, <2>3, SameTarget, AnswerTarget
  <2>. QED
    BY <1>2, <2>2, <2>3 DEF CancelDelete
<1>3. CASE CancelRemove(r)
  <2>1. /\ TargetFrame(r) /\ CommittedFileMatches' /\ target' = target
        /\ \A p \in Reqs : SameProgress(Unlinked(s)[p], req[p])
    BY <1>1, <1>3, RemoveTarget DEF CancelRemove
  <2>2. Unlinked(s) \in [Reqs -> Request]
    BY <1>1, <1>3, RemoveType DEF CancelRemove
  <2>3. [NoRequest EXCEPT !.pc = "ok"].pc = "ok"
    BY NoRequestType, PcUpdate DEF Points, Done
  <2>4. req'[r].pc = "ok" /\ \A p \in Reqs \ {r} : req'[p] = Unlinked(s)[p]
    BY <1>1, <1>3, <2>2, <2>3 DEF CancelRemove
  <2>5. TargetOK(r)'
    BY <2>4, IdleTarget DEF FinishPoints
  <2>. QED
    BY <2>1, <2>4, <2>5, OneTarget
<1>. QED
  BY <1>2, <1>3

LEMMA EnvironmentTarget ==
    ASSUME StateOK, MatchInv, driver' = driver, (\E s \in Sessions : Expire(s)) \/ Crash
    PROVE  MatchInv' /\ target' = target
<1>1. UNCHANGED <<target, staged, node>>
  BY DEF Expire, Crash, disk
<1>2. CommittedFileMatches'
  BY <1>1 DEF MatchInv, CommittedFileMatches
<1>3. ASSUME NEW p \in Reqs PROVE TargetOK(p)'
  <2>1. CASE req' = req
    BY <1>1, <2>1 DEF MatchInv, TargetOK, Accepted, HashIs
  <2>2. CASE Crash
    <3>1. [NoRequest EXCEPT !.pc = "err"].pc = "err"
      BY NoRequestType, PcUpdate DEF Points, Done
    <3>2. req'[p].pc = "err"
      BY <2>2, <3>1 DEF Crash
    <3>. QED
      BY <3>2, IdleTarget DEF FinishPoints
  <2>. QED
    BY <2>1, <2>2 DEF Expire
<1>. QED
  BY <1>1, <1>2, <1>3 DEF MatchInv

LEMMA MatchStep ==
    ASSUME OneFinisher, StateOK, FileInv, MatchInv, [Next]_vars
    PROVE  MatchInv' /\ (node # NoNode => target' = target)
<1>1. CASE UNCHANGED vars
  <2>1. UNCHANGED <<target, staged, node, req, driver>>
    BY <1>1 DEF vars
  <2>. QED
    BY <2>1 DEF MatchInv, TargetOK, CommittedFileMatches, Accepted, HashIs
<1>2. CASE Next
  <2>0. driver' = driver /\ 0 \in Idx
    BY <1>2, UploadAssumption DEF Next, Idx
  <2>1. ASSUME NEW r \in Reqs, Begin(r) PROVE MatchInv' /\ target' = target
    <3>1. ASSUME NEW s \in Sessions, NEW i \in Idx, NEW d \in Contents, ChunkFind(r, s, i, d)
          PROVE  MatchInv' /\ target' = target
      BY <2>0, <3>1, FindTarget DEF ChunkFind
    <3>2. ASSUME NEW s \in Sessions, FinishFind(r, s) PROVE MatchInv' /\ target' = target
      <4>1. CASE Find(r, s, IF driver = "local" THEN "finishStat" ELSE "finishCreate", 0, NoFile)
        <5>1. r \in Finishers
          BY <3>2 DEF FinishFind
        <5>. QED
          BY <2>0, <4>1, <5>1, FindTarget
      <4>2. CASE Answer(r, "err") /\ UNCHANGED <<row, disk, node, journal, faults, committed>>
        BY <2>0, <4>2, SameTarget, AnswerTarget DEF disk, Done
      <4>. QED
        BY <3>2, <4>1, <4>2 DEF FinishFind
    <3>3. ASSUME NEW s \in Sessions, CancelFind(r, s) PROVE MatchInv' /\ target' = target
      BY <2>0, <3>3, FindTarget DEF CancelFind
    <3>. QED
      BY <2>0, <2>1, <3>1, <3>2, <3>3, InitTarget DEF Begin
  <2>2. ASSUME NEW r \in Reqs, Continue(r) PROVE MatchInv' /\ (node # NoNode => target' = target)
    BY <2>0, <2>2, InitTarget, ChunkTarget, FinishWrites, FinishCommits, CancelTarget DEF Continue
  <2>. QED
    BY <1>2, <2>0, <2>1, <2>2, EnvironmentTarget DEF Next
<1>. QED
  BY <1>1, <1>2

\* The committed node carries the checksum of the bytes on the storage source,
\* for every interleaving of Init, UploadChunk, Finish, Cancel, faults and
\* crashes, provided one goroutine at a time serves Finish (two that finish the
\* same name can each pass the os.Stat of finishLocal).
THEOREM CommittedFilesMatch ==
    ASSUME OneFinisher
    PROVE  Spec => []CommittedFileMatches
<1>1. Init => StateOK /\ FileInv /\ MatchInv
  BY TypeInit, FileInit, MatchInit
<1>2. StateOK /\ FileInv /\ MatchInv /\ [Next]_vars => StateOK' /\ FileInv' /\ MatchInv'
  BY TypeStep, FileStep, MatchStep
<1>3. MatchInv => CommittedFileMatches
  BY DEF MatchInv
<1>. QED
  BY <1>1, <1>2, <1>3, PTL DEF Spec

\* Once a file has been committed no upload changes its bytes, under the same
\* condition (finishLocal's ErrFileAlreadyExists, the driver's for an import).
THEOREM CommittedFilesStay ==
    ASSUME OneFinisher
    PROVE  Spec => NoOverwrite
<1>1. Init => StateOK /\ FileInv /\ MatchInv
  BY TypeInit, FileInit, MatchInit
<1>2. StateOK /\ FileInv /\ MatchInv /\ [Next]_vars => StateOK' /\ FileInv' /\ MatchInv'
  BY TypeStep, FileStep, MatchStep
<1>3. StateOK /\ FileInv /\ MatchInv /\ [Next]_vars => [node # NoNode => target' = target]_vars
  BY MatchStep
<1>. QED
  BY <1>1, <1>2, <1>3, PTL DEF Spec, NoOverwrite

-----------------------------------------------------------------------------
(* The client of UploadClient, against any number of handlers of which some  *)
(* still serve calls that it has given up                                    *)

\* The file on the user's disk, complete.
Holds(file) == file.exists /\ \A k \in Idx : file.data[k] = Content
Finishing(r) == req[r].pc \in FinishPoints

\* The client awaits one answer at a time, but for the chunks of a session.
Conversation ==
    \A r \in Reqs :
        /\ sent[r] = "chunk" => client.status \in {"sending", "error"}
        /\ sent[r] \in {"init", "finish"} =>
              /\ client.status = "uploading"
              /\ \A q \in Reqs \ {r} : sent[q] = "nothing"

\* A handler and the call it serves: what an answer that the client still
\* awaits will tell it.
Exchange(r) ==
    LET q == req[r]
    IN  /\ ~ Free(r) => q.hash = Content
        /\ q.pc \notin CancelPoints
        /\ sent[r] = "init" => q.pc \in InitPoints \cup Done /\ (q.pc = "ok" => q.id \in Sessions)
        /\ sent[r] = "finish" => q.pc \in FinishPoints \cup Done /\ (q.pc = "ok" => node # NoNode)
        /\ q.pc \in {"fast", "finishRemove", "finishDelete"} => node # NoNode
        /\ Finishing(r) => row[q.id].status # "absent"
        /\ driver = "import" => q.pc \notin {"initCommit", "initFind", "initMkdir"}

RowsOK == \A s \in Sessions : row[s].status # "absent" => row[s].hash = Content
NodeOK == node \in {NoNode, Content}
ClientOK ==
    /\ client.todo # {} \/ client.status = "sending" => client.id \in Sessions
    /\ client.status = "success" => node # NoNode

\* The inductive invariant behind SuccessIsCommitted.
ClientInv ==
    /\ Conversation
    /\ \A r \in Reqs : Exchange(r)
    /\ RowsOK /\ NodeOK /\ ClientOK

\* Init of an import source never hands a session back, so a session is
\* finished once, even by a client that starts over.
OneFinish ==
    /\ \A p, q \in Reqs : Finishing(p) /\ Finishing(q) /\ p # q => req[p].id # req[q].id
    /\ \A q \in Reqs : Finishing(q) =>
          /\ client.status = "sending" => req[q].id # client.id
          /\ \A r \in Reqs : sent[r] = "init" /\ req[r].pc = "ok" => req[q].id # req[r].id

\* What that Finish relies on: nobody else writes its assembled-upload file,
\* and nobody changes an imported target.
ImportOK(r) ==
    /\ req[r].pc = "finishImport" /\ staged[req[r].id].exists => Holds(staged[req[r].id])
    /\ req[r].pc = "finishCommit" => Holds(target)

ImportInv ==
    driver = "import" =>
        /\ OneFinish
        /\ \A r \in Reqs : ImportOK(r)
        /\ node # NoNode => Holds(target)

\* A Finish that has written the whole target and has yet to commit it.
Committing(r) ==
    \/ req[r].pc = "finishCommit"
    \/ driver = "local" /\ req[r].pc = "finishHash"
    \/ driver = "local" /\ req[r].pc = "finishCopy" /\ req[r].next = N

\* The inductive invariant behind UncommittedFileJournalled.
TraceInv ==
    ~upset /\ Holds(target) /\ node = NoNode =>
        journal # {} \/ \E r \in Reqs : Committing(r)

\* What a step leaves to the handlers it does not move.
Others(r) == \A p \in Reqs \ {r} : SameProgress(req'[p], req[p])
Kept ==
    /\ \A s \in Sessions : row[s].status # "absent" => row'[s].status # "absent"
    /\ node # NoNode => node' # NoNode

-----------------------------------------------------------------------------
(* The handlers, as the client knows them *)

LEMMA ClientTypeInit == ClientInit => ClientTypeOK
<1>1. ClientInit => StateOK /\ driver \in Drivers
  BY TypeInit DEF ClientInit, Init
<1>2. ClientInit => /\ client.status = "pending" /\ client.id = NoSession /\ client.todo = {}
                   /\ client \in [status : {"pending", "uploading", "sending", "success", "error"},
                                  id : Sessions \cup {NoSession}, todo : SUBSET Idx]
  BY DEF ClientInit
<1>3. ClientInit => sent \in [Reqs -> Awaits] /\ lanes \in Lanes /\ upset \in BOOLEAN
  BY DEF ClientInit, Awaits
<1>. QED
  BY <1>1, <1>2, <1>3 DEF ClientTypeOK, TypeOK

LEMMA ClientInvInit == ClientInit => ClientInv
  BY NoRequestType
  DEF ClientInit, Init, ClientInv, Conversation, Exchange, RowsOK, NodeOK, ClientOK, Free, Done,
      Finishing, FinishPoints, CancelPoints, InitPoints

LEMMA SafeInit == ClientInit => ImportInv /\ TraceInv
  BY NoRequestType
  DEF ClientInit, Init, ImportInv, OneFinish, ImportOK, TraceInv, Finishing, FinishPoints, Holds,
      NoSuchFile

LEMMA OtherExchange ==
    ASSUME FileInv, NEW p \in Reqs, Exchange(p), SameProgress(req'[p], req[p]), Kept,
           sent'[p] = sent[p], driver' = driver
    PROVE  Exchange(p)'
<1>1. Finishing(p) => req[p].id \in Sessions
  BY DEF FileInv, HandlerOK, SessionPoints, Finishing
<1>. QED
  BY <1>1 DEF Exchange, SameProgress, Kept, Finishing, Free

\* An answer other than to a Finish, and one that the client does not await.
LEMMA AnsweredExchange ==
    ASSUME NEW r \in Reqs, req'[r].pc \in Done, req'[r].pc = "fast" => node' # NoNode,
           sent'[r] = "init" /\ req'[r].pc = "ok" => req'[r].id \in Sessions,
           sent'[r] = "finish" /\ req'[r].pc = "ok" => node' # NoNode
    PROVE  Exchange(r)'
  BY DEF Exchange, Free, Done, Finishing, FinishPoints, CancelPoints

\* A handler at a point of Init or UploadChunk.
LEMMA MovedExchange ==
    ASSUME NEW r \in Reqs, req'[r].pc \in InitPoints \cup ChunkPoints, req'[r].hash = Content,
           sent'[r] = "init" => req'[r].pc \in InitPoints, sent'[r] # "finish",
           driver' = "import" => req'[r].pc \notin {"initCommit", "initFind", "initMkdir"}
    PROVE  Exchange(r)'
  BY DEF Exchange, Free, Done, Finishing, FinishPoints, CancelPoints, InitPoints, ChunkPoints

LEMMA InitExchange ==
    ASSUME StateOK, FileInv, ClientInv, NEW r \in Reqs,
           InitCommit(r) \/ InitFind(r) \/ InitCreate(r) \/ InitMkdir(r),
           sent' = sent, driver' = driver
    PROVE  /\ Exchange(r)' /\ Others(r) /\ Kept /\ RowsOK' /\ NodeOK'
           /\ req'[r].pc \notin FinishPoints
           /\ driver = "import" /\ req'[r].pc = "ok" => row[req'[r].id].status = "absent"
<1>. DEFINE q == req[r]
<1>0. /\ q \in Request /\ Exchange(r) /\ RowsOK /\ NodeOK
      /\ "ok" \in Done /\ "err" \in Done /\ "fast" \in Done /\ {} \in SUBSET Idx
  BY DEF StateOK, ClientInv, Done
<1>1. /\ q.pc \in InitPoints /\ q.hash = Content /\ sent[r] # "finish"
      /\ driver = "import" => q.pc = "initCreate"
  BY <1>0 DEF InitCommit, InitFind, InitCreate, InitMkdir, At, InitPoints, Exchange, Free, Done,
              FinishPoints
<1>2. CASE InitCommit(r)
  <2>1. row' = row /\ Kept /\ NodeOK' /\ RowsOK'
    BY <1>0, <1>1, <1>2, UploadAssumption, ClientAssumption
    DEF InitCommit, Kept, NodeOK, RowsOK
  <2>2. CASE node' = q.hash /\ Answer(r, "fast")
    <3>1. req'[r].pc = "fast" /\ \A p \in Reqs \ {r} : req'[p] = req[p]
      BY <1>0, <2>2, AnswerType
    <3>2. node' # NoNode
      BY <1>1, <2>2, UploadAssumption, ClientAssumption
    <3>. QED
      BY <1>0, <2>1, <3>1, <3>2, AnsweredExchange DEF Others, SameProgress, FinishPoints
  <2>3. CASE Answer(r, "err")
    <3>1. req'[r].pc = "err" /\ \A p \in Reqs \ {r} : req'[p] = req[p]
      BY <1>0, <2>3, AnswerType
    <3>. QED
      BY <1>0, <2>1, <3>1, AnsweredExchange DEF Others, SameProgress, FinishPoints
  <2>. QED
    BY <1>2, <2>2, <2>3 DEF InitCommit
<1>3. CASE InitFind(r)
  <2>1. UNCHANGED <<row, node>> /\ Kept /\ NodeOK' /\ RowsOK' /\ driver # "import"
    BY <1>0, <1>1, <1>3 DEF InitFind, At, Kept, NodeOK, RowsOK
  <2>2. ASSUME NEW s \in ActiveSessions(q.hash), AnswerSession(r, s, row[s].uploaded)
        PROVE  /\ req'[r].pc = "ok" /\ req'[r].id = s /\ s \in Sessions
               /\ \A p \in Reqs \ {r} : req'[p] = req[p]
    <3>1. s \in Sessions /\ row[s].uploaded \in SUBSET Idx
      BY DEF ActiveSessions, StateOK, Row
    <3>2. [NoRequest EXCEPT !.pc = "ok", !.id = s, !.uploaded = row[s].uploaded].id = s
      BY DEF NoRequest
    <3>3. req'[r].id = s
      BY <2>2, <3>2 DEF AnswerSession, StateOK
    <3>. QED
      BY <2>2, <3>1, <3>3, AnswerSessionType
  <2>3. CASE \E s \in ActiveSessions(q.hash) : AnswerSession(r, s, row[s].uploaded)
    BY <1>0, <1>1, <2>1, <2>2, <2>3, AnsweredExchange DEF Others, SameProgress, FinishPoints
  <2>4. CASE Goto(r, "initCreate")
    <3>1. /\ req'[r].pc = "initCreate" /\ req'[r].hash = Content
          /\ \A p \in Reqs \ {r} : req'[p] = req[p]
      BY <1>1, <2>4, GotoType DEF Points, InitPoints, SameSession
    <3>. QED
      BY <1>1, <2>1, <3>1, MovedExchange DEF Others, SameProgress, FinishPoints, InitPoints
  <2>. QED
    BY <1>3, <2>3, <2>4 DEF InitFind
<1>4. CASE InitCreate(r)
  <2>1. UNCHANGED node /\ NodeOK'
    BY <1>0, <1>4 DEF InitCreate, NodeOK
  <2>2. CASE row' = row /\ Answer(r, "err")
    <3>1. req'[r].pc = "err" /\ \A p \in Reqs \ {r} : req'[p] = req[p]
      BY <1>0, <2>2, AnswerType
    <3>. QED
      BY <1>0, <2>1, <2>2, <3>1, AnsweredExchange
      DEF Others, SameProgress, FinishPoints, Kept, RowsOK
  <2>3. ASSUME NEW s \in Sessions, row[s].status = "absent",
               row' = [row EXCEPT ![s] = [status |-> "uploading", hash |-> q.hash,
                                          uploaded |-> {}, expired |-> FALSE]],
               IF driver = "local"
               THEN req' = [req EXCEPT ![r] = [@ EXCEPT !.pc = "initMkdir", !.id = s]]
               ELSE AnswerSession(r, s, {})
        PROVE  /\ Exchange(r)' /\ Others(r) /\ Kept /\ RowsOK' /\ NodeOK'
               /\ req'[r].pc \notin FinishPoints
               /\ driver = "import" /\ req'[r].pc = "ok" => row[req'[r].id].status = "absent"
    <3>1. /\ row'[s].status = "uploading" /\ row'[s].hash = Content
          /\ \A z \in Sessions \ {s} : row'[z] = row[z]
      BY <1>1, <2>3 DEF StateOK
    <3>2. Kept /\ RowsOK'
      BY <1>0, <2>1, <2>3, <3>1 DEF Kept, RowsOK
    <3>3. CASE driver = "local"
      <4>1. /\ [q EXCEPT !.pc = "initMkdir", !.id = s].pc = "initMkdir"
            /\ [q EXCEPT !.pc = "initMkdir", !.id = s].hash = q.hash
        BY <1>0 DEF Request
      <4>2. /\ req'[r].pc = "initMkdir" /\ req'[r].hash = Content
            /\ \A p \in Reqs \ {r} : req'[p] = req[p]
        BY <1>1, <2>3, <3>3, <4>1 DEF StateOK
      <4>. QED
        BY <1>1, <2>1, <3>2, <3>3, <4>2, MovedExchange DEF Others, SameProgress, FinishPoints, InitPoints
    <3>4. CASE driver # "local"
      <4>1. [NoRequest EXCEPT !.pc = "ok", !.id = s, !.uploaded = {}].id = s
        BY DEF NoRequest
      <4>2. /\ req'[r].pc = "ok" /\ req'[r].id = s
            /\ \A p \in Reqs \ {r} : req'[p] = req[p]
        BY <1>0, <2>3, <3>4, <4>1, AnswerSessionType, ZenonT(60) DEF AnswerSession, StateOK
      <4>. QED
        BY <1>0, <1>1, <2>1, <2>3, <3>2, <4>2, AnsweredExchange DEF Others, SameProgress, FinishPoints
    <3>. QED
      BY <3>3, <3>4
  <2>. QED
    BY <1>4, <2>2, <2>3 DEF InitCreate
<1>5. CASE InitMkdir(r)
  <2>1. UNCHANGED <<row, node>> /\ Kept /\ NodeOK' /\ RowsOK' /\ driver # "import"
    BY <1>0, <1>1, <1>5 DEF InitMkdir, At, Kept, NodeOK, RowsOK
  <2>2. q.id \in Sessions
    BY <1>5 DEF InitMkdir, At, FileInv, HandlerOK, SessionPoints
  <2>3. CASE AnswerSession(r, q.id, {})
    <3>1. [NoRequest EXCEPT !.pc = "ok", !.id = q.id, !.uploaded = {}].id = q.id
      BY DEF NoRequest
    <3>2. req'[r].id = q.id
      BY <2>3, <3>1 DEF AnswerSession, StateOK
    <3>3. req'[r].pc = "ok" /\ \A p \in Reqs \ {r} : req'[p] = req[p]
      BY <1>0, <2>2, <2>3, AnswerSessionType
    <3>. QED
      BY <1>0, <1>1, <2>1, <2>2, <3>2, <3>3, AnsweredExchange DEF Others, SameProgress, FinishPoints
  <2>4. CASE Answer(r, "err")
    <3>1. req'[r].pc = "err" /\ \A p \in Reqs \ {r} : req'[p] = req[p]
      BY <1>0, <2>4, AnswerType
    <3>. QED
      BY <1>0, <2>1, <3>1, AnsweredExchange DEF Others, SameProgress, FinishPoints
  <2>. QED
    BY <1>5, <2>3, <2>4 DEF InitMkdir
<1>. QED
  BY <1>2, <1>3, <1>4, <1>5

LEMMA ChunkExchange ==
    ASSUME StateOK, FileInv, ClientInv, NEW r \in Reqs,
           ChunkRead(r) \/ ChunkMkdir(r) \/ ChunkOpen(r) \/ ChunkWrite(r) \/ ChunkUpdate(r),
           sent' = sent, driver' = driver
    PROVE  /\ Exchange(r)' /\ Others(r) /\ Kept /\ RowsOK' /\ NodeOK'
           /\ req'[r].pc \notin FinishPoints /\ sent[r] # "init"
<1>. DEFINE q == req[r]
<1>0. /\ q \in Request /\ Exchange(r) /\ RowsOK /\ NodeOK
      /\ "ok" \in Done /\ "err" \in Done
  BY SMTT(60) DEF StateOK, ClientInv, Done
<1>1. q.pc \in ChunkPoints
  BY DEF ChunkRead, ChunkMkdir, ChunkOpen, ChunkWrite, ChunkUpdate, At, ChunkPoints
<1>2. q.hash = Content /\ sent[r] # "finish" /\ sent[r] # "init" /\ q.id \in Sessions
  BY <1>0, <1>1, SMTT(60) DEF ChunkPoints, Exchange, Free, Done, FinishPoints, InitPoints, FileInv, HandlerOK,
                    SessionPoints
<1>3. node' = node /\ NodeOK' /\ Kept /\ RowsOK'
  <2>1. node' = node
    BY DEF ChunkRead, ChunkMkdir, ChunkOpen, ChunkWrite, ChunkUpdate
  <2>2. CASE row' = row
    BY <1>0, <2>1, <2>2 DEF NodeOK, Kept, RowsOK
  <2>3. CASE RepoUpdateAffects(q.id) /\ RepoUpdate(q.id, q.uploaded \cup {q.index})
    <3>0. row \in [Sessions -> Row] /\ row[q.id] \in Row
      BY <1>2 DEF StateOK
    <3>1. /\ \A s \in Sessions \ {q.id} : row'[s] = row[s]
          /\ row'[q.id].hash = row[q.id].hash /\ row'[q.id].status = "uploading"
      BY <1>2, <2>3, <3>0 DEF RepoUpdate, Row
    <3>2. row[q.id].status # "absent"
      BY <2>3 DEF RepoUpdateAffects, RowExists
    <3>. QED
      BY <1>0, <1>2, <2>1, <3>1, <3>2 DEF NodeOK, Kept, RowsOK
  <2>. QED
    BY <2>2, <2>3, SMTT(60) DEF ChunkRead, ChunkMkdir, ChunkOpen, ChunkWrite, ChunkUpdate
<1>4. ASSUME NEW code \in {"ok", "err"}, Answer(r, code)
      PROVE  Exchange(r)' /\ Others(r) /\ req'[r].pc \notin FinishPoints
  <2>1. req'[r].pc = code /\ \A p \in Reqs \ {r} : req'[p] = req[p]
    BY <1>0, <1>4, AnswerType
  <2>. QED
    BY <1>0, <1>2, <2>1, AnsweredExchange DEF Others, SameProgress, FinishPoints
<1>5. ASSUME NEW point \in ChunkPoints, Goto(r, point)
      PROVE  Exchange(r)' /\ Others(r) /\ req'[r].pc \notin FinishPoints
  <2>1. /\ req'[r].pc = point /\ req'[r].hash = Content
        /\ \A p \in Reqs \ {r} : req'[p] = req[p]
    BY <1>2, <1>5, GotoType DEF Points, SameSession
  <2>. QED
    BY <1>2, <2>1, MovedExchange DEF Others, SameProgress, FinishPoints, ChunkPoints
<1>6. CASE req' = [req EXCEPT ![r] = [q EXCEPT !.pc = "chunkWrite", !.linked = TRUE]]
  <2>1. /\ [q EXCEPT !.pc = "chunkWrite", !.linked = TRUE].pc = "chunkWrite"
        /\ [q EXCEPT !.pc = "chunkWrite", !.linked = TRUE].hash = q.hash
    BY <1>0 DEF Request
  <2>2. /\ req'[r].pc = "chunkWrite" /\ req'[r].hash = Content
        /\ \A p \in Reqs \ {r} : req'[p] = req[p]
    BY <1>2, <1>6, <2>1, SMTT(60) DEF StateOK
  <2>. QED
    BY <1>2, <1>3, <2>2, MovedExchange DEF Others, SameProgress, FinishPoints, ChunkPoints
<1>7. \/ Answer(r, "ok") \/ Answer(r, "err")
      \/ \E point \in ChunkPoints : Goto(r, point)
      \/ req' = [req EXCEPT ![r] = [q EXCEPT !.pc = "chunkWrite", !.linked = TRUE]]
  BY DEF ChunkRead, ChunkMkdir, ChunkOpen, ChunkWrite, ChunkUpdate, ChunkPoints
<1>. QED
  BY <1>2, <1>3, <1>4, <1>5, <1>6, <1>7

\* A handler at a point of Finish
LEMMA FinishingExchange ==
    ASSUME NEW r \in Reqs, req'[r].pc \in FinishPoints, req'[r].hash = Content,
           row'[req'[r].id].status # "absent", sent'[r] # "init",
           req'[r].pc \in {"finishRemove", "finishDelete"} => node' # NoNode
    PROVE  Exchange(r)'
  BY DEF Exchange, Free, Done, Finishing, FinishPoints, CancelPoints, InitPoints

\* How Finish leaves its record and the tables: it goes on with the same session
\* until it answers, and commits the checksum of the client's file.
LEMMA FinishExchange ==
    ASSUME StateOK, FileInv, ClientInv, NEW r \in Reqs,
           \/ FinishStat(r) \/ FinishCreate(r) \/ FinishCopy(r) \/ FinishHash(r)
           \/ FinishImport(r) \/ FinishCommit(r) \/ FinishRemove(r) \/ FinishDelete(r),
           sent' = sent, driver' = driver
    PROVE  /\ Exchange(r)' /\ Others(r) /\ Kept /\ RowsOK' /\ NodeOK'
           /\ Finishing(r) /\ sent[r] # "init" /\ req[r].id \in Sessions /\ req[r].hash = Content
           /\ req'[r].pc \in FinishPoints => req'[r].id = req[r].id
<1>. DEFINE q == req[r]
<1>0. /\ q \in Request /\ Exchange(r) /\ RowsOK /\ NodeOK
      /\ "ok" \in Done /\ "err" \in Done /\ FinishPoints \subseteq Points
  BY SMTT(60) DEF StateOK, ClientInv, Done, Points
<1>1. q.pc \in FinishPoints
  BY DEF FinishStat, FinishCreate, FinishCopy, FinishHash, FinishImport, FinishCommit,
         FinishRemove, FinishDelete, At, FinishPoints
<1>2. /\ q.hash = Content /\ sent[r] # "init" /\ q.id \in Sessions /\ Finishing(r)
      /\ row[q.id].status # "absent"
  BY <1>0, <1>1, SMTT(60) DEF FinishPoints, Exchange, Free, Done, InitPoints, FileInv, HandlerOK,
                    SessionPoints, Finishing
<1>3. NodeOK' /\ (node # NoNode => node' # NoNode)
  BY <1>0, <1>2, UploadAssumption, ClientAssumption, SMTT(60)
  DEF FinishStat, FinishCreate, FinishCopy, FinishHash, FinishImport, FinishCommit,
      FinishRemove, FinishDelete, NodeOK
<1>4. Kept /\ RowsOK'
  <2>1. CASE row' = row
    BY <1>0, <1>3, <2>1 DEF Kept, RowsOK
  <2>2. CASE RepoDelete(q.id)
    <3>0. row \in [Sessions -> Row] /\ row[q.id] \in Row
      BY <1>2 DEF StateOK
    <3>1. /\ \A s \in Sessions \ {q.id} : row'[s] = row[s]
          /\ row'[q.id].hash = row[q.id].hash /\ row'[q.id].status = "deleted"
      BY <1>2, <2>2, <3>0 DEF RepoDelete, Row
    <3>. QED
      BY <1>0, <1>2, <1>3, <3>1 DEF Kept, RowsOK
  <2>. QED
    BY <2>1, <2>2 DEF FinishStat, FinishCreate, FinishCopy, FinishHash, FinishImport,
                      FinishCommit, FinishRemove, FinishDelete
<1>5. CASE Answer(r, "err")
  <2>1. req'[r].pc = "err" /\ \A p \in Reqs \ {r} : req'[p] = req[p]
    BY <1>0, <1>5, AnswerType
  <2>. QED
    BY <1>0, <1>2, <1>3, <1>4, <2>1, AnsweredExchange DEF Others, SameProgress, FinishPoints
<1>6. ASSUME NEW point \in FinishPoints, Goto(r, point), point # "finishDelete",
             point = "finishRemove" => node' # NoNode
      PROVE  Exchange(r)' /\ Others(r) /\ (req'[r].pc \in FinishPoints => req'[r].id = q.id)
  <2>1. /\ req'[r].pc = point /\ req'[r].hash = Content /\ req'[r].id = q.id
        /\ \A p \in Reqs \ {r} : req'[p] = req[p]
    BY <1>0, <1>2, <1>6, GotoType DEF SameSession
  <2>2. row'[q.id].status # "absent"
    BY <1>2, <1>4 DEF Kept
  <2>. QED
    BY <1>2, <1>6, <2>1, <2>2, FinishingExchange DEF Others, SameProgress
<1>7. ASSUME NEW new \in Request, req' = [req EXCEPT ![r] = new], new.id = q.id, new.hash = q.hash,
             new.pc = "finishCopy"
      PROVE  Exchange(r)' /\ Others(r) /\ (req'[r].pc \in FinishPoints => req'[r].id = q.id)
  <2>1. req'[r] = new /\ \A p \in Reqs \ {r} : req'[p] = req[p]
    BY <1>7 DEF StateOK
  <2>2. row'[q.id].status # "absent"
    BY <1>2, <1>4 DEF Kept
  <2>. QED
    BY <1>2, <1>7, <2>1, <2>2, FinishingExchange DEF Others, SameProgress, FinishPoints
<1>8. CASE FinishRemove(r)
  <2>1. /\ \A p \in Reqs : SameProgress(Unlinked(q.id)[p], req[p])
        /\ Unlinked(q.id) \in [Reqs -> Request]
    <3>1. ASSUME NEW p \in Reqs PROVE SameProgress(Unlinked(q.id)[p], req[p])
      <4>1. req[p] \in Request
        BY DEF StateOK
      <4>. QED
        BY <4>1 DEF Unlinked, Request, SameProgress
    <3>. QED
      BY <1>8, <3>1, RemoveType DEF FinishRemove
  <2>2. /\ [Unlinked(q.id)[r] EXCEPT !.pc = "finishDelete"].pc = "finishDelete"
        /\ [Unlinked(q.id)[r] EXCEPT !.pc = "finishDelete"].id = q.id
        /\ [Unlinked(q.id)[r] EXCEPT !.pc = "finishDelete"].hash = q.hash
    BY <1>0, <2>1, PcUpdate DEF FinishPoints, SameProgress
  <2>3. req' = [Unlinked(q.id) EXCEPT ![r] = [Unlinked(q.id)[r] EXCEPT !.pc = "finishDelete"]]
    BY <1>8, <2>1 DEF FinishRemove
  <2>4. /\ req'[r].pc = "finishDelete" /\ req'[r].id = q.id /\ req'[r].hash = Content
        /\ \A p \in Reqs \ {r} : req'[p] = Unlinked(q.id)[p]
    BY <1>2, <2>1, <2>2, <2>3
  <2>5. node' # NoNode /\ row'[q.id].status # "absent"
    BY <1>0, <1>2, <1>3, <1>4, <1>8 DEF FinishRemove, At, Exchange, Kept
  <2>. QED
    BY <1>2, <1>3, <1>4, <2>1, <2>4, <2>5, FinishingExchange DEF Others, FinishPoints
<1>9. CASE FinishDelete(r)
  <2>1. req'[r].pc = "ok" /\ \A p \in Reqs \ {r} : req'[p] = req[p]
    BY <1>0, <1>9, AnswerType DEF FinishDelete
  <2>2. node' # NoNode
    BY <1>0, <1>3, <1>9 DEF FinishDelete, At, Exchange
  <2>. QED
    BY <1>2, <1>3, <1>4, <2>1, <2>2, AnsweredExchange DEF Others, SameProgress, FinishPoints, Done
<1>10. CASE FinishCommit(r)
  <2>1. CASE node' = q.hash /\ Goto(r, "finishRemove")
    <3>1. node' # NoNode
      BY <1>2, <2>1, UploadAssumption, ClientAssumption
    <3>. QED
      BY <1>2, <1>3, <1>4, <1>6, <2>1, <3>1 DEF FinishPoints
  <2>. QED
    BY <1>2, <1>3, <1>4, <1>5, <1>10, <2>1 DEF FinishCommit
<1>11. CASE FinishStat(r) \/ FinishHash(r) \/ FinishImport(r)
  <2>1. ASSUME NEW point \in {"finishCreate", "finishCommit", "finishImport"}, Goto(r, point)
        PROVE  Exchange(r)' /\ Others(r) /\ (req'[r].pc \in FinishPoints => req'[r].id = q.id)
    BY <1>6, <2>1 DEF FinishPoints
  <2>2. Answer(r, "err") \/ \E point \in {"finishCreate", "finishCommit", "finishImport"} : Goto(r, point)
    BY <1>11 DEF FinishStat, FinishHash, FinishImport
  <2>. QED
    BY <1>2, <1>3, <1>4, <1>5, <2>1, <2>2
<1>12. CASE FinishCreate(r)
  <2>1. /\ [q EXCEPT !.pc = "finishCopy", !.linked = TRUE] \in Request
        /\ [q EXCEPT !.pc = "finishCopy", !.linked = TRUE].pc = "finishCopy"
        /\ [q EXCEPT !.pc = "finishCopy", !.linked = TRUE].id = q.id
        /\ [q EXCEPT !.pc = "finishCopy", !.linked = TRUE].hash = q.hash
    BY <1>0 DEF Request, Points, FinishPoints
  <2>2. CASE req' = [req EXCEPT ![r] = [q EXCEPT !.pc = "finishCopy", !.linked = TRUE]]
    BY <1>2, <1>3, <1>4, <1>7, <2>1, <2>2
  <2>3. CASE Goto(r, "finishCopy")
    BY <1>2, <1>3, <1>4, <1>6, <2>3, SMTT(60) DEF FinishPoints
  <2>. QED
    BY <1>2, <1>3, <1>4, <1>5, <1>12, <2>2, <2>3 DEF FinishCreate
<1>13. CASE FinishCopy(r)
  <2>1. q.pc = "finishCopy"
    BY <1>13 DEF FinishCopy, At
  <2>2. ASSUME q.next < N
        PROVE  /\ [q EXCEPT !.next = q.next + 1, !.off = q.off + 1] \in Request
               /\ [q EXCEPT !.next = q.next + 1, !.off = q.off + 1].pc = q.pc
               /\ [q EXCEPT !.next = q.next + 1, !.off = q.off + 1].id = q.id
               /\ [q EXCEPT !.next = q.next + 1, !.off = q.off + 1].hash = q.hash
               /\ [q EXCEPT !.next = q.next + 1] \in Request
               /\ [q EXCEPT !.next = q.next + 1].pc = q.pc
               /\ [q EXCEPT !.next = q.next + 1].id = q.id
               /\ [q EXCEPT !.next = q.next + 1].hash = q.hash
    <3>1. q.next + 1 \in 0 .. N /\ q.off + 1 \in Nat
      BY <1>0, <2>2, UploadAssumption DEF Request
    <3>. QED
      BY <1>0, <3>1 DEF Request
  <2>3. CASE q.next < N /\ req' = [req EXCEPT ![r] = [q EXCEPT !.next = q.next + 1, !.off = q.off + 1]]
    BY <1>2, <1>3, <1>4, <1>7, <2>1, <2>2, <2>3
  <2>4. CASE q.next < N /\ req' = [req EXCEPT ![r] = [q EXCEPT !.next = q.next + 1]]
    BY <1>2, <1>3, <1>4, <1>7, <2>1, <2>2, <2>4
  <2>5. CASE Goto(r, "finishHash")
    BY <1>2, <1>3, <1>4, <1>6, <2>5 DEF FinishPoints
  <2>. QED
    BY <1>2, <1>3, <1>4, <1>5, <1>13, <2>3, <2>4, <2>5, SMTT(60) DEF FinishCopy
<1>. QED
  BY <1>8, <1>9, <1>10, <1>11, <1>12, <1>13

-----------------------------------------------------------------------------
(* The calls and the answers *)

\* The calls that the client makes are calls that the service models.
LEMMA ClientCalls ==
    ASSUME ClientTypeOK, ClientInv, NEW r \in Reqs, ClientStep(r)
    PROVE  \/ UNCHANGED vars
           \/ SendInit(r) /\ Begin(r)
           \/ SendChunk(r) /\ Begin(r) /\ client.id \in Sessions
           \/ SendFinish(r) /\ Begin(r) /\ client.id \in Sessions
<1>1. CASE SendInit(r)
  BY <1>1, ClientAssumption DEF SendInit, Begin
<1>2. CASE SendChunk(r)
  <2>1. PICK i \in client.todo : ChunkFind(r, client.id, i, Content)
    BY <1>2 DEF SendChunk
  <2>2. i \in Idx /\ client.id \in Sessions
    BY <2>1 DEF ClientTypeOK, ClientInv, ClientOK
  <2>. QED
    BY <1>2, <2>1, <2>2, ClientAssumption DEF Begin
<1>3. CASE SendFinish(r)
  <2>1. client.id \in Sessions
    BY <1>3 DEF SendFinish, ClientInv, ClientOK
  <2>. QED
    BY <1>3, <2>1 DEF SendFinish, Begin
<1>4. CASE HearInit(r) \/ HearChunk(r) \/ HearFinish(r)
  BY <1>4 DEF HearInit, HearChunk, HearFinish
<1>. QED
  BY <1>1, <1>2, <1>3, <1>4 DEF ClientStep

\* A step of the whole is one of the service, except that a call times out.
LEMMA ServiceStep ==
    ASSUME ClientTypeOK, ClientInv, [ClientNext]_cvars
    PROVE  [Next]_vars \/ \E r \in Reqs : Timeout(r)
<1>1. CASE UNCHANGED cvars
  BY <1>1 DEF cvars, vars
<1>2. ASSUME NEW r \in Reqs, ClientStep(r) PROVE [Next]_vars
  <2>1. driver' = driver
    BY <1>2 DEF ClientStep
  <2>. QED
    BY <1>2, <2>1, ClientCalls DEF Next
<1>3. ASSUME NEW r \in Reqs, Serve(r) PROVE Next
  BY <1>3 DEF Serve, Next
<1>4. CASE Retry
  BY <1>4 DEF Retry
<1>5. CASE Crash /\ UNCHANGED driver
  BY <1>5 DEF Next
<1>6. CASE Finished
  BY <1>6 DEF Finished, cvars, vars
<1>. QED
  BY <1>1, <1>2, <1>3, <1>4, <1>5, <1>6 DEF ClientNext

LEMMA TimeoutFrame ==
    ASSUME NEW r \in Reqs, Timeout(r)
    PROVE  /\ UNCHANGED <<row, dir, chunk, staged, target, node, journal, req, committed, driver, lanes>>
           /\ upset' = TRUE /\ Fault("timeout")
           /\ sent' = [sent EXCEPT ![r] = "nothing"]
           /\ client' = [client EXCEPT !.status = "error"]
  BY DEF Timeout, disk, Heard

LEMMA ServiceKeeps ==
    ASSUME ClientTypeOK, FileInv, ClientInv, [ClientNext]_cvars
    PROVE  StateOK' /\ FileInv'
<1>0. StateOK
  BY DEF ClientTypeOK, TypeOK
<1>1. CASE [Next]_vars
  BY <1>0, <1>1, TypeStep, FileStep
<1>2. ASSUME NEW r \in Reqs, Timeout(r) PROVE StateOK' /\ FileInv'
  <2>1. UNCHANGED <<row, dir, chunk, staged, target, node, journal, req, committed>>
    BY <1>2, TimeoutFrame
  <2>2. faults' \in 0 .. MaxFaults
    BY <1>0, <1>2, TimeoutFrame, FaultType
  <2>3. Frame /\ ListedChunksOnDisk'
    BY <1>0, <2>1, Quiet
  <2>. QED
    BY <1>0, <2>1, <2>2, <2>3, OtherHandler DEF FileInv, StateOK, SameSession
<1>. QED
  BY <1>1, <1>2, ServiceStep

\* The records of the client.
ClientRecord == [status : {"pending", "uploading", "sending", "success", "error"},
                 id : Sessions \cup {NoSession}, todo : SUBSET Idx]

LEMMA ClientRecordUpdate ==
    ASSUME NEW c \in ClientRecord,
           NEW st \in {"pending", "uploading", "sending", "success", "error"}
    PROVE  /\ [c EXCEPT !.status = st] \in ClientRecord
           /\ [c EXCEPT !.status = st].status = st
           /\ [c EXCEPT !.status = st].id = c.id
           /\ [c EXCEPT !.status = st].todo = c.todo
  BY DEF ClientRecord

LEMMA ClientTodoUpdate ==
    ASSUME NEW c \in ClientRecord, NEW u \in SUBSET Idx
    PROVE  /\ [c EXCEPT !.todo = u] \in ClientRecord
           /\ [c EXCEPT !.todo = u].status = c.status
           /\ [c EXCEPT !.todo = u].id = c.id
           /\ [c EXCEPT !.todo = u].todo = u
  BY DEF ClientRecord

\* What the client has to know of the answer to its init: the session it is
\* about to fill exists.
LEMMA ClientStepType ==
    ASSUME ClientTypeOK, ClientInv, NEW r \in Reqs, ClientStep(r)
    PROVE  client' \in ClientRecord /\ sent' \in [Reqs -> Awaits] /\ ClientOK'
<1>0. /\ client \in ClientRecord /\ sent \in [Reqs -> Awaits] /\ req[r] \in Request
      /\ Exchange(r) /\ ClientOK
  BY DEF ClientTypeOK, ClientRecord, TypeOK, StateOK, ClientInv
<1>1. sent' \in [Reqs -> Awaits]
  BY <1>0 DEF ClientStep, SendInit, HearInit, SendChunk, HearChunk, SendFinish, HearFinish, Heard, Awaits
<1>2. CASE SendInit(r) \/ SendFinish(r)
  <2>1. client' = [client EXCEPT !.status = "uploading"] /\ client.status # "success"
    BY <1>2 DEF SendInit, SendFinish
  <2>2. /\ client' \in ClientRecord /\ client'.status = "uploading"
        /\ client'.id = client.id /\ client'.todo = client.todo
    BY <1>0, <2>1, ClientRecordUpdate
  <2>. QED
    BY <1>0, <1>1, <2>2 DEF ClientOK
<1>3. CASE SendChunk(r)
  <2>1. PICK u : client' = [client EXCEPT !.todo = u] /\ u \subseteq client.todo
    <3>1. PICK i \in client.todo : client' = [client EXCEPT !.todo = client.todo \ {i}]
      BY <1>3 DEF SendChunk
    <3>. QED
      BY <3>1
  <2>2. u \in SUBSET Idx /\ client.status # "success"
    BY <1>0, <1>3, <2>1 DEF ClientRecord, SendChunk
  <2>3. /\ client' \in ClientRecord /\ client'.status = client.status
        /\ client'.id = client.id /\ client'.todo = u
    BY <1>0, <2>1, <2>2, ClientTodoUpdate
  <2>. QED
    BY <1>0, <1>1, <2>1, <2>2, <2>3 DEF ClientOK
<1>4. ASSUME client' = [client EXCEPT !.status = "error"]
      PROVE  client' \in ClientRecord /\ ClientOK'
  <2>1. /\ client' \in ClientRecord /\ client'.status = "error"
        /\ client'.id = client.id /\ client'.todo = client.todo
    BY <1>0, <1>4, ClientRecordUpdate
  <2>. QED
    BY <1>0, <2>1 DEF ClientOK
<1>5. ASSUME client' = [client EXCEPT !.status = "success"], node' # NoNode
      PROVE  client' \in ClientRecord /\ ClientOK'
  <2>1. /\ client' \in ClientRecord /\ client'.status = "success"
        /\ client'.id = client.id /\ client'.todo = client.todo
    BY <1>0, <1>5, ClientRecordUpdate
  <2>. QED
    BY <1>0, <1>5, <2>1 DEF ClientOK
<1>6. CASE HearInit(r)
  <2>0. node' = node
    BY <1>6 DEF HearInit, vars
  <2>1. CASE req[r].pc = "fast"
    <3>1. client' = [client EXCEPT !.status = "success"] /\ node' # NoNode
      BY <1>0, <1>6, <2>0, <2>1 DEF HearInit, Exchange
    <3>. QED
      BY <1>1, <1>5, <3>1
  <2>2. CASE req[r].pc = "ok"
    <3>1. client' = [status |-> "sending", id |-> req[r].id, todo |-> Idx \ req[r].uploaded]
      BY <1>6, <2>2 DEF HearInit
    <3>2. req[r].id \in Sessions
      BY <1>0, <1>6, <2>2 DEF HearInit, Answered, Exchange
    <3>. QED
      BY <1>1, <3>1, <3>2 DEF ClientRecord, ClientOK
  <2>3. CASE req[r].pc # "fast" /\ req[r].pc # "ok"
    BY <1>1, <1>4, <1>6, <2>3 DEF HearInit
  <2>. QED
    BY <2>1, <2>2, <2>3
<1>7. CASE HearChunk(r)
  <2>1. node' = node
    BY <1>7 DEF HearChunk, vars
  <2>2. CASE client' = client
    BY <1>0, <1>1, <2>1, <2>2 DEF ClientOK
  <2>. QED
    BY <1>1, <1>4, <1>7, <2>2 DEF HearChunk
<1>8. CASE HearFinish(r)
  <2>1. node' = node
    BY <1>8 DEF HearFinish, vars
  <2>2. CASE req[r].pc = "ok"
    <3>1. client' = [client EXCEPT !.status = "success"] /\ node' # NoNode
      BY <1>0, <1>8, <2>1, <2>2 DEF HearFinish, Answered, Exchange
    <3>. QED
      BY <1>1, <1>5, <3>1
  <2>. QED
    BY <1>1, <1>4, <1>8, <2>2 DEF HearFinish
<1>. QED
  BY <1>2, <1>3, <1>6, <1>7, <1>8 DEF ClientStep

LEMMA ConversationStep ==
    ASSUME ClientTypeOK, ClientInv, [ClientNext]_cvars
    PROVE  Conversation'
<1>0. /\ client \in ClientRecord /\ sent \in [Reqs -> Awaits] /\ Conversation
  BY DEF ClientTypeOK, ClientRecord, ClientInv
<1>1. CASE UNCHANGED <<client, sent>>
  BY <1>0, <1>1 DEF Conversation
<1>2. ASSUME NEW r \in Reqs, sent' = [sent EXCEPT ![r] = "nothing"], sent[r] # "nothing",
             \/ client' = client /\ sent[r] = "chunk"
             \/ client' = [client EXCEPT !.status = "error"]
             \/ sent[r] \in {"init", "finish"}
      PROVE  Conversation'
  <2>1. sent'[r] = "nothing" /\ \A q \in Reqs \ {r} : sent'[q] = sent[q]
    BY <1>0, <1>2
  <2>2. CASE sent[r] \in {"init", "finish"}
    BY <1>0, <2>1, <2>2 DEF Conversation
  <2>3. CASE sent[r] = "chunk"
    <3>1. client'.status \in {"sending", "error"}
      BY <1>0, <1>2, <2>3 DEF Conversation, ClientRecord
    <3>2. \A q \in Reqs : sent[q] \notin {"init", "finish"}
      BY <1>0, <2>3 DEF Conversation
    <3>. QED
      BY <2>1, <3>1, <3>2 DEF Conversation
  <2>. QED
    BY <1>0, <1>2, <2>2, <2>3 DEF Awaits
<1>3. ASSUME NEW r \in Reqs, SendInit(r) \/ SendFinish(r) PROVE Conversation'
  <2>1. PICK what \in {"init", "finish"} : sent' = [sent EXCEPT ![r] = what]
    BY <1>3 DEF SendInit, SendFinish
  <2>2. client' = [client EXCEPT !.status = "uploading"]
    BY <1>3 DEF SendInit, SendFinish
  <2>3. client'.status = "uploading"
    BY <1>0, <2>2 DEF ClientRecord
  <2>4. \A q \in Reqs : sent[q] = "nothing"
    BY <1>0, <1>3 DEF SendInit, SendFinish, Conversation, Awaited, Awaits
  <2>5. sent'[r] = what /\ \A q \in Reqs \ {r} : sent'[q] = "nothing"
    BY <1>0, <2>1, <2>4
  <2>. QED
    BY <2>3, <2>5 DEF Conversation
<1>4. ASSUME NEW r \in Reqs, SendChunk(r) PROVE Conversation'
  <2>1. client.status \in {"sending", "error"} /\ sent' = [sent EXCEPT ![r] = "chunk"]
    BY <1>4 DEF SendChunk
  <2>2. PICK u : client' = [client EXCEPT !.todo = u]
    BY <1>4 DEF SendChunk
  <2>3. client'.status = client.status
    BY <1>0, <2>2 DEF ClientRecord
  <2>4. \A q \in Reqs : sent[q] \notin {"init", "finish"}
    BY <1>0, <2>1 DEF Conversation
  <2>5. sent'[r] = "chunk" /\ \A q \in Reqs \ {r} : sent'[q] = sent[q]
    BY <1>0, <2>1
  <2>. QED
    BY <2>1, <2>3, <2>4, <2>5 DEF Conversation
<1>5. ASSUME NEW r \in Reqs, HearInit(r) PROVE Conversation'
  BY <1>2, <1>5 DEF HearInit, Heard, Answered
<1>6. ASSUME NEW r \in Reqs, HearChunk(r) PROVE Conversation'
  BY <1>2, <1>6 DEF HearChunk, Heard, Answered
<1>7. ASSUME NEW r \in Reqs, HearFinish(r) PROVE Conversation'
  BY <1>2, <1>7 DEF HearFinish, Heard, Answered
<1>8. ASSUME NEW r \in Reqs, Timeout(r) PROVE Conversation'
  BY <1>2, <1>8 DEF Timeout, Heard
<1>9. ASSUME Retry PROVE Conversation'
  BY <1>9 DEF Retry, Conversation
<1>. QED
  BY <1>1, <1>3, <1>4, <1>5, <1>6, <1>7, <1>8, <1>9
  DEF ClientNext, ClientStep, Serve, Finished, cvars

\* What the client's calls start: an Init for its file, a chunk of its file, a
\* Finish of the session it has filled.
LEMMA CallExchange ==
    ASSUME ClientTypeOK, ClientInv, NEW r \in Reqs, SendInit(r) \/ SendChunk(r) \/ SendFinish(r),
           driver' = driver
    PROVE  /\ Exchange(r)' /\ Others(r) /\ Free(r) /\ sent'[r] # "nothing"
           /\ \A q \in Reqs \ {r} : sent'[q] = sent[q]
           /\ UNCHANGED <<row, node, target, staged, journal>>
           /\ sent'[r] = "init" => req'[r].pc # "ok"
           /\ req'[r].pc \in FinishPoints =>
                /\ client.status = "sending" /\ client'.status = "uploading"
                /\ sent'[r] = "finish" /\ req'[r].id = client.id
                /\ req'[r].pc \in {"finishStat", "finishCreate"}
<1>0. /\ client \in ClientRecord /\ sent \in [Reqs -> Awaits] /\ StateOK /\ RowsOK
      /\ Content \in Contents \cap Hashes /\ "err" \in Done /\ 0 \in Idx
  BY ClientAssumption, UploadAssumption DEF ClientTypeOK, ClientRecord, TypeOK, ClientInv, Done, Idx
<1>1. /\ sent'[r] \in {"init", "chunk", "finish"} /\ \A q \in Reqs \ {r} : sent'[q] = sent[q]
      /\ SendInit(r) => sent'[r] = "init"
      /\ SendChunk(r) => sent'[r] = "chunk"
      /\ SendFinish(r) => sent'[r] = "finish"
  BY <1>0 DEF SendInit, SendChunk, SendFinish
<1>2. Free(r) /\ UNCHANGED <<row, node, target, staged, journal>>
  BY DEF SendInit, SendChunk, SendFinish, Ready, InitStat, ChunkFind, FinishFind, Find, disk
<1>3. CASE Answer(r, "err")
  <2>1. req'[r].pc = "err" /\ \A p \in Reqs \ {r} : req'[p] = req[p]
    BY <1>0, <1>3, AnswerType
  <2>. QED
    BY <1>0, <1>1, <1>2, <2>1, AnsweredExchange DEF Others, SameProgress, FinishPoints
<1>4. CASE SendInit(r)
  <2>1. ASSUME NEW point \in {"initCreate", "initFind", "initCommit"}, InitGoto(r, point, Content),
               driver = "import" => point = "initCreate"
        PROVE  /\ req'[r].pc = point /\ Exchange(r)' /\ Others(r)
    <3>1. /\ req'[r].pc = point /\ req'[r].hash = Content
          /\ \A p \in Reqs \ {r} : req'[p] = req[p]
      BY <1>0, <2>1, InitGotoType DEF Points, InitPoints
    <3>. QED
      BY <1>1, <1>4, <2>1, <3>1, MovedExchange DEF Others, SameProgress, InitPoints
  <2>2. \/ Answer(r, "err")
        \/ \E point \in {"initCreate", "initFind", "initCommit"} :
              /\ InitGoto(r, point, Content)
              /\ driver = "import" => point = "initCreate"
    BY <1>4 DEF SendInit, InitStat
  <2>. QED
    BY <1>1, <1>2, <1>3, <2>1, <2>2 DEF FinishPoints
<1>5. ASSUME NEW s \in Sessions, NEW point \in {"chunkRead", "finishStat", "finishCreate"},
             NEW i \in Idx, NEW d \in Contents \cup {NoFile},
             RowExists(s), req' = [req EXCEPT ![r] = Found(s, point, i, d)]
      PROVE  /\ req'[r].pc = point /\ req'[r].id = s /\ req'[r].hash = Content
             /\ row[s].status # "absent" /\ Others(r)
  <2>1. row[s].hash = Content /\ row[s].status # "absent"
    BY <1>0, <1>5 DEF RowsOK, RowExists
  <2>2. Found(s, point, i, d).hash = row[s].hash
    BY DEF Found, NoRequest
  <2>3. point \in Points
    BY DEF Points, ChunkPoints, FinishPoints
  <2>4. Found(s, point, i, d).pc = point /\ Found(s, point, i, d).id = s
    BY <1>0, <2>3, FoundRecord
  <2>. QED
    BY <1>0, <1>5, <2>1, <2>2, <2>4 DEF StateOK, Others, SameProgress
<1>6. CASE SendChunk(r)
  <2>1. PICK i \in client.todo : ChunkFind(r, client.id, i, Content)
    BY <1>6 DEF SendChunk
  <2>2. i \in Idx /\ client.id \in Sessions
    BY <1>0, <2>1 DEF ClientRecord, ClientInv, ClientOK
  <2>3. CASE RowExists(client.id) /\ req' = [req EXCEPT ![r] = Found(client.id, "chunkRead", i, Content)]
    <3>1. req'[r].pc = "chunkRead" /\ req'[r].hash = Content /\ Others(r)
      BY <1>0, <1>5, <2>2, <2>3
    <3>. QED
      BY <1>1, <1>2, <1>6, <3>1, MovedExchange DEF ChunkPoints, FinishPoints
  <2>. QED
    BY <1>3, <2>1, <2>3 DEF ChunkFind, Find
<1>7. CASE SendFinish(r)
  <2>1. client.status = "sending" /\ client' = [client EXCEPT !.status = "uploading"]
        /\ FinishFind(r, client.id)
    BY <1>7 DEF SendFinish
  <2>2. client.id \in Sessions /\ client'.status = "uploading"
    BY <1>0, <2>1 DEF ClientRecord, ClientInv, ClientOK
  <2>3. ASSUME NEW point \in {"finishStat", "finishCreate"}, RowExists(client.id),
               req' = [req EXCEPT ![r] = Found(client.id, point, 0, NoFile)]
        PROVE  /\ Exchange(r)' /\ Others(r) /\ req'[r].pc = point /\ req'[r].id = client.id
    <3>1. /\ req'[r].pc = point /\ req'[r].id = client.id /\ req'[r].hash = Content
          /\ row[client.id].status # "absent" /\ Others(r)
      BY <1>0, <1>5, <2>2, <2>3
    <3>. QED
      BY <1>1, <1>2, <1>7, <2>2, <3>1, FinishingExchange DEF FinishPoints
  <2>4. \/ Answer(r, "err")
        \/ \E point \in {"finishStat", "finishCreate"} :
              /\ RowExists(client.id)
              /\ req' = [req EXCEPT ![r] = Found(client.id, point, 0, NoFile)]
    BY <2>1 DEF FinishFind, Find
  <2>. QED
    BY <1>1, <1>2, <1>3, <1>7, <2>1, <2>2, <2>3, <2>4
<1>. QED
  BY <1>4, <1>6, <1>7

LEMMA ServedExchange ==
    ASSUME StateOK, FileInv, ClientInv, NEW r \in Reqs, Continue(r), sent' = sent, driver' = driver
    PROVE  /\ Exchange(r)' /\ Others(r) /\ Kept /\ RowsOK' /\ NodeOK'
           /\ Finishing(r)' => Finishing(r) /\ req'[r].id = req[r].id
           /\ driver = "import" /\ sent[r] = "init" /\ req'[r].pc = "ok" =>
                 row[req'[r].id].status = "absent"
<1>1. ~ CancelDelete(r) /\ ~ CancelRemove(r)
  BY DEF ClientInv, Exchange, CancelPoints, CancelDelete, CancelRemove, At
<1>. QED
  BY <1>1, InitExchange, ChunkExchange, FinishExchange DEF Continue, Finishing

LEMMA ClientInvStep ==
    ASSUME ClientTypeOK, FileInv, ClientInv, [ClientNext]_cvars
    PROVE  /\ ClientInv' /\ Kept /\ driver' = driver
           /\ client' \in ClientRecord /\ sent' \in [Reqs -> Awaits]
           /\ lanes' \in Lanes /\ upset' \in BOOLEAN
<1>0. /\ client \in ClientRecord /\ sent \in [Reqs -> Awaits] /\ lanes \in Lanes /\ upset \in BOOLEAN
      /\ StateOK /\ RowsOK /\ NodeOK /\ ClientOK /\ (\A p \in Reqs : Exchange(p))
      /\ Conversation' /\ "nothing" \in Awaits
  BY ConversationStep DEF ClientTypeOK, ClientRecord, TypeOK, ClientInv, Awaits
<1>a. ASSUME NEW r \in Reqs, Exchange(r)', Others(r), Kept, RowsOK', NodeOK', driver' = driver,
             \A p \in Reqs \ {r} : sent'[p] = sent[p], ClientOK'
      PROVE  ClientInv'
  <2>1. ASSUME NEW p \in Reqs PROVE Exchange(p)'
    <3>1. CASE p = r
      BY <1>a, <3>1
    <3>2. CASE p # r
      BY <1>0, <1>a, <3>2, OtherExchange DEF Others
    <3>. QED
      BY <3>1, <3>2
  <2>. QED
    BY <1>0, <1>a, <2>1 DEF ClientInv
<1>b. ASSUME UNCHANGED <<row, node, req, driver>>, ClientOK',
             \A p \in Reqs : sent'[p] = sent[p] \/ sent'[p] = "nothing"
      PROVE  ClientInv' /\ Kept
  <2>1. Kept /\ RowsOK' /\ NodeOK'
    BY <1>0, <1>b DEF Kept, RowsOK, NodeOK
  <2>2. ASSUME NEW p \in Reqs PROVE Exchange(p)'
    BY <1>0, <1>b DEF Exchange, Finishing, Free
  <2>. QED
    BY <1>0, <1>b, <2>1, <2>2 DEF ClientInv
<1>1. CASE UNCHANGED cvars
  BY <1>0, <1>1, <1>b DEF cvars, vars, ClientOK
<1>2. ASSUME NEW r \in Reqs, ClientStep(r)
      PROVE  /\ ClientInv' /\ Kept /\ driver' = driver
             /\ client' \in ClientRecord /\ sent' \in [Reqs -> Awaits]
             /\ lanes' \in Lanes /\ upset' \in BOOLEAN
  <2>1. /\ driver' = driver /\ lanes' = lanes /\ upset' = upset
        /\ client' \in ClientRecord /\ sent' \in [Reqs -> Awaits] /\ ClientOK'
    BY <1>2, ClientStepType DEF ClientStep
  <2>2. CASE SendInit(r) \/ SendChunk(r) \/ SendFinish(r)
    <3>1. /\ Exchange(r)' /\ Others(r) /\ UNCHANGED <<row, node>>
          /\ \A q \in Reqs \ {r} : sent'[q] = sent[q]
      BY <2>1, <2>2, CallExchange
    <3>2. Kept /\ RowsOK' /\ NodeOK'
      BY <1>0, <3>1 DEF Kept, RowsOK, NodeOK
    <3>. QED
      BY <1>0, <1>a, <2>1, <3>1, <3>2
  <2>3. CASE HearInit(r) \/ HearChunk(r) \/ HearFinish(r)
    <3>1. UNCHANGED <<row, node, req>> /\ sent' = [sent EXCEPT ![r] = "nothing"]
      BY <2>3 DEF HearInit, HearChunk, HearFinish, Heard, vars
    <3>2. \A p \in Reqs : sent'[p] = sent[p] \/ sent'[p] = "nothing"
      BY <1>0, <3>1
    <3>. QED
      BY <1>0, <1>b, <2>1, <3>1, <3>2
  <2>. QED
    BY <1>2, <2>2, <2>3 DEF ClientStep
<1>3. ASSUME NEW r \in Reqs, Serve(r)
      PROVE  /\ ClientInv' /\ Kept /\ UNCHANGED <<driver, client, sent, lanes, upset>>
  <2>1. Continue(r) /\ UNCHANGED <<driver, client, sent, lanes, upset>>
    BY <1>3 DEF Serve
  <2>2. Exchange(r)' /\ Others(r) /\ Kept /\ RowsOK' /\ NodeOK'
    BY <1>0, <2>1, ServedExchange
  <2>3. ClientOK'
    BY <1>0, <2>1, <2>2 DEF ClientOK, Kept
  <2>. QED
    BY <1>a, <2>1, <2>2, <2>3
<1>4. ASSUME NEW r \in Reqs, Timeout(r)
      PROVE  /\ ClientInv' /\ Kept /\ driver' = driver
             /\ client' \in ClientRecord /\ sent' \in [Reqs -> Awaits]
             /\ lanes' \in Lanes /\ upset' \in BOOLEAN
  <2>1. /\ UNCHANGED <<row, node, req, driver, lanes>> /\ upset' = TRUE
        /\ sent' = [sent EXCEPT ![r] = "nothing"] /\ client' = [client EXCEPT !.status = "error"]
    BY <1>4, TimeoutFrame
  <2>2. /\ client' \in ClientRecord /\ client'.status = "error"
        /\ client'.id = client.id /\ client'.todo = client.todo
    BY <1>0, <2>1, ClientRecordUpdate
  <2>3. ClientOK'
    BY <1>0, <2>2 DEF ClientOK
  <2>4. sent' \in [Reqs -> Awaits] /\ \A p \in Reqs : sent'[p] = sent[p] \/ sent'[p] = "nothing"
    BY <1>0, <2>1
  <2>. QED
    BY <1>0, <1>b, <2>1, <2>2, <2>3, <2>4
<1>5. CASE Retry
  <2>1. UNCHANGED <<row, node, req, driver, sent, lanes, upset>>
    BY <1>5 DEF Retry, vars
  <2>2. client' = [status |-> "pending", id |-> NoSession, todo |-> {}]
    BY <1>5 DEF Retry
  <2>3. client' \in ClientRecord /\ ClientOK'
    BY <2>2 DEF ClientRecord, ClientOK
  <2>. QED
    BY <1>0, <1>b, <2>1, <2>3
<1>6. CASE Crash /\ upset' = TRUE /\ UNCHANGED <<driver, client, sent, lanes>>
  <2>1. UNCHANGED <<row, node>> /\ \A p \in Reqs : req'[p] = [NoRequest EXCEPT !.pc = "err"]
    BY <1>6 DEF Crash
  <2>2. [NoRequest EXCEPT !.pc = "err"].pc = "err"
    BY NoRequestType, PcUpdate DEF Points, Done
  <2>3. ASSUME NEW p \in Reqs PROVE Exchange(p)'
    BY <2>1, <2>2, AnsweredExchange DEF Done
  <2>4. Kept /\ RowsOK' /\ NodeOK' /\ ClientOK'
    BY <1>0, <1>6, <2>1 DEF Kept, RowsOK, NodeOK, ClientOK
  <2>. QED
    BY <1>0, <1>6, <2>3, <2>4 DEF ClientInv
<1>. QED
  BY <1>0, <1>1, <1>2, <1>3, <1>4, <1>5, <1>6 DEF ClientNext, Finished, cvars

-----------------------------------------------------------------------------
(* An import source: one Finish per session, and an import is not overwritten *)

\* No handler takes up the session that another one finishes, as long as the
\* client's next session is one that no handler finishes.
LEMMA OneFinishServed ==
    ASSUME StateOK, FileInv, ClientInv, OneFinish, driver = "import",
           NEW r \in Reqs, Continue(r), UNCHANGED <<sent, driver, client>>
    PROVE  OneFinish'
<1>0. /\ Others(r)
      /\ Finishing(r)' => Finishing(r) /\ req'[r].id = req[r].id
      /\ sent[r] = "init" /\ req'[r].pc = "ok" => row[req'[r].id].status = "absent"
  BY ServedExchange
<1>1. \A p \in Reqs : Finishing(p)' => /\ Finishing(p) /\ req'[p].id = req[p].id
                                       /\ row[req[p].id].status # "absent"
  BY <1>0 DEF Finishing, Others, SameProgress, ClientInv, Exchange
<1>2. ASSUME NEW p \in Reqs, sent[p] = "init", req'[p].pc = "ok"
      PROVE  \/ row[req'[p].id].status = "absent"
             \/ req[p].pc = "ok" /\ req'[p].id = req[p].id
  BY <1>0, <1>2 DEF Others, SameProgress
<1>. QED
  BY <1>1, <1>2 DEF OneFinish

LEMMA OneFinishStep ==
    ASSUME ClientTypeOK, FileInv, ClientInv, OneFinish, driver = "import", [ClientNext]_cvars
    PROVE  OneFinish'
<1>0. StateOK /\ client \in ClientRecord /\ sent \in [Reqs -> Awaits] /\ driver' = driver
  BY ClientInvStep DEF ClientTypeOK, TypeOK, ClientRecord
<1>1. ASSUME req' = req, client'.status = "sending" => client'.status = client.status /\ client'.id = client.id,
             \A p \in Reqs : sent'[p] = sent[p] \/ sent'[p] = "nothing"
      PROVE  OneFinish'
  BY <1>1 DEF OneFinish, Finishing
<1>2. CASE UNCHANGED cvars
  BY <1>1, <1>2 DEF cvars, vars
<1>3. ASSUME NEW r \in Reqs, Serve(r) PROVE OneFinish'
  BY <1>0, <1>3, OneFinishServed DEF Serve
<1>4. ASSUME NEW r \in Reqs, SendInit(r) \/ SendChunk(r) \/ SendFinish(r) PROVE OneFinish'
  <2>0. /\ Others(r) /\ Free(r) /\ sent'[r] # "nothing"
        /\ \A q \in Reqs \ {r} : sent'[q] = sent[q]
        /\ sent'[r] = "init" => req'[r].pc # "ok"
        /\ req'[r].pc \in FinishPoints =>
             client.status = "sending" /\ client'.status = "uploading" /\ req'[r].id = client.id
    BY <1>0, <1>4, CallExchange
  <2>1. client'.status = "sending" => client.status = "sending" /\ client'.id = client.id
    <3>1. CASE SendInit(r) \/ SendFinish(r)
      BY <1>0, <3>1 DEF SendInit, SendFinish, ClientRecord
    <3>2. CASE SendChunk(r)
      <4>1. PICK u : client' = [client EXCEPT !.todo = u]
        BY <3>2 DEF SendChunk
      <4>. QED
        BY <1>0, <4>1 DEF ClientRecord
    <3>. QED
      BY <1>4, <3>1, <3>2
  <2>2. \A p \in Reqs \ {r} : /\ Finishing(p)' <=> Finishing(p)
                              /\ req'[p].id = req[p].id /\ req'[p].pc = req[p].pc
    BY <2>0 DEF Others, SameProgress, Finishing
  <2>3. client.status = "sending" => \A p \in Reqs : sent[p] # "init"
    BY DEF ClientInv, Conversation
  <2>. QED
    BY <2>0, <2>1, <2>2, <2>3 DEF OneFinish, Finishing
<1>5. ASSUME NEW r \in Reqs, HearInit(r) PROVE OneFinish'
  <2>1. req' = req /\ sent' = [sent EXCEPT ![r] = "nothing"] /\ sent[r] = "init"
    BY <1>5 DEF HearInit, Heard, Answered, vars
  <2>2. \A p \in Reqs : sent'[p] = sent[p] \/ sent'[p] = "nothing"
    BY <1>0, <2>1
  <2>3. CASE req[r].pc = "ok"
    <3>1. client' = [status |-> "sending", id |-> req[r].id, todo |-> Idx \ req[r].uploaded]
      BY <1>5, <2>3 DEF HearInit
    <3>2. client'.id = req[r].id
      BY <3>1
    <3>. QED
      BY <2>1, <2>2, <2>3, <3>2 DEF OneFinish, Finishing
  <2>4. CASE req[r].pc # "ok"
    <3>1. client'.status # "sending"
      BY <1>0, <1>5, <2>4 DEF HearInit, ClientRecord
    <3>. QED
      BY <1>1, <2>1, <2>2, <3>1
  <2>. QED
    BY <2>3, <2>4
<1>6. ASSUME NEW r \in Reqs, HearChunk(r) \/ HearFinish(r) \/ Timeout(r) PROVE OneFinish'
  <2>1. req' = req /\ sent' = [sent EXCEPT ![r] = "nothing"]
    BY <1>6 DEF HearChunk, HearFinish, Timeout, Heard, vars
  <2>2. \A p \in Reqs : sent'[p] = sent[p] \/ sent'[p] = "nothing"
    BY <1>0, <2>1
  <2>3. client' = client \/ client'.status \in {"error", "success"}
    BY <1>0, <1>6 DEF HearChunk, HearFinish, Timeout, ClientRecord
  <2>. QED
    BY <1>1, <2>1, <2>2, <2>3
<1>7. CASE Retry
  <2>1. req' = req /\ sent' = sent /\ client' = [status |-> "pending", id |-> NoSession, todo |-> {}]
    BY <1>7 DEF Retry, vars
  <2>2. client'.status # "sending"
    BY <2>1
  <2>. QED
    BY <1>1, <2>1, <2>2
<1>8. CASE Crash
  <2>1. \A p \in Reqs : req'[p] = [NoRequest EXCEPT !.pc = "err"]
    BY <1>8 DEF Crash
  <2>2. [NoRequest EXCEPT !.pc = "err"].pc = "err"
    BY NoRequestType, PcUpdate DEF Points, Done
  <2>. QED
    BY <2>1, <2>2 DEF OneFinish, Finishing, FinishPoints
<1>. QED
  BY <1>2, <1>3, <1>4, <1>5, <1>6, <1>7, <1>8 DEF ClientNext, ClientStep, Finished

\* What Finish does to the files of an import source.
LEMMA ImportServed ==
    ASSUME StateOK, FileInv, ClientInv, ImportInv, driver = "import", NEW r \in Reqs, Continue(r),
           UNCHANGED <<sent, driver>>
    PROVE  /\ ImportOK(r)' /\ (Holds(target) => Holds(target)') /\ (node' # NoNode => Holds(target)')
           /\ \A s \in Sessions : \/ staged'[s] = staged[s] \/ ~ staged'[s].exists
                                  \/ Finishing(r) /\ req[r].id = s
<1>. DEFINE q == req[r]
<1>0. /\ q \in Request /\ OneFinish /\ ImportOK(r) /\ (node # NoNode => Holds(target))
      /\ Exchange(r) /\ "err" \in Done /\ "ok" \in Done /\ FinishPoints \subseteq Points
  BY DEF StateOK, ImportInv, ClientInv, Done, Points
<1>a. ASSUME req'[r].pc \notin {"finishImport", "finishCommit"}, UNCHANGED <<target, staged, node>>
      PROVE  /\ ImportOK(r)' /\ (Holds(target) => Holds(target)') /\ (node' # NoNode => Holds(target)')
             /\ \A s \in Sessions : staged'[s] = staged[s]
  BY <1>0, <1>a DEF ImportOK, Holds
<1>1. CASE InitCommit(r) \/ InitFind(r) \/ InitCreate(r) \/ InitMkdir(r)
  <2>1. UNCHANGED <<target, staged, node>>
    BY <1>0, <1>1 DEF InitCommit, InitFind, InitCreate, InitMkdir, disk, Exchange, At
  <2>2. req'[r].pc \notin FinishPoints
    BY <1>1, InitExchange
  <2>. QED
    BY <1>a, <2>1, <2>2 DEF FinishPoints
<1>2. CASE ChunkRead(r) \/ ChunkMkdir(r) \/ ChunkOpen(r) \/ ChunkWrite(r) \/ ChunkUpdate(r)
  <2>1. UNCHANGED <<target, staged, node>>
    BY <1>2 DEF ChunkRead, ChunkMkdir, ChunkOpen, ChunkWrite, ChunkUpdate, disk
  <2>2. req'[r].pc \notin FinishPoints
    BY <1>2, ChunkExchange
  <2>. QED
    BY <1>a, <2>1, <2>2 DEF FinishPoints
<1>3. CASE CancelDelete(r) \/ CancelRemove(r)
  BY <1>0, <1>3 DEF CancelDelete, CancelRemove, At, Exchange, CancelPoints
<1>b. ASSUME NEW point \in FinishPoints, Goto(r, point)
      PROVE  req'[r].pc = point /\ req'[r].id = q.id
  BY <1>0, <1>b, GotoType DEF SameSession
<1>c. ASSUME NEW code \in {"ok", "err"}, Answer(r, code) PROVE req'[r].pc = code
  BY <1>0, <1>c, AnswerType
<1>d. ASSUME FinishStat(r) \/ FinishCreate(r) \/ FinishCopy(r) \/ FinishHash(r) \/ FinishImport(r)
             \/ FinishCommit(r) \/ FinishRemove(r) \/ FinishDelete(r)
      PROVE  q.id \in Sessions /\ q.hash = Content /\ Finishing(r)
  BY <1>d, FinishExchange
<1>4. CASE FinishStat(r)
  <2>1. req'[r].pc \in {"finishCreate", "err"}
    BY <1>4, <1>b, <1>c DEF FinishStat, FinishPoints
  <2>. QED
    BY <1>4, <1>a, <2>1 DEF FinishStat, disk
<1>5. CASE FinishCreate(r)
  <2>1. target' = target /\ node' = node
    BY <1>5, UploadAssumption DEF FinishCreate
  <2>2. \A s \in Sessions : staged'[s] = staged[s] \/ q.id = s
    BY <1>5 DEF FinishCreate, StateOK
  <2>3. req'[r].pc \in {"finishCopy", "err"}
    <3>1. [q EXCEPT !.pc = "finishCopy", !.linked = TRUE].pc = "finishCopy"
      BY <1>0 DEF Request
    <3>2. CASE req' = [req EXCEPT ![r] = [q EXCEPT !.pc = "finishCopy", !.linked = TRUE]]
      BY <3>1, <3>2 DEF StateOK
    <3>. QED
      BY <1>5, <1>c, <3>2 DEF FinishCreate
  <2>. QED
    BY <1>0, <1>5, <1>d, <2>1, <2>2, <2>3 DEF ImportOK, Holds
<1>6. CASE FinishCopy(r)
  <2>1. target' = target /\ node' = node
    BY <1>6 DEF FinishCopy
  <2>2. \A s \in Sessions : staged'[s] = staged[s] \/ q.id = s
    BY <1>6 DEF FinishCopy, StateOK
  <2>3. req'[r].pc \notin {"finishImport", "finishCommit"}
    <3>0. q.pc = "finishCopy"
      BY <1>6 DEF FinishCopy, At
    <3>1. /\ [q EXCEPT !.next = q.next + 1, !.off = q.off + 1].pc = q.pc
          /\ [q EXCEPT !.next = q.next + 1].pc = q.pc
      BY <1>0 DEF Request
    <3>2. CASE \/ req' = [req EXCEPT ![r] = [q EXCEPT !.next = q.next + 1, !.off = q.off + 1]]
               \/ req' = [req EXCEPT ![r] = [q EXCEPT !.next = q.next + 1]]
      BY <3>0, <3>1, <3>2 DEF StateOK
    <3>3. CASE Goto(r, "finishHash") \/ Answer(r, "err")
      BY <1>b, <1>c, <3>3 DEF FinishPoints
    <3>. QED
      BY <1>6, <3>2, <3>3 DEF FinishCopy
  <2>. QED
    BY <1>0, <1>6, <1>d, <2>1, <2>2, <2>3 DEF ImportOK, Holds
<1>7. CASE FinishHash(r)
  <2>0. UNCHANGED <<target, staged, node>>
    BY <1>7 DEF FinishHash, disk
  <2>1. CASE Answer(r, "err")
    BY <1>a, <1>c, <2>0, <2>1
  <2>2. CASE /\ Output(r).exists /\ (q.hash = NoHash \/ HashIs(Output(r), q.hash))
             /\ Goto(r, IF driver = "local" THEN "finishCommit" ELSE "finishImport")
    <3>1. req'[r].pc = "finishImport" /\ req'[r].id = q.id
      BY <1>b, <2>2 DEF FinishPoints
    <3>2. Holds(staged[q.id])
      BY <1>7, <1>d, <2>2, UploadAssumption, ClientAssumption DEF Output, HashIs, Holds
    <3>. QED
      BY <1>0, <2>0, <3>1, <3>2 DEF ImportOK, Holds
  <2>. QED
    BY <1>7, <2>1, <2>2 DEF FinishHash
<1>8. CASE FinishImport(r)
  <2>0. staged' = staged /\ node' = node
    BY <1>8 DEF FinishImport
  <2>1. CASE target' = target /\ Answer(r, "err")
    BY <1>a, <1>c, <2>0, <2>1
  <2>2. CASE ~ target.exists /\ staged[q.id].exists /\ target' = staged[q.id] /\ Goto(r, "finishCommit")
    <3>1. Holds(staged[q.id]) /\ ~ Holds(target)
      BY <1>0, <1>8, <2>2 DEF FinishImport, At, ImportOK, Holds
    <3>2. req'[r].pc = "finishCommit"
      BY <1>b, <2>2 DEF FinishPoints
    <3>. QED
      BY <1>0, <2>0, <2>2, <3>1, <3>2 DEF ImportOK, Holds
  <2>. QED
    BY <1>8, <2>1, <2>2 DEF FinishImport
<1>9. CASE FinishCommit(r)
  <2>1. UNCHANGED <<target, staged>> /\ Holds(target)
    BY <1>0, <1>9 DEF FinishCommit, disk, At, ImportOK
  <2>2. req'[r].pc \in {"finishRemove", "err"}
    BY <1>9, <1>b, <1>c DEF FinishCommit, FinishPoints
  <2>. QED
    BY <2>1, <2>2 DEF ImportOK, Holds
<1>10. CASE FinishRemove(r)
  <2>1. target' = target /\ node' = node /\ RemoveTempDir(q.id)
    BY <1>10 DEF FinishRemove
  <2>2. \A s \in Sessions : staged'[s] = staged[s] \/ q.id = s
    BY <2>1 DEF RemoveTempDir, StateOK
  <2>3. Unlinked(q.id) \in [Reqs -> Request]
    BY <1>10, RemoveType DEF FinishRemove
  <2>4. [Unlinked(q.id)[r] EXCEPT !.pc = "finishDelete"].pc = "finishDelete"
    BY <1>0, <2>3, PcUpdate DEF FinishPoints
  <2>5. req' = [Unlinked(q.id) EXCEPT ![r] = [Unlinked(q.id)[r] EXCEPT !.pc = "finishDelete"]]
    BY <1>10, <2>3 DEF FinishRemove
  <2>6. req'[r].pc = "finishDelete"
    BY <2>3, <2>4, <2>5
  <2>. QED
    BY <1>0, <1>10, <1>d, <2>1, <2>2, <2>6 DEF ImportOK, Holds
<1>11. CASE FinishDelete(r)
  BY <1>11, <1>a, <1>c DEF FinishDelete, disk
<1>. QED
  BY <1>1, <1>2, <1>3, <1>4, <1>5, <1>6, <1>7, <1>8, <1>9, <1>10, <1>11 DEF Continue

LEMMA ImportStep ==
    ASSUME ClientTypeOK, FileInv, ClientInv, ImportInv, [ClientNext]_cvars
    PROVE  ImportInv'
<1>. SUFFICES ASSUME driver = "import" PROVE ImportInv'
  BY ClientInvStep DEF ImportInv
<1>0. /\ StateOK /\ OneFinish /\ OneFinish' /\ driver' = driver
      /\ \A p \in Reqs : ImportOK(p) /\ Exchange(p)
      /\ node # NoNode => Holds(target)
  BY ClientInvStep, OneFinishStep DEF ClientTypeOK, TypeOK, ImportInv, ClientInv
<1>1. ASSUME UNCHANGED <<target, staged, node>>,
             \A p \in Reqs : req'[p] = req[p] \/ req'[p].pc \notin {"finishImport", "finishCommit"}
      PROVE  ImportInv'
  BY <1>0, <1>1 DEF ImportInv, ImportOK, Holds
<1>2. CASE UNCHANGED cvars
  BY <1>1, <1>2 DEF cvars, vars
<1>3. ASSUME NEW r \in Reqs, Serve(r) PROVE ImportInv'
  <2>1. /\ ImportOK(r)' /\ (Holds(target) => Holds(target)') /\ (node' # NoNode => Holds(target)')
        /\ \A s \in Sessions : \/ staged'[s] = staged[s] \/ ~ staged'[s].exists
                               \/ Finishing(r) /\ req[r].id = s
        /\ Others(r)
    BY <1>0, <1>3, ImportServed, ServedExchange DEF Serve, ImportInv
  <2>2. ASSUME NEW p \in Reqs, p # r PROVE ImportOK(p)'
    <3>1. req'[p].pc = req[p].pc /\ req'[p].id = req[p].id
      BY <2>1, <2>2 DEF Others, SameProgress
    <3>2. CASE req[p].pc = "finishImport"
      <4>1. req[p].id \in Sessions /\ Finishing(p)
        BY <3>2 DEF FileInv, HandlerOK, SessionPoints, FinishPoints, Finishing
      <4>2. staged'[req[p].id] = staged[req[p].id] \/ ~ staged'[req[p].id].exists
        BY <1>0, <2>1, <2>2, <4>1 DEF OneFinish
      <4>. QED
        BY <1>0, <3>1, <3>2, <4>2 DEF ImportOK, Holds
    <3>3. CASE req[p].pc # "finishImport"
      BY <1>0, <2>1, <3>1, <3>3 DEF ImportOK
    <3>. QED
      BY <3>2, <3>3
  <2>. QED
    BY <1>0, <2>1, <2>2 DEF ImportInv
<1>4. ASSUME NEW r \in Reqs, SendInit(r) \/ SendChunk(r) \/ SendFinish(r) PROVE ImportInv'
  <2>1. /\ Others(r) /\ UNCHANGED <<node, target, staged>>
        /\ req'[r].pc \notin {"finishImport", "finishCommit"}
    BY <1>0, <1>4, CallExchange DEF FinishPoints
  <2>. QED
    BY <1>0, <2>1 DEF ImportInv, ImportOK, Holds, Others, SameProgress
<1>5. ASSUME NEW r \in Reqs, HearInit(r) \/ HearChunk(r) \/ HearFinish(r) PROVE ImportInv'
  BY <1>1, <1>5 DEF HearInit, HearChunk, HearFinish, vars
<1>6. ASSUME NEW r \in Reqs, Timeout(r) PROVE ImportInv'
  BY <1>1, <1>6, TimeoutFrame
<1>7. CASE Retry
  BY <1>1, <1>7 DEF Retry, vars
<1>8. CASE Crash
  <2>1. UNCHANGED <<target, staged, node>> /\ \A p \in Reqs : req'[p] = [NoRequest EXCEPT !.pc = "err"]
    BY <1>8 DEF Crash, disk
  <2>2. [NoRequest EXCEPT !.pc = "err"].pc = "err"
    BY NoRequestType, PcUpdate DEF Points, Done
  <2>. QED
    BY <1>1, <2>1, <2>2
<1>. QED
  BY <1>2, <1>3, <1>4, <1>5, <1>6, <1>7, <1>8 DEF ClientNext, ClientStep, Finished

-----------------------------------------------------------------------------
(* The trace of a commit that failed *)

LEMMA TraceServed ==
    ASSUME StateOK, FileInv, ClientInv, TraceInv, driver = "local" => MatchInv,
           driver \in {"local", "import"}, "journal" \notin FaultKinds,
           NEW r \in Reqs, Continue(r), UNCHANGED <<sent, driver, upset>>
    PROVE  TraceInv'
<1>. DEFINE q == req[r]
<1>. SUFFICES ASSUME ~upset, Holds(target)', node' = NoNode
              PROVE  journal' # {} \/ \E p \in Reqs : Committing(p)'
  BY DEF TraceInv
<1>0. /\ q \in Request /\ Exchange(r) /\ "err" \in Done /\ "ok" \in Done
      /\ FinishPoints \subseteq Points /\ target \in File /\ 0 \in Idx /\ Content \in Contents
      /\ Content # NoHash /\ Content # NoNode
  BY UploadAssumption, ClientAssumption DEF StateOK, ClientInv, Done, Points, Idx
<1>1. Others(r) /\ node = NoNode
  BY ServedExchange, SMTT(60) DEF Kept
<1>2. journal # {} => journal' # {}
  <2>1. \A p \in Reqs : RecordFailure(p) => journal' = journal \cup {req[p].id}
    BY DEF RecordFailure
  <2>. QED
    BY <2>1, ZenonT(60) DEF Continue, InitCommit, InitFind, InitCreate, InitMkdir, ChunkRead, ChunkMkdir,
                ChunkOpen, ChunkWrite, ChunkUpdate, FinishStat, FinishCreate, FinishCopy,
                FinishHash, FinishImport, FinishCommit, FinishRemove, FinishDelete,
                CancelDelete, CancelRemove
<1>3. ASSUME NEW p \in Reqs, p # r, Committing(p) PROVE Committing(p)'
  BY <1>1, <1>3 DEF Others, SameProgress, Committing
<1>4. ASSUME target' = target, Committing(r) => journal' # {} \/ Committing(r)'
      PROVE  journal' # {} \/ \E p \in Reqs : Committing(p)'
  <2>1. Holds(target)
    BY <1>4 DEF Holds
  <2>2. journal # {} \/ \E p \in Reqs : Committing(p)
    BY <1>1, <2>1 DEF TraceInv
  <2>. QED
    BY <1>2, <1>3, <1>4, <2>2
<1>b. ASSUME NEW point \in FinishPoints, Goto(r, point)
      PROVE  req'[r].pc = point
  BY <1>0, <1>b, GotoType
<1>5. CASE \/ InitCommit(r) \/ InitFind(r) \/ InitCreate(r) \/ InitMkdir(r)
           \/ ChunkRead(r) \/ ChunkMkdir(r) \/ ChunkOpen(r) \/ ChunkWrite(r) \/ ChunkUpdate(r)
           \/ FinishStat(r) \/ FinishRemove(r) \/ FinishDelete(r)
           \/ CancelDelete(r) \/ CancelRemove(r)
  <2>1. target' = target
    BY <1>5, ZenonT(60) DEF InitCommit, InitFind, InitCreate, InitMkdir, ChunkRead, ChunkMkdir, ChunkOpen,
                ChunkWrite, ChunkUpdate, FinishStat, FinishRemove, FinishDelete,
                CancelDelete, CancelRemove, disk
  <2>2. q.pc \notin {"finishCommit", "finishHash", "finishCopy"}
    BY <1>5, ZenonT(60) DEF InitCommit, InitFind, InitCreate, InitMkdir, ChunkRead, ChunkMkdir, ChunkOpen,
                ChunkWrite, ChunkUpdate, FinishStat, FinishRemove, FinishDelete,
                CancelDelete, CancelRemove, At
  <2>. QED
    BY <1>4, <2>1, <2>2, SMTT(60) DEF Committing
<1>6. CASE FinishCreate(r)
  <2>1. CASE target' = EmptyFile
    BY <1>0, <2>1, UploadAssumption DEF EmptyFile, Holds
  <2>2. CASE target' = target
    BY <1>4, <1>6, <2>2 DEF FinishCreate, At, Committing
  <2>. QED
    BY <1>6, <2>1, <2>2 DEF FinishCreate
<1>7. CASE FinishCopy(r)
  <2>0. q.pc = "finishCopy" /\ q.hash = Content
    BY <1>0, <1>7, SMTT(60) DEF FinishCopy, At, Exchange, Free, Done
  <2>1. CASE /\ driver = "local" /\ q.next < N
             /\ target' = Written(target, q.off, chunk[q.id][q.next])
             /\ req' = [req EXCEPT ![r] = [q EXCEPT !.next = q.next + 1, !.off = q.off + 1]]
    <3>1. /\ target' = Written(target, q.off, chunk[q.id][q.next])
          /\ req' = [req EXCEPT ![r] = [q EXCEPT !.next = q.next + 1, !.off = q.off + 1]]
      BY <2>1, SMTT(60)
    <3>2. q.off <= q.next /\ \A k \in Idx : q.off <= k => target.data[k] = Gap
      BY <2>0, <2>1 DEF MatchInv, TargetOK
    <3>3. q.off \in Nat /\ q.next \in Nat /\ N \in Nat /\ Idx = 0 .. N - 1
      BY <1>0, UploadAssumption DEF Request, Idx
    <3>4. \A k \in Idx : k > q.off => target'.data[k] = Gap
      <4>1. \A k \in Idx : k # q.off =>
               Written(target, q.off, chunk[q.id][q.next]).data[k] = target.data[k]
        BY <1>0 DEF Written, File
      <4>2. ASSUME NEW k \in Idx, k > q.off PROVE target'.data[k] = Gap
        <5>1. k # q.off /\ q.off <= k
          BY <3>3, <4>2, SMTT(60)
        <5>2. target.data[k] = Gap
          BY <3>2, <5>1, ZenonT(60)
        <5>3. Written(target, q.off, chunk[q.id][q.next]).data[k] = target.data[k]
          BY <4>1, <5>1, ZenonT(60)
        <5>. QED
          BY <3>1, <5>2, <5>3, ZenonT(60)
      <4>. QED
        BY <4>2
    <3>5. ~ (q.off + 1 \in Idx)
      BY <1>0, <3>3, <3>4, UploadAssumption, SMTT(60) DEF Holds
    <3>6. q.next + 1 = N
      BY <2>1, <3>2, <3>3, <3>5, SMTT(60)
    <3>7. /\ [q EXCEPT !.next = q.next + 1, !.off = q.off + 1].pc = "finishCopy"
          /\ [q EXCEPT !.next = q.next + 1, !.off = q.off + 1].next = N
      BY <1>0, <2>0, <3>6 DEF Request
    <3>8. req'[r].pc = "finishCopy" /\ req'[r].next = N
      BY <3>1, <3>7 DEF StateOK
    <3>. QED
      BY <2>1, <3>8 DEF Committing
  <2>2. CASE target' = target
    <3>2. ASSUME Committing(r) PROVE Committing(r)'
      <4>1. driver = "local" /\ q.next = N
        BY <2>0, <3>2 DEF Committing
      <4>2. ~ (q.next < N)
        BY <4>1, UploadAssumption
      <4>3. Goto(r, "finishHash")
        BY <1>7, <4>2 DEF FinishCopy
      <4>. QED
        BY <1>b, <4>1, <4>3 DEF FinishPoints, Committing
    <3>. QED
      BY <1>4, <2>2, <3>2
  <2>. QED
    BY <1>7, <2>1, <2>2 DEF FinishCopy
<1>8. CASE FinishHash(r)
  <2>0. q.pc = "finishHash" /\ q.hash = Content /\ target' = target
    BY <1>0, <1>8 DEF FinishHash, At, disk, Exchange, Free, Done
  <2>1. ASSUME Committing(r) PROVE Committing(r)'
    <3>1. driver = "local"
      BY <2>0, <2>1 DEF Committing
    <3>2. Output(r) = target /\ HashIs(target, Content)
      BY <1>0, <2>0, <3>1 DEF Output, HashIs, Holds
    <3>3. Goto(r, "finishCommit")
      BY <1>8, <2>0, <3>1, <3>2 DEF FinishHash, HashIs
    <3>. QED
      BY <1>b, <3>3 DEF FinishPoints, Committing
  <2>. QED
    BY <1>4, <2>0, <2>1
<1>9. CASE FinishImport(r)
  <2>1. CASE Goto(r, "finishCommit")
    BY <1>b, <2>1 DEF FinishPoints, Committing
  <2>2. CASE target' = target
    BY <1>4, <1>9, <2>2 DEF FinishImport, At, Committing
  <2>. QED
    BY <1>9, <2>1, <2>2 DEF FinishImport
<1>10. CASE FinishCommit(r)
  <2>1. q.hash = Content
    BY <1>0, <1>10 DEF FinishCommit, At, Exchange, Free, Done
  <2>2. RecordFailure(r)
    BY <1>0, <1>10, <2>1 DEF FinishCommit
  <2>. QED
    BY <2>2 DEF RecordFailure
<1>. QED
  BY <1>5, <1>6, <1>7, <1>8, <1>9, <1>10 DEF Continue

LEMMA TraceStep ==
    ASSUME ClientTypeOK, FileInv, ClientInv, TraceInv, driver = "local" => MatchInv,
           "journal" \notin FaultKinds, [ClientNext]_cvars
    PROVE  TraceInv'
<1>0. /\ StateOK /\ driver' = driver /\ driver \in {"local", "import"}
      /\ client \in ClientRecord /\ sent \in [Reqs -> Awaits]
  BY ClientInvStep, UploadAssumption DEF ClientTypeOK, TypeOK, ClientRecord
<1>1. ASSUME UNCHANGED <<target, node, journal, upset>>,
             req' = req
      PROVE  TraceInv'
  BY <1>0, <1>1 DEF TraceInv, Committing, Holds
<1>2. CASE UNCHANGED cvars
  BY <1>1, <1>2 DEF cvars, vars
<1>3. ASSUME NEW r \in Reqs, Serve(r) PROVE TraceInv'
  BY <1>0, <1>3, TraceServed DEF Serve
<1>4. ASSUME NEW r \in Reqs, ClientStep(r), SendInit(r) \/ SendChunk(r) \/ SendFinish(r)
      PROVE  TraceInv'
  <2>1. /\ Others(r) /\ Free(r) /\ UNCHANGED <<node, target, journal, upset>>
    BY <1>0, <1>4, CallExchange DEF ClientStep
  <2>2. \A p \in Reqs : Committing(p) => Committing(p)'
    <3>1. ~ Committing(r)
      BY <2>1 DEF Committing, Free, Done
    <3>. QED
      BY <1>0, <2>1, <3>1 DEF Others, SameProgress, Committing
  <2>. QED
    BY <2>1, <2>2 DEF TraceInv, Holds
<1>5. ASSUME NEW r \in Reqs, ClientStep(r), HearInit(r) \/ HearChunk(r) \/ HearFinish(r)
      PROVE  TraceInv'
  BY <1>1, <1>5 DEF ClientStep, HearInit, HearChunk, HearFinish, vars
<1>6. ASSUME upset' = TRUE PROVE TraceInv'
  BY <1>6 DEF TraceInv
<1>7. CASE Retry
  BY <1>1, <1>7 DEF Retry, vars
<1>. QED
  BY <1>2, <1>3, <1>4, <1>5, <1>6, <1>7, TimeoutFrame DEF ClientNext, ClientStep, Finished

-----------------------------------------------------------------------------
(* What the client is told *)

LEMMA ClientMatchStep ==
    ASSUME OneFinisher, ClientTypeOK, FileInv, ClientInv, MatchInv, [ClientNext]_cvars
    PROVE  MatchInv'
<1>0. StateOK
  BY DEF ClientTypeOK, TypeOK
<1>1. CASE [Next]_vars
  BY <1>0, <1>1, MatchStep
<1>2. ASSUME NEW r \in Reqs, Timeout(r) PROVE MatchInv'
  <2>1. UNCHANGED <<target, staged, node, req, driver>>
    BY <1>2, TimeoutFrame
  <2>. QED
    BY <2>1 DEF MatchInv, TargetOK, CommittedFileMatches, Accepted, HashIs
<1>. QED
  BY <1>1, <1>2, ServiceStep

\* The client's invariant: with the service's for a local source, of which one
\* goroutine at a time serves Finish, and with one Finish per session for an import.
UploadInv ==
    /\ ClientTypeOK /\ FileInv /\ ClientInv
    /\ ImportInv
    /\ driver = "local" => MatchInv

LEMMA UploadInvInit == ClientInit => UploadInv
  BY ClientTypeInit, FileInit, ClientInvInit, SafeInit, MatchInit DEF UploadInv, ClientInit

LEMMA UploadInvStep ==
    ASSUME OneFinisher \/ "local" \notin Drivers, UploadInv, [ClientNext]_cvars
    PROVE  UploadInv'
<1>1. FileInv' /\ ClientInv' /\ ImportInv' /\ driver' = driver
  BY ServiceKeeps, ClientInvStep, ImportStep DEF UploadInv
<1>2. ClientTypeOK'
  BY <1>1, ServiceKeeps, ClientInvStep DEF UploadInv, ClientTypeOK, TypeOK, ClientRecord
<1>3. (driver = "local" => MatchInv)'
  BY <1>1, ClientMatchStep DEF UploadInv, ClientTypeOK, TypeOK
<1>. QED
  BY <1>1, <1>2, <1>3 DEF UploadInv

\* When the client shows an upload as done, the file is committed under its
\* checksum and the source holds exactly it: whatever timed out, failed or
\* restarted, and however often the user started over, for any number of
\* connections, sessions and chunks.  For a local source it takes that one
\* goroutine at a time serves Finish; an ImportDriver source needs nothing.
THEOREM SuccessMeansCommitted ==
    ASSUME OneFinisher \/ "local" \notin Drivers
    PROVE  ClientSpec => []SuccessIsCommitted
<1>1. ClientInit => UploadInv
  BY UploadInvInit
<1>2. UploadInv /\ [ClientNext]_cvars => UploadInv'
  BY UploadInvStep
<1>3. UploadInv => SuccessIsCommitted
  <2>. SUFFICES ASSUME UploadInv, client.status = "success"
                PROVE  node = Content /\ Holds(target)
    BY DEF UploadInv, SuccessIsCommitted, Holds
  <2>1. node = Content /\ Content # NoNode /\ Content # NoHash
    BY UploadAssumption, ClientAssumption DEF UploadInv, ClientInv, ClientOK, NodeOK
  <2>2. CASE driver = "local"
    BY <2>1, <2>2 DEF UploadInv, MatchInv, CommittedFileMatches, Holds
  <2>3. CASE driver = "import"
    BY <2>1, <2>3 DEF UploadInv, ImportInv
  <2>. QED
    BY <2>1, <2>2, <2>3, UploadAssumption DEF UploadInv, ClientTypeOK, TypeOK
<1>. QED
  BY <1>1, <1>2, <1>3, PTL DEF ClientSpec

\* A target that was written completely and verified, but whose metadata commit
\* failed, has its journal entry once the handlers rest, if recording the failure
\* does not fail itself; under the same condition.
THEOREM FailedCommitLeavesTrace ==
    ASSUME OneFinisher \/ "local" \notin Drivers, "journal" \notin FaultKinds
    PROVE  ClientSpec => []UncommittedFileJournalled
<1>1. ClientInit => UploadInv /\ TraceInv
  BY UploadInvInit, SafeInit
<1>2. UploadInv /\ TraceInv /\ [ClientNext]_cvars => UploadInv' /\ TraceInv'
  BY UploadInvStep, TraceStep DEF UploadInv
<1>3. UploadInv /\ TraceInv => UncommittedFileJournalled
  BY DEF TraceInv, UncommittedFileJournalled, Holds, Committing, Free, Done
<1>. QED
  BY <1>1, <1>2, <1>3, PTL DEF ClientSpec
=============================================================================
