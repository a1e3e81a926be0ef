---------------------------- MODULE DownloadTask ----------------------------
(***************************************************************************)
(* TaskService (task_service.go) against aria2, qBittorrent or the native  *)
(* downloads of a PikPak source: Create, the refresh that List, Get and    *)
(* the sync worker run, the import of a completed download into the target *)
(* source, Cancel, Pause and Resume.                                       *)
(*                                                                         *)
(* An actor is a goroutine (an HTTP request or the worker) with the        *)
(* *entity.DownloadTask it read; nothing locks a task, and every Update    *)
(* writes all columns of that copy.  All tasks download the same Files     *)
(* into one directory.  One step is one call to the database, the file     *)
(* system or the downloader.                                               *)
(***************************************************************************)
EXTENDS Integers, FiniteSets

CONSTANTS
    Tasks,
    Actors,
    Worker,      \* the actor that is the sync worker
    Files,       \* relative paths in the order of WalkDir, as numbers
    Routes,      \* <<downloader, place>>: "aria2", "qbittorrent" or "native"; and how a
                 \* file gets to its target: "rename" or, on another device, "copy" to a
                 \* local source, "import" to S3 or PikPak (ImportFile), or "native", when
                 \* the provider itself puts it there
    FaultKinds,  \* "rpc", "db", "fs", "commit", "job", "crash"
    MaxFaults,   \* how many faults, of different kinds, in a behaviour (bound)
    NoTask

ASSUME TaskAssumption ==
    /\ Files \subseteq Nat /\ Files # {} /\ IsFiniteSet(Files)
    /\ Worker \in Actors
    /\ Routes \subseteq {"aria2", "qbittorrent"} \X {"rename", "copy", "import"}
                        \cup {<<"native", "native">>}
    /\ MaxFaults \in Nat
    /\ NoTask \notin Tasks

VARIABLES
    row,      \* download_tasks: status, StagingDir # "", ResultVFSNodeID > 0
    job,      \* the downloader's job of each task
    dir,      \* staging directories that exist
    staged,   \* files in them
    target,   \* what is at each target path: whose download, and all of it?
    node,     \* target paths with a committed metadata node
    journal,  \* tasks with a task_commit failure in the operation journal
    told,     \* terminal statuses that OnTaskTerminalStatus was called with
    act,      \* the actors
    faults,   \* the kinds of the faults that have happened
    route     \* the downloader of the link and the target source, one of Routes

vars == <<row, job, dir, staged, target, node, journal, told, act, faults, route>>
import == <<dir, staged, target, node, journal>>

Terminal == {"completed", "failed", "canceled"}
Statuses == {"pending", "running", "paused"} \cup Terminal
Jobs == {"none", "waiting", "active", "paused", "complete", "error", "removed"}

NoFile == [of |-> NoTask, whole |-> FALSE]
Exists(f) == target[f] # NoFile
via == route[1]
place == route[2]
First(files) == CHOOSE f \in files : \A g \in files : f <= g

\* What a task downloads: a native download is one object of the provider.
Objects == IF via = "native" THEN {First(Files)} ELSE Files

CreatePoints == {"addURI", "createRow", "withdraw"}
ImportPoints == {"list", "probe", "recommit", "statStaged", "stat", "move", "copy", "unstage",
                 "commit", "recover", "recoverCommit", "removeAll", "commitNative"}
RefreshPoints == {"tell", "update"} \cup ImportPoints
OtherPoints == {"notify", "cancelUpdate", "cancelRemove", "pauseJob", "pauseUpdate",
                "resumeJob", "resumeUpdate"}
Points == {"idle"} \cup CreatePoints \cup RefreshPoints \cup OtherPoints

Row == [status : Statuses \cup {"absent"}, staging : BOOLEAN, result : BOOLEAN]

Actor == [pc : Points, task : Tasks \cup {NoTask}, row : Row,
          todo : SUBSET Files,   \* files of the import loop not yet dealt with
          own : BOOLEAN]         \* this actor imported the file it recovers

NoRow == [status |-> "absent", staging |-> FALSE, result |-> FALSE]
Idle == [pc |-> "idle", task |-> NoTask, row |-> NoRow, todo |-> {}, own |-> FALSE]

TypeOK ==
    /\ row \in [Tasks -> Row]
    /\ job \in [Tasks -> Jobs]
    /\ dir \in [Tasks -> BOOLEAN]
    /\ staged \in [Tasks -> SUBSET Files]
    /\ target \in [Files -> [of : Tasks \cup {NoTask}, whole : BOOLEAN]]
    /\ node \in SUBSET Files
    /\ journal \in SUBSET Tasks
    /\ told \in [Tasks -> SUBSET Terminal]
    /\ act \in [Actors -> Actor]
    /\ faults \in SUBSET FaultKinds /\ Cardinality(faults) <= MaxFaults
    /\ route \in Routes

Init ==
    /\ row = [t \in Tasks |-> NoRow]
    /\ job = [t \in Tasks |-> "none"]
    /\ dir = [t \in Tasks |-> FALSE]
    /\ staged = [t \in Tasks |-> {}]
    /\ target = [f \in Files |-> NoFile]
    /\ node = {}
    /\ journal = {}
    /\ told = [t \in Tasks |-> {}]
    /\ act = [a \in Actors |-> Idle]
    /\ faults = {}
    /\ route \in Routes

-----------------------------------------------------------------------------
(* Steps shared by the operations *)

At(a, point) == act[a].pc = point
Free(a) == act[a].pc = "idle"
Goto(a, point) == act' = [act EXCEPT ![a] = [@ EXCEPT !.pc = point]]
Return(a) == act' = [act EXCEPT ![a] = Idle]

Fault(kind) ==
    /\ kind \in FaultKinds \ faults
    /\ Cardinality(faults) < MaxFaults
    /\ faults' = faults \cup {kind}

\* FindByID, or this task's element of List
Read(a, t, point) ==
    act' = [act EXCEPT ![a] = [Idle EXCEPT !.pc = point, !.task = t, !.row = row[t]]]

\* The copy gets a new status and the actor goes on to write it.
SetStatus(a, status, point) ==
    act' = [act EXCEPT ![a] = [@ EXCEPT !.pc = point,
                                        !.row = [act[a].row EXCEPT !.status = status]]]

\* Mutant: an Update that leaves result_vfs_node_id out
MutantUpdate(a) ==
    row' = [row EXCEPT ![act[a].task] = [act[a].row EXCEPT !.result = row[act[a].task].result]]

\* taskRepo.Update: every column, from the actor's copy
RepoUpdate(a) == row' = [row EXCEPT ![act[a].task] = act[a].row]

RemoveStaging(t) ==
    /\ dir' = [dir EXCEPT ![t] = FALSE]
    /\ staged' = [staged EXCEPT ![t] = {}]

\* An Update that ends in point, or in an error answer
WriteBack(a, point) ==
    /\ \/ RepoUpdate(a) /\ Goto(a, point) /\ UNCHANGED faults
       \/ Fault("db") /\ Return(a) /\ UNCHANGED row
    /\ UNCHANGED <<job, import, told>>

\* Mutant: the observer is called for completed tasks only.
MutantNotifiesCompleted(a) ==
    /\ At(a, "notify")
    /\ told' = IF act[a].row.status = "completed"
               THEN [told EXCEPT ![act[a].task] = @ \cup {"completed"}] ELSE told
    /\ Return(a)
    /\ UNCHANGED <<row, job, import, faults>>

\* notifyTaskTerminalStatus
Notify(a) ==
    LET q == act[a]
    IN  /\ At(a, "notify")
        /\ told' = IF q.row.status \in Terminal
                   THEN [told EXCEPT ![q.task] = @ \cup {q.row.status}] ELSE told
        /\ Return(a)
        /\ UNCHANGED <<row, job, import, faults>>

-----------------------------------------------------------------------------
(* Create *)

Unused(t) ==
    /\ row[t] = NoRow /\ job[t] = "none" /\ ~ dir[t]
    /\ \A a \in Actors : act[a].task # t

CreateStaging(a, t) ==
    /\ Free(a) /\ Unused(t) /\ via # "native"
    /\ \/ /\ dir' = [dir EXCEPT ![t] = TRUE]
          /\ act' = [act EXCEPT ![a] = [Idle EXCEPT !.pc = "addURI", !.task = t]]
          /\ UNCHANGED faults
       \/ Fault("fs") /\ UNCHANGED <<dir, act>>
    /\ UNCHANGED <<row, job, staged, target, node, journal, told>>

\* The downloader has the job: its gid, or the tag that the torrent was added with
Added(t) == [job EXCEPT ![t] = "waiting"]

AddURI(a) ==
    LET t == act[a].task
    IN  /\ At(a, "addURI")
        /\ \/ /\ job' = Added(t)
              /\ Goto(a, "createRow")
              /\ UNCHANGED <<dir, staged, faults>>
           \/ /\ Fault("rpc")                    \* the call or its answer is lost
              /\ job' \in {job, Added(t)}
              /\ RemoveStaging(t)
              /\ Return(a)
        /\ UNCHANGED <<row, target, node, journal, told>>

\* A row that cannot be written leaves the job running in the downloader.
CreateRow(a) ==
    LET t == act[a].task
    IN  /\ At(a, "createRow") /\ via # "native"
        /\ \/ /\ row' = [row EXCEPT ![t] = [status |-> "pending", staging |-> TRUE, result |-> FALSE]]
              /\ Return(a)
              /\ UNCHANGED <<dir, staged, faults>>
           \/ /\ Fault("db")
              /\ RemoveStaging(t)
              /\ Return(a)
              /\ UNCHANGED row
        /\ UNCHANGED <<job, target, node, journal, told>>

\* tryCreateNativeDownloadTask: CreateNativeDownload, whose answer may be lost
CreateNative(a, t) ==
    /\ Free(a) /\ Unused(t) /\ via = "native"
    /\ \/ /\ job' = Added(t)
          /\ act' = [act EXCEPT ![a] = [Idle EXCEPT !.pc = "createRow", !.task = t]]
          /\ UNCHANGED faults
       \/ /\ Fault("rpc")
          /\ job' \in {job, Added(t)}
          /\ UNCHANGED act
    /\ UNCHANGED <<row, import, told>>

NativeRow(a) ==
    LET t == act[a].task
    IN  /\ At(a, "createRow") /\ via = "native"
        /\ \/ /\ row' = [row EXCEPT ![t] = [status |-> "pending", staging |-> FALSE, result |-> FALSE]]
              /\ Return(a)
              /\ UNCHANGED faults
           \/ Fault("db") /\ Goto(a, "withdraw") /\ UNCHANGED row
        /\ UNCHANGED <<job, import, told>>

\* The row could not be written: the provider's task is canceled, or it fails to be.
Withdraw(a) ==
    /\ At(a, "withdraw")
    /\ job' \in {job, [job EXCEPT ![act[a].task] = "removed"]}
    /\ Return(a)
    /\ UNCHANGED <<row, import, told, faults>>

-----------------------------------------------------------------------------
(* refreshTask: List, Get and SyncAll *)

\* A task whose copy is terminal is not refreshed.
RefreshRead(a, t) ==
    /\ Free(a)
    /\ row[t].status \in Statuses \ Terminal
    /\ Read(a, t, "tell")
    /\ UNCHANGED <<row, job, import, told, faults>>

\* mapAria2Status
Aria2Status(state) ==
    CASE state = "waiting" -> "pending"
      [] state = "active" -> "running"
      [] state = "paused" -> "paused"
      [] state = "complete" -> "completed"
      [] state = "error" -> "failed"
      [] state = "removed" -> "canceled"

\* TellStatus of qBittorrent: a torrent that is not there is pending.
QBitStatus(state) == IF state = "removed" THEN "pending" ELSE Aria2Status(state)

\* GetNativeDownloadStatus, for a task the provider still lists
NativeStatus(state) ==
    CASE state = "waiting" -> "pending"
      [] state = "active" -> "running"
      [] state = "complete" -> "completed"
      [] state = "error" -> "failed"

StatusOf(state) ==
    CASE via = "aria2" -> Aria2Status(state)
      [] via = "qbittorrent" -> QBitStatus(state)
      [] via = "native" -> NativeStatus(state)

\* A native task that the provider does not list is an error.
Answered(state) == via = "native" => state # "removed"

\* importCompletedTask looks for a staging directory first.
Imports(q) ==
    IF q.row.staging THEN "list" ELSE IF q.row.result THEN "update" ELSE "commitNative"

\* Mutant: a download that has ended is not looked at again.
MutantTellLive(a) ==
    /\ At(a, "tell")
    /\ IF job[act[a].task] \in {"waiting", "active", "paused"}
       THEN SetStatus(a, StatusOf(job[act[a].task]), "update") ELSE Return(a)
    /\ UNCHANGED <<row, job, import, told, faults>>

Tell(a) ==
    LET state == job[act[a].task]
    IN  /\ At(a, "tell")
        /\ \/ /\ Answered(state)
              /\ SetStatus(a, StatusOf(state), IF state = "complete" THEN Imports(act[a]) ELSE "update")
              /\ UNCHANGED faults
           \/ ~ Answered(state) /\ Return(a) /\ UNCHANGED faults
           \/ Fault("rpc") /\ Return(a)
        /\ UNCHANGED <<row, job, import, told>>

RefreshUpdate(a) == At(a, "update") /\ WriteBack(a, "notify")

-----------------------------------------------------------------------------
(* importCompletedTask *)

ImportFails(a) == SetStatus(a, "failed", "update")
Succeeded(row_) == [row_ EXCEPT !.result = TRUE, !.staging = FALSE]
Succeed(a) == act' = [act EXCEPT ![a] = [@ EXCEPT !.pc = "update", !.row = Succeeded(act[a].row)]]

\* Mutants: the import loop ends with its first file; no journal entry.
MutantOneFile(a) ==
    act' = [act EXCEPT ![a] = [@ EXCEPT !.pc = "removeAll", !.todo = {}, !.own = FALSE,
                                        !.row = [act[a].row EXCEPT !.result = TRUE]]]
MutantNotRecorded(t) == UNCHANGED journal

\* recordTaskMetadataCommitFailure
RecordFailure(t) == journal' = journal \cup {t}

\* The loop over files goes on, or is done.
Continue(a) ==
    LET rest == act[a].todo \ {First(act[a].todo)}
    IN  act' = [act EXCEPT ![a] = [@ EXCEPT
                  !.pc = IF rest = {} THEN "removeAll" ELSE "statStaged",
                  !.todo = rest, !.own = FALSE, !.row = [act[a].row EXCEPT !.result = TRUE]]]

\* commitCompletedTaskWithoutStaging: the provider has put the object in its place
CommitNative(a) ==
    LET t == act[a].task
    IN  /\ At(a, "commitNative")
        /\ \/ /\ node' = node \cup Objects
              /\ Succeed(a)
              /\ UNCHANGED <<journal, faults>>
           \/ Fault("commit") /\ RecordFailure(t) /\ ImportFails(a) /\ UNCHANGED node
        /\ UNCHANGED <<row, job, dir, staged, target, told>>

\* listStagedTaskFiles; with nothing staged, a local target may be there already
ListStaged(a) ==
    LET q == act[a]
    IN  /\ At(a, "list")
        /\ \/ /\ staged[q.task] # {}
              /\ act' = [act EXCEPT ![a] = [@ EXCEPT !.pc = "statStaged", !.todo = staged[q.task]]]
           \/ staged[q.task] = {} /\ place # "import" /\ Goto(a, "probe")
           \/ staged[q.task] = {} /\ place = "import" /\ ImportFails(a)
        /\ UNCHANGED <<row, job, import, told, faults>>

\* completedLocalTaskTargetExists looks for one file, the display name ...
Probe(a) ==
    /\ At(a, "probe")
    /\ \/ Exists(First(Files)) /\ Goto(a, "recommit")
       \/ ~ Exists(First(Files)) /\ ImportFails(a)
    /\ UNCHANGED <<row, job, import, told, faults>>

\* ... and commits its metadata again.
Recommit(a) ==
    LET t == act[a].task
    IN  /\ At(a, "recommit")
        /\ \/ /\ node' = node \cup {First(Files)}
              /\ RemoveStaging(t)
              /\ Succeed(a)
              /\ UNCHANGED <<journal, faults>>
           \/ /\ Fault("commit")
              /\ RecordFailure(t)
              /\ ImportFails(a)
              /\ UNCHANGED <<dir, staged, node>>
        /\ UNCHANGED <<row, job, target, told>>

\* os.Stat of the staged file
StatStaged(a) ==
    LET q == act[a]
    IN  /\ At(a, "statStaged")
        /\ \/ First(q.todo) \in staged[q.task] /\ Goto(a, "stat")
           \/ First(q.todo) \notin staged[q.task] /\ ImportFails(a)
        /\ UNCHANGED <<row, job, import, told, faults>>

\* importLocalStagedFile: os.Stat of the target; the import driver checks itself
Stat(a) ==
    /\ At(a, "stat")
    /\ \/ ~ Exists(First(act[a].todo)) /\ Goto(a, "move")
       \/ Exists(First(act[a].todo)) /\ place # "import" /\ Goto(a, "recover")
       \/ Exists(First(act[a].todo)) /\ place = "import" /\ ImportFails(a)
    /\ UNCHANGED <<row, job, import, told, faults>>

\* os.Rename, or across devices the creation of the copy; ImportFile
Move(a) ==
    LET q == act[a]
        f == First(q.todo)
        whole == place # "copy"
    IN  /\ At(a, "move")
        /\ \/ /\ f \in staged[q.task]
              /\ target' = [target EXCEPT ![f] = [of |-> q.task, whole |-> whole]]
              /\ staged' = IF place = "rename"
                           THEN [staged EXCEPT ![q.task] = @ \ {f}] ELSE staged
              /\ Goto(a, IF whole THEN "commit" ELSE "copy")
           \/ /\ f \notin staged[q.task]
              /\ ImportFails(a)
              /\ UNCHANGED <<target, staged>>
        /\ UNCHANGED <<row, job, dir, node, journal, told, faults>>

\* copyFile: io.Copy ends, or fails and leaves what it wrote
Copy(a) ==
    LET q == act[a]
    IN  /\ At(a, "copy")
        /\ \/ /\ target' = [target EXCEPT ![First(q.todo)] = [of |-> q.task, whole |-> TRUE]]
              /\ Goto(a, "unstage")
              /\ UNCHANGED faults
           \/ Fault("fs") /\ ImportFails(a) /\ UNCHANGED target
        /\ UNCHANGED <<row, job, dir, staged, node, journal, told>>

\* os.Remove of the copied file
Unstage(a) ==
    LET q == act[a]
    IN  /\ At(a, "unstage")
        /\ \/ /\ First(q.todo) \in staged[q.task]
              /\ staged' = [staged EXCEPT ![q.task] = @ \ {First(q.todo)}]
              /\ Goto(a, "commit")
           \/ /\ First(q.todo) \notin staged[q.task]
              /\ ImportFails(a)
              /\ UNCHANGED staged
        /\ UNCHANGED <<row, job, dir, target, node, journal, told, faults>>

\* commitTaskImportedMetadataFile; a failure on a local source is looked into
Commit(a) ==
    LET q == act[a]
    IN  /\ At(a, "commit")
        /\ \/ /\ node' = node \cup {First(q.todo)}
              /\ Continue(a)
              /\ UNCHANGED <<journal, faults>>
           \/ /\ Fault("commit")
              /\ RecordFailure(q.task)
              /\ IF place # "import"
                 THEN act' = [act EXCEPT ![a] = [@ EXCEPT !.pc = "recover", !.own = TRUE]]
                 ELSE ImportFails(a)
              /\ UNCHANGED node
        /\ UNCHANGED <<row, job, dir, staged, target, told>>

\* A recovered file that this actor did not import is removed from the staging.
DropStaged(a) ==
    staged' = IF act[a].own THEN staged
              ELSE [staged EXCEPT ![act[a].task] = @ \ {First(act[a].todo)}]

\* recoverCompletedTaskResult: the target is there, is it committed too?
Recover(a) ==
    LET f == First(act[a].todo)
    IN  /\ At(a, "recover")
        /\ \/ Exists(f) /\ f \in node /\ DropStaged(a) /\ Continue(a)
           \/ Exists(f) /\ f \notin node /\ Goto(a, "recoverCommit") /\ UNCHANGED staged
           \/ ~ Exists(f) /\ ImportFails(a) /\ UNCHANGED staged
        /\ UNCHANGED <<row, job, dir, target, node, journal, told, faults>>

\* The second attempt; after its failure the node is looked up once more.
RecoverCommit(a) ==
    LET q == act[a]
        f == First(q.todo)
    IN  /\ At(a, "recoverCommit")
        /\ \/ /\ node' = node \cup {f}
              /\ DropStaged(a) /\ Continue(a)
              /\ UNCHANGED <<journal, faults>>
           \/ /\ Fault("commit")
              /\ RecordFailure(q.task)
              /\ \/ f \in node /\ DropStaged(a) /\ Continue(a)
                 \/ f \notin node /\ ImportFails(a) /\ UNCHANGED staged
              /\ UNCHANGED node
        /\ UNCHANGED <<row, job, dir, target, told>>

RemoveAll(a) ==
    LET q == act[a]
    IN  /\ At(a, "removeAll")
        /\ \/ /\ RemoveStaging(q.task)
              /\ Succeed(a)
              /\ UNCHANGED faults
           \/ Fault("fs") /\ ImportFails(a) /\ UNCHANGED <<dir, staged>>
        /\ UNCHANGED <<row, job, target, node, journal, told>>

-----------------------------------------------------------------------------
(* Cancel, Pause, Resume *)

\* A terminal task is left alone.
CancelRead(a, t) ==
    /\ Free(a)
    /\ row[t].status \in Statuses \ Terminal
    /\ act' = [act EXCEPT ![a] = [Idle EXCEPT !.pc = "cancelUpdate", !.task = t,
                                              !.row = [row[t] EXCEPT !.status = "canceled"]]]
    /\ UNCHANGED <<row, job, import, told, faults>>

CancelUpdate(a) == At(a, "cancelUpdate") /\ WriteBack(a, "cancelRemove")

Live == {"waiting", "active", "paused"}

\* aria2 removes a download that has not ended, the others whatever they know.
Removable == IF via = "aria2" THEN Live ELSE Live \cup {"complete", "error"}

\* Mutant: Cancel pauses the job and does not remove it.
MutantCancelPauses(a) ==
    /\ At(a, "cancelRemove")
    /\ job' = IF job[act[a].task] = "active" THEN [job EXCEPT ![act[a].task] = "paused"] ELSE job
    /\ Goto(a, "notify")
    /\ UNCHANGED <<row, import, told, faults>>

\* The downloader's error is logged and the cancellation goes on.
CancelRemove(a) ==
    LET t == act[a].task
    IN  /\ At(a, "cancelRemove")
        /\ \/ job[t] \in Removable /\ job' = [job EXCEPT ![t] = "removed"] /\ UNCHANGED faults
           \/ job[t] \notin Removable /\ UNCHANGED <<job, faults>>
           \/ Fault("rpc") /\ UNCHANGED job     \* logged
        /\ Goto(a, "notify")
        /\ UNCHANGED <<row, import, told>>

\* cancelNativeDownloadTask with delete_file: the object goes with the task.
CancelDelete(a) ==
    LET t == act[a].task
    IN  /\ At(a, "cancelRemove") /\ via = "native"
        /\ job[t] = "complete"
        /\ job' = [job EXCEPT ![t] = "removed"]
        /\ target' = [f \in Files |-> IF f \in Objects THEN NoFile ELSE target[f]]
        /\ Goto(a, "notify")
        /\ UNCHANGED <<row, dir, staged, node, journal, told, faults>>

PauseRead(a, t) ==
    /\ Free(a)
    /\ row[t].status \in {"pending", "running"}
    /\ Read(a, t, "pauseJob")
    /\ UNCHANGED <<row, job, import, told, faults>>

\* aria2 refuses a job that does not wait or run; qBittorrent's answer is a success
\* whatever it finds, no torrent included; PikPak cannot pause at all.
Accepts(state, states) == via = "qbittorrent" \/ (via = "aria2" /\ state \in states)

\* The downloader's refusal is the answer.
PauseJob(a) ==
    LET t == act[a].task
        running == {"waiting", "active"}
    IN  /\ At(a, "pauseJob")
        /\ \/ /\ Accepts(job[t], running)
              /\ job' = IF job[t] \in running THEN [job EXCEPT ![t] = "paused"] ELSE job
              /\ SetStatus(a, "paused", "pauseUpdate")
              /\ UNCHANGED faults
           \/ ~ Accepts(job[t], running) /\ Return(a) /\ UNCHANGED <<job, faults>>
           \/ Fault("rpc") /\ Return(a) /\ UNCHANGED job
        /\ UNCHANGED <<row, import, told>>

PauseUpdate(a) == At(a, "pauseUpdate") /\ WriteBack(a, "idle")

ResumeRead(a, t) ==
    /\ Free(a)
    /\ row[t].status = "paused"
    /\ Read(a, t, "resumeJob")
    /\ UNCHANGED <<row, job, import, told, faults>>

ResumeJob(a) ==
    LET t == act[a].task
    IN  /\ At(a, "resumeJob")
        /\ \/ /\ Accepts(job[t], {"paused"})
              /\ job' = IF job[t] = "paused" THEN [job EXCEPT ![t] = "waiting"] ELSE job
              /\ SetStatus(a, "running", "resumeUpdate")
              /\ UNCHANGED faults
           \/ ~ Accepts(job[t], {"paused"}) /\ Return(a) /\ UNCHANGED <<job, faults>>
           \/ Fault("rpc") /\ Return(a) /\ UNCHANGED job
        /\ UNCHANGED <<row, import, told>>

ResumeUpdate(a) == At(a, "resumeUpdate") /\ WriteBack(a, "idle")

-----------------------------------------------------------------------------
(* The downloader and the process *)

JobStarts(t) ==
    /\ job[t] = "waiting"
    /\ job' = [job EXCEPT ![t] = "active"]
    /\ UNCHANGED <<row, import, told, act, faults>>

JobCompletes(t) ==
    /\ job[t] = "active"
    /\ job' = [job EXCEPT ![t] = "complete"]
    /\ \/ /\ via # "native"
          /\ dir' = [dir EXCEPT ![t] = TRUE]
          /\ staged' = [staged EXCEPT ![t] = Files]
          /\ UNCHANGED target
       \/ /\ via = "native"
          /\ target' = [f \in Files |-> IF f \in Objects THEN [of |-> t, whole |-> TRUE] ELSE target[f]]
          /\ UNCHANGED <<dir, staged>>
    /\ UNCHANGED <<row, node, journal, told, act, faults>>

JobFails(t) ==
    /\ job[t] \in {"waiting", "active"}
    /\ Fault("job")
    /\ job' = [job EXCEPT ![t] = "error"]
    /\ UNCHANGED <<row, import, told, act>>

JobStep(t) == JobStarts(t) \/ JobCompletes(t)

\* The process dies; the worker starts again with the tasks it finds.
Crash ==
    /\ Fault("crash")
    /\ act' = [a \in Actors |-> Idle]
    /\ UNCHANGED <<row, job, import, told>>

Step(a) ==
    \/ AddURI(a) \/ CreateRow(a) \/ NativeRow(a) \/ Withdraw(a) \/ CommitNative(a)
    \/ Tell(a) \/ RefreshUpdate(a) \/ Notify(a)
    \/ ListStaged(a) \/ Probe(a) \/ Recommit(a) \/ StatStaged(a) \/ Stat(a) \/ Move(a)
    \/ Copy(a) \/ Unstage(a) \/ Commit(a) \/ Recover(a) \/ RecoverCommit(a) \/ RemoveAll(a)
    \/ CancelUpdate(a) \/ CancelRemove(a) \/ CancelDelete(a)
    \/ PauseJob(a) \/ PauseUpdate(a) \/ ResumeJob(a) \/ ResumeUpdate(a)

\* The worker refreshes, and so do requests.
Begin(a, t) ==
    \/ RefreshRead(a, t) \/ CreateStaging(a, t) \/ CreateNative(a, t)
    \/ CancelRead(a, t) \/ PauseRead(a, t) \/ ResumeRead(a, t)

Next ==
    /\ \/ \E a \in Actors : Step(a) \/ \E t \in Tasks : Begin(a, t)
       \/ \E t \in Tasks : JobStep(t) \/ JobFails(t)
       \/ Crash
    /\ UNCHANGED route

Spec == Init /\ [][Next]_vars

(***************************************************************************)
(* Calls return, the sync worker looks at every live task again and again  *)
(* (StartSyncWorker, every 5 s), downloads make progress.                  *)
(***************************************************************************)
FairSpec ==
    /\ Spec
    /\ \A a \in Actors : WF_vars(Step(a) /\ UNCHANGED route)
    /\ \A t \in Tasks : /\ SF_vars(RefreshRead(Worker, t) /\ UNCHANGED route)
                        /\ WF_vars(JobStep(t) /\ UNCHANGED route)

-----------------------------------------------------------------------------
(* What the service promises *)

AtRest == \A a \in Actors : Free(a)
Unharmed(kinds) == faults \cap kinds = {}

\* A copy to another device has the final name from its first byte on: until it has
\* ended, and for ever when it fails, another refresh takes it for the file.
TargetsAreWhole == place = "copy" => AtRest /\ Unharmed({"fs", "crash"})

\* A task's downloaded file is in the staging directory or, all of it, at its target:
\* no order of two refreshes, a Cancel and a restart loses it.
DownloadNotLost ==
    /\ TypeOK
    /\ TargetsAreWhole => \A t \in Tasks : row[t].status \in Statuses /\ job[t] = "complete" =>
          \A f \in Objects : f \in staged[t] \/ target[f] = [of |-> t, whole |-> TRUE]

\* A completed task has its result node, and every file of it is on the source, or
\* its user has had the provider delete it.
CompletedIsImported ==
    TargetsAreWhole => \A t \in Tasks : row[t].status = "completed" =>
        /\ row[t].result /\ node # {}
        /\ \A f \in Objects : target[f].whole \/ (via = "native" /\ job[t] = "removed")

\* A canceled task does not download any more, unless the downloader failed or the
\* process died in between.
CanceledJobStops ==
    AtRest /\ Unharmed({"crash", "rpc"}) =>
        \A t \in Tasks : row[t].status = "canceled" => job[t] \notin Live

\* A file that is on the source without its node belongs to a task that is not
\* done with yet or whose failed commit is in the journal, unless the process died
\* between the file and its node, or a native download was canceled when its object
\* was there already.
UncommittedIsJournalled ==
    AtRest /\ Unharmed({"crash"}) => \A t \in Tasks : \A f \in Files :
        target[f] = [of |-> t, whole |-> TRUE] /\ f \notin node
            /\ row[t].status \in (IF via = "native" THEN Terminal \ {"canceled"} ELSE Terminal)
            => t \in journal

\* The RSS service hears of the status that a task ends with (after a crash its own
\* loop looks for it).
OutcomeIsTold ==
    AtRest /\ Unharmed({"crash"}) =>
        \A t \in Tasks : row[t].status \in Terminal => row[t].status \in told[t]

\* A completed task stays completed and a canceled one canceled: a refresh or a
\* request that works on an older copy does not write over it.
TerminalStays ==
    [][\A t \in Tasks : row[t].status \in {"completed", "canceled"}
            => row'[t].status = row[t].status]_vars

\* qBittorrent and PikPak know nothing of a task that was removed.
Forgotten(t) == via # "aria2" /\ job[t] = "removed"

\* A task whose download has ended is brought to its end, as long as the downloader
\* knows of it.
TaskSettles ==
    \A t \in Tasks :
        row[t].status \in Statuses /\ job[t] \in {"complete", "error", "removed"} /\ ~ Forgotten(t)
            ~> row[t].status \in Terminal \/ Forgotten(t)
=============================================================================
