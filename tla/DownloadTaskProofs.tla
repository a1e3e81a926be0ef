------------------------- MODULE DownloadTaskProofs -------------------------
(***************************************************************************)
(* What TaskService promises of its download tasks, for any number of      *)
(* tasks, of refreshes and requests at once, of files and of faults.       *)
(***************************************************************************)
EXTENDS DownloadTask, FiniteSetTheorems, WellFoundedInduction, TLAPS

-----------------------------------------------------------------------------
(* The inductive invariant: types, and what an actor's copy may be *)

LoopPoints == {"statStaged", "stat", "move", "copy", "unstage", "commit", "recover", "recoverCommit"}
FilePoints == LoopPoints \cup {"list", "probe", "recommit", "removeAll"}
Creating(a) == act[a].pc \in CreatePoints
Working(a) == act[a].pc \in RefreshPoints \cup OtherPoints
On(a, t, points) == act[a].pc \in points /\ act[a].task = t
Present(t) == row[t].status \in Statuses

\* A native task never has a staging directory, the others until they have a result.
StagingOK(r) == IF via = "native" THEN ~ r.staging ELSE r.staging \/ r.result

\* A copy, by what its actor does next
CopyOK(pc, r, todo) ==
    /\ r.status \in Statuses /\ StagingOK(r)
    /\ pc \in ImportPoints => r.status = "completed"
    /\ pc \in {"cancelUpdate", "cancelRemove"} => r.status = "canceled"
    /\ pc = "pauseUpdate" => r.status = "paused"
    /\ pc = "resumeUpdate" => r.status = "running"
    /\ pc \in {"update", "notify"} /\ r.status = "completed" => r.result /\ ~ r.staging
    /\ pc = "removeAll" => r.result
    /\ pc \in LoopPoints => todo # {}
    /\ pc = "commitNative" => via = "native"
    /\ pc \in FilePoints => via # "native"

\* A task whose row is not written yet has no other actor.
ActorOK(a) ==
    LET q == act[a]
    IN  /\ q.pc # "idle" => q.task \in Tasks
        /\ Creating(a) => /\ row[q.task] = NoRow
                          /\ \A b \in Actors \ {a} : act[b].task # q.task
        /\ Working(a) => Present(q.task) /\ CopyOK(q.pc, q.row, q.todo)
        /\ q.pc \in {"createRow", "withdraw"} => job[q.task] # "none"
        /\ q.pc = "addURI" => via # "native"

RowOK(t) ==
    /\ row[t] = NoRow \/ Present(t)
    /\ Present(t) => job[t] # "none" /\ StagingOK(row[t])
    /\ row[t].status = "completed" => row[t].result /\ ~ row[t].staging
    /\ via = "native" => job[t] # "paused"

CopiesInv ==
    /\ TypeOK /\ IsFiniteSet(faults)
    /\ \A a \in Actors : ActorOK(a)
    /\ \A t \in Tasks : RowOK(t)

-----------------------------------------------------------------------------
(* Who has still to tell, and who has still to remove the job *)

Teller(a, t) == On(a, t, {"notify", "cancelRemove"}) /\ act[a].row.status = row[t].status

ToldInv ==
    "crash" \in faults \/ \A t \in Tasks : row[t].status \in Terminal =>
        row[t].status \in told[t] \/ \E a \in Actors : Teller(a, t)

\* A refresh that writes canceled has it from aria2, which removed the job.
StoppedInv ==
    /\ \A a \in Actors : act[a].pc = "update" /\ act[a].row.status = "canceled"
            => job[act[a].task] \notin Live
    /\ faults \cap {"crash", "rpc"} # {} \/ \A t \in Tasks : row[t].status = "canceled" =>
        job[t] \notin Live \/ \E a \in Actors : On(a, t, {"cancelRemove"})

-----------------------------------------------------------------------------
(* Where the files of a download are, and whose have no node *)

\* A task that has its row, or is about to get it
Kept(t) == Present(t) \/ \E a \in Actors : On(a, t, {"createRow"})

CopyAt(a, f) == act[a].pc = "copy" /\ First(act[a].todo) = f
CommitAt(a, t, f, points) == On(a, t, points) /\ First(act[a].todo) = f

TargetsInv ==
    \A f \in Files : Exists(f) =>
        /\ target[f].of \in Tasks
        /\ target[f].whole \/ /\ place = "copy"
                              /\ ~ Unharmed({"fs", "crash"}) \/ \E a \in Actors : CopyAt(a, f)

\* A file of a task is dealt with: it is at its target and has its node, or its
\* commit is under way or in the journal.
Handled(t, f) == f \in node \/ t \in journal \/ \E a \in Actors : CommitAt(a, t, f, {"commit"})
There(t, f) == Exists(f) /\ ("crash" \in faults \/ Handled(t, f))

\* The files are in the staging directory or dealt with, and those that an import
\* has passed are dealt with.
PlaceOK(a) ==
    LET q == act[a]
    IN  /\ q.pc \in FilePoints => \A f \in Files : f \in staged[q.task] \/ There(q.task, f)
        /\ q.pc \in LoopPoints => \A f \in Files \ q.todo : There(q.task, f)
        /\ q.pc \in {"recommit", "probe", "removeAll"} => \A f \in Files : There(q.task, f)
        /\ q.pc \in {"copy", "unstage", "commit", "recover", "recoverCommit"} => Exists(First(q.todo))
        /\ Working(a) /\ ~ q.row.staging => \A f \in Files : Exists(f)

PlacedInv ==
    via # "native" =>
        /\ \A t \in Tasks : job[t] = "complete" /\ Kept(t) =>
                \A f \in Files : f \in staged[t] \/ There(t, f)
        /\ \A t \in Tasks : Present(t) /\ ~ row[t].staging => \A f \in Files : Exists(f)
        /\ \A a \in Actors : PlaceOK(a)

\* A file that is all at its target is about to get its node, or it is told why not.
Explained(t, f) ==
    f \in node \/ t \in journal \/ \E a \in Actors : CommitAt(a, t, f, {"unstage", "commit"})

ExplainedInv ==
    via # "native" =>
        \/ "crash" \in faults
        \/ \A t \in Tasks, f \in Files : target[f] = [of |-> t, whole |-> TRUE] => Explained(t, f)

\* The metadata of a task that has its result is committed.
Committed == node # {} /\ (via = "native" => Objects \subseteq node)

ResultInv ==
    /\ \A t \in Tasks : row[t].result => Committed
    /\ \A a \in Actors : act[a].row.result => Committed

-----------------------------------------------------------------------------
(* Native downloads: the provider puts the object in its place *)

Ended(t) == job[t] \in {"complete", "removed"}

\* An actor that is about to commit a native download, or that has done so
Importing(q) ==
    q.pc = "commitNative" \/ (q.pc \in {"update", "notify"} /\ q.row.status = "completed")

NativeInv ==
    via = "native" =>
        /\ \A f \in Files : Exists(f) => f \in Objects /\ Ended(target[f].of)
        /\ \A t \in Tasks : row[t].status = "completed" => Ended(t)
        /\ \A a \in Actors : Importing(act[a]) => Ended(act[a].task)

\* A native task has failed because its download did or because its commit did.
Blank(t) ==
    \/ t \in journal
    \/ job[t] \in {"error", "removed"} /\ \A f \in Files : target[f].of # t

FailedInv ==
    via = "native" =>
        /\ \A t \in Tasks : row[t].status = "failed" => Blank(t)
        /\ \A a \in Actors : act[a].row.status = "failed" => act[a].task \in Tasks /\ Blank(act[a].task)

\* An only task's native download is at its place until it is deleted.
AloneInv ==
    via = "native" => \A t \in Tasks : job[t] = "complete" =>
        \A f \in Objects : target[f] = [of |-> t, whole |-> TRUE]

-----------------------------------------------------------------------------
(* The steps of the actors *)

\* The first of some files is one of them.
LEMMA FirstIsIn ==
    ASSUME NEW files \in SUBSET Files, files # {}
    PROVE  First(files) \in files
<1> DEFINE less == OpToRel(<, Nat)
<1>1. files \subseteq Nat
  BY TaskAssumption
<1>2. PICK x \in files : \A y \in files : <<y, x>> \notin less
  BY <1>1, NatLessThanWellFounded, WFMin
<1>3. \A y \in files : x <= y
  <2> TAKE y \in files
  <2>1. x \in Nat /\ y \in Nat
    BY <1>1
  <2>2. ~ (y < x)
    BY <1>2, <2>1 DEF OpToRel
  <2> QED
    BY <2>1, <2>2
<1> HIDE DEF less
<1> QED
  BY <1>3 DEF First

\* An actor of which only the fields of the arguments are different
Becomes(a, pc, task, r, todo, own) ==
    /\ act' \in [Actors -> Actor]
    /\ act'[a].pc = pc /\ act'[a].task = task /\ act'[a].row = r
    /\ act'[a].todo = todo /\ act'[a].own = own
    /\ \A b \in Actors \ {a} : act'[b] = act[b]

WithStatus(r, s) == [status |-> s, staging |-> r.staging, result |-> r.result]

\* A field-by-field account of the ways in which an actor goes on
Moves(a) ==
    LET q == act[a]
        rest == q.todo \ {First(q.todo)}
    IN  /\ Return(a) => Becomes(a, "idle", NoTask, NoRow, {}, FALSE)
        /\ \A p \in Points : Goto(a, p) => Becomes(a, p, q.task, q.row, q.todo, q.own)
        /\ \A p \in Points, s \in Statuses :
                SetStatus(a, s, p) => Becomes(a, p, q.task, WithStatus(q.row, s), q.todo, q.own)
        /\ ImportFails(a) => Becomes(a, "update", q.task, WithStatus(q.row, "failed"), q.todo, q.own)
        /\ Continue(a) => Becomes(a, IF rest = {} THEN "removeAll" ELSE "statStaged", q.task,
                                  [q.row EXCEPT !.result = TRUE], rest, FALSE)
        /\ Succeed(a) => Becomes(a, "update", q.task, Succeeded(q.row), q.todo, q.own)
        /\ \A t \in Tasks, p \in Points : Read(a, t, p) => Becomes(a, p, t, row[t], {}, FALSE)

LEMMA ActorsMove ==
    ASSUME TypeOK, NEW a \in Actors
    PROVE  Moves(a)
<1> DEFINE q == act[a]
           rest == q.todo \ {First(q.todo)}
<1> USE DEF Becomes
<1>1. act \in [Actors -> Actor] /\ q \in Actor /\ NoRow \in Row /\ row \in [Tasks -> Row]
  BY DEF TypeOK, NoRow, Row
<1>2. Return(a) => Becomes(a, "idle", NoTask, NoRow, {}, FALSE)
  BY <1>1 DEF Return, Idle, Actor, Points
<1>3. ASSUME NEW p \in Points, Goto(a, p)
      PROVE  Becomes(a, p, q.task, q.row, q.todo, q.own)
  BY <1>1, <1>3 DEF Goto, Actor
<1>4. ASSUME NEW p \in Points, NEW s \in Statuses, SetStatus(a, s, p)
      PROVE  Becomes(a, p, q.task, WithStatus(q.row, s), q.todo, q.own)
  <2>1. WithStatus(q.row, s) \in Row /\ WithStatus(q.row, s) = [q.row EXCEPT !.status = s]
    BY <1>1 DEF Actor, Row, WithStatus
  <2> QED
    BY <1>1, <1>4, <2>1 DEF SetStatus, Actor
<1>5. ImportFails(a) => Becomes(a, "update", q.task, WithStatus(q.row, "failed"), q.todo, q.own)
  <2>1. "update" \in Points /\ "failed" \in Statuses
    BY DEF Points, RefreshPoints, Statuses, Terminal
  <2> QED
    BY <1>4, <2>1 DEF ImportFails
<1>6. Continue(a) => Becomes(a, IF rest = {} THEN "removeAll" ELSE "statStaged", q.task,
                             [q.row EXCEPT !.result = TRUE], rest, FALSE)
  <2>1. {"removeAll", "statStaged"} \subseteq Points
    BY DEF Points, RefreshPoints, ImportPoints
  <2> QED
    <3>1. PICK p \in Points : p = IF rest = {} THEN "removeAll" ELSE "statStaged"
      BY <2>1
    <3>2. PICK r \in Row : r = [q.row EXCEPT !.result = TRUE]
      BY <1>1 DEF Actor, Row
    <3>3. PICK left \in SUBSET Files : left = rest
      BY <1>1 DEF Actor
    <3>4. SUFFICES ASSUME Continue(a) PROVE Becomes(a, p, q.task, r, left, FALSE)
      BY <3>1, <3>2, <3>3
    <3>5. act' = [act EXCEPT ![a] = [@ EXCEPT !.pc = p, !.todo = left, !.own = FALSE, !.row = r]]
      BY <3>1, <3>2, <3>3, <3>4 DEF Continue
    <3> QED
      BY <1>1, <3>5 DEF Actor
<1>7. Succeed(a) => Becomes(a, "update", q.task, Succeeded(q.row), q.todo, q.own)
  <2>1. "update" \in Points /\ Succeeded(q.row) \in Row
    BY <1>1 DEF Points, RefreshPoints, Succeeded, Actor, Row
  <2> QED
    BY <1>1, <2>1, ZenonT(150) DEF Succeed, Actor
<1>8. ASSUME NEW t \in Tasks, NEW p \in Points, Read(a, t, p)
      PROVE  Becomes(a, p, t, row[t], {}, FALSE)
  BY <1>1, <1>8, ZenonT(60) DEF Read, Idle, Actor, Points
<1> QED
  BY <1>2, <1>3, <1>4, <1>5, <1>6, <1>8, <1>7 DEF Moves

-----------------------------------------------------------------------------
(* The copies, and what a row says *)

FaultsOK == faults \in SUBSET FaultKinds /\ IsFiniteSet(faults) /\ Cardinality(faults) <= MaxFaults

LEMMA FaultsAreBounded ==
    ASSUME FaultsOK, UNCHANGED faults \/ \E kind \in FaultKinds : Fault(kind)
    PROVE  FaultsOK'
<1>1. CASE UNCHANGED faults
  BY <1>1 DEF FaultsOK
<1>2. CASE \E kind \in FaultKinds : Fault(kind)
  <2>1. PICK kind \in FaultKinds : Fault(kind)
    BY <1>2
  <2>2. IsFiniteSet(faults \cup {kind}) /\ Cardinality(faults \cup {kind}) = Cardinality(faults) + 1
    BY <2>1, FS_AddElement DEF FaultsOK, Fault
  <2>3. Cardinality(faults) \in Nat
    BY FS_CardinalityType DEF FaultsOK
  <2> QED
    BY <2>1, <2>2, <2>3, TaskAssumption DEF FaultsOK, Fault
<1> QED
  BY <1>1, <1>2

\* A step of one actor on one task, which changes no other row and no other job
StepOn(a, t) ==
    /\ \A b \in Actors \ {a} : act'[b] = act[b]
    /\ act'[a].task \in {t, NoTask}
    /\ \A u \in Tasks \ {t} : row'[u] = row[u] /\ job'[u] = job[u]
    /\ row'[t] = row[t] \/ Present(t)'
    /\ job[t] # "none" => job'[t] # "none"
    /\ \/ t = act[a].task
       \/ Present(t) /\ row'[t] = row[t]
       \/ \A b \in Actors : act[b].task # t
    /\ UNCHANGED route

LEMMA StepKeepsCopies ==
    ASSUME CopiesInv, NEW a \in Actors, NEW t \in Tasks, StepOn(a, t),
           TypeOK', IsFiniteSet(faults)', ActorOK(a)', RowOK(t)'
    PROVE  CopiesInv'
<1>1. ASSUME NEW u \in Tasks PROVE RowOK(u)'
  <2>1. CASE u = t
    BY <2>1
  <2>2. CASE u # t
    BY <2>2 DEF CopiesInv, RowOK, StepOn, Present, StagingOK, via
  <2> QED
    BY <2>1, <2>2
<1>2. ASSUME NEW b \in Actors PROVE ActorOK(b)'
  <2>1. CASE b = a
    BY <2>1
  <2>2. CASE b # a
    <3> DEFINE u == act[b].task
    <3>1. act'[b] = act[b] /\ ActorOK(b) /\ NoTask \notin Tasks /\ route' = route
      BY <2>2, TaskAssumption DEF CopiesInv, StepOn
    <3>2. CASE Creating(b)
      <4>1. u \in Tasks /\ row[u] = NoRow /\ act[a].task # u
        BY <2>2, <3>1, <3>2 DEF ActorOK, Creating, CreatePoints
      <4>2. u # t
        BY <4>1 DEF StepOn, Present, NoRow, Statuses, Terminal
      <4>3. row'[u] = NoRow /\ job'[u] = job[u]
        BY <4>1, <4>2 DEF StepOn
      <4>4. \A c \in Actors \ {b} : act'[c].task # u
        BY <2>2, <3>1, <3>2, <4>1, <4>2 DEF ActorOK, StepOn
      <4> QED
        BY <3>1, <3>2, <4>3, <4>4
        DEF ActorOK, Creating, Working, CreatePoints, RefreshPoints, ImportPoints, OtherPoints, LoopPoints, via
    <3>3. CASE ~ Creating(b)
      <4>1. Working(b) => u \in Tasks /\ Present(u)
        BY <3>1 DEF ActorOK, Working, RefreshPoints, OtherPoints, ImportPoints
      <4>2. Working(b) => Present(u)'
        <5>1. ASSUME NEW v \in Tasks, Present(v) PROVE Present(v)'
          BY <5>1 DEF StepOn, Present
        <5>2. u' = u
          BY <3>1
        <5> QED
          BY <4>1, <5>1, <5>2
      <4> QED
        BY <3>1, <3>3, <4>2 DEF ActorOK, Creating, Working, CopyOK, StagingOK, via, CreatePoints, Present
    <3> QED
      BY <3>2, <3>3
  <2> QED
    BY <2>1, <2>2
<1> QED
  BY <1>1, <1>2 DEF CopiesInv

FilesTyped ==
    /\ dir \in [Tasks -> BOOLEAN] /\ staged \in [Tasks -> SUBSET Files]
    /\ target \in [Files -> [of : Tasks \cup {NoTask}, whole : BOOLEAN]]
    /\ node \in SUBSET Files /\ journal \in SUBSET Tasks /\ told \in [Tasks -> SUBSET Terminal]

\* An actor that has a copy goes on with it or returns.
GoesOn(a) ==
    /\ act' \in [Actors -> Actor] /\ \A b \in Actors \ {a} : act'[b] = act[b]
    /\ act'[a].task \in {act[a].task, NoTask}
    /\ \/ act'[a].pc = "idle"
       \/ /\ act'[a].task = act[a].task
          /\ act'[a].pc \in RefreshPoints \cup OtherPoints
          /\ CopyOK(act'[a].pc, act'[a].row, act'[a].todo)

LEMMA GoingOnKeepsCopies ==
    ASSUME CopiesInv, NEW a \in Actors, Working(a), GoesOn(a), FilesTyped', FaultsOK',
           UNCHANGED <<row, route>>,
           NEW state \in Jobs \ {"none"}, via = "native" => state # "paused",
           job' \in {job, [job EXCEPT ![act[a].task] = state]}
    PROVE  CopiesInv'
<1>1. PICK t \in Tasks : t = act[a].task /\ Present(t) /\ RowOK(t)
  BY DEF CopiesInv, ActorOK, Working, RefreshPoints, OtherPoints, ImportPoints
<1>2. job \in [Tasks -> Jobs]
  BY DEF CopiesInv, TypeOK
<1>3. job' \in [Tasks -> Jobs] /\ \A u \in Tasks \ {t} : job'[u] = job[u]
  BY <1>1, <1>2
<1>4. job'[t] = job[t] \/ job'[t] = state
  BY <1>1, <1>2
<1>5. StepOn(a, t)
  BY <1>1, <1>3, <1>4 DEF StepOn, GoesOn
<1>6. TypeOK' /\ IsFiniteSet(faults)'
  BY <1>3 DEF TypeOK, CopiesInv, GoesOn, FilesTyped, FaultsOK
<1>7. RowOK(t)'
  BY <1>1, <1>4 DEF RowOK, Present, StagingOK, via
<1>8. ActorOK(a)'
  <2>1. CASE act'[a].pc = "idle"
    BY <2>1 DEF ActorOK, Creating, Working, CreatePoints, RefreshPoints, OtherPoints, ImportPoints
  <2>2. CASE act'[a].pc \in RefreshPoints \cup OtherPoints /\ act'[a].task = t /\
             CopyOK(act'[a].pc, act'[a].row, act'[a].todo)
    <3>1. CopyOK(act[a].pc, act[a].row, act[a].todo)'
      BY <2>2 DEF CopyOK, StagingOK, via
    <3>2. Present(act[a].task)'
      BY <1>1, <2>2 DEF Present
    <3> QED
      BY <1>1, <2>2, <3>1, <3>2
      DEF ActorOK, Creating, Working, CreatePoints, RefreshPoints, OtherPoints, ImportPoints
  <2> QED
    BY <1>1, <2>1, <2>2 DEF GoesOn
<1> QED
  BY <1>1, <1>5, <1>6, <1>7, <1>8, StepKeepsCopies

\* The steps of a refresh that leave the row and the job alone
Refreshes(a) ==
    \/ Tell(a) \/ Notify(a) \/ CommitNative(a)
    \/ ListStaged(a) \/ Probe(a) \/ Recommit(a) \/ StatStaged(a) \/ Stat(a) \/ Move(a)
    \/ Copy(a) \/ Unstage(a) \/ Commit(a) \/ Recover(a) \/ RecoverCommit(a) \/ RemoveAll(a)

LEMMA RefreshesAreTyped ==
    ASSUME CopiesInv, NEW a \in Actors, Refreshes(a)
    PROVE  Working(a) /\ FilesTyped' /\ FaultsOK' /\ UNCHANGED <<row, job>>
<1> DEFINE q == act[a]
<1>1. FilesTyped /\ FaultsOK /\ q \in Actor
  BY SMTT(60) DEF CopiesInv, TypeOK, FilesTyped, FaultsOK
<1>2. Working(a) /\ UNCHANGED <<row, job>>
  BY DEF Refreshes, CommitNative, ListStaged, Probe, Recommit, StatStaged, Stat, Move, Copy, Unstage, Commit,
         Recover, RecoverCommit, RemoveAll, Tell, Notify, At, Working,
         RefreshPoints, ImportPoints, OtherPoints
<1>3. FaultsOK'
  <2>1. UNCHANGED faults \/ \E kind : Fault(kind)
    BY DEF Refreshes, CommitNative, ListStaged, Probe, Recommit, StatStaged, Stat, Move, Copy, Unstage,
           Commit, Recover, RecoverCommit, RemoveAll, Tell, Notify
  <2>2. \A kind : Fault(kind) => kind \in FaultKinds
    BY DEF Fault
  <2> QED
    BY <1>1, <2>1, <2>2, FaultsAreBounded, SMTT(60)
<1>4. FilesTyped'
  <2>1. PICK t \in Tasks : t = q.task
    BY <1>2 DEF CopiesInv, ActorOK, Working, RefreshPoints, ImportPoints, OtherPoints
  <2> DEFINE File == [of : Tasks \cup {NoTask}, whole : BOOLEAN]
  <2>2. ASSUME NEW w \in BOOLEAN, NEW f,
                target' \in {target, [target EXCEPT ![f] = [of |-> t, whole |-> w]]}
         PROVE  target' \in [Files -> File]
    <3>1. target \in [Files -> File] /\ [of |-> t, whole |-> w] \in File
      BY <1>1 DEF FilesTyped
    <3> HIDE DEF File
    <3> QED
      BY <2>2, <3>1
  <2>3. q.pc \in LoopPoints => First(q.todo) \in Files
    <3>1. q.pc \in LoopPoints => q.todo \in SUBSET Files /\ q.todo # {}
      BY <1>1, <1>2 DEF CopiesInv, ActorOK, CopyOK, Actor
    <3> QED
      BY <3>1, FirstIsIn
  <2>4. Objects \subseteq Files /\ First(Files) \in Files
    BY FirstIsIn, TaskAssumption DEF Objects
  <2>5. CASE Tell(a) \/ ListStaged(a) \/ Probe(a) \/ StatStaged(a) \/ Stat(a)
    BY <1>1, <2>5 DEF FilesTyped, Tell, ListStaged, Probe, StatStaged, Stat, import
  <2>6. CASE Notify(a)
    BY <1>1, <2>6, <2>1 DEF FilesTyped, Notify, import
  <2>7. CASE CommitNative(a)
    BY <1>1, <2>7, <2>1, <2>4 DEF FilesTyped, CommitNative, RecordFailure
  <2>8. CASE Recommit(a)
    BY <1>1, <2>8, <2>1, <2>4 DEF FilesTyped, Recommit, RecordFailure, RemoveStaging
  <2>9. CASE Move(a)
    <3>1. PICK w \in BOOLEAN : w = (place # "copy")
      OBVIOUS
    <3>2. target' \in {target, [target EXCEPT ![First(q.todo)] = [of |-> t, whole |-> w]]}
      BY <2>1, <2>9, <3>1, Zenon DEF Move
    <3>3. target' \in [Files -> File]
      BY <2>2, <3>2
    <3>4. staged' \in [Tasks -> SUBSET Files]
      BY <1>1, <2>1, <2>9 DEF FilesTyped, Move
    <3> QED
      BY <1>1, <2>9, <3>3, <3>4 DEF FilesTyped, Move
  <2>10. CASE Copy(a)
    <3>1. PICK w \in BOOLEAN : w = TRUE
      OBVIOUS
    <3>2. target' \in {target, [target EXCEPT ![First(q.todo)] = [of |-> t, whole |-> w]]}
      BY <2>1, <2>10, <3>1, Zenon DEF Copy
    <3>3. target' \in [Files -> File]
      BY <2>2, <3>2
    <3> QED
      BY <1>1, <2>10, <3>3 DEF FilesTyped, Copy
  <2>11. CASE Unstage(a)
    BY <1>1, <2>11, <2>1 DEF FilesTyped, Unstage
  <2>12. CASE Commit(a)
    BY <1>1, <2>12, <2>1, <2>3 DEF FilesTyped, Commit, RecordFailure, At, LoopPoints
  <2>13. CASE Recover(a)
    BY <1>1, <2>13, <2>1 DEF FilesTyped, Recover, DropStaged
  <2>14. CASE RecoverCommit(a)
    BY <1>1, <2>14, <2>1, <2>3 DEF FilesTyped, RecoverCommit, DropStaged, RecordFailure, At, LoopPoints
  <2>15. CASE RemoveAll(a)
    BY <1>1, <2>15, <2>1 DEF FilesTyped, RemoveAll, RemoveStaging
  <2> QED
    BY <2>5, <2>6, <2>7, <2>8, <2>9, <2>10, <2>11, <2>12, <2>13, <2>14, <2>15 DEF Refreshes
<1> QED
  BY <1>2, <1>3, <1>4

LEMMA RouteIs ==
    ASSUME TypeOK
    PROVE  /\ via \in {"aria2", "qbittorrent", "native"}
           /\ place \in {"rename", "copy", "import", "native"}
           /\ via = "native" <=> place = "native"
<1>1. route \in Routes
  BY DEF TypeOK
<1>2. route \in {"aria2", "qbittorrent"} \X {"rename", "copy", "import"} \/ route = <<"native", "native">>
  BY <1>1, TaskAssumption
<1> QED
  BY <1>2 DEF via, place

\* What a downloader's answer says of its job
LEMMA StatusIsTrue ==
    ASSUME TypeOK, NEW state \in Jobs, state # "none", via = "native" => state # "paused",
           Answered(state)
    PROVE  /\ StatusOf(state) \in Statuses
           /\ StatusOf(state) = "completed" <=> state = "complete"
           /\ StatusOf(state) = "canceled" => state = "removed"
           /\ StatusOf(state) = "failed" => state = "error"
<1>1. via \in {"aria2", "qbittorrent", "native"}
  BY RouteIs
<1>2. CASE via = "aria2"
  BY <1>2 DEF StatusOf, Aria2Status, Jobs, Statuses, Terminal
<1>3. CASE via = "qbittorrent"
  BY <1>3 DEF StatusOf, QBitStatus, Aria2Status, Jobs, Statuses, Terminal
<1>4. CASE via = "native"
  BY <1>4 DEF StatusOf, NativeStatus, Jobs, Statuses, Terminal, Answered
<1> QED
  BY <1>1, <1>2, <1>3, <1>4

\* The fields of an actor that goes on, as the steps of a refresh leave them
LEMMA RefreshesGoOn ==
    ASSUME CopiesInv, NEW a \in Actors, Refreshes(a), UNCHANGED route
    PROVE  GoesOn(a)
<1> DEFINE q == act[a]
           b == act'[a]
           Ready == b.task = q.task /\ b.pc \in RefreshPoints /\ CopyOK(b.pc, b.row, b.todo)
<1>1. Working(a) /\ CopyOK(q.pc, q.row, q.todo) /\ q \in Actor /\ Moves(a)
  BY RefreshesAreTyped, ActorsMove DEF CopiesInv, ActorOK, TypeOK
<1>2. q.row = [status |-> q.row.status, staging |-> q.row.staging, result |-> q.row.result]
      /\ q.row.staging \in BOOLEAN /\ q.row.result \in BOOLEAN
  BY <1>1 DEF Actor, Row
<1> DEFINE Moved == act' \in [Actors -> Actor] /\ \A c \in Actors \ {a} : act'[c] = act[c]
<1>3. SUFFICES Moved /\ (Ready \/ (b.task \in {NoTask, q.task} /\ b.pc = "idle"))
  BY SMTT(60) DEF GoesOn
<1>4. ImportFails(a) => Moved /\ Ready
  BY <1>1 DEF Moves, Becomes, WithStatus, CopyOK, StagingOK, RefreshPoints, ImportPoints, LoopPoints,
              FilePoints, Statuses, Terminal
<1>5. Return(a) => Moved /\ b.task = NoTask /\ b.pc = "idle"
  BY <1>1 DEF Moves, Becomes
<1>6. Continue(a) /\ q.pc \in LoopPoints => Moved /\ Ready
  <2> SUFFICES ASSUME Continue(a), q.pc \in LoopPoints PROVE Moved /\ Ready
    OBVIOUS
  <2> DEFINE rest == q.todo \ {First(q.todo)}
  <2>1. PICK p \in {"removeAll", "statStaged"} : p = (IF rest = {} THEN "removeAll" ELSE "statStaged")
    OBVIOUS
  <2>2. PICK r : r = [q.row EXCEPT !.result = TRUE]
    OBVIOUS
  <2>3. r.status = q.row.status /\ r.staging = q.row.staging /\ r.result
    BY <1>2, <2>2
  <2>4. Becomes(a, p, q.task, r, rest, FALSE)
    BY <1>1, <2>1, <2>2 DEF Moves
  <2>5. CopyOK(p, r, rest)
    BY <1>1, <2>1, <2>3 DEF CopyOK, StagingOK, ImportPoints, FilePoints, LoopPoints
  <2> QED
    BY <2>1, <2>4, <2>5 DEF Becomes, RefreshPoints, ImportPoints
<1>7. Succeed(a) /\ q.pc \in ImportPoints => Moved /\ Ready
  BY <1>1, <1>2, ZenonT(60) DEF Moves, Becomes, CopyOK, StagingOK, Succeeded, RefreshPoints, ImportPoints, LoopPoints,
              FilePoints, Statuses, Terminal
<1>8. ASSUME NEW p \in LoopPoints \cup {"probe", "recommit"}, Goto(a, p), q.pc \in FilePoints,
             p \in LoopPoints => q.todo # {}
      PROVE  Moved /\ Ready
  <2>1. p \in Points /\ p \in RefreshPoints
    BY DEF Points, RefreshPoints, ImportPoints, LoopPoints
  <2> QED
    BY <1>1, <1>8, <2>1 DEF Moves, Becomes, CopyOK, StagingOK, ImportPoints, LoopPoints, FilePoints
<1> HIDE DEF Moved, Ready
<1>9. CASE Tell(a)
  <2>1. PICK state \in Jobs : state = job[q.task]
    BY <1>1 DEF CopiesInv, ActorOK, TypeOK, Working, RefreshPoints, OtherPoints, ImportPoints
  <2>2. state # "none" /\ (via = "native" => state # "paused")
    BY <1>1, <2>1 DEF CopiesInv, ActorOK, RowOK, Working, RefreshPoints, OtherPoints, ImportPoints
  <2>3. CASE Return(a)
    BY <1>5, <2>3
  <2>4. CASE ~ Return(a)
    <3> DEFINE p == IF state = "complete" THEN Imports(q) ELSE "update"
    <3>1. Answered(state) /\ SetStatus(a, StatusOf(state), p)
      BY <1>9, <2>1, <2>4 DEF Tell
    <3>2. PICK s \in Statuses : s = StatusOf(state) /\ (s = "completed" <=> state = "complete")
      BY <2>2, <3>1, StatusIsTrue DEF CopiesInv
    <3>3. PICK pt \in Points \cap RefreshPoints : pt = p
      BY DEF Imports, Points, RefreshPoints, ImportPoints
    <3>4. Becomes(a, pt, q.task, WithStatus(q.row, s), q.todo, q.own)
      BY <1>1, <3>1, <3>2, <3>3 DEF Moves
    <3>5. CopyOK(pt, WithStatus(q.row, s), q.todo)
      BY <1>1, <1>2, <3>2, <3>3
      DEF CopyOK, Imports, StagingOK, WithStatus, ImportPoints, LoopPoints, FilePoints
    <3> QED
      BY <3>3, <3>4, <3>5 DEF Becomes, Moved, Ready
  <2> QED
    BY <2>3, <2>4
<1>10. CASE Notify(a)
  BY <1>5, <1>10 DEF Notify
<1>11. CASE CommitNative(a)
  BY <1>4, <1>7, <1>11 DEF CommitNative, At, ImportPoints
<1>12. CASE ListStaged(a)
  <2>1. q.pc \in FilePoints
    BY <1>12 DEF ListStaged, At, FilePoints
  <2>2. CASE staged[q.task] # {} /\ act' = [act EXCEPT ![a] = [@ EXCEPT !.pc = "statStaged", !.todo = staged[q.task]]]
    <3>1. PICK files \in SUBSET Files : files = staged[q.task]
      BY <1>1 DEF CopiesInv, ActorOK, TypeOK, Working, RefreshPoints, OtherPoints, ImportPoints
    <3>2. Becomes(a, "statStaged", q.task, q.row, files, q.own)
      BY <1>1, <2>2, <3>1 DEF Becomes, CopiesInv, TypeOK, Actor, Points, RefreshPoints, ImportPoints
    <3>3. CopyOK("statStaged", q.row, files)
      BY <1>1, <2>1, <2>2, <3>1 DEF CopyOK, StagingOK, ImportPoints, FilePoints, LoopPoints
    <3> QED
      BY <3>2, <3>3 DEF Becomes, Moved, Ready, RefreshPoints, ImportPoints
  <2> QED
    BY <1>4, <1>8, <1>12, <2>1, <2>2 DEF ListStaged, LoopPoints
<1>13. CASE Probe(a)
  BY <1>4, <1>8, <1>13 DEF Probe, At, FilePoints, LoopPoints
<1>14. CASE Recommit(a)
  BY <1>4, <1>7, <1>14 DEF Recommit, At, ImportPoints
<1>15. q.pc \in LoopPoints => q.todo # {} /\ q.pc \in FilePoints
  BY <1>1 DEF CopyOK, FilePoints
<1>16. CASE StatStaged(a)
  BY <1>4, <1>8, <1>15, <1>16 DEF StatStaged, At, LoopPoints
<1>17. CASE Stat(a)
  BY <1>4, <1>8, <1>15, <1>17 DEF Stat, At, LoopPoints
<1>18. CASE Move(a)
  <2>1. CASE ImportFails(a)
    BY <1>4, <2>1
  <2>2. CASE Goto(a, "commit") \/ Goto(a, "copy")
    BY <1>8, <1>15, <1>18, <2>2 DEF Move, At, LoopPoints
  <2> QED
    BY <1>18, <2>1, <2>2 DEF Move
<1>19. CASE Copy(a)
  BY <1>4, <1>8, <1>15, <1>19 DEF Copy, At, LoopPoints
<1>20. CASE Unstage(a)
  BY <1>4, <1>8, <1>15, <1>20 DEF Unstage, At, LoopPoints
<1>21. CASE Commit(a)
  <2>1. CASE act' = [act EXCEPT ![a] = [@ EXCEPT !.pc = "recover", !.own = TRUE]]
    <3>1. Becomes(a, "recover", q.task, q.row, q.todo, TRUE)
      BY <1>1, <2>1 DEF Becomes, CopiesInv, TypeOK, Actor, Points, RefreshPoints, ImportPoints
    <3>2. CopyOK("recover", q.row, q.todo)
      BY <1>1, <1>21 DEF Commit, At, CopyOK, StagingOK, ImportPoints, FilePoints, LoopPoints
    <3> QED
      BY <3>1, <3>2 DEF Becomes, Moved, Ready, RefreshPoints, ImportPoints
  <2> QED
    BY <1>4, <1>6, <1>21, <2>1 DEF Commit, At, LoopPoints
<1>22. CASE Recover(a)
  BY <1>4, <1>6, <1>8, <1>15, <1>22 DEF Recover, At, LoopPoints
<1>23. CASE RecoverCommit(a)
  BY <1>4, <1>6, <1>23 DEF RecoverCommit, At, LoopPoints
<1>24. CASE RemoveAll(a)
  BY <1>4, <1>7, <1>24 DEF RemoveAll, At, ImportPoints
<1> QED
  BY <1>9, <1>10, <1>11, <1>12, <1>13, <1>14, <1>16, <1>17, <1>18, <1>19, <1>20, <1>21, <1>22, <1>23, <1>24
  DEF Refreshes

\* The steps that drive the job
LEMMA DrivingKeepsCopies ==
    ASSUME CopiesInv, NEW a \in Actors, UNCHANGED route,
           CancelRemove(a) \/ CancelDelete(a) \/ PauseJob(a) \/ ResumeJob(a)
    PROVE  CopiesInv'
<1>1. Working(a) /\ UNCHANGED row
  BY DEF CancelRemove, CancelDelete, PauseJob, ResumeJob, At, Working, OtherPoints
<1>2. PICK t \in Tasks : t = act[a].task /\ job[t] \in Jobs
  BY <1>1 DEF CopiesInv, ActorOK, TypeOK, Working, RefreshPoints, OtherPoints, ImportPoints
<1>3. CopyOK(act[a].pc, act[a].row, act[a].todo) /\ act[a] \in Actor /\ Moves(a) /\ FaultsOK /\ FilesTyped
  BY <1>1, ActorsMove DEF CopiesInv, ActorOK, TypeOK, FaultsOK, FilesTyped
<1>4. FaultsOK'
  <2>1. UNCHANGED faults \/ \E kind : Fault(kind)
    BY DEF CancelRemove, CancelDelete, PauseJob, ResumeJob
  <2>2. \A kind : Fault(kind) => kind \in FaultKinds
    BY DEF Fault
  <2> QED
    BY <1>3, <2>1, <2>2, FaultsAreBounded
<1>5. FilesTyped'
  <2>1. CASE CancelDelete(a)
    BY <1>3, <2>1 DEF FilesTyped, CancelDelete, NoFile
  <2>2. CASE ~ CancelDelete(a)
    BY <1>3, <2>2 DEF FilesTyped, CancelRemove, PauseJob, ResumeJob, import
  <2> QED
    BY <2>1, <2>2
<1>6. GoesOn(a)
  <2>1. CASE Return(a)
    BY <1>3, <2>1 DEF Moves, Becomes, GoesOn
  <2>2. CASE Goto(a, "notify") /\ At(a, "cancelRemove")
    BY <1>3, <2>2
    DEF Moves, Becomes, GoesOn, At, CopyOK, StagingOK, Points, OtherPoints, ImportPoints, LoopPoints, FilePoints
  <2>3. CASE SetStatus(a, "paused", "pauseUpdate")
    <3>1. Becomes(a, "pauseUpdate", act[a].task, WithStatus(act[a].row, "paused"), act[a].todo, act[a].own)
      BY <1>3, <2>3 DEF Moves, Points, OtherPoints, Statuses
    <3>2. CopyOK("pauseUpdate", WithStatus(act[a].row, "paused"), act[a].todo)
      BY <1>3 DEF CopyOK, StagingOK, WithStatus, Statuses, ImportPoints, LoopPoints, FilePoints
    <3> QED
      BY <3>1, <3>2 DEF Becomes, GoesOn, OtherPoints
  <2>4. CASE SetStatus(a, "running", "resumeUpdate")
    <3>1. Becomes(a, "resumeUpdate", act[a].task, WithStatus(act[a].row, "running"), act[a].todo, act[a].own)
      BY <1>3, <2>4 DEF Moves, Points, OtherPoints, Statuses
    <3>2. CopyOK("resumeUpdate", WithStatus(act[a].row, "running"), act[a].todo)
      BY <1>3 DEF CopyOK, StagingOK, WithStatus, Statuses, ImportPoints, LoopPoints, FilePoints
    <3> QED
      BY <3>1, <3>2 DEF Becomes, GoesOn, OtherPoints
  <2> QED
    BY <2>1, <2>2, <2>3, <2>4 DEF CancelRemove, CancelDelete, PauseJob, ResumeJob
<1>7. \E state \in {"removed", "paused", "waiting"} :
          /\ via = "native" => state # "paused"
          /\ job' \in {job, [job EXCEPT ![act[a].task] = state]}
  BY DEF CancelRemove, CancelDelete, PauseJob, ResumeJob, Accepts
<1> QED
  BY <1>1, <1>4, <1>5, <1>6, <1>7, GoingOnKeepsCopies DEF Jobs

LEMMA RefreshKeepsCopies ==
    ASSUME CopiesInv, NEW a \in Actors, Refreshes(a), UNCHANGED route
    PROVE  CopiesInv'
<1>1. "waiting" \in Jobs \ {"none"} /\ "waiting" # "paused"
  BY DEF Jobs
<1> QED
  BY <1>1, RefreshesAreTyped, RefreshesGoOn, GoingOnKeepsCopies

\* Update writes a status that the copy has come to.
LEMMA WritingKeepsCopies ==
    ASSUME CopiesInv, NEW a \in Actors, UNCHANGED route,
           RefreshUpdate(a) \/ CancelUpdate(a) \/ PauseUpdate(a) \/ ResumeUpdate(a)
    PROVE  CopiesInv'
<1> DEFINE q == act[a]
<1>1. Working(a)
  BY DEF RefreshUpdate, CancelUpdate, PauseUpdate, ResumeUpdate, At, Working, RefreshPoints, OtherPoints
<1>2. PICK t \in Tasks : t = q.task /\ Present(t) /\ RowOK(t)
  BY <1>1 DEF CopiesInv, ActorOK, Working, RefreshPoints, OtherPoints, ImportPoints
<1>3. CopyOK(q.pc, q.row, q.todo) /\ q \in Actor /\ Moves(a) /\ FaultsOK /\ TypeOK
  BY <1>1, ActorsMove DEF CopiesInv, ActorOK, TypeOK, FaultsOK
<1>4. q.row.status = "completed" => q.row.result /\ ~ q.row.staging
  BY <1>3 DEF CopyOK, RefreshUpdate, CancelUpdate, PauseUpdate, ResumeUpdate, At
<1>5. \E p \in {"notify", "cancelRemove", "idle"} :
          WriteBack(a, p) /\ (p = "cancelRemove" => At(a, "cancelUpdate")) /\ (p = "notify" => At(a, "update"))
  BY DEF RefreshUpdate, CancelUpdate, PauseUpdate, ResumeUpdate
<1>6. PICK p \in {"notify", "cancelRemove", "idle"} :
          WriteBack(a, p) /\ (p = "cancelRemove" => At(a, "cancelUpdate")) /\ (p = "notify" => At(a, "update"))
  BY <1>5
<1>7. job' = job /\ FilesTyped'
  BY <1>3, <1>6 DEF WriteBack, FilesTyped, TypeOK, import
<1>8. CASE RepoUpdate(a) /\ Goto(a, p) /\ UNCHANGED faults
  <2>1. row' = [row EXCEPT ![t] = q.row] /\ q.row \in Row /\ row \in [Tasks -> Row]
    BY <1>2, <1>3, <1>8 DEF RepoUpdate, TypeOK, Actor
  <2>2. row' \in [Tasks -> Row] /\ row'[t] = q.row /\ \A u \in Tasks \ {t} : row'[u] = row[u]
    BY <2>1
  <2>3. Becomes(a, p, t, q.row, q.todo, q.own)
    BY <1>2, <1>3, <1>8 DEF Moves, Points, OtherPoints
  <2>4. Present(t)'
    BY <1>3, <2>2 DEF Present, CopyOK
  <2>5. StepOn(a, t)
    BY <1>2, <1>7, <2>2, <2>3, <2>4 DEF StepOn, Becomes
  <2>6. TypeOK' /\ IsFiniteSet(faults)'
    BY <1>3, <1>7, <1>8, <2>2, <2>3 DEF TypeOK, FilesTyped, FaultsOK, Becomes
  <2>7. RowOK(t)'
    BY <1>2, <1>3, <1>4, <1>7, <2>2, <2>4 DEF RowOK, Present, CopyOK, StagingOK, via
  <2>8. CopyOK(act[a].pc, act[a].row, act[a].todo)' \/ p = "idle"
    BY <1>3, <1>6, <2>3
    DEF Becomes, CopyOK, StagingOK, via, At, ImportPoints, LoopPoints, FilePoints
  <2>9. ActorOK(a)'
    BY <2>3, <2>4, <2>8
    DEF Becomes, ActorOK, Creating, Working, CreatePoints, RefreshPoints, OtherPoints, ImportPoints
  <2> QED
    BY <2>5, <2>6, <2>7, <2>9, StepKeepsCopies
<1>9. CASE Fault("db") /\ Return(a) /\ UNCHANGED row
  <2>1. FaultsOK'
    BY <1>3, <1>9, FaultsAreBounded DEF Fault
  <2>2. GoesOn(a)
    BY <1>3, <1>9 DEF Moves, Becomes, GoesOn
  <2>3. "waiting" \in Jobs \ {"none"} /\ "waiting" # "paused"
    BY DEF Jobs
  <2> QED
    BY <1>1, <1>7, <1>9, <2>1, <2>2, <2>3, GoingOnKeepsCopies
<1> QED
  BY <1>6, <1>8, <1>9 DEF WriteBack

\* The steps of a Create
LEMMA CreatingKeepsCopies ==
    ASSUME CopiesInv, NEW a \in Actors, UNCHANGED route,
           AddURI(a) \/ CreateRow(a) \/ NativeRow(a) \/ Withdraw(a)
    PROVE  CopiesInv'
<1>1. Creating(a) /\ FaultsOK /\ Moves(a) /\ FilesTyped /\ act[a] \in Actor
  BY ActorsMove
  DEF AddURI, CreateRow, NativeRow, Withdraw, At, Creating, CreatePoints, CopiesInv, TypeOK, FaultsOK, FilesTyped
<1>2. PICK t \in Tasks : t = act[a].task /\ row[t] = NoRow /\ RowOK(t)
  BY <1>1 DEF CopiesInv, ActorOK, Creating, CreatePoints
<1>3. \A b \in Actors \ {a} : act[b].task # t
  BY <1>1, <1>2 DEF CopiesInv, ActorOK
<1>4. job \in [Tasks -> Jobs] /\ row \in [Tasks -> Row]
  BY DEF CopiesInv, TypeOK
<1>5. FaultsOK'
  <2>1. UNCHANGED faults \/ \E kind : Fault(kind)
    BY DEF AddURI, CreateRow, NativeRow, Withdraw
  <2>2. \A kind : Fault(kind) => kind \in FaultKinds
    BY DEF Fault
  <2> QED
    BY <1>1, <2>1, <2>2, FaultsAreBounded
<1>6. FilesTyped'
  BY <1>1, <1>2 DEF FilesTyped, AddURI, CreateRow, NativeRow, Withdraw, RemoveStaging, import
<1>7. /\ job' \in {job, [job EXCEPT ![t] = "waiting"], [job EXCEPT ![t] = "removed"]}
      /\ At(a, "addURI") => Return(a) \/ job' = [job EXCEPT ![t] = "waiting"]
  BY <1>2 DEF AddURI, CreateRow, NativeRow, Withdraw, Added, At
<1>8. /\ job' \in [Tasks -> Jobs] /\ \A u \in Tasks \ {t} : job'[u] = job[u]
      /\ job[t] # "none" => job'[t] # "none"
      /\ job'[t] \in {job[t], "waiting", "removed"}
  BY <1>4, <1>7 DEF Jobs
<1>9. \/ UNCHANGED row
      \/ /\ At(a, "createRow") /\ Return(a)
         /\ row' = [row EXCEPT ![t] = [status |-> "pending", staging |-> via # "native", result |-> FALSE]]
  <2>1. CASE CreateRow(a)
    <3>1. TRUE = (via # "native")
      BY <2>1 DEF CreateRow
    <3> QED
      BY <1>2, <2>1, <3>1 DEF CreateRow
  <2>2. CASE NativeRow(a)
    <3>1. FALSE = (via # "native")
      BY <2>2 DEF NativeRow
    <3> QED
      BY <1>2, <2>2, <3>1 DEF NativeRow
  <2> QED
    BY <2>1, <2>2 DEF AddURI, Withdraw
<1>10. PICK r \in Row : /\ r = [status |-> "pending", staging |-> via # "native", result |-> FALSE]
                       /\ r.status = "pending" /\ StagingOK(r)
  <2>1. PICK own \in BOOLEAN : own = (via # "native")
    OBVIOUS
  <2>2. PICK r : r = [status |-> "pending", staging |-> own, result |-> FALSE]
    OBVIOUS
  <2>3. r \in Row /\ r.status = "pending" /\ r.staging = own
    BY <2>2 DEF Row, Statuses
  <2>4. StagingOK(r)
    BY <2>1, <2>3 DEF StagingOK
  <2> QED
    BY <2>1, <2>2, <2>3, <2>4
<1>11. /\ row' \in [Tasks -> Row] /\ \A u \in Tasks \ {t} : row'[u] = row[u]
       /\ row'[t] = row[t] \/ (row'[t] = r /\ At(a, "createRow") /\ Return(a))
  BY <1>4, <1>9, <1>10, ZenonT(60)
<1>12. \/ Return(a) \/ (Goto(a, "withdraw") /\ At(a, "createRow") /\ via = "native" /\ UNCHANGED row)
       \/ (Goto(a, "createRow") /\ At(a, "addURI") /\ UNCHANGED row)
  BY DEF AddURI, CreateRow, NativeRow, Withdraw
<1>13. Becomes(a, "idle", NoTask, NoRow, {}, FALSE)
       \/ \E p \in {"withdraw", "createRow"} : Becomes(a, p, t, act[a].row, act[a].todo, act[a].own) /\ UNCHANGED row
  BY <1>1, <1>2, <1>12 DEF Moves, Points, CreatePoints
<1>14. RowOK(t)'
  <2>1. At(a, "createRow") => job[t] # "none"
    BY <1>2 DEF CopiesInv, ActorOK, At
  <2> QED
    BY <1>2, <1>8, <1>10, <1>11, <2>1 DEF RowOK, Present, StagingOK, via, NoRow, Statuses, Terminal
<1>15. StepOn(a, t)
  BY <1>2, <1>8, <1>10, <1>11, <1>13 DEF StepOn, Becomes, Present, Statuses
<1>16. TypeOK' /\ IsFiniteSet(faults)'
  BY <1>5, <1>6, <1>8, <1>11, <1>13 DEF TypeOK, FaultsOK, FilesTyped, Becomes, CopiesInv
<1>17. ActorOK(a)'
  <2>1. CASE Return(a)
    BY <1>1, <2>1
    DEF Moves, Becomes, ActorOK, Creating, Working, CreatePoints, RefreshPoints, OtherPoints, ImportPoints
  <2>2. CASE ~ Return(a)
    <3>1. PICK p \in {"withdraw", "createRow"} :
               /\ Goto(a, p) /\ UNCHANGED row
               /\ p = "withdraw" => At(a, "createRow") 
               /\ p = "createRow" => At(a, "addURI")
      BY <1>12, <2>2
    <3>2. Becomes(a, p, t, act[a].row, act[a].todo, act[a].own)
      BY <1>1, <1>2, <3>1 DEF Moves, Points, CreatePoints
    <3>3. job'[t] # "none"
      <4>1. At(a, "createRow") => job[t] # "none"
        BY <1>2 DEF CopiesInv, ActorOK, At
      <4> QED
        BY <1>4, <1>7, <1>8, <2>2, <3>1, <4>1
    <3> QED
      BY <1>2, <1>3, <3>1, <3>2, <3>3
      DEF Becomes, ActorOK, Creating, Working, CreatePoints, RefreshPoints, OtherPoints, ImportPoints
  <2> QED
    BY <2>1, <2>2
<1> QED
  BY <1>14, <1>15, <1>16, <1>17, StepKeepsCopies

\* The first step of an operation
LEMMA BeginningKeepsCopies ==
    ASSUME CopiesInv, NEW a \in Actors, NEW t \in Tasks, Begin(a, t), UNCHANGED route
    PROVE  CopiesInv'
<1>1. TypeOK /\ FaultsOK /\ Moves(a) /\ Free(a) /\ RowOK(t) /\ row \in [Tasks -> Row]
  BY ActorsMove
  DEF CopiesInv, TypeOK, FaultsOK, Begin, RefreshRead, CreateStaging, CreateNative, CancelRead, PauseRead, ResumeRead
<1>2. FaultsOK'
  <2>1. UNCHANGED faults \/ \E kind : Fault(kind)
    BY DEF Begin, RefreshRead, CreateStaging, CreateNative, CancelRead, PauseRead, ResumeRead
  <2>2. \A kind : Fault(kind) => kind \in FaultKinds
    BY DEF Fault
  <2> QED
    BY <1>1, <2>1, <2>2, FaultsAreBounded
<1>3. CASE CreateStaging(a, t) \/ CreateNative(a, t)
  <2>1. Unused(t) /\ row' = row
    BY <1>3 DEF CreateStaging, CreateNative
  <2>2. job' \in {job, [job EXCEPT ![t] = "waiting"]}
    BY <1>3 DEF CreateStaging, CreateNative, Added
  <2>3. job' \in [Tasks -> Jobs] /\ (\A u \in Tasks \ {t} : job'[u] = job[u]) /\ job'[t] \in {job[t], "waiting"}
    BY <1>1, <2>2 DEF TypeOK, Jobs
  <2>4. FilesTyped'
    BY <1>1, <1>3 DEF TypeOK, FilesTyped, CreateStaging, CreateNative, import
  <2>5. \/ act' = act
        \/ /\ act' = [act EXCEPT ![a] = [Idle EXCEPT !.pc = "addURI", !.task = t]]
           /\ via # "native"
        \/ /\ act' = [act EXCEPT ![a] = [Idle EXCEPT !.pc = "createRow", !.task = t]]
           /\ job' = [job EXCEPT ![t] = "waiting"]
    BY <1>3 DEF CreateStaging, CreateNative, Added
  <2>6. RowOK(t)'
    BY <1>1, <2>1, <2>3 DEF RowOK, Unused, Present, NoRow, Statuses, Terminal, via
  <2>7. CASE act' = act
    <3>1. act'[a].pc = "idle" /\ act'[a].task = act[a].task /\ act[a].task # t
      BY <1>1, <2>1, <2>7 DEF Free, Unused
    <3>2. \A u \in Tasks : RowOK(u)'
      <4>1. \A u \in Tasks \ {t} : RowOK(u) => RowOK(u)'
        BY <2>1, <2>3 DEF RowOK, Present, StagingOK, via
      <4> QED
        BY <2>6, <4>1 DEF CopiesInv
    <3>3. ASSUME NEW b \in Actors PROVE ActorOK(b)'
      <4>1. ActorOK(b) /\ act[b].task # t /\ (act[b].pc # "idle" => act[b].task \in Tasks)
        BY <2>1 DEF CopiesInv, Unused, ActorOK
      <4> QED
        BY <2>1, <2>3, <2>7, <4>1
        DEF ActorOK, Creating, Working, Present, CopyOK, StagingOK, via,
            CreatePoints, RefreshPoints, OtherPoints, ImportPoints
    <3> QED
      BY <1>1, <1>2, <2>1, <2>3, <2>4, <2>7, <3>2, <3>3 DEF CopiesInv, TypeOK, FilesTyped, FaultsOK
  <2>8. CASE act' # act
    <3>1. PICK p \in {"addURI", "createRow"} :
               /\ act' = [act EXCEPT ![a] = [Idle EXCEPT !.pc = p, !.task = t]]
               /\ p = "addURI" => via # "native"
               /\ p = "createRow" => job'[t] # "none"
      BY <1>1, <2>5, <2>8 DEF TypeOK
    <3>2. Becomes(a, p, t, NoRow, {}, FALSE)
      BY <1>1, <3>1 DEF Becomes, TypeOK, Idle, Actor, Points, CreatePoints, NoRow, Row
    <3>3. StepOn(a, t)
      BY <1>1, <2>1, <2>3, <3>2 DEF StepOn, Becomes, Unused
    <3>4. TypeOK' /\ IsFiniteSet(faults)'
      BY <1>1, <1>2, <2>1, <2>3, <2>4, <3>2 DEF TypeOK, FilesTyped, FaultsOK, Becomes
    <3>5. ActorOK(a)'
      BY <2>1, <3>1, <3>2
      DEF Becomes, ActorOK, Creating, Working, Unused, CreatePoints, RefreshPoints, OtherPoints, ImportPoints, via
    <3> QED
      BY <2>6, <3>3, <3>4, <3>5, StepKeepsCopies
  <2> QED
    BY <2>7, <2>8
<1>4. CASE RefreshRead(a, t) \/ CancelRead(a, t) \/ PauseRead(a, t) \/ ResumeRead(a, t)
  <2>1. Present(t) /\ UNCHANGED <<row, job>> /\ FilesTyped'
    BY <1>1, <1>4 DEF RefreshRead, CancelRead, PauseRead, ResumeRead, Present, Statuses, FilesTyped, TypeOK, import
  <2>2. PICK p \in {"tell", "cancelUpdate", "pauseJob", "resumeJob"}, r \in Row :
             /\ Becomes(a, p, t, r, {}, FALSE)
             /\ r.status \in Statuses /\ r.staging = row[t].staging /\ r.result = row[t].result
             /\ p = "cancelUpdate" => r.status = "canceled"
    <3>1. CASE CancelRead(a, t)
      <4>1. PICK r \in Row : r = [row[t] EXCEPT !.status = "canceled"] /\ r.status = "canceled"
                             /\ r.staging = row[t].staging /\ r.result = row[t].result
        <5>1. PICK r : r = [row[t] EXCEPT !.status = "canceled"]
          OBVIOUS
        <5>2. row[t] \in Row
          BY <1>1
        <5>3. r \in Row /\ r.status = "canceled" /\ r.staging = row[t].staging /\ r.result = row[t].result
          BY <5>1, <5>2 DEF Row, Statuses, Terminal
        <5> QED
          BY <5>1, <5>3
      <4>2. act' = [act EXCEPT ![a] = [Idle EXCEPT !.pc = "cancelUpdate", !.task = t, !.row = r]]
        BY <3>1, <4>1 DEF CancelRead
      <4>3. Becomes(a, "cancelUpdate", t, r, {}, FALSE)
        BY <1>1, <4>2 DEF Becomes, TypeOK, Idle, Actor, Points, OtherPoints
      <4> QED
        BY <4>1, <4>3 DEF Statuses, Terminal
    <3>2. CASE ~ CancelRead(a, t)
      <4>1. \E p \in {"tell", "pauseJob", "resumeJob"} : Read(a, t, p)
        BY <1>4, <3>2 DEF RefreshRead, PauseRead, ResumeRead
      <4>2. \E p \in {"tell", "pauseJob", "resumeJob"} : Becomes(a, p, t, row[t], {}, FALSE)
        BY <1>1, <4>1 DEF Moves, Points, RefreshPoints, OtherPoints
      <4> QED
        BY <1>1, <2>1, <4>2 DEF Present
    <3> QED
      BY <3>1, <3>2
  <2>3. StepOn(a, t)
    BY <2>1, <2>2 DEF StepOn, Becomes
  <2>4. TypeOK' /\ IsFiniteSet(faults)'
    BY <1>1, <1>2, <2>1, <2>2 DEF TypeOK, FilesTyped, FaultsOK, Becomes
  <2>5. RowOK(t)'
    BY <1>1, <2>1 DEF RowOK, Present, StagingOK, via
  <2>6. ActorOK(a)'
    <3>1. CopyOK(act[a].pc, act[a].row, act[a].todo)'
      BY <1>1, <2>1, <2>2 DEF Becomes, CopyOK, RowOK, StagingOK, via, ImportPoints, LoopPoints, FilePoints
    <3> QED
      BY <2>1, <2>2, <3>1
      DEF Becomes, ActorOK, Creating, Working, Present, CreatePoints, RefreshPoints, OtherPoints, ImportPoints
  <2> QED
    BY <2>3, <2>4, <2>5, <2>6, StepKeepsCopies
<1> QED
  BY <1>3, <1>4 DEF Begin

LEMMA JobsKeepCopies ==
    ASSUME CopiesInv, NEW t \in Tasks, JobStep(t) \/ JobFails(t), UNCHANGED route
    PROVE  CopiesInv'
<1>1. TypeOK /\ FaultsOK /\ UNCHANGED <<row, act>>
  BY DEF CopiesInv, TypeOK, FaultsOK, JobStep, JobStarts, JobCompletes, JobFails, import
<1>2. FaultsOK'
  <2>1. UNCHANGED faults \/ \E kind : Fault(kind)
    BY DEF JobStep, JobStarts, JobCompletes, JobFails
  <2>2. \A kind : Fault(kind) => kind \in FaultKinds
    BY DEF Fault
  <2> QED
    BY <1>1, <2>1, <2>2, FaultsAreBounded
<1>3. PICK state \in {"active", "complete", "error"} : job' = [job EXCEPT ![t] = state]
  BY DEF JobStep, JobStarts, JobCompletes, JobFails
<1>4. job' \in [Tasks -> Jobs] /\ \A u \in Tasks : job'[u] \in {job[u], state}
  BY <1>1, <1>3 DEF TypeOK, Jobs
<1>5. FilesTyped'
  <2>1. CASE JobCompletes(t)
    <3>1. PICK file \in [of : Tasks \cup {NoTask}, whole : BOOLEAN] : file = [of |-> t, whole |-> TRUE]
      OBVIOUS
    <3>2. \/ UNCHANGED target
          \/ target' = [f \in Files |-> IF f \in Objects THEN file ELSE target[f]]
      BY <2>1, <3>1 DEF JobCompletes
    <3>3. target' \in [Files -> [of : Tasks \cup {NoTask}, whole : BOOLEAN]]
      BY <1>1, <3>2 DEF TypeOK
    <3> QED
      BY <1>1, <2>1, <3>3, ZenonT(150) DEF TypeOK, FilesTyped, JobCompletes
  <2>2. CASE ~ JobCompletes(t)
    BY <1>1, <2>2 DEF TypeOK, FilesTyped, JobStep, JobStarts, JobFails, import
  <2> QED
    BY <2>1, <2>2
<1>6. TypeOK' /\ IsFiniteSet(faults)'
  BY <1>1, <1>2, <1>4, <1>5 DEF TypeOK, FilesTyped, FaultsOK
<1>7. ASSUME NEW u \in Tasks PROVE RowOK(u)'
  BY <1>1, <1>4 DEF CopiesInv, RowOK, Present, StagingOK, via
<1>8. ASSUME NEW a \in Actors PROVE ActorOK(a)'
  <2>1. ActorOK(a) /\ (act[a].pc \in {"createRow", "withdraw"} => act[a].task \in Tasks)
    BY DEF CopiesInv, ActorOK
  <2> QED
    BY <1>1, <1>4, <2>1 DEF ActorOK, Creating, Working, Present, CopyOK, StagingOK, via
<1> QED
  BY <1>6, <1>7, <1>8 DEF CopiesInv

LEMMA CrashKeepsCopies ==
    ASSUME CopiesInv, Crash, UNCHANGED route
    PROVE  CopiesInv'
<1>1. FaultsOK'
  BY FaultsAreBounded DEF CopiesInv, TypeOK, FaultsOK, Crash, Fault
<1>2. act' \in [Actors -> Actor] /\ \A a \in Actors : act'[a].pc = "idle"
  BY DEF Crash, Idle, NoRow, Actor, Points, Row
<1>3. TypeOK' /\ IsFiniteSet(faults)'
  BY <1>1, <1>2 DEF CopiesInv, TypeOK, FaultsOK, Crash, import
<1>4. \A a \in Actors : ActorOK(a)'
  BY <1>2 DEF ActorOK, Creating, Working, CreatePoints, RefreshPoints, OtherPoints, ImportPoints
<1>5. \A t \in Tasks : RowOK(t)'
  BY DEF CopiesInv, RowOK, Present, StagingOK, via, Crash
<1> QED
  BY <1>3, <1>4, <1>5 DEF CopiesInv

LEMMA CopiesKept ==
    ASSUME CopiesInv, [Next]_vars
    PROVE  CopiesInv'
<1>1. CASE UNCHANGED vars
  <2>1. TypeOK' /\ IsFiniteSet(faults)'
    BY <1>1 DEF CopiesInv, TypeOK, vars
  <2>2. \A a \in Actors : ActorOK(a)'
    BY <1>1 DEF CopiesInv, ActorOK, Creating, Working, Present, CopyOK, StagingOK, via, vars
  <2>3. \A t \in Tasks : RowOK(t)'
    BY <1>1 DEF CopiesInv, RowOK, Present, StagingOK, via, vars
  <2> QED
    BY <2>1, <2>2, <2>3 DEF CopiesInv
<1>2. ASSUME NEW a \in Actors, Step(a), UNCHANGED route PROVE CopiesInv'
  BY <1>2, RefreshKeepsCopies, DrivingKeepsCopies, WritingKeepsCopies, CreatingKeepsCopies
  DEF Step, Refreshes
<1>3. CASE Next
  BY <1>2, <1>3, BeginningKeepsCopies, JobsKeepCopies, CrashKeepsCopies DEF Next
<1> QED
  BY <1>1, <1>3

LEMMA CopiesInit == Init => CopiesInv
<1> SUFFICES ASSUME Init PROVE CopiesInv
  OBVIOUS
<1>1. NoRow \in Row /\ NoFile \in [of : Tasks \cup {NoTask}, whole : BOOLEAN]
  BY DEF NoRow, Row, NoFile
<1>2. Idle \in Actor /\ Idle.pc = "idle"
  BY <1>1 DEF Idle, Actor, Points
<1>3. IsFiniteSet(faults) /\ Cardinality(faults) = 0
  BY FS_EmptySet DEF Init
<1>4. TypeOK
  BY <1>1, <1>2, <1>3, TaskAssumption DEF Init, TypeOK, Jobs
<1>5. \A a \in Actors : ActorOK(a)
  BY <1>2 DEF Init, ActorOK, Creating, Working, CreatePoints, RefreshPoints, OtherPoints, ImportPoints
<1>6. \A t \in Tasks : RowOK(t)
  BY DEF Init, RowOK, Present, NoRow, Statuses, Terminal
<1> QED
  BY <1>3, <1>4, <1>5, <1>6 DEF CopiesInv

-----------------------------------------------------------------------------
(* What most steps leave alone *)

Acts(a) == Step(a) \/ \E t \in Tasks : Begin(a, t)

LEMMA OthersStay ==
    ASSUME TypeOK, NEW a \in Actors, Acts(a)
    PROVE  \A b \in Actors \ {a} : act'[b] = act[b]
<1> DEFINE Stay == \A b \in Actors \ {a} : act'[b] = act[b]
<1>1. act \in [Actors -> Actor]
  BY DEF TypeOK
<1>2. ASSUME NEW q, act' = [act EXCEPT ![a] = q] PROVE Stay
  BY <1>1, <1>2
<1>3. Return(a) \/ ImportFails(a) \/ Continue(a) \/ Succeed(a) => Stay
  BY <1>2 DEF Return, ImportFails, SetStatus, Continue, Succeed
<1>4. \A p : Goto(a, p) => Stay
  BY <1>2 DEF Goto
<1>5. \A p, s : SetStatus(a, s, p) => Stay
  BY <1>2 DEF SetStatus
<1>6. \A p, t : Read(a, t, p) => Stay
  BY <1>2 DEF Read
<1>7. act' = act => Stay
  OBVIOUS
<1> SUFFICES Stay
  OBVIOUS
<1> HIDE DEF Stay
<1>8. CASE Refreshes(a)
  <2>1. CASE Tell(a) \/ Notify(a) \/ CommitNative(a)
    BY <1>3, <1>5, <2>1 DEF Tell, Notify, CommitNative
  <2>2. CASE ListStaged(a)
    BY <1>2, <1>3, <1>4, <2>2 DEF ListStaged
  <2>3. CASE Commit(a)
    BY <1>2, <1>3, <2>3 DEF Commit
  <2>4. CASE Probe(a) \/ Recommit(a) \/ StatStaged(a) \/ Stat(a) \/ Copy(a) \/ Unstage(a) \/ RemoveAll(a)
    BY <1>3, <1>4, <2>4 DEF Probe, Recommit, StatStaged, Stat, Copy, Unstage, RemoveAll
  <2>5. CASE Move(a)
    BY <1>3, <1>4, <2>5 DEF Move
  <2>6. CASE Recover(a) \/ RecoverCommit(a)
    BY <1>3, <1>4, <2>6 DEF Recover, RecoverCommit
  <2> QED
    BY <1>8, <2>1, <2>2, <2>3, <2>4, <2>5, <2>6 DEF Refreshes
<1>9. CASE RefreshUpdate(a) \/ CancelUpdate(a) \/ PauseUpdate(a) \/ ResumeUpdate(a)
  BY <1>3, <1>4, <1>9 DEF RefreshUpdate, CancelUpdate, PauseUpdate, ResumeUpdate, WriteBack
<1>10. CASE AddURI(a) \/ CreateRow(a) \/ NativeRow(a) \/ Withdraw(a)
  BY <1>3, <1>4, <1>10 DEF AddURI, CreateRow, NativeRow, Withdraw
<1>11. CASE CancelRemove(a) \/ CancelDelete(a) \/ PauseJob(a) \/ ResumeJob(a)
  BY <1>3, <1>4, <1>5, <1>11 DEF CancelRemove, CancelDelete, PauseJob, ResumeJob
<1>12. CASE \E t \in Tasks : Begin(a, t)
  BY <1>2, <1>6, <1>7, <1>12
  DEF Begin, RefreshRead, CreateStaging, CreateNative, CancelRead, PauseRead, ResumeRead
<1> QED
  BY <1>8, <1>9, <1>10, <1>11, <1>12 DEF Acts, Step, Refreshes

\* A copy after a step: as it was, or only its status is new, or there is none.
Follows(r, old) == r \in {NoRow, old} \/ \E s : r = WithStatus(old, s)

LEMMA FollowsIs ==
    ASSUME NEW old \in Row, NEW r, Follows(r, old)
    PROVE  /\ r.result => old.result
           /\ r = NoRow \/ (r.staging <=> old.staging)
BY DEF Follows, NoRow, WithStatus

\* What gives a copy its result
Commits(a) ==
    \/ Succeed(a) /\ At(a, "commitNative") /\ node' = node \cup Objects
    \/ Succeed(a) /\ At(a, "recommit") /\ node' = node \cup {First(Files)}
    \/ Succeed(a) /\ At(a, "removeAll")
    \/ /\ Continue(a) /\ act[a].pc \in {"commit", "recover", "recoverCommit"}
       /\ First(act[a].todo) \in node'

LEMMA CopyFollows ==
    ASSUME TypeOK, NEW a \in Actors, Step(a)
    PROVE  Follows(act'[a].row, act[a].row) \/ Commits(a)
<1> DEFINE q == act[a]
           Same == Follows(act'[a].row, q.row)
           Good == Same \/ Commits(a)
<1>1. act \in [Actors -> Actor] /\ q \in Actor /\ q.row \in Row
  BY DEF TypeOK, Actor
<1>2. \A p : Goto(a, p) => Same
  BY <1>1 DEF Goto, Follows, Actor
<1>3. ASSUME NEW p, NEW s, SetStatus(a, s, p) PROVE Same
  <2>1. PICK r : r = [q.row EXCEPT !.status = s]
    OBVIOUS
  <2>2. r = WithStatus(q.row, s)
    BY <1>1, <2>1 DEF Row, WithStatus
  <2>3. act' = [act EXCEPT ![a] = [@ EXCEPT !.pc = p, !.row = r]]
    BY <1>3, <2>1 DEF SetStatus
  <2>4. act'[a].row = r
    BY <1>1, <2>3 DEF Actor
  <2> QED
    BY <2>2, <2>4 DEF Follows
<1>4. Return(a) => Same
  BY <1>1 DEF Return, Idle, Follows
<1>5. ImportFails(a) => Same
  BY <1>3 DEF ImportFails
<1>6. act' = [act EXCEPT ![a] = [@ EXCEPT !.pc = "recover", !.own = TRUE]] => Same
  BY <1>1 DEF Follows, Actor
<1>7. act' = [act EXCEPT ![a] = [@ EXCEPT !.pc = "statStaged", !.todo = staged[q.task]]] => Same
  BY <1>1 DEF Follows, Actor
<1> SUFFICES Good
  OBVIOUS
<1>8. Same \/ Commits(a) => Good
  OBVIOUS
<1> HIDE DEF Same, Good
<1>9. CASE Refreshes(a)
  <2>1. CASE ListStaged(a)
    BY <1>2, <1>5, <1>7, <1>8, <2>1 DEF ListStaged
  <2>2. CASE Commit(a)
    BY <1>5, <1>6, <1>8, <2>2 DEF Commit, Commits, At
  <2>3. CASE Tell(a) \/ Notify(a) \/ CommitNative(a) \/ Probe(a) \/ Recommit(a) \/ RemoveAll(a)
    BY <1>2, <1>3, <1>4, <1>5, <1>8, <2>3 DEF Tell, Notify, CommitNative, Probe, Recommit, RemoveAll, Commits
  <2>4. CASE StatStaged(a) \/ Stat(a) \/ Move(a) \/ Copy(a) \/ Unstage(a) \/ Recover(a) \/ RecoverCommit(a)
    BY <1>2, <1>5, <1>8, <2>4 DEF StatStaged, Stat, Move, Copy, Unstage, Recover, RecoverCommit, Commits, At
  <2> QED
    BY <1>9, <2>1, <2>2, <2>3, <2>4 DEF Refreshes
<1>10. CASE RefreshUpdate(a) \/ CancelUpdate(a) \/ PauseUpdate(a) \/ ResumeUpdate(a)
  BY <1>2, <1>4, <1>8, <1>10 DEF RefreshUpdate, CancelUpdate, PauseUpdate, ResumeUpdate, WriteBack
<1>11. CASE AddURI(a) \/ CreateRow(a) \/ NativeRow(a) \/ Withdraw(a)
  BY <1>2, <1>4, <1>8, <1>11 DEF AddURI, CreateRow, NativeRow, Withdraw
<1>12. CASE CancelRemove(a) \/ CancelDelete(a) \/ PauseJob(a) \/ ResumeJob(a)
  BY <1>2, <1>3, <1>4, <1>8, <1>12 DEF CancelRemove, CancelDelete, PauseJob, ResumeJob
<1> QED
  BY <1>9, <1>10, <1>11, <1>12 DEF Step, Refreshes

\* The row of a task changes when an Update or its creation is written.
Writes(a) == RefreshUpdate(a) \/ CancelUpdate(a) \/ PauseUpdate(a) \/ ResumeUpdate(a)
Creates(a) == AddURI(a) \/ CreateRow(a) \/ NativeRow(a) \/ Withdraw(a)
Drives(a) == CancelRemove(a) \/ CancelDelete(a) \/ PauseJob(a) \/ ResumeJob(a)

LEMMA StepIs == \A a : Step(a) <=> Refreshes(a) \/ Writes(a) \/ Creates(a) \/ Drives(a)
BY DEF Step, Refreshes, Writes, Creates, Drives

LEMMA FaultsGrow == [Next]_vars => faults \subseteq faults'
<1>1. \A kind : Fault(kind) => faults \subseteq faults'
  BY DEF Fault
<1>2. UNCHANGED faults => faults \subseteq faults'
  BY SMTT(60)
<1>3. ASSUME NEW a \in Actors, Refreshes(a) PROVE faults \subseteq faults'
  BY <1>1, <1>2, <1>3 DEF Refreshes, CommitNative, ListStaged, Probe, Recommit, StatStaged, Stat, Move, Copy,
     Unstage, Commit, Recover, RecoverCommit, RemoveAll, Tell, Notify
<1>4. ASSUME NEW a \in Actors, Step(a) PROVE faults \subseteq faults'
  BY <1>1, <1>2, <1>3, <1>4, StepIs
  DEF Writes, Creates, Drives, AddURI, CreateRow, NativeRow, Withdraw, RefreshUpdate, CancelUpdate, PauseUpdate,
      ResumeUpdate, WriteBack, CancelRemove, CancelDelete, PauseJob, ResumeJob
<1>5. ASSUME NEW a \in Actors, NEW t \in Tasks, Begin(a, t) PROVE faults \subseteq faults'
  BY <1>1, <1>2, <1>5 DEF Begin, RefreshRead, CreateStaging, CreateNative, CancelRead, PauseRead, ResumeRead
<1>6. ASSUME NEW t \in Tasks, JobStep(t) \/ JobFails(t) PROVE faults \subseteq faults'
  BY <1>1, <1>2, <1>6 DEF JobStep, JobStarts, JobCompletes, JobFails
<1>7. Crash => faults \subseteq faults'
  BY <1>1 DEF Crash
<1> QED
  BY <1>2, <1>4, <1>5, <1>6, <1>7 DEF Next, vars

\* What an Update does to rows and to its actor
LEMMA WritesAre ==
    ASSUME CopiesInv, NEW a \in Actors, Writes(a)
    PROVE  /\ Working(a) /\ act[a].task \in Tasks /\ UNCHANGED <<job, import, told>>
           /\ \/ /\ UNCHANGED <<row>> /\ Becomes(a, "idle", NoTask, NoRow, {}, FALSE)
                 /\ Fault("db")
              \/ /\ row' \in [Tasks -> Row] /\ UNCHANGED faults
                 /\ row'[act[a].task] = act[a].row
                 /\ \A t \in Tasks \ {act[a].task} : row'[t] = row[t]
                 /\ \E p \in {"notify", "cancelRemove", "idle"} :
                        /\ Becomes(a, p, act[a].task, act[a].row, act[a].todo, act[a].own)
                        /\ p = "notify" <=> At(a, "update")
                        /\ p = "cancelRemove" <=> At(a, "cancelUpdate")
                        /\ p = "idle" => act[a].row.status \in {"paused", "running"}
<1> DEFINE q == act[a]
<1>1. Working(a)
  BY DEF Writes, RefreshUpdate, CancelUpdate, PauseUpdate, ResumeUpdate, At, Working, RefreshPoints, OtherPoints
<1>2. q.task \in Tasks /\ CopyOK(q.pc, q.row, q.todo) /\ Moves(a) /\ q.row \in Row /\ row \in [Tasks -> Row]
  BY <1>1, ActorsMove
  DEF CopiesInv, ActorOK, TypeOK, Actor, Working, RefreshPoints, OtherPoints, ImportPoints
<1>3. PICK p \in {"notify", "cancelRemove", "idle"} :
          /\ WriteBack(a, p)
          /\ p = "notify" <=> At(a, "update")
          /\ p = "cancelRemove" <=> At(a, "cancelUpdate")
          /\ p = "idle" => At(a, "pauseUpdate") \/ At(a, "resumeUpdate")
  BY DEF Writes, RefreshUpdate, CancelUpdate, PauseUpdate, ResumeUpdate, At
<1>4. p = "idle" => q.row.status \in {"paused", "running"}
  BY <1>2, <1>3 DEF CopyOK, At
<1>5. CASE RepoUpdate(a) /\ Goto(a, p) /\ UNCHANGED faults
  <2>1. Becomes(a, p, q.task, q.row, q.todo, q.own)
    BY <1>2, <1>5 DEF Moves, Points, OtherPoints
  <2>2. row' \in [Tasks -> Row] /\ row'[q.task] = q.row /\ \A t \in Tasks \ {q.task} : row'[t] = row[t]
    BY <1>2, <1>5 DEF RepoUpdate
  <2> QED
    BY <1>1, <1>2, <1>3, <1>4, <1>5, <2>1, <2>2 DEF WriteBack
<1>6. CASE Fault("db") /\ Return(a) /\ UNCHANGED row
  BY <1>1, <1>2, <1>3, <1>6 DEF Moves, WriteBack
<1> QED
  BY <1>3, <1>5, <1>6 DEF WriteBack

\* What a Create does to rows and to its actor
LEMMA CreatesAre ==
    ASSUME CopiesInv, NEW a \in Actors, Creates(a)
    PROVE  /\ Creating(a) /\ act[a].task \in Tasks /\ row[act[a].task] = NoRow
           /\ UNCHANGED <<target, node, journal, told>>
           /\ \A t \in Tasks \ {act[a].task} : /\ row'[t] = row[t] /\ job'[t] = job[t]
                                               /\ staged'[t] = staged[t]
           /\ row'[act[a].task] = NoRow \/ (At(a, "createRow") /\ row'[act[a].task].status = "pending"
                                            /\ ~ row'[act[a].task].result /\ UNCHANGED <<job, staged>>)
<1>1. Creating(a)
  BY DEF Creates, AddURI, CreateRow, NativeRow, Withdraw, At, Creating, CreatePoints
<1>2. act[a].task \in Tasks /\ row[act[a].task] = NoRow /\ row \in [Tasks -> Row]
      /\ job \in [Tasks -> Jobs] /\ staged \in [Tasks -> SUBSET Files]
  BY <1>1 DEF CopiesInv, ActorOK, TypeOK, Creating, CreatePoints
<1>3. CASE AddURI(a) \/ Withdraw(a)
  BY <1>1, <1>2, <1>3 DEF AddURI, Withdraw, Added, RemoveStaging, import
<1>4. CASE CreateRow(a)
  BY <1>1, <1>2, <1>4 DEF CreateRow, RemoveStaging
<1>5. CASE NativeRow(a)
  BY <1>1, <1>2, <1>5 DEF NativeRow, import
<1> QED
  BY <1>3, <1>4, <1>5 DEF Creates


\* What the calls to the downloader do to rows, files and their actor
LEMMA DrivesAre ==
    ASSUME CopiesInv, NEW a \in Actors, Drives(a)
    PROVE  LET q == act[a]
           IN  /\ Working(a) /\ UNCHANGED <<row, staged, node, journal>>
               /\ \/ Becomes(a, "idle", NoTask, NoRow, {}, FALSE)
                  \/ Becomes(a, "notify", q.task, q.row, q.todo, q.own)
                  \/ Becomes(a, "pauseUpdate", q.task, WithStatus(q.row, "paused"), q.todo, q.own)
                  \/ Becomes(a, "resumeUpdate", q.task, WithStatus(q.row, "running"), q.todo, q.own)
<1>1. Working(a) /\ UNCHANGED <<row, staged, node, journal>>
  BY DEF Drives, CancelRemove, CancelDelete, PauseJob, ResumeJob, At, Working, OtherPoints, import
<1>2. Moves(a)
  BY ActorsMove DEF CopiesInv
<1>3. \/ Return(a) \/ Goto(a, "notify")
      \/ SetStatus(a, "paused", "pauseUpdate") \/ SetStatus(a, "running", "resumeUpdate")
  BY DEF Drives, CancelRemove, CancelDelete, PauseJob, ResumeJob
<1>4. {"notify", "pauseUpdate", "resumeUpdate"} \subseteq Points /\ {"paused", "running"} \subseteq Statuses
  BY DEF Points, OtherPoints, Statuses
<1> QED
  BY <1>1, <1>2, <1>3, <1>4 DEF Moves

\* An operation begins with a new task, or with the row it read.
LEMMA BeginsAre ==
    ASSUME CopiesInv, NEW a \in Actors, NEW t \in Tasks, Begin(a, t)
    PROVE  /\ Free(a) /\ UNCHANGED <<row, staged, target, node, journal, told>>
           /\ \/ UNCHANGED act
              \/ /\ Unused(t) /\ act'[a].pc \in {"addURI", "createRow"} /\ act'[a].task = t /\ act'[a].row = NoRow
                 /\ act'[a].pc = "createRow" => via = "native"
              \/ /\ Present(t) /\ UNCHANGED job /\ row[t].status \notin Terminal
                 /\ \/ \E p \in {"tell", "pauseJob", "resumeJob"} : Becomes(a, p, t, row[t], {}, FALSE)
                    \/ Becomes(a, "cancelUpdate", t, WithStatus(row[t], "canceled"), {}, FALSE)
                 /\ Follows(act'[a].row, row[t]) /\ act'[a].row.status \in Statuses
<1>1. TypeOK /\ act \in [Actors -> Actor] /\ row[t] \in Row /\ Moves(a)
  BY ActorsMove DEF CopiesInv, TypeOK
<1>2. Free(a) /\ UNCHANGED <<row, staged, target, node, journal, told>>
  BY DEF Begin, RefreshRead, CreateStaging, CreateNative, CancelRead, PauseRead, ResumeRead, import
<1>3. CASE CreateStaging(a, t) \/ CreateNative(a, t)
  BY <1>1, <1>2, <1>3, ZenonT(150) DEF CreateStaging, CreateNative, Idle
<1>4. CASE ~ (CreateStaging(a, t) \/ CreateNative(a, t))
  <2>1. Present(t) /\ UNCHANGED job /\ row[t].status \notin Terminal
    BY <1>4 DEF Begin, RefreshRead, CancelRead, PauseRead, ResumeRead, Present, Statuses, Terminal
  <2>2. CASE CancelRead(a, t)
    <3>1. PICK r : r = WithStatus(row[t], "canceled")
      OBVIOUS
    <3>2. r = [row[t] EXCEPT !.status = "canceled"] /\ r \in Row
      BY <1>1, <3>1 DEF Row, WithStatus, Statuses, Terminal
    <3>3. act' = [act EXCEPT ![a] = [Idle EXCEPT !.pc = "cancelUpdate", !.task = t, !.row = r]]
      BY <2>2, <3>2 DEF CancelRead
    <3>4. "cancelUpdate" \in Points
      BY DEF Points, OtherPoints
    <3>5. Becomes(a, "cancelUpdate", t, r, {}, FALSE)
      BY <1>1, <3>2, <3>3, <3>4 DEF Becomes, Idle, Actor
    <3> QED
      BY <1>2, <2>1, <3>1, <3>5, SMTT(60) DEF Becomes, Follows, WithStatus, Statuses, Terminal
  <2>3. ASSUME NEW p \in {"tell", "pauseJob", "resumeJob"}, Read(a, t, p)
        PROVE  Becomes(a, p, t, row[t], {}, FALSE)
    BY <1>1, <2>3 DEF Moves, Points, RefreshPoints, OtherPoints
  <2>4. CancelRead(a, t) \/ Read(a, t, "tell") \/ Read(a, t, "pauseJob") \/ Read(a, t, "resumeJob")
    BY <1>4 DEF Begin, RefreshRead, PauseRead, ResumeRead
  <2> QED
    BY <1>2, <2>1, <2>2, <2>3, <2>4 DEF Becomes, Follows, Present
<1> QED
  BY <1>3, <1>4

LEMMA RowsBy ==
    ASSUME CopiesInv, [Next]_vars
    PROVE  UNCHANGED row \/ \E a \in Actors : Writes(a) \/ Creates(a)
<1>1. \A a \in Actors : Refreshes(a) \/ Drives(a) => UNCHANGED row
  BY RefreshesAreTyped, DrivesAre
<1>2. \A a \in Actors, t \in Tasks : Begin(a, t) => UNCHANGED row
  BY BeginsAre
<1>3. \A t \in Tasks : JobStep(t) \/ JobFails(t) => UNCHANGED row
  BY DEF JobStep, JobStarts, JobCompletes, JobFails
<1> QED
  BY <1>1, <1>2, <1>3, StepIs DEF Next, Crash, vars
-----------------------------------------------------------------------------
(* The outcome is told *)

LEMMA ToldKept ==
    ASSUME CopiesInv, ToldInv, [Next]_vars
    PROVE  ToldInv'
<1> SUFFICES ASSUME "crash" \notin faults', NEW t \in Tasks, row'[t].status \in Terminal
             PROVE  row'[t].status \in told'[t] \/ \E a \in Actors : Teller(a, t)'
  BY DEF ToldInv
<1>1. "crash" \notin faults
  BY FaultsGrow
<1>2. /\ row[t].status \in Terminal =>
            row[t].status \in told[t] \/ \E a \in Actors : Teller(a, t)
      /\ TypeOK
  BY <1>1 DEF ToldInv, CopiesInv
<1> DEFINE Told == row'[t].status \in told'[t] \/ \E a \in Actors : Teller(a, t)'
<1>3. CASE row'[t] = row[t] /\ told[t] \subseteq told'[t] /\
           \A a \in Actors : Teller(a, t) => Teller(a, t)' \/ row[t].status \in told'[t]
  BY <1>2, <1>3
<1>4. ASSUME NEW a \in Actors, Step(a) PROVE Told
  <2> DEFINE q == act[a]
  <2>1. \A b \in Actors \ {a} : act'[b] = act[b]
    BY <1>2, <1>4, OthersStay DEF Acts
  <2>2. row'[t] = row[t] => \A b \in Actors \ {a} : Teller(b, t) => Teller(b, t)'
    BY <2>1, SMTT(60) DEF Teller, On
  <2>3. told[t] \subseteq told'[t] /\ Moves(a)
    BY <1>2, <1>4, StepIs, CreatesAre, ActorsMove, WritesAre, ZenonT(150)
    DEF Refreshes, CommitNative, ListStaged, Probe, Recommit, StatStaged, Stat, Move, Copy, Unstage, Commit,
        Recover, RecoverCommit, RemoveAll, Tell, Notify, Drives, CancelRemove, CancelDelete, PauseJob, ResumeJob,
        TypeOK, import
  <2>4. CASE Notify(a)
    <3>1. Working(a) /\ q.task \in Tasks /\ UNCHANGED row
      BY <2>4 DEF Notify, CopiesInv, ActorOK, At, Working, OtherPoints
    <3>2. Teller(a, t) => row[t].status \in told'[t]
      BY <1>2, <2>4, <3>1 DEF Notify, Teller, On, TypeOK
    <3> QED
      BY <1>3, <2>2, <2>3, <3>1, <3>2
  <2>5. CASE CancelRemove(a) \/ CancelDelete(a)
    <3>1. UNCHANGED row /\ Becomes(a, "notify", q.task, q.row, q.todo, q.own)
      BY <2>3, <2>5 DEF CancelRemove, CancelDelete, Moves, Points, OtherPoints
    <3>2. Teller(a, t) => Teller(a, t)'
      BY <3>1 DEF Teller, On, Becomes
    <3> QED
      BY <1>3, <2>2, <2>3, <3>1, <3>2
  <2>6. CASE Writes(a)
    <3>1. CASE UNCHANGED row
      <4>1. ~ Teller(a, t)
        BY <2>6 DEF Teller, On, Writes, RefreshUpdate, CancelUpdate, PauseUpdate, ResumeUpdate, At
      <4> QED
        BY <1>3, <2>2, <2>3, <3>1, <4>1
    <3>2. CASE ~ UNCHANGED row
      <4>1. row'[q.task] = q.row /\ \A u \in Tasks \ {q.task} : row'[u] = row[u]
        BY <2>6, <3>2, WritesAre
      <4>2. PICK p \in {"notify", "cancelRemove", "idle"} :
               /\ Becomes(a, p, q.task, q.row, q.todo, q.own)
               /\ p = "idle" => q.row.status \in {"paused", "running"}
        BY <2>6, <3>2, WritesAre
      <4>3. CASE q.task = t
        <5>1. p # "idle"
          BY <4>1, <4>2, <4>3 DEF Terminal
        <5>2. Teller(a, t)'
          BY <4>1, <4>2, <4>3, <5>1 DEF Teller, On, Becomes
        <5> QED
          BY <5>2
      <4>4. CASE q.task # t
        BY <1>3, <2>2, <2>3, <4>1, <4>4 DEF Teller, On
      <4> QED
        BY <4>3, <4>4
    <3> QED
      BY <3>1, <3>2
  <2>7. CASE Creates(a)
    <3>1. Creating(a) /\ (row'[t] = row[t] \/ row'[t] = NoRow \/ row'[t].status = "pending")
      BY <2>7, CreatesAre
    <3>2. row'[t] = row[t] /\ ~ Teller(a, t)
      BY <3>1 DEF Teller, On, Creating, CreatePoints, NoRow, Terminal
    <3> QED
      BY <1>3, <2>2, <2>3, <3>2
  <2>8. CASE (Refreshes(a) /\ ~ Notify(a)) \/ PauseJob(a) \/ ResumeJob(a)
    <3>1. ~ Teller(a, t)
      BY <2>8 DEF Teller, On, At, Refreshes, CommitNative, ListStaged, Probe, Recommit, StatStaged, Stat, Move, Copy,
         Unstage, Commit, Recover, RecoverCommit, RemoveAll, Tell, PauseJob, ResumeJob
    <3>2. UNCHANGED row
      BY <2>8, RefreshesAreTyped DEF PauseJob, ResumeJob
    <3> QED
      BY <1>3, <2>2, <2>3, <3>1, <3>2
  <2> QED
    BY <1>4, <2>4, <2>5, <2>6, <2>7, <2>8, StepIs DEF Drives
<1>5. ASSUME NEW a \in Actors, NEW u \in Tasks, Begin(a, u) PROVE Told
  <2>1. UNCHANGED <<row, told>> /\ ~ Teller(a, t)
    BY <1>5 DEF Begin, RefreshRead, CreateStaging, CreateNative, CancelRead, PauseRead, ResumeRead, Teller, On, Free, import
  <2>2. \A b \in Actors \ {a} : act'[b] = act[b]
    BY <1>2, <1>5, OthersStay DEF Acts
  <2> QED
    BY <1>3, <2>1, <2>2 DEF Teller, On
<1>6. CASE UNCHANGED <<row, told, act>>
  BY <1>3, <1>6 DEF Teller, On
<1>7. ASSUME NEW u \in Tasks, JobStep(u) \/ JobFails(u) PROVE Told
  BY <1>6, <1>7 DEF JobStep, JobStarts, JobCompletes, JobFails, import
<1>8. CASE UNCHANGED vars
  BY <1>6, <1>8 DEF vars
<1>9. ~ Crash
  BY DEF Crash, Fault
<1> QED
  BY <1>4, <1>5, <1>7, <1>8, <1>9 DEF Next

-----------------------------------------------------------------------------
(* A canceled download stops *)

LEMMA EndedJobStays ==
    ASSUME CopiesInv, [Next]_vars, NEW t \in Tasks, Present(t), job[t] \notin Live
    PROVE  job'[t] \notin Live
<1>1. job \in [Tasks -> Jobs] /\ row[t] # NoRow
  BY DEF CopiesInv, TypeOK, Present, NoRow, Statuses, Terminal
<1>2. CASE UNCHANGED job
  BY <1>2
<1>3. ASSUME NEW a \in Actors, Step(a) PROVE job'[t] \notin Live
  <2>1. CASE Refreshes(a) \/ Writes(a)
    BY <1>2, <2>1, RefreshesAreTyped, WritesAre
  <2>2. CASE Creates(a)
    <3>1. act[a].task # t
      BY <1>1, <2>2, CreatesAre
    <3> QED
      BY <2>2, <3>1, CreatesAre
  <2>3. CASE Drives(a)
    BY <1>1, <2>3 DEF Drives, CancelRemove, CancelDelete, PauseJob, ResumeJob, Live
  <2> QED
    BY <1>3, <2>1, <2>2, <2>3, StepIs
<1>4. ASSUME NEW a \in Actors, NEW u \in Tasks, Begin(a, u) PROVE job'[t] \notin Live
  BY <1>1, <1>4
  DEF Begin, RefreshRead, CreateStaging, CreateNative, CancelRead, PauseRead, ResumeRead, Unused, Added
<1>5. ASSUME NEW u \in Tasks, JobStep(u) \/ JobFails(u) PROVE job'[t] \notin Live
  BY <1>1, <1>5 DEF JobStep, JobStarts, JobCompletes, JobFails, Live
<1> QED
  BY <1>2, <1>3, <1>4, <1>5 DEF Next, Crash, vars

\* A refresh that is to write canceled has seen a removed job.
LEMMA CanceledIsSeen ==
    ASSUME CopiesInv, NEW a \in Actors, Refreshes(a), UNCHANGED route,
           act'[a].pc = "update", act'[a].row.status = "canceled"
    PROVE  act'[a].task = act[a].task /\ act[a].task \in Tasks /\ job[act[a].task] = "removed"
<1> DEFINE q == act[a]
<1>1. Working(a) /\ q.task \in Tasks /\ CopyOK(q.pc, q.row, q.todo) /\ q \in Actor /\ Moves(a) /\ GoesOn(a)
  BY RefreshesAreTyped, ActorsMove, RefreshesGoOn
  DEF CopiesInv, ActorOK, TypeOK, Working, RefreshPoints, OtherPoints, ImportPoints
<1>2. q.row = [status |-> q.row.status, staging |-> q.row.staging, result |-> q.row.result]
  BY <1>1 DEF Actor, Row
<1>3. act'[a].task = q.task
  BY <1>1 DEF GoesOn
<1>4. ~ Return(a) /\ ~ ImportFails(a)
  BY <1>1 DEF Moves, Becomes, WithStatus
<1>5. ~ (Succeed(a) /\ q.pc \in ImportPoints)
  BY <1>1, <1>2 DEF Moves, Becomes, Succeeded, CopyOK
<1>6. ~ Continue(a)
  BY <1>1 DEF Moves, Becomes
<1>7. \A p \in Points \ {"update"} : ~ Goto(a, p)
  BY <1>1 DEF Moves, Becomes
<1>8. CASE Tell(a)
  <2>1. PICK state \in Jobs : state = job[q.task]
    BY <1>1 DEF CopiesInv, TypeOK
  <2>2. state # "none" /\ (via = "native" => state # "paused")
    BY <1>1, <2>1 DEF CopiesInv, ActorOK, RowOK
  <2>3. Answered(state)
        /\ SetStatus(a, StatusOf(state), IF state = "complete" THEN Imports(q) ELSE "update")
    BY <1>4, <1>8, <2>1 DEF Tell
  <2>4. PICK s \in Statuses : s = StatusOf(state) /\ (s = "canceled" => state = "removed")
    BY <2>2, <2>3, StatusIsTrue DEF CopiesInv
  <2>5. PICK p \in Points : p = (IF state = "complete" THEN Imports(q) ELSE "update")
    BY DEF Imports, Points, RefreshPoints, ImportPoints
  <2>6. Becomes(a, p, q.task, WithStatus(q.row, s), q.todo, q.own)
    BY <1>1, <2>3, <2>4, <2>5 DEF Moves
  <2>7. act'[a].row.status = s
    BY <2>6 DEF Becomes, WithStatus
  <2> QED
    BY <1>1, <1>3, <2>1, <2>4, <2>7
<1>9. CASE Notify(a) \/ CommitNative(a) \/ Recommit(a) \/ RemoveAll(a)
  BY <1>4, <1>5, <1>9 DEF Notify, CommitNative, Recommit, RemoveAll, At, ImportPoints
<1>10. CASE ListStaged(a) \/ Commit(a)
  <2>1. act \in [Actors -> Actor] /\ q \in Actor
    BY <1>1 DEF CopiesInv, TypeOK
  <2>2. Goto(a, "probe") => FALSE
    BY <1>7 DEF Points, RefreshPoints, ImportPoints
  <2>3. \/ act' = [act EXCEPT ![a] = [@ EXCEPT !.pc = "statStaged", !.todo = staged[q.task]]]
        \/ act' = [act EXCEPT ![a] = [@ EXCEPT !.pc = "recover", !.own = TRUE]]
    BY <1>4, <1>6, <1>10, <2>2 DEF ListStaged, Commit
  <2>4. act'[a].pc # "update"
    BY <2>1, <2>3, ZenonT(150) DEF Actor
  <2> QED
    BY <2>4
<1>11. CASE Probe(a) \/ StatStaged(a) \/ Stat(a) \/ Copy(a) \/ Unstage(a) \/ Recover(a) \/ RecoverCommit(a)
  BY <1>4, <1>6, <1>7, <1>11
  DEF Probe, StatStaged, Stat, Copy, Unstage, Recover, RecoverCommit, Points, RefreshPoints, ImportPoints
<1>12. CASE Move(a)
  BY <1>4, <1>7, <1>12 DEF Move, Points, RefreshPoints, ImportPoints
<1> QED
  BY <1>8, <1>9, <1>10, <1>11, <1>12 DEF Refreshes

LEMMA StoppedKept ==
    ASSUME CopiesInv, StoppedInv, [Next]_vars
    PROVE  StoppedInv'
<1> DEFINE Canceled(a) == act[a].pc = "update" /\ act[a].row.status = "canceled"
           Stopped(t) == job[t] \notin Live \/ \E a \in Actors : On(a, t, {"cancelRemove"})
<1>1. \A a \in Actors : Canceled(a) => act[a].task \in Tasks /\ Present(act[a].task) /\ job[act[a].task] \notin Live
  BY DEF StoppedInv, CopiesInv, ActorOK, Working, RefreshPoints
<1>2. ASSUME NEW a \in Actors, act'[a] = act[a], Canceled(a)' PROVE job'[act'[a].task] \notin Live
  BY <1>1, <1>2, EndedJobStays
<1>3. TypeOK
  BY DEF CopiesInv
<1>4. ASSUME NEW a \in Actors, Step(a), UNCHANGED route, Canceled(a)' PROVE job'[act'[a].task] \notin Live
  <2>1. CASE Refreshes(a)
    <3>1. act'[a].task = act[a].task /\ act[a].task \in Tasks /\ job[act[a].task] = "removed"
      BY <1>4, <2>1, CanceledIsSeen
    <3>2. UNCHANGED job
      BY <2>1, RefreshesAreTyped
    <3> QED
      BY <3>1, <3>2 DEF Live
  <2>2. CASE ~ Refreshes(a)
    <3>1. act'[a].pc # "update"
      <4>1. Moves(a)
        BY <1>3, ActorsMove
      <4>2. CASE Writes(a)
        BY <4>2, WritesAre DEF Becomes
      <4>3. CASE Creates(a)
        BY <4>1, <4>3 DEF Moves, Becomes, Creates, AddURI, CreateRow, NativeRow, Withdraw, Points, CreatePoints
      <4>4. CASE Drives(a)
        <5>1. \/ Return(a) \/ Goto(a, "notify")
              \/ SetStatus(a, "paused", "pauseUpdate") \/ SetStatus(a, "running", "resumeUpdate")
          BY <4>4 DEF Drives, CancelRemove, CancelDelete, PauseJob, ResumeJob
        <5>2. {"notify", "pauseUpdate", "resumeUpdate"} \subseteq Points /\ {"paused", "running"} \subseteq Statuses
          BY DEF Points, OtherPoints, Statuses
        <5> QED
          BY <4>1, <5>1, <5>2 DEF Moves, Becomes
      <4> QED
        BY <1>4, <2>2, <4>2, <4>3, <4>4, StepIs
    <3> QED
      BY <1>4, <3>1
  <2> QED
    BY <2>1, <2>2
<1>5. ASSUME NEW a \in Actors, NEW t \in Tasks, Begin(a, t), Canceled(a)' PROVE FALSE
  <2>1. act \in [Actors -> Actor] /\ act[a].pc = "idle"
    BY <1>3, <1>5 DEF TypeOK, Begin, RefreshRead, CreateStaging, CreateNative, CancelRead, PauseRead, ResumeRead, Free
  <2> QED
    BY <1>5, <2>1, ZenonT(60)
    DEF Begin, RefreshRead, CreateStaging, CreateNative, CancelRead, PauseRead, ResumeRead, Read, Idle
<1>6. ASSUME NEW a \in Actors, Canceled(a)' PROVE job'[act'[a].task] \notin Live
  <2>1. CASE act'[a] = act[a]
    BY <1>2, <1>6, <2>1
  <2>2. CASE act'[a] # act[a]
    <3>1. CASE \E b \in Actors : Step(b) \/ \E t \in Tasks : Begin(b, t)
      BY <1>3, <1>4, <1>5, <1>6, <2>2, <3>1, OthersStay DEF Acts, Next, vars
    <3>2. CASE Crash
      BY <1>6, <3>2 DEF Crash, Idle
    <3>3. CASE UNCHANGED act
      BY <2>2, <3>3
    <3> QED
      BY <3>1, <3>2, <3>3 DEF Next, vars, JobStep, JobStarts, JobCompletes, JobFails
  <2> QED
    BY <2>1, <2>2
<1>7. ASSUME faults' \cap {"crash", "rpc"} = {}, NEW t \in Tasks, row'[t].status = "canceled"
      PROVE  Stopped(t)'
  <2>1. row[t].status = "canceled" => Present(t) /\ Stopped(t)
    BY <1>7, FaultsGrow DEF StoppedInv, Present, Statuses, Terminal
  <2>2. CASE row'[t] = row[t] /\ \A a \in Actors : On(a, t, {"cancelRemove"}) =>
                On(a, t, {"cancelRemove"})' \/ job'[t] \notin Live
    BY <1>7, <2>1, <2>2, EndedJobStays
  <2>3. ASSUME NEW a \in Actors, Step(a) PROVE Stopped(t)'
    <3> DEFINE q == act[a]
    <3>1. \A b \in Actors \ {a} : On(b, t, {"cancelRemove"}) => On(b, t, {"cancelRemove"})'
      BY <1>3, <2>3, OthersStay DEF Acts, On
    <3>2. CASE CancelRemove(a) \/ CancelDelete(a)
      <4>1. row' = row /\ At(a, "cancelRemove")
        BY <3>2 DEF CancelRemove, CancelDelete
      <4>2. q.task = t => job'[t] \notin Live
        <5>1. job \in [Tasks -> Jobs] /\ ~ Fault("rpc")
          BY <1>3, <1>7 DEF TypeOK, Fault
        <5> QED
          BY <3>2, <5>1 DEF CancelRemove, CancelDelete, Removable, Live
      <4> QED
        BY <2>2, <3>1, <4>1, <4>2 DEF On
    <3>3. CASE Writes(a)
      <4>1. ~ On(a, t, {"cancelRemove"})
        BY <3>3 DEF Writes, RefreshUpdate, CancelUpdate, PauseUpdate, ResumeUpdate, At, On
      <4>2. CASE row'[t] = row[t]
        BY <2>2, <3>1, <4>1, <4>2
      <4>3. CASE row'[t] # row[t]
        <5>1. row'[q.task] = q.row /\ q.task = t /\ UNCHANGED job
          BY <3>3, <4>3, WritesAre
        <5>2. PICK p \in {"notify", "cancelRemove", "idle"} :
                 /\ Becomes(a, p, q.task, q.row, q.todo, q.own)
                 /\ p = "notify" <=> At(a, "update")
                 /\ p = "idle" => q.row.status \in {"paused", "running"}
          BY <3>3, <4>3, WritesAre
        <5>3. CASE p = "notify"
          BY <1>1, <1>7, <5>1, <5>2, <5>3 DEF At
        <5>4. CASE p = "cancelRemove"
          BY <5>1, <5>2, <5>4 DEF Becomes, On
        <5> QED
          BY <1>7, <5>1, <5>2, <5>3, <5>4
      <4> QED
        BY <4>2, <4>3
    <3>4. CASE Creates(a)
      <4>1. Creating(a) /\ (row'[t] = row[t] \/ row'[t] = NoRow \/ row'[t].status = "pending")
        BY <3>4, CreatesAre
      <4>2. row'[t] = row[t] /\ ~ On(a, t, {"cancelRemove"})
        BY <1>7, <4>1 DEF On, Creating, CreatePoints, NoRow
      <4> QED
        BY <2>2, <3>1, <4>2
    <3>5. CASE Refreshes(a) \/ PauseJob(a) \/ ResumeJob(a)
      <4>1. ~ On(a, t, {"cancelRemove"})
        BY <3>5 DEF On, At, Refreshes, CommitNative, ListStaged, Probe, Recommit, StatStaged, Stat, Move, Copy,
           Unstage, Commit, Recover, RecoverCommit, RemoveAll, Tell, Notify, PauseJob, ResumeJob
      <4>2. UNCHANGED row
        BY <3>5, RefreshesAreTyped DEF PauseJob, ResumeJob
      <4> QED
        BY <2>2, <3>1, <4>1, <4>2, SMTT(60)
    <3> QED
      BY <2>3, <3>2, <3>3, <3>4, <3>5, StepIs DEF Drives
  <2>4. ASSUME NEW a \in Actors, NEW u \in Tasks, Begin(a, u) PROVE Stopped(t)'
    <3>1. UNCHANGED row /\ ~ On(a, t, {"cancelRemove"})
      BY <2>4 DEF Begin, RefreshRead, CreateStaging, CreateNative, CancelRead, PauseRead, ResumeRead, On, Free
    <3>2. \A b \in Actors \ {a} : act'[b] = act[b]
      BY <1>3, <2>4, OthersStay DEF Acts
    <3> QED
      BY <2>2, <3>1, <3>2 DEF On
  <2>5. CASE UNCHANGED <<row, act>>
    BY <2>2, <2>5 DEF On
  <2>6. ASSUME NEW u \in Tasks, JobStep(u) \/ JobFails(u) PROVE Stopped(t)'
    BY <2>5, <2>6 DEF JobStep, JobStarts, JobCompletes, JobFails
  <2>7. CASE UNCHANGED vars
    BY <2>5, <2>7 DEF vars
  <2>8. ~ Crash
    BY <1>7 DEF Crash, Fault
  <2> QED
    BY <2>3, <2>4, <2>6, <2>7, <2>8 DEF Next
<1> QED
  BY <1>6, <1>7 DEF StoppedInv

-----------------------------------------------------------------------------
(* What has been put in its place or recorded stays so *)

LEMMA RecordsGrow ==
    [Next]_vars => node \subseteq node' /\ journal \subseteq journal'
<1> DEFINE Grow == node \subseteq node' /\ journal \subseteq journal'
<1>1. UNCHANGED <<node, journal>> => Grow
  OBVIOUS
<1>2. ASSUME NEW a \in Actors, Refreshes(a) PROVE Grow
  <2>1. CASE CommitNative(a) \/ Recommit(a) \/ Commit(a) \/ RecoverCommit(a)
    BY <2>1, SMTT(60) DEF CommitNative, Recommit, Commit, RecoverCommit, RecordFailure
  <2>2. CASE ~ (CommitNative(a) \/ Recommit(a) \/ Commit(a) \/ RecoverCommit(a))
    BY <1>2, <2>2 DEF Refreshes, ListStaged, Probe, StatStaged, Stat, Move, Copy, Unstage, Recover, RemoveAll,
       Tell, Notify, import
  <2> QED
    BY <2>1, <2>2
<1>3. ASSUME NEW a \in Actors, Step(a), ~ Refreshes(a) PROVE Grow
  BY <1>3, StepIs
  DEF Writes, Creates, Drives, AddURI, CreateRow, NativeRow, Withdraw, RefreshUpdate, CancelUpdate, PauseUpdate,
      ResumeUpdate, WriteBack, CancelRemove, CancelDelete, PauseJob, ResumeJob, import
<1>4. ASSUME NEW a \in Actors, NEW t \in Tasks, Begin(a, t) PROVE Grow
  BY <1>4 DEF Begin, RefreshRead, CreateStaging, CreateNative, CancelRead, PauseRead, ResumeRead, import
<1>5. ASSUME NEW t \in Tasks, JobStep(t) \/ JobFails(t) PROVE Grow
  BY <1>5 DEF JobStep, JobStarts, JobCompletes, JobFails, import
<1> QED
  BY <1>1, <1>2, <1>3, <1>4, <1>5 DEF Next, Crash, vars, import

\* The steps that put something at a target or take it away
LEMMA TargetsAre ==
    ASSUME CopiesInv, [Next]_vars
    PROVE  \/ UNCHANGED target
           \/ \E a \in Actors : Move(a) \/ Copy(a) \/ (CancelDelete(a) /\ via = "native")
           \/ via = "native" /\ \E t \in Tasks : JobCompletes(t)
<1>1. ASSUME NEW a \in Actors, Refreshes(a), ~ Move(a), ~ Copy(a) PROVE UNCHANGED target
  BY <1>1 DEF Refreshes, CommitNative, ListStaged, Probe, Recommit, StatStaged, Stat, Unstage, Commit,
     Recover, RecoverCommit, RemoveAll, Tell, Notify, import
<1>2. ASSUME NEW a \in Actors, Step(a), ~ Refreshes(a), ~ CancelDelete(a) PROVE UNCHANGED target
  BY <1>2, StepIs
  DEF Writes, Creates, Drives, AddURI, CreateRow, NativeRow, Withdraw, RefreshUpdate, CancelUpdate, PauseUpdate,
      ResumeUpdate, WriteBack, CancelRemove, PauseJob, ResumeJob, import
<1>3. ASSUME NEW a \in Actors, NEW t \in Tasks, Begin(a, t) PROVE UNCHANGED target
  BY <1>3 DEF Begin, RefreshRead, CreateStaging, CreateNative, CancelRead, PauseRead, ResumeRead, import
<1>4. ASSUME NEW t \in Tasks, JobStep(t) \/ JobFails(t) PROVE UNCHANGED target \/ (JobCompletes(t) /\ via = "native")
  BY <1>4 DEF JobStep, JobStarts, JobCompletes, JobFails, import
<1>5. \A a : CancelDelete(a) => via = "native"
  BY DEF CancelDelete
<1> QED
  BY <1>1, <1>2, <1>3, <1>4, <1>5, SMTT(60) DEF Next, Crash, vars, import

LEMMA ExistsStays ==
    ASSUME CopiesInv, [Next]_vars, via # "native", NEW f \in Files, Exists(f)
    PROVE  Exists(f)'
<1>1. CASE UNCHANGED target
  BY <1>1 DEF Exists
<1>2. ASSUME NEW a \in Actors, Move(a) \/ Copy(a) PROVE Exists(f)'
  <2>1. PICK t \in Tasks : t = act[a].task
    BY <1>2 DEF Move, Copy, At, CopiesInv, ActorOK
  <2>2. target \in [Files -> [of : Tasks \cup {NoTask}, whole : BOOLEAN]]
    BY DEF CopiesInv, TypeOK
  <2>3. \/ UNCHANGED target
        \/ \E w : target' = [target EXCEPT ![First(act[a].todo)] = [of |-> t, whole |-> w]]
    BY <1>2, <2>1 DEF Move, Copy
  <2>4. t # NoTask
    BY TaskAssumption
  <2>5. target'[f] = target[f] \/ target'[f].of = t
    <3>1. CASE UNCHANGED target
      BY <3>1
    <3>2. CASE ~ UNCHANGED target
      <4>1. PICK g, w : target' = [target EXCEPT ![g] = [of |-> t, whole |-> w]]
        BY <2>3, <3>2
      <4>2. target'[f] = IF f = g THEN [of |-> t, whole |-> w] ELSE target[f]
        BY <2>2, <4>1
      <4> QED
        BY <4>2
    <3> QED
      BY <3>1, <3>2
  <2> QED
    BY <2>4, <2>5 DEF Exists, NoFile
<1> QED
  BY <1>1, <1>2, TargetsAre

LEMMA HandledStays ==
    ASSUME CopiesInv, [Next]_vars, "crash" \notin faults', NEW t \in Tasks, NEW f \in Files, Handled(t, f)
    PROVE  Handled(t, f)'
<1>1. node \subseteq node' /\ journal \subseteq journal' /\ TypeOK
  BY RecordsGrow DEF CopiesInv
<1>2. CASE f \in node \/ t \in journal
  BY <1>1, <1>2 DEF Handled
<1>3. ASSUME NEW b \in Actors, CommitAt(b, t, f, {"commit"}) PROVE Handled(t, f)'
  <2>1. CASE act'[b] = act[b]
    BY <1>3, <2>1 DEF Handled, CommitAt, On
  <2>2. CASE act'[b] # act[b]
    <3>1. Acts(b)
      <4>1. ~ Crash
        BY SMTT(60) DEF Crash, Fault
      <4> QED
        BY <1>1, <2>2, <4>1, OthersStay
        DEF Next, vars, Acts, JobStep, JobStarts, JobCompletes, JobFails
    <3>2. ~ \E u \in Tasks : Begin(b, u)
      BY <1>3, ZenonT(60) DEF CommitAt, On, Begin, RefreshRead, CreateStaging, CreateNative, CancelRead, PauseRead, ResumeRead, Free
    <3>3. Commit(b)
      BY <1>3, <3>1, <3>2
      DEF CommitAt, On, Acts, Step, At, AddURI, CreateRow, NativeRow, Withdraw, CommitNative, Tell, RefreshUpdate, Notify,
          ListStaged, Probe, Recommit, StatStaged, Stat, Move, Copy, Unstage, Recover, RecoverCommit, RemoveAll,
          CancelUpdate, CancelRemove, CancelDelete, PauseJob, PauseUpdate, ResumeJob, ResumeUpdate
    <3> QED
      BY <1>3, <3>3 DEF Commit, RecordFailure, Handled, CommitAt, On
  <2> QED
    BY <2>1, <2>2
<1> QED
  BY <1>2, <1>3 DEF Handled

LEMMA ThereStays ==
    ASSUME CopiesInv, [Next]_vars, via # "native", NEW t \in Tasks, NEW f \in Files, There(t, f)
    PROVE  There(t, f)'
BY ExistsStays, HandledStays, FaultsGrow DEF There

-----------------------------------------------------------------------------
(* The files of an import *)

\* A file leaves the staging directory of a task that has its row only when it is
\* dealt with.
LEMMA StagedOrThere ==
    ASSUME CopiesInv, PlacedInv, [Next]_vars, via # "native",
           NEW t \in Tasks, Present(t), NEW f \in Files, f \in staged[t]
    PROVE  f \in staged'[t] \/ There(t, f)'
<1> DEFINE Fine == f \in staged'[t] \/ There(t, f)'
<1>1. staged \in [Tasks -> SUBSET Files] /\ row[t] # NoRow
  BY DEF CopiesInv, TypeOK, Present, NoRow, Statuses, Terminal
<1>2. CASE staged'[t] = staged[t]
  BY <1>2
<1>3. ASSUME NEW a \in Actors, Refreshes(a), UNCHANGED route PROVE Fine
  <2> DEFINE q == act[a]
             g == First(q.todo)
  <2>1. Working(a) /\ q.task \in Tasks /\ PlaceOK(a) /\ CopyOK(q.pc, q.row, q.todo) /\ Moves(a)
    BY <1>3, RefreshesAreTyped, ActorsMove, SMTT(60)
    DEF CopiesInv, ActorOK, PlacedInv, Working, RefreshPoints, OtherPoints, ImportPoints
  <2>2. CASE q.task # t
    BY <1>1, <1>2, <1>3, <2>1, <2>2, ZenonT(60)
    DEF Refreshes, CommitNative, ListStaged, Probe, Recommit, StatStaged, Stat, Move, Copy, Unstage, Commit,
        Recover, RecoverCommit, RemoveAll, Tell, Notify, import, RemoveStaging, DropStaged
  <2>3. CASE q.task = t
    <3>1. CASE Recommit(a) \/ RemoveAll(a)
      <4>1. There(t, f)
        BY <2>1, <2>3, <3>1 DEF PlaceOK, Recommit, RemoveAll, At
      <4> QED
        BY <4>1, ThereStays
    <3>2. CASE Move(a)
      <4>1. f \in staged'[t] \/ (f = g /\ place = "rename" /\ Goto(a, "commit") /\ ~ UNCHANGED staged)
        BY <1>1, <2>1, <2>3, <3>2 DEF Move
      <4>2. CASE f = g /\ place = "rename" /\ Goto(a, "commit") /\ ~ UNCHANGED staged
        <5>1. Becomes(a, "commit", t, q.row, q.todo, q.own)
          BY <2>1, <2>3, <4>2 DEF Moves, Points, RefreshPoints, ImportPoints
        <5>2. Handled(t, f)'
          BY <4>2, <5>1 DEF Handled, CommitAt, On, Becomes
        <5>3. target' = [target EXCEPT ![f] = [of |-> t, whole |-> place # "copy"]]
          BY <2>3, <3>2, <4>2 DEF Move
        <5>4. target'[f].of = t /\ t # NoTask
          BY <5>3, TaskAssumption DEF CopiesInv, TypeOK
        <5> QED
          BY <5>2, <5>4 DEF There, Exists, NoFile
      <4> QED
        BY <4>1, <4>2
    <3>3. CASE Unstage(a)
      <4>1. f \in staged'[t] \/ (f = g /\ Goto(a, "commit"))
        BY <1>1, <2>1, <2>3, <3>3 DEF Unstage
      <4>2. CASE f = g /\ Goto(a, "commit")
        <5>1. Becomes(a, "commit", t, q.row, q.todo, q.own)
          BY <2>1, <2>3, <4>2 DEF Moves, Points, RefreshPoints, ImportPoints
        <5>2. Handled(t, f)'
          BY <4>2, <5>1 DEF Handled, CommitAt, On, Becomes
        <5>3. Exists(f)
          BY <2>1, <3>3, <4>2 DEF PlaceOK, Unstage, At
        <5> QED
          BY <5>2, <5>3, ExistsStays DEF There
      <4> QED
        BY <4>1, <4>2
    <3>4. CASE Recover(a) \/ RecoverCommit(a)
      <4>1. f \in staged'[t] \/ (f = g /\ f \in node')
        BY <1>1, <2>1, <2>3, <3>4 DEF Recover, RecoverCommit, DropStaged
      <4>2. f = g => Exists(f)'
        BY <2>1, <3>4, ExistsStays DEF PlaceOK, Recover, RecoverCommit, At
      <4> QED
        BY <4>1, <4>2 DEF There, Handled
    <3>5. CASE ~ (Recommit(a) \/ RemoveAll(a) \/ Move(a) \/ Unstage(a) \/ Recover(a) \/ RecoverCommit(a))
      BY <1>2, <1>3, <3>5
      DEF Refreshes, CommitNative, ListStaged, Probe, StatStaged, Stat, Copy, Commit, Tell, Notify, import
    <3> QED
      BY <3>1, <3>2, <3>3, <3>4, <3>5
  <2> QED
    BY <2>2, <2>3
<1>4. ASSUME NEW a \in Actors, Creates(a) PROVE Fine
  <2>1. act[a].task # t
    BY <1>1, <1>4, CreatesAre
  <2> QED
    BY <1>2, <1>4, <2>1, CreatesAre
<1>5. ASSUME NEW a \in Actors, Writes(a) \/ Drives(a) PROVE Fine
  <2>1. UNCHANGED staged
    BY <1>5, WritesAre DEF Drives, CancelRemove, CancelDelete, PauseJob, ResumeJob, import
  <2> QED
    BY <1>2, <2>1
<1>6. ASSUME NEW a \in Actors, NEW u \in Tasks, Begin(a, u) PROVE Fine
  BY <1>2, <1>6 DEF Begin, RefreshRead, CreateStaging, CreateNative, CancelRead, PauseRead, ResumeRead, import
<1>7. ASSUME NEW u \in Tasks, JobStep(u) \/ JobFails(u) PROVE Fine
  <2>1. UNCHANGED staged \/ staged' = [staged EXCEPT ![u] = Files]
    BY <1>7 DEF JobStep, JobStarts, JobCompletes, JobFails, import
  <2> QED
    BY <1>1, <2>1
<1> QED
  BY <1>2, <1>3, <1>4, <1>5, <1>6, <1>7, StepIs DEF Next, Crash, vars, import

\* Where the actor of a refresh stands after its step
LEMMA RefreshIsPlaced ==
    ASSUME CopiesInv, PlacedInv, [Next]_vars, via # "native", UNCHANGED route,
           NEW a \in Actors, Refreshes(a)
    PROVE  PlaceOK(a)'
<1> DEFINE q == act[a]
           b == act'[a]
<1>1. /\ Working(a) /\ q.task \in Tasks /\ PlaceOK(a) /\ CopyOK(q.pc, q.row, q.todo) /\ Moves(a)
      /\ Present(q.task) /\ q \in Actor /\ act \in [Actors -> Actor]
  BY RefreshesAreTyped, ActorsMove
  DEF CopiesInv, ActorOK, PlacedInv, Working, RefreshPoints, OtherPoints, ImportPoints, TypeOK
<1>2. PICK t \in Tasks : t = q.task /\ Present(t)
  BY <1>1
<1>3. PICK g, todo : g = First(q.todo) /\ todo = q.todo
  OBVIOUS
<1>4. q.pc \in LoopPoints => g \in Files /\ todo \subseteq Files
  <2>1. q.todo \in SUBSET Files /\ (q.pc \in LoopPoints => q.todo # {})
    BY <1>1 DEF CopyOK, Actor
  <2> QED
    BY <1>3, <2>1, FirstIsIn
<1>5. \A f \in Files : (There(t, f) => There(t, f)') /\ (Exists(f) => Exists(f)')
  BY ThereStays, ExistsStays
<1>6. q.pc \in FilePoints => \A f \in Files : f \in staged'[t] \/ There(t, f)'
  BY <1>1, <1>2, <1>5, StagedOrThere DEF PlaceOK
<1>7. q.pc \in LoopPoints => \A f \in Files \ todo : There(t, f)'
  BY <1>1, <1>2, <1>3, <1>5 DEF PlaceOK
<1>8. q.pc \in {"copy", "unstage", "commit", "recover", "recoverCommit"} => Exists(g)'
  BY <1>1, <1>3, <1>4, <1>5 DEF PlaceOK, LoopPoints
<1>9. ~ q.row.staging => \A f \in Files : Exists(f)'
  BY <1>1, <1>5 DEF PlaceOK
\* The actor is done with the files or returns.
<1>10. ASSUME b.pc \in {"idle", "update"}, ~ b.row.staging => ~ q.row.staging \/ b.pc = "idle" PROVE PlaceOK(a)'
  BY <1>9, <1>10
  DEF PlaceOK, Working, FilePoints, LoopPoints, RefreshPoints, ImportPoints, OtherPoints
<1>11. CASE Return(a) \/ ImportFails(a)
  BY <1>1, <1>10, <1>11 DEF Moves, Becomes, WithStatus
\* It goes on with the same file.
<1>12. ASSUME NEW p \in LoopPoints, q.pc \in LoopPoints, b.pc = p, b.task = t, b.todo = todo, b.row = q.row,
              p \in {"copy", "unstage", "commit", "recover", "recoverCommit"} => Exists(g)'
       PROVE  PlaceOK(a)'
  <2>1. p \in FilePoints /\ q.pc \in FilePoints /\ p \notin {"recommit", "probe", "removeAll"}
    BY <1>12 DEF FilePoints, LoopPoints
  <2>2. First(b.todo) = g
    BY <1>3, <1>12
  <2> QED
    BY <1>6, <1>7, <1>9, <1>12, <2>1, <2>2 DEF PlaceOK
<1>13. ASSUME NEW p \in LoopPoints, Goto(a, p), q.pc \in LoopPoints,
              p \in {"copy", "unstage", "commit", "recover", "recoverCommit"} => Exists(g)'
       PROVE  PlaceOK(a)'
  <2>1. Becomes(a, p, q.task, q.row, q.todo, q.own)
    BY <1>1, <1>13 DEF Moves, Points, RefreshPoints, ImportPoints, LoopPoints
  <2> QED
    BY <1>2, <1>3, <1>12, <1>13, <2>1 DEF Becomes
\* It goes on with the next file.
<1>14. ASSUME Continue(a), q.pc \in LoopPoints, There(t, g)' PROVE PlaceOK(a)'
  <2>1. PICK rest : rest = todo \ {g}
    OBVIOUS
  <2>2. PICK p \in {"removeAll", "statStaged"} : p = (IF rest = {} THEN "removeAll" ELSE "statStaged")
    OBVIOUS
  <2>3. Becomes(a, p, t, [q.row EXCEPT !.result = TRUE], rest, FALSE)
    BY <1>1, <1>2, <1>3, <1>14, <2>1, <2>2 DEF Moves
  <2>4. b.pc = p /\ b.task = t /\ b.todo = rest /\ b.row.staging = q.row.staging
    BY <1>1, <2>3 DEF Becomes, Actor, Row
  <2>5. \A f \in Files \ rest : There(t, f)'
    BY <1>7, <1>14, <2>1
  <2>6. p = "removeAll" => \A f \in Files : There(t, f)'
    BY <2>2, <2>5
  <2>7. q.pc \in FilePoints
    BY <1>14 DEF FilePoints
  <2> QED
    BY <1>6, <1>9, <2>2, <2>4, <2>5, <2>6, <2>7 DEF PlaceOK, FilePoints, LoopPoints
<1>15. ASSUME Succeed(a), \A f \in Files : Exists(f)' PROVE PlaceOK(a)'
  <2>1. b.pc = "update"
    BY <1>1, <1>15 DEF Moves, Becomes
  <2> QED
    BY <1>15, <2>1 DEF PlaceOK, FilePoints, LoopPoints
<1>16. CASE Tell(a)
  <2>1. PICK state \in Jobs : state = job[t]
    BY <1>2 DEF CopiesInv, TypeOK
  <2>2. state # "none" /\ (via = "native" => state # "paused")
    BY <1>2, <2>1 DEF CopiesInv, RowOK
  <2>3. CASE ~ Return(a)
    <3>1. Answered(state) /\ SetStatus(a, StatusOf(state), IF state = "complete" THEN Imports(q) ELSE "update")
      BY <1>2, <1>16, <2>1, <2>3 DEF Tell
    <3>2. PICK s \in Statuses : s = StatusOf(state)
      BY <2>2, <3>1, StatusIsTrue DEF CopiesInv
    <3>3. PICK p \in Points : p = (IF state = "complete" THEN Imports(q) ELSE "update")
      BY DEF Imports, Points, RefreshPoints, ImportPoints
    <3>4. Becomes(a, p, t, WithStatus(q.row, s), q.todo, q.own)
      BY <1>1, <1>2, <3>1, <3>2, <3>3 DEF Moves
    <3>5. b.pc = p /\ b.task = t /\ b.row.staging = q.row.staging
      BY <3>4 DEF Becomes, WithStatus
    <3>6. p \in {"update", "list", "commitNative"}
      BY <3>3 DEF Imports
    <3>7. p = "list" => \A f \in Files : f \in staged'[t] \/ There(t, f)'
      <4>1. p = "list" => \A f \in Files : f \in staged[t] \/ There(t, f)
        BY <1>2, <2>1, <3>3 DEF PlacedInv, Kept
      <4> QED
        BY <1>2, <1>5, <4>1, StagedOrThere
    <3> QED
      BY <1>9, <3>5, <3>6, <3>7 DEF PlaceOK, FilePoints, LoopPoints
  <2> QED
    BY <1>11, <2>3
<1>17. CASE Notify(a)
  BY <1>11, <1>17 DEF Notify
<1>18. ~ CommitNative(a)
  BY <1>1 DEF CommitNative, At, CopyOK
<1>19. CASE ListStaged(a)
  <2>1. q.pc = "list"
    BY <1>19 DEF ListStaged, At
  <2>2. q.pc \in FilePoints
    BY <2>1 DEF FilePoints
  <2>3. UNCHANGED staged
    BY <1>19 DEF ListStaged, import
  <2>4. CASE Goto(a, "probe") /\ staged[t] = {}
    <3>1. b.pc = "probe" /\ b.task = t /\ b.row = q.row
      BY <1>1, <1>2, <2>4 DEF Moves, Becomes, Points, RefreshPoints, ImportPoints
    <3>2. \A f \in Files : There(t, f)'
      BY <1>6, <2>2, <2>3, <2>4
    <3> QED
      BY <1>9, <3>1, <3>2 DEF PlaceOK, LoopPoints
  <2>5. CASE act' = [act EXCEPT ![a] = [@ EXCEPT !.pc = "statStaged", !.todo = staged[q.task]]]
    <3>1. b.pc = "statStaged" /\ b.task = t /\ b.row = q.row /\ b.todo = staged[t]
      BY <1>1, <1>2, <2>5 DEF Actor
    <3>2. \A f \in Files \ b.todo : There(t, f)'
      BY <1>6, <2>2, <2>3, <3>1
    <3> QED
      BY <1>6, <1>9, <2>2, <3>1, <3>2 DEF PlaceOK
  <2> QED
    BY <1>2, <1>11, <1>19, <2>4, <2>5 DEF ListStaged
<1>20. CASE Probe(a)
  <2>1. \A f \in Files : There(t, f)'
    BY <1>1, <1>2, <1>5, <1>20 DEF Probe, At, PlaceOK
  <2>2. CASE Goto(a, "recommit")
    <3>1. b.pc = "recommit" /\ b.task = t /\ b.row = q.row
      BY <1>1, <1>2, <2>2 DEF Moves, Becomes, Points, RefreshPoints, ImportPoints
    <3> QED
      BY <1>9, <2>1, <3>1 DEF PlaceOK, LoopPoints
  <2> QED
    BY <1>11, <1>20, <2>2 DEF Probe
<1>21. CASE Recommit(a) \/ RemoveAll(a)
  <2>1. \A f \in Files : Exists(f)'
    BY <1>1, <1>5, <1>21 DEF Recommit, RemoveAll, At, PlaceOK, There
  <2> QED
    BY <1>11, <1>15, <1>21, <2>1 DEF Recommit, RemoveAll
<1>22. CASE StatStaged(a) \/ Stat(a)
  <2>1. q.pc \in LoopPoints
    BY <1>22 DEF StatStaged, Stat, At, LoopPoints
  <2>2. Goto(a, "recover") /\ Exists(g) => PlaceOK(a)'
    BY <1>4, <1>5, <1>13, <2>1 DEF LoopPoints
  <2>3. Goto(a, "stat") \/ Goto(a, "move") => PlaceOK(a)'
    BY <1>13, <2>1 DEF LoopPoints
  <2> QED
    BY <1>3, <1>11, <1>22, <2>2, <2>3 DEF StatStaged, Stat
<1>23. CASE Move(a)
  <2>1. q.pc \in LoopPoints
    BY <1>23 DEF Move, At, LoopPoints
  <2>2. CASE ~ ImportFails(a)
    <3>1. target' = [target EXCEPT ![g] = [of |-> t, whole |-> place # "copy"]]
      BY <1>2, <1>3, <1>23, <2>2 DEF Move
    <3>2. Exists(g)'
      <4>1. target'[g].of = t
        BY <1>4, <2>1, <3>1 DEF CopiesInv, TypeOK
      <4> QED
        BY <4>1, TaskAssumption DEF Exists, NoFile
    <3>3. Goto(a, "commit") \/ Goto(a, "copy")
      BY <1>23, <2>2 DEF Move
    <3> QED
      BY <1>13, <2>1, <3>2, <3>3 DEF LoopPoints
  <2> QED
    BY <1>11, <2>2
<1>24. CASE Copy(a) \/ Unstage(a)
  <2>1. q.pc \in LoopPoints /\ Exists(g)'
    BY <1>8, <1>24 DEF Copy, Unstage, At, LoopPoints
  <2> QED
    BY <1>11, <1>13, <1>24, <2>1 DEF Copy, Unstage, LoopPoints
<1>25. ASSUME q.pc \in {"commit", "recover", "recoverCommit"}, g \in node' PROVE There(t, g)'
  BY <1>8, <1>25 DEF There, Handled
<1>26. CASE Commit(a)
  <2>1. q.pc = "commit" /\ q.pc \in LoopPoints
    BY <1>26 DEF Commit, At, LoopPoints
  <2>2. CASE act' = [act EXCEPT ![a] = [@ EXCEPT !.pc = "recover", !.own = TRUE]]
    <3>1. b.pc = "recover" /\ b.task = t /\ b.row = q.row /\ b.todo = todo
      BY <1>1, <1>2, <1>3, <2>2 DEF Actor
    <3> QED
      BY <1>8, <1>12, <2>1, <3>1 DEF LoopPoints
  <2>3. CASE Continue(a) /\ node' = node \cup {g}
    BY <1>14, <1>25, <2>1, <2>3
  <2> QED
    BY <1>3, <1>11, <1>26, <2>2, <2>3 DEF Commit
<1>27. CASE Recover(a) \/ RecoverCommit(a)
  <2>1. q.pc \in {"recover", "recoverCommit"} /\ q.pc \in LoopPoints
    BY <1>27 DEF Recover, RecoverCommit, At, LoopPoints
  <2>2. CASE Continue(a) /\ g \in node'
    BY <1>14, <1>25, <2>1, <2>2
  <2>3. CASE Goto(a, "recoverCommit")
    BY <1>8, <1>13, <2>1, <2>3 DEF LoopPoints
  <2> QED
    BY <1>3, <1>11, <1>27, <2>2, <2>3 DEF Recover, RecoverCommit
<1> QED
  BY <1>16, <1>17, <1>18, <1>19, <1>20, <1>21, <1>22, <1>23, <1>24, <1>26, <1>27 DEF Refreshes

LEMMA RouteStays == [Next]_vars => UNCHANGED route
BY DEF Next, vars

\* Only a completion completes a job.
LEMMA CompletedBy ==
    ASSUME CopiesInv, [Next]_vars, NEW t \in Tasks, job'[t] = "complete", job[t] # "complete"
    PROVE  JobCompletes(t)
<1>1. job \in [Tasks -> Jobs]
  BY DEF CopiesInv, TypeOK
<1>2. ~ UNCHANGED job
  OBVIOUS
<1>3. ASSUME NEW a \in Actors, Step(a) PROVE FALSE
  <2>1. CASE Refreshes(a) \/ Writes(a)
    BY <1>2, <2>1, RefreshesAreTyped, WritesAre
  <2>2. CASE Creates(a)
    BY <1>1, <2>2 DEF Creates, AddURI, CreateRow, NativeRow, Withdraw, Added
  <2>3. CASE Drives(a)
    BY <1>1, <2>3 DEF Drives, CancelRemove, CancelDelete, PauseJob, ResumeJob
  <2> QED
    BY <1>3, <2>1, <2>2, <2>3, StepIs
<1>4. ASSUME NEW a \in Actors, NEW u \in Tasks, Begin(a, u) PROVE FALSE
  BY <1>1, <1>4 DEF Begin, RefreshRead, CreateStaging, CreateNative, CancelRead, PauseRead, ResumeRead, Added
<1>5. ASSUME NEW u \in Tasks, JobStep(u) \/ JobFails(u) PROVE JobCompletes(t)
  BY <1>1, <1>5 DEF JobStep, JobStarts, JobCompletes, JobFails
<1> QED
  BY <1>2, <1>3, <1>4, <1>5 DEF Next, Crash, vars

\* An actor is as it was, or it took the step, or the process has died.
LEMMA ActorIs ==
    ASSUME CopiesInv, [Next]_vars, NEW a \in Actors
    PROVE  act'[a] = act[a] \/ Acts(a) \/ (Crash /\ act'[a] = Idle)
<1>1. CASE \E b \in Actors : Acts(b)
  BY <1>1, OthersStay DEF CopiesInv
<1>2. CASE Crash
  BY <1>2 DEF Crash
<1>3. CASE UNCHANGED act
  BY <1>3
<1> QED
  BY <1>1, <1>2, <1>3 DEF Next, vars, Acts, JobStep, JobStarts, JobCompletes, JobFails

\* The staging directory of a task on which no actor takes a step
LEMMA StagedElsewhere ==
    ASSUME CopiesInv, [Next]_vars, NEW t \in Tasks,
           \A a \in Actors : Step(a) => act[a].task # t
    PROVE  staged'[t] = staged[t] \/ JobCompletes(t)
<1>1. staged \in [Tasks -> SUBSET Files]
  BY SMTT(60) DEF CopiesInv, TypeOK
<1>2. ASSUME NEW a \in Actors, Refreshes(a) PROVE staged'[t] = staged[t]
  <2>1. act[a].task # t
    BY <1>2, StepIs
  <2> QED
    BY <1>1, <1>2, <2>1, ZenonT(60)
    DEF Refreshes, CommitNative, ListStaged, Probe, Recommit, StatStaged, Stat, Move, Copy, Unstage, Commit,
        Recover, RecoverCommit, RemoveAll, Tell, Notify, import, RemoveStaging, DropStaged
<1>3. ASSUME NEW a \in Actors, Creates(a) PROVE staged'[t] = staged[t]
  BY <1>3, StepIs, CreatesAre
<1>4. ASSUME NEW a \in Actors, Writes(a) \/ Drives(a) PROVE UNCHANGED staged
  BY <1>4, WritesAre DEF Drives, CancelRemove, CancelDelete, PauseJob, ResumeJob, import
<1>5. ASSUME NEW a \in Actors, NEW u \in Tasks, Begin(a, u) PROVE UNCHANGED staged
  BY <1>5 DEF Begin, RefreshRead, CreateStaging, CreateNative, CancelRead, PauseRead, ResumeRead, import
<1>6. ASSUME NEW u \in Tasks, JobStep(u) \/ JobFails(u) PROVE staged'[t] = staged[t] \/ JobCompletes(t)
  BY <1>1, <1>6 DEF JobStep, JobStarts, JobCompletes, JobFails, import
<1> QED
  BY <1>2, <1>3, <1>4, <1>5, <1>6, StepIs DEF Next, Crash, vars, import

\* A completed download whose task has its row, or is about to get it
LEMMA KeptIsPlaced ==
    ASSUME CopiesInv, PlacedInv, [Next]_vars, via # "native",
           NEW t \in Tasks, job'[t] = "complete", Kept(t)', NEW f \in Files
    PROVE  f \in staged'[t] \/ There(t, f)'
<1>1. CASE JobCompletes(t)
  BY <1>1 DEF JobCompletes, CopiesInv, TypeOK
<1>2. CASE ~ JobCompletes(t)
  <2>1. job[t] = "complete"
    BY <1>2, CompletedBy
  <2>2. TypeOK /\ RowOK(t)
    BY DEF CopiesInv
  <2>3. CASE Present(t)
    <3>1. f \in staged[t] \/ There(t, f)
      BY <2>1, <2>3 DEF PlacedInv, Kept
    <3> QED
      BY <2>3, <3>1, StagedOrThere, ThereStays
  <2>4. CASE ~ Present(t)
    <3>1. row[t] = NoRow
      BY <2>2, <2>4 DEF RowOK
    <3>2. ASSUME NEW a \in Actors, On(a, t, {"createRow"}), staged'[t] = staged[t]
          PROVE  f \in staged'[t] \/ There(t, f)'
      BY <2>1, <3>2, ThereStays DEF PlacedInv, Kept
    <3>3. CASE Present(t)'
      <4>1. row'[t] # NoRow
        BY <3>3 DEF Present, NoRow, Statuses, Terminal
      <4>2. ~ UNCHANGED row
        BY <3>1, <4>1
      <4>3. ASSUME NEW a \in Actors, Writes(a) PROVE FALSE
        <5>1. act[a].task = t
          BY <3>1, <4>1, <4>3, WritesAre
        <5>2. Present(act[a].task)
          BY <4>3, WritesAre DEF CopiesInv, ActorOK
        <5> QED
          BY <2>4, <5>1, <5>2
      <4>4. PICK a \in Actors : Creates(a)
        BY <4>2, <4>3, RowsBy
      <4>5. act[a].task = t /\ At(a, "createRow") /\ UNCHANGED staged
        BY <3>1, <4>1, <4>4, CreatesAre
      <4> QED
        BY <3>2, <4>5 DEF On, At
    <3>4. CASE ~ Present(t)'
      <4>1. PICK b \in Actors : On(b, t, {"createRow"})'
        BY <3>4 DEF Kept
      <4>2. CASE act'[b] = act[b] /\ ~ Step(b)
        <5>1. On(b, t, {"createRow"})
          BY <4>1, <4>2 DEF On
        <5>2. \A a \in Actors \ {b} : act[a].task # t
          BY <5>1 DEF CopiesInv, ActorOK, Creating, CreatePoints, On
        <5> QED
          BY <1>2, <3>2, <4>2, <5>1, <5>2, StagedElsewhere
      <4>3. CASE Step(b)
        <5>1. Moves(b) /\ act'[b].pc = "createRow"
          BY <2>2, <4>1, ActorsMove DEF On
        <5>2. ~ Refreshes(b)
          BY <5>1, RouteStays, RefreshesGoOn DEF GoesOn, RefreshPoints, ImportPoints, OtherPoints
        <5>3. ~ Writes(b)
          BY <5>1, WritesAre DEF Becomes
        <5>4. ~ Drives(b)
          BY <5>1, DrivesAre DEF Becomes
        <5>5. Creates(b)
          BY <4>3, <5>2, <5>3, <5>4, StepIs
        <5>6. ~ Return(b) /\ ~ Goto(b, "withdraw")
          BY <5>1 DEF Moves, Becomes, Points, CreatePoints
        <5>7. AddURI(b) /\ job' = Added(act[b].task) /\ Goto(b, "createRow")
          BY <5>5, <5>6 DEF Creates, AddURI, CreateRow, NativeRow, Withdraw
        <5>8. act[b].task = t
          BY <4>1, <5>1, <5>7 DEF Moves, Becomes, On, Points, CreatePoints
        <5> QED
          BY <2>2, <5>7, <5>8 DEF Added, TypeOK
      <4>4. CASE \E u \in Tasks : Begin(b, u)
        BY <4>1, <4>4, BeginsAre DEF On, Free, Becomes
      <4>5. CASE act'[b] = Idle
        BY <4>1, <4>5 DEF On, Idle
      <4> QED
        BY <4>2, <4>3, <4>4, <4>5, ActorIs DEF Acts
    <3> QED
      BY <3>3, <3>4
  <2> QED
    BY <2>3, <2>4
<1> QED
  BY <1>1, <1>2

LEMMA PlacedKept ==
    ASSUME CopiesInv, CopiesInv', PlacedInv, [Next]_vars
    PROVE  PlacedInv'
<1> SUFFICES ASSUME via # "native"
             PROVE  /\ \A t \in Tasks : job'[t] = "complete" /\ Kept(t)' =>
                          \A f \in Files : f \in staged'[t] \/ There(t, f)'
                    /\ \A t \in Tasks : Present(t)' /\ ~ row'[t].staging => \A f \in Files : Exists(f)'
                    /\ \A a \in Actors : PlaceOK(a)'
  BY RouteStays DEF PlacedInv, via
<1>1. UNCHANGED route /\ TypeOK
  BY RouteStays DEF CopiesInv
<1>2. /\ \A f \in Files : Exists(f) => Exists(f)'
      /\ \A t \in Tasks, f \in Files : There(t, f) => There(t, f)'
  BY ExistsStays, ThereStays
<1>3. ASSUME NEW t \in Tasks, Present(t)', ~ row'[t].staging, NEW f \in Files PROVE Exists(f)'
  <2>1. CASE row'[t] = row[t]
    BY <1>2, <1>3, <2>1 DEF PlacedInv, Present
  <2>2. CASE \E a \in Actors : Writes(a)
    <3>1. PICK a \in Actors : Writes(a)
      BY <2>2
    <3>2. CASE row'[t] = act[a].row /\ Working(a)
      BY <1>2, <1>3, <3>2 DEF PlacedInv, PlaceOK
    <3> QED
      BY <2>1, <3>1, <3>2, WritesAre
  <2>3. CASE \E a \in Actors : Creates(a)
    <3>1. row'[t] = row[t] \/ row'[t] = NoRow \/ ~ row'[t].result
      BY <2>3, CreatesAre
    <3>2. row'[t] # NoRow /\ (row'[t].staging \/ row'[t].result)
      BY <1>1, <1>3 DEF CopiesInv, RowOK, Present, NoRow, Statuses, Terminal, StagingOK, via
    <3> QED
      BY <1>3, <2>1, <3>1, <3>2
  <2>4. CASE ~ \E a \in Actors : Writes(a) \/ Creates(a)
    BY <2>1, <2>4, RowsBy
  <2> QED
    BY <2>2, <2>3, <2>4
<1>4. ASSUME NEW a \in Actors PROVE PlaceOK(a)'
  <2> DEFINE q == act[a]
             b == act'[a]
  <2>1. PlaceOK(a)
    BY DEF PlacedInv
  <2>2. CASE b.pc \notin FilePoints /\ (Working(a)' => b.row.staging \/ \A f \in Files : Exists(f)')
    BY <2>2 DEF PlaceOK, FilePoints, LoopPoints
  <2>3. CASE b = q
    <3>1. PICK t, todo : t = q.task /\ todo = q.todo
      OBVIOUS
    <3>2. q.pc \in FilePoints => t \in Tasks /\ Present(t)
      BY <3>1 DEF CopiesInv, ActorOK, Working, FilePoints, LoopPoints, RefreshPoints, ImportPoints, OtherPoints
    <3>3. q.pc \in FilePoints => \A f \in Files : f \in staged'[t] \/ There(t, f)'
      <4>1. q.pc \in FilePoints => \A f \in Files : f \in staged[t] \/ There(t, f)
        BY <2>1, <3>1 DEF PlaceOK
      <4> QED
        BY <1>2, <3>2, <4>1, StagedOrThere
    <3>4. q.pc \in LoopPoints => \A f \in Files \ todo : There(t, f)'
      <4>1. q.pc \in LoopPoints => \A f \in Files \ todo : There(t, f)
        BY <2>1, <3>1 DEF PlaceOK
      <4> QED
        BY <1>2, <3>2, <4>1 DEF FilePoints
    <3>5. q.pc \in {"recommit", "probe", "removeAll"} => \A f \in Files : There(t, f)'
      <4>1. q.pc \in {"recommit", "probe", "removeAll"} => \A f \in Files : There(t, f)
        BY <2>1, <3>1 DEF PlaceOK
      <4> QED
        BY <1>2, <3>2, <4>1 DEF FilePoints
    <3>6. PICK g : g = First(q.todo)
      OBVIOUS
    <3>7. q.pc \in LoopPoints => g \in Files
      <4>1. q.pc \in LoopPoints => q.todo \in SUBSET Files /\ q.todo # {}
        BY <1>1 DEF CopiesInv, ActorOK, TypeOK, Actor, Working, CopyOK, LoopPoints, RefreshPoints, ImportPoints
      <4> QED
        BY <3>6, <4>1, FirstIsIn, SMTT(60)
    <3>8. q.pc \in {"copy", "unstage", "commit", "recover", "recoverCommit"} => Exists(g)'
      BY <1>2, <2>1, <3>6, <3>7 DEF PlaceOK, LoopPoints
    <3>9. Working(a) /\ ~ q.row.staging => \A f \in Files : Exists(f)'
      BY <1>2, <2>1 DEF PlaceOK
    <3>10. First(b.todo) = g /\ b.task = t /\ b.todo = todo
      BY <2>3, <3>1, <3>6
    <3> QED
      BY <2>3, <3>3, <3>4, <3>5, <3>8, <3>9, <3>10 DEF PlaceOK, Working
  <2>4. CASE b = Idle
    <3>1. b.pc = "idle"
      BY <2>4 DEF Idle
    <3> QED
      BY <2>2, <3>1 DEF Working, FilePoints, LoopPoints, RefreshPoints, ImportPoints, OtherPoints
  <2>5. CASE Step(a)
    <3>1. Moves(a)
      BY <1>1, ActorsMove
    <3>2. CASE Writes(a)
      <4>1. Working(a)
        BY <3>2, WritesAre
      <4>2. b.pc \in {"idle", "notify", "cancelRemove"} /\ (b.pc = "idle" \/ b.row = q.row)
        BY <3>2, WritesAre DEF Becomes
      <4>3. q.row.staging \/ \A f \in Files : Exists(f)'
        BY <1>2, <2>1, <4>1 DEF PlaceOK
      <4> QED
        BY <2>2, <4>2, <4>3 DEF Working, FilePoints, LoopPoints, RefreshPoints, ImportPoints, OtherPoints
    <3>3. CASE Creates(a)
      <4>1. Return(a) \/ Goto(a, "withdraw") \/ Goto(a, "createRow")
        BY <3>3 DEF Creates, AddURI, CreateRow, NativeRow, Withdraw
      <4>2. b.pc \in {"idle", "withdraw", "createRow"}
        BY <3>1, <4>1 DEF Moves, Becomes, Points, CreatePoints
      <4> QED
        BY <2>2, <4>2 DEF Working, FilePoints, LoopPoints, RefreshPoints, ImportPoints, OtherPoints
    <3>4. CASE Drives(a)
      <4>1. Working(a)
        BY <3>4, DrivesAre
      <4>2. b.pc = "idle" \/ (b.pc \in OtherPoints /\ \E s : b.row = WithStatus(q.row, s))
        <5>1. q.row \in Row
          BY <1>1 DEF TypeOK, Actor
        <5>2. q.row = WithStatus(q.row, q.row.status)
          BY <5>1 DEF Row, WithStatus
        <5> QED
          BY <3>4, <5>2, DrivesAre, ZenonT(60) DEF Becomes, OtherPoints
      <4>3. \A s : WithStatus(q.row, s).staging = q.row.staging
        BY DEF WithStatus
      <4>4. b.pc = "idle" \/ (b.pc \in OtherPoints /\ (q.row.staging => b.row.staging))
        BY <4>2, <4>3
      <4>5. q.row.staging \/ \A f \in Files : Exists(f)'
        BY <1>2, <2>1, <4>1 DEF PlaceOK
      <4> QED
        BY <2>2, <4>4, <4>5 DEF Working, FilePoints, LoopPoints, RefreshPoints, ImportPoints, OtherPoints
    <3> QED
      BY <1>1, <2>5, <3>2, <3>3, <3>4, RefreshIsPlaced, StepIs
  <2>6. CASE \E t \in Tasks : Begin(a, t)
    <3>1. PICK t \in Tasks : Begin(a, t)
      BY <2>6
    <3>2. CASE b.pc \in {"addURI", "createRow"}
      BY <2>2, <3>2 DEF Working, FilePoints, LoopPoints, RefreshPoints, ImportPoints, OtherPoints
    <3>3. CASE /\ Present(t) /\ b.pc \in {"tell", "cancelUpdate", "pauseJob", "resumeJob"}
               /\ Follows(b.row, row[t]) /\ b.row.status \in Statuses
      <4>1. row[t].staging \/ \A f \in Files : Exists(f)'
        BY <1>2, <3>3 DEF PlacedInv
      <4>2. row[t] \in Row /\ b.row # NoRow
        BY <1>1, <3>3 DEF TypeOK, NoRow, Statuses, Terminal
      <4>3. b.row.staging <=> row[t].staging
        BY <3>3, <4>2, FollowsIs
      <4> QED
        BY <2>2, <3>3, <4>1, <4>3 DEF FilePoints, LoopPoints
    <3> QED
      BY <2>3, <3>1, <3>2, <3>3, BeginsAre, ZenonT(60) DEF Becomes
  <2> QED
    BY <2>3, <2>4, <2>5, <2>6, ActorIs DEF Acts
<1> QED
  BY <1>3, <1>4, KeptIsPlaced


\* A copy that is under way ends well, or it fails, or the process dies.
LEMMA CopyGoesOn ==
    ASSUME CopiesInv, [Next]_vars, NEW a \in Actors, NEW f \in Files, CopyAt(a, f)
    PROVE  CopyAt(a, f)' \/ ~ Unharmed({"fs", "crash"})' \/ target'[f].whole
<1>1. CASE act'[a] = act[a]
  BY <1>1 DEF CopyAt
<1>2. CASE Crash
  BY <1>2 DEF Crash, Fault, Unharmed
<1>3. CASE Acts(a)
  <2>1. ~ \E t \in Tasks : Begin(a, t)
    BY DEF CopyAt, Begin, RefreshRead, CreateStaging, CreateNative, CancelRead, PauseRead, ResumeRead, Free
  <2>2. Copy(a)
    BY <1>3, <2>1
    DEF CopyAt, Acts, Step, At, AddURI, CreateRow, NativeRow, Withdraw, CommitNative, Tell, RefreshUpdate, Notify,
        ListStaged, Probe, Recommit, StatStaged, Stat, Move, Commit, Unstage, Recover, RecoverCommit, RemoveAll,
        CancelUpdate, CancelRemove, CancelDelete, PauseJob, PauseUpdate, ResumeJob, ResumeUpdate
  <2>3. target \in [Files -> [of : Tasks \cup {NoTask}, whole : BOOLEAN]]
    BY DEF CopiesInv, TypeOK
  <2> QED
    BY <2>2, <2>3 DEF CopyAt, Copy, Fault, Unharmed
<1> QED
  BY <1>1, <1>2, <1>3, ActorIs

LEMMA TargetsKept ==
    ASSUME CopiesInv, TargetsInv, [Next]_vars
    PROVE  TargetsInv'
<1>1. TypeOK /\ target \in [Files -> [of : Tasks \cup {NoTask}, whole : BOOLEAN]] /\ UNCHANGED route
  BY RouteStays DEF CopiesInv, TypeOK
<1>2. place' = place /\ via' = via
  BY <1>1 DEF place, via
<1> DEFINE Good(f) == /\ target'[f].of \in Tasks
                      /\ target'[f].whole \/ /\ place' = "copy"
                                             /\ ~ Unharmed({"fs", "crash"})' \/ \E a \in Actors : CopyAt(a, f)'
<1> SUFFICES ASSUME NEW f \in Files, Exists(f)' PROVE Good(f)
  BY DEF TargetsInv
<1>3. CASE target'[f] = target[f]
  <2>1. Exists(f) /\ target[f].of \in Tasks
    BY <1>3 DEF Exists, TargetsInv
  <2>2. CASE target[f].whole
    BY <1>3, <2>1, <2>2
  <2>3. CASE ~ target[f].whole
    <3>1. place = "copy" /\ (~ Unharmed({"fs", "crash"}) \/ \E a \in Actors : CopyAt(a, f))
      BY <2>1, <2>3 DEF TargetsInv
    <3>2. ~ Unharmed({"fs", "crash"}) => ~ Unharmed({"fs", "crash"})'
      BY FaultsGrow DEF Unharmed
    <3>3. ASSUME NEW a \in Actors, CopyAt(a, f) PROVE CopyAt(a, f)' \/ ~ Unharmed({"fs", "crash"})'
      BY <1>3, <2>3, <3>3, CopyGoesOn
    <3> QED
      BY <1>2, <1>3, <2>1, <3>1, <3>2, <3>3
  <2> QED
    BY <2>2, <2>3
<1>4. ASSUME NEW a \in Actors, Move(a), target'[f] # target[f] PROVE Good(f)
  <2>1. Working(a) /\ act[a].task \in Tasks /\ act[a].pc = "move" /\ Moves(a)
    BY <1>1, <1>4, ActorsMove
    DEF CopiesInv, ActorOK, Move, At, Working, RefreshPoints, ImportPoints
  <2>2. PICK g, t : g = First(act[a].todo) /\ t = act[a].task
    OBVIOUS
  <2>3. PICK whole \in BOOLEAN : whole = (place # "copy")
    OBVIOUS
  <2>4. target' = [target EXCEPT ![g] = [of |-> t, whole |-> whole]]
        /\ Goto(a, IF whole THEN "commit" ELSE "copy")
    BY <1>4, <2>3, <2>2 DEF Move
  <2>5. f = g /\ target'[f].of = t /\ target'[f].whole = whole
    BY <1>1, <1>4, <2>4
  <2>6. ~ whole => Becomes(a, "copy", t, act[a].row, act[a].todo, act[a].own)
    BY <2>1, <2>2, <2>4 DEF Moves, Points, RefreshPoints, ImportPoints
  <2>7. ~ whole => CopyAt(a, f)'
    BY <2>2, <2>5, <2>6 DEF CopyAt, Becomes
  <2> QED
    BY <1>2, <2>3, <2>1, <2>2, <2>5, <2>7
<1>5. ASSUME NEW a \in Actors, Copy(a), target'[f] # target[f] PROVE Good(f)
  <2>1. act[a].task \in Tasks
    BY <1>5 DEF CopiesInv, ActorOK, Copy, At
  <2> QED
    BY <1>1, <1>5, <2>1 DEF Copy
<1>6. ASSUME NEW a \in Actors, CancelDelete(a), target'[f] # target[f] PROVE Good(f)
  BY <1>1, <1>6 DEF CancelDelete, Exists
<1>7. ASSUME NEW t \in Tasks, JobCompletes(t), target'[f] # target[f] PROVE Good(f)
  BY <1>1, <1>7 DEF JobCompletes
<1> QED
  BY <1>3, <1>4, <1>5, <1>6, <1>7, TargetsAre

-----------------------------------------------------------------------------
(* Why a file has no node *)

LEMMA ExplainedKept ==
    ASSUME CopiesInv, PlacedInv, ExplainedInv, [Next]_vars
    PROVE  ExplainedInv'
<1> SUFFICES ASSUME via # "native", "crash" \notin faults', NEW t \in Tasks, NEW f \in Files,
                    target'[f] = [of |-> t, whole |-> TRUE]
             PROVE  Explained(t, f)'
  BY RouteStays DEF ExplainedInv, via
<1>1. /\ TypeOK /\ "crash" \notin faults /\ ~ Crash
      /\ target \in [Files -> [of : Tasks \cup {NoTask}, whole : BOOLEAN]]
  BY FaultsGrow DEF CopiesInv, TypeOK, Crash, Fault
<1>2. Handled(t, f) => Explained(t, f)'
  <2>1. Handled(t, f)' => Explained(t, f)'
    BY DEF Handled, Explained, CommitAt, On
  <2> QED
    BY <2>1, HandledStays
<1>3. CASE target'[f] = target[f]
  <2>1. Explained(t, f)
    BY <1>1, <1>3 DEF ExplainedInv
  <2>2. ASSUME NEW a \in Actors, CommitAt(a, t, f, {"unstage"}) PROVE Explained(t, f)'
    <3>1. CASE act'[a] = act[a]
      BY <2>2, <3>1 DEF Explained, CommitAt, On
    <3>2. CASE Acts(a)
      <4>1. ~ \E u \in Tasks : Begin(a, u)
        BY <2>2, ZenonT(60) DEF CommitAt, On, Begin, RefreshRead, CreateStaging, CreateNative, CancelRead, PauseRead, ResumeRead, Free
      <4>2. Unstage(a)
        BY <2>2, <3>2, <4>1
        DEF CommitAt, On, Acts, Step, At, AddURI, CreateRow, NativeRow, Withdraw, CommitNative, Tell, RefreshUpdate, Notify,
            ListStaged, Probe, Recommit, StatStaged, Stat, Move, Copy, Commit, Recover, RecoverCommit, RemoveAll,
            CancelUpdate, CancelRemove, CancelDelete, PauseJob, PauseUpdate, ResumeJob, ResumeUpdate
      <4>3. CASE Goto(a, "commit")
        <5>1. Becomes(a, "commit", act[a].task, act[a].row, act[a].todo, act[a].own)
          BY <1>1, <4>3, ActorsMove DEF Moves, Points, RefreshPoints, ImportPoints
        <5> QED
          BY <2>2, <5>1 DEF Explained, CommitAt, On, Becomes
      \* Another refresh has removed the staged file, after it had put it in its place.
      <4>4. CASE f \notin staged[t]
        <5>1. PICK u : u = act[a].task
          OBVIOUS
        <5>2. PlaceOK(a) /\ u = t /\ act[a].pc \in FilePoints
          BY <2>2, <5>1 DEF PlacedInv, CommitAt, On, FilePoints, LoopPoints
        <5>3. There(t, f)
          BY <4>4, <5>1, <5>2 DEF PlaceOK
        <5> QED
          BY <1>1, <1>2, <5>3 DEF There
      <4> QED
        BY <2>2, <4>2, <4>3, <4>4, SMTT(60) DEF Unstage, CommitAt, On
    <3> QED
      BY <1>1, <3>1, <3>2, ActorIs
  <2> QED
    BY <1>2, <2>1, <2>2 DEF Explained, Handled, CommitAt, On
<1>4. ASSUME NEW a \in Actors, Move(a) \/ Copy(a), target'[f] # target[f] PROVE Explained(t, f)'
  <2>1. PICK g, u : g = First(act[a].todo) /\ u = act[a].task
    OBVIOUS
  <2>2. \E p \in {"unstage", "commit"} : Goto(a, p) /\ \E w : target' = [target EXCEPT ![g] = [of |-> u, whole |-> w]]
    <3>1. CASE Copy(a)
      BY <1>4, <2>1, <3>1 DEF Copy
    <3>2. CASE Move(a)
      <4>1. PICK whole \in BOOLEAN : whole = (place # "copy")
        OBVIOUS
      <4>2. /\ target' = [target EXCEPT ![g] = [of |-> u, whole |-> whole]]
            /\ Goto(a, IF whole THEN "commit" ELSE "copy")
        BY <1>4, <2>1, <3>2, <4>1 DEF Move
      <4>3. whole
        BY <1>1, <1>4, <4>2
      <4> QED
        BY <4>2, <4>3
    <3> QED
      BY <1>4, <3>1, <3>2
  <2>3. PICK p \in {"unstage", "commit"} : Goto(a, p) /\ \E w : target' = [target EXCEPT ![g] = [of |-> u, whole |-> w]]
    BY <2>2
  <2>4. f = g /\ u = t
    BY <1>1, <1>4, <2>3
  <2>5. Becomes(a, p, act[a].task, act[a].row, act[a].todo, act[a].own)
    BY <1>1, <2>3, ActorsMove DEF Moves, Points, RefreshPoints, ImportPoints
  <2> QED
    BY <2>1, <2>4, <2>5 DEF Explained, CommitAt, On, Becomes
<1> QED
  BY <1>3, <1>4, TargetsAre DEF CancelDelete

-----------------------------------------------------------------------------
(* Where results come from *)

LEMMA CommittedStays == [Next]_vars /\ Committed => Committed'
<1>1. [Next]_vars => UNCHANGED route /\ node \subseteq node'
  BY RouteStays, RecordsGrow
<1> QED
  BY <1>1 DEF Committed, Objects, via

\* A copy gets its result when its actor has committed a file.
LEMMA ResultIsCommitted ==
    ASSUME CopiesInv, ResultInv, NEW a \in Actors, Step(a), [Next]_vars, act'[a].row.result
    PROVE  Committed'
<1> DEFINE q == act[a]
<1>1. TypeOK /\ q.row \in Row /\ UNCHANGED route
  BY RouteStays DEF CopiesInv, TypeOK, Actor
<1>2. CASE q.row.result
  BY <1>2, CommittedStays DEF ResultInv
<1>3. CASE Commits(a)
  <2>1. Working(a) /\ CopyOK(q.pc, q.row, q.todo)
    BY <1>3
    DEF CopiesInv, ActorOK, Working, RefreshPoints, OtherPoints, ImportPoints, Commits, At
  <2>2. CASE At(a, "commitNative") /\ node' = node \cup Objects
    <3>1. Objects # {} /\ UNCHANGED Objects
      BY <1>1, TaskAssumption DEF Objects, via
    <3> QED
      BY <2>2, <3>1 DEF Committed
  <2>3. CASE At(a, "removeAll")
    BY <1>2, <2>1, <2>3 DEF CopyOK, At
  <2>4. CASE node' # {} /\ q.pc \in {"recommit", "commit", "recover", "recoverCommit"}
    BY <1>1, <2>1, <2>4 DEF CopyOK, FilePoints, LoopPoints, Committed, via
  <2> QED
    BY <1>3, <2>2, <2>3, <2>4 DEF Commits, At
<1> QED
  BY <1>1, <1>2, <1>3, CopyFollows, FollowsIs

LEMMA ResultKept ==
    ASSUME CopiesInv, ResultInv, [Next]_vars
    PROVE  ResultInv'
<1>1. TypeOK /\ (Committed => Committed')
  BY CommittedStays DEF CopiesInv
<1>2. ASSUME NEW t \in Tasks, row'[t].result PROVE Committed'
  <2>1. CASE row'[t] = row[t]
    BY <1>1, <1>2, <2>1 DEF ResultInv
  <2>2. ASSUME NEW a \in Actors, Writes(a) PROVE Committed'
    <3>1. row'[t] = row[t] \/ row'[t] = act[a].row
      BY <2>2, WritesAre
    <3> QED
      BY <1>1, <1>2, <2>1, <3>1, <2>2 DEF ResultInv
  <2>3. ASSUME NEW a \in Actors, Creates(a) PROVE row'[t] = row[t]
    BY <1>2, <2>3, CreatesAre DEF NoRow
  <2> QED
    BY <2>1, <2>2, <2>3, RowsBy
<1>3. ASSUME NEW a \in Actors, act'[a].row.result PROVE Committed'
  <2>1. CASE act'[a] = act[a]
    <3>1. act[a].row.result
      BY <1>3, <2>1
    <3> QED
      BY <1>1, <3>1 DEF ResultInv
  <2>2. CASE act'[a].row = NoRow
    BY <1>3, <2>2 DEF NoRow
  <2>3. ASSUME NEW t \in Tasks, Begin(a, t) PROVE Committed'
    <3>1. CASE Follows(act'[a].row, row[t])
      <4>1. row[t] \in Row
        BY <1>1 DEF TypeOK
      <4>2. row[t].result
        BY <1>3, <3>1, <4>1, FollowsIs, SMTT(60)
      <4> QED
        BY <1>1, <4>2 DEF ResultInv
    <3> QED
      BY <2>1, <2>2, <2>3, <3>1, BeginsAre
  <2> QED
    BY <1>3, <2>1, <2>2, <2>3, ResultIsCommitted, ActorIs DEF Acts, Idle
<1> QED
  BY <1>2, <1>3 DEF ResultInv

-----------------------------------------------------------------------------
(* Native downloads *)

\* Of a refresh, a native task has only these steps.
LEMMA NativeSteps ==
    ASSUME CopiesInv, via = "native", NEW a \in Actors, Refreshes(a)
    PROVE  Tell(a) \/ Notify(a) \/ CommitNative(a)
<1>1. CopyOK(act[a].pc, act[a].row, act[a].todo)
  BY RefreshesAreTyped DEF CopiesInv, ActorOK
<1>2. act[a].pc \notin FilePoints
  BY <1>1 DEF CopyOK
<1> QED
  BY <1>2
  DEF Refreshes, ListStaged, Probe, Recommit, StatStaged, Stat, Move, Copy, Unstage, Commit, Recover, RecoverCommit,
      RemoveAll, At, FilePoints, LoopPoints

LEMMA NativeTargets ==
    ASSUME CopiesInv, via = "native", [Next]_vars
    PROVE  UNCHANGED target \/ (\E a \in Actors : CancelDelete(a)) \/ \E t \in Tasks : JobCompletes(t)
<1>1. ASSUME NEW a \in Actors, Move(a) \/ Copy(a) PROVE FALSE
  <2>1. Refreshes(a)
    BY <1>1 DEF Refreshes
  <2> QED
    BY <1>1, <2>1, NativeSteps DEF Tell, Notify, CommitNative, Move, Copy, At
<1> QED
  BY <1>1, TargetsAre

LEMMA EndedStays ==
    ASSUME CopiesInv, via = "native", [Next]_vars, NEW t \in Tasks, NEW other \in {"complete", "error"},
           job[t] \in {other, "removed"}
    PROVE  job'[t] \in {other, "removed"}
<1>1. job \in [Tasks -> Jobs]
  BY DEF CopiesInv, TypeOK
<1>2. CASE UNCHANGED job
  BY <1>2
<1>3. ASSUME NEW a \in Actors, Step(a) PROVE job'[t] \in {other, "removed"}
  <2>1. CASE Refreshes(a) \/ Writes(a)
    BY <1>2, <2>1, RefreshesAreTyped, WritesAre
  <2>2. CASE Creates(a)
    <3>1. ~ AddURI(a)
      BY DEF AddURI, At, CopiesInv, ActorOK
    <3> QED
      BY <1>1, <2>2, <3>1 DEF Creates, CreateRow, NativeRow, Withdraw
  <2>3. CASE Drives(a)
    BY <1>1, <2>3 DEF Drives, CancelRemove, CancelDelete, PauseJob, ResumeJob
  <2> QED
    BY <1>3, <2>1, <2>2, <2>3, StepIs
<1>4. ASSUME NEW a \in Actors, NEW u \in Tasks, Begin(a, u) PROVE job'[t] \in {other, "removed"}
  BY <1>1, <1>4
  DEF Begin, RefreshRead, CreateStaging, CreateNative, CancelRead, PauseRead, ResumeRead, Added, Unused
<1>5. ASSUME NEW u \in Tasks, JobStep(u) \/ JobFails(u) PROVE job'[t] \in {other, "removed"}
  BY <1>1, <1>5 DEF JobStep, JobStarts, JobCompletes, JobFails
<1> QED
  BY <1>2, <1>3, <1>4, <1>5 DEF Next, Crash, vars

LEMMA NativeActors ==
    ASSUME CopiesInv, NativeInv, via = "native", [Next]_vars, NEW a \in Actors, Importing(act[a])'
    PROVE  act'[a].task \in Tasks /\ Ended(act[a].task)'
<1> DEFINE q == act[a]
           b == act'[a]
<1>1. TypeOK /\ UNCHANGED route /\ q \in Actor
  BY RouteStays DEF CopiesInv, TypeOK
<1>2. Importing(q) => q.task \in Tasks /\ Ended(q.task)
  BY DEF Importing, CopiesInv, ActorOK, NativeInv
<1>3. ASSUME NEW t \in Tasks, b.task = t, Ended(t) PROVE b.task \in Tasks /\ Ended(act[a].task)'
  BY <1>3, EndedStays DEF Ended
<1>4. CASE b = q
  BY <1>2, <1>3, <1>4
<1>5. ~ (b.pc = "idle")
  BY DEF Importing
<1>6. CASE Refreshes(a)
  <2>1. PICK t \in Tasks : t = q.task /\ CopyOK(q.pc, q.row, q.todo)
    BY <1>6, RefreshesAreTyped DEF CopiesInv, ActorOK, Working, RefreshPoints, OtherPoints, ImportPoints
  <2>2. Moves(a)
    BY <1>1, ActorsMove
  <2>3. CASE Notify(a)
    BY <1>5, <2>2, <2>3 DEF Notify, Moves, Becomes
  <2>4. CASE CommitNative(a)
    <3>1. Ended(t)
      BY <1>2, <2>1, <2>4 DEF CommitNative, At, Importing
    <3>2. Succeed(a) \/ ImportFails(a)
      BY <2>4 DEF CommitNative
    <3>3. b.task = t
      BY <2>1, <2>2, <3>2 DEF Moves, Becomes
    <3> QED
      BY <1>3, <3>1, <3>3
  <2>5. CASE Tell(a)
    <3>1. PICK state \in Jobs : state = job[t]
      BY <1>1 DEF TypeOK
    <3>2. state # "none" /\ state # "paused"
      <4>1. Present(t) /\ RowOK(t)
        BY <1>6, <2>1, RefreshesAreTyped DEF CopiesInv, ActorOK
      <4> QED
        BY <3>1, <4>1 DEF RowOK
    <3>3. ~ Return(a)
      BY <1>5, <2>2 DEF Moves, Becomes
    <3>4. Answered(state) /\ SetStatus(a, StatusOf(state), IF state = "complete" THEN Imports(q) ELSE "update")
      BY <2>1, <2>5, <3>1, <3>3 DEF Tell
    <3>5. PICK s \in Statuses : s = StatusOf(state)
      BY <1>1, <3>2, <3>4, StatusIsTrue
    <3>6. PICK p \in Points : p = (IF state = "complete" THEN Imports(q) ELSE "update")
      BY DEF Imports, Points, RefreshPoints, ImportPoints
    <3>7. Becomes(a, p, t, WithStatus(q.row, s), q.todo, q.own)
      BY <2>1, <2>2, <3>4, <3>5, <3>6 DEF Moves
    <3>8. b.task = t /\ b.pc = p /\ b.row.status = s
      BY <3>7 DEF Becomes, WithStatus
    <3>9. state = "complete"
      <4>1. p = "commitNative" => state = "complete"
        BY <3>6
      <4>2. s = "completed" => state = "complete"
        BY <1>1, <3>2, <3>4, <3>5, StatusIsTrue
      <4> QED
        BY <3>8, <4>1, <4>2 DEF Importing
    <3> QED
      BY <1>3, <3>1, <3>8, <3>9 DEF Ended
  <2> QED
    BY <1>6, <2>3, <2>4, <2>5, NativeSteps
<1>7. CASE Writes(a)
  <2>1. q.task \in Tasks /\ CopyOK(q.pc, q.row, q.todo)
    BY <1>7, WritesAre DEF CopiesInv, ActorOK
  <2>2. b.task = q.task /\ b.row = q.row /\ b.pc = "notify" /\ At(a, "update")
    BY <1>5, <1>7, WritesAre DEF Becomes, Importing
  <2>3. Importing(q)
    BY <2>2 DEF Importing, At
  <2> QED
    BY <1>2, <1>3, <2>2, <2>3
<1>8. CASE Drives(a)
  <2>1. b.task = q.task /\ b.row = q.row /\ b.pc = "notify"
    BY <1>5, <1>8, DrivesAre DEF Becomes, Importing
  <2>2. ~ Return(a)
    BY <1>1, <1>5, ActorsMove DEF Moves, Becomes
  <2>3. q.pc = "cancelRemove"
    <3>1. \A p, s : SetStatus(a, s, p) => b.pc = p
      BY <1>1 DEF TypeOK, SetStatus, Actor
    <3> QED
      BY <1>8, <2>1, <2>2, <3>1 DEF Drives, CancelRemove, CancelDelete, PauseJob, ResumeJob, At
  <2>4. q.row.status = "canceled"
    BY <2>3 DEF CopiesInv, ActorOK, Working, OtherPoints, CopyOK
  <2> QED
    BY <2>1, <2>4 DEF Importing
<1>9. CASE Creates(a)
  <2>1. Return(a) \/ Goto(a, "withdraw") \/ Goto(a, "createRow")
    BY <1>9 DEF Creates, AddURI, CreateRow, NativeRow, Withdraw
  <2>2. b.pc \in {"idle", "withdraw", "createRow"}
    BY <1>1, <2>1, ActorsMove DEF Moves, Becomes, Points, CreatePoints
  <2> QED
    BY <2>2 DEF Importing
<1>10. CASE \E t \in Tasks : Begin(a, t)
  BY <1>4, <1>10, BeginsAre DEF Becomes, Importing
<1> QED
  BY <1>4, <1>5, <1>6, <1>7, <1>8, <1>9, <1>10, ActorIs, StepIs DEF Acts, Idle

LEMMA NativeKept ==
    ASSUME CopiesInv, TargetsInv, NativeInv, [Next]_vars
    PROVE  NativeInv'
<1>1. TypeOK /\ UNCHANGED route /\ target \in [Files -> [of : Tasks \cup {NoTask}, whole : BOOLEAN]]
  BY RouteStays DEF CopiesInv, TypeOK
<1> SUFFICES ASSUME via = "native"
             PROVE  /\ \A f \in Files : Exists(f)' => f \in Objects' /\ Ended(target[f].of)'
                    /\ \A t \in Tasks : row'[t].status = "completed" => Ended(t)'
                    /\ \A a \in Actors : Importing(act[a])' => Ended(act[a].task)'
  BY <1>1 DEF NativeInv, via
<1>2. \A t \in Tasks : Ended(t) => Ended(t)'
  BY EndedStays DEF Ended
<1>3. Objects' = Objects
  BY <1>1 DEF Objects, via
<1>4. ASSUME NEW f \in Files, Exists(f)' PROVE f \in Objects' /\ Ended(target[f].of)'
  <2>1. CASE target'[f] = target[f]
    <3>1. PICK t : t = target[f].of
      OBVIOUS
    <3>2. f \in Objects /\ t \in Tasks /\ Ended(t)
      BY <1>4, <2>1, <3>1 DEF Exists, NativeInv, TargetsInv
    <3> QED
      BY <1>2, <1>3, <2>1, <3>1, <3>2
  <2>2. ASSUME NEW a \in Actors, CancelDelete(a) PROVE target'[f] = target[f]
    BY <1>1, <1>4, <2>2 DEF CancelDelete, Exists
  <2>3. ASSUME NEW t \in Tasks, JobCompletes(t), target'[f] # target[f]
        PROVE  f \in Objects' /\ Ended(target[f].of)'
    <3>1. f \in Objects /\ target'[f].of = t
      BY <1>1, <2>3 DEF JobCompletes
    <3>2. Ended(t)'
      BY <1>1, <2>3 DEF JobCompletes, Ended, TypeOK
    <3> QED
      BY <1>3, <3>1, <3>2
  <2> QED
    BY <2>1, <2>2, <2>3, NativeTargets
<1>5. ASSUME NEW t \in Tasks, row'[t].status = "completed" PROVE Ended(t)'
  <2>1. CASE row'[t] = row[t]
    BY <1>2, <1>5, <2>1 DEF NativeInv
  <2>2. ASSUME NEW a \in Actors, Writes(a), row'[t] # row[t] PROVE Ended(t)'
    <3>1. t = act[a].task /\ act[a].row.status = "completed" /\ Working(a)
      BY <1>5, <2>2, WritesAre
    <3>2. CopyOK(act[a].pc, act[a].row, act[a].todo)
      BY <3>1 DEF CopiesInv, ActorOK
    <3>3. act[a].pc = "update"
      BY <2>2, <3>1, <3>2 DEF Writes, RefreshUpdate, CancelUpdate, PauseUpdate, ResumeUpdate, At, CopyOK
    <3>4. Ended(t)
      BY <3>1, <3>3 DEF NativeInv, Importing
    <3> QED
      BY <1>2, <3>4
  <2>3. ASSUME NEW a \in Actors, Creates(a) PROVE row'[t] = row[t]
    BY <1>5, <2>3, CreatesAre DEF NoRow
  <2> QED
    BY <2>1, <2>2, <2>3, RowsBy
<1>6. ASSUME NEW a \in Actors, Importing(act[a])' PROVE Ended(act[a].task)'
  BY <1>6, NativeActors
<1> QED
  BY <1>4, <1>5, <1>6

LEMMA BlankStays ==
    ASSUME CopiesInv, via = "native", [Next]_vars, NEW t \in Tasks, Blank(t)
    PROVE  Blank(t)'
<1>1. target \in [Files -> [of : Tasks \cup {NoTask}, whole : BOOLEAN]]
  BY DEF CopiesInv, TypeOK
<1>2. CASE t \in journal
  BY <1>2, RecordsGrow DEF Blank
<1>3. CASE job[t] \in {"error", "removed"} /\ \A f \in Files : target[f].of # t
  <2>1. job'[t] \in {"error", "removed"}
    BY <1>3, EndedStays
  <2>2. ASSUME NEW f \in Files PROVE target'[f].of # t
    <3>1. ASSUME NEW a \in Actors, CancelDelete(a) PROVE target'[f] \in {target[f], NoFile}
      BY <1>1, <3>1 DEF CancelDelete
    <3>2. ASSUME NEW u \in Tasks, JobCompletes(u) PROVE target'[f] = target[f] \/ (target'[f].of = u /\ u # t)
      BY <1>1, <1>3, <3>2 DEF JobCompletes
    <3> QED
      BY <1>3, <3>1, <3>2, NativeTargets, TaskAssumption DEF NoFile
  <2> QED
    BY <2>1, <2>2 DEF Blank
<1> QED
  BY <1>2, <1>3 DEF Blank

\* A native refresh fails when the provider says so, or when its commit does.
LEMMA NativeFails ==
    ASSUME CopiesInv, NativeInv, via = "native", [Next]_vars, NEW a \in Actors, Refreshes(a),
           act'[a].row.status = "failed"
    PROVE  act'[a].task = act[a].task /\ (act[a].row.status = "failed" \/ Blank(act[a].task)')
<1> DEFINE q == act[a]
           b == act'[a]
<1>1. /\ TypeOK /\ q \in Actor /\ Moves(a)
      /\ target \in [Files -> [of : Tasks \cup {NoTask}, whole : BOOLEAN]]
  BY ActorsMove DEF CopiesInv, TypeOK
<1>2. PICK t \in Tasks : t = q.task /\ Present(t) /\ RowOK(t)
  BY RefreshesAreTyped DEF CopiesInv, ActorOK, Working, RefreshPoints, OtherPoints, ImportPoints
<1>3. ~ Return(a)
  BY <1>1 DEF Moves, Becomes, NoRow
<1>4. CASE Tell(a)
  <2>1. PICK state \in Jobs : state = job[t]
    BY <1>1 DEF TypeOK
  <2>2. state # "none" /\ state # "paused"
    BY <1>2, <2>1 DEF RowOK
  <2>3. Answered(state) /\ SetStatus(a, StatusOf(state), IF state = "complete" THEN Imports(q) ELSE "update")
        /\ UNCHANGED <<job, target>>
    BY <1>2, <1>3, <1>4, <2>1 DEF Tell, import
  <2>4. PICK s \in Statuses : s = StatusOf(state)
    BY <1>1, <2>2, <2>3, StatusIsTrue
  <2>5. PICK p \in Points : p = (IF state = "complete" THEN Imports(q) ELSE "update")
    BY DEF Imports, Points, RefreshPoints, ImportPoints
  <2>6. Becomes(a, p, t, WithStatus(q.row, s), q.todo, q.own)
    BY <1>1, <1>2, <2>3, <2>4, <2>5 DEF Moves
  <2>7. b.task = t /\ s = "failed"
    BY <2>6 DEF Becomes, WithStatus
  <2>8. state = "error"
    BY <1>1, <2>2, <2>3, <2>4, <2>7, StatusIsTrue
  <2>9. ASSUME NEW f \in Files, target[f].of = t PROVE FALSE
    <3>1. Exists(f)
      BY <2>9, TaskAssumption DEF Exists, NoFile
    <3>2. Ended(t)
      BY <2>9, <3>1 DEF NativeInv
    <3> QED
      BY <2>1, <2>8, <3>2 DEF Ended
  <2>10. Blank(t)'
    BY <2>1, <2>3, <2>8, <2>9 DEF Blank
  <2> QED
    BY <1>2, <2>7, <2>10
<1>5. CASE CommitNative(a)
  <2>1. Succeed(a) \/ (ImportFails(a) /\ t \in journal')
    BY <1>2, <1>5 DEF CommitNative, RecordFailure
  <2>2. Succeed(a) => b.task = t /\ b.row = Succeeded(q.row)
    BY <1>1, <1>2 DEF Moves, Becomes
  <2>3. Succeeded(q.row).status = q.row.status
    BY <1>1 DEF Succeeded, Actor, Row
  <2>4. ImportFails(a) => b.task = t
    BY <1>1, <1>2 DEF Moves, Becomes
  <2>5. t \in journal' => Blank(t)'
    BY DEF Blank
  <2> QED
    BY <1>2, <2>1, <2>2, <2>3, <2>4, <2>5
<1> QED
  BY <1>3, <1>4, <1>5, NativeSteps DEF Notify

LEMMA FailedKept ==
    ASSUME CopiesInv, NativeInv, FailedInv, [Next]_vars
    PROVE  FailedInv'
<1>1. TypeOK /\ UNCHANGED route
  BY RouteStays DEF CopiesInv
<1> SUFFICES ASSUME via = "native"
             PROVE  /\ \A t \in Tasks : row'[t].status = "failed" => Blank(t)'
                    /\ \A a \in Actors : act'[a].row.status = "failed" => act'[a].task \in Tasks /\ Blank(act[a].task)'
  BY <1>1 DEF FailedInv, via
<1>2. \A r : \A s \in {"paused", "running", "canceled"} : WithStatus(r, s).status # "failed"
  BY DEF WithStatus
<1>3. \A t \in Tasks : Blank(t) => Blank(t)'
  BY BlankStays
<1>4. \A a \in Actors : act[a].row.status = "failed" => act[a].task \in Tasks /\ Blank(act[a].task)
  BY DEF FailedInv
<1>5. ASSUME NEW t \in Tasks, row'[t].status = "failed" PROVE Blank(t)'
  <2>1. CASE row'[t] = row[t]
    BY <1>3, <1>5, <2>1 DEF FailedInv
  <2>2. ASSUME NEW a \in Actors, Writes(a), row'[t] # row[t] PROVE Blank(t)'
    <3>1. t = act[a].task /\ act[a].row.status = "failed"
      BY <1>5, <2>2, WritesAre
    <3> QED
      BY <1>3, <1>4, <3>1
  <2>3. ASSUME NEW a \in Actors, Creates(a) PROVE row'[t] = row[t]
    BY <1>5, <2>3, CreatesAre DEF NoRow
  <2> QED
    BY <2>1, <2>2, <2>3, RowsBy
<1>6. ASSUME NEW a \in Actors, act'[a].row.status = "failed" PROVE act'[a].task \in Tasks /\ Blank(act[a].task)'
  <2>1. ASSUME act'[a].task = act[a].task, act[a].row.status = "failed"
        PROVE  act'[a].task \in Tasks /\ Blank(act[a].task)'
    <3>1. PICK t \in Tasks : t = act[a].task /\ Blank(t)
      BY <1>4, <2>1
    <3> QED
      BY <1>3, <2>1, <3>1
  <2>2. CASE act'[a] = act[a]
    BY <1>6, <2>1, <2>2
  <2>3. CASE Refreshes(a)
    <3>1. PICK t \in Tasks : t = act[a].task
      BY <2>3, RefreshesAreTyped DEF CopiesInv, ActorOK, Working, RefreshPoints, OtherPoints, ImportPoints
    <3>2. act'[a].task = t /\ (act[a].row.status = "failed" \/ Blank(t)')
      BY <1>6, <2>3, <3>1, NativeFails
    <3> QED
      BY <2>1, <3>1, <3>2
  <2>4. act'[a].row # NoRow
    BY <1>6 DEF NoRow
  <2>5. CASE Writes(a)
    BY <1>6, <2>1, <2>4, <2>5, WritesAre DEF Becomes
  <2>6. CASE Drives(a)
    <3>1. \A s \in {"paused", "running"} : act'[a].row # WithStatus(act[a].row, s)
      BY <1>2, <1>6
    <3>2. act'[a].task = act[a].task /\ act'[a].row = act[a].row
      BY <2>4, <2>6, <3>1, DrivesAre DEF Becomes
    <3> QED
      BY <1>6, <2>1, <3>2
  <2>7. CASE Creates(a)
    <3>1. Return(a) \/ Goto(a, "withdraw") \/ Goto(a, "createRow")
      BY <2>7 DEF Creates, AddURI, CreateRow, NativeRow, Withdraw
    <3>2. act'[a].task = act[a].task /\ act'[a].row = act[a].row
      BY <1>1, <2>4, <3>1, ActorsMove DEF Moves, Becomes, Points, CreatePoints
    <3> QED
      BY <1>6, <2>1, <3>2
  <2>8. ASSUME NEW t \in Tasks, Begin(a, t) PROVE act'[a] = act[a]
    <3>1. act'[a].row # row[t] \/ row[t].status \in Terminal
      BY <1>6 DEF Terminal
    <3>2. act'[a].row # WithStatus(row[t], "canceled")
      BY <1>2, <1>6
    <3> QED
      BY <2>4, <2>8, <3>1, <3>2, BeginsAre DEF Becomes
  <2> QED
    BY <2>2, <2>3, <2>4, <2>5, <2>6, <2>7, <2>8, ActorIs, StepIs DEF Acts, Idle
<1> QED
  BY <1>5, <1>6

\* With one task, nothing but its own deletion takes a native download away.
LEMMA AloneKept ==
    ASSUME CopiesInv, AloneInv, [Next]_vars, \A s, t \in Tasks : s = t
    PROVE  AloneInv'
<1>1. /\ TypeOK /\ UNCHANGED route /\ job \in [Tasks -> Jobs]
      /\ target \in [Files -> [of : Tasks \cup {NoTask}, whole : BOOLEAN]]
  BY RouteStays DEF CopiesInv, TypeOK
<1>2. Objects' = Objects /\ Objects \subseteq Files
  <2>1. First(Files) \in Files
    BY FirstIsIn, TaskAssumption
  <2> QED
    BY <1>1, <2>1 DEF Objects, via
<1> SUFFICES ASSUME via = "native", NEW t \in Tasks, job'[t] = "complete", NEW f \in Objects
             PROVE  target'[f] = [of |-> t, whole |-> TRUE]
  BY <1>1, <1>2 DEF AloneInv, via
<1>3. CASE JobCompletes(t)
  BY <1>1, <1>2, <1>3 DEF JobCompletes
<1>4. CASE ~ JobCompletes(t)
  <2>1. job[t] = "complete"
    BY <1>4, CompletedBy
  <2>2. target[f] = [of |-> t, whole |-> TRUE]
    BY <2>1 DEF AloneInv
  <2>3. ASSUME NEW u \in Tasks, JobCompletes(u) PROVE FALSE
    BY <1>4, <2>3
  <2>4. ASSUME NEW a \in Actors, CancelDelete(a) PROVE FALSE
    <3>1. act[a].task \in Tasks
      BY <2>4 DEF CancelDelete, At, CopiesInv, ActorOK
    <3>2. act[a].task = t
      BY <3>1
    <3> QED
      BY <1>1, <2>4, <3>2 DEF CancelDelete
  <2> QED
    BY <2>2, <2>3, <2>4, NativeTargets
<1> QED
  BY <1>3, <1>4

-----------------------------------------------------------------------------
(* The theorems *)

SafeInv == /\ CopiesInv /\ ToldInv /\ StoppedInv /\ TargetsInv /\ PlacedInv
           /\ ExplainedInv /\ ResultInv /\ NativeInv /\ FailedInv

LEMMA SafeInit == Init => SafeInv
<1> SUFFICES ASSUME Init PROVE SafeInv
  OBVIOUS
<1>1. CopiesInv
  BY CopiesInit
<1>2. /\ \A t \in Tasks : row[t] = NoRow /\ ~ row[t].result /\ row[t].status = "absent" /\ job[t] = "none"
      /\ \A a \in Actors : act[a].pc = "idle" /\ act[a].row = NoRow /\ ~ act[a].row.result
                           /\ act[a].row.status = "absent"
      /\ \A f \in Files : ~ Exists(f) /\ target[f].of \notin Tasks
  BY TaskAssumption DEF Init, NoRow, Idle, Exists, NoFile
<1>3. ToldInv /\ StoppedInv
  BY <1>2 DEF ToldInv, StoppedInv, Terminal
<1>4. TargetsInv
  BY <1>2 DEF TargetsInv
<1>5. \A t \in Tasks : ~ Present(t) /\ ~ Kept(t)
  BY <1>2 DEF Present, Kept, On, Statuses, Terminal
<1>6. PlacedInv
  BY <1>2, <1>5
  DEF PlacedInv, PlaceOK, Working, FilePoints, LoopPoints, RefreshPoints, ImportPoints, OtherPoints
<1>7. ExplainedInv /\ ResultInv
  BY <1>2 DEF ExplainedInv, ResultInv
<1>8. NativeInv /\ FailedInv
  BY <1>2 DEF NativeInv, FailedInv, Importing
<1> QED
  BY <1>1, <1>3, <1>4, <1>6, <1>7, <1>8 DEF SafeInv

LEMMA SafeHolds == Spec => []SafeInv
<1>1. SafeInv /\ [Next]_vars => SafeInv'
  BY CopiesKept, ToldKept, StoppedKept, TargetsKept, PlacedKept, ExplainedKept, ResultKept, NativeKept, FailedKept
  DEF SafeInv
<1> QED
  BY <1>1, SafeInit, PTL DEF Spec

LEMMA AloneHolds == (\A s, t \in Tasks : s = t) => (Spec => [](SafeInv /\ AloneInv))
<1> SUFFICES ASSUME \A s, t \in Tasks : s = t PROVE Spec => [](SafeInv /\ AloneInv)
  OBVIOUS
<1>1. Init => AloneInv
  BY DEF Init, AloneInv
<1>2. SafeInv /\ AloneInv /\ [Next]_vars => AloneInv'
  BY AloneKept DEF SafeInv
<1> QED
  BY <1>1, <1>2, SafeHolds, PTL DEF Spec

\* notifyTaskTerminalStatus: whatever overtakes whatever, the RSS service has heard of
\* the status that a task's row ends with when every actor has come to its end.
THEOREM OutcomesAreTold == Spec => []OutcomeIsTold
<1>1. SafeInv => OutcomeIsTold
  BY DEF SafeInv, ToldInv, OutcomeIsTold, AtRest, Free, Unharmed, Teller, On
<1> QED
  BY <1>1, SafeHolds, PTL

\* Cancel: no refresh, Pause or Resume that works on an older copy leaves a canceled
\* row with a job that the downloader goes on with.
THEOREM CanceledJobsStop == Spec => []CanceledJobStops
<1>1. SafeInv => CanceledJobStops
  BY DEF SafeInv, StoppedInv, CanceledJobStops, AtRest, Free, Unharmed, On
<1> QED
  BY <1>1, SafeHolds, PTL

\* importCompletedTask: when the actors are done, a whole file without a node belongs
\* to a task whose failed commit recordTaskMetadataCommitFailure has recorded.
THEOREM UncommittedAreJournalled == Spec => []UncommittedIsJournalled
<1>1. SafeInv => UncommittedIsJournalled
  <2> SUFFICES ASSUME SafeInv, AtRest, "crash" \notin faults, NEW t \in Tasks, NEW f \in Files,
                      target[f] = [of |-> t, whole |-> TRUE], f \notin node,
                      row[t].status \in (IF via = "native" THEN Terminal \ {"canceled"} ELSE Terminal)
               PROVE  t \in journal
    BY DEF UncommittedIsJournalled, Unharmed
  <2>1. CASE via # "native"
    <3>1. Explained(t, f)
      BY <2>1 DEF SafeInv, ExplainedInv
    <3> QED
      BY <3>1 DEF Explained, CommitAt, On, AtRest, Free
  <2>2. CASE via = "native"
    <3>1. target[f].of = t /\ Exists(f)
      BY TaskAssumption DEF Exists, NoFile
    <3>2. f \in Objects
      BY <2>2, <3>1 DEF SafeInv, NativeInv
    <3>3. row[t].status # "completed"
      <4>1. RowOK(t) /\ (row[t].result => Committed)
        BY DEF SafeInv, CopiesInv, ResultInv
      <4> QED
        BY <2>2, <3>2, <4>1 DEF RowOK, Committed
    <3>4. row[t].status = "failed"
      BY <2>2, <3>3 DEF Terminal
    <3>5. Blank(t)
      BY <2>2, <3>4 DEF SafeInv, FailedInv
    <3> QED
      BY <3>1, <3>5 DEF Blank
  <2> QED
    BY <2>1, <2>2
<1> QED
  BY <1>1, SafeHolds, PTL

\* What TargetsAreWhole is about
LEMMA TargetsWhole ==
    ASSUME SafeInv, TargetsAreWhole, NEW f \in Files, Exists(f)
    PROVE  target[f].whole /\ target[f].of \in Tasks
BY DEF SafeInv, TargetsInv, TargetsAreWhole, AtRest, Free, CopyAt

\* A completed task has its node and its files: each of them, whichever of two imports
\* put it there.  Two native tasks share their object, and the deletion of one takes
\* it from the other.
THEOREM CompletedAreImported ==
    ASSUME <<"native", "native">> \notin Routes \/ \A s, t \in Tasks : s = t
    PROVE  Spec => []CompletedIsImported
<1>1. ASSUME SafeInv, (\A s, t \in Tasks : s = t) => AloneInv PROVE CompletedIsImported
  <2> SUFFICES ASSUME TargetsAreWhole, NEW t \in Tasks, row[t].status = "completed"
               PROVE  /\ row[t].result /\ node # {}
                      /\ \A f \in Objects : target[f].whole \/ (via = "native" /\ job[t] = "removed")
    BY DEF CompletedIsImported
  <2>1. Present(t) /\ row[t].result /\ ~ row[t].staging /\ Committed
    BY <1>1 DEF SafeInv, CopiesInv, RowOK, ResultInv, Present, Statuses, Terminal
  <2>2. CASE via # "native"
    <3>1. \A f \in Files : Exists(f)
      BY <1>1, <2>1, <2>2 DEF SafeInv, PlacedInv
    <3>2. \A f \in Files : target[f].whole
      BY <1>1, <3>1, TargetsWhole
    <3> QED
      BY <2>1, <2>2, <3>2 DEF Objects, Committed
  <2>3. CASE via = "native"
    <3>1. AloneInv
      <4>1. route \in Routes /\ (via = "native" <=> place = "native")
        BY <1>1, RouteIs DEF SafeInv, CopiesInv, TypeOK
      <4>2. route = <<"native", "native">>
        <5>1. route \in {"aria2", "qbittorrent"} \X {"rename", "copy", "import"} \/ route = <<"native", "native">>
          BY <4>1, TaskAssumption
        <5> QED
          BY <2>3, <5>1 DEF via
      <4> QED
        BY <1>1, <4>1, <4>2
    <3>2. Ended(t)
      BY <1>1, <2>3 DEF SafeInv, NativeInv
    <3>3. ASSUME job[t] = "complete", NEW f \in Objects PROVE target[f].whole
      <4>1. target[f] = [of |-> t, whole |-> TRUE]
        BY <2>3, <3>1, <3>3 DEF AloneInv
      <4> QED
        BY <4>1
    <3> QED
      BY <2>1, <2>3, <3>2, <3>3 DEF Ended, Committed
  <2> QED
    BY <2>2, <2>3
<1>2. CASE \A s, t \in Tasks : s = t
  BY <1>1, <1>2, AloneHolds, PTL
<1>3. CASE ~ \A s, t \in Tasks : s = t
  BY <1>1, <1>3, SafeHolds, PTL
<1> QED
  BY <1>2, <1>3

\* The same for any number of tasks of one path: a file that is not staged any more
\* is, all of it, at its target, but it may be another task's.
FileNotLost ==
    via # "native" /\ TargetsAreWhole =>
        \A t \in Tasks : row[t].status \in Statuses /\ job[t] = "complete" =>
            \A f \in Files : f \in staged[t] \/ target[f].whole

\* importLocalStagedFile and recoverCompletedTaskResult: an import removes a staged file
\* only when there is one at its target.
THEOREM FilesAreNotLost == Spec => []FileNotLost
<1>1. ASSUME SafeInv PROVE FileNotLost
  <2> SUFFICES ASSUME via # "native", TargetsAreWhole, NEW t \in Tasks, row[t].status \in Statuses,
                      job[t] = "complete", NEW f \in Files
               PROVE  f \in staged[t] \/ target[f].whole
    BY DEF FileNotLost
  <2>1. f \in staged[t] \/ Exists(f)
    BY <1>1 DEF SafeInv, PlacedInv, Kept, Present, There
  <2> QED
    BY <1>1, <2>1, TargetsWhole
<1> QED
  BY <1>1, SafeHolds, PTL

\* However the refreshes, requests and restarts of an only task follow each other, its
\* download is where it was staged or, all of it, at its target.  (A second task for the
\* same path gives its own files up for the first one's.)
THEOREM DownloadsAreNotLost ==
    ASSUME \A s, t \in Tasks : s = t
    PROVE  Spec => []DownloadNotLost
<1>1. ASSUME SafeInv, AloneInv PROVE DownloadNotLost
  <2>1. TypeOK /\ target \in [Files -> [of : Tasks \cup {NoTask}, whole : BOOLEAN]]
    BY <1>1 DEF SafeInv, CopiesInv, TypeOK
  <2>2. ASSUME TargetsAreWhole, NEW t \in Tasks, row[t].status \in Statuses, job[t] = "complete", NEW f \in Objects
        PROVE  f \in staged[t] \/ target[f] = [of |-> t, whole |-> TRUE]
    <3>1. CASE via = "native"
      BY <1>1, <2>2, <3>1 DEF AloneInv
    <3>2. CASE via # "native"
      <4>1. f \in Files
        BY <3>2 DEF Objects
      <4>2. f \in staged[t] \/ Exists(f)
        BY <1>1, <2>2, <3>2, <4>1 DEF SafeInv, PlacedInv, Kept, Present, There
      <4>3. Exists(f) => target[f].whole /\ target[f].of = t
        BY <1>1, <2>2, <4>1, TargetsWhole
      <4> QED
        BY <2>1, <4>1, <4>2, <4>3
    <3> QED
      BY <3>1, <3>2
  <2> QED
    BY <2>1, <2>2 DEF DownloadNotLost
<1> QED
  BY <1>1, AloneHolds, PTL
=============================================================================
