----------------------- MODULE OperationJournalProofs -----------------------
(***************************************************************************)
(* Proofs about OperationJournal for any operations, workers, back-offs    *)
(* and faults: as long as a batch fits in its lease, a worker holds the    *)
(* lease on what it works on, and the journal implements ExclusiveWork.    *)
(***************************************************************************)
EXTENDS OperationJournal, FiniteSetTheorems, TLAPS

\* A worker's operation is not in the rest of its batch, and between two
\* operations no time passes.
Shape(w) ==
    /\ Working(w) => wk[w].at \in Ops /\ wk[w].at \notin wk[w].queue
    /\ wk[w].pc = "next" => wk[w].left = 0

\* LeaseCoversWork for one worker
Covers(w) ==
    \A o \in Batch(w) :
        /\ op[o].status = "running" /\ op[o].lockedBy = w
        /\ wk[w].left + Cardinality(wk[w].queue) * WorkTime < op[o].lease

Inv == TypeOK /\ \A w \in Workers : Shape(w) /\ Covers(w)

-----------------------------------------------------------------------------
(* Types *)

\* The rows and workers that steps begin with are of their types.
LEMMA Constants == NoRow \in Op /\ Idle \in Worker
BY JournalAssumption DEF NoRow, Idle, Op, Worker, Statuses, Points

\* Every back-off is a length of time.
LEMMA BackoffType == \A n \in 0 .. 4 : Backoff(n) \in Nat
BY JournalAssumption DEF Backoff

\* What AcquireDue, MarkSucceeded and MarkFailed make of a row is a row.
LEMMA RowTypes ==
    ASSUME NEW row \in Op
    PROVE  /\ \A w \in Workers : Acquired(row, w) \in Op
           /\ Succeeded(row) \in Op
           /\ Failed(row) \in Op
<1>1. \A w \in Workers : Acquired(row, w) \in Op
  BY JournalAssumption DEF Acquired, Op, Statuses
<1>2. Succeeded(row) \in Op
  BY DEF Succeeded, Op, Statuses
<1>3. Failed(row) \in Op
  <2> DEFINE retries == IF row.retries = 4 THEN 4 ELSE row.retries + 1
  <2>1. retries \in 0 .. 4
    BY DEF Op
  <2>2. Backoff(retries) \in Nat
    BY <2>1, BackoffType
  <2> HIDE DEF retries
  <2>3. [row EXCEPT !.status = "failed", !.retries = retries, !.wait = Backoff(retries),
                    !.lockedBy = NoWorker, !.lease = 0] \in Op
    BY <2>1, <2>2 DEF Op, Statuses
  <2> QED
    BY <2>3 DEF Failed, retries
<1> QED
  BY <1>1, <1>2, <1>3

\* A fault leaves a number of faults.
LEMMA FaultType ==
    ASSUME TypeOK, NEW kind, Fault(kind)
    PROVE  faults' \in 0 .. MaxFaults
BY JournalAssumption DEF TypeOK, Fault

\* What a worker is after Ended.
LEMMA EndedType ==
    ASSUME TypeOK, NEW w \in Workers, Ended(w)
    PROVE  wk' \in [Workers -> Worker]
<1>1. [Idle EXCEPT !.pc = "next", !.queue = wk[w].queue] \in Worker
  BY Constants DEF TypeOK, Worker, Points
<1> QED
  BY <1>1, Constants DEF TypeOK, Ended

\* Every step keeps the types.
LEMMA TypeStep == Inv /\ [Next]_vars => TypeOK'
<1> SUFFICES ASSUME Inv, [Next]_vars PROVE TypeOK'
  OBVIOUS
<1>0. TypeOK /\ \A w \in Workers : Shape(w)
  BY DEF Inv
<1>1. ASSUME NEW o \in Ops, Record(o) PROVE TypeOK'
  <2>1. [NoRow EXCEPT !.status = "pending"] \in Op
    BY Constants DEF Op, Statuses
  <2>2. [NoRow EXCEPT !.status = "failed", !.wait = Backoff(1)] \in Op
    <3>1. Backoff(1) \in Nat
      BY BackoffType
    <3> QED
      BY <3>1, Constants DEF Op, Statuses
  <2> QED
    BY <1>0, <1>1, <2>1, <2>2 DEF Record, TypeOK
<1>2. ASSUME NEW w \in Workers, NEW batch \in SUBSET Ops, AcquireDue(w, batch) PROVE TypeOK'
  <2>1. [Idle EXCEPT !.pc = "next", !.queue = batch] \in Worker
    BY Constants DEF Worker, Points
  <2>2. \A o \in Ops : Acquired(op[o], w) \in Op
    BY <1>0, RowTypes DEF TypeOK
  <2> QED
    BY <1>0, <1>2, <2>1, <2>2 DEF AcquireDue, TypeOK
<1>3. ASSUME NEW w \in Workers, NEW o \in Ops, Start(w, o) PROVE TypeOK'
  <2>1. [wk[w] EXCEPT !.pc = "process", !.at = o, !.queue = wk[w].queue \ {o},
                      !.left = WorkTime] \in Worker
    BY <1>0, JournalAssumption, ZenonT(60) DEF TypeOK, Worker, Points
  <2> QED
    BY <1>0, <1>3, <2>1 DEF Start, TypeOK
<1>4. ASSUME NEW w \in Workers, Process(w) PROVE TypeOK'
  <2>1. \A ok \in BOOLEAN : [wk[w] EXCEPT !.pc = "find", !.ok = ok] \in Worker
    BY <1>0, ZenonT(60) DEF TypeOK, Worker, Points
  <2>2. op' = op /\ faults' \in 0 .. MaxFaults
    BY <1>0, <1>4, FaultType DEF Process, TypeOK
  <2>3. wk' \in [Workers -> Worker]
    BY <1>0, <1>4, <2>1 DEF Process, TypeOK
  <2> QED
    BY <1>0, <2>2, <2>3 DEF TypeOK
<1>5. ASSUME NEW w \in Workers, MarkFind(w) PROVE TypeOK'
  <2>1. op[wk[w].at] \in Op
    BY <1>0, <1>5 DEF Shape, MarkFind, Working, TypeOK
  <2>2. [wk[w] EXCEPT !.pc = "update", !.copy = op[wk[w].at]] \in Worker
    BY <1>0, <2>1, ZenonT(60) DEF TypeOK, Worker, Points
  <2>3. op' = op /\ faults' \in 0 .. MaxFaults
    BY <1>0, <1>5, FaultType DEF MarkFind, TypeOK
  <2>4. wk' \in [Workers -> Worker]
    BY <1>0, <1>5, <2>2, EndedType DEF MarkFind, TypeOK
  <2> QED
    BY <1>0, <2>3, <2>4 DEF TypeOK
<1>6. ASSUME NEW w \in Workers, MarkUpdate(w) PROVE TypeOK'
  <2>1. wk[w].copy \in Op
    BY <1>0 DEF TypeOK, Worker
  <2>2. Succeeded(wk[w].copy) \in Op /\ Failed(wk[w].copy) \in Op
    BY <2>1, RowTypes
  <2>3. op' \in [Ops -> Op]
    BY <1>0, <1>6, <2>2 DEF MarkUpdate, TypeOK
  <2>4. wk' \in [Workers -> Worker]
    BY <1>0, <1>6, EndedType DEF MarkUpdate
  <2>5. faults' \in 0 .. MaxFaults
    BY <1>0, <1>6, FaultType DEF MarkUpdate, TypeOK
  <2> QED
    BY <2>3, <2>4, <2>5 DEF TypeOK
<1>7. ASSUME NEW w \in Workers, Crash(w) PROVE TypeOK'
  <2>1. faults' \in 0 .. MaxFaults
    BY <1>0, <1>7, FaultType, SMTT(60) DEF Crash
  <2> QED
    BY <1>0, <1>7, <2>1, Constants DEF Crash, TypeOK
<1>8. ASSUME Tick PROVE TypeOK'
  <2>1. \A n \in Nat : Minus1(n) \in Nat
    BY DEF Minus1
  <2>2. \A o \in Ops : [op[o] EXCEPT !.wait = Minus1(@), !.lease = Minus1(@)] \in Op
    BY <1>0, <2>1, ZenonT(60) DEF TypeOK, Op
  <2>3. \A w \in Workers : [wk[w] EXCEPT !.left = Minus1(@)] \in Worker
    BY <1>0, <2>1 DEF TypeOK, Worker
  <2> QED
    BY <1>0, <1>8, <2>2, <2>3 DEF Tick, TypeOK
<1>9. CASE UNCHANGED vars
  BY <1>0, <1>9 DEF vars, TypeOK
<1> QED
  BY <1>1, <1>2, <1>3, <1>4, <1>5, <1>6, <1>7, <1>8, <1>9 DEF Next, Step
-----------------------------------------------------------------------------
(* The lease *)

\* A worker that a step leaves alone, with its batch, keeps what it has.
LEMMA Frame ==
    ASSUME NEW w \in Workers, Shape(w), Covers(w),
           wk'[w] = wk[w], \A o \in Batch(w) : op'[o] = op[o]
    PROVE  Shape(w)' /\ Covers(w)'
<1>1. Shape(w)'
  BY DEF Shape, Working
<1>2. Batch(w)' = Batch(w)
  BY DEF Batch, Working
<1>3. Covers(w)'
  BY <1>2 DEF Covers
<1> QED
  BY <1>1, <1>3

\* No two workers have an operation in their batches.
LEMMA Apart ==
    ASSUME Inv, NEW v \in Workers, NEW w \in Workers, v # w
    PROVE  Batch(v) \cap Batch(w) = {}
BY DEF Inv, Covers

\* What is left of a batch takes a natural number of units of time.
LEMMA BatchTime ==
    ASSUME Inv, NEW w \in Workers
    PROVE  /\ Cardinality(wk[w].queue) \in Nat
           /\ Cardinality(wk[w].queue) * WorkTime \in Nat
           /\ wk[w].left \in Nat
           /\ \A o \in Batch(w) : op[o].lease \in Nat \ {0}
<1>1. wk[w].queue \subseteq Ops /\ wk[w].left \in Nat
  BY DEF Inv, TypeOK, Worker
<1>2. Cardinality(wk[w].queue) \in Nat
  BY <1>1, JournalAssumption, FS_Subset, FS_CardinalityType
<1>3. Cardinality(wk[w].queue) * WorkTime \in Nat
  BY <1>2, JournalAssumption
<1>4. ASSUME NEW o \in Batch(w) PROVE op[o].lease \in Nat \ {0}
  <2>1. op[o].lease \in Nat
    BY DEF Inv, TypeOK, Op, Batch
  <2>2. wk[w].left + Cardinality(wk[w].queue) * WorkTime < op[o].lease
    BY DEF Inv, Covers
  <2> QED
    BY <1>1, <1>3, <2>1, <2>2
<1> QED
  BY <1>1, <1>2, <1>3, <1>4

\* A worker that is through with an operation holds the lease on the rest.
LEMMA EndedKeeps ==
    ASSUME Inv, NEW w \in Workers, Working(w), Ended(w),
           \A o \in wk[w].queue : op'[o] = op[o]
    PROVE  Shape(w)' /\ Covers(w)'
<1>1. CASE wk[w].queue = {}
  <2>1. wk'[w] = Idle
    BY <1>1 DEF Ended, Inv, TypeOK
  <2> QED
    BY <2>1 DEF Shape, Covers, Batch, Working, Idle
<1>2. CASE wk[w].queue # {}
  <2>1. wk'[w] = [Idle EXCEPT !.pc = "next", !.queue = wk[w].queue]
    BY <1>2 DEF Ended, Inv, TypeOK
  <2>2. wk'[w].pc = "next" /\ wk'[w].queue = wk[w].queue /\ wk'[w].left = 0
    BY <2>1 DEF Idle
  <2>3. Shape(w)'
    BY <2>2 DEF Shape, Working
  <2>4. Batch(w)' = wk[w].queue
    <3>1. wk[w].queue \subseteq Ops
      BY DEF Inv, TypeOK, Worker
    <3> QED
      BY <2>2, <3>1 DEF Batch, Working
  <2>5. ASSUME NEW o \in wk[w].queue
        PROVE  /\ op'[o].status = "running" /\ op'[o].lockedBy = w
               /\ wk'[w].left + Cardinality(wk'[w].queue) * WorkTime < op'[o].lease
    <3>1. o \in Batch(w)
      BY DEF Batch, Working, Inv, TypeOK, Worker
    <3>2. /\ op[o].status = "running" /\ op[o].lockedBy = w
          /\ wk[w].left + Cardinality(wk[w].queue) * WorkTime < op[o].lease
      BY <3>1 DEF Inv, Covers
    <3> QED
      BY <2>2, <3>1, <3>2, BatchTime
  <2> QED
    BY <2>3, <2>4, <2>5 DEF Covers
<1> QED
  BY <1>1, <1>2
-----------------------------------------------------------------------------
(* The inductive invariant *)

\* Every step keeps each worker's lease ahead of its work.
LEMMA LeaseStep ==
    ASSUME BatchFits, Inv, Next
    PROVE  \A v \in Workers : Shape(v)' /\ Covers(v)'
<1> SUFFICES ASSUME NEW v \in Workers PROVE Shape(v)' /\ Covers(v)'
  OBVIOUS
<1>0. TypeOK /\ Shape(v) /\ Covers(v)
  BY DEF Inv
<1>1. ASSUME NEW o \in Ops, Record(o) PROVE Shape(v)' /\ Covers(v)'
  <2>1. wk' = wk /\ \A p \in Ops \ {o} : op'[p] = op[p]
    BY <1>0, <1>1 DEF Record, TypeOK
  <2>2. o \notin Batch(v)
    BY <1>0, <1>1 DEF Record, Covers
  <2>3. \A p \in Batch(v) : op'[p] = op[p]
    BY <2>1, <2>2 DEF Batch
  <2> QED
    BY <1>0, <2>1, <2>3, Frame
<1>2. ASSUME NEW w \in Workers, NEW batch \in SUBSET Ops, AcquireDue(w, batch)
      PROVE  Shape(v)' /\ Covers(v)'
  <2>1. CASE v # w
    <3>1. wk'[v] = wk[v]
      BY <1>0, <1>2, <2>1 DEF AcquireDue, TypeOK
    <3>2. \A o \in Batch(v) : o \notin batch
      BY <1>2, BatchTime DEF AcquireDue, Due
    <3>3. \A o \in Batch(v) : op'[o] = op[o]
      BY <1>2, <3>2 DEF AcquireDue, Batch
    <3> QED
      BY <1>0, <3>1, <3>3, Frame
  <2>2. CASE v = w
    <3>1. wk'[v] = [Idle EXCEPT !.pc = "next", !.queue = batch]
      BY <1>0, <1>2, <2>2 DEF AcquireDue, TypeOK
    <3>2. wk'[v].pc = "next" /\ wk'[v].queue = batch /\ wk'[v].left = 0
      BY <3>1 DEF Idle
    <3>3. Shape(v)' /\ Batch(v)' = batch
      BY <3>2 DEF Shape, Working, Batch
    <3>4. Cardinality(batch) * WorkTime < Lease
      <4>1. Cardinality(batch) \in Nat /\ Cardinality(batch) <= Limit
        BY <1>2, JournalAssumption, FS_Subset, FS_CardinalityType DEF AcquireDue
      <4>2. Cardinality(batch) * WorkTime <= Limit * WorkTime
        BY <4>1, JournalAssumption
      <4>3. Cardinality(batch) * WorkTime \in Nat /\ Limit * WorkTime \in Nat
        BY <4>1, JournalAssumption
      <4> QED
        BY <4>2, <4>3, JournalAssumption DEF BatchFits
    <3>5. ASSUME NEW o \in batch
          PROVE  op'[o].status = "running" /\ op'[o].lockedBy = v /\ op'[o].lease = Lease
      <4>1. op'[o] = Acquired(op[o], w)
        BY <1>2 DEF AcquireDue
      <4>2. op[o] \in Op
        BY <1>0 DEF TypeOK
      <4> QED
        BY <2>2, <4>1, <4>2 DEF Acquired, Op
    <3>6. Cardinality(batch) * WorkTime \in Nat
      BY JournalAssumption, FS_Subset, FS_CardinalityType
    <3> QED
      BY <3>2, <3>3, <3>4, <3>5, <3>6 DEF Covers
  <2> QED
    BY <2>1, <2>2
<1>3. ASSUME NEW w \in Workers, NEW o \in Ops, Start(w, o) PROVE Shape(v)' /\ Covers(v)'
  <2>0. op' = op
    BY <1>3 DEF Start
  <2>1. CASE v # w
    <3>1. wk'[v] = wk[v]
      BY <1>0, <1>3, <2>1 DEF Start, TypeOK
    <3> QED
      BY <1>0, <2>0, <3>1, Frame
  <2>2. CASE v = w
    <3>1. /\ wk'[v].pc = "process" /\ wk'[v].at = o /\ wk'[v].queue = wk[v].queue \ {o}
          /\ wk'[v].left = WorkTime
      BY <1>0, <1>3, <2>2 DEF Start, TypeOK, Worker
    <3>2. wk[v].pc = "next" /\ o \in wk[v].queue /\ wk[v].left = 0
      BY <1>0, <1>3, <2>2 DEF Start, Shape
    <3>3. Shape(v)' /\ Batch(v)' \subseteq Batch(v)
      BY <3>1, <3>2 DEF Shape, Working, Batch
    <3>4. /\ Cardinality(wk[v].queue) \in Nat
          /\ Cardinality(wk[v].queue \ {o}) = Cardinality(wk[v].queue) - 1
      <4>1. IsFiniteSet(wk[v].queue)
        BY <1>0, JournalAssumption, FS_Subset DEF TypeOK, Worker
      <4> QED
        BY <3>2, <4>1, FS_RemoveElement, FS_CardinalityType
    <3>5. WorkTime + Cardinality(wk[v].queue \ {o}) * WorkTime = Cardinality(wk[v].queue) * WorkTime
      <4>1. \A k, t \in Nat : t + (k - 1) * t = k * t
        OBVIOUS
      <4> QED
        BY <3>4, <4>1, JournalAssumption
    <3>6. wk'[v].left + Cardinality(wk'[v].queue) * WorkTime
            = wk[v].left + Cardinality(wk[v].queue) * WorkTime
      BY <3>1, <3>2, <3>5, BatchTime
    <3> QED
      BY <1>0, <2>0, <3>3, <3>6 DEF Covers
  <2> QED
    BY <2>1, <2>2
<1>4. ASSUME NEW w \in Workers, wk[w].pc # "idle", wk[w].pc # "next", op' = op,
             NEW u \in Worker, wk' = [wk EXCEPT ![w] = u],
             u.pc \in {"find", "update"}, u.queue = wk[w].queue, u.at = wk[w].at,
             u.left = wk[w].left
      PROVE  Shape(v)' /\ Covers(v)'
  <2>1. CASE v # w
    <3>1. wk'[v] = wk[v]
      BY <1>0, <1>4, <2>1 DEF TypeOK
    <3> QED
      BY <1>0, <1>4, <3>1, Frame
  <2>2. CASE v = w
    <3>1. wk'[v] = u /\ Working(v)
      BY <1>0, <1>4, <2>2 DEF TypeOK, Worker, Points, Working
    <3>2. Shape(v)' /\ Batch(v)' = Batch(v)
      BY <1>0, <1>4, <2>2, <3>1 DEF Shape, Working, Batch
    <3> QED
      BY <1>0, <1>4, <2>2, <3>1, <3>2 DEF Covers
  <2> QED
    BY <2>1, <2>2
<1>5. ASSUME NEW w \in Workers, Process(w) PROVE Shape(v)' /\ Covers(v)'
  <2>1. PICK ok \in BOOLEAN : wk' = [wk EXCEPT ![w] = [@ EXCEPT !.pc = "find", !.ok = ok]]
    BY <1>5 DEF Process
  <2>2. PICK u : u = [wk[w] EXCEPT !.pc = "find", !.ok = ok]
    OBVIOUS
  <2>3. /\ u \in Worker /\ u.pc = "find" /\ u.queue = wk[w].queue /\ u.at = wk[w].at
        /\ u.left = wk[w].left
    BY <1>0, <2>2, ZenonT(60) DEF TypeOK, Worker, Points
  <2>4. wk' = [wk EXCEPT ![w] = u] /\ op' = op /\ wk[w].pc = "process"
    BY <1>5, <2>1, <2>2 DEF Process
  <2> QED
    BY <1>4, <2>3, <2>4
<1>6. ASSUME NEW w \in Workers, MarkFind(w) PROVE Shape(v)' /\ Covers(v)'
  <2>0. op' = op /\ wk[w].pc = "find" /\ Working(w)
    BY <1>6 DEF MarkFind, Working
  <2>1. CASE Ended(w)
    <3>1. CASE v = w
      BY <2>0, <2>1, <3>1, EndedKeeps
    <3>2. CASE v # w
      <4>1. wk'[v] = wk[v]
        BY <1>0, <2>1, <3>2 DEF Ended, TypeOK
      <4> QED
        BY <1>0, <2>0, <4>1, Frame
    <3> QED
      BY <3>1, <3>2
  <2>2. CASE wk' = [wk EXCEPT ![w] = [@ EXCEPT !.pc = "update", !.copy = op[wk[w].at]]]
    <3>1. PICK u : u = [wk[w] EXCEPT !.pc = "update", !.copy = op[wk[w].at]]
      OBVIOUS
    <3>2. op[wk[w].at] \in Op
      BY <2>0 DEF Inv, Shape, TypeOK
    <3>3. /\ u \in Worker /\ u.pc = "update" /\ u.queue = wk[w].queue /\ u.at = wk[w].at
          /\ u.left = wk[w].left
      BY <1>0, <3>1, <3>2, ZenonT(60) DEF TypeOK, Worker, Points
    <3>4. wk' = [wk EXCEPT ![w] = u]
      BY <2>2, <3>1
    <3> QED
      BY <1>4, <2>0, <3>3, <3>4
  <2> QED
    BY <1>6, <2>1, <2>2 DEF MarkFind
<1>7. ASSUME NEW w \in Workers, MarkUpdate(w) PROVE Shape(v)' /\ Covers(v)'
  <2>0. Working(w) /\ Ended(w) /\ wk[w].at \in Ops /\ wk[w].at \notin wk[w].queue
    BY <1>7 DEF MarkUpdate, Working, Inv, Shape
  <2>1. \A o \in Ops \ {wk[w].at} : op'[o] = op[o]
    BY <1>0, <1>7 DEF MarkUpdate, TypeOK
  <2>2. CASE v = w
    <3>1. \A o \in wk[w].queue : op'[o] = op[o]
      BY <1>0, <2>0, <2>1 DEF TypeOK, Worker
    <3> QED
      BY <2>0, <2>2, <3>1, EndedKeeps
  <2>3. CASE v # w
    <3>1. wk'[v] = wk[v]
      BY <1>0, <2>0, <2>3 DEF Ended, TypeOK
    <3>2. wk[w].at \in Batch(w)
      BY <2>0 DEF Batch
    <3>3. wk[w].at \notin Batch(v)
      BY <2>3, <3>2, Apart
    <3>4. \A o \in Batch(v) : op'[o] = op[o]
      BY <2>1, <3>3 DEF Batch
    <3> QED
      BY <1>0, <3>1, <3>4, Frame
  <2> QED
    BY <2>2, <2>3
<1>8. ASSUME NEW w \in Workers, Crash(w) PROVE Shape(v)' /\ Covers(v)'
  <2>0. op' = op
    BY <1>8 DEF Crash
  <2>1. CASE v = w
    <3>1. wk'[v] = Idle
      BY <1>0, <1>8, <2>1 DEF Crash, TypeOK
    <3> QED
      BY <3>1 DEF Shape, Covers, Batch, Working, Idle
  <2>2. CASE v # w
    <3>1. wk'[v] = wk[v]
      BY <1>0, <1>8, <2>2 DEF Crash, TypeOK
    <3> QED
      BY <1>0, <2>0, <3>1, Frame
  <2> QED
    BY <2>1, <2>2
<1>9. ASSUME Tick PROVE Shape(v)' /\ Covers(v)'
  <2>1. /\ wk'[v].pc = wk[v].pc /\ wk'[v].queue = wk[v].queue /\ wk'[v].at = wk[v].at
        /\ wk'[v].left = Minus1(wk[v].left)
    BY <1>0, <1>9 DEF Tick, TypeOK, Worker
  <2>2. ASSUME NEW o \in Ops
        PROVE  /\ op'[o].status = op[o].status /\ op'[o].lockedBy = op[o].lockedBy
               /\ op'[o].lease = Minus1(op[o].lease)
    BY <1>0, <1>9 DEF Tick, TypeOK, Op
  <2>3. wk[v].pc # "idle" => wk[v].left > 0
    BY <1>9 DEF Tick
  <2>4. Shape(v)' /\ Batch(v)' = Batch(v)
    BY <1>0, <2>1, <2>3 DEF Shape, Batch, Working, Minus1
  <2>5. ASSUME NEW o \in Batch(v)
        PROVE  /\ op'[o].status = "running" /\ op'[o].lockedBy = v
               /\ wk'[v].left + Cardinality(wk'[v].queue) * WorkTime < op'[o].lease
    <3>1. o \in Ops /\ wk[v].pc # "idle"
      BY DEF Batch, Working
    <3>2. wk'[v].left = wk[v].left - 1 /\ op'[o].lease = op[o].lease - 1
      BY <2>1, <2>2, <2>3, <3>1, BatchTime DEF Minus1
    <3>3. /\ op[o].status = "running" /\ op[o].lockedBy = v
          /\ wk[v].left + Cardinality(wk[v].queue) * WorkTime < op[o].lease
      BY <1>0 DEF Covers
    <3>4. wk[v].left - 1 + Cardinality(wk[v].queue) * WorkTime < op[o].lease - 1
      BY <3>3, BatchTime
    <3> QED
      BY <2>1, <2>2, <3>1, <3>2, <3>3, <3>4
  <2> QED
    BY <2>4, <2>5 DEF Covers
<1> QED
  BY <1>1, <1>2, <1>3, <1>5, <1>6, <1>7, <1>8, <1>9 DEF Next, Step
\* The journal begins without operations and without work.
LEMMA InitInv == Init => Inv
<1> SUFFICES ASSUME Init PROVE Inv
  OBVIOUS
<1>1. TypeOK
  BY Constants, JournalAssumption DEF Init, TypeOK
<1>2. ASSUME NEW w \in Workers PROVE Shape(w) /\ Covers(w)
  BY DEF Init, Shape, Covers, Working, Batch, Idle
<1> QED
  BY <1>1, <1>2 DEF Inv

\* Every step keeps the inductive invariant.
LEMMA InvStep == BatchFits /\ Inv /\ [Next]_vars => Inv'
<1> SUFFICES ASSUME BatchFits, Inv, [Next]_vars PROVE Inv'
  OBVIOUS
<1>1. TypeOK'
  BY TypeStep
<1>2. CASE Next
  BY <1>1, <1>2, LeaseStep DEF Inv
<1>3. CASE UNCHANGED vars
  <2>1. \A w \in Workers : Shape(w)' /\ Covers(w)'
    BY <1>3, Frame DEF Inv, vars
  <2> QED
    BY <1>1, <2>1 DEF Inv
<1> QED
  BY <1>2, <1>3

\* The strengthened invariant holds of every state.
LEMMA Invariance == BatchFits => (Spec => []Inv)
<1> SUFFICES ASSUME BatchFits PROVE Spec => []Inv
  OBVIOUS
<1>1. Init => Inv
  BY InitInv
<1>2. Inv /\ [Next]_vars => Inv'
  BY InvStep
<1> QED
  BY <1>1, <1>2, PTL DEF Spec

\* As long as a batch fits in its lease, each worker of ProcessDue holds the
\* lease on every operation of its batch for longer than the rest of the batch
\* can take, whatever fails.
THEOREM LeaseIsHeld == BatchFits => (Spec => []LeaseCoversWork)
<1>1. Inv => LeaseCoversWork
  BY DEF Inv, Covers, LeaseCoversWork
<1> QED
  BY <1>1, Invariance, PTL

-----------------------------------------------------------------------------
(* Refinement *)

Runs == [o \in Ops |-> RunsOn(o)]
Done == {o \in Ops : op[o].status = "succeeded"}

\* Steps that begin and end no work do not change who runs what.
LEMMA NoWorkChanges ==
    ASSUME \A w \in Workers : /\ Working(w)' <=> Working(w)
                              /\ Working(w) => wk'[w].at = wk[w].at
    PROVE  Runs' = Runs
<1>1. \A o \in Ops : RunsOn(o)' = RunsOn(o)
  BY DEF RunsOn
<1> QED
  BY <1>1 DEF Runs

\* An operation that is worked on is worked on by one worker and is not done.
LEMMA OneRuns ==
    ASSUME Inv, NEW w \in Workers, Working(w)
    PROVE  /\ wk[w].at \in Ops /\ wk[w].at \notin Done
           /\ Runs[wk[w].at] = {w}
<1>1. wk[w].at \in Ops /\ wk[w].at \in Batch(w)
  BY DEF Inv, Shape, Batch
<1>2. wk[w].at \notin Done
  BY <1>1 DEF Inv, Covers, Done
<1>3. ASSUME NEW v \in Workers, Working(v), wk[v].at = wk[w].at PROVE v = w
  <2>1. wk[w].at \in Batch(v)
    BY <1>1, <1>3 DEF Batch
  <2> QED
    BY <1>1, <2>1, Apart
<1> QED
  BY <1>1, <1>2, <1>3 DEF Runs, RunsOn

\* When a worker is through with its operation nobody runs that operation.
LEMMA WorkEnds ==
    ASSUME Inv, NEW w \in Workers, Working(w), ~ Working(w)',
           \A v \in Workers \ {w} : wk'[v] = wk[v],
           Done' \in {Done, Done \cup {wk[w].at}}
    PROVE  Exclusive!Next
<1>1. wk[w].at \in Ops /\ Runs[wk[w].at] = {w}
  BY OneRuns
<1>2. ASSUME NEW o \in Ops PROVE RunsOn(o)' = RunsOn(o) \ {w}
  BY DEF RunsOn, Working
<1>3. ASSUME NEW o \in Ops PROVE RunsOn(o)' = IF o = wk[w].at THEN {} ELSE RunsOn(o)
  BY <1>1, <1>2, ZenonT(60) DEF Runs, RunsOn
<1>4. Runs' = [Runs EXCEPT ![wk[w].at] = {}]
  BY <1>1, <1>3 DEF Runs
<1>5. Exclusive!End(wk[w].at, w)
  BY <1>1, <1>4 DEF Exclusive!End, Runs, Done
<1> QED
  BY <1>1, <1>5 DEF Exclusive!Next

\* Every step of the journal is a step of ExclusiveWork or changes nothing there.
LEMMA RefinementStep ==
    ASSUME Inv, [Next]_vars
    PROVE  [Exclusive!Next]_<<Runs, Done>>
<1>0. TypeOK
  BY DEF Inv
<1>1. ASSUME NEW o \in Ops, Record(o) PROVE UNCHANGED <<Runs, Done>>
  <2>1. Runs' = Runs
    BY <1>1, NoWorkChanges DEF Record, Working
  <2>2. op[o].status = "absent" /\ op'[o].status \in {"pending", "failed"}
    BY <1>0, <1>1 DEF Record, NoRow, TypeOK
  <2>3. \A p \in Ops \ {o} : op'[p] = op[p]
    BY <1>0, <1>1 DEF Record, TypeOK
  <2>4. Done' = Done
    BY <2>2, <2>3 DEF Done
  <2> QED
    BY <2>1, <2>4
<1>2. ASSUME NEW w \in Workers, NEW batch \in SUBSET Ops, AcquireDue(w, batch)
      PROVE  UNCHANGED <<Runs, Done>>
  <2>1. ~ Working(w) /\ ~ Working(w)'
    BY <1>0, <1>2 DEF AcquireDue, Working, TypeOK, Idle
  <2>2. \A v \in Workers \ {w} : wk'[v] = wk[v]
    BY <1>0, <1>2 DEF AcquireDue, TypeOK
  <2>3. Runs' = Runs
    BY <2>1, <2>2, NoWorkChanges DEF Working
  <2>4. ASSUME NEW o \in Ops PROVE op'[o].status = "succeeded" <=> op[o].status = "succeeded"
    <3>1. op[o] \in Op
      BY <1>0 DEF TypeOK
    <3>2. CASE o \in batch
      BY <1>2, <3>1, <3>2 DEF AcquireDue, Due, Acquired, Op
    <3>3. CASE o \notin batch
      BY <1>2, <3>3 DEF AcquireDue
    <3> QED
      BY <3>2, <3>3
  <2> QED
    BY <2>3, <2>4 DEF Done
<1>3. ASSUME NEW w \in Workers, NEW o \in Ops, Start(w, o) PROVE Exclusive!Start(o, w)
  <2>1. /\ wk[w].pc = "next" /\ o \in wk[w].queue /\ op' = op
        /\ wk'[w].pc = "process" /\ wk'[w].at = o
    BY <1>0, <1>3 DEF Start, TypeOK, Worker
  <2>2. \A v \in Workers \ {w} : wk'[v] = wk[v]
    BY <1>0, <1>3 DEF Start, TypeOK
  <2>3. o \in Batch(w) /\ o \notin Done
    BY <2>1 DEF Batch, Done, Inv, Covers
  <2>4. RunsOn(o) = {}
    <3> SUFFICES ASSUME NEW v \in Workers, Working(v), wk[v].at = o PROVE FALSE
      BY DEF RunsOn
    <3>1. v # w
      BY <2>1 DEF Working
    <3>2. o \in Batch(v)
      BY DEF Batch
    <3> QED
      BY <2>3, <3>1, <3>2, Apart
  <2>5. ASSUME NEW p \in Ops PROVE RunsOn(p)' = IF p = o THEN {w} ELSE RunsOn(p)
    <3>1. ~ Working(w) /\ Working(w)'
      BY <2>1 DEF Working
    <3> QED
      BY <2>1, <2>2, <2>4, <3>1 DEF RunsOn, Working
  <2>6. Runs' = [Runs EXCEPT ![o] = {w}]
    BY <2>5 DEF Runs
  <2>7. Done' = Done /\ Runs[o] = {}
    BY <2>1, <2>4 DEF Done, Runs
  <2> QED
    BY <2>3, <2>6, <2>7 DEF Exclusive!Start, Runs, Done
<1>4. ASSUME NEW w \in Workers, Process(w) PROVE UNCHANGED <<Runs, Done>>
  <2>1. Working(w) /\ Working(w)' /\ wk'[w].at = wk[w].at /\ op' = op
    BY <1>0, <1>4, ZenonT(150) DEF Process, Working, TypeOK, Worker
  <2>2. \A v \in Workers \ {w} : wk'[v] = wk[v]
    BY <1>0, <1>4 DEF Process, TypeOK
  <2>3. Runs' = Runs
    BY <2>1, <2>2, NoWorkChanges DEF Working
  <2> QED
    BY <2>1, <2>3 DEF Done
<1>5. ASSUME NEW w \in Workers, Ended(w), Working(w)
      PROVE  ~ Working(w)' /\ \A v \in Workers \ {w} : wk'[v] = wk[v]
  BY <1>0, <1>5 DEF Ended, Working, TypeOK, Idle
<1>6. ASSUME NEW w \in Workers, MarkFind(w)
      PROVE  Exclusive!Next \/ UNCHANGED <<Runs, Done>>
  <2>0. op' = op /\ Working(w) /\ Done' = Done
    BY <1>6 DEF MarkFind, Working, Done
  <2>1. CASE Ended(w)
    BY <1>5, <2>0, <2>1, WorkEnds
  <2>2. CASE wk' = [wk EXCEPT ![w] = [@ EXCEPT !.pc = "update", !.copy = op[wk[w].at]]]
    <3>1. Working(w)' /\ wk'[w].at = wk[w].at
      BY <1>0, <2>2 DEF Working, TypeOK, Worker
    <3>2. \A v \in Workers \ {w} : wk'[v] = wk[v]
      BY <1>0, <2>2 DEF TypeOK
    <3>3. Runs' = Runs
      BY <2>0, <3>1, <3>2, NoWorkChanges DEF Working
    <3> QED
      BY <2>0, <3>3
  <2> QED
    BY <1>6, <2>1, <2>2 DEF MarkFind
<1>7. ASSUME NEW w \in Workers, MarkUpdate(w) PROVE Exclusive!Next
  <2>1. Working(w) /\ Ended(w) /\ wk[w].at \in Ops /\ wk[w].at \notin Done
    BY <1>7, OneRuns DEF MarkUpdate, Working
  <2>2. \A o \in Ops \ {wk[w].at} : op'[o] = op[o]
    BY <1>0, <1>7 DEF MarkUpdate, TypeOK
  <2>3. Done' \in {Done, Done \cup {wk[w].at}}
    BY <2>1, <2>2 DEF Done
  <2> QED
    BY <1>5, <2>1, <2>3, WorkEnds
<1>8. ASSUME NEW w \in Workers, Crash(w)
      PROVE  Exclusive!Next \/ UNCHANGED <<Runs, Done>>
  <2>1. ~ Working(w)' /\ op' = op /\ Done' = Done
    BY <1>0, <1>8 DEF Crash, Working, TypeOK, Idle, Done
  <2>2. \A v \in Workers \ {w} : wk'[v] = wk[v]
    BY <1>0, <1>8 DEF Crash, TypeOK
  <2>3. CASE Working(w)
    BY <2>1, <2>2, <2>3, WorkEnds
  <2>4. CASE ~ Working(w)
    <3>1. Runs' = Runs
      BY <2>1, <2>2, <2>4, NoWorkChanges DEF Working
    <3> QED
      BY <2>1, <3>1
  <2> QED
    BY <2>3, <2>4
<1>9. ASSUME Tick PROVE UNCHANGED <<Runs, Done>>
  <2>1. \A w \in Workers : wk'[w].pc = wk[w].pc /\ wk'[w].at = wk[w].at
    BY <1>0, <1>9 DEF Tick, TypeOK, Worker
  <2>2. \A o \in Ops : op'[o].status = op[o].status
    BY <1>0, <1>9 DEF Tick, TypeOK, Op
  <2>3. Runs' = Runs
    BY <2>1, NoWorkChanges DEF Working
  <2> QED
    BY <2>2, <2>3 DEF Done
<1>10. CASE UNCHANGED vars
  BY <1>10 DEF vars, Runs, Done, RunsOn, Working
<1>11. ASSUME NEW w \in Workers, NEW o \in Ops, Start(w, o) PROVE Exclusive!Next
  BY <1>3, <1>11 DEF Exclusive!Next
<1> QED
  BY <1>1, <1>2, <1>4, <1>6, <1>7, <1>8, <1>9, <1>10, <1>11 DEF Next, Step

\* As long as a batch fits in its lease, ProcessDue and the marks implement
\* exclusive work: no operation is run by two workers at once, and one that is
\* marked as succeeded is not run again and does not become anything else.
THEOREM JournalIsExclusive == BatchFits => (Spec => ImplementsExclusiveWork)
<1> SUFFICES ASSUME BatchFits PROVE Spec => ImplementsExclusiveWork
  OBVIOUS
<1>1. Init => Exclusive!Init
  <2> SUFFICES ASSUME Init PROVE Exclusive!Init
    OBVIOUS
  <2>1. \A o \in Ops : RunsOn(o) = {} /\ op[o].status # "succeeded"
    BY DEF Init, RunsOn, Working, Idle, NoRow
  <2> QED
    BY <2>1 DEF Exclusive!Init
<1>2. Inv /\ [Next]_vars => [Exclusive!Next]_<<Runs, Done>>
  BY RefinementStep
<1>3. Spec => []Inv
  BY Invariance
<1> QED
  BY <1>1, <1>2, <1>3, PTL DEF Spec, ImplementsExclusiveWork, Exclusive!Spec, Runs, Done
=============================================================================
