-------------------------- MODULE OperationJournal --------------------------
(***************************************************************************)
(* The VFS operation journal (vfs_operation_journal_service.go) and its    *)
(* table (vfs_operation_repo_impl.go): operations that other services      *)
(* record, and workers that call ProcessDue: acquire due operations under  *)
(* a lease, run the processor on each, mark the outcome.                   *)
(*                                                                         *)
(* Instants are kept as the time left until them, so time is unbounded and *)
(* the state finite: wait until next_retry_at, lease until locked_until,   *)
(* left until the worker is through with the operation at hand.            *)
(***************************************************************************)
EXTENDS Integers, FiniteSets

CONSTANTS
    Ops, Workers,
    Lease,        \* lockDuration
    WorkTime,     \* the longest a worker takes for one operation
    Limit,        \* how many operations one AcquireDue may return
    B1, B2, B3, B4,   \* vfsOperationRetryBackoff: 1 min, 5 min, 30 min, 2 h
    FaultKinds,   \* "process", "db", "crash"
    MaxFaults,    \* how many faults in a behaviour (bound)
    NoWorker, NoOp

ASSUME JournalAssumption ==
    /\ Lease \in Nat \ {0} /\ WorkTime \in Nat \ {0} /\ Limit \in Nat \ {0}
    /\ B1 \in Nat /\ B2 \in Nat /\ B3 \in Nat /\ B4 \in Nat
    /\ MaxFaults \in Nat
    /\ IsFiniteSet(Ops)
    /\ NoWorker \notin Workers /\ NoOp \notin Ops

VARIABLES
    op,      \* vfs_operations
    wk,      \* the workers
    faults   \* faults left

vars == <<op, wk, faults>>

Statuses == {"absent", "pending", "running", "succeeded", "failed"}

\* retry_count only matters up to the fourth attempt.
Op == [status : Statuses, retries : 0 .. 4, wait : Nat,
       lockedBy : Workers \cup {NoWorker}, lease : Nat]

Points == {"idle", "next", "process", "find", "update"}

Worker == [pc : Points, queue : SUBSET Ops, at : Ops \cup {NoOp}, ok : BOOLEAN,
           copy : Op, left : Nat]

NoRow == [status |-> "absent", retries |-> 0, wait |-> 0, lockedBy |-> NoWorker, lease |-> 0]
Idle == [pc |-> "idle", queue |-> {}, at |-> NoOp, ok |-> FALSE, copy |-> NoRow, left |-> 0]

TypeOK ==
    /\ op \in [Ops -> Op]
    /\ wk \in [Workers -> Worker]
    /\ faults \in 0 .. MaxFaults

Init ==
    /\ op = [o \in Ops |-> NoRow]
    /\ wk = [w \in Workers |-> Idle]
    /\ faults = MaxFaults

Fault(kind) ==
    /\ kind \in FaultKinds
    /\ faults > 0
    /\ faults' = faults - 1

-----------------------------------------------------------------------------
(* Recording *)

\* vfsOperationRetryBackoff
Backoff(retries) ==
    CASE retries <= 1 -> B1
      [] retries = 2 -> B2
      [] retries = 3 -> B3
      [] OTHER -> B4

\* RecordPending, due at once, and RecordFailure, due after the first back-off
Record(o) ==
    /\ op[o].status = "absent"
    /\ \/ op' = [op EXCEPT ![o] = [NoRow EXCEPT !.status = "pending"]]
       \/ op' = [op EXCEPT ![o] = [NoRow EXCEPT !.status = "failed", !.wait = Backoff(1)]]
    /\ UNCHANGED <<wk, faults>>

-----------------------------------------------------------------------------
(* ProcessDue *)

\* Mutants: operations are taken whoever holds a lease on them; a running
\* operation is never taken again.
MutantIncludeLocked(o) == op[o].status \in {"pending", "failed", "running"} /\ op[o].wait = 0
MutantNotRunning(o) == op[o].status \in {"pending", "failed"} /\ op[o].wait = 0

\* applyVFSOperationDueFilter
Due(o) ==
    /\ op[o].status \in {"pending", "failed", "running"}
    /\ op[o].wait = 0
    /\ op[o].lease = 0

\* Mutant: AcquireDue without writing locked_until
MutantAcquired(row, w) == [row EXCEPT !.status = "running", !.lockedBy = w]

Acquired(row, w) == [row EXCEPT !.status = "running", !.lockedBy = w, !.lease = Lease]

\* One transaction, FOR UPDATE SKIP LOCKED: rows that another transaction is
\* taking are skipped, so any part of the due operations may come back.
AcquireDue(w, batch) ==
    /\ wk[w].pc = "idle"
    /\ batch # {} /\ Cardinality(batch) <= Limit
    /\ \A o \in batch : Due(o)
    /\ op' = [o \in Ops |-> IF o \in batch THEN Acquired(op[o], w) ELSE op[o]]
    /\ wk' = [wk EXCEPT ![w] = [Idle EXCEPT !.pc = "next", !.queue = batch]]
    /\ UNCHANGED faults

\* The next operation of the batch
Start(w, o) ==
    /\ wk[w].pc = "next" /\ o \in wk[w].queue
    /\ wk' = [wk EXCEPT ![w] = [@ EXCEPT !.pc = "process", !.at = o, !.queue = wk[w].queue \ {o},
                                         !.left = WorkTime]]
    /\ UNCHANGED <<op, faults>>

\* processor.ProcessVFSOperation
Process(w) ==
    /\ wk[w].pc = "process"
    /\ \/ /\ wk' = [wk EXCEPT ![w] = [@ EXCEPT !.pc = "find", !.ok = TRUE]]
          /\ UNCHANGED faults
       \/ /\ Fault("process")
          /\ wk' = [wk EXCEPT ![w] = [@ EXCEPT !.pc = "find", !.ok = FALSE]]
    /\ UNCHANGED op

\* The operation is dealt with; the batch goes on.
Ended(w) ==
    wk' = [wk EXCEPT ![w] = IF @.queue = {} THEN Idle
                            ELSE [Idle EXCEPT !.pc = "next", !.queue = wk[w].queue]]

\* MarkSucceeded and MarkFailed read the row; a finished one is left alone.
MarkFind(w) ==
    LET row == op[wk[w].at]
    IN  /\ wk[w].pc = "find"
        /\ \/ /\ row.status # "succeeded"
              /\ wk' = [wk EXCEPT ![w] = [@ EXCEPT !.pc = "update", !.copy = row]]
              /\ UNCHANGED faults
           \/ row.status = "succeeded" /\ Ended(w) /\ UNCHANGED faults
           \/ Fault("db") /\ Ended(w)
        /\ UNCHANGED op

Succeeded(row) == [row EXCEPT !.status = "succeeded", !.wait = 0, !.lockedBy = NoWorker, !.lease = 0]

Failed(row) ==
    LET retries == IF row.retries = 4 THEN 4 ELSE row.retries + 1
    IN  [row EXCEPT !.status = "failed", !.retries = retries, !.wait = Backoff(retries),
                    !.lockedBy = NoWorker, !.lease = 0]

\* ... and then write all of it; who holds the lease by now is not asked.
MarkUpdate(w) ==
    /\ wk[w].pc = "update"
    /\ \/ /\ op' = [op EXCEPT ![wk[w].at] = IF wk[w].ok THEN Succeeded(wk[w].copy)
                                                      ELSE Failed(wk[w].copy)]
          /\ UNCHANGED faults
       \/ Fault("db") /\ UNCHANGED op
    /\ Ended(w)

-----------------------------------------------------------------------------

\* The worker's process dies.
Crash(w) ==
    /\ wk[w].pc # "idle"
    /\ Fault("crash")
    /\ wk' = [wk EXCEPT ![w] = Idle]
    /\ UNCHANGED op

Minus1(n) == IF n = 0 THEN 0 ELSE n - 1

\* Time passes; a worker that has used up its WorkTime moves first.
Tick ==
    /\ \A w \in Workers : wk[w].pc # "idle" => wk[w].left > 0
    /\ op' = [o \in Ops |-> [op[o] EXCEPT !.wait = Minus1(@), !.lease = Minus1(@)]]
    /\ wk' = [w \in Workers |-> [wk[w] EXCEPT !.left = Minus1(@)]]
    /\ UNCHANGED faults

Step(w) == Process(w) \/ MarkFind(w) \/ MarkUpdate(w) \/ \E o \in Ops : Start(w, o)

Next ==
    \/ \E o \in Ops : Record(o)
    \/ \E w \in Workers : Step(w) \/ Crash(w) \/ \E batch \in SUBSET Ops : AcquireDue(w, batch)
    \/ Tick

Spec == Init /\ [][Next]_vars

(***************************************************************************)
(* Time passes and a worker that has begun goes on.  Nothing is assumed of *)
(* when ProcessDue is called.                                              *)
(***************************************************************************)
FairSpec ==
    /\ Spec
    /\ WF_vars(Tick)
    /\ \A w \in Workers : WF_vars(Step(w))

-----------------------------------------------------------------------------

Working(w) == wk[w].pc \in {"process", "find", "update"}
RunsOn(o) == {w \in Workers : Working(w) /\ wk[w].at = o}

\* One lease is taken for a whole batch: with the code's 5 minutes and its
\* default of 100 operations that leaves 3 seconds for each.
BatchFits == Limit * WorkTime < Lease

\* The journal implements exclusive work as long as BatchFits: no operation is run by two workers at once, and one that is marked as
\* succeeded is not run again and does not become anything else.
Exclusive == INSTANCE ExclusiveWork
    WITH runs <- [o \in Ops |-> RunsOn(o)],
         done <- {o \in Ops : op[o].status = "succeeded"}
ImplementsExclusiveWork == Exclusive!Spec

\* The operations that a worker has acquired and is not through with
Batch(w) == {o \in Ops : \/ wk[w].pc # "idle" /\ o \in wk[w].queue
                         \/ Working(w) /\ o = wk[w].at}

\* A worker holds the lease on all of its batch for longer than what is left of
\* the batch can take.
LeaseCoversWork ==
    \A w \in Workers : \A o \in Batch(w) :
        /\ op[o].status = "running" /\ op[o].lockedBy = w
        /\ wk[w].left + Cardinality(wk[w].queue) * WorkTime < op[o].lease

\* An operation that a dead worker has left running, or a failed one, becomes
\* due again: "崩溃后永久卡住" does not happen.
NotStuck ==
    \A o \in Ops : op[o].status \in {"running", "failed"}
        ~> Due(o) \/ op[o].status = "succeeded"
=============================================================================
