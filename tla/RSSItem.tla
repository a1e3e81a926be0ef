------------------------------- MODULE RSSItem -------------------------------
(***************************************************************************)
(* The life of the items of one RSS source (rss_service.go): refresh,      *)
(* RunSubscription, ReprocessItem, RetryItem, DownloadItem, ignore, the    *)
(* retry worker's cycle, and the call back from TaskService when a task    *)
(* ends.  An actor is a goroutine with the *entity.RSSItem it read; every  *)
(* UpdateItem writes all columns of that copy.  Enqueueing holds an        *)
(* in-memory lock on its item, a refresh one on its source; the other      *)
(* writers hold none.  One step is one call to the database or to          *)
(* TaskService.                                                            *)
(*                                                                         *)
(* What a subscription matches is left open: users edit subscriptions at   *)
(* any time.  The source itself, its health and its notification are in    *)
(* RSSFeeds; the notifications about items are left out.                   *)
(***************************************************************************)
EXTENDS Integers, FiniteSets

CONSTANTS
    Items,
    Tasks,       \* task ids, as numbers (their number is a bound)
    Actors,
    Worker,      \* the actor that is the retry worker
    Requests,    \* which of "refresh", "run", "reprocess", "retry", "download", "ignore"
    Links,       \* the feed's links: TRUE for a magnet or torrent link
    MaxRetry,    \* MaxRetryCount
    Limit,       \* retryWorkerLimit
    FaultKinds,  \* "db", "create", "crash"
    MaxFaults,   \* how many faults in a behaviour (bound)
    MaxAsks,     \* how many requests and refreshes in a behaviour (bound)
    NoItem, NoTask, NoActor

ASSUME RSSAssumption ==
    /\ Tasks \subseteq Nat
    /\ Worker \in Actors
    /\ Links \subseteq BOOLEAN
    /\ MaxRetry \in Nat /\ Limit \in Nat \ {0} /\ MaxFaults \in Nat /\ MaxAsks \in Nat
    /\ NoItem \notin Items /\ NoTask \notin Tasks /\ NoActor \notin Actors

VARIABLES
    item,     \* rss_items
    task,     \* download_tasks, and the item that each was made for
    calls,    \* tasks whose end TaskService has yet to report
    lock,     \* itemLocks
    refresh,  \* the holder of the source's refreshLock
    act,      \* the actors
    faults,   \* faults left
    asks      \* requests left

vars == <<item, task, calls, lock, refresh, act, faults, asks>>

Statuses == {"new", "unsupported", "ignored", "matched", "enqueued", "retry_pending",
             "completed", "needs_attention"}

\* due: next_retry_at has passed; result: result_vfs_node_id is set.  The retry
\* count only matters up to MaxRetry.
Row == [status : Statuses \cup {"absent"}, task : Tasks \cup {NoTask}, result : BOOLEAN,
        retries : 0 .. MaxRetry, due : BOOLEAN, link : BOOLEAN]

Ended == {"completed", "failed", "canceled"}

\* node: result_vfs_node_id is set.  A failed task is one whose error is to be
\* retried; one that failed for good is treated as a canceled one.
Task == [status : {"none", "live"} \cup Ended, node : BOOLEAN, item : Items \cup {NoItem}]

Loops == {"refresh", "run", "cycle", "callback"}
Points == {"idle", "next", "upsert", "process", "check", "enqueue", "enqTask", "enqMatched",
           "create", "enqUpdate", "refind", "mark", "ignTask", "ignUpdate",
           "list", "taskRead", "apply"}

NoRow == [status |-> "absent", task |-> NoTask, result |-> FALSE, retries |-> 0,
          due |-> FALSE, link |-> FALSE]
NoTaskRow == [status |-> "none", node |-> FALSE, item |-> NoItem]

Actor == [pc : Points, op : Loops \cup {"reprocess", "retry", "download", "ignore", "none"},
          todo : SUBSET Items,      \* items of the loop not yet dealt with
          list : [Items -> Row],    \* the rows of these, as the loop listed them
          item : Items \cup {NoItem},
          row : Row,                \* the copy of the operation
          cur : Row,                \* the copy of enqueueItemWithAttempt
          task : Task,              \* the copy of a task
          soft : BOOLEAN,           \* is the error one to retry?
          phase : 0 .. 4,           \* the loop of the retry cycle
          n : 0 .. Limit, max : 0 .. Limit]  \* processed and limit, in the cycle

Idle == [pc |-> "idle", op |-> "none", todo |-> {}, list |-> [i \in Items |-> NoRow],
         item |-> NoItem, row |-> NoRow, cur |-> NoRow, task |-> NoTaskRow, soft |-> FALSE,
         phase |-> 0, n |-> 0, max |-> 0]

TypeOK ==
    /\ item \in [Items -> Row]
    /\ task \in [Tasks -> Task]
    /\ calls \in SUBSET Tasks
    /\ lock \in [Items -> Actors \cup {NoActor}]
    /\ refresh \in Actors \cup {NoActor}
    /\ act \in [Actors -> Actor]
    /\ faults \in 0 .. MaxFaults
    /\ asks \in 0 .. MaxAsks

Init ==
    /\ item = [i \in Items |-> NoRow]
    /\ task = [t \in Tasks |-> NoTaskRow]
    /\ calls = {}
    /\ lock = [i \in Items |-> NoActor]
    /\ refresh = NoActor
    /\ act = [a \in Actors |-> Idle]
    /\ faults = MaxFaults
    /\ asks = MaxAsks

-----------------------------------------------------------------------------
(* Steps shared by the operations *)

At(a, point) == act[a].pc = point
Free(a) == act[a].pc = "idle"
Become(a, q) == act' = [act EXCEPT ![a] = q]

Fault(kind) ==
    /\ kind \in FaultKinds
    /\ faults > 0
    /\ faults' = faults - 1

\* The operation is through with its item: the loop goes on, a request answers.
Through(q) ==
    IF q.op \in Loops
    THEN [q EXCEPT !.pc = "next", !.item = NoItem, !.row = NoRow, !.cur = NoRow,
                   !.task = IF q.op = "callback" THEN q.task ELSE NoTaskRow, !.soft = FALSE]
    ELSE Idle

Release(i) == lock' = [lock EXCEPT ![i] = NoActor]

\* UpdateItem, which may fail
UpdateItem(a, row) ==
    \/ item' = [item EXCEPT ![act[a].item] = row] /\ UNCHANGED faults
    \/ Fault("db") /\ UNCHANGED item

\* itemHasActiveTask; a task that cannot be read counts as active.
Active(row) == row.task # NoTask /\ task[row.task].status = "live"

Completed(row) == [row EXCEPT !.status = "completed", !.due = FALSE]

\* Mutant: a completed task without a result node completes the item.
MutantAnyNode(t) == t.status = "completed"

Delivered(t) == t.status = "completed" /\ t.node

\* markItemRetryOrAttention, with preserveRSSItemCompletedResult before it
Marked(row, soft) ==
    IF row.result THEN Completed(row)
    ELSE [row EXCEPT !.status = IF soft /\ row.retries < MaxRetry
                                THEN "retry_pending" ELSE "needs_attention",
                     !.due = FALSE]

\* markItemManualDownloadFailure, which asks for attention whatever the row says
Attention(row) == [row EXCEPT !.status = "needs_attention", !.due = FALSE]

\* The operation ends by marking its copy; a completed one is not written.
Mark(a) ==
    LET q == act[a]
    IN  /\ At(a, "mark")
        /\ \/ q.op = "download" /\ UpdateItem(a, Attention(q.row))
           \/ /\ q.op # "download" /\ ~ (q.row.result /\ q.row.status = "completed")
              /\ UpdateItem(a, Marked(q.row, q.soft))
           \/ /\ q.op # "download" /\ q.row.result /\ q.row.status = "completed"
              /\ UNCHANGED <<item, faults>>
        /\ Become(a, Through(q))
        /\ UNCHANGED <<task, calls, lock, refresh>>

-----------------------------------------------------------------------------
(* enqueueItemWithAttempt, under the lock of the item *)

\* How an error is dealt with: processItem marks the item it holds; a retry
\* and a manual download read it again first.
Failed(q, soft) ==
    [q EXCEPT !.pc = IF q.op \in {"refresh", "run", "reprocess"} THEN "mark" ELSE "refind",
              !.cur = NoRow, !.soft = soft]

\* TryLock and FindItemByID; a lock that is taken is an error to retry.
Enqueue(a) ==
    LET q == act[a]
    IN  /\ At(a, "enqueue")
        /\ \/ /\ lock[q.item] = NoActor
              /\ lock' = [lock EXCEPT ![q.item] = a]
              /\ Become(a, [q EXCEPT !.pc = "enqTask", !.cur = item[q.item]])
              /\ UNCHANGED faults
           \/ /\ lock[q.item] # NoActor
              /\ Become(a, Failed(q, TRUE))
              /\ UNCHANGED <<lock, faults>>
           \/ Fault("db") /\ Become(a, Failed(q, TRUE)) /\ UNCHANGED lock
        /\ UNCHANGED <<item, task, calls, refresh>>

Counted(q) ==
    IF q.op \in {"retry", "cycle"} /\ q.cur.retries < MaxRetry THEN q.cur.retries + 1
    ELSE q.cur.retries

\* An item with an active task, or a completed one, is left alone.
EnqTask(a) ==
    LET q == act[a]
    IN  /\ At(a, "enqTask")
        /\ \/ /\ Active(q.cur) \/ q.cur.status = "completed"
              /\ Become(a, Through(q)) /\ Release(q.item) /\ UNCHANGED faults
           \/ /\ ~ Active(q.cur) /\ q.cur.status # "completed" /\ ~ q.cur.link
              /\ Become(a, Failed(q, FALSE)) /\ Release(q.item) /\ UNCHANGED faults
           \/ /\ ~ Active(q.cur) /\ q.cur.status # "completed" /\ q.cur.link
              /\ Become(a, [q EXCEPT !.pc = "enqMatched",
                                     !.cur = [q.cur EXCEPT !.status = "matched", !.due = FALSE,
                                                           !.retries = Counted(q)]])
              /\ UNCHANGED <<lock, faults>>
           \/ Fault("db") /\ Become(a, Through(q)) /\ Release(q.item)
        /\ UNCHANGED <<item, task, calls, refresh>>

EnqMatched(a) ==
    LET q == act[a]
    IN  /\ At(a, "enqMatched")
        /\ \/ /\ item' = [item EXCEPT ![q.item] = q.cur]
              /\ Become(a, [q EXCEPT !.pc = "create"])
              /\ UNCHANGED <<lock, faults>>
           \/ Fault("db") /\ Become(a, Failed(q, TRUE)) /\ Release(q.item) /\ UNCHANGED item
        /\ UNCHANGED <<task, calls, refresh>>

Unused == {t \in Tasks : task[t].status = "none"}

\* TaskService.Create; its errors are ones to retry or not.
Create(a) ==
    LET q == act[a]
    IN  /\ At(a, "create")
        /\ \/ LET t == CHOOSE t \in Unused : \A u \in Unused : t <= u
              IN  /\ Unused # {}
                  /\ task' = [task EXCEPT ![t] = [NoTaskRow EXCEPT !.status = "live", !.item = q.item]]
                  /\ Become(a, [q EXCEPT !.pc = "enqUpdate",
                                         !.cur = [q.cur EXCEPT !.status = "enqueued", !.task = t]])
                  /\ UNCHANGED <<lock, faults>>
           \/ /\ Fault("create")
              /\ \E soft \in BOOLEAN : Become(a, Failed(q, soft))
              /\ Release(q.item)
              /\ UNCHANGED task
           \/ /\ Unused = {}                  \* bound: no more tasks
              /\ Become(a, Failed(q, FALSE)) /\ Release(q.item)
              /\ UNCHANGED <<task, faults>>
        /\ UNCHANGED <<item, calls, refresh>>

EnqUpdate(a) ==
    LET q == act[a]
    IN  /\ At(a, "enqUpdate")
        /\ \/ item' = [item EXCEPT ![q.item] = q.cur] /\ Become(a, Through(q)) /\ UNCHANGED faults
           \/ Fault("db") /\ Become(a, Failed(q, TRUE)) /\ UNCHANGED item
        /\ Release(q.item)
        /\ UNCHANGED <<task, calls, refresh>>

\* The error paths of retryItemWithSubscription and DownloadItem
Refind(a) ==
    LET q == act[a]
    IN  /\ At(a, "refind")
        /\ \/ Become(a, [q EXCEPT !.pc = "mark", !.row = item[q.item]]) /\ UNCHANGED faults
           \/ Fault("db") /\ Become(a, [q EXCEPT !.pc = "mark"])
        /\ UNCHANGED <<item, task, calls, lock, refresh>>

-----------------------------------------------------------------------------
(* refreshSourceEntity, RunSubscription, ReprocessItem *)

Begin(op) == [Idle EXCEPT !.op = op]

\* ListItems, and the loop's step to one of the items it listed
Walk(q, listed) ==
    [q EXCEPT !.todo = listed, !.list = [i \in Items |-> IF i \in listed THEN item[i] ELSE NoRow]]
Take(q, i, point) ==
    [q EXCEPT !.pc = point, !.item = i, !.row = q.list[i],
              !.todo = q.todo \ {i}, !.list = [q.list EXCEPT ![i] = NoRow]]

\* tryLockRSSSource, and a feed with some of the items
RefreshStart(a) ==
    /\ Free(a) /\ refresh = NoActor
    /\ refresh' = a
    /\ \E feed \in SUBSET Items :
          feed # {} /\ Become(a, [Begin("refresh") EXCEPT !.pc = "next", !.todo = feed])
    /\ UNCHANGED <<item, task, calls, lock, faults>>

\* ListItems of the subscription's source
RunStart(a) ==
    /\ Free(a)
    /\ Become(a, Walk([Begin("run") EXCEPT !.pc = "next"], {i \in Items : item[i] # NoRow}))
    /\ UNCHANGED <<item, task, calls, lock, refresh, faults>>

ReprocessStart(a, i) ==
    /\ Free(a) /\ item[i] # NoRow
    /\ Become(a, [Begin("reprocess") EXCEPT !.pc = "process", !.item = i, !.row = item[i]])
    /\ UNCHANGED <<item, task, calls, lock, refresh, faults>>

\* Mutant: an error in the loops over linked items ends the cycle; here, always.
MutantNoRetries(q) ==
    IF q.phase < 3 THEN [Walk(q, {}) EXCEPT !.pc = "list", !.phase = q.phase + 1] ELSE Idle

\* The next loop of a cycle.  retryDueItems gets what the others left of the
\* limit, and still counts from where they stopped.
NextLoop(q) ==
    CASE q.phase < 3 -> [Walk(q, {}) EXCEPT !.pc = "list", !.phase = q.phase + 1]
      [] q.phase = 3 /\ q.n < Limit -> [Walk(q, {}) EXCEPT !.pc = "list", !.phase = 4, !.max = Limit - q.n]
      [] OTHER -> Idle

\* The next item: a refresh finds its row by the dedup key, a run has listed it.
NextItem(a) ==
    LET q == act[a]
    IN  /\ At(a, "next")
        /\ \/ \E i \in q.todo :
                 /\ q.op = "refresh"
                 /\ Become(a, [q EXCEPT !.pc = "upsert", !.item = i, !.todo = q.todo \ {i}, !.row = item[i]])
                 /\ UNCHANGED refresh
           \/ \E i \in q.todo :
                 /\ q.op = "run" /\ Become(a, Take(q, i, "process")) /\ UNCHANGED refresh
           \/ \E i \in q.todo :
                 /\ q.op = "callback" /\ Become(a, Take(q, i, "apply")) /\ UNCHANGED refresh
           \/ /\ q.todo = {} /\ q.op # "cycle"
              /\ Become(a, Idle)
              /\ refresh' = IF q.op = "refresh" THEN NoActor ELSE refresh
           \/ \E i \in q.todo :
                 q.op = "cycle" /\ q.n < q.max /\ Become(a, Take(q, i, "taskRead")) /\ UNCHANGED refresh
           \/ /\ q.op = "cycle" /\ (q.todo = {} \/ q.n >= q.max)
              /\ Become(a, NextLoop(q)) /\ UNCHANGED refresh
        /\ UNCHANGED <<item, task, calls, lock, faults>>

\* upsertFetchedItem on the copy: status and link follow the feed
Upserted(row, link) ==
    LET status == IF link THEN "new" ELSE "unsupported"
    IN  [row EXCEPT !.link = link,
                    !.status = IF row.status \in {"absent", "new", "ignored", "unsupported"}
                               THEN status ELSE row.status]

Upsert(a) ==
    LET q == act[a]
    IN  /\ At(a, "upsert")
        /\ \/ \E link \in Links :
                 LET row == Upserted(q.row, link)
                 IN  /\ item' = [item EXCEPT ![q.item] = row]
                     /\ Become(a, IF link THEN [q EXCEPT !.pc = "process", !.row = row] ELSE Through(q))
                     /\ UNCHANGED <<refresh, faults>>
           \/ Fault("db") /\ Become(a, Idle) /\ refresh' = NoActor /\ UNCHANGED item
        /\ UNCHANGED <<task, calls, lock>>

\* rssItemAllowsAutomaticProcessing; ReprocessItem only stops at completed.
Allowed(q) ==
    IF q.op = "reprocess" THEN q.row.status # "completed"
    ELSE q.row.link /\ q.row.status \in {"new", "ignored", "matched"}

\* ... and processItem: a match is enqueued, another item ignored
Process(a) ==
    LET q == act[a]
    IN  /\ At(a, "process")
        /\ \/ /\ ~ Allowed(q) \/ (q.row.link /\ Active(q.row))
              /\ Become(a, Through(q)) /\ UNCHANGED <<item, faults>>
           \/ /\ q.op = "reprocess" /\ Allowed(q) /\ ~ q.row.link
              /\ UpdateItem(a, Attention(q.row)) /\ Become(a, Idle)
           \/ /\ Allowed(q) /\ ~ Active(q.row) /\ q.row.link
              /\ \/ Become(a, [q EXCEPT !.pc = "enqueue"]) /\ UNCHANGED <<item, faults>>
                 \/ /\ IF q.row.status = "ignored" THEN UNCHANGED <<item, faults>>
                       ELSE UpdateItem(a, [q.row EXCEPT !.status = "ignored"])
                    /\ Become(a, Through(q))
           \/ Fault("db") /\ Become(a, Through(q)) /\ UNCHANGED item
        /\ UNCHANGED <<task, calls, lock, refresh>>

-----------------------------------------------------------------------------
(* RetryItem, DownloadItem, ignoreRSSItem *)

AskStart(a, i, op) ==
    /\ Free(a) /\ item[i] # NoRow
    /\ op \in {"retry", "download"}
    /\ Become(a, [Begin(op) EXCEPT !.pc = "check", !.item = i, !.row = item[i]])
    /\ UNCHANGED <<item, task, calls, lock, refresh, faults>>

\* Answered at once with an active task, when completed, without a link or a
\* subscription
Check(a) ==
    LET q == act[a]
    IN  /\ At(a, "check")
        /\ \/ /\ ~ Active(q.row) /\ q.row.status # "completed" /\ q.row.link
              /\ Become(a, [q EXCEPT !.pc = "enqueue"])
           \/ Become(a, Idle)
        /\ UNCHANGED <<item, task, calls, lock, refresh, faults>>

IgnoreStart(a, i) ==
    /\ Free(a) /\ item[i] # NoRow /\ lock[i] = NoActor
    /\ lock' = [lock EXCEPT ![i] = a]
    /\ Become(a, [Begin("ignore") EXCEPT !.pc = "ignTask", !.item = i, !.row = item[i]])
    /\ UNCHANGED <<item, task, calls, refresh, faults>>

IgnTask(a) ==
    LET q == act[a]
    IN  /\ At(a, "ignTask")
        /\ \/ /\ ~ Active(q.row) /\ q.row.status # "completed"
              /\ Become(a, [q EXCEPT !.pc = "ignUpdate"])
              /\ UNCHANGED lock
           \/ /\ Active(q.row) \/ q.row.status = "completed"
              /\ Become(a, Idle) /\ Release(q.item)
        /\ UNCHANGED <<item, task, calls, refresh, faults>>

IgnUpdate(a) ==
    LET q == act[a]
    IN  /\ At(a, "ignUpdate")
        /\ UpdateItem(a, [q.row EXCEPT !.status = "ignored", !.due = FALSE])
        /\ Become(a, Idle)
        /\ Release(q.item)
        /\ UNCHANGED <<task, calls, refresh>>

-----------------------------------------------------------------------------
(* RunRetryCycle *)

CycleStart(a) ==
    /\ Free(a)
    /\ Become(a, [Begin("cycle") EXCEPT !.pc = "list", !.phase = 1, !.max = Limit])
    /\ UNCHANGED <<item, task, calls, lock, refresh, faults>>

\* Mutants: the enqueued items are left to the call back; only they are listed.
MutantNotEnqueued(phase) == IF phase = 3 THEN "needs_attention" ELSE "retry_pending"
MutantEnqueuedOnly(phase) == IF phase = 4 THEN "retry_pending" ELSE "enqueued"

Listed(phase) == <<"enqueued", "retry_pending", "needs_attention", "retry_pending">>[phase]

\* A loop over linked items passes over one without a task, retryDueItems over
\* one that is not due.
List(a) ==
    LET q == act[a]
        listed == {i \in Items : /\ item[i].status = Listed(q.phase)
                                 /\ IF q.phase < 4 THEN item[i].task # NoTask ELSE item[i].due}
    IN  /\ At(a, "list")
        /\ \/ /\ Become(a, IF listed = {} \/ q.n >= q.max THEN NextLoop(q)
                           ELSE [Walk(q, listed) EXCEPT !.pc = "next"])
              /\ UNCHANGED faults
           \/ Fault("db") /\ Become(a, NextLoop(q))
        /\ UNCHANGED <<item, task, calls, lock, refresh>>

\* What retryDueItems does with an item that is due: one with a live task waits,
\* one with a result gets it back, another is enqueued or, without a link or a
\* subscription, left to the user.
RetryDue(q, t) ==
    LET counted == [q EXCEPT !.n = q.n + 1]
    IN  CASE t.status = "live" -> {Through(q)}
          [] t.status # "live" /\ ~ q.row.result /\ Delivered(t) -> {[q EXCEPT !.pc = "apply", !.task = t]}
          [] t.status # "live" /\ q.row.result -> {[counted EXCEPT !.pc = "mark"]}
          [] OTHER -> {[counted EXCEPT !.pc = "mark"]}
                        \cup (IF q.row.link THEN {[counted EXCEPT !.pc = "enqueue"]} ELSE {})

\* FindByID of the item's task
TaskRead(a) ==
    LET q == act[a]
        t == IF q.row.task = NoTask THEN NoTaskRow ELSE task[q.row.task]
    IN  /\ At(a, "taskRead")
        /\ \/ q.phase < 4 /\ Become(a, [q EXCEPT !.pc = "apply", !.task = t]) /\ UNCHANGED faults
           \/ q.phase = 4 /\ (\E r \in RetryDue(q, t) : Become(a, r)) /\ UNCHANGED faults
           \/ Fault("db") /\ Become(a, Through(q))
        /\ UNCHANGED <<item, task, calls, lock, refresh>>

\* applyRSSItemTaskBacklink: what the item becomes with its task
Applied(row, t) ==
    CASE Delivered(t) -> [Completed(row) EXCEPT !.result = TRUE]
      [] ~ Delivered(t) /\ t.status = "live" /\ ~ row.result -> row
      [] OTHER -> Marked(row, t.status = "failed")

\* ... written unless nothing is to be done.  The cycle counts a task that has
\* ended, unless the write of a result failed.
Apply(a) ==
    LET q == act[a]
        idle == ~ Delivered(q.task) /\ IF q.row.result THEN q.row.status = "completed"
                                       ELSE q.task.status = "live"
        counts == q.op = "cycle" /\ q.task.status \in Ended
        counted == Through([q EXCEPT !.n = IF counts THEN q.n + 1 ELSE q.n])
    IN  /\ At(a, "apply")
        /\ \/ idle /\ Become(a, counted) /\ UNCHANGED <<item, faults>>
           \/ /\ ~ idle
              /\ item' = [item EXCEPT ![q.item] = Applied(q.row, q.task)]
              /\ Become(a, counted) /\ UNCHANGED faults
           \/ /\ ~ idle
              /\ Fault("db") /\ UNCHANGED item
              /\ Become(a, IF Delivered(q.task) THEN Through(q) ELSE counted)
        /\ UNCHANGED <<task, calls, lock, refresh>>

-----------------------------------------------------------------------------
(* TaskService, time and the process *)

\* A task ends once, and TaskService then reports it.
TaskEnds(t) ==
    /\ task[t].status = "live"
    /\ \E end \in Ended, node \in BOOLEAN :
          /\ node => end = "completed"
          /\ task' = [task EXCEPT ![t].status = end, ![t].node = node]
    /\ calls' = calls \cup {t}
    /\ UNCHANGED <<item, lock, refresh, act, faults>>

\* OnTaskTerminalStatus, with the task as TaskService holds it
CallbackStart(a, t) ==
    /\ Free(a) /\ t \in calls
    /\ calls' = calls \ {t}
    /\ \/ /\ Become(a, Walk([Begin("callback") EXCEPT !.pc = "next", !.task = task[t]],
                            {i \in Items : item[i].task = t}))
          /\ UNCHANGED faults
       \/ Fault("db") /\ UNCHANGED act
    /\ UNCHANGED <<item, task, lock, refresh>>

\* next_retry_at passes, in the row and in the copies of it.
Elapsed(row) == IF row.status = "retry_pending" THEN [row EXCEPT !.due = TRUE] ELSE row
Elapse(i) ==
    /\ item[i].status = "retry_pending" /\ ~ item[i].due
    /\ item' = [item EXCEPT ![i] = Elapsed(item[i])]
    /\ act' = [a \in Actors |->
                  LET q == [act[a] EXCEPT !.list = [act[a].list EXCEPT ![i] = Elapsed(act[a].list[i])]]
                  IN  IF q.item = i THEN [q EXCEPT !.row = Elapsed(q.row), !.cur = Elapsed(q.cur)] ELSE q]
    /\ UNCHANGED <<task, calls, lock, refresh, faults>>

\* The process restarts: the goroutines, their locks and the calls are gone.
Crash ==
    /\ Fault("crash")
    /\ act' = [a \in Actors |-> Idle]
    /\ lock' = [i \in Items |-> NoActor]
    /\ refresh' = NoActor
    /\ calls' = {}
    /\ UNCHANGED <<item, task>>

Ask(a) ==
    /\ asks > 0
    /\ asks' = asks - 1
    /\ \/ "refresh" \in Requests /\ RefreshStart(a)
       \/ "run" \in Requests /\ RunStart(a)
       \/ \E i \in Items :
             \/ "reprocess" \in Requests /\ ReprocessStart(a, i)
             \/ \E op \in Requests : AskStart(a, i, op)
             \/ "ignore" \in Requests /\ IgnoreStart(a, i)

Step(a) ==
    /\ \/ Enqueue(a) \/ EnqTask(a) \/ EnqMatched(a) \/ Create(a) \/ EnqUpdate(a) \/ Refind(a)
       \/ Mark(a) \/ NextItem(a) \/ Upsert(a) \/ Process(a) \/ Check(a)
       \/ IgnTask(a) \/ IgnUpdate(a) \/ List(a) \/ TaskRead(a) \/ Apply(a)
    /\ UNCHANGED asks

\* The rest of the process, TaskService and time
Background ==
    /\ \/ CycleStart(Worker)
       \/ \E a \in Actors \ {Worker}, t \in Tasks : CallbackStart(a, t)
       \/ \E t \in Tasks : TaskEnds(t)
       \/ \E i \in Items : Elapse(i)
       \/ Crash
    /\ UNCHANGED asks

Next ==
    \/ \E a \in Actors : Step(a)
    \/ \E a \in Actors \ {Worker} : Ask(a)
    \/ Background

Spec == Init /\ [][Next]_vars

-----------------------------------------------------------------------------
(* Properties *)

\* An item is completed only with a result, and only when a task that was made
\* for it was completed with a result node (applyRSSItemTaskBacklink), whatever
\* stale copy of the row was written over another meanwhile.
CompletedHasResult ==
    /\ TypeOK
    /\ \A i \in Items :
        item[i].status = "completed" =>
            item[i].result /\ \E t \in Tasks : task[t].item = i /\ task[t].status = "completed" /\ task[t].node

\* An enqueued item whose task has ended leaves that state, even when the call
\* back was lost or came before the item was linked (reconcileTaskBacklinks).
EnqueuedSettles ==
    \A i \in Items :
        LET over == item[i].status = "enqueued" /\ task[item[i].task].status \in Ended
        IN  over ~> ~ over

\* A result node reaches the item of its task, even one that an old error has
\* left waiting or in need of attention (reconcileTaskBacklinks lists these too).
ResultArrives ==
    \A i \in Items :
        LET owed == /\ item[i].status \in {"enqueued", "retry_pending", "needs_attention"}
                    /\ item[i].task # NoTask
                    /\ task[item[i].task].status = "completed" /\ task[item[i].task].node
        IN  owed ~> ~ owed

\* An item whose enqueueing failed before it had a task is retried by the
\* worker (retryDueItems).
UnlinkedRetried ==
    \A i \in Items :
        (item[i].status = "retry_pending" /\ item[i].task = NoTask)
            ~> ~ (item[i].status = "retry_pending" /\ item[i].task = NoTask)

\* An item that waits to be retried is (docs: three times, after 5 minutes, 30
\* minutes and 2 hours).
AutoRetried ==
    \A i \in Items : item[i].status = "retry_pending" ~> item[i].status # "retry_pending"
=============================================================================
