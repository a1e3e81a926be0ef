----------------------------- MODULE RSSProofs -----------------------------
(***************************************************************************)
(* Proofs about RSS for any number of items, tasks, sources, subscriptions *)
(* and goroutines, any limits, requests, faults and links.                 *)
(*                                                                         *)
(* Items: what is called completed has its result.  Feeds: whatever        *)
(* goroutines refresh, edit, delete and import at once, the configuration  *)
(* is the one last asked for wherever only one of them had the row in      *)
(* hand, and a health that is worse than ok has been told of.              *)
(***************************************************************************)
EXTENDS RSS, FiniteSetTheorems, WellFoundedInduction, TLAPS

-----------------------------------------------------------------------------
(* Items *)

\* A task that was made for the item has been completed with a result node.
Made(tk, i) ==
    \E t \in Tasks : tk[t].item = i /\ tk[t].status = "completed" /\ tk[t].node

\* What holds of every copy of an item's row, however old: it is completed only
\* with a result, has one only if a task of the item brought it, and is linked
\* only to a task of the item.
RowOK(tk, i, row) ==
    /\ row.status = "completed" => row.result
    /\ row.result => Made(tk, i)
    /\ row.task # NoTask => tk[row.task].item = i /\ tk[row.task].status # "none"

WithItem == Points \ {"idle", "next", "list"}

\* A goroutine's copies, the task it is about to apply to its item or, in a call
\* back, to the items it has listed; the cycle's count is below its limit.
ActorOK(tk, q) ==
    /\ \A i \in Items : RowOK(tk, i, q.list[i])
    /\ q.pc \in WithItem => q.item \in Items
    /\ q.item \in Items => RowOK(tk, q.item, q.row) /\ RowOK(tk, q.item, q.cur)
    /\ q.pc = "apply" /\ Delivered(q.task) => Made(tk, q.item)
    /\ q.op = "callback" /\ Delivered(q.task) => \A i \in q.todo : Made(tk, i)
    /\ q.pc \in {"list", "taskRead"} => q.op = "cycle"
    /\ q.pc \in {"taskRead", "apply"} /\ q.op = "cycle" => q.n < Limit
    /\ q.pc \notin WithItem => q.item = NoItem /\ q.cur = NoRow

\* The inductive invariant behind CompletedHasResult
ItemInv ==
    /\ TypeOK
    /\ \A i \in Items : RowOK(task, i, item[i])
    /\ \A a \in Actors : ActorOK(task, act[a])

-----------------------------------------------------------------------------
(* Rows *)

LEMMA NoRowOK ==
    /\ NoRow \in Row /\ NoTaskRow \in Task /\ ~ Delivered(NoTaskRow)
    /\ \A tk, i : RowOK(tk, i, NoRow)
<1>1. NoRow \in Row
  BY RSSAssumption DEF NoRow, Row
<1>2. NoTaskRow \in Task /\ ~ Delivered(NoTaskRow)
  BY DEF NoTaskRow, Task, Delivered
<1>3. NoRow.status = "absent" /\ NoRow.task = NoTask /\ NoRow.result = FALSE
  BY DEF NoRow
<1>. QED
  BY <1>1, <1>2, <1>3 DEF RowOK

\* A row that keeps task and result, and is completed only with a result, is as
\* good as the one it was made from.
LEMMA RowFrom ==
    ASSUME NEW tk, NEW i \in Items, NEW row \in Row, NEW r \in Row, RowOK(tk, i, row),
           r.task = row.task, r.result = row.result,
           r.status = "completed" => r.status = row.status \/ r.result
    PROVE  RowOK(tk, i, r)
  BY DEF RowOK

\* What the operations write.
LEMMA MarkedOK ==
    ASSUME NEW tk, NEW i \in Items, NEW row \in Row, RowOK(tk, i, row), NEW soft \in BOOLEAN
    PROVE  Marked(row, soft) \in Row /\ RowOK(tk, i, Marked(row, soft))
<1>1. CASE row.result
  <2>1. Marked(row, soft) = [row EXCEPT !.status = "completed", !.due = FALSE]
    BY <1>1 DEF Marked, Completed
  <2>. QED
    BY <1>1, <2>1 DEF RowOK, Row, Statuses
<1>2. CASE ~ row.result
  <2>1. PICK s \in {"retry_pending", "needs_attention"} :
          Marked(row, soft) = [row EXCEPT !.status = s, !.due = FALSE]
    BY <1>2 DEF Marked
  <2>2. [row EXCEPT !.status = s, !.due = FALSE] \in Row
    BY DEF Row, Statuses
  <2>. QED
    BY <1>2, <2>1, <2>2 DEF RowOK, Row
<1>. QED
  BY <1>1, <1>2

LEMMA AttentionOK ==
    ASSUME NEW tk, NEW i \in Items, NEW row \in Row, RowOK(tk, i, row)
    PROVE  Attention(row) \in Row /\ RowOK(tk, i, Attention(row))
  BY ZenonT(60) DEF Attention, RowOK, Row, Statuses

LEMMA UpsertedOK ==
    ASSUME NEW tk, NEW i \in Items, NEW row \in Row, RowOK(tk, i, row), NEW link \in BOOLEAN
    PROVE  Upserted(row, link) \in Row /\ RowOK(tk, i, Upserted(row, link))
<1>1. PICK s \in {"new", "unsupported", row.status} :
        Upserted(row, link) = [row EXCEPT !.link = link, !.status = s]
  BY DEF Upserted
<1>2. s \in Statuses \cup {"absent"}
  BY DEF Row, Statuses
<1>3. [row EXCEPT !.link = link, !.status = s] \in Row
  BY <1>2 DEF Row
<1>. QED
  BY <1>1, <1>3 DEF RowOK, Row

LEMMA AppliedOK ==
    ASSUME NEW tk, NEW i \in Items, NEW row \in Row, RowOK(tk, i, row), NEW t \in Task,
           Delivered(t) => Made(tk, i)
    PROVE  Applied(row, t) \in Row /\ RowOK(tk, i, Applied(row, t))
<1>1. CASE Delivered(t)
  <2>1. Applied(row, t) = [[row EXCEPT !.status = "completed", !.due = FALSE] EXCEPT !.result = TRUE]
    BY <1>1 DEF Applied, Completed
  <2>. QED
    BY <1>1, <2>1, ZenonT(60) DEF RowOK, Row, Statuses
<1>2. CASE ~ Delivered(t) /\ t.status = "live" /\ ~ row.result
  BY <1>2 DEF Applied
<1>3. CASE ~ Delivered(t) /\ ~ (t.status = "live" /\ ~ row.result)
  <2>1. Applied(row, t) = Marked(row, t.status = "failed")
    BY <1>3 DEF Applied
  <2>2. PICK soft \in BOOLEAN : soft = (t.status = "failed")
    OBVIOUS
  <2>3. Marked(row, soft) \in Row /\ RowOK(tk, i, Marked(row, soft))
    BY MarkedOK
  <2>. QED
    BY <2>1, <2>2, <2>3
<1>. QED
  BY <1>1, <1>2, <1>3

LEMMA ElapsedOK ==
    ASSUME NEW tk, NEW i \in Items, NEW row \in Row, RowOK(tk, i, row)
    PROVE  Elapsed(row) \in Row /\ RowOK(tk, i, Elapsed(row))
  BY DEF Elapsed, RowOK, Row

-----------------------------------------------------------------------------
(* Goroutines *)

LEMMA ActorFields ==
    ASSUME NEW q \in Actor
    PROVE  /\ q.row \in Row /\ q.cur \in Row /\ q.task \in Task /\ q.list \in [Items -> Row]
           /\ q.item \in Items \cup {NoItem} /\ q.todo \in SUBSET Items
           /\ q.n \in 0 .. Limit /\ q.max \in 0 .. Limit /\ q.phase \in 0 .. 4
           /\ q.soft \in BOOLEAN /\ q.pc \in Points
  BY DEF Actor

LEMMA IdleOK ==
    /\ Idle \in Actor
    /\ Idle.pc = "idle" /\ Idle.item = NoItem /\ Idle.op = "none" /\ Idle.todo = {}
    /\ Idle.cur = NoRow /\ Idle.row = NoRow /\ Idle.task = NoTaskRow
    /\ \A i \in Items : Idle.list[i] = NoRow
    /\ \A tk : ActorOK(tk, Idle)
<1>1. Idle \in Actor
  BY NoRowOK, RSSAssumption DEF Idle, Actor, Points
<1>2. /\ Idle.pc = "idle" /\ Idle.item = NoItem /\ Idle.op = "none" /\ Idle.todo = {}
      /\ Idle.cur = NoRow /\ Idle.row = NoRow /\ Idle.task = NoTaskRow
      /\ \A i \in Items : Idle.list[i] = NoRow
  BY DEF Idle
<1>3. ASSUME NEW tk PROVE ActorOK(tk, Idle)
  BY <1>2, NoRowOK, RSSAssumption DEF ActorOK, WithItem
<1>. QED
  BY <1>1, <1>2, <1>3

\* The operation goes on to its next item, or ends.
LEMMA ThroughOK ==
    ASSUME NEW tk, NEW q \in Actor, ActorOK(tk, q)
    PROVE  Through(q) \in Actor /\ ActorOK(tk, Through(q))
<1>1. CASE q.op \in Loops
  <2>. DEFINE t == IF q.op = "callback" THEN q.task ELSE NoTaskRow
              r == [q EXCEPT !.pc = "next", !.item = NoItem, !.row = NoRow, !.cur = NoRow,
                             !.task = t, !.soft = FALSE]
  <2>1. Through(q) = r
    BY <1>1 DEF Through
  <2>2. t \in Task /\ (q.op # "callback" \/ t = q.task)
    BY NoRowOK, ActorFields
  <2>. HIDE DEF t
  <2>3. r \in Actor
    BY <2>2, NoRowOK, ZenonT(60) DEF Actor, Points
  <2>4. /\ r.pc = "next" /\ r.item = NoItem /\ r.cur = NoRow /\ r.task = t /\ r.op = q.op
        /\ r.list = q.list /\ r.todo = q.todo
    BY DEF Actor
  <2>. HIDE DEF r
  <2>5. ActorOK(tk, r)
    BY <2>2, <2>4, RSSAssumption DEF ActorOK, WithItem
  <2>. QED
    BY <2>1, <2>3, <2>5
<1>2. CASE q.op \notin Loops
  BY <1>2, IdleOK DEF Through
<1>. QED
  BY <1>1, <1>2

\* ... or deals with an error.
LEMMA FailedOK ==
    ASSUME NEW tk, NEW q \in Actor, ActorOK(tk, q), q.pc \in WithItem, NEW soft \in BOOLEAN
    PROVE  Failed(q, soft) \in Actor /\ ActorOK(tk, Failed(q, soft))
<1>1. PICK pc \in {"mark", "refind"} :
        Failed(q, soft) = [q EXCEPT !.pc = pc, !.cur = NoRow, !.soft = soft]
  BY DEF Failed
<1>. DEFINE r == [q EXCEPT !.pc = pc, !.cur = NoRow, !.soft = soft]
<1>2. r \in Actor
  BY NoRowOK, ZenonT(60) DEF Actor, Points
<1>3. /\ r.pc = pc /\ r.item = q.item /\ r.task = q.task /\ r.op = q.op /\ r.row = q.row
      /\ r.cur = NoRow /\ r.list = q.list /\ r.todo = q.todo
  BY DEF Actor
<1>. HIDE DEF r
<1>4. ActorOK(tk, r)
  BY <1>3, NoRowOK DEF ActorOK, WithItem, Points
<1>. QED
  BY <1>1, <1>2, <1>4 DEF r

\* The operation goes on with its item and the same copies.
LEMMA GoesOn ==
    ASSUME NEW tk, NEW q \in Actor, ActorOK(tk, q), NEW r \in Actor,
           q.item \in Items, r.item = q.item, r.list = q.list, r.todo = q.todo, r.op = q.op,
           RowOK(tk, q.item, r.row), RowOK(tk, q.item, r.cur),
           r.task = q.task \/ (q.op # "callback"),
           r.pc = "apply" => (Delivered(r.task) => Made(tk, q.item)) /\ r.n < Limit,
           r.pc \in WithItem \ {"taskRead"}
    PROVE  ActorOK(tk, r)
  BY DEF ActorOK, WithItem

-----------------------------------------------------------------------------
(* Steps of one goroutine *)

\* What a step of a goroutine may do to the items: write one row.
Writes ==
    \/ item' = item
    \/ \E i \in Items, row \in Row : RowOK(task, i, row) /\ item' = [item EXCEPT ![i] = row]

\* The types of what a step leaves alone or only locks and counts.
SmallTypes ==
    /\ calls' \in SUBSET Tasks
    /\ lock' \in [Items -> Actors \cup {NoActor}]
    /\ refresh' \in Actors \cup {NoActor}
    /\ faults' \in 0 .. MaxFaults

LEMMA Moves ==
    ASSUME ItemInv, NEW a \in Actors, NEW r \in Actor, ActorOK(task, r), Become(a, r),
           task' = task, Writes, SmallTypes, asks' \in 0 .. MaxAsks
    PROVE  ItemInv'
<1>1. act' \in [Actors -> Actor] /\ act'[a] = r /\ \A b \in Actors \ {a} : act'[b] = act[b]
  BY DEF Become, ItemInv, TypeOK
<1>2. item' \in [Items -> Row] /\ \A i \in Items : RowOK(task', i, item'[i])
  BY DEF Writes, ItemInv, TypeOK
<1>3. TypeOK'
  BY <1>1, <1>2 DEF SmallTypes, ItemInv, TypeOK
<1>4. ASSUME NEW b \in Actors PROVE ActorOK(task', act'[b])
  <2>1. ActorOK(task, act'[b])
    BY <1>1 DEF ItemInv
  <2>. QED
    BY <2>1
<1>. QED
  BY <1>2, <1>3, <1>4 DEF ItemInv

LEMMA FaultType ==
    ASSUME ItemInv, NEW kind, Fault(kind)
    PROVE  faults' \in 0 .. MaxFaults
  BY RSSAssumption DEF ItemInv, TypeOK, Fault

LEMMA ReleaseType ==
    ASSUME ItemInv, NEW i \in Items, Release(i)
    PROVE  lock' \in [Items -> Actors \cup {NoActor}]
  BY DEF ItemInv, TypeOK, Release

LEMMA UpdateWrites ==
    ASSUME ItemInv, NEW a \in Actors, act[a].item \in Items, NEW row \in Row,
           RowOK(task, act[a].item, row), UpdateItem(a, row)
    PROVE  Writes /\ faults' \in 0 .. MaxFaults
<1>1. faults' \in 0 .. MaxFaults
  BY FaultType DEF UpdateItem, ItemInv, TypeOK
<1>. QED
  BY <1>1 DEF UpdateItem, Writes

\* A goroutine that has an item in hand.
LEMMA Working ==
    ASSUME ItemInv, NEW a \in Actors, act[a].pc \in WithItem
    PROVE  /\ act[a] \in Actor /\ ActorOK(task, act[a]) /\ act[a].item \in Items
           /\ act[a].row \in Row /\ act[a].cur \in Row /\ act[a].task \in Task
           /\ RowOK(task, act[a].item, act[a].row) /\ RowOK(task, act[a].item, act[a].cur)
           /\ item[act[a].item] \in Row /\ RowOK(task, act[a].item, item[act[a].item])
<1>1. PICK q \in Actor : q = act[a] /\ ActorOK(task, q)
  BY DEF ItemInv, TypeOK
<1>2. q.item \in Items /\ RowOK(task, q.item, q.row) /\ RowOK(task, q.item, q.cur)
  BY <1>1 DEF ActorOK
<1>3. q.row \in Row /\ q.cur \in Row /\ q.task \in Task
  BY ActorFields
<1>4. item[q.item] \in Row /\ RowOK(task, q.item, item[q.item])
  BY <1>2 DEF ItemInv, TypeOK
<1>. QED
  BY <1>1, <1>2, <1>3, <1>4

\* ... and keeps it, with other copies.
LEMMA HoldsAndKeeps ==
    ASSUME NEW tk, NEW q \in Actor, ActorOK(tk, q), q.item \in Items,
           NEW pc \in WithItem \ {"apply", "taskRead"},
           NEW row \in Row, NEW cur \in Row, RowOK(tk, q.item, row), RowOK(tk, q.item, cur),
           NEW r, r = [q EXCEPT !.pc = pc, !.row = row, !.cur = cur]
    PROVE  r \in Actor /\ ActorOK(tk, r)
<1>1. r \in Actor
  BY DEF Actor, WithItem
<1>2. /\ r.pc = pc /\ r.pc \in WithItem \ {"apply", "taskRead"}
      /\ r.row = row /\ r.cur = cur /\ r.item = q.item /\ r.list = q.list
      /\ r.todo = q.todo /\ r.op = q.op /\ r.task = q.task
  BY DEF Actor
<1>. QED
  BY <1>1, <1>2, GoesOn

LEMMA MarkStep ==
    ASSUME ItemInv, NEW a \in Actors, Mark(a), asks' \in 0 .. MaxAsks
    PROVE  ItemInv'
<1>. DEFINE q == act[a]
<1>0. q.pc = "mark" /\ q.pc \in WithItem /\ Become(a, Through(q))
      /\ UNCHANGED <<task, calls, lock, refresh>>
  BY DEF Mark, At, WithItem, Points
<1>1. /\ q \in Actor /\ ActorOK(task, q) /\ q.item \in Items /\ q.row \in Row
      /\ RowOK(task, q.item, q.row) /\ q.soft \in BOOLEAN
  BY <1>0, Working, ActorFields
<1>2. Through(q) \in Actor /\ ActorOK(task, Through(q))
  BY <1>1, ThroughOK
<1>3. Attention(q.row) \in Row /\ RowOK(task, q.item, Attention(q.row))
  BY <1>1, AttentionOK
<1>4. Marked(q.row, q.soft) \in Row /\ RowOK(task, q.item, Marked(q.row, q.soft))
  <2>1. PICK soft \in BOOLEAN : soft = q.soft
    BY <1>1
  <2>. QED
    BY <1>1, <2>1, MarkedOK
<1>5. Writes /\ faults' \in 0 .. MaxFaults
  <2>1. \/ UpdateItem(a, Attention(q.row)) \/ UpdateItem(a, Marked(q.row, q.soft))
        \/ UNCHANGED <<item, faults>>
    BY DEF Mark
  <2>2. CASE UNCHANGED <<item, faults>>
    BY <2>2 DEF Writes, ItemInv, TypeOK
  <2>. QED
    BY <1>1, <1>3, <1>4, <2>1, <2>2, UpdateWrites
<1>6. SmallTypes
  BY <1>0, <1>5 DEF SmallTypes, ItemInv, TypeOK
<1>. QED
  BY <1>0, <1>2, <1>5, <1>6, Moves

LEMMA EnqueueStep ==
    ASSUME ItemInv, NEW a \in Actors, Enqueue(a), asks' \in 0 .. MaxAsks
    PROVE  ItemInv'
<1>. DEFINE q == act[a]
            r == [q EXCEPT !.pc = "enqTask", !.cur = item[q.item]]
<1>0. q.pc = "enqueue" /\ q.pc \in WithItem /\ UNCHANGED <<item, task, calls, refresh>>
  BY DEF Enqueue, At, WithItem, Points
<1>1. /\ q \in Actor /\ ActorOK(task, q) /\ q.item \in Items /\ q.row \in Row
      /\ RowOK(task, q.item, q.row) /\ item[q.item] \in Row
      /\ RowOK(task, q.item, item[q.item])
  BY <1>0, Working, SMTT(60)
<1>2. r \in Actor /\ ActorOK(task, r)
  <2>0. PICK cur \in Row : cur = item[q.item]
    BY <1>1
  <2>1. r = [q EXCEPT !.pc = "enqTask", !.row = q.row, !.cur = cur]
    BY <1>1, <2>0 DEF Actor
  <2>2. "enqTask" \in WithItem \ {"apply", "taskRead"} /\ RowOK(task, q.item, cur)
    BY <1>1, <2>0 DEF WithItem, Points
  <2>. HIDE DEF r
  <2>. QED
    BY <1>1, <2>1, <2>2, HoldsAndKeeps
<1>3. Failed(q, TRUE) \in Actor /\ ActorOK(task, Failed(q, TRUE))
  BY <1>0, <1>1, FailedOK
<1>4. /\ Become(a, r) \/ Become(a, Failed(q, TRUE))
      /\ lock' = [lock EXCEPT ![q.item] = a] \/ lock' = lock
      /\ Fault("db") \/ UNCHANGED faults
  BY DEF Enqueue
<1>5. Writes /\ SmallTypes
  BY <1>0, <1>1, <1>4, FaultType DEF Writes, SmallTypes, ItemInv, TypeOK
<1>. QED
  BY <1>0, <1>2, <1>3, <1>4, <1>5, Moves

LEMMA EnqTaskStep ==
    ASSUME ItemInv, NEW a \in Actors, EnqTask(a), asks' \in 0 .. MaxAsks
    PROVE  ItemInv'
<1>. DEFINE q == act[a]
            cur == [q.cur EXCEPT !.status = "matched", !.due = FALSE, !.retries = Counted(q)]
            r == [q EXCEPT !.pc = "enqMatched", !.cur = cur]
<1>0. q.pc = "enqTask" /\ q.pc \in WithItem /\ UNCHANGED <<item, task, calls, refresh>>
  BY DEF EnqTask, At, WithItem, Points
<1>1. /\ q \in Actor /\ ActorOK(task, q) /\ q.item \in Items /\ q.row \in Row /\ q.cur \in Row
      /\ RowOK(task, q.item, q.row) /\ RowOK(task, q.item, q.cur)
  BY <1>0, Working
<1>2. cur \in Row /\ RowOK(task, q.item, cur)
  <2>1. Counted(q) \in 0 .. MaxRetry
    BY <1>1, RSSAssumption DEF Counted, Row
  <2>2. cur \in Row /\ cur.task = q.cur.task /\ cur.result = q.cur.result /\ cur.status = "matched"
    BY <1>1, <2>1 DEF Row, Statuses
  <2>. QED
    BY <1>1, <2>2, RowFrom
<1>3. Become(a, r) \/ Become(a, Through(q)) \/ Become(a, Failed(q, FALSE))
  BY DEF EnqTask
<1>. HIDE DEF cur
<1>4. r \in Actor /\ ActorOK(task, r)
  <2>1. r = [q EXCEPT !.pc = "enqMatched", !.row = q.row, !.cur = cur]
    BY <1>1 DEF Actor
  <2>2. "enqMatched" \in WithItem \ {"apply", "taskRead"}
    BY DEF WithItem, Points
  <2>. QED
    BY <1>1, <1>2, <2>1, <2>2, HoldsAndKeeps
<1>5. Failed(q, FALSE) \in Actor /\ ActorOK(task, Failed(q, FALSE))
  BY <1>0, <1>1, FailedOK
<1>6. Through(q) \in Actor /\ ActorOK(task, Through(q))
  BY <1>1, ThroughOK
<1>7. Writes /\ SmallTypes
  <2>1. (Release(q.item) \/ UNCHANGED lock) /\ (Fault("db") \/ UNCHANGED faults)
    BY DEF EnqTask
  <2>. QED
    BY <1>0, <1>1, <2>1, FaultType, ReleaseType DEF Writes, SmallTypes, ItemInv, TypeOK
<1>. QED
  BY <1>0, <1>3, <1>4, <1>5, <1>6, <1>7, Moves

LEMMA EnqMatchedStep ==
    ASSUME ItemInv, NEW a \in Actors, EnqMatched(a), asks' \in 0 .. MaxAsks
    PROVE  ItemInv'
<1>. DEFINE q == act[a]
            r == [q EXCEPT !.pc = "create"]
<1>0. q.pc = "enqMatched" /\ q.pc \in WithItem /\ UNCHANGED <<task, calls, refresh>>
  BY DEF EnqMatched, At, WithItem, Points
<1>1. /\ q \in Actor /\ ActorOK(task, q) /\ q.item \in Items /\ q.row \in Row /\ q.cur \in Row
      /\ RowOK(task, q.item, q.row) /\ RowOK(task, q.item, q.cur)
  BY <1>0, Working, SMTT(60)
<1>2. r \in Actor /\ ActorOK(task, r)
  <2>1. r = [q EXCEPT !.pc = "create", !.row = q.row, !.cur = q.cur]
    BY <1>1 DEF Actor
  <2>2. "create" \in WithItem \ {"apply", "taskRead"}
    BY DEF WithItem, Points
  <2>. QED
    BY <1>1, <2>1, <2>2, HoldsAndKeeps
<1>3. Failed(q, TRUE) \in Actor /\ ActorOK(task, Failed(q, TRUE))
  BY <1>0, <1>1, FailedOK
<1>4. /\ Become(a, r) \/ Become(a, Failed(q, TRUE))
      /\ Release(q.item) \/ UNCHANGED lock
      /\ item' = [item EXCEPT ![q.item] = q.cur] \/ UNCHANGED item
      /\ Fault("db") \/ UNCHANGED faults
  BY DEF EnqMatched
<1>5. Writes
  BY <1>1, <1>4 DEF Writes
<1>6. SmallTypes
  BY <1>0, <1>1, <1>4, FaultType, ReleaseType DEF SmallTypes, ItemInv, TypeOK
<1>. QED
  BY <1>0, <1>2, <1>3, <1>4, <1>5, <1>6, Moves

LEMMA EnqUpdateStep ==
    ASSUME ItemInv, NEW a \in Actors, EnqUpdate(a), asks' \in 0 .. MaxAsks
    PROVE  ItemInv'
<1>. DEFINE q == act[a]
<1>0. q.pc = "enqUpdate" /\ q.pc \in WithItem /\ UNCHANGED <<task, calls, refresh>>
  BY DEF EnqUpdate, At, WithItem, Points
<1>1. /\ q \in Actor /\ ActorOK(task, q) /\ q.item \in Items /\ q.cur \in Row
      /\ RowOK(task, q.item, q.cur)
  BY <1>0, Working
<1>2. Through(q) \in Actor /\ ActorOK(task, Through(q))
  BY <1>1, ThroughOK
<1>3. Failed(q, TRUE) \in Actor /\ ActorOK(task, Failed(q, TRUE))
  BY <1>0, <1>1, FailedOK
<1>4. /\ Become(a, Through(q)) \/ Become(a, Failed(q, TRUE))
      /\ Release(q.item)
      /\ item' = [item EXCEPT ![q.item] = q.cur] \/ UNCHANGED item
      /\ Fault("db") \/ UNCHANGED faults
  BY DEF EnqUpdate
<1>5. Writes
  BY <1>1, <1>4 DEF Writes
<1>6. SmallTypes
  BY <1>0, <1>1, <1>4, FaultType, ReleaseType DEF SmallTypes, ItemInv, TypeOK
<1>. QED
  BY <1>0, <1>2, <1>3, <1>4, <1>5, <1>6, Moves

LEMMA RefindStep ==
    ASSUME ItemInv, NEW a \in Actors, Refind(a), asks' \in 0 .. MaxAsks
    PROVE  ItemInv'
<1>. DEFINE q == act[a]
            r == [q EXCEPT !.pc = "mark", !.row = item[q.item]]
            s == [q EXCEPT !.pc = "mark"]
<1>0. q.pc = "refind" /\ q.pc \in WithItem /\ UNCHANGED <<item, task, calls, lock, refresh>>
  BY DEF Refind, At, WithItem, Points
<1>1. /\ q \in Actor /\ ActorOK(task, q) /\ q.item \in Items /\ q.row \in Row /\ q.cur \in Row
      /\ RowOK(task, q.item, q.row) /\ RowOK(task, q.item, q.cur)
      /\ item[q.item] \in Row /\ RowOK(task, q.item, item[q.item])
  BY <1>0, Working
<1>a. "mark" \in WithItem \ {"apply", "taskRead"}
  BY DEF WithItem, Points
<1>2. r \in Actor /\ ActorOK(task, r)
  <2>0. PICK row \in Row : row = item[q.item]
    BY <1>1
  <2>1. r = [q EXCEPT !.pc = "mark", !.row = row, !.cur = q.cur]
    BY <1>1, <2>0 DEF Actor
  <2>2. RowOK(task, q.item, row)
    BY <1>1, <2>0
  <2>. HIDE DEF r
  <2>. QED
    BY <1>1, <1>a, <2>1, <2>2, HoldsAndKeeps
<1>3. s \in Actor /\ ActorOK(task, s)
  <2>1. s = [q EXCEPT !.pc = "mark", !.row = q.row, !.cur = q.cur]
    BY <1>1 DEF Actor
  <2>. QED
    BY <1>1, <1>a, <2>1, HoldsAndKeeps
<1>4. (Become(a, r) \/ Become(a, s)) /\ (Fault("db") \/ UNCHANGED faults)
  BY DEF Refind
<1>5. Writes /\ SmallTypes
  BY <1>0, <1>4, FaultType DEF Writes, SmallTypes, ItemInv, TypeOK
<1>. QED
  BY <1>0, <1>2, <1>3, <1>4, <1>5, Moves

LEMMA CheckStep ==
    ASSUME ItemInv, NEW a \in Actors, Check(a), asks' \in 0 .. MaxAsks
    PROVE  ItemInv'
<1>. DEFINE q == act[a]
            r == [q EXCEPT !.pc = "enqueue"]
<1>0. q.pc = "check" /\ q.pc \in WithItem /\ UNCHANGED <<item, task, calls, lock, refresh, faults>>
  BY DEF Check, At, WithItem, Points
<1>1. /\ q \in Actor /\ ActorOK(task, q) /\ q.item \in Items /\ q.row \in Row /\ q.cur \in Row
      /\ RowOK(task, q.item, q.row) /\ RowOK(task, q.item, q.cur)
  BY <1>0, Working, SMTT(60)
<1>2. r \in Actor /\ ActorOK(task, r)
  <2>1. r = [q EXCEPT !.pc = "enqueue", !.row = q.row, !.cur = q.cur]
    BY <1>1 DEF Actor
  <2>2. "enqueue" \in WithItem \ {"apply", "taskRead"}
    BY DEF WithItem, Points
  <2>. QED
    BY <1>1, <2>1, <2>2, HoldsAndKeeps
<1>3. Become(a, r) \/ Become(a, Idle)
  BY DEF Check
<1>4. Writes /\ SmallTypes
  BY <1>0 DEF Writes, SmallTypes, ItemInv, TypeOK
<1>. QED
  BY <1>0, <1>2, <1>3, <1>4, IdleOK, Moves

LEMMA IgnTaskStep ==
    ASSUME ItemInv, NEW a \in Actors, IgnTask(a), asks' \in 0 .. MaxAsks
    PROVE  ItemInv'
<1>. DEFINE q == act[a]
            r == [q EXCEPT !.pc = "ignUpdate"]
<1>0. q.pc = "ignTask" /\ q.pc \in WithItem /\ UNCHANGED <<item, task, calls, refresh, faults>>
  BY DEF IgnTask, At, WithItem, Points
<1>1. /\ q \in Actor /\ ActorOK(task, q) /\ q.item \in Items /\ q.row \in Row /\ q.cur \in Row
      /\ RowOK(task, q.item, q.row) /\ RowOK(task, q.item, q.cur)
  BY <1>0, Working
<1>2. r \in Actor /\ ActorOK(task, r)
  <2>1. r = [q EXCEPT !.pc = "ignUpdate", !.row = q.row, !.cur = q.cur]
    BY <1>1 DEF Actor
  <2>2. "ignUpdate" \in WithItem \ {"apply", "taskRead"}
    BY DEF WithItem, Points
  <2>. QED
    BY <1>1, <2>1, <2>2, HoldsAndKeeps
<1>3. (Become(a, r) \/ Become(a, Idle)) /\ (Release(q.item) \/ UNCHANGED lock)
  BY DEF IgnTask
<1>4. Writes /\ SmallTypes
  BY <1>0, <1>1, <1>3, ReleaseType DEF Writes, SmallTypes, ItemInv, TypeOK
<1>. QED
  BY <1>0, <1>2, <1>3, <1>4, IdleOK, Moves

LEMMA IgnUpdateStep ==
    ASSUME ItemInv, NEW a \in Actors, IgnUpdate(a), asks' \in 0 .. MaxAsks
    PROVE  ItemInv'
<1>. DEFINE q == act[a]
            row == [q.row EXCEPT !.status = "ignored", !.due = FALSE]
<1>0. /\ q.pc = "ignUpdate" /\ q.pc \in WithItem /\ UNCHANGED <<task, calls, refresh>>
      /\ Become(a, Idle) /\ Release(q.item) /\ UpdateItem(a, row)
  BY DEF IgnUpdate, At, WithItem, Points
<1>1. q.item \in Items /\ q.row \in Row /\ RowOK(task, q.item, q.row)
  BY <1>0, Working
<1>2. row \in Row /\ row.task = q.row.task /\ row.result = q.row.result /\ row.status = "ignored"
  BY <1>1 DEF Row, Statuses
<1>. HIDE DEF row
<1>3. RowOK(task, q.item, row)
  BY <1>1, <1>2, RowFrom
<1>4. Writes /\ faults' \in 0 .. MaxFaults
  BY <1>0, <1>1, <1>2, <1>3, UpdateWrites
<1>5. SmallTypes
  BY <1>0, <1>1, <1>4, ReleaseType, SMTT(60) DEF SmallTypes, ItemInv, TypeOK
<1>. QED
  BY <1>0, <1>4, <1>5, IdleOK, Moves

LEMMA UpsertStep ==
    ASSUME ItemInv, NEW a \in Actors, Upsert(a), asks' \in 0 .. MaxAsks
    PROVE  ItemInv'
<1>. DEFINE q == act[a]
<1>0. q.pc = "upsert" /\ q.pc \in WithItem /\ UNCHANGED <<task, calls, lock>>
  BY DEF Upsert, At, WithItem, Points
<1>1. /\ q \in Actor /\ ActorOK(task, q) /\ q.item \in Items /\ q.row \in Row /\ q.cur \in Row
      /\ RowOK(task, q.item, q.row) /\ RowOK(task, q.item, q.cur)
  BY <1>0, Working
<1>2. CASE Fault("db") /\ Become(a, Idle) /\ refresh' = NoActor /\ UNCHANGED item
  <2>1. Writes /\ SmallTypes
    BY <1>0, <1>2, FaultType DEF Writes, SmallTypes, ItemInv, TypeOK
  <2>. QED
    BY <1>0, <1>2, <2>1, IdleOK, Moves
<1>3. ASSUME NEW link \in Links, item' = [item EXCEPT ![q.item] = Upserted(q.row, link)],
             Become(a, IF link THEN [q EXCEPT !.pc = "process", !.row = Upserted(q.row, link)]
                               ELSE Through(q)),
             UNCHANGED <<refresh, faults>>
      PROVE  ItemInv'
  <2>0. PICK row \in Row : row = Upserted(q.row, link) /\ RowOK(task, q.item, row)
    <3>1. link \in BOOLEAN
      BY RSSAssumption, SMTT(60)
    <3>. QED
      BY <1>1, <3>1, UpsertedOK
  <2>. DEFINE r == [q EXCEPT !.pc = "process", !.row = row]
  <2>1. r \in Actor /\ ActorOK(task, r)
    <3>1. r = [q EXCEPT !.pc = "process", !.row = row, !.cur = q.cur]
      BY <1>1 DEF Actor
    <3>2. "process" \in WithItem \ {"apply", "taskRead"}
      BY DEF WithItem, Points
    <3>. HIDE DEF r
    <3>. QED
      BY <1>1, <2>0, <3>1, <3>2, HoldsAndKeeps
  <2>2. Through(q) \in Actor /\ ActorOK(task, Through(q))
    BY <1>1, ThroughOK
  <2>3. Become(a, r) \/ Become(a, Through(q))
    BY <1>3, <2>0
  <2>4. Writes
    BY <1>1, <1>3, <2>0 DEF Writes
  <2>5. SmallTypes
    BY <1>0, <1>3 DEF SmallTypes, ItemInv, TypeOK
  <2>. HIDE DEF r
  <2>. QED
    BY <1>0, <2>1, <2>2, <2>3, <2>4, <2>5, Moves
<1>. QED
  BY <1>2, <1>3, ZenonT(60) DEF Upsert

LEMMA ProcessStep ==
    ASSUME ItemInv, NEW a \in Actors, Process(a), asks' \in 0 .. MaxAsks
    PROVE  ItemInv'
<1>. DEFINE q == act[a]
            r == [q EXCEPT !.pc = "enqueue"]
            row == [q.row EXCEPT !.status = "ignored"]
<1>0. q.pc = "process" /\ q.pc \in WithItem /\ UNCHANGED <<task, calls, lock, refresh>>
  BY DEF Process, At, WithItem, Points
<1>1. /\ q \in Actor /\ ActorOK(task, q) /\ q.item \in Items /\ q.row \in Row /\ q.cur \in Row
      /\ RowOK(task, q.item, q.row) /\ RowOK(task, q.item, q.cur)
  BY <1>0, Working
<1>2. r \in Actor /\ ActorOK(task, r)
  <2>1. r = [q EXCEPT !.pc = "enqueue", !.row = q.row, !.cur = q.cur]
    BY <1>1 DEF Actor
  <2>2. "enqueue" \in WithItem \ {"apply", "taskRead"}
    BY DEF WithItem, Points
  <2>. QED
    BY <1>1, <2>1, <2>2, HoldsAndKeeps
<1>3. Through(q) \in Actor /\ ActorOK(task, Through(q))
  BY <1>1, ThroughOK
<1>4. Become(a, r) \/ Become(a, Through(q)) \/ Become(a, Idle)
  BY DEF Process
<1>5. Attention(q.row) \in Row /\ RowOK(task, q.item, Attention(q.row))
  BY <1>1, AttentionOK
<1>6. row \in Row /\ RowOK(task, q.item, row)
  <2>1. row \in Row /\ row.task = q.row.task /\ row.result = q.row.result /\ row.status = "ignored"
    BY <1>1 DEF Row, Statuses
  <2>. HIDE DEF row
  <2>. QED
    BY <1>1, <2>1, RowFrom
<1>7. \/ UNCHANGED <<item, faults>> \/ UpdateItem(a, Attention(q.row)) \/ UpdateItem(a, row)
      \/ Fault("db") /\ UNCHANGED item
  BY DEF Process
<1>. HIDE DEF row, r
<1>8. Writes /\ faults' \in 0 .. MaxFaults
  <2>1. CASE UNCHANGED <<item, faults>> \/ (Fault("db") /\ UNCHANGED item)
    BY <2>1, FaultType DEF Writes, ItemInv, TypeOK
  <2>. QED
    BY <1>1, <1>5, <1>6, <1>7, <2>1, UpdateWrites
<1>9. SmallTypes
  BY <1>0, <1>8 DEF SmallTypes, ItemInv, TypeOK
<1>. QED
  BY <1>0, <1>2, <1>3, <1>4, <1>8, <1>9, IdleOK, Moves

LEMMA TaskReadStep ==
    ASSUME ItemInv, NEW a \in Actors, TaskRead(a), asks' \in 0 .. MaxAsks
    PROVE  ItemInv'
<1>. DEFINE q == act[a]
            t == IF q.row.task = NoTask THEN NoTaskRow ELSE task[q.row.task]
            counted == [q EXCEPT !.n = q.n + 1]
<1>0. q.pc = "taskRead" /\ q.pc \in WithItem /\ UNCHANGED <<item, task, calls, lock, refresh>>
  BY DEF TaskRead, At, WithItem, Points
<1>1. /\ q \in Actor /\ ActorOK(task, q) /\ q.item \in Items /\ q.row \in Row /\ q.cur \in Row
      /\ RowOK(task, q.item, q.row) /\ RowOK(task, q.item, q.cur)
  BY <1>0, Working
<1>2. q.op = "cycle" /\ q.n < Limit /\ q.n \in 0 .. Limit
  BY <1>0, <1>1, ActorFields DEF ActorOK
<1>3. t \in Task /\ (Delivered(t) => Made(task, q.item))
  <2>1. CASE q.row.task = NoTask
    BY <2>1, NoRowOK
  <2>2. CASE q.row.task # NoTask
    <3>1. q.row.task \in Tasks /\ task[q.row.task].item = q.item
      BY <1>1, <2>2 DEF Row, RowOK
    <3>. QED
      BY <2>2, <3>1 DEF ItemInv, TypeOK, Delivered, Made
  <2>. QED
    BY <2>1, <2>2
<1>. HIDE DEF t
<1>4. counted \in Actor
  <2>1. q.n + 1 \in 0 .. Limit
    BY <1>2, RSSAssumption
  <2>. QED
    BY <1>1, <2>1 DEF Actor
<1>5. /\ counted.item = q.item /\ counted.row = q.row /\ counted.cur = q.cur /\ counted.op = q.op
      /\ counted.list = q.list /\ counted.todo = q.todo /\ counted.task = q.task
  BY <1>1 DEF Actor
<1>6. \A pc \in {"mark", "enqueue"} :
        [counted EXCEPT !.pc = pc] \in Actor /\ ActorOK(task, [counted EXCEPT !.pc = pc])
  <2>1. SUFFICES ASSUME NEW pc \in {"mark", "enqueue"}
                 PROVE  LET r == [counted EXCEPT !.pc = pc]
                        IN  r \in Actor /\ ActorOK(task, r)
    OBVIOUS
  <2>. HIDE DEF counted
  <2>. DEFINE r == [counted EXCEPT !.pc = pc]
  <2>2. r \in Actor
    BY <1>4 DEF Actor, Points
  <2>3. /\ r.pc = pc /\ r.item = q.item /\ r.row = q.row /\ r.cur = q.cur /\ r.op = q.op
        /\ r.list = q.list /\ r.todo = q.todo /\ r.task = q.task
    BY <1>4, <1>5 DEF Actor
  <2>4. r.pc \in WithItem \ {"taskRead", "apply"}
    BY <2>3 DEF WithItem, Points
  <2>. HIDE DEF r
  <2>5. ActorOK(task, r)
    BY <1>1, <2>2, <2>3, <2>4, GoesOn
  <2>. QED
    BY <2>2, <2>5 DEF r
<1>7. LET r == [q EXCEPT !.pc = "apply", !.task = t]
      IN  r \in Actor /\ ActorOK(task, r)
  <2>. DEFINE r == [q EXCEPT !.pc = "apply", !.task = t]
  <2>1. r \in Actor
    BY <1>1, <1>3 DEF Actor, Points
  <2>2. /\ r.pc = "apply" /\ r.item = q.item /\ r.row = q.row /\ r.cur = q.cur /\ r.op = q.op
        /\ r.list = q.list /\ r.todo = q.todo /\ r.task = t /\ r.n = q.n
        /\ r.pc \in WithItem \ {"taskRead"}
    BY <1>1 DEF Actor, WithItem, Points
  <2>. HIDE DEF r
  <2>3. ActorOK(task, r)
    BY <1>1, <1>2, <1>3, <2>1, <2>2, GoesOn
  <2>. QED
    BY <2>1, <2>3 DEF r
<1>8. Through(q) \in Actor /\ ActorOK(task, Through(q))
  BY <1>1, ThroughOK
<1>9. PICK r : /\ Become(a, r)
               /\ \/ r = [q EXCEPT !.pc = "apply", !.task = t] \/ r = Through(q)
                  \/ \E pc \in {"mark", "enqueue"} : r = [counted EXCEPT !.pc = pc]
  <2>1. CASE q.phase < 4 /\ Become(a, [q EXCEPT !.pc = "apply", !.task = t])
    BY <2>1
  <2>2. CASE \E r \in RetryDue(q, t) : Become(a, r)
    <3>1. PICK r \in RetryDue(q, t) : Become(a, r)
      BY <2>2
    <3>2. \/ r = [q EXCEPT !.pc = "apply", !.task = t] \/ r = Through(q)
          \/ \E pc \in {"mark", "enqueue"} : r = [counted EXCEPT !.pc = pc]
      <4>. HIDE DEF counted
      <4>. QED
        BY <3>1 DEF RetryDue, counted
    <3>. QED
      BY <3>1, <3>2
  <2>3. CASE Become(a, Through(q))
    BY <2>3
  <2>. QED
    BY <2>1, <2>2, <2>3 DEF TaskRead, t
<1>10. r \in Actor /\ ActorOK(task, r)
  <2>. HIDE DEF counted
  <2>. QED
    BY <1>6, <1>7, <1>8, <1>9
<1>11. Writes /\ SmallTypes
  <2>1. Fault("db") \/ UNCHANGED faults
    BY DEF TaskRead
  <2>. QED
    BY <1>0, <2>1, FaultType DEF Writes, SmallTypes, ItemInv, TypeOK
<1>. QED
  BY <1>0, <1>9, <1>10, <1>11, Moves

LEMMA ApplyStep ==
    ASSUME ItemInv, NEW a \in Actors, Apply(a), asks' \in 0 .. MaxAsks
    PROVE  ItemInv'
<1>. DEFINE q == act[a]
            counts == q.op = "cycle" /\ q.task.status \in Ended
            m == [q EXCEPT !.n = IF counts THEN q.n + 1 ELSE q.n]
            row == Applied(q.row, q.task)
<1>0. q.pc = "apply" /\ q.pc \in WithItem /\ UNCHANGED <<task, calls, lock, refresh>>
  BY DEF Apply, At, WithItem, Points
<1>1. /\ q \in Actor /\ ActorOK(task, q) /\ q.item \in Items /\ q.row \in Row
      /\ RowOK(task, q.item, q.row) /\ q.task \in Task
  BY <1>0, Working
<1>2. /\ q.op = "cycle" => q.n < Limit
      /\ q.n \in 0 .. Limit
      /\ Delivered(q.task) => Made(task, q.item)
  BY <1>0, <1>1, ActorFields DEF ActorOK
<1>3. row \in Row /\ RowOK(task, q.item, row)
  BY <1>1, <1>2, AppliedOK
<1>4. m \in Actor /\ \E n \in 0 .. Limit : m = [q EXCEPT !.n = n]
  <2>1. PICK n \in 0 .. Limit : n = IF counts THEN q.n + 1 ELSE q.n
    BY <1>2, RSSAssumption
  <2>2. m = [q EXCEPT !.n = n]
    BY <2>1
  <2>3. [q EXCEPT !.n = n] \in Actor
    BY <1>1, <2>1 DEF Actor
  <2>. HIDE DEF m
  <2>. QED
    BY <2>1, <2>2, <2>3
<1>5. /\ Become(a, Through(m)) \/ Become(a, Through(q))
      /\ UNCHANGED item \/ item' = [item EXCEPT ![q.item] = row]
      /\ Fault("db") \/ UNCHANGED faults
  BY DEF Apply
<1>. HIDE DEF m, row
<1>6. Through(m) \in Actor /\ ActorOK(task, Through(m))
  <2>1. PICK n \in 0 .. Limit : m = [q EXCEPT !.n = n]
    BY <1>4
  <2>2. m.op = q.op /\ m.task = q.task /\ m.list = q.list /\ m.todo = q.todo
    BY <1>1, <2>1 DEF Actor
  <2>3. CASE q.op \notin Loops
    BY <2>2, <2>3, IdleOK DEF Through
  <2>4. CASE q.op \in Loops
    <3>. DEFINE r == Through(m)
                t == IF q.op = "callback" THEN q.task ELSE NoTaskRow
    <3>1. r = [m EXCEPT !.pc = "next", !.item = NoItem, !.row = NoRow, !.cur = NoRow,
                        !.task = t, !.soft = FALSE]
      BY <2>2, <2>4 DEF Through
    <3>2. t \in Task /\ (q.op # "callback" \/ t = q.task)
      BY <1>1, NoRowOK
    <3>. HIDE DEF r, t
    <3>3. r \in Actor
      BY <1>4, <3>1, <3>2, NoRowOK, ZenonT(60) DEF Actor, Points
    <3>4. /\ r.pc = "next" /\ r.item = NoItem /\ r.cur = NoRow /\ r.task = t /\ r.op = q.op
          /\ r.list = q.list /\ r.todo = q.todo
      BY <1>4, <2>2, <3>1 DEF Actor
    <3>5. ActorOK(task, r)
      BY <1>1, <3>2, <3>4, RSSAssumption DEF ActorOK, WithItem
    <3>. QED
      BY <3>3, <3>5 DEF r
  <2>. QED
    BY <2>3, <2>4
<1>7. Through(q) \in Actor /\ ActorOK(task, Through(q))
  BY <1>1, ThroughOK
<1>8. Writes
  BY <1>1, <1>3, <1>5 DEF Writes
<1>9. SmallTypes
  BY <1>0, <1>5, FaultType DEF SmallTypes, ItemInv, TypeOK
<1>. QED
  BY <1>0, <1>5, <1>6, <1>7, <1>8, <1>9, Moves

-----------------------------------------------------------------------------
(* Loops *)

\* A loop lists its rows: every one is that of its item, or none.
LEMMA WalkOK ==
    ASSUME ItemInv, NEW q \in Actor, NEW listed \in SUBSET Items
    PROVE  /\ Walk(q, listed) \in Actor
           /\ Walk(q, listed).todo = listed
           /\ \A i \in Items : RowOK(task, i, Walk(q, listed).list[i])
           /\ LET w == Walk(q, listed)
              IN  /\ w.pc = q.pc /\ w.op = q.op /\ w.item = q.item /\ w.row = q.row
                  /\ w.cur = q.cur /\ w.task = q.task /\ w.n = q.n /\ w.max = q.max
<1>. DEFINE list == [i \in Items |-> IF i \in listed THEN item[i] ELSE NoRow]
<1>1. list \in [Items -> Row] /\ \A i \in Items : RowOK(task, i, list[i])
  BY NoRowOK DEF ItemInv, TypeOK
<1>2. Walk(q, listed) = [q EXCEPT !.todo = listed, !.list = list]
  BY DEF Walk
<1>. HIDE DEF list
<1>. QED
  BY <1>1, <1>2, ZenonT(60) DEF Actor

\* A goroutine that has no item in hand.
LEMMA Listing ==
    ASSUME NEW tk, NEW r, r.pc \in {"next", "list"}, r.item = NoItem, r.cur = NoRow,
           \A i \in Items : RowOK(tk, i, r.list[i]),
           r.pc = "list" => r.op = "cycle",
           r.op = "callback" /\ Delivered(r.task) => \A i \in r.todo : Made(tk, i)
    PROVE  ActorOK(tk, r)
  BY RSSAssumption DEF ActorOK, WithItem

LEMMA NextLoopOK ==
    ASSUME ItemInv, NEW q \in Actor, q.item = NoItem, q.cur = NoRow, q.op = "cycle"
    PROVE  NextLoop(q) \in Actor /\ ActorOK(task, NextLoop(q))
<1>. DEFINE w == Walk(q, {})
<1>0. /\ w \in Actor /\ w.item = NoItem /\ w.cur = NoRow /\ w.op = "cycle"
      /\ \A i \in Items : RowOK(task, i, w.list[i])
  BY WalkOK
<1>a. q.phase \in 0 .. 4 /\ q.n \in 0 .. Limit /\ Limit \in Nat
  BY ActorFields, RSSAssumption
<1>. HIDE DEF w
<1>1. CASE q.phase < 3
  <2>. DEFINE r == [w EXCEPT !.pc = "list", !.phase = q.phase + 1]
  <2>1. NextLoop(q) = r
    BY <1>1 DEF NextLoop, w
  <2>2. q.phase + 1 \in 0 .. 4
    BY <1>1, <1>a
  <2>3. r \in Actor
    BY <1>0, <2>2 DEF Actor, Points
  <2>4. r.pc = "list" /\ r.item = NoItem /\ r.cur = NoRow /\ r.op = "cycle" /\ r.list = w.list
    BY <1>0 DEF Actor
  <2>. HIDE DEF r
  <2>5. ActorOK(task, r)
    BY <1>0, <2>4, Listing
  <2>. QED
    BY <2>1, <2>3, <2>5
<1>2. CASE q.phase = 3 /\ q.n < Limit
  <2>. DEFINE r == [w EXCEPT !.pc = "list", !.phase = 4, !.max = Limit - q.n]
  <2>1. NextLoop(q) = r
    BY <1>2 DEF NextLoop, w
  <2>2. PICK m \in 0 .. Limit : m = Limit - q.n
    BY <1>2, <1>a
  <2>3. r \in Actor
    <3>1. PICK k \in 0 .. 4 : k = 4
      OBVIOUS
    <3>2. [w EXCEPT !.pc = "list", !.phase = k, !.max = m] \in Actor
      BY <1>0, ZenonT(60) DEF Actor, Points
    <3>. QED
      BY <2>2, <3>1, <3>2
  <2>4. r.pc = "list" /\ r.item = NoItem /\ r.cur = NoRow /\ r.op = "cycle" /\ r.list = w.list
    BY <1>0 DEF Actor
  <2>. HIDE DEF r
  <2>5. ActorOK(task, r)
    BY <1>0, <2>4, Listing
  <2>. QED
    BY <2>1, <2>3, <2>5
<1>3. CASE ~ (q.phase < 3) /\ ~ (q.phase = 3 /\ q.n < Limit)
  <2>1. NextLoop(q) = Idle
    BY <1>3 DEF NextLoop
  <2>. QED
    BY <2>1, IdleOK
<1>. QED
  BY <1>1, <1>2, <1>3

\* A loop goes on to an item that it has listed, or a refresh to one of its feed.
LEMMA TakenOK ==
    ASSUME NEW tk, NEW q \in Actor, ActorOK(tk, q), q.pc = "next", NEW i \in q.todo,
           NEW r \in Actor, r.item = i, r.op = q.op, r.task = q.task, r.cur = q.cur, r.n = q.n,
           r.todo = q.todo \ {i}, RowOK(tk, i, r.row),
           \A j \in Items : RowOK(tk, j, r.list[j]),
           \/ r.pc \in {"upsert", "process"} \/ (r.pc = "apply" /\ r.op = "callback")
           \/ (r.pc = "taskRead" /\ r.op = "cycle" /\ r.n < Limit)
    PROVE  ActorOK(tk, r)
<1>1. i \in Items /\ q.cur = NoRow /\ RowOK(tk, i, NoRow)
  BY ActorFields, NoRowOK DEF ActorOK, WithItem
<1>2. q.op = "callback" /\ Delivered(q.task) => \A j \in q.todo : Made(tk, j)
  BY DEF ActorOK
<1>. QED
  BY <1>1, <1>2 DEF ActorOK, WithItem, Points

LEMMA TakeOK ==
    ASSUME NEW tk, NEW q \in Actor, ActorOK(tk, q), q.pc = "next", NEW i \in q.todo,
           NEW pc \in {"process", "apply", "taskRead"},
           pc = "apply" => q.op = "callback", pc = "taskRead" => q.op = "cycle" /\ q.n < Limit
    PROVE  Take(q, i, pc) \in Actor /\ ActorOK(tk, Take(q, i, pc))
<1>. DEFINE list == [q.list EXCEPT ![i] = NoRow]
            r == [q EXCEPT !.pc = pc, !.item = i, !.row = q.list[i], !.todo = q.todo \ {i},
                           !.list = list]
<1>0. /\ i \in Items /\ q.list \in [Items -> Row] /\ q.todo \in SUBSET Items
      /\ \A j \in Items : RowOK(tk, j, q.list[j])
  BY ActorFields DEF ActorOK
<1>1. list \in [Items -> Row] /\ \A j \in Items : RowOK(tk, j, list[j])
  BY <1>0, NoRowOK
<1>2. Take(q, i, pc) = r
  BY DEF Take
<1>. HIDE DEF list
<1>3. r \in Actor
  BY <1>0, <1>1, ZenonT(60) DEF Actor, Points
<1>4. /\ r.pc = pc /\ r.item = i /\ r.op = q.op /\ r.task = q.task /\ r.cur = q.cur /\ r.n = q.n
      /\ r.todo = q.todo \ {i} /\ r.row = q.list[i] /\ r.list = list
  BY DEF Actor
<1>. HIDE DEF r
<1>5. ActorOK(tk, r)
  BY <1>0, <1>1, <1>3, <1>4, TakenOK
<1>. QED
  BY <1>2, <1>3, <1>5

\* Between two items a goroutine has none.
LEMMA BetweenItems ==
    ASSUME ItemInv, NEW a \in Actors, act[a].pc \in {"next", "list"}
    PROVE  /\ act[a] \in Actor /\ ActorOK(task, act[a])
           /\ act[a].item = NoItem /\ act[a].cur = NoRow
<1>1. act[a] \in Actor /\ ActorOK(task, act[a])
  BY DEF ItemInv, TypeOK
<1>. QED
  BY <1>1 DEF ActorOK, WithItem

LEMMA NextItemStep ==
    ASSUME ItemInv, NEW a \in Actors, NextItem(a), asks' \in 0 .. MaxAsks
    PROVE  ItemInv'
<1>. DEFINE q == act[a]
<1>0. q.pc = "next" /\ UNCHANGED <<item, task, calls, lock, faults>>
  BY DEF NextItem, At
<1>1. /\ q \in Actor /\ ActorOK(task, q) /\ q.cur = NoRow /\ q.todo \in SUBSET Items
      /\ q.n \in 0 .. Limit /\ q.max \in 0 .. Limit /\ q.item = NoItem
  BY <1>0, BetweenItems, ActorFields, SMTT(60) DEF ActorOK
<1>2. PICK r : Become(a, r) /\ r \in Actor /\ ActorOK(task, r)
  <2>1. ASSUME NEW i \in q.todo, q.op = "refresh",
               Become(a, [q EXCEPT !.pc = "upsert", !.item = i, !.todo = q.todo \ {i}, !.row = item[i]])
        PROVE  \E r : Become(a, r) /\ r \in Actor /\ ActorOK(task, r)
    <3>. DEFINE s == [q EXCEPT !.pc = "upsert", !.item = i, !.todo = q.todo \ {i}, !.row = item[i]]
    <3>1. i \in Items /\ item[i] \in Row /\ RowOK(task, i, item[i])
      BY <1>1 DEF ItemInv, TypeOK
    <3>2. s \in Actor
      BY <1>1, <3>1, ZenonT(60) DEF Actor, Points
    <3>3. /\ s.pc = "upsert" /\ s.item = i /\ s.op = q.op /\ s.task = q.task /\ s.cur = q.cur
          /\ s.n = q.n /\ s.todo = q.todo \ {i} /\ s.row = item[i] /\ s.list = q.list
      BY <1>1 DEF Actor
    <3>4. \A j \in Items : RowOK(task, j, q.list[j])
      BY <1>1 DEF ActorOK
    <3>5. Become(a, s)
      BY <2>1
    <3>. HIDE DEF s
    <3>6. ActorOK(task, s)
      BY <1>0, <1>1, <3>1, <3>2, <3>3, <3>4, TakenOK
    <3>. QED
      BY <3>2, <3>5, <3>6
  <2>2. ASSUME NEW i \in q.todo,
               \/ q.op = "run" /\ Become(a, Take(q, i, "process"))
               \/ q.op = "callback" /\ Become(a, Take(q, i, "apply"))
               \/ q.op = "cycle" /\ q.n < q.max /\ Become(a, Take(q, i, "taskRead"))
        PROVE  \E r : Become(a, r) /\ r \in Actor /\ ActorOK(task, r)
    <3>1. PICK pc \in {"process", "apply", "taskRead"} :
            /\ Become(a, Take(q, i, pc))
            /\ pc = "apply" => q.op = "callback"
            /\ pc = "taskRead" => q.op = "cycle" /\ q.n < q.max
      BY <2>2
    <3>2. pc = "taskRead" => q.op = "cycle" /\ q.n < Limit
      BY <1>1, <3>1, RSSAssumption
    <3>3. Take(q, i, pc) \in Actor /\ ActorOK(task, Take(q, i, pc))
      BY <1>0, <1>1, <3>1, <3>2, TakeOK
    <3>. QED
      BY <3>1, <3>3
  <2>3. CASE Become(a, Idle)
    BY <2>3, IdleOK
  <2>4. CASE q.op = "cycle" /\ Become(a, NextLoop(q))
    <3>1. NextLoop(q) \in Actor /\ ActorOK(task, NextLoop(q))
      BY <1>1, <2>4, NextLoopOK
    <3>. QED
      BY <2>4, <3>1
  <2>. QED
    BY <2>1, <2>2, <2>3, <2>4, ZenonT(60) DEF NextItem
<1>3. Writes /\ SmallTypes
  <2>1. refresh' = refresh \/ refresh' = NoActor
    BY DEF NextItem
  <2>. QED
    BY <1>0, <2>1, SMTT(60) DEF Writes, SmallTypes, ItemInv, TypeOK
<1>. QED
  BY <1>0, <1>2, <1>3, Moves, SMTT(60)

LEMMA ListStep ==
    ASSUME ItemInv, NEW a \in Actors, List(a), asks' \in 0 .. MaxAsks
    PROVE  ItemInv'
<1>. DEFINE q == act[a]
            listed == {i \in Items : /\ item[i].status = Listed(q.phase)
                                     /\ IF q.phase < 4 THEN item[i].task # NoTask ELSE item[i].due}
            w == Walk(q, listed)
            r == [w EXCEPT !.pc = "next"]
<1>0. q.pc = "list" /\ UNCHANGED <<item, task, calls, lock, refresh>>
  BY DEF List, At
<1>1. q \in Actor /\ ActorOK(task, q) /\ q.cur = NoRow /\ q.op = "cycle" /\ q.item = NoItem
  BY <1>0, BetweenItems DEF ActorOK
<1>2. NextLoop(q) \in Actor /\ ActorOK(task, NextLoop(q))
  BY <1>1, NextLoopOK
<1>3. Become(a, NextLoop(q)) \/ Become(a, r)
  BY DEF List
<1>4. listed \in SUBSET Items
  OBVIOUS
<1>. HIDE DEF listed
<1>5. /\ w \in Actor /\ w.item = NoItem /\ w.cur = NoRow /\ w.op = "cycle"
      /\ \A i \in Items : RowOK(task, i, w.list[i])
  BY <1>1, <1>4, WalkOK
<1>. HIDE DEF w
<1>6. r \in Actor /\ ActorOK(task, r)
  <2>1. r \in Actor
    BY <1>5 DEF Actor, Points
  <2>2. r.pc = "next" /\ r.item = NoItem /\ r.cur = NoRow /\ r.op = "cycle" /\ r.list = w.list
    BY <1>5 DEF Actor
  <2>. HIDE DEF r
  <2>. QED
    BY <1>5, <2>1, <2>2, Listing
<1>. HIDE DEF r
<1>7. Writes /\ SmallTypes
  <2>1. Fault("db") \/ UNCHANGED faults
    BY DEF List
  <2>. QED
    BY <1>0, <2>1, FaultType DEF Writes, SmallTypes, ItemInv, TypeOK
<1>. QED
  BY <1>0, <1>2, <1>3, <1>6, <1>7, Moves

-----------------------------------------------------------------------------
(* Requests, the worker's cycle and calls back *)

\* A goroutine that starts with one item.
LEMMA StartOK ==
    ASSUME ItemInv, NEW i \in Items, NEW op \in {"reprocess", "retry", "download", "ignore"},
           NEW pc \in {"process", "check", "ignTask"},
           NEW r, r = [Begin(op) EXCEPT !.pc = pc, !.item = i, !.row = item[i]]
    PROVE  r \in Actor /\ ActorOK(task, r)
<1>. DEFINE b == Begin(op)
<1>0. PICK row \in Row : row = item[i] /\ RowOK(task, i, row)
  BY DEF ItemInv, TypeOK
<1>1. /\ b \in Actor /\ b.op = op /\ b.cur = NoRow /\ b.todo = {}
      /\ \A j \in Items : b.list[j] = NoRow
  BY IdleOK DEF Begin, Actor, Loops
<1>. HIDE DEF b
<1>2. r = [b EXCEPT !.pc = pc, !.item = i, !.row = row]
  BY <1>0 DEF b
<1>3. r \in Actor
  BY <1>1, <1>2, ZenonT(150) DEF Actor, Points
<1>4. /\ r.pc = pc /\ r.item = i /\ r.row = row /\ r.cur = NoRow /\ r.op = op /\ r.list = b.list
      /\ r.todo = {}
  BY <1>1, <1>2, ZenonT(60) DEF Actor
<1>5. \A j \in Items : RowOK(task, j, r.list[j])
  BY <1>1, <1>4, NoRowOK
<1>6. ActorOK(task, r)
  BY <1>0, <1>4, <1>5, NoRowOK DEF ActorOK, WithItem, Points
<1>. QED
  BY <1>3, <1>6

LEMMA AskStep ==
    ASSUME ItemInv, NEW a \in Actors, Ask(a)
    PROVE  ItemInv'
<1>0. asks' \in 0 .. MaxAsks
  BY RSSAssumption DEF Ask, ItemInv, TypeOK
<1>1. CASE RefreshStart(a)
  <2>1. PICK fd \in SUBSET Items : Become(a, [Begin("refresh") EXCEPT !.pc = "next", !.todo = fd])
    BY <1>1 DEF RefreshStart
  <2>. DEFINE b == Begin("refresh")
              r == [b EXCEPT !.pc = "next", !.todo = fd]
  <2>2. /\ b \in Actor /\ b.op = "refresh" /\ b.cur = NoRow /\ b.item = NoItem
        /\ \A j \in Items : b.list[j] = NoRow
    BY IdleOK DEF Begin, Actor, Loops
  <2>. HIDE DEF b
  <2>3. r \in Actor
    BY <2>2, ZenonT(60) DEF Actor, Points
  <2>4. /\ r.pc = "next" /\ r.item = NoItem /\ r.cur = NoRow /\ r.op = "refresh" /\ r.list = b.list
    BY <2>2 DEF Actor
  <2>5. \A j \in Items : RowOK(task, j, r.list[j])
    BY <2>2, <2>4, NoRowOK
  <2>6. Become(a, r)
    BY <2>1 DEF b
  <2>. HIDE DEF r
  <2>7. ActorOK(task, r)
    BY <2>4, <2>5, Listing
  <2>8. Writes /\ SmallTypes /\ task' = task
    BY <1>1 DEF RefreshStart, Writes, SmallTypes, ItemInv, TypeOK
  <2>. QED
    BY <1>0, <2>3, <2>6, <2>7, <2>8, Moves
<1>2. CASE RunStart(a)
  <2>. DEFINE listed == {i \in Items : item[i] # NoRow}
              b == [Begin("run") EXCEPT !.pc = "next"]
              r == Walk(b, listed)
  <2>1. Become(a, r)
    BY <1>2 DEF RunStart
  <2>2. b \in Actor /\ b.op = "run" /\ b.cur = NoRow /\ b.item = NoItem /\ b.pc = "next"
    BY IdleOK, ZenonT(60) DEF Begin, Actor, Loops, Points
  <2>. HIDE DEF b
  <2>3. listed \in SUBSET Items
    OBVIOUS
  <2>. HIDE DEF listed
  <2>4. /\ r \in Actor /\ r.pc = "next" /\ r.item = NoItem /\ r.cur = NoRow /\ r.op = "run"
        /\ \A i \in Items : RowOK(task, i, r.list[i])
    BY <2>2, <2>3, WalkOK
  <2>. HIDE DEF r
  <2>5. ActorOK(task, r)
    BY <2>4, Listing
  <2>6. Writes /\ SmallTypes /\ task' = task
    BY <1>2 DEF RunStart, Writes, SmallTypes, ItemInv, TypeOK
  <2>. QED
    BY <1>0, <2>1, <2>4, <2>5, <2>6, Moves
<1>3. ASSUME NEW i \in Items, ReprocessStart(a, i) PROVE ItemInv'
  <2>. DEFINE r == [Begin("reprocess") EXCEPT !.pc = "process", !.item = i, !.row = item[i]]
  <2>1. Become(a, r) /\ Writes /\ SmallTypes /\ task' = task
    BY <1>3 DEF ReprocessStart, Writes, SmallTypes, ItemInv, TypeOK
  <2>2. PICK s : s = r
    BY SMTT(60)
  <2>3. s \in Actor /\ ActorOK(task, s)
    BY <2>2, StartOK, ZenonT(60)
  <2>. HIDE DEF r
  <2>. QED
    BY <1>0, <2>1, <2>2, <2>3, Moves
<1>4. ASSUME NEW i \in Items, NEW op, AskStart(a, i, op) PROVE ItemInv'
  <2>. DEFINE r == [Begin(op) EXCEPT !.pc = "check", !.item = i, !.row = item[i]]
  <2>1. Become(a, r) /\ Writes /\ SmallTypes /\ task' = task /\ op \in {"retry", "download"}
    BY <1>4 DEF AskStart, Writes, SmallTypes, ItemInv, TypeOK
  <2>2. PICK s : s = r
    BY SMTT(60)
  <2>3. s \in Actor /\ ActorOK(task, s)
    BY <2>1, <2>2, StartOK, ZenonT(60)
  <2>. HIDE DEF r
  <2>. QED
    BY <1>0, <2>1, <2>2, <2>3, Moves
<1>5. ASSUME NEW i \in Items, IgnoreStart(a, i) PROVE ItemInv'
  <2>. DEFINE r == [Begin("ignore") EXCEPT !.pc = "ignTask", !.item = i, !.row = item[i]]
  <2>1. Become(a, r) /\ Writes /\ SmallTypes /\ task' = task
    BY <1>5 DEF IgnoreStart, Writes, SmallTypes, ItemInv, TypeOK
  <2>2. PICK s : s = r
    BY SMTT(60)
  <2>3. s \in Actor /\ ActorOK(task, s)
    BY <2>2, StartOK, ZenonT(60)
  <2>. HIDE DEF r
  <2>. QED
    BY <1>0, <2>1, <2>2, <2>3, Moves
<1>. QED
  BY <1>1, <1>2, <1>3, <1>4, <1>5 DEF Ask

LEMMA CycleStep ==
    ASSUME ItemInv, NEW a \in Actors, CycleStart(a), UNCHANGED asks
    PROVE  ItemInv'
<1>. DEFINE b == Begin("cycle")
            r == [b EXCEPT !.pc = "list", !.phase = 1, !.max = Limit]
<1>1. /\ Become(a, r) /\ task' = task
      /\ UNCHANGED <<item, calls, lock, refresh, faults>>
  BY DEF CycleStart
<1>2. /\ b \in Actor /\ b.op = "cycle" /\ b.cur = NoRow /\ b.item = NoItem
      /\ \A j \in Items : b.list[j] = NoRow
  BY IdleOK DEF Begin, Actor, Loops
<1>. HIDE DEF b
<1>3. r \in Actor
  <2>1. PICK k \in 0 .. 4 : k = 1
    OBVIOUS
  <2>2. PICK m \in 0 .. Limit : m = Limit
    BY RSSAssumption
  <2>3. [b EXCEPT !.pc = "list", !.phase = k, !.max = m] \in Actor
    BY <1>2, ZenonT(60) DEF Actor, Points
  <2>. QED
    BY <2>1, <2>2, <2>3
<1>4. r.pc = "list" /\ r.item = NoItem /\ r.cur = NoRow /\ r.op = "cycle" /\ r.list = b.list
  BY <1>2 DEF Actor
<1>5. \A j \in Items : RowOK(task, j, r.list[j])
  BY <1>2, <1>4, NoRowOK
<1>. HIDE DEF r
<1>6. ActorOK(task, r)
  BY <1>4, <1>5, Listing
<1>7. Writes /\ SmallTypes /\ asks' \in 0 .. MaxAsks
  BY <1>1 DEF Writes, SmallTypes, ItemInv, TypeOK
<1>. QED
  BY <1>1, <1>3, <1>6, <1>7, Moves

\* The items that a call back lists are linked to its task, which was made for them.
LEMMA CallbackStep ==
    ASSUME ItemInv, NEW a \in Actors, NEW t \in Tasks, CallbackStart(a, t), UNCHANGED asks
    PROVE  ItemInv'
<1>. DEFINE listed == {i \in Items : item[i].task = t}
            b == [Begin("callback") EXCEPT !.pc = "next", !.task = task[t]]
            r == Walk(b, listed)
<1>0. UNCHANGED <<item, task, lock, refresh>> /\ calls' = calls \ {t}
  BY DEF CallbackStart
<1>1. CASE Become(a, r) /\ UNCHANGED faults
  <2>1. task[t] \in Task
    BY DEF ItemInv, TypeOK
  <2>2. /\ b \in Actor /\ b.op = "callback" /\ b.cur = NoRow /\ b.item = NoItem /\ b.pc = "next"
        /\ b.task = task[t]
    BY <2>1, IdleOK, ZenonT(60) DEF Begin, Actor, Loops, Points
  <2>. HIDE DEF b
  <2>3. listed \in SUBSET Items
    OBVIOUS
  <2>4. Delivered(task[t]) => \A i \in listed : Made(task, i)
    <3>1. \A i \in listed : task[t].item = i
      BY RSSAssumption DEF ItemInv, RowOK
    <3>. QED
      BY <3>1 DEF Delivered, Made
  <2>. HIDE DEF listed
  <2>5. /\ r \in Actor /\ r.pc = "next" /\ r.item = NoItem /\ r.cur = NoRow /\ r.op = "callback"
        /\ r.task = task[t] /\ r.todo = listed
        /\ \A i \in Items : RowOK(task, i, r.list[i])
    BY <2>2, <2>3, WalkOK
  <2>. HIDE DEF r
  <2>6. ActorOK(task, r)
    BY <2>4, <2>5, Listing
  <2>7. Writes /\ SmallTypes /\ asks' \in 0 .. MaxAsks
    BY <1>0, <1>1 DEF Writes, SmallTypes, ItemInv, TypeOK
  <2>. QED
    BY <1>0, <1>1, <2>5, <2>6, <2>7, Moves
<1>2. CASE Fault("db") /\ UNCHANGED act
  BY <1>0, <1>2, FaultType DEF ItemInv, TypeOK
<1>. QED
  BY <1>1, <1>2 DEF CallbackStart

-----------------------------------------------------------------------------
(* Tasks are made and end, time passes, the process restarts *)

\* A task keeps its item and its end.
TasksGrow ==
    /\ task' \in [Tasks -> Task]
    /\ \A t \in Tasks :
          task[t].status # "none" =>
              /\ task'[t].status # "none" /\ task'[t].item = task[t].item
              /\ task[t].status = "completed" => task'[t] = task[t]

LEMMA GrowMade ==
    ASSUME TasksGrow, NEW i, Made(task, i)
    PROVE  Made(task', i)
<1>1. PICK t \in Tasks : task[t].item = i /\ task[t].status = "completed" /\ task[t].node
  BY DEF Made
<1>2. task'[t] = task[t]
  BY <1>1 DEF TasksGrow
<1>. QED
  BY <1>1, <1>2 DEF Made

LEMMA GrowRow ==
    ASSUME TasksGrow, NEW i, NEW row \in Row, RowOK(task, i, row)
    PROVE  RowOK(task', i, row)
<1>1. row.task # NoTask => row.task \in Tasks
  BY DEF Row
<1>2. row.task # NoTask => task'[row.task].item = i /\ task'[row.task].status # "none"
  BY <1>1 DEF RowOK, TasksGrow
<1>3. row.result => Made(task', i)
  BY GrowMade DEF RowOK
<1>. QED
  BY <1>2, <1>3 DEF RowOK

LEMMA GrowActor ==
    ASSUME TasksGrow, NEW q \in Actor, ActorOK(task, q)
    PROVE  ActorOK(task', q)
<1>0. q.row \in Row /\ q.cur \in Row /\ q.list \in [Items -> Row]
  BY ActorFields
<1>1. \A i \in Items : RowOK(task', i, q.list[i])
  BY <1>0, GrowRow DEF ActorOK
<1>2. q.item \in Items => RowOK(task', q.item, q.row) /\ RowOK(task', q.item, q.cur)
  BY <1>0, GrowRow DEF ActorOK
<1>3. q.pc = "apply" /\ Delivered(q.task) => Made(task', q.item)
  BY GrowMade DEF ActorOK
<1>4. q.op = "callback" /\ Delivered(q.task) => \A i \in q.todo : Made(task', i)
  BY GrowMade DEF ActorOK
<1>. QED
  BY <1>1, <1>2, <1>3, <1>4 DEF ActorOK

LEMMA TaskEndsStep ==
    ASSUME ItemInv, NEW t \in Tasks, TaskEnds(t), UNCHANGED asks
    PROVE  ItemInv'
<1>0. UNCHANGED <<item, lock, refresh, act, faults>> /\ calls' = calls \cup {t}
  BY DEF TaskEnds
<1>1. PICK end \in Ended, node \in BOOLEAN :
        task' = [task EXCEPT ![t].status = end, ![t].node = node]
  BY DEF TaskEnds
<1>2. TasksGrow
  <2>1. task[t] \in Task /\ task[t].status = "live"
    BY DEF ItemInv, TypeOK, TaskEnds
  <2>. DEFINE s == [task[t] EXCEPT !.status = end, !.node = node]
  <2>2. s \in Task /\ s.item = task[t].item /\ s.status # "none"
    BY <2>1 DEF Task, Ended
  <2>3. task' = [task EXCEPT ![t] = s]
    BY <1>1 DEF ItemInv, TypeOK
  <2>. HIDE DEF s
  <2>. QED
    BY <2>1, <2>2, <2>3 DEF TasksGrow, ItemInv, TypeOK
<1>3. TypeOK'
  BY <1>0, <1>2 DEF ItemInv, TypeOK, TasksGrow
<1>4. \A i \in Items : RowOK(task', i, item[i])
  BY <1>2, GrowRow DEF ItemInv, TypeOK
<1>5. \A a \in Actors : ActorOK(task', act[a])
  BY <1>2, GrowActor DEF ItemInv, TypeOK
<1>. QED
  BY <1>0, <1>3, <1>4, <1>5 DEF ItemInv

\* The ids are numbers: there is a least one that is not used.
LEMMA LeastTask ==
    ASSUME NEW S \in SUBSET Nat, S # {}
    PROVE  \E x \in S : \A y \in S : x <= y
<1>. DEFINE R == OpToRel(<, Nat)
<1>0. IsWellFoundedOn(R, Nat)
  BY NatLessThanWellFounded, Zenon
<1>1. \A x, y \in Nat : y < x => <<y, x>> \in R
  BY Zenon DEF OpToRel
<1>. HIDE DEF R
<1>2. PICK x \in S : \A y \in S : ~ (<<y, x>> \in R)
  BY <1>0, WFMin
<1>3. \A y \in S : ~ (y < x)
  BY <1>1, <1>2
<1>. QED
  BY <1>3

\* The item in hand is linked to a task that is made for it.
LEMMA CreateStep ==
    ASSUME ItemInv, NEW a \in Actors, Create(a), asks' \in 0 .. MaxAsks
    PROVE  ItemInv'
<1>. DEFINE q == act[a]
<1>0. q.pc = "create" /\ q.pc \in WithItem /\ UNCHANGED <<item, calls, refresh>>
  BY DEF Create, At, WithItem, Points
<1>1. /\ q \in Actor /\ ActorOK(task, q) /\ q.item \in Items /\ q.row \in Row /\ q.cur \in Row
      /\ RowOK(task, q.item, q.row) /\ RowOK(task, q.item, q.cur)
  BY <1>0, Working
<1>2. ASSUME NEW soft \in BOOLEAN, Become(a, Failed(q, soft)), Release(q.item), UNCHANGED task,
             Fault("create") \/ UNCHANGED faults
      PROVE  ItemInv'
  <2>1. Failed(q, soft) \in Actor /\ ActorOK(task, Failed(q, soft))
    BY <1>0, <1>1, FailedOK
  <2>2. Writes /\ SmallTypes
    BY <1>0, <1>1, <1>2, FaultType, ReleaseType DEF Writes, SmallTypes, ItemInv, TypeOK
  <2>. QED
    BY <1>2, <2>1, <2>2, Moves
<1>3. ASSUME NEW t \in Unused,
             task' = [task EXCEPT ![t] = [NoTaskRow EXCEPT !.status = "live", !.item = q.item]],
             Become(a, [q EXCEPT !.pc = "enqUpdate",
                                 !.cur = [q.cur EXCEPT !.status = "enqueued", !.task = t]]),
             UNCHANGED <<lock, faults>>
      PROVE  ItemInv'
  <2>. DEFINE n == [NoTaskRow EXCEPT !.status = "live", !.item = q.item]
              cur == [q.cur EXCEPT !.status = "enqueued", !.task = t]
              r == [q EXCEPT !.pc = "enqUpdate", !.cur = cur]
  <2>1. n \in Task /\ n.status = "live" /\ n.item = q.item
    BY <1>1 DEF NoTaskRow, Task, Ended
  <2>. HIDE DEF n
  <2>2. t \in Tasks /\ task[t].status = "none" /\ task' = [task EXCEPT ![t] = n]
    BY <1>3 DEF Unused, n
  <2>3. TasksGrow /\ task'[t] = n
    BY <2>1, <2>2 DEF TasksGrow, ItemInv, TypeOK
  <2>4. cur \in Row /\ cur.status = "enqueued" /\ cur.task = t /\ cur.result = q.cur.result
    BY <1>1, <2>2 DEF Row, Statuses
  <2>. HIDE DEF cur
  <2>5. RowOK(task', q.item, cur)
    <3>1. RowOK(task', q.item, q.cur)
      BY <1>1, <2>3, GrowRow, SMTT(60)
    <3>. QED
      BY <2>1, <2>3, <2>4, <3>1 DEF RowOK
  <2>6. r \in Actor /\ ActorOK(task', r)
    <3>1. r = [q EXCEPT !.pc = "enqUpdate", !.row = q.row, !.cur = cur]
      BY <1>1 DEF Actor
    <3>2. "enqUpdate" \in WithItem \ {"apply", "taskRead"}
      BY DEF WithItem, Points
    <3>3. RowOK(task', q.item, q.row) /\ ActorOK(task', q)
      BY <1>1, <2>3, GrowRow, GrowActor
    <3>. HIDE DEF r
    <3>. QED
      BY <1>1, <2>4, <2>5, <3>1, <3>2, <3>3, HoldsAndKeeps
  <2>7. Become(a, r)
    BY <1>3 DEF cur
  <2>. HIDE DEF r
  <2>8. act' \in [Actors -> Actor] /\ act'[a] = r /\ \A b \in Actors \ {a} : act'[b] = act[b]
    BY <2>6, <2>7 DEF Become, ItemInv, TypeOK
  <2>9. TypeOK'
    BY <1>0, <1>3, <2>3, <2>8 DEF TasksGrow, ItemInv, TypeOK
  <2>10. \A i \in Items : RowOK(task', i, item'[i])
    BY <1>0, <2>3, GrowRow DEF ItemInv, TypeOK
  <2>11. ASSUME NEW b \in Actors PROVE ActorOK(task', act'[b])
    <3>1. CASE b = a
      BY <2>6, <2>8, <3>1
    <3>2. CASE b # a
      BY <2>3, <2>8, <3>2, GrowActor DEF ItemInv, TypeOK
    <3>. QED
      BY <3>1, <3>2
  <2>. QED
    BY <2>9, <2>10, <2>11 DEF ItemInv
<1>4. CASE Unused # {}
  <2>1. Unused \in SUBSET Nat
    BY RSSAssumption DEF Unused
  <2>2. (CHOOSE t \in Unused : \A u \in Unused : t <= u) \in Unused
    BY <1>4, <2>1, LeastTask
  <2>. QED
    BY <1>2, <1>3, <1>4, <2>2 DEF Create
<1>5. CASE Unused = {}
  BY <1>2, <1>5 DEF Create
<1>. QED
  BY <1>4, <1>5

\* Time makes every copy of an item's row due, and changes nothing else of it.
Aged(q, i) ==
    LET s == [q EXCEPT !.list = [q.list EXCEPT ![i] = Elapsed(q.list[i])]]
    IN  IF s.item = i THEN [s EXCEPT !.row = Elapsed(s.row), !.cur = Elapsed(s.cur)] ELSE s

LEMMA ElapseActor ==
    ASSUME NEW tk, NEW q \in Actor, ActorOK(tk, q), NEW i \in Items
    PROVE  Aged(q, i) \in Actor /\ ActorOK(tk, Aged(q, i))
<1>. DEFINE s == [q EXCEPT !.list = [q.list EXCEPT ![i] = Elapsed(q.list[i])]]
            r == Aged(q, i)
<1>b. r = IF s.item = i THEN [s EXCEPT !.row = Elapsed(s.row), !.cur = Elapsed(s.cur)] ELSE s
  BY DEF Aged
<1>. DEFINE list == [q.list EXCEPT ![i] = Elapsed(q.list[i])]
<1>0. /\ q.list \in [Items -> Row] /\ q.row \in Row /\ q.cur \in Row
      /\ \A j \in Items : RowOK(tk, j, q.list[j])
  BY ActorFields DEF ActorOK
<1>1. list \in [Items -> Row] /\ \A j \in Items : RowOK(tk, j, list[j])
  <2>1. q.list[i] \in Row /\ RowOK(tk, i, q.list[i])
    BY <1>0
  <2>2. Elapsed(q.list[i]) \in Row /\ RowOK(tk, i, Elapsed(q.list[i]))
    BY <2>1, ElapsedOK
  <2>. QED
    BY <1>0, <2>2
<1>a. s = [q EXCEPT !.list = list]
  OBVIOUS
<1>. HIDE DEF list, s, r
<1>2. s \in Actor
  BY <1>1, <1>a DEF Actor
<1>3. /\ s.pc = q.pc /\ s.item = q.item /\ s.row = q.row /\ s.cur = q.cur /\ s.op = q.op
      /\ s.todo = q.todo /\ s.task = q.task /\ s.n = q.n /\ s.list = list
  BY <1>a DEF Actor
<1>4. ActorOK(tk, s)
  BY <1>1, <1>3 DEF ActorOK
<1>5. CASE q.item # i
  BY <1>2, <1>3, <1>4, <1>5, <1>b DEF r
<1>6. CASE q.item = i
  <2>1. RowOK(tk, i, q.row) /\ RowOK(tk, i, q.cur) /\ q.pc \in WithItem
    BY <1>6, RSSAssumption DEF ActorOK
  <2>2. PICK row \in Row : row = Elapsed(q.row) /\ RowOK(tk, i, row)
    BY <1>0, <2>1, ElapsedOK
  <2>3. PICK cur \in Row : cur = Elapsed(q.cur) /\ RowOK(tk, i, cur)
    BY <1>0, <2>1, ElapsedOK
  <2>4. r = [s EXCEPT !.row = row, !.cur = cur]
    BY <1>3, <1>6, <1>b, <2>2, <2>3
  <2>5. r \in Actor
    BY <1>2, <2>4 DEF Actor
  <2>6. /\ r.pc = q.pc /\ r.item = i /\ r.row = row /\ r.cur = cur /\ r.op = q.op
        /\ r.todo = q.todo /\ r.task = q.task /\ r.n = q.n /\ r.list = list
    BY <1>2, <1>3, <1>6, <2>4 DEF Actor
  <2>7. ActorOK(tk, r)
    BY <1>1, <1>6, <2>1, <2>2, <2>3, <2>6 DEF ActorOK
  <2>. QED
    BY <2>5, <2>7 DEF r
<1>. QED
  BY <1>5, <1>6

LEMMA ElapseStep ==
    ASSUME ItemInv, NEW i \in Items, Elapse(i), UNCHANGED asks
    PROVE  ItemInv'
<1>0. UNCHANGED <<task, calls, lock, refresh, faults>>
  BY ZenonT(60) DEF Elapse
<1>1. item' \in [Items -> Row] /\ \A j \in Items : RowOK(task, j, item'[j])
  <2>1. item[i] \in Row /\ RowOK(task, i, item[i])
    BY DEF ItemInv, TypeOK
  <2>2. Elapsed(item[i]) \in Row /\ RowOK(task, i, Elapsed(item[i]))
    BY <2>1, ElapsedOK
  <2>. QED
    BY <2>2 DEF Elapse, ItemInv, TypeOK
<1>2. ASSUME NEW a \in Actors PROVE act'[a] \in Actor /\ ActorOK(task, act'[a])
  <2>1. PICK q \in Actor : q = act[a] /\ ActorOK(task, q)
    BY SMTT(60) DEF ItemInv, TypeOK
  <2>2. act'[a] = Aged(q, i)
    BY <2>1 DEF Elapse, Aged
  <2>3. Aged(q, i) \in Actor /\ ActorOK(task, Aged(q, i))
    BY <2>1, ElapseActor
  <2>. QED
    BY <2>2, <2>3
<1>3. act' \in [Actors -> Actor]
  <2>1. \E f : act' = [a \in Actors |-> f[a]]
    <3>1. act' = [a \in Actors |-> act'[a]]
      BY DEF Elapse
    <3>. QED
      BY <3>1, SMTT(60)
  <2>. QED
    BY <1>2, <2>1
<1>4. TypeOK'
  BY <1>0, <1>1, <1>3 DEF ItemInv, TypeOK
<1>. QED
  BY <1>0, <1>1, <1>2, <1>4, SMTT(60) DEF ItemInv

LEMMA CrashStep ==
    ASSUME ItemInv, Crash, UNCHANGED asks
    PROVE  ItemInv'
<1>0. /\ act' = [a \in Actors |-> Idle] /\ lock' = [i \in Items |-> NoActor]
      /\ refresh' = NoActor /\ calls' = {} /\ UNCHANGED <<item, task>>
      /\ faults' \in 0 .. MaxFaults
  BY FaultType DEF Crash
<1>1. TypeOK'
  BY <1>0, IdleOK DEF ItemInv, TypeOK
<1>. QED
  BY <1>0, <1>1, IdleOK DEF ItemInv

-----------------------------------------------------------------------------

LEMMA ItemInit == Init => ItemInv
<1>. SUFFICES ASSUME Init PROVE ItemInv
  OBVIOUS
<1>1. TypeOK
  BY NoRowOK, IdleOK, RSSAssumption DEF Init, TypeOK
<1>2. \A i \in Items : RowOK(task, i, item[i])
  BY NoRowOK DEF Init
<1>3. \A a \in Actors : ActorOK(task, act[a])
  BY IdleOK DEF Init
<1>. QED
  BY <1>1, <1>2, <1>3 DEF ItemInv

LEMMA ItemStep == ItemInv /\ [Next]_vars => ItemInv'
<1>. SUFFICES ASSUME ItemInv, [Next]_vars PROVE ItemInv'
  OBVIOUS
<1>1. ASSUME NEW a \in Actors, Step(a) PROVE ItemInv'
  <2>1. asks' \in 0 .. MaxAsks
    BY <1>1 DEF Step, ItemInv, TypeOK
  <2>. QED
    BY <1>1, <2>1, EnqueueStep, EnqTaskStep, EnqMatchedStep, CreateStep, EnqUpdateStep,
       RefindStep, MarkStep, NextItemStep, UpsertStep, ProcessStep, CheckStep, IgnTaskStep,
       IgnUpdateStep, ListStep, TaskReadStep, ApplyStep DEF Step
<1>2. ASSUME NEW a \in Actors, Ask(a) PROVE ItemInv'
  BY <1>2, AskStep
<1>3. CASE Background
  <2>1. Worker \in Actors
    BY RSSAssumption
  <2>. QED
    BY <1>3, <2>1, CycleStep, CallbackStep, TaskEndsStep, ElapseStep, CrashStep DEF Background
<1>4. CASE UNCHANGED vars
  BY <1>4 DEF vars, ItemInv, TypeOK
<1>. QED
  BY <1>1, <1>2, <1>3, <1>4 DEF Next

\* An item is completed only with a result that one of its own tasks brought,
\* however the goroutines of refresh, run, reprocess, retry, download, ignore, the
\* retry cycle and the call back interleave, and whichever of their stale copies
\* UpdateItem writes over another: preserveRSSItemCompletedResult keeps a result
\* that a copy has, and a copy gets one only from a task that was made for the item.
THEOREM CompletedItemsHaveResults == RSSSpec => []CompletedHasResult
<1>1. RSSInit => ItemInv
  BY ItemInit DEF RSSInit
<1>2. ItemInv /\ [RSSNext]_all => ItemInv'
  BY ItemStep DEF RSSNext, OfItems, OfFeeds, all
<1>3. ItemInv => CompletedHasResult
  <2>1. SUFFICES ASSUME ItemInv, NEW i \in Items, item[i].status = "completed"
                 PROVE  item[i].result /\ Made(task, i)
    BY DEF ItemInv, CompletedHasResult, Made
  <2>. QED
    BY <2>1 DEF ItemInv, RowOK
<1>. QED
  BY <1>1, <1>2, <1>3, PTL DEF RSSSpec

-----------------------------------------------------------------------------
(* Feeds *)

\* What a source's row says, or a goroutine's copy of it: while the source is
\* there, its health has been told of or is about to be, and it has the url and
\* the switch that are wanted of it, when one knows them.
Announced(f, fails) ==
    \/ f \in untold
    \/ HealthFor(fails) = "ok"
    \/ <<f, HealthFor(fails)>> \in told
    \/ \E g \in Goroutines : /\ job[g].pc = "notify" /\ job[g].id = f
                             /\ HealthFor(job[g].row.fails) = HealthFor(fails)

FeedRowOK(f, row) ==
    Live(f) => /\ row.state = "live"
               /\ Announced(f, row.fails)
               /\ want[f].sure => Wanted(row) = want[f]

\* A goroutine has the source in hand: its row, its id, or a subscription to it.
Holds(q, f) == f \in q.todo \/ q.id = f \/ q.srow.feed = f \/ \E u \in Urls : q.known[u] = f

Job == [pc : {"idle", "edit", "next", "fetch", "notify", "batch", "subWrite", "importSource", "importSub"},
        todo : SUBSET Feeds, list : [Feeds -> FeedRow], id : Feeds \cup {0}, row : FeedRow,
        sid : Subs \cup {0}, srow : SubRow, subs : SUBSET Subs,
        urls : SUBSET Urls, subsOf : SUBSET Urls, known : [Urls -> Feeds \cup {0}]]

JobOK(q) ==
    /\ q.pc = "next" => q.todo # {}
    /\ q.pc \in {"edit", "fetch", "notify"} => q.id # 0
    /\ q.pc = "notify" => HealthFor(q.row.fails) # "ok"
    /\ q.pc \in {"edit", "fetch"} => FeedRowOK(q.id, q.row)
    /\ \A f \in q.todo : FeedRowOK(f, q.list[f])
    /\ \A f \in Feeds : f \in q.todo \/ q.id = f => feed[f].state # "unused"

\* Nothing is left of a source that was deleted with nobody at work on it.
Clean(f) == want[f].sure /\ feed[f].state = "gone"

LeftOK(f) ==
    Clean(f) =>
        /\ f \notin found
        /\ \A s \in Subs : LiveSub(s) => sub[s].feed # f
        /\ \A g \in Goroutines : ~ Holds(job[g], f)

FeedInv ==
    /\ FeedsTypeOK
    /\ job \in [Goroutines -> Job]
    /\ want \in [Feeds -> [url : Urls, on : BOOLEAN, sure : BOOLEAN]]
    /\ \A f \in Feeds : FeedRowOK(f, feed[f]) /\ LeftOK(f)
    /\ \A g \in Goroutines : JobOK(job[g])

-----------------------------------------------------------------------------
(* Ids, rows and health *)

LEMMA LeastOf ==
    ASSUME NEW S, S \subseteq Nat, S # {}
    PROVE  \E n \in S : \A m \in S : n <= m
<1>1. PICK n \in S : \A m \in S : ~ (<<m, n>> \in OpToRel(<, Nat))
  BY NatLessThanWellFounded, WFMin
<1>2. ASSUME NEW m \in S, m < n PROVE FALSE
  <2>1. <<m, n>> \in {ss \in Nat \X Nat : ss[1] < ss[2]}
    BY <1>2
  <2>. QED
    BY <1>1, <2>1 DEF OpToRel
<1>. QED
  BY <1>2

\* The source a loop takes next, the last of its list: the least upper bound.
LEMMA GreatestOf ==
    ASSUME NEW S, S \subseteq Feeds, S # {}
    PROVE  \E n \in S : \A m \in S : m <= n
<1>. DEFINE U == {n \in Nat : \A m \in S : m <= n}
<1>1. U # {} /\ U \subseteq Nat
  BY FeedsAssumption
<1>2. PICK n \in U : \A k \in U : n <= k
  <2>. HIDE DEF U
  <2>. QED
    BY <1>1, LeastOf
<1>3. CASE n \in S
  BY <1>2, <1>3
<1>4. CASE n \notin S
  <2>1. \A m \in S : m <= n - 1 /\ m \in Nat \ {0}
    BY <1>2, <1>4, FeedsAssumption
  <2>2. n - 1 \in U
    BY <2>1, <1>2
  <2>. QED
    BY <2>2, <1>2
<1>. QED
  BY <1>3, <1>4

LEMMA HealthValues ==
    ASSUME NEW n \in 0 .. CircuitAt
    PROVE  /\ HealthFor(n) \in {"ok", "degraded", "circuit_open"}
           /\ n = 0 => HealthFor(n) = "ok"
<1>1. DegradedAt \in Nat \ {0} /\ CircuitAt \in Nat /\ DegradedAt < CircuitAt
  BY FeedsAssumption
<1>. QED
  BY <1>1 DEF HealthFor

LEMMA RowTypes ==
    /\ AnyUrl \in Urls /\ NoFeed \in FeedRow /\ NoSub \in SubRow
    /\ [NoFeed EXCEPT !.state = "gone"] \in FeedRow
    /\ [NoSub EXCEPT !.state = "gone"] \in SubRow
    /\ \A u \in Urls, on \in BOOLEAN : NewRow(u, on) \in FeedRow
    /\ \A row \in FeedRow : Succeeded(row) \in FeedRow /\ FailedOnce(row) \in FeedRow
<1>1. AnyUrl \in Urls
  BY FeedsAssumption DEF AnyUrl
<1>2. 0 \in 0 .. CircuitAt /\ CircuitAt \in Nat
  BY FeedsAssumption
<1>3. NoFeed \in FeedRow /\ NoSub \in SubRow
  BY <1>1, <1>2 DEF NoFeed, NoSub, FeedRow, SubRow
<1>4. [NoFeed EXCEPT !.state = "gone"] \in FeedRow /\ [NoSub EXCEPT !.state = "gone"] \in SubRow
  BY <1>1, <1>2 DEF NoFeed, NoSub, FeedRow, SubRow
<1>5. \A u \in Urls, on \in BOOLEAN : NewRow(u, on) \in FeedRow
  BY <1>2 DEF NewRow, FeedRow
<1>6. ASSUME NEW row \in FeedRow PROVE Succeeded(row) \in FeedRow /\ FailedOnce(row) \in FeedRow
  <2>1. Succeeded(row) \in FeedRow
    BY <1>2 DEF Succeeded, FeedRow
  <2>2. PICK n \in 0 .. CircuitAt : n = IF row.fails < CircuitAt THEN row.fails + 1 ELSE row.fails
    BY <1>2 DEF FeedRow
  <2>3. FailedOnce(row) = [row EXCEPT !.fails = n, !.due = FALSE]
    BY <2>2 DEF FailedOnce
  <2>4. FailedOnce(row) \in FeedRow
    BY <2>3 DEF FeedRow
  <2>. QED
    BY <2>1, <2>4
<1>. QED
  BY <1>1, <1>3, <1>4, <1>5, <1>6

LEMMA RestingOK == Resting \in Job /\ JobOK(Resting) /\ \A f \in Feeds : ~ Holds(Resting, f)
<1>1. 0 \notin Feeds
  BY FeedsAssumption
<1>2. Resting \in Job
  BY RowTypes DEF Resting, Job
<1>3. JobOK(Resting)
  BY <1>1 DEF Resting, JobOK
<1>4. \A f \in Feeds : ~ Holds(Resting, f)
  BY <1>1 DEF Resting, Holds, NoSub
<1>. QED
  BY <1>2, <1>3, <1>4

-----------------------------------------------------------------------------
(* What is announced stays announced, while the source is there. *)

Keeps ==
    /\ untold \subseteq untold'
    /\ \A t \in told : t \in told' \/ ~ Live(t[1])'
    /\ \A g \in Goroutines :
          job[g].pc = "notify" =>
              \/ job'[g].pc = "notify" /\ job'[g].id = job[g].id /\ job'[g].row = job[g].row
              \/ job[g].id \in untold'
              \/ <<job[g].id, HealthFor(job[g].row.fails)>> \in told'

LEMMA AnnouncedStays ==
    ASSUME Keeps, NEW f \in Feeds, NEW n, Announced(f, n), Live(f)'
    PROVE  Announced(f, n)'
<1>1. CASE f \in untold
  BY <1>1 DEF Keeps, Announced
<1>2. CASE HealthFor(n) = "ok"
  BY <1>2 DEF Announced, HealthFor
<1>3. CASE <<f, HealthFor(n)>> \in told
  <2>1. PICK t \in told : t = <<f, HealthFor(n)>>
    BY <1>3
  <2>2. t \in told'
    BY <2>1 DEF Keeps
  <2>. QED
    BY <2>1, <2>2 DEF Announced, HealthFor
<1>4. ASSUME NEW g \in Goroutines, job[g].pc = "notify", job[g].id = f,
             HealthFor(job[g].row.fails) = HealthFor(n)
      PROVE  Announced(f, n)'
  BY <1>4 DEF Keeps, Announced, HealthFor
<1>. QED
  BY <1>1, <1>2, <1>3, <1>4 DEF Announced

LEMMA RowStays ==
    ASSUME Keeps, NEW f \in Feeds, NEW row, FeedRowOK(f, row), Live(f)' => Live(f),
           want'[f].sure => want'[f] = want[f]
    PROVE  FeedRowOK(f, row)'
<1>. SUFFICES ASSUME Live(f)' PROVE row.state = "live" /\ Announced(f, row.fails)' /\ (want'[f].sure => Wanted(row) = want'[f])
  BY DEF FeedRowOK, Wanted
<1>1. row.state = "live" /\ Announced(f, row.fails) /\ (want[f].sure => Wanted(row) = want[f])
  BY DEF FeedRowOK
<1>2. PICK n : n = row.fails
  OBVIOUS
<1>3. Announced(f, n)
  BY <1>1, <1>2
<1>4. Announced(f, n)'
  BY <1>3, AnnouncedStays
<1>5. Announced(f, row.fails)'
  BY <1>4, <1>2
<1>. QED
  BY <1>1, <1>5

\* A goroutine's copies, when it makes no step and the sources keep their state
LEMMA JobStays ==
    ASSUME Keeps, NEW q \in Job, JobOK(q),
           \A f \in Feeds : feed[f].state # "unused" => feed'[f].state # "unused",
           \A f \in Feeds : f \in q.todo \/ q.id = f =>
               (Live(f)' => Live(f)) /\ (want'[f].sure => want'[f] = want[f])
    PROVE  JobOK(q)'
<1>0. q.todo \subseteq Feeds /\ q.id \in Feeds \cup {0}
  BY DEF Job
<1>1. q.pc \in {"edit", "fetch"} => FeedRowOK(q.id, q.row)'
  <2>. SUFFICES ASSUME q.pc \in {"edit", "fetch"} PROVE FeedRowOK(q.id, q.row)'
    OBVIOUS
  <2>1. PICK f \in Feeds, row \in FeedRow : f = q.id /\ row = q.row
    BY <1>0 DEF JobOK, Job
  <2>2. FeedRowOK(f, row)
    BY <2>1 DEF JobOK
  <2>3. FeedRowOK(f, row)'
    BY <2>1, <2>2, RowStays
  <2>. QED
    BY <2>1, <2>3
<1>2. ASSUME NEW f \in q.todo PROVE FeedRowOK(f, q.list[f])'
  <2>1. PICK row : row = q.list[f]
    OBVIOUS
  <2>2. FeedRowOK(f, row)
    BY <2>1 DEF JobOK
  <2>3. FeedRowOK(f, row)'
    BY <2>2, <1>0, RowStays
  <2>. QED
    BY <2>1, <2>3
<1>3. q.pc = "notify" => (HealthFor(q.row.fails) # "ok")'
  BY DEF JobOK, HealthFor
<1>. QED
  BY <1>0, <1>1, <1>2, <1>3 DEF JobOK

-----------------------------------------------------------------------------
(* Steps of one goroutine that write at most rows it has in hand *)

LEMMA HandStep ==
    ASSUME FeedInv, Keeps, NEW g \in Goroutines, NEW q \in Job, NEW r \in FeedRow,
           job' = [job EXCEPT ![g] = q], JobOK(q),
           want' = want,
           feed' \in [Feeds -> FeedRow], sub' \in [Subs -> SubRow], found' \subseteq Feeds,
           held' \in [Feeds -> Goroutines \cup {0}], turns' \in 0 .. MaxTurns,
           told' \subseteq Feeds \X {"degraded", "circuit_open"},
           \A f \in Feeds : feed'[f].state = feed[f].state,
           \A f \in Feeds : \/ feed'[f] = feed[f]
                            \/ /\ feed'[f] = r
                               /\ want[f].sure => Wanted(r) = want[f]
                               /\ \/ Announced(f, r.fails)
                                  \/ /\ q.pc = "notify" /\ q.id = f
                                     /\ HealthFor(q.row.fails) = HealthFor(r.fails),
           \A f \in found' : f \in found \/ Holds(job[g], f),
           \A s \in Subs : sub'[s].state = "live" =>
               \/ sub[s].state = "live" /\ sub'[s].feed = sub[s].feed
               \/ Holds(job[g], sub'[s].feed),
           \A f \in Feeds : Holds(q, f) => Holds(job[g], f) \/ ~ Clean(f)
    PROVE  FeedInv'
<1>0. job' \in [Goroutines -> Job] /\ job'[g] = q /\ \A h \in Goroutines \ {g} : job'[h] = job[h]
  BY DEF FeedInv
<1>1. \A f \in Feeds : Live(f)' <=> Live(f)
  BY DEF Live
<1>2. FeedsTypeOK'
  <2>1. \A h \in Goroutines : job'[h].row \in FeedRow /\ job'[h].srow \in SubRow
    BY <1>0 DEF Job
  <2>. QED
    BY <2>1 DEF FeedsTypeOK
<1>3. ASSUME NEW f \in Feeds PROVE FeedRowOK(f, feed[f])' 
  <2>0. PICK row : row = feed'[f]
    OBVIOUS
  <2>1. CASE row = feed[f]
    <3>1. FeedRowOK(f, row)
      BY <2>1 DEF FeedInv
    <3>2. FeedRowOK(f, row)'
      BY <3>1, <1>1, RowStays
    <3>. QED
      BY <3>2, <2>0
  <2>2. CASE row = r /\ (want[f].sure => Wanted(r) = want[f]) /\ Announced(f, r.fails)
    <3>1. FeedRowOK(f, row)
      BY <2>0, <2>2 DEF FeedRowOK, Live
    <3>2. FeedRowOK(f, row)'
      BY <3>1, <1>1, RowStays
    <3>. QED
      BY <3>2, <2>0
  <2>3. CASE /\ row = r /\ (want[f].sure => Wanted(r) = want[f])
             /\ q.pc = "notify" /\ q.id = f /\ HealthFor(q.row.fails) = HealthFor(r.fails)
    <3>1. Announced(f, row.fails)'
      BY <2>3, <1>0 DEF Announced, HealthFor
    <3>2. FeedRowOK(f, row)'
      BY <2>0, <3>1, <2>3 DEF FeedRowOK, Wanted, Live
    <3>. QED
      BY <3>2, <2>0
  <2>. QED
    BY <2>0, <2>1, <2>2, <2>3
<1>4. ASSUME NEW f \in Feeds PROVE LeftOK(f)'
  <2>. SUFFICES ASSUME Clean(f)
                PROVE  /\ f \notin found'
                       /\ \A s \in Subs : LiveSub(s)' => sub'[s].feed # f
                       /\ \A h \in Goroutines : ~ Holds(job'[h], f)
    BY DEF LeftOK, Holds, Clean
  <2>1. f \notin found /\ (\A s \in Subs : LiveSub(s) => sub[s].feed # f)
        /\ \A h \in Goroutines : ~ Holds(job[h], f)
    BY DEF FeedInv, LeftOK
  <2>3. ASSUME NEW h \in Goroutines PROVE ~ Holds(job'[h], f)
    BY <2>1, <1>0
  <2>4. ASSUME NEW s \in Subs, LiveSub(s)' PROVE sub'[s].feed # f
    BY <2>1, <2>4 DEF LiveSub
  <2>. QED
    BY <2>1, <2>3, <2>4
<1>5. ASSUME NEW h \in Goroutines PROVE JobOK(job[h])'
  <2>1. PICK p \in Job : p = job'[h]
    BY <1>0
  <2>2. JobOK(p)
    BY <2>1, <1>0 DEF FeedInv
  <2>3. JobOK(p)'
    BY <2>2, <1>1, JobStays
  <2>. QED
    BY <2>1, <2>3
<1>6. want' \in [Feeds -> [url : Urls, on : BOOLEAN, sure : BOOLEAN]]
  BY DEF FeedInv
<1>. QED
  BY <1>0, <1>2, <1>3, <1>4, <1>5, <1>6 DEF FeedInv

LEMMA TurnsLeft ==
    ASSUME FeedInv, turns' = turns \/ Slip
    PROVE  turns' \in 0 .. MaxTurns
BY FeedsAssumption DEF FeedInv, FeedsTypeOK, Slip

-----------------------------------------------------------------------------
(* The requests *)

LEMMA QuietStep ==
    ASSUME FeedInv, NEW g \in Goroutines, NEW q \in Job, job[g].pc # "notify", Set(g, q), JobOK(q),
           UNCHANGED <<feed, sub, found, told, want, untold>>,
           held' \in [Feeds -> Goroutines \cup {0}], turns' \in 0 .. MaxTurns,
           \A f \in Feeds : Holds(q, f) => Holds(job[g], f) \/ ~ Clean(f)
    PROVE  FeedInv'
<1>1. job' = [job EXCEPT ![g] = q] /\ job \in [Goroutines -> Job]
  BY DEF Set, FeedInv
<1>2. Keeps
  BY <1>1 DEF Keeps
<1>3. FeedsTypeOK
  BY DEF FeedInv
<1>4. NoFeed \in FeedRow
  BY RowTypes
<1>. QED
  BY <1>1, <1>2, <1>3, <1>4, HandStep DEF FeedsTypeOK

\* A request of its own goroutine starts from a Resting one with some fields set.
LEMMA StartStep ==
    ASSUME FeedInv, NEW g \in Goroutines, NEW q \in Job, Doing(g, "idle"), Set(g, q), JobOK(q),
           UNCHANGED <<feed, sub, found, held, told, want, untold>>, turns' \in 0 .. MaxTurns,
           \A f \in Feeds : Holds(q, f) => ~ Clean(f)
    PROVE  FeedInv'
<1>1. job[g].pc # "notify"
  BY DEF Doing
<1>2. held' \in [Feeds -> Goroutines \cup {0}]
  BY DEF FeedInv, FeedsTypeOK
<1>. QED
  BY <1>1, <1>2, QuietStep

LEMMA EditStartStep ==
    ASSUME FeedInv, NEW g \in Goroutines, NEW f \in Feeds, EditStart(g, f), turns' \in 0 .. MaxTurns
    PROVE  FeedInv'
<1>. DEFINE e == [Resting EXCEPT !.pc = "edit", !.id = f, !.row = feed[f]]
<1>1. feed[f] \in FeedRow /\ FeedRowOK(f, feed[f]) /\ Live(f) /\ 0 \notin Feeds
  BY FeedsAssumption DEF FeedInv, FeedsTypeOK, EditStart
<1>2. e \in Job
  BY <1>1, RestingOK DEF Job
<1>3. e.pc = "edit" /\ e.id = f /\ e.row = feed[f] /\ e.todo = {}
      /\ e.srow = NoSub /\ e.known = [u \in Urls |-> 0]
  BY DEF Resting
<1>4. Doing(g, "idle") /\ Set(g, e) /\ UNCHANGED <<feed, sub, found, held, told, want, untold>>
  BY DEF EditStart
<1>. HIDE DEF e
<1>5. JobOK(e)
  BY <1>1, <1>3 DEF JobOK, Live
<1>6. \A k \in Feeds : Holds(e, k) => ~ Clean(k)
  BY <1>1, <1>3 DEF Holds, NoSub, Live, Clean
<1>7. PICK q \in Job : q = e
  BY <1>2
<1>. QED
  BY <1>4, <1>5, <1>6, <1>7, StartStep

\* The rows that a loop has listed
LEMMA RefreshStep ==
    ASSUME FeedInv, NEW g \in Goroutines, NEW set \in SUBSET Feeds, \A f \in set : Live(f),
           RefreshThese(g, set), turns' \in 0 .. MaxTurns
    PROVE  FeedInv'
<1>. DEFINE e == Going([Resting EXCEPT !.todo = set, !.list = ListOf(set)])
<1>1. Doing(g, "idle") /\ Set(g, e) /\ UNCHANGED <<feed, sub, found, held, told, want, untold>>
  BY DEF RefreshThese
<1>2. CASE set = {}
  <2>1. e = Resting
    BY <1>2 DEF Going, Resting
  <2>2. PICK q \in Job : q = e
    BY <2>1, RestingOK
  <2>. HIDE DEF e
  <2>. QED
    BY <1>1, <2>1, <2>2, RestingOK, StartStep
<1>3. CASE set # {}
  <2>0. ASSUME NEW f \in Feeds PROVE ListOf(set)[f] \in FeedRow
    BY RowTypes, ZenonT(150) DEF ListOf, FeedInv, FeedsTypeOK, FeedRow
  <2>1. PICK l \in [Feeds -> FeedRow] : l = ListOf(set)
    BY <2>0 DEF ListOf
  <2>2. e = [Resting EXCEPT !.todo = set, !.list = l, !.pc = "next", !.id = 0, !.row = NoFeed]
    BY <1>3, <2>1 DEF Going, Resting
  <2>3. e \in Job
    BY <2>2, RestingOK, RowTypes, ZenonT(150) DEF Job
  <2>4. e.pc = "next" /\ e.id = 0 /\ e.todo = set /\ e.list = l
        /\ e.srow = NoSub /\ e.known = [u \in Urls |-> 0]
    BY <2>2, ZenonT(150) DEF Resting
  <2>5. ASSUME NEW f \in set PROVE FeedRowOK(f, l[f])
    <3>1. l[f] = [feed[f] EXCEPT !.due = FALSE] /\ feed[f] \in FeedRow /\ FeedRowOK(f, feed[f])
      BY <2>1 DEF ListOf, FeedInv, FeedsTypeOK
    <3>2. l[f].state = feed[f].state /\ l[f].fails = feed[f].fails /\ Wanted(l[f]) = Wanted(feed[f])
      BY <3>1 DEF FeedRow, Wanted
    <3>. QED
      BY <3>1, <3>2 DEF FeedRowOK
  <2>6. 0 \notin Feeds
    BY FeedsAssumption
  <2>7. PICK q \in Job : q = e
    BY <2>3
  <2>. HIDE DEF e
  <2>8. JobOK(q)
    BY <1>3, <2>4, <2>5, <2>6, <2>7 DEF JobOK, Live
  <2>9. \A k \in Feeds : Holds(q, k) => ~ Clean(k)
    BY <2>4, <2>6, <2>7 DEF Holds, NoSub, Live, Clean
  <2>. QED
    BY <1>1, <2>7, <2>8, <2>9, StartStep
<1>. QED
  BY <1>2, <1>3

LEMMA SubStartStep ==
    ASSUME FeedInv, NEW g \in Goroutines, NEW s \in Subs \cup {0}, NEW row \in SubRow,
           row.feed \in Feeds => ~ Clean(row.feed),
           SubStart(g, s, row), turns' \in 0 .. MaxTurns
    PROVE  FeedInv'
<1>. DEFINE e == [Resting EXCEPT !.pc = "subWrite", !.sid = s, !.srow = row]
<1>1. Doing(g, "idle") /\ Set(g, e) /\ UNCHANGED <<feed, sub, found, held, told, want, untold>>
  BY DEF SubStart
<1>2. e \in Job
  BY RestingOK DEF Job
<1>3. e.pc = "subWrite" /\ e.id = 0 /\ e.todo = {} /\ e.srow = row /\ e.known = [u \in Urls |-> 0]
  BY DEF Resting
<1>4. 0 \notin Feeds
  BY FeedsAssumption
<1>. HIDE DEF e
<1>5. PICK q \in Job : q = e
  BY <1>2
<1>6. JobOK(q)
  BY <1>3, <1>4, <1>5 DEF JobOK
<1>7. \A k \in Feeds : Holds(q, k) => ~ Clean(k)
  BY <1>3, <1>4, <1>5 DEF Holds
<1>. QED
  BY <1>1, <1>5, <1>6, <1>7, StartStep

\* The source of a subscription that is still there was not deleted, or not cleanly.
LEMMA SubFeed ==
    ASSUME FeedInv, NEW s \in Subs, LiveSub(s), sub[s].feed \in Feeds
    PROVE  ~ Clean(sub[s].feed)
BY DEF FeedInv, LeftOK

LEMMA SubRequestStep ==
    ASSUME FeedInv, NEW g \in Goroutines, turns' \in 0 .. MaxTurns,
           \/ \E f \in Feeds : CreateSubscription(g, f) \/ \E s \in Subs : UpdateSubscription(g, s, f)
           \/ \E s \in Subs : CloneSubscription(g, s)
    PROVE  FeedInv'
<1>0. \A f \in Feeds : Live(f) => ~ Clean(f)
  BY DEF Live, Clean
<1>1. ASSUME NEW f \in Feeds, CreateSubscription(g, f) PROVE FeedInv'
  <2>1. PICK row \in SubRow : row = [state |-> "live", feed |-> f]
    BY DEF SubRow
  <2>. QED
    BY <2>1, <1>0, <1>1, SubStartStep DEF CreateSubscription
<1>2. ASSUME NEW f \in Feeds, NEW s \in Subs, UpdateSubscription(g, s, f) PROVE FeedInv'
  <2>1. PICK row \in SubRow : row = [sub[s] EXCEPT !.feed = f]
    BY ZenonT(60) DEF SubRow, FeedInv, FeedsTypeOK
  <2>2. row.feed = f
    BY <2>1 DEF SubRow, FeedInv, FeedsTypeOK
  <2>. QED
    BY <2>1, <2>2, <1>0, <1>2, SubStartStep DEF UpdateSubscription
<1>3. ASSUME NEW s \in Subs, CloneSubscription(g, s) PROVE FeedInv'
  <2>1. PICK row \in SubRow : row = sub[s]
    BY DEF FeedInv, FeedsTypeOK
  <2>. QED
    BY <2>1, <1>3, SubFeed, SubStartStep DEF CloneSubscription
<1>. QED
  BY <1>1, <1>2, <1>3

LEMMA BatchStartStep ==
    ASSUME FeedInv, NEW g \in Goroutines, NEW set \in SUBSET Subs, BatchStart(g, set), turns' \in 0 .. MaxTurns
    PROVE  FeedInv'
<1>. DEFINE e == [Resting EXCEPT !.pc = "batch", !.subs = set]
<1>1. Doing(g, "idle") /\ Set(g, e) /\ UNCHANGED <<feed, sub, found, held, told, want, untold>>
  BY DEF BatchStart
<1>2. e \in Job
  BY RestingOK DEF Job
<1>3. e.pc = "batch" /\ e.id = 0 /\ e.todo = {} /\ e.srow = NoSub /\ e.known = [u \in Urls |-> 0]
  BY DEF Resting
<1>4. 0 \notin Feeds
  BY FeedsAssumption
<1>. HIDE DEF e
<1>5. PICK q \in Job : q = e
  BY <1>2
<1>6. JobOK(q)
  BY <1>3, <1>4, <1>5 DEF JobOK
<1>7. \A k \in Feeds : Holds(q, k) => ~ Clean(k)
  BY <1>3, <1>4, <1>5 DEF Holds, NoSub
<1>. QED
  BY <1>1, <1>5, <1>6, <1>7, StartStep

\* Used only forgets sources of the import.
LEMMA UsedOK ==
    ASSUME NEW q \in Job
    PROVE  /\ Used(q) \in Job
           /\ Used(q).pc = q.pc /\ Used(q).id = q.id /\ Used(q).todo = q.todo
           /\ Used(q).row = q.row /\ Used(q).list = q.list
           /\ \A f \in Feeds : Holds(Used(q), f) => Holds(q, f)
<1>0. 0 \notin Feeds
  BY FeedsAssumption
<1>1. PICK k \in [Urls -> Feeds \cup {0}] :
          k = [u \in Urls |-> IF u \in q.urls \cup q.subsOf THEN q.known[u] ELSE 0]
  BY DEF Job
<1>2. Used(q) = [q EXCEPT !.known = k]
  BY <1>1 DEF Used
<1>3. /\ Used(q) \in Job
      /\ Used(q).pc = q.pc /\ Used(q).id = q.id /\ Used(q).todo = q.todo
      /\ Used(q).row = q.row /\ Used(q).list = q.list /\ Used(q).srow = q.srow /\ Used(q).known = k
  BY <1>2 DEF Job
<1>4. \A f \in Feeds : (\E u \in Urls : k[u] = f) => \E u \in Urls : q.known[u] = f
  BY <1>0, <1>1
<1>5. \A f \in Feeds : Holds(Used(q), f) => Holds(q, f)
  BY <1>3, <1>4 DEF Holds
<1>. QED
  BY <1>3, <1>5

LEMMA KnownLive == KnownSources \in [Urls -> Feeds \cup {0}]
                   /\ \A u \in Urls : KnownSources[u] \in Feeds => Live(KnownSources[u])
<1>1. ASSUME NEW u \in Urls PROVE KnownSources[u] = 0 \/ (KnownSources[u] \in Feeds /\ Live(KnownSources[u]))
  <2>. DEFINE these == {f \in Feeds : Live(f) /\ feed[f].url = u}
  <2>1. KnownSources[u] = IF these = {} THEN 0 ELSE CHOOSE f \in these : \A g \in these : f <= g
    BY DEF KnownSources
  <2>2. these \subseteq Nat /\ \A f \in these : f \in Feeds /\ Live(f)
    BY FeedsAssumption
  <2>. HIDE DEF these
  <2>3. these # {} => \E f \in these : \A g \in these : f <= g
    BY <2>2, LeastOf
  <2>. QED
    BY <2>1, <2>2, <2>3
<1>2. KnownSources = [u \in Urls |-> KnownSources[u]]
  BY DEF KnownSources
<1>3. 0 \notin Feeds
  BY FeedsAssumption
<1>. QED
  BY <1>1, <1>2, <1>3

LEMMA ImportStartStep ==
    ASSUME FeedInv, NEW g \in Goroutines, NEW document \in Documents, ImportStart(g, document),
           turns' \in 0 .. MaxTurns
    PROVE  FeedInv'
<1>. DEFINE e == [Resting EXCEPT !.pc = "importSource", !.urls = document.urls,
                                 !.subsOf = document.subsOf, !.known = KnownSources]
<1>1. Doing(g, "idle") /\ Set(g, Used(e)) /\ UNCHANGED <<feed, sub, found, held, told, want, untold>>
  BY DEF ImportStart
<1>2. document.urls \subseteq Urls /\ document.subsOf \subseteq Urls
  BY FeedsAssumption
<1>3. e \in Job
  BY <1>2, RestingOK, KnownLive DEF Job
<1>4. e.pc = "importSource" /\ e.id = 0 /\ e.todo = {} /\ e.srow = NoSub /\ e.known = KnownSources
  BY DEF Resting
<1>5. 0 \notin Feeds
  BY FeedsAssumption
<1>. HIDE DEF e
<1>6. \A k \in Feeds : Holds(e, k) => Live(k)
  BY <1>4, <1>5, KnownLive DEF Holds, NoSub
<1>7. PICK p \in Job : p = e
  BY <1>3
<1>8. PICK q \in Job : q = Used(p)
  BY UsedOK
<1>9. JobOK(q)
  BY <1>4, <1>5, <1>7, <1>8, UsedOK DEF JobOK
<1>10. \A k \in Feeds : Holds(q, k) => ~ Clean(k)
  BY <1>6, <1>7, <1>8, UsedOK DEF Live, Clean
<1>11. Set(g, q)
  BY <1>1, <1>7, <1>8
<1>. QED
  BY <1>1, <1>9, <1>10, <1>11, StartStep

-----------------------------------------------------------------------------
(* Sources that come and go *)

LEMMA NextFeedUnused ==
    ASSUME UnusedFeeds # {}
    PROVE  NextFeed \in Feeds /\ feed[NextFeed].state = "unused"
<1>1. UnusedFeeds \subseteq Nat
  BY FeedsAssumption DEF UnusedFeeds
<1>2. NextFeed \in UnusedFeeds
  BY <1>1, LeastOf DEF NextFeed
<1>. QED
  BY <1>2 DEF UnusedFeeds

LEMMA NextSubUnused ==
    ASSUME UnusedSubs # {}
    PROVE  NextSub \in Subs /\ sub[NextSub].state = "unused"
<1>1. UnusedSubs \subseteq Nat
  BY FeedsAssumption DEF UnusedSubs
<1>2. NextSub \in UnusedSubs
  BY <1>1, LeastOf DEF NextSub
<1>. QED
  BY <1>2 DEF UnusedSubs

\* A row is inserted, by a request or in an import.
LEMMA InsertStep ==
    ASSUME FeedInv, NEW g \in Goroutines, NEW q \in Job, NEW r \in FeedRow,
           InsertFeed(r), r.state = "live", r.fails = 0,
           job' = [job EXCEPT ![g] = q], job[g].pc = "notify" => q = job[g], JobOK(q),
           \A f \in Feeds : Holds(q, f) => Holds(job[g], f) \/ f = NextFeed,
           UNCHANGED <<sub, found, held, told, untold>>, turns' \in 0 .. MaxTurns
    PROVE  FeedInv'
<1>1. PICK n \in Feeds : n = NextFeed /\ feed[n].state = "unused"
  BY NextFeedUnused DEF InsertFeed
<1>2. feed' = [feed EXCEPT ![n] = r] /\ want' = [want EXCEPT ![n] = Wanted(r)]
  BY <1>1 DEF InsertFeed
<1>3. FeedsTypeOK /\ job \in [Goroutines -> Job] /\ want \in [Feeds -> [url : Urls, on : BOOLEAN, sure : BOOLEAN]]
  BY DEF FeedInv
<1>4. feed' \in [Feeds -> FeedRow] /\ feed'[n] = r /\ \A f \in Feeds \ {n} : feed'[f] = feed[f]
  BY <1>2, <1>3 DEF FeedsTypeOK
<1>5. want' \in [Feeds -> [url : Urls, on : BOOLEAN, sure : BOOLEAN]] /\ want'[n] = Wanted(r)
      /\ \A f \in Feeds \ {n} : want'[f] = want[f]
  BY <1>2, <1>3 DEF Wanted, FeedRow
<1>6. job' \in [Goroutines -> Job] /\ job'[g] = q /\ \A h \in Goroutines \ {g} : job'[h] = job[h]
  BY <1>3
<1>7. Keeps
  BY <1>6 DEF Keeps
<1>8. FeedsTypeOK'
  <2>1. \A h \in Goroutines : job'[h].row \in FeedRow /\ job'[h].srow \in SubRow
    BY <1>6 DEF Job
  <2>. QED
    BY <2>1, <1>3, <1>4 DEF FeedsTypeOK
<1>9. ASSUME NEW f \in Feeds PROVE FeedRowOK(f, feed[f])'
  <2>1. CASE f = n
    <3>1. PICK k \in 0 .. CircuitAt : k = 0 /\ k = r.fails
      BY DEF FeedRow
    <3>2. HealthFor(k) = "ok"
      BY <3>1, HealthValues
    <3>3. Announced(f, r.fails)'
      BY <3>1, <3>2 DEF Announced, HealthFor
    <3>. QED
      BY <2>1, <3>3, <1>4, <1>5 DEF FeedRowOK, Wanted
  <2>2. CASE f # n
    <3>1. PICK row : row = feed[f]
      OBVIOUS
    <3>2. FeedRowOK(f, row)
      BY <3>1 DEF FeedInv
    <3>3. Live(f)' => Live(f)
      BY <2>2, <1>4 DEF Live
    <3>4. FeedRowOK(f, row)'
      BY <3>2, <3>3, <2>2, <1>5, <1>7, RowStays
    <3>. QED
      BY <3>1, <3>4, <2>2, <1>4
  <2>. QED
    BY <2>1, <2>2
<1>10. ASSUME NEW f \in Feeds PROVE LeftOK(f)'
  <2>1. CASE f = n
    BY <2>1, <1>4 DEF LeftOK, Clean
  <2>2. CASE f # n
    <3>. SUFFICES ASSUME Clean(f)
                  PROVE  /\ f \notin found
                         /\ \A s \in Subs : LiveSub(s) => sub[s].feed # f
                         /\ \A h \in Goroutines : ~ Holds(job'[h], f)
      BY <2>2, <1>4, <1>5 DEF LeftOK, Holds, Clean, LiveSub
    <3>1. f \notin found /\ (\A s \in Subs : LiveSub(s) => sub[s].feed # f)
          /\ \A h \in Goroutines : ~ Holds(job[h], f)
      BY DEF FeedInv, LeftOK
    <3>2. ASSUME NEW h \in Goroutines PROVE ~ Holds(job'[h], f)
      BY <3>1, <2>2, <1>1, <1>6
    <3>. QED
      BY <3>1, <3>2
  <2>. QED
    BY <2>1, <2>2
<1>11. ASSUME NEW h \in Goroutines PROVE JobOK(job[h])'
  <2>1. PICK p \in Job : p = job'[h]
    BY <1>6
  <2>2. JobOK(p)
    BY <2>1, <1>6 DEF FeedInv
  <2>3. n \notin p.todo /\ p.id # n
    BY <2>2, <1>1 DEF JobOK
  <2>4. \A f \in Feeds \ {n} : Live(f)' => Live(f)
    BY <1>4 DEF Live
  <2>5. \A f \in Feeds : feed[f].state # "unused" => feed'[f].state # "unused"
    BY <1>1, <1>4
  <2>6. JobOK(p)'
    BY <2>2, <2>3, <2>4, <2>5, <1>5, <1>7, JobStays
  <2>. QED
    BY <2>1, <2>6
<1>. QED
  BY <1>5, <1>6, <1>8, <1>9, <1>10, <1>11 DEF FeedInv

LEMMA CreateSourceStep ==
    ASSUME FeedInv, NEW u \in Urls, NEW on \in BOOLEAN, CreateSource(u, on), turns' \in 0 .. MaxTurns
    PROVE  FeedInv'
<1>1. Refresher \in Goroutines
  BY DEF Goroutines
<1>2. PICK r \in FeedRow : r = NewRow(u, on)
  BY RowTypes
<1>3. r.state = "live" /\ r.fails = 0
  BY <1>2 DEF NewRow
<1>4. PICK q \in Job : q = job[Refresher]
  BY <1>1 DEF FeedInv
<1>5. JobOK(q)
  BY <1>1, <1>4 DEF FeedInv
<1>6. job' = [job EXCEPT ![Refresher] = q]
  BY <1>1, <1>4 DEF CreateSource, FeedInv
<1>7. InsertFeed(r) /\ UNCHANGED <<sub, found, held, told, untold>>
  BY <1>2 DEF CreateSource
<1>. QED
  BY <1>1, <1>3, <1>4, <1>5, <1>6, <1>7, InsertStep

LEMMA DeleteSourceStep ==
    ASSUME FeedInv, NEW d \in Feeds, DeleteSource(d), turns' \in 0 .. MaxTurns
    PROVE  FeedInv'
<1>. DEFINE gone == [NoFeed EXCEPT !.state = "gone"]
            goneSub == [NoSub EXCEPT !.state = "gone"]
<1>0. gone \in FeedRow /\ gone.state = "gone" /\ goneSub \in SubRow /\ goneSub.state = "gone"
  BY RowTypes DEF NoFeed, NoSub
<1>1. FeedsTypeOK /\ job \in [Goroutines -> Job] /\ want \in [Feeds -> [url : Urls, on : BOOLEAN, sure : BOOLEAN]]
  BY DEF FeedInv
<1>2. /\ feed' = [feed EXCEPT ![d] = gone] /\ found' = found \ {d}
      /\ sub' = [s \in Subs |-> IF sub[s].feed = d THEN goneSub ELSE sub[s]]
      /\ told' = {t \in told : t[1] # d} /\ UNCHANGED <<held, job, untold>> /\ Live(d)
  BY DEF DeleteSource
<1>. HIDE DEF gone, goneSub
<1>3. feed' \in [Feeds -> FeedRow] /\ feed'[d] = gone /\ \A f \in Feeds \ {d} : feed'[f] = feed[f]
  BY <1>0, <1>1, <1>2 DEF FeedsTypeOK
<1>4. want' \in [Feeds -> [url : Urls, on : BOOLEAN, sure : BOOLEAN]]
      /\ (\A f \in Feeds \ {d} : want'[f] = want[f]) /\ (want'[d].sure => ~ InHand(d, 0))
  <2>1. Unsure \in [url : Urls, on : BOOLEAN, sure : BOOLEAN] /\ Unsure.sure = FALSE
    BY RowTypes DEF Unsure
  <2>2. Wanted(NoFeed) \in [url : Urls, on : BOOLEAN, sure : BOOLEAN]
    BY RowTypes DEF Wanted, FeedRow
  <2>3. want' = [want EXCEPT ![d] = IF InHand(d, 0) THEN Unsure ELSE Wanted(NoFeed)]
    BY DEF DeleteSource
  <2>. QED
    BY <1>1, <2>1, <2>2, <2>3
<1>5. /\ sub' \in [Subs -> SubRow]
      /\ \A s \in Subs : sub'[s] = goneSub \/ (sub'[s] = sub[s] /\ sub[s].feed # d)
  BY <1>0, <1>1, <1>2 DEF FeedsTypeOK
<1>6. \A f \in Feeds : Live(f)' => Live(f) /\ f # d
  BY <1>0, <1>3 DEF Live
<1>7. Keeps
  BY <1>2, <1>6, <1>0, <1>3 DEF Keeps, Live
<1>8. FeedsTypeOK'
  BY <1>1, <1>2, <1>3, <1>5 DEF FeedsTypeOK
<1>9. ASSUME NEW f \in Feeds PROVE FeedRowOK(f, feed[f])'
  <2>1. CASE f = d
    BY <2>1, <1>6 DEF FeedRowOK
  <2>2. CASE f # d
    <3>1. PICK row : row = feed[f]
      OBVIOUS
    <3>2. FeedRowOK(f, row)
      BY <3>1 DEF FeedInv
    <3>3. FeedRowOK(f, row)'
      BY <3>2, <2>2, <1>4, <1>6, <1>7, RowStays
    <3>. QED
      BY <3>1, <3>3, <2>2, <1>3
  <2>. QED
    BY <2>1, <2>2
<1>10. ASSUME NEW f \in Feeds PROVE LeftOK(f)'
  <2>1. CASE f = d
    <3>1. ~ InHand(d, 0) => \A h \in Goroutines : ~ Holds(job[h], d)
      BY FeedsAssumption DEF InHand, Holds, Goroutines
    <3>. QED
      BY <2>1, <3>1, <1>0, <1>2, <1>4, <1>5 DEF LeftOK, Clean, LiveSub, Holds
  <2>2. CASE f # d
    <3>1. Clean(f)' => Clean(f)
      BY <2>2, <1>3, <1>4 DEF Clean
    <3>2. LeftOK(f)
      BY DEF FeedInv
    <3>. QED
      BY <3>1, <3>2, <1>0, <1>2, <1>5 DEF LeftOK, LiveSub, Holds
  <2>. QED
    BY <2>1, <2>2
<1>11. ASSUME NEW h \in Goroutines PROVE JobOK(job[h])'
  <2>1. PICK p \in Job : p = job[h]
    BY <1>1
  <2>2. JobOK(p)
    BY <2>1 DEF FeedInv
  <2>3. \A f \in Feeds : feed[f].state # "unused" => feed'[f].state # "unused"
    BY <1>0, <1>3
  <2>4. d \in p.todo \/ p.id = d => ~ want'[d].sure
    BY <2>1, <1>4, FeedsAssumption DEF InHand, Goroutines
  <2>5. JobOK(p)'
    BY <2>2, <2>3, <2>4, <1>4, <1>6, <1>7, JobStays, SMTT(60)
  <2>. QED
    BY <2>1, <2>5, <1>2
<1>. QED
  BY <1>1, <1>2, <1>4, <1>8, <1>9, <1>10, <1>11 DEF FeedInv

\* UpdateSource of the goroutine that edits: the url and the switch are wanted,
\* unless another goroutine has the row in hand.
LEMMA EditWriteStep ==
    ASSUME FeedInv, NEW g \in Goroutines, EditWrite(g)
    PROVE  FeedInv'
<1>1. FeedsTypeOK /\ job \in [Goroutines -> Job] /\ want \in [Feeds -> [url : Urls, on : BOOLEAN, sure : BOOLEAN]]
  BY SMTT(60) DEF FeedInv
<1>2. PICK i \in Feeds, c \in FeedRow : i = job[g].id /\ c = job[g].row /\ FeedRowOK(i, c)
  <2>1. job[g] \in Job /\ JobOK(job[g])
    BY SMTT(60) DEF FeedInv
  <2>. QED
    BY <2>1, ZenonT(60) DEF JobOK, Job, EditWrite, Doing
<1>3. job' = [job EXCEPT ![g] = Resting] /\ UNCHANGED <<sub, found, held, told, untold>> /\ job[g].pc = "edit"
  BY ZenonT(60) DEF EditWrite, Set, Doing
<1>4. PICK q \in Job : q = Resting
  BY RestingOK
<1>5. JobOK(q) /\ \A f \in Feeds : ~ Holds(q, f)
  BY <1>4, RestingOK
<1>6. job' \in [Goroutines -> Job] /\ job'[g] = q /\ \A h \in Goroutines \ {g} : job'[h] = job[h]
  BY <1>1, <1>3, <1>4
<1>7. Keeps
  BY <1>3, <1>6 DEF Keeps
<1>8. turns' \in 0 .. MaxTurns
  <2>1. turns' = turns \/ Slip
    BY Zenon DEF EditWrite
  <2>. QED
    BY <2>1, TurnsLeft
<1>9. CASE feed' = feed /\ want' = want
  <2>1. NoFeed \in FeedRow /\ job' = [job EXCEPT ![g] = q]
    BY <1>3, <1>4, RowTypes
  <2>. QED
    BY <2>1, <1>1, <1>3, <1>5, <1>7, <1>8, <1>9, HandStep DEF FeedsTypeOK
<1>10. ASSUME NEW u \in Urls, NEW on \in BOOLEAN, Live(i),
              feed' = [feed EXCEPT ![i] = [c EXCEPT !.url = u, !.on = on]],
              want' = [want EXCEPT ![i] = IF InHand(i, g) THEN Unsure ELSE Wanted([c EXCEPT !.url = u, !.on = on])]
       PROVE  FeedInv'
  <2>1. PICK r \in FeedRow : r = [c EXCEPT !.url = u, !.on = on]
    BY DEF FeedRow
  <2>2. r.state = c.state /\ r.fails = c.fails
    BY <2>1 DEF FeedRow
  <2>3. feed' \in [Feeds -> FeedRow] /\ feed'[i] = r /\ \A f \in Feeds \ {i} : feed'[f] = feed[f]
    BY <1>1, <1>10, <2>1 DEF FeedsTypeOK
  <2>4. /\ want' \in [Feeds -> [url : Urls, on : BOOLEAN, sure : BOOLEAN]]
        /\ \A f \in Feeds \ {i} : want'[f] = want[f]
        /\ want'[i].sure => want'[i] = Wanted(r) /\ ~ InHand(i, g)
    <3>1. Unsure \in [url : Urls, on : BOOLEAN, sure : BOOLEAN] /\ Unsure.sure = FALSE
      BY RowTypes DEF Unsure
    <3>2. Wanted(r) \in [url : Urls, on : BOOLEAN, sure : BOOLEAN]
      BY DEF Wanted, FeedRow
    <3>. QED
      BY <1>1, <1>10, <2>1, <3>1, <3>2
  <2>5. c.state = "live" /\ Announced(i, c.fails)
    BY <1>2, <1>10 DEF FeedRowOK
  <2>6. \A f \in Feeds : (Live(f)' <=> Live(f)) /\ (feed'[f].state = feed[f].state)
    BY <1>10, <2>2, <2>3, <2>5 DEF Live
  <2>7. FeedsTypeOK'
    <3>1. \A h \in Goroutines : job'[h].row \in FeedRow /\ job'[h].srow \in SubRow
      BY <1>6 DEF Job
    <3>. QED
      BY <3>1, <1>1, <1>3, <1>8, <2>3 DEF FeedsTypeOK
  <2>8. ASSUME NEW f \in Feeds PROVE FeedRowOK(f, feed[f])'
    <3>1. CASE f = i
      <4>1. PICK n : n = c.fails
        OBVIOUS
      <4>2. Announced(i, n)'
        BY <4>1, <2>5, <2>6, <1>7, <1>10, AnnouncedStays
      <4>. QED
        BY <3>1, <4>1, <4>2, <2>2, <2>3, <2>4, <2>5 DEF FeedRowOK, Wanted
    <3>2. CASE f # i
      <4>1. PICK row : row = feed[f]
        OBVIOUS
      <4>2. FeedRowOK(f, row)
        BY <4>1 DEF FeedInv
      <4>3. FeedRowOK(f, row)'
        BY <4>2, <3>2, <2>4, <2>6, <1>7, RowStays
      <4>. QED
        BY <4>1, <4>3, <3>2, <2>3
    <3>. QED
      BY <3>1, <3>2
  <2>9. ASSUME NEW f \in Feeds PROVE LeftOK(f)'
    <3>1. CASE f = i
      BY <3>1, <1>10, <2>6 DEF LeftOK, Clean, Live
    <3>2. CASE f # i
      <4>1. Clean(f)' => Clean(f)
        BY <3>2, <2>3, <2>4 DEF Clean
      <4>2. LeftOK(f)
        BY DEF FeedInv
      <4>3. (\A h \in Goroutines : ~ Holds(job[h], f)) => \A h \in Goroutines : ~ Holds(job'[h], f)
        BY <1>5, <1>6
      <4>. QED
        BY <4>1, <4>2, <4>3, <1>3 DEF LeftOK, LiveSub, Holds
    <3>. QED
      BY <3>1, <3>2
  <2>10. ASSUME NEW h \in Goroutines PROVE JobOK(job[h])'
    <3>1. PICK p \in Job : p = job'[h]
      BY <1>6
    <3>2. JobOK(p)
      BY <3>1, <1>5, <1>6 DEF FeedInv
    <3>3. i \in p.todo \/ p.id = i => ~ want'[i].sure
      <4>1. CASE h = g
        BY <4>1, <3>1, <1>5, <1>6 DEF Holds
      <4>2. CASE h # g
        BY <4>2, <3>1, <1>6, <2>4 DEF InHand
      <4>. QED
        BY <4>1, <4>2
    <3>4. JobOK(p)'
      BY <3>2, <3>3, <2>4, <2>6, <1>7, JobStays
    <3>. QED
      BY <3>1, <3>4
  <2>. QED
    BY <1>6, <2>4, <2>7, <2>8, <2>9, <2>10 DEF FeedInv
<1>11. CASE Slip /\ UNCHANGED <<feed, want>>
  BY <1>9, <1>11
<1>12. ASSUME NEW u \in Urls, NEW on \in BOOLEAN,
              UpdateSource(i, [c EXCEPT !.url = u, !.on = on]),
              want' = [want EXCEPT ![i] = CASE ~ Live(i) -> want[i]
                                            [] InHand(i, g) /\ Live(i) -> Unsure
                                            [] OTHER -> Wanted([c EXCEPT !.url = u, !.on = on])]
       PROVE  FeedInv'
  <2>1. CASE ~ Live(i)
    <3>1. want' = [want EXCEPT ![i] = want[i]] /\ feed' = feed
      BY <1>12, <2>1 DEF UpdateSource
    <3>. QED
      BY <3>1, <1>1, <1>9
  <2>2. CASE Live(i)
    <3>1. feed' = [feed EXCEPT ![i] = [c EXCEPT !.url = u, !.on = on]]
      BY <1>12, <2>2 DEF UpdateSource
    <3>2. CASE InHand(i, g)
      BY <1>10, <1>12, <2>2, <3>1, <3>2
    <3>3. CASE ~ InHand(i, g)
      BY <1>10, <1>12, <2>2, <3>1, <3>3
    <3>. QED
      BY <3>2, <3>3
  <2>. QED
    BY <2>1, <2>2
<1>. QED
  BY <1>2, <1>11, <1>12, ZenonT(60) DEF EditWrite

LEMMA DeleteSubscriptionStep ==
    ASSUME FeedInv, NEW d \in Subs, DeleteSubscription(d), turns' \in 0 .. MaxTurns
    PROVE  FeedInv'
<1>1. FeedsTypeOK /\ job \in [Goroutines -> Job]
  BY DEF FeedInv
<1>2. PICK x \in SubRow : x = [NoSub EXCEPT !.state = "gone"]
  BY RowTypes
<1>3. x.state = "gone" /\ sub' = [sub EXCEPT ![d] = x]
      /\ UNCHANGED <<feed, found, held, job, told, want, untold>>
  BY <1>2 DEF DeleteSubscription, NoSub
<1>4. sub' \in [Subs -> SubRow] /\ \A s \in Subs : sub'[s].state = "live" => sub'[s] = sub[s]
  BY <1>1, <1>3 DEF FeedsTypeOK
<1>5. Refresher \in Goroutines
  BY DEF Goroutines
<1>6. PICK q \in Job : q = job[Refresher]
  BY <1>1, <1>5
<1>7. job' = [job EXCEPT ![Refresher] = q] /\ JobOK(q)
  BY <1>1, <1>3, <1>5, <1>6 DEF FeedInv
<1>8. Keeps
  BY <1>3 DEF Keeps
<1>9. NoFeed \in FeedRow
  BY RowTypes
<1>. QED
  BY <1>1, <1>3, <1>4, <1>5, <1>6, <1>7, <1>8, <1>9, HandStep DEF FeedsTypeOK

-----------------------------------------------------------------------------
(* The refresh of a source *)

\* The loop goes on: only what it has still to do is in hand.
LEMMA GoingOK ==
    ASSUME NEW q \in Job, \A f \in q.todo : FeedRowOK(f, q.list[f]) /\ feed[f].state # "unused"
    PROVE  /\ Going(q) \in Job /\ JobOK(Going(q)) /\ Going(q).pc # "notify"
           /\ \A f \in Feeds : Holds(Going(q), f) => Holds(q, f)
<1>0. 0 \notin Feeds
  BY FeedsAssumption
<1>1. CASE q.todo = {}
  BY <1>1, RestingOK DEF Going, Resting
<1>2. CASE q.todo # {}
  <2>. DEFINE e == [q EXCEPT !.pc = "next", !.id = 0, !.row = NoFeed]
  <2>1. e \in Job /\ e.pc = "next" /\ e.id = 0 /\ e.todo = q.todo /\ e.list = q.list
        /\ e.srow = q.srow /\ e.known = q.known
    BY RowTypes DEF Job
  <2>2. Going(q) = e
    BY <1>2 DEF Going
  <2>. HIDE DEF e
  <2>3. JobOK(e)
    BY <1>0, <1>2, <2>1 DEF JobOK
  <2>4. \A f \in Feeds : Holds(e, f) => Holds(q, f)
    BY <1>0, <2>1 DEF Holds
  <2>. QED
    BY <2>1, <2>2, <2>3, <2>4
<1>. QED
  BY <1>1, <1>2

LEMMA NextSourceStep ==
    ASSUME FeedInv, NEW g \in Goroutines, NextSource(g)
    PROVE  FeedInv'
<1>0. FeedsTypeOK /\ job \in [Goroutines -> Job] /\ 0 \notin Feeds
  BY FeedsAssumption DEF FeedInv
<1>1. PICK q \in Job : q = job[g] /\ JobOK(q) /\ q.pc = "next"
  BY <1>0 DEF FeedInv, NextSource, Doing
<1>2. q.todo \subseteq Feeds /\ q.todo # {} /\ q.list \in [Feeds -> FeedRow]
  BY <1>1 DEF JobOK, Job
<1>3. PICK f \in q.todo : f = CHOOSE k \in q.todo : \A h \in q.todo : h <= k
  BY <1>2, GreatestOf
<1>. DEFINE rest == [q EXCEPT !.todo = q.todo \ {f}, !.list = [q.list EXCEPT ![f] = NoFeed]]
            taken == [rest EXCEPT !.pc = "fetch", !.id = f, !.row = q.list[f]]
<1>4. UNCHANGED <<feed, sub, found, told, turns, want, untold>>
  BY SMTT(60) DEF NextSource
<1>5. \/ held[f] # 0 /\ Set(g, Going(rest)) /\ UNCHANGED held
      \/ held' = [held EXCEPT ![f] = g] /\ Set(g, taken)
  BY <1>1, <1>3 DEF NextSource
<1>6. PICK l \in [Feeds -> FeedRow] : l = [q.list EXCEPT ![f] = NoFeed]
  BY <1>2, RowTypes
<1>7. rest \in Job /\ rest.todo = q.todo \ {f} /\ rest.list = l /\ rest.id = q.id /\ rest.srow = q.srow
      /\ rest.known = q.known
  BY <1>2, <1>6 DEF Job
<1>8. \A k \in q.todo : FeedRowOK(k, q.list[k]) /\ feed[k].state # "unused"
  BY <1>1, <1>2 DEF JobOK
<1>9. \A k \in rest.todo : FeedRowOK(k, rest.list[k]) /\ feed[k].state # "unused"
  BY <1>2, <1>6, <1>7, <1>8
<1>10. turns' \in 0 .. MaxTurns /\ job[g].pc # "notify"
  BY <1>0, <1>1, <1>4 DEF FeedsTypeOK
<1>11. CASE Set(g, Going(rest)) /\ UNCHANGED held
  <2>1. PICK r \in Job : r = rest
    BY <1>7
  <2>. HIDE DEF rest
  <2>2. PICK p \in Job : p = Going(r)
    BY <1>9, <2>1, GoingOK
  <2>3. JobOK(p) /\ \A k \in Feeds : Holds(p, k) => Holds(r, k)
    BY <1>9, <2>1, <2>2, GoingOK
  <2>4. \A k \in Feeds : Holds(r, k) => Holds(job[g], k)
    BY <1>1, <1>7, <2>1 DEF Holds
  <2>5. Set(g, p) /\ held' \in [Feeds -> Goroutines \cup {0}]
    BY <1>0, <1>11, <2>1, <2>2 DEF FeedsTypeOK
  <2>. QED
    BY <1>4, <1>10, <2>3, <2>4, <2>5, QuietStep
<1>12. CASE held' = [held EXCEPT ![f] = g] /\ Set(g, taken)
  <2>1. taken \in Job /\ taken.pc = "fetch" /\ taken.id = f /\ taken.row = q.list[f]
        /\ taken.todo = q.todo \ {f} /\ taken.list = l /\ taken.srow = q.srow /\ taken.known = q.known
    BY <1>2, <1>7, ZenonT(60) DEF Job
  <2>2. PICK p \in Job : p = taken
    BY <2>1
  <2>. HIDE DEF taken, rest
  <2>3. JobOK(p)
    BY <1>0, <1>2, <1>7, <1>8, <1>9, <2>1, <2>2 DEF JobOK
  <2>4. \A k \in Feeds : Holds(p, k) => Holds(job[g], k)
    BY <1>1, <2>1, <2>2 DEF Holds
  <2>5. Set(g, p) /\ held' \in [Feeds -> Goroutines \cup {0}]
    BY <1>0, <1>12, <2>2 DEF FeedsTypeOK
  <2>. QED
    BY <1>4, <1>10, <2>3, <2>4, <2>5, QuietStep
<1>. HIDE DEF taken, rest
<1>. QED
  BY <1>5, <1>11, <1>12

\* The copy that a goroutine counts, writes or tells of
LEMMA InFetch ==
    ASSUME FeedInv, NEW g \in Goroutines, job[g].pc \in {"fetch", "notify"}
    PROVE  \E q \in Job, i \in Feeds, c \in FeedRow :
              /\ q = job[g] /\ JobOK(q) /\ i = q.id /\ c = q.row
              /\ q.pc = "fetch" => FeedRowOK(i, c)
              /\ \A f \in q.todo : FeedRowOK(f, q.list[f]) /\ feed[f].state # "unused"
<1>1. job[g] \in Job /\ JobOK(job[g])
  BY DEF FeedInv
<1>. QED
  BY <1>1 DEF Job, JobOK

\* UpdateSource with a row made from the goroutine's copy, and the lock let go or,
\* with a worse health, kept until it has been told of.
LEMMA WriteStep ==
    ASSUME FeedInv, NEW g \in Goroutines, NEW q \in Job, NEW p \in Job, NEW i \in Feeds, NEW r \in FeedRow,
           q = job[g], q.pc = "fetch", q.id = i, Set(g, p), JobOK(p),
           \A f \in Feeds : Holds(p, f) => Holds(q, f),
           UpdateSource(i, r) \/ UNCHANGED feed,
           Live(i) => /\ r.state = "live" /\ (want[i].sure => Wanted(r) = want[i])
                      /\ \/ Announced(i, r.fails)
                         \/ p.pc = "notify" /\ p.id = i /\ HealthFor(p.row.fails) = HealthFor(r.fails),
           found' \subseteq Feeds, \A f \in found' : f \in found \/ f = i,
           held' \in [Feeds -> Goroutines \cup {0}], turns' \in 0 .. MaxTurns,
           UNCHANGED <<sub, told, want, untold>>
    PROVE  FeedInv'
<1>1. FeedsTypeOK /\ job \in [Goroutines -> Job] /\ job' = [job EXCEPT ![g] = p]
  BY DEF FeedInv, Set
<1>2. feed' = feed \/ (Live(i) /\ feed' = [feed EXCEPT ![i] = r])
  BY DEF UpdateSource
<1>3. feed' \in [Feeds -> FeedRow] /\ \A f \in Feeds : feed'[f] = feed[f] \/ (f = i /\ Live(i) /\ feed'[f] = r)
  BY <1>1, <1>2 DEF FeedsTypeOK
<1>4. \A f \in Feeds : feed'[f].state = feed[f].state
  BY <1>3 DEF Live
<1>5. Keeps
  BY <1>1 DEF Keeps
<1>6. Holds(job[g], i)
  BY DEF Holds
<1>7. \A f \in Feeds : \/ feed'[f] = feed[f]
                       \/ /\ feed'[f] = r
                          /\ want[f].sure => Wanted(r) = want[f]
                          /\ \/ Announced(f, r.fails)
                             \/ p.pc = "notify" /\ p.id = f /\ HealthFor(p.row.fails) = HealthFor(r.fails)
  BY <1>3
<1>. QED
  BY <1>1, <1>3, <1>4, <1>5, <1>6, <1>7, HandStep, ZenonT(60) DEF FeedsTypeOK

LEMMA UnlockedTypes ==
    ASSUME FeedInv, NEW g \in Goroutines, NEW i \in Feeds, i = job[g].id, Unlocked(g)
    PROVE  held' \in [Feeds -> Goroutines \cup {0}]
BY DEF FeedInv, FeedsTypeOK, Unlocked

LEMMA FetchFailsStep ==
    ASSUME FeedInv, NEW g \in Goroutines, FetchFails(g)
    PROVE  FeedInv'
<1>1. job[g].pc = "fetch"
  BY DEF FetchFails, Doing
<1>2. PICK q \in Job, i \in Feeds, c \in FeedRow :
          /\ q = job[g] /\ JobOK(q) /\ i = q.id /\ c = q.row /\ FeedRowOK(i, c)
          /\ \A f \in q.todo : FeedRowOK(f, q.list[f]) /\ feed[f].state # "unused"
  BY <1>1, InFetch
<1>3. PICK r \in FeedRow : r = FailedOnce(c)
  BY RowTypes
<1>4. r.state = c.state /\ Wanted(r) = Wanted(c)
  BY <1>3 DEF FailedOnce, FeedRow, Wanted
<1>5. UpdateSource(i, r) \/ UNCHANGED feed
  BY <1>2, <1>3, Zenon DEF FetchFails
<1>6. turns' \in 0 .. MaxTurns
  <2>1. turns' = turns \/ Slip
    BY Zenon DEF FetchFails
  <2>. QED
    BY <2>1, TurnsLeft
<1>7. UNCHANGED <<sub, found, told, want, untold>> /\ found' \subseteq Feeds
  BY DEF FetchFails, FeedInv, FeedsTypeOK
<1>8. Live(i) => r.state = "live" /\ (want[i].sure => Wanted(r) = want[i]) /\ Announced(i, c.fails)
  BY <1>2, <1>4 DEF FeedRowOK
<1>9. \/ News(c, r) /\ Set(g, [q EXCEPT !.pc = "notify", !.row = [NoFeed EXCEPT !.fails = r.fails]])
         /\ UNCHANGED held
      \/ ~ News(c, r) /\ Unlocked(g)
  BY <1>2, <1>3, Zenon DEF FetchFails
<1>10. CASE News(c, r) /\ Set(g, [q EXCEPT !.pc = "notify", !.row = [NoFeed EXCEPT !.fails = r.fails]])
            /\ UNCHANGED held
  <2>1. PICK n \in 0 .. CircuitAt : n = r.fails
    BY DEF FeedRow
  <2>2. PICK x \in FeedRow : x = [NoFeed EXCEPT !.fails = n]
    BY RowTypes, ZenonT(60) DEF FeedRow
  <2>3. PICK p \in Job : p = [q EXCEPT !.pc = "notify", !.row = x]
    BY DEF Job
  <2>9. /\ p.pc = "notify" /\ p.row = x /\ p.id = q.id /\ p.todo = q.todo /\ p.list = q.list
        /\ p.srow = q.srow /\ p.known = q.known /\ x.fails = n
    BY <2>2, <2>3 DEF Job, NoFeed
  <2>4. HealthFor(p.row.fails) = HealthFor(r.fails) /\ HealthFor(p.row.fails) # "ok"
    BY <1>10, <2>1, <2>9 DEF News
  <2>5. JobOK(p)
    BY <1>1, <1>2, <2>4, <2>9 DEF JobOK
  <2>6. \A f \in Feeds : Holds(p, f) => Holds(q, f)
    BY <2>9 DEF Holds
  <2>7. Set(g, p)
    BY <1>10, <2>1, <2>2, <2>3
  <2>8. held' \in [Feeds -> Goroutines \cup {0}]
    BY <1>10 DEF FeedInv, FeedsTypeOK
  <2>. QED
    BY <1>1, <1>2, <1>5, <1>6, <1>7, <1>8, <2>4, <2>5, <2>6, <2>7, <2>8, <2>9, WriteStep
<1>11. CASE ~ News(c, r) /\ Unlocked(g)
  <2>1. PICK p \in Job : p = Going(q) /\ JobOK(p) /\ \A f \in Feeds : Holds(p, f) => Holds(q, f)
    BY <1>2, GoingOK
  <2>2. Set(g, p) /\ held' \in [Feeds -> Goroutines \cup {0}]
    BY <1>2, <1>11, <2>1, UnlockedTypes DEF Unlocked
  <2>3. HealthFor(r.fails) = "ok" \/ HealthFor(r.fails) = HealthFor(c.fails)
    BY <1>11 DEF News
  <2>4. Live(i) => Announced(i, r.fails)
    BY <1>8, <2>3 DEF Announced
  <2>. QED
    BY <1>1, <1>2, <1>5, <1>6, <1>7, <1>8, <2>1, <2>2, <2>4, WriteStep
<1>. QED
  BY <1>9, <1>10, <1>11

LEMMA FetchItemsStep ==
    ASSUME FeedInv, NEW g \in Goroutines, FetchItems(g)
    PROVE  FeedInv'
<1>1. job[g].pc = "fetch"
  BY DEF FetchItems, Doing
<1>2. PICK q \in Job, i \in Feeds, c \in FeedRow :
          /\ q = job[g] /\ JobOK(q) /\ i = q.id /\ c = q.row /\ FeedRowOK(i, c)
          /\ \A f \in q.todo : FeedRowOK(f, q.list[f]) /\ feed[f].state # "unused"
  BY <1>1, InFetch
<1>3. PICK r \in FeedRow : r = Succeeded(c)
  BY RowTypes
<1>4. r.state = c.state /\ Wanted(r) = Wanted(c) /\ r.fails = 0
  BY <1>3 DEF Succeeded, FeedRow, Wanted
<1>5. UpdateSource(i, r) \/ UNCHANGED feed
  BY <1>2, <1>3, Zenon DEF FetchItems
<1>6. turns' \in 0 .. MaxTurns
  <2>1. turns' = turns \/ Slip
    BY Zenon DEF FetchItems
  <2>. QED
    BY <2>1, TurnsLeft
<1>7. UNCHANGED <<sub, told, want, untold>>
  BY DEF FetchItems
<1>8. found' = found \/ found' = found \cup {i}
  <2>1. found' = found \cup {i} \/ found' \in {found, found \cup {i}}
    BY <1>2, Zenon DEF FetchItems
  <2>. QED
    BY <2>1
<1>9. found' \subseteq Feeds /\ \A f \in found' : f \in found \/ f = i
  BY <1>8 DEF FeedInv, FeedsTypeOK
<1>10. Announced(i, r.fails)
  <2>1. PICK k \in 0 .. CircuitAt : k = 0 /\ k = r.fails
    BY <1>4 DEF FeedRow
  <2>. QED
    BY <2>1, HealthValues DEF Announced
<1>11. Live(i) => r.state = "live" /\ (want[i].sure => Wanted(r) = want[i])
  BY <1>2, <1>4 DEF FeedRowOK
<1>12. PICK p \in Job : p = Going(q) /\ JobOK(p) /\ \A f \in Feeds : Holds(p, f) => Holds(q, f)
  BY <1>2, GoingOK
<1>13. Unlocked(g)
  BY DEF FetchItems
<1>14. Set(g, p) /\ held' \in [Feeds -> Goroutines \cup {0}]
  BY <1>2, <1>12, <1>13, UnlockedTypes DEF Unlocked
<1>. QED
  BY <1>1, <1>2, <1>5, <1>6, <1>7, <1>9, <1>10, <1>11, <1>12, <1>14, WriteStep

LEMMA NotifyFailureStep ==
    ASSUME FeedInv, NEW g \in Goroutines, NotifyFailure(g)
    PROVE  FeedInv'
<1>0. FeedsTypeOK /\ job \in [Goroutines -> Job]
  BY DEF FeedInv
<1>1. job[g].pc = "notify"
  BY DEF NotifyFailure, Doing
<1>2. PICK q \in Job, i \in Feeds, c \in FeedRow :
          /\ q = job[g] /\ JobOK(q) /\ i = q.id /\ c = q.row
          /\ \A f \in q.todo : FeedRowOK(f, q.list[f]) /\ feed[f].state # "unused"
  BY <1>1, InFetch
<1>3. \/ told' = told \cup {<<i, HealthFor(c.fails)>>} /\ untold' = untold
      \/ untold' = untold \cup {i} /\ told' = told
  BY <1>2, Zenon DEF NotifyFailure
<1>4. turns' \in 0 .. MaxTurns
  <2>1. turns' = turns \/ Slip
    BY Zenon DEF NotifyFailure
  <2>. QED
    BY <2>1, TurnsLeft
<1>5. UNCHANGED <<feed, sub, found, want>> /\ Unlocked(g)
  BY DEF NotifyFailure
<1>6. PICK p \in Job : p = Going(q) /\ JobOK(p) /\ \A f \in Feeds : Holds(p, f) => Holds(q, f)
  BY <1>2, GoingOK
<1>7. job' = [job EXCEPT ![g] = p] /\ held' \in [Feeds -> Goroutines \cup {0}]
  BY <1>2, <1>5, <1>6, UnlockedTypes DEF Unlocked, Set
<1>8. told' \subseteq Feeds \X {"degraded", "circuit_open"}
  <2>1. HealthFor(c.fails) \in {"ok", "degraded", "circuit_open"}
    BY HealthValues DEF FeedRow
  <2>2. HealthFor(c.fails) # "ok"
    BY <1>1, <1>2 DEF JobOK
  <2>. QED
    BY <1>0, <1>3, <2>1, <2>2 DEF FeedsTypeOK
<1>9. Keeps
  <2>1. untold \subseteq untold' /\ \A t \in told : t \in told'
    BY <1>3
  <2>2. i \in untold' \/ <<i, HealthFor(c.fails)>> \in told'
    BY <1>3
  <2>3. \A h \in Goroutines \ {g} : job'[h] = job[h]
    BY <1>0, <1>7
  <2>. QED
    BY <1>2, <2>1, <2>2, <2>3 DEF Keeps
<1>10. NoFeed \in FeedRow
  BY RowTypes, SMTT(60)
<1>. QED
  BY <1>0, <1>2, <1>4, <1>5, <1>6, <1>7, <1>8, <1>9, <1>10, HandStep DEF FeedsTypeOK

-----------------------------------------------------------------------------
(* Subscriptions and the import *)

LEMMA BatchNextStep ==
    ASSUME FeedInv, NEW g \in Goroutines, BatchNext(g)
    PROVE  FeedInv'
<1>0. FeedsTypeOK /\ 0 \notin Feeds
  BY FeedsAssumption, SMTT(60) DEF FeedInv
<1>1. PICK q \in Job : q = job[g] /\ JobOK(q) /\ q.pc = "batch"
  BY ZenonT(60) DEF FeedInv, BatchNext, Doing
<1>2. UNCHANGED <<feed, sub, found, held, told, turns, want, untold>>
  BY DEF BatchNext
<1>3. held' \in [Feeds -> Goroutines \cup {0}] /\ turns' \in 0 .. MaxTurns /\ job[g].pc # "notify"
  BY <1>0, <1>1, <1>2 DEF FeedsTypeOK
<1>4. CASE Set(g, Resting)
  <2>1. PICK p \in Job : p = Resting
    BY RestingOK
  <2>. QED
    BY <1>2, <1>3, <1>4, <2>1, RestingOK, QuietStep
<1>5. ASSUME NEW s \in q.subs, LiveSub(s),
             Set(g, [q EXCEPT !.pc = "subWrite", !.subs = q.subs \ {s}, !.sid = s, !.srow = sub[s]])
      PROVE  FeedInv'
  <2>1. PICK x \in SubRow : x = sub[s]
    BY <1>0, <1>5 DEF FeedsTypeOK, LiveSub
  <2>2. PICK p \in Job : p = [q EXCEPT !.pc = "subWrite", !.subs = q.subs \ {s}, !.sid = s, !.srow = x]
    BY DEF Job
  <2>6. /\ p.pc = "subWrite" /\ p.srow = x /\ p.id = q.id /\ p.todo = q.todo
        /\ p.list = q.list /\ p.row = q.row /\ p.known = q.known
    BY <2>2 DEF Job
  <2>3. JobOK(p)
    BY <1>1, <2>6 DEF JobOK
  <2>4. \A f \in Feeds : Holds(p, f) => Holds(job[g], f) \/ ~ Clean(f)
    BY <1>1, <1>5, <2>1, <2>6, SubFeed DEF Holds, LiveSub
  <2>5. Set(g, p)
    BY <1>5, <2>1, <2>2
  <2>. QED
    BY <1>2, <1>3, <2>3, <2>4, <2>5, QuietStep
<1>6. ASSUME NEW s \in q.subs, Set(g, [q EXCEPT !.subs = q.subs \ {s}])
      PROVE  FeedInv'
  <2>1. PICK p \in Job : p = [q EXCEPT !.subs = q.subs \ {s}]
    BY DEF Job
  <2>5. /\ p.pc = q.pc /\ p.srow = q.srow /\ p.id = q.id /\ p.todo = q.todo
        /\ p.list = q.list /\ p.row = q.row /\ p.known = q.known
    BY <2>1 DEF Job
  <2>2. JobOK(p)
    BY <1>1, <2>5 DEF JobOK
  <2>3. \A f \in Feeds : Holds(p, f) => Holds(job[g], f)
    BY <1>1, <2>5 DEF Holds
  <2>4. Set(g, p)
    BY <1>6, <2>1, SMTT(60)
  <2>. QED
    BY <1>2, <1>3, <2>2, <2>3, <2>4, QuietStep
<1>7. \/ Set(g, Resting)
      \/ \E s \in q.subs :
            \/ LiveSub(s) /\ Set(g, [q EXCEPT !.pc = "subWrite", !.subs = q.subs \ {s}, !.sid = s, !.srow = sub[s]])
            \/ Set(g, [q EXCEPT !.subs = q.subs \ {s}])
  BY <1>1 DEF BatchNext
<1>. QED
  BY <1>4, <1>5, <1>6, <1>7

LEMMA AfterRowOK ==
    ASSUME NEW q \in Job, JobOK(q), q.pc = "subWrite"
    PROVE  /\ AfterRow(q) \in Job /\ JobOK(AfterRow(q))
           /\ \A f \in Feeds : Holds(AfterRow(q), f) => Holds(q, f)
<1>0. 0 \notin Feeds
  BY FeedsAssumption
<1>. DEFINE rest == [q EXCEPT !.sid = 0, !.srow = NoSub]
<1>1. ASSUME NEW pc \in {"batch", "importSub"}, NEW e, e = [rest EXCEPT !.pc = pc]
      PROVE  e \in Job /\ JobOK(e) /\ \A f \in Feeds : Holds(e, f) => Holds(q, f)
  <2>1. e \in Job /\ e.pc = pc /\ e.srow = NoSub /\ e.id = q.id /\ e.todo = q.todo
        /\ e.list = q.list /\ e.row = q.row /\ e.known = q.known
    BY <1>1, RowTypes DEF Job
  <2>2. JobOK(e)
    BY <2>1 DEF JobOK
  <2>3. \A f \in Feeds : Holds(e, f) => Holds(q, f)
    BY <1>0, <2>1 DEF Holds, NoSub
  <2>. QED
    BY <2>1, <2>2, <2>3
<1>2. \/ AfterRow(q) = [rest EXCEPT !.pc = "batch"] \/ AfterRow(q) = [rest EXCEPT !.pc = "importSub"]
      \/ AfterRow(q) = Resting
  BY DEF AfterRow
<1>. HIDE DEF rest
<1>. QED
  BY <1>1, <1>2, RestingOK

LEMMA SubWriteStep ==
    ASSUME FeedInv, NEW g \in Goroutines, SubWrite(g)
    PROVE  FeedInv'
<1>0. FeedsTypeOK /\ job \in [Goroutines -> Job]
  BY DEF FeedInv
<1>1. PICK q \in Job : q = job[g] /\ JobOK(q) /\ q.pc = "subWrite"
  BY DEF FeedInv, SubWrite, Doing
<1>2. UNCHANGED <<feed, found, held, told, want, untold>> /\ Set(g, AfterRow(q))
  BY <1>1 DEF SubWrite
<1>3. turns' \in 0 .. MaxTurns
  <2>1. turns' = turns \/ Slip
    BY Zenon DEF SubWrite
  <2>. QED
    BY <2>1, TurnsLeft
<1>4. PICK p \in Job : p = AfterRow(q) /\ JobOK(p) /\ \A f \in Feeds : Holds(p, f) => Holds(q, f)
  BY <1>1, AfterRowOK
<1>5. job' = [job EXCEPT ![g] = p]
  BY <1>2, <1>4 DEF Set
<1>6. PICK x \in SubRow : x = q.srow
  BY DEF Job
<1>7. sub' = sub \/ \E s \in Subs : sub' = [sub EXCEPT ![s] = x]
  <2>1. \/ UnusedSubs # {} /\ sub' = [sub EXCEPT ![NextSub] = x]
        \/ sub' = sub
        \/ LiveSub(q.sid) /\ sub' = [sub EXCEPT ![q.sid] = x]
    BY <1>1, <1>6, Zenon DEF SubWrite
  <2>. QED
    BY <2>1, NextSubUnused DEF LiveSub
<1>8. sub' \in [Subs -> SubRow] /\ \A s \in Subs : sub'[s] = sub[s] \/ sub'[s] = x
  BY <1>0, <1>7 DEF FeedsTypeOK
<1>9. Holds(job[g], x.feed)
  BY <1>1, <1>6 DEF Holds
<1>10. Keeps
  BY <1>0, <1>1, <1>2, <1>5 DEF Keeps
<1>11. NoFeed \in FeedRow
  BY RowTypes
<1>. QED
  BY <1>0, <1>1, <1>2, <1>3, <1>4, <1>5, <1>8, <1>9, <1>10, <1>11, HandStep DEF FeedsTypeOK

\* Only what is left of the import changes.
LEMMA LessImport ==
    ASSUME NEW q \in Job, JobOK(q), NEW p \in Job, p.pc \in {"importSource", "importSub"},
           p.id = q.id, p.todo = q.todo, p.list = q.list, p.row = q.row,
           p.srow = q.srow, p.known = q.known
    PROVE  /\ JobOK(p) /\ Used(p) \in Job /\ JobOK(Used(p))
           /\ \A f \in Feeds : (Holds(p, f) => Holds(q, f)) /\ (Holds(Used(p), f) => Holds(q, f))
<1>2. JobOK(p)
  BY DEF JobOK
<1>3. \A f \in Feeds : Holds(p, f) => Holds(q, f)
  BY DEF Holds
<1>4. Used(p) \in Job /\ Used(p).pc = p.pc /\ Used(p).id = p.id /\ Used(p).todo = p.todo
      /\ Used(p).row = p.row /\ Used(p).list = p.list
      /\ \A f \in Feeds : Holds(Used(p), f) => Holds(p, f)
  BY UsedOK
<1>5. JobOK(Used(p))
  BY <1>2, <1>4, SMTT(60) DEF JobOK
<1>. QED
  BY <1>2, <1>3, <1>4, <1>5

LEMMA ImportSourceStep ==
    ASSUME FeedInv, NEW g \in Goroutines, ImportSource(g)
    PROVE  FeedInv'
<1>0. FeedsTypeOK /\ job \in [Goroutines -> Job]
  BY DEF FeedInv
<1>1. PICK q \in Job : q = job[g] /\ JobOK(q) /\ q.pc = "importSource"
  BY ZenonT(60) DEF FeedInv, ImportSource, Doing
<1>2. UNCHANGED <<sub, found, held, told, untold>> /\ held' \in [Feeds -> Goroutines \cup {0}]
  BY <1>0 DEF ImportSource, FeedsTypeOK
<1>3. turns' \in 0 .. MaxTurns
  <2>1. turns' = turns \/ Slip
    BY Zenon DEF ImportSource
  <2>. QED
    BY <2>1, TurnsLeft
<1>4. q.urls \in SUBSET Urls /\ q.subsOf \in SUBSET Urls
  BY DEF Job
<1>5. ASSUME NEW us \in SUBSET Urls, NEW pc \in {"importSource", "importSub"}, NEW p,
             p = [q EXCEPT !.urls = us, !.subsOf = q.subsOf, !.pc = pc],
             Set(g, p) \/ Set(g, Used(p)), UNCHANGED <<feed, want>>
      PROVE  FeedInv'
  <2>0. PICK ss \in SUBSET Urls : ss = q.subsOf
    BY <1>4
  <2>3. p = [q EXCEPT !.urls = us, !.subsOf = ss, !.pc = pc]
    BY <1>5, <2>0
  <2>4. p \in Job /\ p.pc = pc /\ p.id = q.id /\ p.todo = q.todo /\ p.list = q.list /\ p.row = q.row
        /\ p.srow = q.srow /\ p.known = q.known
    BY <2>3 DEF Job
  <2>1. /\ p \in Job /\ JobOK(p) /\ Used(p) \in Job /\ JobOK(Used(p))
        /\ \A f \in Feeds : (Holds(p, f) => Holds(q, f)) /\ (Holds(Used(p), f) => Holds(q, f))
    BY <1>1, <2>4, LessImport
  <2>2. PICK x \in Job : Set(g, x) /\ JobOK(x) /\ \A f \in Feeds : Holds(x, f) => Holds(job[g], f)
    BY <1>1, <1>5, <2>1, SMTT(60)
  <2>. QED
    BY <1>1, <1>2, <1>3, <1>5, <2>2, QuietStep
<1>6. CASE Set(g, [q EXCEPT !.pc = "importSub"]) /\ UNCHANGED <<feed, want>>
  <2>1. [q EXCEPT !.pc = "importSub"] = [q EXCEPT !.urls = q.urls, !.subsOf = q.subsOf, !.pc = "importSub"]
    BY DEF Job
  <2>. QED
    BY <1>4, <1>5, <1>6, <2>1, ZenonT(60)
<1>7. ASSUME NEW u \in q.urls, UNCHANGED <<feed, want>>,
             \/ Set(g, Used([q EXCEPT !.urls = q.urls \ {u}]))
             \/ Set(g, [q EXCEPT !.urls = q.urls \ {u}])
      PROVE  FeedInv'
  <2>1. PICK us \in SUBSET Urls : us = q.urls \ {u}
    BY <1>4
  <2>2. [q EXCEPT !.urls = us] = [q EXCEPT !.urls = us, !.subsOf = q.subsOf, !.pc = "importSource"]
    BY <1>1 DEF Job
  <2>. QED
    BY <1>5, <1>7, <2>1, <2>2, ZenonT(60)
<1>8. ASSUME NEW u \in q.urls, NEW on \in BOOLEAN, InsertFeed(NewRow(u, on)),
             Set(g, Used([[q EXCEPT !.urls = q.urls \ {u}] EXCEPT !.known[u] = NextFeed]))
      PROVE  FeedInv'
  <2>1. PICK us \in SUBSET Urls : us = q.urls \ {u}
    BY <1>4
  <2>2. PICK n \in Feeds : n = NextFeed
    BY <1>8, NextFeedUnused DEF InsertFeed
  <2>3. PICK k \in [Urls -> Feeds \cup {0}] : k = [q.known EXCEPT ![u] = n]
    BY <1>4 DEF Job
  <2>4. PICK p \in Job : p = [q EXCEPT !.urls = us, !.known = k]
    BY DEF Job
  <2>5. p = [[q EXCEPT !.urls = us] EXCEPT !.known[u] = n]
    BY <2>3, <2>4 DEF Job
  <2>6. /\ p.pc = q.pc /\ p.id = q.id /\ p.todo = q.todo /\ p.list = q.list /\ p.row = q.row
        /\ p.srow = q.srow /\ p.known = k
    BY <2>4 DEF Job
  <2>7. PICK x \in Job : x = Used(p)
    BY UsedOK
  <2>8. JobOK(x)
    BY <1>1, <2>6, <2>7, UsedOK DEF JobOK
  <2>9. \A f \in Feeds : Holds(p, f) => Holds(job[g], f) \/ f = NextFeed
    BY <1>1, <1>4, <2>2, <2>3, <2>6 DEF Holds, Job
  <2>10. \A f \in Feeds : Holds(x, f) => Holds(job[g], f) \/ f = NextFeed
    BY <2>7, <2>9, UsedOK
  <2>11. job' = [job EXCEPT ![g] = x]
    BY <1>8, <2>1, <2>2, <2>5, <2>7 DEF Set
  <2>12. PICK r \in FeedRow : r = NewRow(u, on)
    BY <1>4, RowTypes
  <2>13. r.state = "live" /\ r.fails = 0 /\ InsertFeed(r)
    BY <1>8, <2>12 DEF NewRow
  <2>. QED
    BY <1>1, <1>2, <1>3, <2>8, <2>10, <2>11, <2>13, InsertStep
<1>9. \/ Set(g, [q EXCEPT !.pc = "importSub"]) /\ UNCHANGED <<feed, want>>
      \/ \E u \in q.urls :
            \/ UNCHANGED <<feed, want>> /\ (Set(g, Used([q EXCEPT !.urls = q.urls \ {u}]))
                                            \/ Set(g, [q EXCEPT !.urls = q.urls \ {u}]))
            \/ /\ \E on \in BOOLEAN : InsertFeed(NewRow(u, on))
               /\ Set(g, Used([[q EXCEPT !.urls = q.urls \ {u}] EXCEPT !.known[u] = NextFeed]))
  BY <1>1, ZenonT(60) DEF ImportSource
<1>. QED
  BY <1>6, <1>7, <1>8, <1>9, ZenonT(60)

LEMMA ImportSubStep ==
    ASSUME FeedInv, NEW g \in Goroutines, ImportSub(g)
    PROVE  FeedInv'
<1>0. FeedsTypeOK /\ job \in [Goroutines -> Job] /\ 0 \notin Feeds
  BY FeedsAssumption DEF FeedInv
<1>1. PICK q \in Job : q = job[g] /\ JobOK(q) /\ q.pc = "importSub"
  BY ZenonT(60) DEF FeedInv, ImportSub, Doing
<1>2. /\ UNCHANGED <<feed, sub, found, held, told, turns, want, untold>>
      /\ held' \in [Feeds -> Goroutines \cup {0}] /\ turns' \in 0 .. MaxTurns
  BY <1>0 DEF ImportSub, FeedsTypeOK
<1>3. q.urls \in SUBSET Urls /\ q.subsOf \in SUBSET Urls /\ q.known \in [Urls -> Feeds \cup {0}]
  BY DEF Job
<1>4. CASE Set(g, Resting)
  <2>1. PICK p \in Job : p = Resting
    BY RestingOK
  <2>. QED
    BY <1>1, <1>2, <1>4, <2>1, RestingOK, QuietStep
<1>5. ASSUME NEW u \in q.subsOf, Set(g, Used([q EXCEPT !.subsOf = q.subsOf \ {u}]))
      PROVE  FeedInv'
  <2>1. PICK ss \in SUBSET Urls : ss = q.subsOf \ {u}
    BY <1>3
  <2>2. [q EXCEPT !.subsOf = ss] = [q EXCEPT !.urls = q.urls, !.subsOf = ss, !.pc = "importSub"]
    BY <1>1 DEF Job
  <2>3. PICK p : p = [q EXCEPT !.urls = q.urls, !.subsOf = ss, !.pc = "importSub"]
    OBVIOUS
  <2>6. PICK us \in SUBSET Urls, pc \in {"importSource", "importSub"} : us = q.urls /\ pc = "importSub"
    BY <1>3
  <2>7. p = [q EXCEPT !.urls = us, !.subsOf = ss, !.pc = pc]
    BY <2>3, <2>6
  <2>8. Used(p) \in Job /\ JobOK(Used(p)) /\ \A f \in Feeds : Holds(Used(p), f) => Holds(q, f)
    <3>1. p \in Job /\ p.pc = pc /\ p.id = q.id /\ p.todo = q.todo /\ p.list = q.list /\ p.row = q.row
          /\ p.srow = q.srow /\ p.known = q.known
      BY <2>7 DEF Job
    <3>. QED
      BY <1>1, <3>1, LessImport
  <2>4. PICK x \in Job : x = Used(p) /\ JobOK(x) /\ \A f \in Feeds : Holds(x, f) => Holds(q, f)
    BY <2>8
  <2>5. Set(g, x)
    BY <1>5, <2>1, <2>2, <2>3, <2>4
  <2>. QED
    BY <1>1, <1>2, <2>4, <2>5, QuietStep
<1>6. ASSUME NEW u \in q.subsOf, q.known[u] # 0,
             Set(g, Used([[q EXCEPT !.subsOf = q.subsOf \ {u}]
                            EXCEPT !.pc = "subWrite", !.srow = [state |-> "live", feed |-> q.known[u]]]))
      PROVE  FeedInv'
  <2>1. PICK ss \in SUBSET Urls : ss = q.subsOf \ {u}
    BY <1>3
  <2>2. PICK n \in Feeds : n = q.known[u]
    BY <1>3, <1>6
  <2>3. PICK y \in SubRow : y = [state |-> "live", feed |-> n]
    BY DEF SubRow
  <2>4. PICK p \in Job : p = [q EXCEPT !.subsOf = ss, !.pc = "subWrite", !.srow = y]
    BY DEF Job
  <2>5. /\ p.pc = "subWrite" /\ p.id = q.id /\ p.todo = q.todo /\ p.list = q.list /\ p.row = q.row
        /\ p.srow = y /\ y.feed = n /\ p.known = q.known
    BY <2>3, <2>4 DEF Job
  <2>6. PICK x \in Job : x = Used(p)
    BY UsedOK
  <2>7. JobOK(x)
    BY <1>1, <2>5, <2>6, UsedOK DEF JobOK
  <2>8. \A f \in Feeds : Holds(p, f) => Holds(job[g], f)
    BY <1>1, <1>3, <2>2, <2>5 DEF Holds
  <2>9. \A f \in Feeds : Holds(x, f) => Holds(job[g], f)
    BY <2>6, <2>8, UsedOK
  <2>10. p = [[q EXCEPT !.subsOf = ss] EXCEPT !.pc = "subWrite", !.srow = y]
    BY <2>4 DEF Job
  <2>11. Set(g, x)
    BY <1>6, <2>1, <2>2, <2>3, <2>6, <2>10
  <2>. QED
    BY <1>1, <1>2, <2>7, <2>9, <2>11, QuietStep
<1>7. \/ Set(g, Resting)
      \/ \E u \in q.subsOf :
            \/ Set(g, Used([q EXCEPT !.subsOf = q.subsOf \ {u}]))
            \/ /\ q.known[u] # 0
               /\ Set(g, Used([[q EXCEPT !.subsOf = q.subsOf \ {u}]
                                 EXCEPT !.pc = "subWrite", !.srow = [state |-> "live", feed |-> q.known[u]]]))
  BY <1>1, Zenon DEF ImportSub
<1>. QED
  BY <1>4, <1>5, <1>6, <1>7, ZenonT(60)

-----------------------------------------------------------------------------
(* Time and the process *)

LEMMA FeedElapseStep ==
    ASSUME FeedInv, NEW d \in Feeds, FeedElapse(d)
    PROVE  FeedInv'
<1>0. FeedsTypeOK /\ job \in [Goroutines -> Job] /\ want \in [Feeds -> [url : Urls, on : BOOLEAN, sure : BOOLEAN]]
  BY DEF FeedInv
<1>1. UNCHANGED <<sub, found, held, told, turns, want, untold>>
  BY DEF FeedElapse
<1>2. PICK r \in FeedRow : r = [feed[d] EXCEPT !.due = TRUE]
  BY <1>0, ZenonT(150) DEF FeedsTypeOK, FeedRow
<1>3. r.state = feed[d].state /\ r.fails = feed[d].fails /\ Wanted(r) = Wanted(feed[d])
  BY <1>0, <1>2 DEF FeedsTypeOK, FeedRow, Wanted
<1>4. feed' = [feed EXCEPT ![d] = r]
  BY <1>0, <1>2 DEF FeedElapse, FeedsTypeOK
<1>5. /\ feed' \in [Feeds -> FeedRow]
      /\ \A f \in Feeds : /\ feed'[f].state = feed[f].state /\ feed'[f].fails = feed[f].fails
                          /\ Wanted(feed'[f]) = Wanted(feed[f])
  BY <1>0, <1>3, <1>4 DEF FeedsTypeOK
<1>6. \A f \in Feeds : Live(f)' <=> Live(f)
  BY <1>5 DEF Live
<1>7. ASSUME NEW h \in Goroutines
      PROVE  /\ job'[h] \in Job
             /\ job'[h].pc = job[h].pc /\ job'[h].id = job[h].id /\ job'[h].todo = job[h].todo
             /\ job'[h].list = job[h].list /\ job'[h].srow = job[h].srow /\ job'[h].known = job[h].known
             /\ job'[h].row.state = job[h].row.state /\ job'[h].row.fails = job[h].row.fails
             /\ Wanted(job'[h].row) = Wanted(job[h].row)
             /\ job[h].pc = "notify" => job'[h].row = job[h].row
  <2>1. PICK q \in Job : q = job[h]
    BY <1>0
  <2>2. PICK x \in FeedRow : x = [q.row EXCEPT !.due = TRUE]
    BY DEF Job, FeedRow
  <2>3. x.state = q.row.state /\ x.fails = q.row.fails /\ Wanted(x) = Wanted(q.row)
    BY <2>2 DEF Job, FeedRow, Wanted
  <2>4. job'[h] = q \/ (job'[h] = [q EXCEPT !.row = x] /\ q.pc = "edit")
    <3>1. job'[h] = IF Doing(h, "edit") /\ job[h].id = d THEN [job[h] EXCEPT !.row.due = TRUE] ELSE job[h]
      BY DEF FeedElapse
    <3>. QED
      BY <3>1, <2>1, <2>2 DEF Doing, Job
  <2>. QED
    BY <2>1, <2>3, <2>4 DEF Job
<1>8. job' \in [Goroutines -> Job]
  <2>1. job' = [h \in Goroutines |-> job'[h]]
    BY DEF FeedElapse
  <2>. QED
    BY <1>7, <2>1
<1>9. Keeps
  BY <1>1, <1>7 DEF Keeps
<1>10. FeedsTypeOK'
  <2>1. \A h \in Goroutines : job'[h].row \in FeedRow /\ job'[h].srow \in SubRow
    BY <1>8 DEF Job
  <2>. QED
    BY <2>1, <1>0, <1>1, <1>5 DEF FeedsTypeOK
<1>11. ASSUME NEW f \in Feeds, NEW row, NEW old, FeedRowOK(f, old),
              row.state = old.state, row.fails = old.fails, Wanted(row) = Wanted(old)
       PROVE  FeedRowOK(f, row)'
  <2>1. FeedRowOK(f, row)
    BY <1>11 DEF FeedRowOK
  <2>. QED
    BY <2>1, <1>1, <1>6, <1>9, RowStays
<1>12. ASSUME NEW f \in Feeds PROVE FeedRowOK(f, feed[f])' /\ LeftOK(f)'
  <2>1. PICK row, old : row = feed'[f] /\ old = feed[f]
    OBVIOUS
  <2>2. FeedRowOK(f, old) /\ LeftOK(f)
    BY <2>1 DEF FeedInv
  <2>3. FeedRowOK(f, row)'
    BY <2>1, <2>2, <1>5, <1>11
  <2>4. \A h \in Goroutines : Holds(job'[h], f) <=> Holds(job[h], f)
    BY <1>7 DEF Holds
  <2>5. LeftOK(f)'
    BY <2>2, <2>4, <1>1, <1>5 DEF LeftOK, Clean, LiveSub, Holds
  <2>. QED
    BY <2>1, <2>3, <2>5
<1>13. ASSUME NEW h \in Goroutines PROVE JobOK(job[h])'
  <2>1. PICK p \in Job, q \in Job : p = job'[h] /\ q = job[h]
    BY <1>0, <1>8
  <2>2. JobOK(q)
    BY <2>1 DEF FeedInv
  <2>3. JobOK(q)'
    BY <2>2, <1>1, <1>5, <1>6, <1>9, JobStays
  <2>4. p.pc \in {"edit", "fetch"} => FeedRowOK(p.id, p.row)'
    <3>. SUFFICES ASSUME p.pc \in {"edit", "fetch"} PROVE FeedRowOK(p.id, p.row)'
      OBVIOUS
    <3>1. PICK f \in Feeds, row \in FeedRow, old \in FeedRow : f = p.id /\ row = p.row /\ old = q.row
      BY <1>7, <2>1, <2>2 DEF Job, JobOK
    <3>2. FeedRowOK(f, old)
      BY <1>7, <2>1, <2>2, <3>1 DEF JobOK
    <3>3. FeedRowOK(f, row)'
      BY <1>7, <1>11, <2>1, <3>1, <3>2
    <3>. QED
      BY <3>1, <3>3
  <2>5. JobOK(p)'
    BY <1>7, <2>1, <2>3, <2>4 DEF JobOK, HealthFor
  <2>. QED
    BY <2>1, <2>5
<1>. QED
  BY <1>0, <1>1, <1>8, <1>10, <1>12, <1>13 DEF FeedInv

LEMMA RestartStep ==
    ASSUME FeedInv, Restart
    PROVE  FeedInv'
<1>0. FeedsTypeOK /\ want' \in [Feeds -> [url : Urls, on : BOOLEAN, sure : BOOLEAN]]
  BY DEF FeedInv, Restart
<1>1. UNCHANGED <<feed, sub, found, told, want>> /\ turns' \in 0 .. MaxTurns
  BY TurnsLeft DEF Restart
<1>2. job' = [g \in Goroutines |-> Resting] /\ held' = [f \in Feeds |-> 0]
  BY DEF Restart
<1>3. Keeps
  BY <1>1, <1>2 DEF Keeps, Restart, Doing
<1>4. PICK q \in Job : q = Resting
  BY RestingOK
<1>5. job' \in [Goroutines -> Job] /\ \A h \in Goroutines : job'[h] = q
  BY <1>2, <1>4
<1>6. FeedsTypeOK'
  <2>1. \A h \in Goroutines : job'[h].row \in FeedRow /\ job'[h].srow \in SubRow
    BY <1>5 DEF Job
  <2>. QED
    BY <2>1, <1>0, <1>1, <1>2 DEF FeedsTypeOK
<1>7. \A f \in Feeds : Live(f)' <=> Live(f)
  BY <1>1 DEF Live
<1>8. ASSUME NEW f \in Feeds PROVE FeedRowOK(f, feed[f])' /\ LeftOK(f)'
  <2>1. PICK row : row = feed[f]
    OBVIOUS
  <2>2. FeedRowOK(f, row) /\ LeftOK(f)
    BY <2>1 DEF FeedInv
  <2>3. FeedRowOK(f, row)'
    BY <2>2, <1>1, <1>3, <1>7, RowStays
  <2>4. \A h \in Goroutines : ~ Holds(job'[h], f)
    BY <1>4, <1>5, RestingOK
  <2>5. LeftOK(f)'
    BY <2>2, <2>4, <1>1 DEF LeftOK, Clean, LiveSub, Holds
  <2>. QED
    BY <2>1, <2>3, <2>5, <1>1
<1>9. ASSUME NEW h \in Goroutines PROVE JobOK(job[h])'
  <2>1. JobOK(q)
    BY <1>4, RestingOK
  <2>2. JobOK(q)'
    BY <2>1, <1>1, <1>3, <1>7, JobStays
  <2>. QED
    BY <2>2, <1>5
<1>. QED
  BY <1>0, <1>5, <1>6, <1>8, <1>9 DEF FeedInv

-----------------------------------------------------------------------------

LEMMA FeedInit == FeedsInit => FeedInv
<1>. SUFFICES ASSUME FeedsInit PROVE FeedInv
  OBVIOUS
<1>1. PICK first \in Feeds : first = CHOOSE f \in Feeds : \A g \in Feeds : f <= g
  BY FeedsAssumption, LeastOf
<1>2. PICK firstSub \in Subs : firstSub = CHOOSE s \in Subs : \A t \in Subs : s <= t
  BY FeedsAssumption, LeastOf
<1>3. PICK r \in FeedRow : r = Succeeded(NewRow(AnyUrl, TRUE))
  BY RowTypes
<1>4. r.fails = 0 /\ r.state = "live"
  BY <1>3 DEF Succeeded, NewRow
<1>5. PICK x \in SubRow : x = [state |-> "live", feed |-> first]
  BY DEF SubRow
<1>6. /\ feed = [f \in Feeds |-> IF f = first THEN r ELSE NoFeed]
      /\ sub = [s \in Subs |-> IF s = firstSub THEN x ELSE NoSub]
      /\ found = {first} /\ told = {} /\ untold = {}
      /\ held = [f \in Feeds |-> 0] /\ job = [g \in Goroutines |-> Resting]
      /\ want = [f \in Feeds |-> Wanted(feed[f])] /\ turns = MaxTurns
  BY <1>1, <1>2, <1>3, <1>5 DEF FeedsInit
<1>7. feed \in [Feeds -> FeedRow] /\ sub \in [Subs -> SubRow] /\ job \in [Goroutines -> Job]
      /\ \A g \in Goroutines : job[g] = Resting
  BY <1>6, RowTypes, RestingOK
<1>8. \A f \in Feeds : feed[f].fails = 0 /\ feed[f].state \in {"live", "unused"}
  BY <1>4, <1>6 DEF NoFeed
<1>9. want \in [Feeds -> [url : Urls, on : BOOLEAN, sure : BOOLEAN]]
  BY <1>6, <1>7 DEF Wanted, FeedRow
<1>10. FeedsTypeOK
  <2>1. \A g \in Goroutines : job[g].row \in FeedRow /\ job[g].srow \in SubRow
    BY <1>7 DEF Job
  <2>2. turns \in 0 .. MaxTurns
    BY <1>6, FeedsAssumption
  <2>. QED
    BY <1>6, <1>7, <2>1, <2>2 DEF FeedsTypeOK
<1>11. ASSUME NEW f \in Feeds PROVE FeedRowOK(f, feed[f]) /\ LeftOK(f)
  <2>1. PICK k \in 0 .. CircuitAt : k = 0 /\ k = feed[f].fails
    BY <1>8, FeedsAssumption
  <2>2. Announced(f, feed[f].fails)
    BY <2>1, HealthValues DEF Announced
  <2>. QED
    BY <2>2, <1>6, <1>8 DEF FeedRowOK, LeftOK, Clean, Live
<1>. QED
  BY <1>7, <1>9, <1>10, <1>11, RestingOK DEF FeedInv

LEMMA RequestStep ==
    ASSUME FeedInv, NEW g \in Callers, Request(g)
    PROVE  FeedInv'
<1>1. g \in Goroutines /\ turns' \in 0 .. MaxTurns
  BY TurnsLeft DEF Goroutines, Request, Slip
<1>2. ASSUME NEW f \in Feeds, RefreshSource(g, f) PROVE FeedInv'
  BY <1>1, <1>2, RefreshStep DEF RefreshSource
<1>3. CASE RefreshAllSources(g)
  BY <1>1, <1>3, RefreshStep DEF RefreshAllSources
<1>. QED
  BY <1>1, <1>2, <1>3, CreateSourceStep, EditStartStep, DeleteSourceStep, SubRequestStep,
     DeleteSubscriptionStep, BatchStartStep, ImportStartStep DEF Request

LEMMA FeedStepInv == FeedInv /\ [FeedsNext]_feedVars => FeedInv'
<1>. SUFFICES ASSUME FeedInv, [FeedsNext]_feedVars PROVE FeedInv'
  OBVIOUS
<1>1. ASSUME NEW g \in Callers, Request(g) PROVE FeedInv'
  BY <1>1, RequestStep
<1>2. ASSUME NEW g \in Goroutines, FeedStep(g) PROVE FeedInv'
  BY <1>2, EditWriteStep, NextSourceStep, FetchFailsStep, NotifyFailureStep, FetchItemsStep,
     BatchNextStep, SubWriteStep, ImportSourceStep, ImportSubStep DEF FeedStep
<1>3. CASE FeedTick
  <2>1. Refresher \in Goroutines /\ turns' \in 0 .. MaxTurns
    BY <1>3, TurnsLeft DEF Goroutines, FeedTick
  <2>. QED
    BY <1>3, <2>1, RefreshStep DEF FeedTick, RefreshDueSources
<1>4. ASSUME NEW f \in Feeds, FeedElapse(f) PROVE FeedInv'
  BY <1>4, FeedElapseStep
<1>5. CASE Restart
  BY <1>5, RestartStep
<1>6. CASE UNCHANGED feedVars
  <2>1. FeedsTypeOK'
    BY <1>6, SMTT(60) DEF feedVars, FeedInv, FeedsTypeOK
  <2>2. \A g \in Goroutines : JobOK(job[g])'
    BY <1>6, SMTT(60) DEF feedVars, FeedInv, JobOK, FeedRowOK, Announced, HealthFor, Live, Wanted
  <2>3. \A f \in Feeds : FeedRowOK(f, feed[f])' /\ LeftOK(f)'
    BY <1>6 DEF feedVars, FeedInv, FeedRowOK, Announced, HealthFor, Live, Wanted, LeftOK, Clean, LiveSub, Holds
  <2>. QED
    BY <1>6, <2>1, <2>2, <2>3 DEF feedVars, FeedInv
<1>. QED
  BY <1>1, <1>2, <1>3, <1>4, <1>5, <1>6 DEF FeedsNext

LEMMA FeedInvariant == RSSSpec => []FeedInv
<1>1. RSSInit => FeedInv
  BY FeedInit DEF RSSInit
<1>2. FeedInv /\ [RSSNext]_all => FeedInv'
  BY FeedStepInv DEF RSSNext, OfItems, OfFeeds, all
<1>. QED
  BY <1>1, <1>2, PTL DEF RSSSpec

\* A source has the url and the switch that a request last gave it, and a deleted
\* one leaves no subscription and no item behind, unless another goroutine had
\* it in hand when the request wrote: UpdateSource writes a whole row, but every
\* copy that is written was read after the last edit, or the edit met it.
THEOREM ConfigurationIsKept == RSSSpec => []ConfigKept
<1>1. FeedInv => ConfigKept
  BY DEF FeedInv, ConfigKept, FeedRowOK, LeftOK, Clean
<1>. QED
  BY <1>1, FeedInvariant, PTL

\* notifyRSSSourceFailure compares the health of the copy before and after the
\* failure is counted, not with the row.  However many stale copies of a row are
\* counted and written, a source is in a worse health only after that health has
\* been told of, or while the goroutine that counted the failure is about to, or
\* when an error or a restart took the notification.
THEOREM WorseHealthIsTold == RSSSpec => []WorseHealthTold
<1>1. FeedInv => WorseHealthTold
  BY DEF FeedInv, WorseHealthTold, FeedRowOK, Announced, Doing
<1>. QED
  BY <1>1, FeedInvariant, PTL
=============================================================================
