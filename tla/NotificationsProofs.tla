------------------------ MODULE NotificationsProofs ------------------------
(***************************************************************************)
(* Proofs about Notifications for any number of events, channels and       *)
(* goroutines, any limits and any number of faults and retries by hand.    *)
(***************************************************************************)
EXTENDS Notifications, FiniteSetTheorems, TLAPS

Waiting == {"pending", "retry_pending"}

\* How often an event may be sent around: two more times for a retry by hand.
Allowance(e) == MaxAttempts + 2 * manual[e]

\* What holds of every copy of an event's row, however old.
RowOK(e, row) ==
    /\ event[e].status # "absent" /\ row.type = event[e].type
    /\ row.status # "absent"
    /\ row.attempts <= tries[e]
    /\ row.status = "failed" => row.attempts >= MaxAttempts

\* The rows that the worker has listed and not yet dealt with
ListOK(p) ==
    LET q == proc[p]
    IN  /\ \A e \in q.todo : /\ RowOK(e, q.list[e])
                             /\ q.list[e].status \in Waiting
                             /\ q.list[e].attempts < Allowance(e)
        /\ q.n + Cardinality(q.todo) <= Limit
        /\ p # Worker => q.todo = {}

\* The event in hand: what dispatchEvent has counted and what it has left to
\* send.  The attempts leave room for those that the copy can still cause.
HandOK(p) ==
    LET q == proc[p]
        e == q.event
    IN  /\ q.pc \in {"idle", "list"} => e = 0 /\ q.todo = {}
        /\ q.pc = "list" => p = Worker
        /\ q.pc \in {"channels", "send", "write"} => e \in Events \ q.todo /\ RowOK(e, q.row)
        /\ q.pc = "channels" =>
              /\ q.row.attempts + (IF q.manual THEN 2 ELSE 1) <= Allowance(e)
              /\ q.row.status \notin {"delivered", "skipped"}
        /\ q.pc = "send" =>
              /\ q.row.attempts + (IF q.manual THEN 1 ELSE 0) <= Allowance(e)
              /\ q.row.status \notin {"delivered", "skipped"}
              /\ q.rest # {}
              /\ ~ q.failed => owed[e] \subseteq got[e] \cup q.rest
        /\ q.pc = "write" =>
              /\ q.row.attempts <= Allowance(e)
              /\ q.row.status \in Waiting => q.row.attempts < Allowance(e)
              /\ q.row.status \in {"delivered", "skipped"} => owed[e] \subseteq got[e]

EventOK(e) ==
    /\ owed[e] \subseteq Matching(event[e].type)
    /\ event[e].attempts <= tries[e]
    /\ event[e].attempts <= Allowance(e)
    /\ event[e].status \in Waiting => event[e].attempts < Allowance(e)
    /\ event[e].status = "failed" => event[e].attempts >= MaxAttempts
    /\ event[e].status \in {"delivered", "skipped"} => owed[e] \subseteq got[e]

\* The inductive invariant behind SettledTruly
TruthInv ==
    /\ \A p \in Procs : ListOK(p) /\ HandOK(p)
    /\ \A e \in Events : EventOK(e)

\* The attempts counted in a goroutine's copy of an event's row, if it has one
Counted(q, e) ==
    IF e = q.event THEN {q.row.attempts}
    ELSE IF e \in q.todo THEN {q.list[e].attempts} ELSE {}

\* Only one goroutine has an event in hand, and the attempts that it has counted,
\* or with none the row's, are all there were.
CountOK(e) ==
    /\ \A p, q \in Procs : p # q => Counted(proc[p], e) = {} \/ Counted(proc[q], e) = {}
    /\ \A p \in Procs : Counted(proc[p], e) \subseteq {tries[e]}
    /\ (\A p \in Procs : Counted(proc[p], e) = {}) => event[e].attempts = tries[e]
    /\ event[e].status = "absent" => tries[e] = 0

\* The inductive invariant behind SendsBounded
CountInv == \A e \in Events \ loose : CountOK(e)

-----------------------------------------------------------------------------
(* Finite sets of numbers *)

LEMMA Least ==
    ASSUME NEW S \in SUBSET Nat, S # {}
    PROVE  \E x \in S : \A y \in S : x <= y
<1>. DEFINE R == OpToRel(<, Nat)
<1>0. IsWellFoundedOn(R, Nat)
  BY NatLessThanWellFounded, Zenon
<1>1. \A x, y \in Nat : y < x => <<y, x>> \in R
  BY Zenon DEF OpToRel
<1>. HIDE DEF R
<1>2. PICK x \in S : \A y \in S : ~ (<<y, x>> \in R)
  BY <1>0, WFMin
<1>3. \A y \in S : ~ (y < x)
  BY <1>1, <1>2
<1>. QED
  BY <1>3

\* A finite set of numbers has a largest element, and Max finds it: the one
\* with the fewest above it.
LEMMA MaxIn ==
    ASSUME NEW S \in SUBSET Nat, IsFiniteSet(S), S # {}
    PROVE  Max(S) \in S /\ \A y \in S : y <= Max(S)
<1>. DEFINE Above(x) == {y \in S : y > x}
            Counts == {Cardinality(Above(x)) : x \in S}
<1>1. ASSUME NEW x \in S PROVE IsFiniteSet(Above(x)) /\ Cardinality(Above(x)) \in Nat
  BY FS_Subset, FS_CardinalityType
<1>2. Counts \in SUBSET Nat /\ Counts # {}
  BY <1>1
<1>a. ASSUME NEW x \in S, NEW y \in S, y > x
      PROVE  Above(y) \in SUBSET Above(x) /\ y \in Above(x) /\ y \notin Above(y)
  <2>1. x \in Nat /\ y \in Nat
    OBVIOUS
  <2>2. y \in Above(x) /\ y \notin Above(y)
    BY <1>a, <2>1
  <2>3. ASSUME NEW z \in Above(y) PROVE z \in Above(x)
    <3>1. z \in S /\ z \in Nat /\ z > y
      OBVIOUS
    <3>. QED
      BY <1>a, <2>1, <3>1
  <2>. QED
    BY <2>2, <2>3
<1>. HIDE DEF Above, Counts
<1>3. PICK k \in Counts : \A n \in Counts : k <= n
  BY <1>2, Least
<1>4. PICK x \in S : k = Cardinality(Above(x))
  BY <1>3 DEF Counts
<1>5. ASSUME NEW y \in S, y > x PROVE FALSE
  <2>1. /\ Above(y) \in SUBSET Above(x)
        /\ y \in Above(x) /\ y \notin Above(y)
    BY <1>5, <1>a
  <2>2. Cardinality(Above(y)) <= Cardinality(Above(x)) /\ Cardinality(Above(x)) # Cardinality(Above(y))
    BY <1>1, <2>1, FS_Subset
  <2>3. Cardinality(Above(x)) <= Cardinality(Above(y))
    BY <1>3, <1>4 DEF Counts
  <2>. QED
    BY <1>1, <2>2, <2>3
<1>6. \A y \in S : x >= y
  BY <1>5
<1>7. \E z \in S : \A y \in S : z >= y
  BY <1>6
<1>8. Max(S) \in S /\ \A y \in S : Max(S) >= y
  BY <1>7, Zenon DEF Max
<1>. QED
  BY <1>8

\* ListEvents returns no more rows than its limit.
LEMMA NewestBound ==
    ASSUME NEW S \in SUBSET Nat, IsFiniteSet(S), NEW k \in Nat
    PROVE  /\ Newest(S, k) \subseteq S /\ IsFiniteSet(Newest(S, k))
           /\ Cardinality(Newest(S, k)) <= k
<1>. DEFINE T == Newest(S, k)
<1>1. T \subseteq S /\ IsFiniteSet(T) /\ T \in SUBSET Nat
  BY FS_Subset DEF Newest
<1>2. CASE T = {}
  BY <1>1, <1>2, FS_EmptySet
<1>3. CASE T # {}
  <2>1. PICK m \in T : \A y \in T : m <= y
    BY <1>1, <1>3, Least
  <2>. DEFINE U == {d \in S : d > m}
  <2>2. Cardinality(U) < k
    BY <2>1 DEF Newest
  <2>3. IsFiniteSet(U) /\ Cardinality(U) \in Nat
    BY FS_Subset, FS_CardinalityType
  <2>4. T \ {m} \in SUBSET U
    BY <1>1, <2>1
  <2>. HIDE DEF T, U
  <2>5. Cardinality(T \ {m}) <= Cardinality(U)
    BY <2>3, <2>4, FS_Subset
  <2>6. Cardinality(T \ {m}) = Cardinality(T) - 1 /\ Cardinality(T) \in Nat
    BY <1>1, <2>1, FS_RemoveElement, FS_CardinalityType
  <2>7. Cardinality(T) <= k
    BY <2>2, <2>3, <2>5, <2>6
  <2>. QED
    BY <1>1, <2>7 DEF T
<1>. QED
  BY <1>2, <1>3

LEMMA Numbers ==
    /\ Events \in SUBSET Nat /\ 0 \notin Events
    /\ Cardinality(Procs) \in Nat
    /\ MaxAttempts \in Nat \ {0} /\ Limit \in Nat \ {0} /\ MaxFaults \in Nat /\ MaxManual \in Nat
    /\ MaxTries \in Nat /\ MaxAttempts + 2 * MaxManual <= MaxTries
<1>1. Cardinality(Events) \in Nat
  BY NotificationAssumption, FS_CardinalityType
<1>2. IsFiniteSet(Procs)
  BY NotificationAssumption, FS_AddElement DEF Procs
<1>3. Cardinality(Procs) \in Nat
  BY <1>2, FS_CardinalityType
<1>4. Events \in SUBSET Nat /\ 0 \notin Events
  BY <1>1, NotificationAssumption
<1>5. /\ MaxAttempts \in Nat \ {0} /\ Limit \in Nat \ {0}
      /\ MaxFaults \in Nat /\ MaxManual \in Nat
  BY NotificationAssumption
<1>. QED
  BY <1>3, <1>4, <1>5 DEF MaxTries

-----------------------------------------------------------------------------
(* The records of rows and goroutines *)

LEMMA IdleType ==
    /\ NoRow \in Row /\ Idle \in Proc
    /\ Idle.pc = "idle" /\ Idle.event = 0 /\ Idle.todo = {} /\ Idle.n = 0
<1>1. NoRow \in Row
  BY Numbers DEF NoRow, Row
<1>. QED
  BY <1>1, Numbers DEF Idle, Proc

\* What Hold makes of a goroutine.
LEMMA HoldFields ==
    ASSUME NEW q \in Proc, NEW e \in Events, NEW row \in Row, NEW byHand \in BOOLEAN
    PROVE  LET h == Hold(q, e, row, byHand)
           IN  /\ h \in Proc /\ h.pc = "channels" /\ h.event = e /\ h.row = row
               /\ h.manual = byHand /\ h.todo = q.todo \ {e} /\ h.n = q.n
               /\ \A d \in Events \ {e} : h.list[d] = q.list[d]
<1>1. q.list \in [Events -> Row] /\ [q.list EXCEPT ![e] = NoRow] \in [Events -> Row]
  BY IdleType DEF Proc
<1>. QED
  BY <1>1, ZenonT(60) DEF Hold, Proc

\* The worker goes on: with the last of its list, with its second list, or not.
LEMMA OnwardFields ==
    ASSUME NEW q \in Proc, q.n + Cardinality(q.todo) <= Limit
    PROVE  LET o == Onward(q)
           IN  /\ o \in Proc /\ o.n + Cardinality(o.todo) <= Limit
               /\ \/ /\ q.todo = {} /\ o.event = 0 /\ o.pc \in {"idle", "list"} /\ o.todo = {}
                  \/ /\ o.event \in q.todo /\ o.pc = "channels" /\ o.manual = FALSE
                     /\ o.row = q.list[o.event] /\ o.todo = q.todo \ {o.event}
                     /\ \A d \in o.todo : o.list[d] = q.list[d]
<1>0. /\ q.todo \in SUBSET Events /\ q.list \in [Events -> Row] /\ q.n \in 0 .. Limit
      /\ IsFiniteSet(q.todo) /\ Cardinality(q.todo) \in Nat
  BY NotificationAssumption, FS_Subset, FS_CardinalityType, SMTT(60) DEF Proc
<1>1. CASE q.todo # {}
  <2>. DEFINE e == Max(q.todo)
              m == [q EXCEPT !.n = @ + 1]
              h == Hold(m, e, q.list[e], FALSE)
  <2>1. e \in q.todo
    BY <1>0, <1>1, Numbers, MaxIn
  <2>. HIDE DEF e
  <2>2. Cardinality(q.todo \ {e}) = Cardinality(q.todo) - 1
    BY <1>0, <2>1, FS_RemoveElement
  <2>3. Cardinality(q.todo) >= 1
    BY <1>0, <1>1, FS_EmptySet
  <2>4. m \in Proc /\ m.n = q.n + 1 /\ m.todo = q.todo /\ m.list = q.list
    <3>1. q.n + 1 \in 0 .. Limit
      BY <1>0, <2>3, Numbers
    <3>. QED
      BY <3>1 DEF Proc
  <2>. HIDE DEF m
  <2>5. /\ h \in Proc /\ h.pc = "channels" /\ h.event = e /\ h.row = q.list[e]
        /\ h.manual = FALSE /\ h.todo = q.todo \ {e} /\ h.n = q.n + 1
        /\ \A d \in Events \ {e} : h.list[d] = q.list[d]
    <3>1. e \in Events /\ q.list[e] \in Row /\ FALSE \in BOOLEAN
      BY <1>0, <2>1
    <3>2. /\ h \in Proc /\ h.pc = "channels" /\ h.event = e /\ h.row = q.list[e]
          /\ h.manual = FALSE /\ h.todo = m.todo \ {e} /\ h.n = m.n
          /\ \A d \in Events \ {e} : h.list[d] = m.list[d]
      <4>1. m.list \in [Events -> Row] /\ [m.list EXCEPT ![e] = NoRow] \in [Events -> Row]
        BY <2>4, <3>1, IdleType DEF Proc
      <4>. QED
        BY <2>4, <3>1, <4>1, ZenonT(60) DEF Hold, Proc
    <3>. HIDE DEF h
    <3>. QED
      BY <2>4, <3>2
  <2>6. Onward(q) = h
    BY <1>1 DEF Onward, e, m
  <2>. HIDE DEF h
  <2>7. h.n + Cardinality(h.todo) <= Limit
    BY <1>0, <2>2, <2>5, Numbers
  <2>. QED
    BY <1>0, <2>1, <2>5, <2>6, <2>7
<1>2. CASE q.todo = {} /\ q.phase = "pending" /\ q.n < Limit
  <2>. DEFINE o == [Idle EXCEPT !.pc = "list", !.phase = "retry_pending", !.n = q.n]
  <2>1. Onward(q) = o
    BY <1>2 DEF Onward
  <2>2. o \in Proc /\ o.pc = "list" /\ o.event = 0 /\ o.todo = {} /\ o.n = q.n
    BY <1>0, IdleType DEF Proc
  <2>3. o.n + Cardinality(o.todo) <= Limit
    <3>1. q.n + Cardinality({}) <= Limit
      BY <1>0, FS_EmptySet, Numbers
    <3>. QED
      BY <2>2, <3>1
  <2>. HIDE DEF o
  <2>. QED
    BY <1>2, <2>1, <2>2, <2>3
<1>3. CASE q.todo = {} /\ ~ (q.phase = "pending" /\ q.n < Limit)
  <2>1. Onward(q) = Idle
    BY <1>3 DEF Onward
  <2>2. Idle.n + Cardinality(Idle.todo) <= Limit
    BY IdleType, FS_EmptySet, Numbers
  <2>. QED
    BY <1>3, <2>1, <2>2, IdleType
<1>. QED
  BY <1>1, <1>2, <1>3

\* The fields that dispatchEvent leaves alone between its steps.
SameList(p, q) == p.event = q.event /\ p.todo = q.todo /\ p.list = q.list /\ p.n = q.n

\* The records that ListChannels makes ...
LEMMA SkippedFields ==
    ASSUME NEW q \in Proc
    PROVE  LET s == [q EXCEPT !.pc = "write", !.row.status = "skipped", !.row.next = "none"]
           IN  /\ s \in Proc /\ s.pc = "write" /\ SameList(s, q)
               /\ s.row.status = "skipped" /\ s.row.type = q.row.type
               /\ s.row.attempts = q.row.attempts
<1>. DEFINE row == [q.row EXCEPT !.status = "skipped", !.next = "none"]
            s == [q EXCEPT !.pc = "write", !.row.status = "skipped", !.row.next = "none"]
<1>1. q.row \in Row
  BY DEF Proc
<1>2. /\ row \in Row /\ row.status = "skipped" /\ row.type = q.row.type
      /\ row.attempts = q.row.attempts
  BY <1>1 DEF Row, Settled
<1>3. s = [q EXCEPT !.pc = "write", !.row = row]
  BY <1>1 DEF Proc, Row
<1>. HIDE DEF row
<1>4. LET t == [q EXCEPT !.pc = "write", !.row = row]
      IN  t \in Proc /\ t.pc = "write" /\ SameList(t, q) /\ t.row = row
  BY <1>2 DEF Proc, SameList
<1>. QED
  BY <1>2, <1>3, <1>4

LEMMA SendingFields ==
    ASSUME NEW q \in Proc, NEW set \in SUBSET Channels, q.row.attempts + 1 <= MaxTries
    PROVE  LET s == [q EXCEPT !.pc = "send", !.rest = set, !.row.attempts = @ + 1]
           IN  /\ s \in Proc /\ s.pc = "send" /\ SameList(s, q) /\ s.rest = set
               /\ s.manual = q.manual
               /\ s.row.status = q.row.status /\ s.row.type = q.row.type
               /\ s.row.attempts = q.row.attempts + 1
<1>. DEFINE row == [q.row EXCEPT !.attempts = @ + 1]
            s == [q EXCEPT !.pc = "send", !.rest = set, !.row.attempts = @ + 1]
<1>1. q.row \in Row
  BY DEF Proc
<1>2. /\ row \in Row /\ row.status = q.row.status /\ row.type = q.row.type
      /\ row.attempts = q.row.attempts + 1
  <2>1. q.row.attempts + 1 \in 0 .. MaxTries
    BY <1>1, Numbers DEF Row
  <2>. QED
    BY <1>1, <2>1 DEF Row
<1>3. s = [q EXCEPT !.pc = "send", !.rest = set, !.row = row]
  BY <1>1 DEF Proc, Row
<1>. HIDE DEF row
<1>4. LET t == [q EXCEPT !.pc = "send", !.rest = set, !.row = row]
      IN  /\ t \in Proc /\ t.pc = "send" /\ SameList(t, q) /\ t.rest = set /\ t.row = row
          /\ t.manual = q.manual
  BY <1>2 DEF Proc, SameList
<1>. QED
  BY <1>2, <1>3, <1>4

\* ... what dispatchEvent makes of the row ...
LEMMA OutcomeFields ==
    ASSUME NEW row \in Row, NEW failed \in BOOLEAN, NEW byHand \in BOOLEAN
    PROVE  LET o == Outcome(row, failed, byHand)
           IN  /\ o \in Row /\ o.type = row.type /\ o.attempts = row.attempts
               /\ o.status \in {"delivered", "failed", "retry_pending"}
               /\ o.status = "delivered" => ~ failed
               /\ o.status = "failed" => row.attempts >= MaxAttempts
               /\ o.status = "retry_pending" => byHand \/ ~ (row.attempts >= MaxAttempts)
<1>1. CASE ~ failed
  BY <1>1 DEF Outcome, Row, Settled
<1>2. CASE failed /\ row.attempts >= MaxAttempts /\ ~ byHand
  BY <1>2 DEF Outcome, Row, Settled
<1>3. CASE failed /\ ~ (row.attempts >= MaxAttempts /\ ~ byHand)
  BY <1>3 DEF Outcome, Row
<1>. QED
  BY <1>1, <1>2, <1>3

\* ... and the record after one webhook has been called.
LEMMA SentFields ==
    ASSUME NEW q \in Proc, NEW c \in Channels, NEW failed \in BOOLEAN
    PROVE  LET s == Sent(q, c, failed)
           IN  /\ s \in Proc /\ SameList(s, q)
               /\ s.rest = q.rest \ {c} /\ s.failed = failed /\ s.manual = q.manual
               /\ q.rest = {c} => s.pc = "write" /\ s.row = Outcome(q.row, failed, q.manual)
               /\ q.rest # {c} => s.pc = "send" /\ s.row = q.row
<1>. DEFINE row == IF q.rest = {c} THEN Outcome(q.row, failed, q.manual) ELSE q.row
            s == Sent(q, c, failed)
<1>1. q.row \in Row /\ q.manual \in BOOLEAN /\ q.rest \in SUBSET Channels
  BY DEF Proc
<1>2. row \in Row
  BY <1>1, OutcomeFields
<1>3. s = [q EXCEPT !.rest = q.rest \ {c}, !.failed = failed,
                    !.pc = IF q.rest = {c} THEN "write" ELSE "send", !.row = row]
  BY SMTT(60) DEF Sent, Proc
<1>. HIDE DEF row
<1>4. LET t == [q EXCEPT !.rest = q.rest \ {c}, !.failed = failed,
                         !.pc = IF q.rest = {c} THEN "write" ELSE "send", !.row = row]
      IN  /\ t \in Proc /\ SameList(t, q)
          /\ t.rest = q.rest \ {c} /\ t.failed = failed /\ t.manual = q.manual
          /\ t.pc = IF q.rest = {c} THEN "write" ELSE "send"
          /\ t.row = row
  BY <1>1, <1>2, ZenonT(60) DEF Proc, SameList
<1>5. row = IF q.rest = {c} THEN Outcome(q.row, failed, q.manual) ELSE q.row
  BY DEF row
<1>. HIDE DEF s
<1>. QED
  BY <1>3, <1>4, <1>5 DEF s

-----------------------------------------------------------------------------
(* What every step leaves to the goroutines that do not take it *)

\* Counts and deliveries are not taken back, an event is not removed, and
\* channels come off the list of those that it is owed to.
Grows ==
    \A e \in Events :
        /\ tries[e] <= tries'[e] /\ manual[e] <= manual'[e] /\ got[e] \subseteq got'[e]
        /\ event[e].status # "absent" =>
              /\ event'[e].status # "absent" /\ event'[e].type = event[e].type
              /\ owed'[e] \subseteq owed[e]

LEMMA Unchanging ==
    ASSUME TypeOK, UNCHANGED <<event, got, owed, tries, manual>>
    PROVE  Grows
<1>1. \A e \in Events : tries[e] \in Nat /\ manual[e] \in Nat
  BY Numbers DEF TypeOK
<1>. QED
  BY <1>1 DEF Grows

LEMMA AllowanceGrows ==
    ASSUME TypeOK, TypeOK', Grows, NEW e \in Events
    PROVE  /\ Allowance(e) \in Nat /\ Allowance(e)' \in Nat /\ Allowance(e) <= Allowance(e)'
           /\ MaxAttempts <= Allowance(e) /\ Allowance(e)' <= MaxTries
           /\ tries[e] \in Nat /\ tries'[e] \in Nat /\ tries[e] <= tries'[e]
<1>1. /\ manual[e] \in 0 .. MaxManual /\ manual'[e] \in 0 .. MaxManual
      /\ tries[e] \in 0 .. MaxTries /\ tries'[e] \in 0 .. MaxTries
      /\ manual[e] <= manual'[e] /\ tries[e] <= tries'[e]
  BY DEF TypeOK, Grows
<1>. QED
  BY <1>1, Numbers DEF Allowance

LEMMA RowKept ==
    ASSUME TypeOK, TypeOK', Grows, NEW e \in Events, NEW row \in Row, RowOK(e, row)
    PROVE  /\ event'[e].status # "absent" /\ row.type = event'[e].type
           /\ row.status # "absent" /\ row.attempts <= tries'[e]
           /\ row.status = "failed" => row.attempts >= MaxAttempts
           /\ row.attempts \in Nat
<1>1. row.attempts \in Nat
  BY Numbers DEF Row
<1>. QED
  BY <1>1, AllowanceGrows DEF RowOK, Grows

LEMMA ListKept ==
    ASSUME TypeOK, TypeOK', Grows, NEW p \in Procs, NEW e \in proc[p].todo, ListOK(p)
    PROVE  LET row == proc[p].list[e]
           IN  /\ event'[e].status # "absent" /\ row.type = event'[e].type
               /\ row.status \in Waiting /\ row.attempts <= tries'[e]
               /\ row.attempts < Allowance(e)' /\ row.attempts \in Nat
<1>1. e \in Events /\ proc[p].list[e] \in Row
  BY DEF TypeOK, Proc
<1>2. PICK row \in Row : row = proc[p].list[e]
  BY <1>1
<1>3. RowOK(e, row) /\ row.status \in Waiting /\ row.attempts < Allowance(e)
  BY <1>2 DEF ListOK
<1>4. row.attempts < Allowance(e)'
  BY <1>1, <1>3, RowKept, AllowanceGrows
<1>. QED
  BY <1>1, <1>2, <1>3, <1>4, RowKept

LEMMA OtherProc ==
    ASSUME TypeOK, TypeOK', Grows, NEW p \in Procs, ListOK(p), HandOK(p), proc'[p] = proc[p]
    PROVE  ListOK(p)' /\ HandOK(p)'
<1>. DEFINE q == proc[p]
<1>0. q \in Proc
  BY DEF TypeOK
<1>1. ListOK(p)'
  <2>1. \A e \in q.todo :
          /\ event'[e].status # "absent" /\ q.list[e].type = event'[e].type
          /\ q.list[e].status \in Waiting /\ q.list[e].attempts <= tries'[e]
          /\ q.list[e].attempts < Allowance(e)'
    BY ListKept
  <2>. QED
    BY <2>1 DEF ListOK, RowOK, Waiting
<1>2. HandOK(p)'
  <2>1. CASE q.pc \in {"channels", "send", "write"}
    <3>1. PICK e \in Events \ q.todo : e = q.event
      BY <2>1 DEF HandOK
    <3>2. PICK row \in Row : row = q.row
      BY <1>0 DEF Proc
    <3>3. RowOK(e, row) /\ event[e].status # "absent"
      BY <2>1, <3>1, <3>2 DEF HandOK, RowOK
    <3>4. /\ event'[e].status # "absent" /\ row.type = event'[e].type
          /\ row.status # "absent" /\ row.attempts <= tries'[e]
          /\ row.status = "failed" => row.attempts >= MaxAttempts
          /\ row.attempts \in Nat
      BY <3>3, RowKept
    <3>5. owed'[e] \subseteq owed[e] /\ got[e] \subseteq got'[e]
      BY <3>3 DEF Grows
    <3>6. Allowance(e) \in Nat /\ Allowance(e)' \in Nat /\ Allowance(e) <= Allowance(e)'
      BY AllowanceGrows
    <3>7. /\ q.pc = "channels" => row.attempts + (IF q.manual THEN 2 ELSE 1) <= Allowance(e)'
          /\ q.pc = "send" => row.attempts + (IF q.manual THEN 1 ELSE 0) <= Allowance(e)'
          /\ q.pc = "write" => /\ row.attempts <= Allowance(e)'
                               /\ row.status \in Waiting => row.attempts < Allowance(e)'
      BY <3>1, <3>2, <3>4, <3>6 DEF HandOK
    <3>8. /\ q.pc = "send" /\ ~ q.failed => owed'[e] \subseteq got'[e] \cup q.rest
          /\ q.pc = "write" /\ row.status \in {"delivered", "skipped"} => owed'[e] \subseteq got'[e]
      BY <3>1, <3>2, <3>5 DEF HandOK
    <3>9. /\ q.pc \in {"channels", "send"} => row.status \notin {"delivered", "skipped"}
          /\ q.pc = "send" => q.rest # {}
      BY <3>2 DEF HandOK
    <3>. QED
      BY <2>1, <3>1, <3>2, <3>4, <3>7, <3>8, <3>9 DEF HandOK, RowOK
  <2>2. CASE q.pc \notin {"channels", "send", "write"}
    BY <2>2 DEF HandOK
  <2>. QED
    BY <2>1, <2>2, SMTT(60)
<1>. QED
  BY <1>1, <1>2

\* A step of goroutine p keeps TruthInv if it keeps what is known of p and of
\* the events; the other goroutines are where they were.
LEMMA OneProc ==
    ASSUME TypeOK, TypeOK', TruthInv, Grows, NEW p \in Procs, ListOK(p)', HandOK(p)',
           \A q \in Procs \ {p} : proc'[q] = proc[q], \A e \in Events : EventOK(e)'
    PROVE  TruthInv'
<1>1. ASSUME NEW q \in Procs PROVE ListOK(q)' /\ HandOK(q)'
  <2>1. CASE q = p
    BY <2>1
  <2>2. CASE q # p
    BY <2>2, OtherProc DEF TruthInv
  <2>. QED
    BY <2>1, <2>2
<1>. QED
  BY <1>1 DEF TruthInv

LEMMA EventKept ==
    ASSUME TypeOK, TypeOK', TruthInv, Grows, NEW e \in Events,
           channel' = channel, owed'[e] = owed[e], event'[e].status = event[e].status,
           event'[e].type = event[e].type, event'[e].attempts = event[e].attempts
    PROVE  EventOK(e)'
<1>1. EventOK(e) /\ event[e].attempts \in Nat
  BY Numbers DEF TruthInv, TypeOK, Row
<1>2. Matching(event[e].type)' = Matching(event[e].type)
  BY DEF Matching
<1>3. got[e] \subseteq got'[e]
  BY DEF Grows
<1>. QED
  BY <1>1, <1>2, <1>3, AllowanceGrows DEF EventOK

\* The worker, or another goroutine, is through with its event.
LEMMA ThroughFields ==
    ASSUME TypeOK, TruthInv, NEW p \in Procs
    PROVE  /\ Through(p) \in Proc
           /\ Through(p).n + Cardinality(Through(p).todo) <= Limit
           /\ p # Worker => Through(p) = Idle
           /\ \/ /\ proc[p].todo = {} /\ Through(p).event = 0
                 /\ Through(p).pc \in {"idle", "list"} /\ Through(p).todo = {}
              \/ /\ Through(p).event \in proc[p].todo /\ Through(p).pc = "channels"
                 /\ Through(p).manual = FALSE /\ Through(p).row = proc[p].list[Through(p).event]
                 /\ Through(p).todo = proc[p].todo \ {Through(p).event}
                 /\ \A d \in Through(p).todo : Through(p).list[d] = proc[p].list[d]
<1>0. proc[p] \in Proc /\ ListOK(p)
  BY DEF TypeOK, TruthInv
<1>1. CASE p = Worker
  BY <1>0, <1>1, OnwardFields, ZenonT(60) DEF Through, ListOK
<1>2. CASE p # Worker
  <2>1. proc[p].todo = {} /\ Through(p) = Idle
    BY <1>0, <1>2 DEF ListOK, Through
  <2>2. Idle.n + Cardinality(Idle.todo) <= Limit
    BY IdleType, FS_EmptySet, Numbers
  <2>. QED
    BY <1>2, <2>1, <2>2, IdleType
<1>. QED
  BY <1>1, <1>2

LEMMA ThroughKeeps ==
    ASSUME TypeOK, TypeOK', TruthInv, Grows, NEW p \in Procs, proc'[p] = Through(p)
    PROVE  ListOK(p)' /\ HandOK(p)'
<1>. DEFINE o == Through(p)
<1>0. /\ proc[p] \in Proc /\ o \in Proc /\ ListOK(p)
      /\ o.n + Cardinality(o.todo) <= Limit
      /\ p # Worker => o = Idle
      /\ \/ /\ proc[p].todo = {} /\ o.event = 0 /\ o.pc \in {"idle", "list"} /\ o.todo = {}
         \/ /\ o.event \in proc[p].todo /\ o.pc = "channels"
            /\ o.manual = FALSE /\ o.row = proc[p].list[o.event]
            /\ o.todo = proc[p].todo \ {o.event}
            /\ \A d \in o.todo : o.list[d] = proc[p].list[d]
  <2>1. proc[p] \in Proc /\ ListOK(p)
    BY DEF TypeOK, TruthInv
  <2>. QED
    BY <2>1, ThroughFields
<1>a. proc'[p] = o
  OBVIOUS
<1>. HIDE DEF o
<1>1. \A e \in proc[p].todo :
        LET row == proc[p].list[e]
        IN  /\ event'[e].status # "absent" /\ row.type = event'[e].type
            /\ row.status \in Waiting /\ row.attempts <= tries'[e]
            /\ row.attempts < Allowance(e)' /\ row.attempts \in Nat /\ e \in Events
  BY <1>0, ListKept DEF Proc
<1>2. \A e \in Events : Allowance(e)' \in Nat
  BY AllowanceGrows
<1>3. CASE o.event = 0 /\ o.pc \in {"idle", "list"} /\ o.todo = {}
  <2>1. p # Worker => o.pc = "idle"
    BY <1>0, IdleType
  <2>. QED
    BY <1>0, <1>3, <2>1, <1>a DEF ListOK, HandOK
<1>4. CASE /\ o.event \in proc[p].todo /\ o.pc = "channels"
           /\ o.manual = FALSE /\ o.row = proc[p].list[o.event]
           /\ o.todo = proc[p].todo \ {o.event}
           /\ \A d \in o.todo : o.list[d] = proc[p].list[d]
  <2>1. p = Worker
    BY <1>0, <1>4 DEF ListOK
  <2>2. ListOK(p)'
    <3>1. \A d \in o.todo :
            /\ event'[d].status # "absent" /\ o.list[d].type = event'[d].type
            /\ o.list[d].status \in Waiting /\ o.list[d].attempts <= tries'[d]
            /\ o.list[d].attempts < Allowance(d)'
      BY <1>1, <1>4
    <3>2. o.n + Cardinality(o.todo) <= Limit
      BY <1>0
    <3>. QED
      BY <1>a, <2>1, <3>1, <3>2 DEF ListOK, RowOK, Waiting
  <2>3. PICK e \in proc[p].todo : e = o.event
    BY <1>4
  <2>4. /\ event'[e].status # "absent" /\ o.row.type = event'[e].type
        /\ o.row.status \in Waiting /\ o.row.attempts <= tries'[e]
        /\ o.row.attempts + 1 <= Allowance(e)' /\ e \in Events
    BY <1>1, <1>2, <1>4, <2>3
  <2>5. HandOK(p)'
    BY <1>4, <2>3, <2>4, <1>a DEF HandOK, RowOK, Waiting
  <2>. QED
    BY <2>2, <2>5
<1>. QED
  BY <1>0, <1>3, <1>4

-----------------------------------------------------------------------------
(* Initial state *)

LEMMA TruthInit == Init => TypeOK /\ TruthInv
<1>. SUFFICES ASSUME Init PROVE TypeOK /\ TruthInv
  OBVIOUS
<1>1. TypeOK
  <2>1. {NoChannel, [state |-> "on", types |-> {}]} \subseteq Channel
    BY DEF Channel
  <2>2. channel \in [Channels -> Channel]
    BY <2>1 DEF Init
  <2>. QED
    BY <2>2, Numbers, IdleType DEF Init, TypeOK
<1>2. ASSUME NEW p \in Procs PROVE ListOK(p) /\ HandOK(p)
  <2>1. proc[p] = Idle
    BY DEF Init
  <2>2. Idle.n + Cardinality(Idle.todo) <= Limit
    BY IdleType, FS_EmptySet, Numbers
  <2>. QED
    BY <2>1, <2>2, IdleType DEF ListOK, HandOK
<1>3. ASSUME NEW e \in Events PROVE EventOK(e)
  <2>1. /\ event[e].status = "absent" /\ event[e].attempts = 0
        /\ owed[e] = {} /\ tries[e] = 0 /\ manual[e] = 0
    BY DEF Init, NoRow
  <2>. QED
    BY <2>1, Numbers DEF EventOK, Allowance, Waiting
<1>. QED
  BY <1>1, <1>2, <1>3 DEF TruthInv

-----------------------------------------------------------------------------
(* One lemma per action *)

LEMMA EditTruth ==
    ASSUME TypeOK, TruthInv, NEW c \in Channels, NEW ch \in Channel, Edit(c, ch)
    PROVE  TypeOK' /\ TruthInv'
<1>1. TypeOK'
  <2>1. faults' \in 0 .. MaxFaults
    BY Numbers DEF Edit, TypeOK
  <2>2. channel' \in [Channels -> Channel]
    BY DEF Edit, TypeOK
  <2>3. owed' \in [Events -> SUBSET Channels]
    BY DEF Edit, TypeOK
  <2>. QED
    BY <2>1, <2>2, <2>3 DEF Edit, TypeOK
<1>2. \A e \in Events : owed'[e] \subseteq owed[e]
  BY DEF Edit
<1>3. Grows
  <2>1. UNCHANGED <<event, got, tries, manual>>
    BY DEF Edit
  <2>2. \A e \in Events : tries[e] \in Nat /\ manual[e] \in Nat
    BY Numbers DEF TypeOK
  <2>. QED
    BY <1>2, <2>1, <2>2 DEF Grows
<1>4. ASSUME NEW e \in Events PROVE EventOK(e)'
  <2>1. EventOK(e)
    BY DEF TruthInv
  <2>2. owed'[e] \subseteq Matching(event[e].type)'
    <3>1. SUFFICES ASSUME NEW d \in owed'[e] PROVE Matches(channel[d], event[e].type)'
      BY <1>1 DEF Matching, TypeOK
    <3>2. d \in owed[e] /\ Matches(channel[d], event[e].type) /\ d \in Channels
      BY <1>2, <2>1 DEF EventOK, Matching, TypeOK
    <3>3. event' = event
      BY DEF Edit
    <3>4. CASE d = c
      <4>1. channel'[d] = ch
        BY <3>4 DEF Edit, TypeOK
      <4>2. Matches(ch, event[e].type)
        BY <3>2, <3>4 DEF Edit
      <4>. QED
        BY <3>3, <4>1, <4>2 DEF Matches
    <3>5. CASE d # c
      <4>1. channel'[d] = channel[d]
        BY <3>2, <3>5 DEF Edit, TypeOK
      <4>. QED
        BY <3>2, <3>3, <4>1 DEF Matches
    <3>. QED
      BY <3>4, <3>5
  <2>3. UNCHANGED <<event, got, tries, manual>>
    BY DEF Edit
  <2>. QED
    BY <1>2, <2>1, <2>2, <2>3 DEF EventOK, Allowance
<1>5. \A p \in Procs : proc'[p] = proc[p]
  BY DEF Edit
<1>6. \A p \in Procs : ListOK(p)' /\ HandOK(p)'
  BY <1>1, <1>3, <1>5, OtherProc DEF TruthInv
<1>. QED
  BY <1>1, <1>4, <1>6 DEF TruthInv

\* A goroutine that is idle takes an event in hand.
LEMMA TakeType ==
    ASSUME TypeOK, TruthInv, NEW p \in Procs, proc[p].pc = "idle", NEW e \in Events,
           NEW row \in Row, NEW byHand \in BOOLEAN, Take(p, e, row, byHand)
    PROVE  LET h == proc'[p]
           IN  /\ proc' \in [Procs -> Proc] /\ loose' \in SUBSET Events
               /\ h.pc = "channels" /\ h.event = e /\ h.row = row /\ h.manual = byHand
               /\ h.todo = {} /\ h.n + Cardinality(h.todo) <= Limit
               /\ \A q \in Procs \ {p} : proc'[q] = proc[q]
<1>0. /\ proc[p] \in Proc /\ ListOK(p) /\ proc[p].todo = {}
  BY DEF TypeOK, TruthInv, HandOK
<1>. DEFINE h == Hold(proc[p], e, row, byHand)
<1>2. /\ h \in Proc /\ h.pc = "channels" /\ h.event = e /\ h.row = row
      /\ h.manual = byHand /\ h.todo = proc[p].todo \ {e} /\ h.n = proc[p].n
  BY <1>0, HoldFields
<1>3. proc' = [proc EXCEPT ![p] = h]
  BY DEF Take, Become
<1>. HIDE DEF h
<1>4. proc' \in [Procs -> Proc] /\ proc'[p] = h /\ \A q \in Procs \ {p} : proc'[q] = proc[q]
  BY <1>2, <1>3 DEF TypeOK
<1>5. h.todo = {} /\ h.n + Cardinality(h.todo) <= Limit
  BY <1>0, <1>2 DEF ListOK
<1>6. loose' \in SUBSET Events
  BY DEF Take, TypeOK
<1>. QED
  BY <1>2, <1>4, <1>5, <1>6

LEMMA NotifyTruth ==
    ASSUME TypeOK, TruthInv, NEW p \in Callers, NEW e \in Events, NEW type \in Types,
           Notify(p, e, type)
    PROVE  TypeOK' /\ TruthInv'
<1>. DEFINE row == [status |-> "pending", type |-> type, attempts |-> 0, next |-> "none"]
<1>0. p \in Procs /\ proc[p].pc = "idle" /\ row \in Row /\ FALSE \in BOOLEAN
  BY Numbers DEF Procs, Notify, Row
<1>1. /\ event' = [event EXCEPT ![e] = row]
      /\ event[e].status = "absent"
      /\ owed' = [owed EXCEPT ![e] = Matching(type)]
      /\ Take(p, e, row, FALSE)
      /\ UNCHANGED <<channel, got, tries, manual, faults>>
  BY DEF Notify
<1>a. row.status = "pending" /\ row.type = type /\ row.attempts = 0
  OBVIOUS
<1>. HIDE DEF row
<1>2. /\ proc' \in [Procs -> Proc] /\ loose' \in SUBSET Events
      /\ proc'[p].pc = "channels" /\ proc'[p].event = e /\ proc'[p].row = row
      /\ proc'[p].manual = FALSE
      /\ proc'[p].todo = {} /\ proc'[p].n + Cardinality(proc'[p].todo) <= Limit
      /\ \A q \in Procs \ {p} : proc'[q] = proc[q]
  BY <1>0, <1>1, TakeType, ZenonT(60)
<1>3. TypeOK'
  <2>1. Matching(type) \in SUBSET Channels
    BY DEF Matching
  <2>2. owed' \in [Events -> SUBSET Channels]
    BY <1>1, <2>1 DEF TypeOK
  <2>3. event' \in [Events -> Row]
    BY <1>0, <1>1 DEF TypeOK
  <2>. QED
    BY <1>1, <1>2, <2>2, <2>3 DEF TypeOK
<1>4. event'[e] = row /\ owed'[e] = Matching(type)
  BY <1>1 DEF TypeOK
<1>5. Grows
  <2>1. \A d \in Events : tries[d] \in Nat /\ manual[d] \in Nat
    BY Numbers DEF TypeOK
  <2>2. \A d \in Events \ {e} : event'[d] = event[d] /\ owed'[d] = owed[d]
    BY <1>1 DEF TypeOK
  <2>. QED
    BY <1>1, <2>1, <2>2 DEF Grows
<1>6. tries[e] \in Nat /\ manual[e] \in Nat
  BY Numbers DEF TypeOK
<1>7. ListOK(p)'
  BY <1>2 DEF ListOK
<1>8. HandOK(p)'
  <2>1. Allowance(e)' >= 1 /\ 0 <= tries'[e]
    BY <1>1, <1>6, Numbers DEF Allowance
  <2>. QED
    BY <1>2, <1>4, <1>a, <2>1 DEF HandOK, RowOK
<1>9. ASSUME NEW d \in Events PROVE EventOK(d)'
  <2>1. CASE d = e
    <3>1. Matching(type)' = Matching(type)
      BY <1>1 DEF Matching
    <3>. QED
      BY <1>1, <1>4, <1>6, <1>a, <2>1, <3>1, Numbers DEF EventOK, Allowance
  <2>2. CASE d # e
    <3>1. event'[d] = event[d] /\ owed'[d] = owed[d]
      BY <1>1, <2>2 DEF TypeOK
    <3>. QED
      BY <1>1, <1>3, <1>5, <3>1, EventKept
  <2>. QED
    BY <2>1, <2>2
<1>. QED
  BY <1>0, <1>2, <1>3, <1>5, <1>7, <1>8, <1>9, OneProc

LEMMA RetryTruth ==
    ASSUME TypeOK, TruthInv, NEW p \in Callers, NEW e \in Events, RetryEvent(p, e)
    PROVE  TypeOK' /\ TruthInv'
<1>0. p \in Procs /\ proc[p].pc = "idle" /\ event[e] \in Row /\ TRUE \in BOOLEAN
  BY DEF Procs, RetryEvent, TypeOK
<1>1. /\ event[e].status \notin {"absent", "delivered", "skipped"}
      /\ manual[e] < MaxManual /\ manual' = [manual EXCEPT ![e] = manual[e] + 1]
      /\ Take(p, e, event[e], TRUE)
      /\ UNCHANGED <<channel, event, got, owed, tries, faults>>
  BY DEF RetryEvent
<1>2. /\ proc' \in [Procs -> Proc] /\ loose' \in SUBSET Events
      /\ proc'[p].pc = "channels" /\ proc'[p].event = e /\ proc'[p].row = event[e]
      /\ proc'[p].manual = TRUE
      /\ proc'[p].todo = {} /\ proc'[p].n + Cardinality(proc'[p].todo) <= Limit
      /\ \A q \in Procs \ {p} : proc'[q] = proc[q]
  BY <1>0, <1>1, TakeType, ZenonT(60)
<1>a. \A d \in Events : tries[d] \in Nat /\ manual[d] \in 0 .. MaxManual /\ manual[d] \in Nat
  BY Numbers DEF TypeOK
<1>3. TypeOK'
  <2>1. manual[e] + 1 \in 0 .. MaxManual
    BY <1>1, <1>a, Numbers
  <2>2. manual' \in [Events -> 0 .. MaxManual]
    BY <1>1, <2>1 DEF TypeOK
  <2>. QED
    BY <1>1, <1>2, <2>2 DEF TypeOK
<1>4. manual'[e] = manual[e] + 1 /\ \A d \in Events \ {e} : manual'[d] = manual[d]
  BY <1>1 DEF TypeOK
<1>5. Grows
  <2>1. \A d \in Events : manual[d] <= manual'[d]
    BY <1>a, <1>4
  <2>. QED
    BY <1>1, <1>a, <2>1 DEF Grows
<1>6. ListOK(p)'
  BY <1>2 DEF ListOK
<1>7. HandOK(p)'
  <2>1. EventOK(e) /\ event[e].attempts \in Nat
    BY <1>0, Numbers DEF TruthInv, Row
  <2>2. event[e].attempts + 2 <= Allowance(e)'
    BY <1>4, <1>a, <2>1, Numbers DEF EventOK, Allowance
  <2>. QED
    BY <1>1, <1>2, <2>1, <2>2 DEF HandOK, RowOK, EventOK
<1>8. \A d \in Events : EventOK(d)'
  BY <1>1, <1>3, <1>5, EventKept
<1>. QED
  BY <1>0, <1>2, <1>3, <1>5, <1>6, <1>7, <1>8, OneProc

LEMMA ListChannelsTruth ==
    ASSUME TypeOK, TruthInv, NEW p \in Procs, ListChannels(p)
    PROVE  TypeOK' /\ TruthInv'
<1>. DEFINE q == proc[p]
            matched == Matching(q.row.type)
<1>0. /\ q \in Proc /\ q.row \in Row /\ q.row.attempts \in Nat /\ ListOK(p) /\ HandOK(p)
      /\ q.pc = "channels" /\ UNCHANGED <<channel, event, got, owed, manual, loose, faults>>
  BY Numbers DEF TypeOK, Proc, Row, TruthInv, ListChannels
<1>1. PICK e \in Events \ q.todo : e = q.event
  BY <1>0 DEF HandOK
<1>2. /\ RowOK(e, q.row) /\ q.row.status \notin {"delivered", "skipped"}
      /\ q.row.attempts + (IF q.manual THEN 2 ELSE 1) <= Allowance(e)
  BY <1>0, <1>1 DEF HandOK
<1>3. EventOK(e) /\ owed[e] \subseteq matched
  BY <1>2 DEF TruthInv, EventOK, RowOK
<1>4. /\ manual[e] \in 0 .. MaxManual /\ tries[e] \in 0 .. MaxTries /\ Allowance(e) \in Nat
      /\ Allowance(e) <= MaxTries
  BY Numbers DEF TypeOK, Allowance
<1>5. Allowance(e)' = Allowance(e)
  BY <1>0 DEF Allowance
<1>6. CASE matched = {}
  <2>. DEFINE s == [q EXCEPT !.pc = "write", !.row.status = "skipped", !.row.next = "none"]
  <2>1. proc' = [proc EXCEPT ![p] = s] /\ tries' = tries
    BY <1>6, SMTT(60) DEF ListChannels, Become
  <2>2. /\ s \in Proc /\ s.pc = "write" /\ SameList(s, q)
        /\ s.row.status = "skipped" /\ s.row.type = q.row.type
        /\ s.row.attempts = q.row.attempts
    BY <1>0, SkippedFields, ZenonT(60)
  <2>. HIDE DEF s
  <2>3. proc'[p] = s /\ \A r \in Procs \ {p} : proc'[r] = proc[r]
    BY <2>1 DEF TypeOK
  <2>4. TypeOK'
    BY <1>0, <2>1, <2>2 DEF TypeOK
  <2>5. Grows
    BY <1>0, <2>1, Unchanging
  <2>6. ListOK(p)'
    BY <1>0, <2>1, <2>2, <2>3, SMTT(60) DEF ListOK, SameList, RowOK, Allowance
  <2>7. HandOK(p)'
    <3>1. q.row.attempts <= Allowance(e) /\ owed[e] \subseteq got[e]
      BY <1>0, <1>2, <1>3, <1>4, <1>6
    <3>. QED
      BY <1>0, <1>1, <1>2, <1>5, <2>1, <2>2, <2>3, <3>1 DEF HandOK, SameList, RowOK, Waiting
  <2>8. \A d \in Events : EventOK(d)'
    BY <1>0, <2>4, <2>5, EventKept
  <2>. QED
    BY <2>3, <2>4, <2>5, <2>6, <2>7, <2>8, OneProc
<1>7. CASE matched # {}
  <2>. DEFINE s == [q EXCEPT !.pc = "send", !.rest = matched, !.row.attempts = @ + 1]
  <2>1. /\ proc' = [proc EXCEPT ![p] = s]
        /\ tries' = [tries EXCEPT ![e] = IF tries[e] < MaxTries THEN tries[e] + 1 ELSE tries[e]]
    BY <1>1, <1>7, SMTT(60) DEF ListChannels, Become
  <2>2. /\ s \in Proc /\ s.pc = "send" /\ SameList(s, q) /\ s.rest = matched
        /\ s.manual = q.manual
        /\ s.row.status = q.row.status /\ s.row.type = q.row.type
        /\ s.row.attempts = q.row.attempts + 1
    <3>1. q.row.attempts + 1 <= MaxTries /\ matched \in SUBSET Channels
      BY <1>0, <1>2, <1>4, Numbers DEF Matching
    <3>. QED
      BY <1>0, <3>1, SendingFields
  <2>. HIDE DEF s, matched
  <2>3. proc'[p] = s /\ \A r \in Procs \ {p} : proc'[r] = proc[r]
    BY <2>1 DEF TypeOK
  <2>a. /\ tries'[e] \in 0 .. MaxTries /\ tries[e] <= tries'[e]
        /\ tries'[e] = tries[e] + 1 \/ tries'[e] = MaxTries
        /\ \A d \in Events \ {e} : tries'[d] = tries[d]
    BY <1>4, <2>1, Numbers DEF TypeOK
  <2>4. TypeOK'
    <3>1. tries' \in [Events -> 0 .. MaxTries]
      BY <2>1, <2>a DEF TypeOK
    <3>. QED
      BY <1>0, <2>1, <2>2, <3>1 DEF TypeOK
  <2>5. Grows
    <3>1. \A d \in Events : tries[d] <= tries'[d] /\ manual[d] \in Nat
      BY <2>a, Numbers DEF TypeOK
    <3>. QED
      BY <1>0, <3>1 DEF Grows
  <2>6. ListOK(p)'
    <3>1. \A d \in q.todo : d # e /\ d \in Events
      BY <1>0, <1>1 DEF Proc
    <3>2. \A d \in q.todo : tries'[d] = tries[d] /\ Allowance(d)' = Allowance(d)
      BY <1>0, <2>a, <3>1 DEF Allowance
    <3>. QED
      BY <1>0, <2>2, <2>3, <3>2 DEF ListOK, SameList, RowOK
  <2>7. HandOK(p)'
    <3>1. q.row.attempts <= tries[e]
      BY <1>2 DEF RowOK
    <3>2. q.row.attempts + 1 <= tries'[e]
      BY <1>0, <1>2, <1>4, <2>a, <3>1
    <3>3. q.row.attempts + 1 + (IF q.manual THEN 1 ELSE 0) <= Allowance(e)
      BY <1>0, <1>2, <1>4
    <3>4. owed[e] \subseteq got[e] \cup matched /\ matched # {}
      BY <1>3, <1>7
    <3>5. q.row.status = "failed" => q.row.attempts + 1 >= MaxAttempts
      BY <1>0, <1>2, Numbers DEF RowOK
    <3>. QED
      BY <1>0, <1>1, <1>2, <1>5, <2>2, <2>3, <3>2, <3>3, <3>4, <3>5 DEF HandOK, SameList, RowOK
  <2>8. \A d \in Events : EventOK(d)'
    BY <1>0, <2>4, <2>5, EventKept
  <2>. QED
    BY <2>3, <2>4, <2>5, <2>6, <2>7, <2>8, OneProc
<1>. QED
  BY <1>6, <1>7

LEMMA SendTruth ==
    ASSUME TypeOK, TruthInv, NEW p \in Procs, Send(p)
    PROVE  TypeOK' /\ TruthInv'
<1>. DEFINE q == proc[p]
            c == Max(q.rest)
<1>0. /\ q \in Proc /\ q.row \in Row /\ q.row.attempts \in Nat /\ q.manual \in BOOLEAN
      /\ q.failed \in BOOLEAN /\ q.rest \in SUBSET Channels /\ ListOK(p) /\ HandOK(p)
      /\ q.pc = "send" /\ UNCHANGED <<channel, event, owed, tries, manual, loose, faults>>
  BY Numbers DEF TypeOK, Proc, Row, TruthInv, Send
<1>1. PICK e \in Events \ q.todo : e = q.event
  BY <1>0 DEF HandOK
<1>2. /\ RowOK(e, q.row) /\ q.row.status \notin {"delivered", "skipped"}
      /\ q.row.attempts + (IF q.manual THEN 1 ELSE 0) <= Allowance(e)
      /\ q.rest # {} /\ (~ q.failed => owed[e] \subseteq got[e] \cup q.rest)
  BY <1>0, <1>1 DEF HandOK
<1>3. c \in q.rest /\ c \in Channels
  <2>1. q.rest \in SUBSET Nat /\ IsFiniteSet(q.rest)
    BY <1>0, NotificationAssumption, FS_Subset
  <2>. QED
    BY <1>0, <1>2, <2>1, MaxIn
<1>. HIDE DEF c
<1>4. PICK arrived \in BOOLEAN, ok \in BOOLEAN :
        /\ ok => arrived
        /\ got' = IF arrived THEN [got EXCEPT ![e] = @ \cup {c}] ELSE got
        /\ Become(p, Sent(q, c, q.failed \/ ~ ok))
  BY <1>1 DEF Send, c
<1>5. PICK failed \in BOOLEAN : failed = (q.failed \/ ~ ok)
  OBVIOUS
<1>. DEFINE s == Sent(q, c, failed)
<1>6. /\ s \in Proc /\ SameList(s, q)
      /\ s.rest = q.rest \ {c} /\ s.failed = failed /\ s.manual = q.manual
      /\ q.rest = {c} => s.pc = "write" /\ s.row = Outcome(q.row, failed, q.manual)
      /\ q.rest # {c} => s.pc = "send" /\ s.row = q.row
  <2>1. q \in Proc /\ c \in Channels /\ failed \in BOOLEAN
    BY <1>0, <1>3
  <2>. HIDE DEF q
  <2>. QED
    BY <2>1, SentFields, ZenonT(150)
<1>7. proc' = [proc EXCEPT ![p] = s]
  BY <1>4, <1>5 DEF Become
<1>. HIDE DEF s
<1>8. proc'[p] = s /\ \A r \in Procs \ {p} : proc'[r] = proc[r]
  BY <1>7 DEF TypeOK
<1>9. /\ got' \in [Events -> SUBSET Channels] /\ \A d \in Events : got[d] \subseteq got'[d]
      /\ ok => got'[e] = got[e] \cup {c}
  BY <1>3, <1>4 DEF TypeOK
<1>10. TypeOK'
  BY <1>0, <1>6, <1>7, <1>9 DEF TypeOK
<1>11. Grows
  <2>1. \A d \in Events : tries[d] \in Nat /\ manual[d] \in Nat
    BY Numbers DEF TypeOK
  <2>. QED
    BY <1>0, <1>9, <2>1 DEF Grows
<1>a. Allowance(e)' = Allowance(e) /\ Allowance(e) \in Nat /\ MaxAttempts <= Allowance(e)
  BY <1>0, <1>10, <1>11, AllowanceGrows DEF Allowance
<1>12. ListOK(p)'
  BY <1>0, <1>6, <1>8 DEF ListOK, SameList, RowOK, Allowance
<1>13. ~ failed => ok /\ ~ q.failed
  BY <1>5
<1>14. ~ failed => owed[e] \subseteq got'[e] \cup (q.rest \ {c})
  BY <1>2, <1>9, <1>13
<1>15. HandOK(p)'
  <2>1. CASE q.rest = {c}
    <3>. DEFINE o == Outcome(q.row, failed, q.manual)
    <3>1. /\ o \in Row /\ o.type = q.row.type /\ o.attempts = q.row.attempts
          /\ o.status \in {"delivered", "failed", "retry_pending"}
          /\ o.status = "delivered" => ~ failed
          /\ o.status = "failed" => q.row.attempts >= MaxAttempts
          /\ o.status = "retry_pending" => q.manual \/ ~ (q.row.attempts >= MaxAttempts)
      <4>1. q.row \in Row /\ failed \in BOOLEAN /\ q.manual \in BOOLEAN
        BY <1>0
      <4>. HIDE DEF q
      <4>. QED
        BY <4>1, OutcomeFields, ZenonT(150)
    <3>. HIDE DEF o
    <3>2. s.pc = "write" /\ s.row = o
      BY <1>6, <2>1 DEF o
    <3>3. /\ q.row.attempts <= Allowance(e)
          /\ o.status = "retry_pending" => q.row.attempts < Allowance(e)
      BY <1>0, <1>2, <1>a, <3>1, Numbers
    <3>4. o.status = "delivered" => owed[e] \subseteq got'[e]
      BY <1>14, <2>1, <3>1
    <3>. QED
      BY <1>0, <1>1, <1>2, <1>6, <1>8, <1>a, <3>1, <3>2, <3>3, <3>4
      DEF HandOK, SameList, RowOK, Waiting
  <2>2. CASE q.rest # {c}
    <3>1. s.pc = "send" /\ s.row = q.row /\ s.rest # {}
      BY <1>2, <1>3, <1>6, <2>2
    <3>. QED
      BY <1>0, <1>1, <1>2, <1>6, <1>8, <1>a, <1>14, <3>1 DEF HandOK, SameList, RowOK
  <2>. QED
    BY <2>1, <2>2
<1>16. \A d \in Events : EventOK(d)'
  BY <1>0, <1>10, <1>11, EventKept
<1>. QED
  BY <1>8, <1>10, <1>11, <1>12, <1>15, <1>16, OneProc

\* A step that only moves goroutine p on to its next event.
LEMMA ThroughType ==
    ASSUME TypeOK, TruthInv, NEW p \in Procs, Become(p, Through(p))
    PROVE  /\ proc' \in [Procs -> Proc] /\ proc'[p] = Through(p)
           /\ \A r \in Procs \ {p} : proc'[r] = proc[r]
<1>1. Through(p) \in Proc
  BY ThroughFields
<1>. QED
  BY <1>1 DEF TypeOK, Become

LEMMA WriteTruth ==
    ASSUME TypeOK, TruthInv, NEW p \in Procs, Write(p)
    PROVE  TypeOK' /\ TruthInv'
<1>. DEFINE q == proc[p]
<1>0. /\ q \in Proc /\ q.row \in Row /\ q.row.attempts \in Nat /\ ListOK(p) /\ HandOK(p)
      /\ q.pc = "write" /\ UNCHANGED <<channel, got, owed, tries, manual, loose, faults>>
      /\ Become(p, Through(p))
  BY Numbers DEF TypeOK, Proc, Row, TruthInv, Write
<1>1. PICK e \in Events \ q.todo : e = q.event
  BY <1>0 DEF HandOK
<1>2. /\ RowOK(e, q.row) /\ q.row.attempts <= Allowance(e)
      /\ q.row.status \in Waiting => q.row.attempts < Allowance(e)
      /\ q.row.status \in {"delivered", "skipped"} => owed[e] \subseteq got[e]
  BY <1>0, <1>1 DEF HandOK
<1>3. event' = [event EXCEPT ![e] = q.row]
  BY <1>1 DEF Write
<1>4. event'[e] = q.row /\ \A d \in Events \ {e} : event'[d] = event[d]
  BY <1>3 DEF TypeOK
<1>5. /\ proc' \in [Procs -> Proc] /\ proc'[p] = Through(p)
      /\ \A r \in Procs \ {p} : proc'[r] = proc[r]
  BY <1>0, ThroughType
<1>6. TypeOK'
  BY <1>0, <1>3, <1>5 DEF TypeOK
<1>7. Grows
  <2>1. \A d \in Events : tries[d] \in Nat /\ manual[d] \in Nat
    BY Numbers DEF TypeOK
  <2>. QED
    BY <1>0, <1>2, <1>4, <2>1 DEF Grows, RowOK
<1>8. ListOK(p)' /\ HandOK(p)'
  BY <1>5, <1>6, <1>7, ThroughKeeps
<1>9. ASSUME NEW d \in Events PROVE EventOK(d)'
  <2>1. CASE d = e
    <3>1. owed[e] \subseteq Matching(q.row.type)
      BY <1>2 DEF TruthInv, EventOK, RowOK
    <3>2. Matching(event[e].type)' = Matching(q.row.type)
      BY <1>0, <1>4 DEF Matching
    <3>. QED
      BY <1>0, <1>2, <1>4, <2>1, <3>1, <3>2 DEF EventOK, RowOK, Allowance
  <2>2. CASE d # e
    BY <1>0, <1>4, <1>6, <1>7, <2>2, EventKept
  <2>. QED
    BY <2>1, <2>2
<1>. QED
  BY <1>5, <1>6, <1>7, <1>8, <1>9, OneProc

LEMMA FaultType ==
    ASSUME TypeOK, NEW kind, Fault(kind)
    PROVE  faults' \in 0 .. MaxFaults
  BY Numbers DEF TypeOK, Fault

LEMMA DispatchFailsTruth ==
    ASSUME TypeOK, TruthInv, NEW p \in Procs, DispatchFails(p)
    PROVE  TypeOK' /\ TruthInv'
<1>0. /\ HandOK(p) /\ proc[p].pc \in {"channels", "write"}
      /\ Become(p, Through(p)) /\ loose' = loose \cup {proc[p].event} /\ Fault("db")
      /\ UNCHANGED <<channel, event, got, owed, tries, manual>>
  BY DEF TruthInv, DispatchFails
<1>1. proc[p].event \in Events
  BY <1>0 DEF HandOK
<1>2. /\ proc' \in [Procs -> Proc] /\ proc'[p] = Through(p)
      /\ \A r \in Procs \ {p} : proc'[r] = proc[r]
  BY <1>0, ThroughType
<1>3. TypeOK'
  BY <1>0, <1>1, <1>2, FaultType DEF TypeOK
<1>4. Grows
  BY <1>0, Unchanging
<1>5. ListOK(p)' /\ HandOK(p)'
  BY <1>2, <1>3, <1>4, ThroughKeeps
<1>6. \A d \in Events : EventOK(d)'
  BY <1>0, <1>3, <1>4, EventKept
<1>. QED
  BY <1>2, <1>3, <1>4, <1>5, <1>6, OneProc

\* The rows that ListEvents returns to the worker, and what it makes of them.
LEMMA ListDueFields ==
    ASSUME TypeOK, TruthInv, ListDue
    PROVE  /\ proc[Worker].todo = {} /\ proc[Worker].event = 0
           /\ proc' \in [Procs -> Proc] /\ \A r \in Procs \ {Worker} : proc'[r] = proc[r]
           /\ proc'[Worker].n + Cardinality(proc'[Worker].todo) <= Limit
           /\ LET o == proc'[Worker]
                  found == Found(proc[Worker].phase, Limit - proc[Worker].n)
              IN  /\ found \in SUBSET Events
                  /\ \A e \in found : event[e].status \in Waiting
                  /\ loose' = loose \cup (found \cap InHand(Worker))
                  /\ \/ /\ found = {} /\ o.event = 0 /\ o.pc \in {"idle", "list"} /\ o.todo = {}
                     \/ /\ o.event \in found /\ o.pc = "channels" /\ o.manual = FALSE
                        /\ o.row = event[o.event] /\ o.todo = found \ {o.event}
                        /\ \A d \in o.todo : o.list[d] = event[d]
<1>. DEFINE q == proc[Worker]
            found == Found(q.phase, Limit - q.n)
            rows == [e \in Events |-> IF e \in found THEN event[e] ELSE NoRow]
            m == [q EXCEPT !.todo = found, !.list = rows]
            o == Onward(m)
<1>0. /\ q \in Proc /\ q.phase \in Waiting /\ q.n \in 0 .. Limit /\ HandOK(Worker)
      /\ Worker \in Procs
  BY DEF TypeOK, Proc, TruthInv, Procs, Waiting
<1>1. /\ q.pc \in {"idle", "list"} /\ Become(Worker, o)
      /\ loose' = loose \cup (found \cap InHand(Worker))
  BY DEF ListDue
<1>2. q.todo = {} /\ q.event = 0
  BY <1>0, <1>1 DEF HandOK
<1>3. /\ found \subseteq Due(q.phase) /\ IsFiniteSet(found)
      /\ Cardinality(found) <= Limit - q.n
  <2>1. Due(q.phase) \in SUBSET Nat /\ IsFiniteSet(Due(q.phase)) /\ Limit - q.n \in Nat
    <3>1. Due(q.phase) \in SUBSET Events
      BY DEF Due
    <3>. QED
      <4>1. IsFiniteSet(Due(q.phase))
        BY <3>1, NotificationAssumption, FS_Subset
      <4>2. Limit - q.n \in Nat
        BY <1>0, Numbers
      <4>. QED
        BY <3>1, <4>1, <4>2, Numbers
  <2>. QED
    BY <2>1, NewestBound DEF Found
<1>4. found \in SUBSET Events /\ \A e \in found : event[e].status \in Waiting
  BY <1>0, <1>3 DEF Due
<1>. HIDE DEF found
<1>5. rows \in [Events -> Row] /\ \A e \in found : rows[e] = event[e]
  BY <1>4, IdleType DEF TypeOK
<1>. HIDE DEF rows
<1>6. m \in Proc /\ m.todo = found /\ m.list = rows /\ m.n = q.n
  BY <1>0, <1>4, <1>5 DEF Proc
<1>. HIDE DEF m
<1>7. m.n + Cardinality(m.todo) <= Limit
  <2>1. Cardinality(found) \in Nat
    BY <1>3, FS_CardinalityType
  <2>. QED
    BY <1>0, <1>3, <1>6, <2>1, Numbers
<1>8. /\ o \in Proc /\ o.n + Cardinality(o.todo) <= Limit
      /\ \/ /\ m.todo = {} /\ o.event = 0 /\ o.pc \in {"idle", "list"} /\ o.todo = {}
         \/ /\ o.event \in m.todo /\ o.pc = "channels" /\ o.manual = FALSE
            /\ o.row = m.list[o.event] /\ o.todo = m.todo \ {o.event}
            /\ \A d \in o.todo : o.list[d] = m.list[d]
  BY <1>6, <1>7, OnwardFields
<1>9. proc' = [proc EXCEPT ![Worker] = o]
  BY <1>1 DEF Become
<1>. HIDE DEF o
<1>10. /\ proc' \in [Procs -> Proc] /\ proc'[Worker] = o
       /\ \A r \in Procs \ {Worker} : proc'[r] = proc[r]
  BY <1>0, <1>8, <1>9 DEF TypeOK
<1>11. \/ /\ found = {} /\ o.event = 0 /\ o.pc \in {"idle", "list"} /\ o.todo = {}
       \/ /\ o.event \in found /\ o.pc = "channels" /\ o.manual = FALSE
          /\ o.row = event[o.event] /\ o.todo = found \ {o.event}
          /\ \A d \in o.todo : o.list[d] = event[d]
  BY <1>5, <1>6, <1>8
<1>. QED
  BY <1>1, <1>2, <1>4, <1>8, <1>10, <1>11 DEF found

LEMMA ListDueTruth ==
    ASSUME TypeOK, TruthInv, ListDue
    PROVE  TypeOK' /\ TruthInv'
<1>. DEFINE o == proc'[Worker]
<1>0. PICK found \in SUBSET Events :
        /\ \A e \in found : event[e].status \in Waiting
        /\ loose' = loose \cup (found \cap InHand(Worker))
        /\ \/ /\ found = {} /\ o.event = 0 /\ o.pc \in {"idle", "list"} /\ o.todo = {}
           \/ /\ o.event \in found /\ o.pc = "channels" /\ o.manual = FALSE
              /\ o.row = event[o.event] /\ o.todo = found \ {o.event}
              /\ \A d \in o.todo : o.list[d] = event[d]
  BY ListDueFields
<1>1. /\ proc' \in [Procs -> Proc] /\ \A r \in Procs \ {Worker} : proc'[r] = proc[r]
      /\ o.n + Cardinality(o.todo) <= Limit
  BY ListDueFields
<1>2. UNCHANGED <<channel, event, got, owed, tries, manual, faults>> /\ Worker \in Procs
  BY DEF ListDue, Procs
<1>3. TypeOK'
  BY <1>0, <1>1, <1>2 DEF TypeOK
<1>4. Grows
  BY <1>2, Unchanging
<1>5. \A e \in Events : EventOK(e)'
  BY <1>2, <1>3, <1>4, EventKept
<1>6. \A e \in found : /\ RowOK(e, event[e])' /\ event[e].attempts < Allowance(e)'
                       /\ event[e].attempts \in Nat /\ Allowance(e)' \in Nat
  <2>1. ASSUME NEW e \in found
        PROVE  /\ RowOK(e, event[e])' /\ event[e].attempts < Allowance(e)'
               /\ event[e].attempts \in Nat /\ Allowance(e)' \in Nat
    <3>1. e \in Events /\ event'[e] = event[e] /\ event[e].status \in Waiting
      BY <1>0, <1>2
    <3>2. event[e].attempts \in Nat /\ Allowance(e)' \in Nat
      BY <1>3, <1>4, <3>1, AllowanceGrows, Numbers DEF TypeOK, Row
    <3>3. EventOK(e)'
      BY <1>5, <3>1
    <3>. QED
      BY <3>1, <3>2, <3>3 DEF EventOK, RowOK, Waiting
  <2>. QED
    BY <2>1
<1>. HIDE DEF o
<1>7. ListOK(Worker)'
  <2>1. ASSUME NEW d \in o.todo
        PROVE  /\ event'[d].status # "absent" /\ o.list[d].type = event'[d].type
               /\ o.list[d].status \in Waiting /\ o.list[d].attempts <= tries'[d]
               /\ o.list[d].attempts < Allowance(d)'
    <3>1. d \in found /\ o.list[d] = event[d] /\ event'[d] = event[d]
      BY <1>0, <1>2
    <3>2. /\ RowOK(d, event[d])' /\ event[d].attempts < Allowance(d)'
          /\ event[d].status \in Waiting
      BY <1>0, <1>6, <3>1
    <3>. QED
      BY <3>1, <3>2 DEF RowOK
  <2>2. proc'[Worker] = o
    BY DEF o
  <2>. QED
    BY <1>1, <2>1, <2>2 DEF ListOK, RowOK, Waiting
<1>8. HandOK(Worker)'
  <2>1. CASE o.event = 0 /\ o.pc \in {"idle", "list"} /\ o.todo = {}
    BY <2>1 DEF HandOK, o
  <2>2. CASE /\ o.event \in found /\ o.pc = "channels" /\ o.manual = FALSE
             /\ o.row = event[o.event] /\ o.todo = found \ {o.event}
    <3>1. PICK e \in found : e = o.event
      BY <2>2
    <3>2. /\ RowOK(e, event[e])' /\ event[e].attempts + 1 <= Allowance(e)'
          /\ event[e].status \notin {"delivered", "skipped"}
      BY <1>0, <1>6 DEF Waiting
    <3>. QED
      BY <1>2, <2>2, <3>1, <3>2 DEF HandOK, RowOK, o
  <2>. QED
    BY <1>0, <2>1, <2>2
<1>. QED
  BY <1>1, <1>2, <1>3, <1>4, <1>5, <1>7, <1>8, OneProc

LEMMA ListFailsTruth ==
    ASSUME TypeOK, TruthInv, ListFails
    PROVE  TypeOK' /\ TruthInv'
<1>0. /\ proc' = [proc EXCEPT ![Worker] = Idle] /\ Worker \in Procs /\ Fault("db")
      /\ UNCHANGED <<channel, event, got, owed, tries, manual, loose>>
  BY DEF ListFails, Become, history, Procs
<1>1. proc'[Worker] = Idle /\ \A r \in Procs \ {Worker} : proc'[r] = proc[r]
  BY <1>0 DEF TypeOK
<1>2. TypeOK'
  BY <1>0, FaultType, IdleType DEF TypeOK
<1>3. Grows
  BY <1>0, Unchanging
<1>4. Idle.n + Cardinality(Idle.todo) <= Limit
  BY IdleType, FS_EmptySet, Numbers
<1>5. ListOK(Worker)' /\ HandOK(Worker)'
  BY <1>1, <1>4, IdleType DEF ListOK, HandOK
<1>6. \A e \in Events : EventOK(e)'
  BY <1>0, <1>2, <1>3, EventKept
<1>. QED
  BY <1>0, <1>1, <1>2, <1>3, <1>5, <1>6, OneProc

LEMMA PassTruth ==
    ASSUME TypeOK, TruthInv, NEW e \in Events, Pass(e)
    PROVE  TypeOK' /\ TruthInv'
<1>0. /\ event' = [event EXCEPT ![e].next = "passed"]
      /\ UNCHANGED <<channel, proc, got, owed, tries, manual, loose, faults>>
  BY DEF Pass, history
<1>1. \A d \in Events : /\ event'[d] \in Row /\ event'[d].status = event[d].status
                        /\ event'[d].type = event[d].type
                        /\ event'[d].attempts = event[d].attempts
  BY <1>0 DEF TypeOK, Row
<1>2. TypeOK'
  <2>1. event' \in [Events -> Row]
    BY <1>0, <1>1 DEF TypeOK
  <2>. QED
    BY <1>0, <2>1 DEF TypeOK
<1>3. Grows
  <2>1. \A d \in Events : tries[d] \in Nat /\ manual[d] \in Nat
    BY Numbers DEF TypeOK
  <2>. QED
    BY <1>0, <1>1, <2>1 DEF Grows
<1>4. \A d \in Events : EventOK(d)'
  BY <1>0, <1>1, <1>2, <1>3, EventKept
<1>5. \A p \in Procs : ListOK(p)' /\ HandOK(p)'
  BY <1>0, <1>2, <1>3, OtherProc DEF TruthInv
<1>. QED
  BY <1>2, <1>4, <1>5 DEF TruthInv

LEMMA CrashTruth ==
    ASSUME TypeOK, TruthInv, Crash
    PROVE  TypeOK' /\ TruthInv'
<1>0. /\ proc' = [p \in Procs |-> Idle] /\ Fault("crash")
      /\ UNCHANGED <<channel, event, got, owed, tries, manual>>
  BY DEF Crash
<1>1. loose' \in SUBSET Events
  <2>1. \A p \in Procs : Holds(proc[p]) \in SUBSET Events
    BY DEF TypeOK, Proc, Holds
  <2>. QED
    BY <2>1 DEF Crash, TypeOK
<1>2. TypeOK'
  BY <1>0, <1>1, FaultType, IdleType DEF TypeOK
<1>3. Grows
  BY <1>0, Unchanging
<1>4. Idle.n + Cardinality(Idle.todo) <= Limit
  BY IdleType, FS_EmptySet, Numbers
<1>5. \A p \in Procs : ListOK(p)' /\ HandOK(p)'
  BY <1>0, <1>4, IdleType DEF ListOK, HandOK
<1>6. \A e \in Events : EventOK(e)'
  BY <1>0, <1>2, <1>3, EventKept
<1>. QED
  BY <1>2, <1>5, <1>6 DEF TruthInv

LEMMA TruthStep == TypeOK /\ TruthInv /\ [Next]_vars => TypeOK' /\ TruthInv'
<1>. SUFFICES ASSUME TypeOK, TruthInv, [Next]_vars PROVE TypeOK' /\ TruthInv'
  OBVIOUS
<1>1. ASSUME NEW c \in Channels, CreateChannel(c) \/ UpdateChannel(c) \/ DeleteChannel(c)
      PROVE  TypeOK' /\ TruthInv'
  <2>1. PICK ch \in Channel : Edit(c, ch)
    BY <1>1 DEF CreateChannel, UpdateChannel, DeleteChannel, Channel
  <2>. QED
    BY <2>1, EditTruth
<1>2. ASSUME NEW p \in Callers, NEW e \in Events, NEW type \in Types, Notify(p, e, type)
      PROVE  TypeOK' /\ TruthInv'
  BY <1>2, NotifyTruth
<1>3. ASSUME NEW p \in Callers, NEW e \in Events, RetryEvent(p, e)
      PROVE  TypeOK' /\ TruthInv'
  BY <1>3, RetryTruth
<1>4. ASSUME NEW p \in Procs, Dispatch(p) \/ DispatchFails(p)
      PROVE  TypeOK' /\ TruthInv'
  BY <1>4, ListChannelsTruth, SendTruth, WriteTruth, DispatchFailsTruth DEF Dispatch
<1>5. ASSUME NEW e \in Events, Pass(e) PROVE TypeOK' /\ TruthInv'
  BY <1>5, PassTruth
<1>6. CASE UNCHANGED vars
  <2>1. TypeOK'
    BY <1>6 DEF TypeOK, vars
  <2>2. Grows
    BY <1>6, Unchanging DEF vars
  <2>3. \A e \in Events : EventOK(e)'
    BY <1>6, <2>1, <2>2, EventKept DEF vars
  <2>4. \A p \in Procs : ListOK(p)' /\ HandOK(p)'
    BY <1>6, <2>1, <2>2, OtherProc DEF TruthInv, vars
  <2>. QED
    BY <2>1, <2>3, <2>4 DEF TruthInv
<1>. QED
  BY <1>1, <1>2, <1>3, <1>4, <1>5, <1>6, ListDueTruth, ListFailsTruth, CrashTruth DEF Next

LEMMA TruthAlways == Spec => [](TypeOK /\ TruthInv)
  BY TruthInit, TruthStep, PTL DEF Spec

\* Whatever the goroutines of Notify, of users and of the worker do to the same
\* row, and whatever crashes and failures of the database lose: an event whose
\* row says delivered or skipped has reached every channel that matched it all
\* along, and one whose row says failed has been sent around MaxAttempts times.
\* dispatchEvent writes its own copy of the row back; the proof is that every
\* copy, however stale, claims no more than was done.
THEOREM SettledEventsAreTrue == Spec => []SettledTruly
<1>1. TypeOK /\ TruthInv => SettledTruly
  <2>. SUFFICES ASSUME TypeOK, TruthInv, NEW e \in Events
                PROVE  /\ event[e].status \in {"delivered", "skipped"} => owed[e] \subseteq got[e]
                       /\ event[e].status = "failed" => tries[e] >= MaxAttempts
    BY DEF SettledTruly
  <2>1. EventOK(e) /\ event[e].attempts \in Nat /\ tries[e] \in Nat
    BY Numbers DEF TruthInv, TypeOK, Row
  <2>. QED
    BY <2>1, Numbers DEF EventOK
<1>. QED
  BY <1>1, TruthAlways, PTL

-----------------------------------------------------------------------------
(* How often an event is sent around *)

\* Holds, which loose is about, and Counted speak of the same copies.
LEMMA HoldsCounted ==
    ASSUME NEW q, NEW e \in Events
    PROVE  e \in Holds(q) <=> Counted(q, e) # {}
  BY Numbers DEF Holds, Counted

LEMMA InHandCounted ==
    ASSUME NEW p \in Procs, NEW e \in Events
    PROVE  e \in InHand(p) <=> \E q \in Procs \ {p} : Counted(proc[q], e) # {}
<1>1. \A q \in Procs : e \in Holds(proc[q]) <=> Counted(proc[q], e) # {}
  BY HoldsCounted
<1>. QED
  BY <1>1 DEF InHand

\* A step that leaves the copies of an event, and what they count, alone.
LEMMA CountKept ==
    ASSUME Grows, NEW e \in Events, CountOK(e), tries'[e] = tries[e],
           event'[e].attempts = event[e].attempts,
           \A p \in Procs : Counted(proc'[p], e) = Counted(proc[p], e)
    PROVE  CountOK(e)'
<1>1. event'[e].status = "absent" => event[e].status = "absent"
  BY DEF Grows
<1>2. \A p \in Procs : Counted(proc[p], e)' = Counted(proc'[p], e)
  BY DEF Counted
<1>. QED
  BY <1>1, <1>2 DEF CountOK

\* The same for a step of one goroutine.
LEMMA CountKeptBy ==
    ASSUME Grows, NEW e \in Events, CountOK(e), tries'[e] = tries[e],
           event'[e].attempts = event[e].attempts, NEW p \in Procs,
           \A r \in Procs \ {p} : proc'[r] = proc[r],
           Counted(proc'[p], e) = Counted(proc[p], e)
    PROVE  CountOK(e)'
<1>1. \A r \in Procs : Counted(proc'[r], e) = Counted(proc[r], e)
  <2>1. ASSUME NEW r \in Procs PROVE Counted(proc'[r], e) = Counted(proc[r], e)
    BY r = p \/ proc'[r] = proc[r]
  <2>. QED
    BY <2>1
<1>. QED
  BY <1>1, CountKept

\* A goroutine that gets the only copy, with all that was counted.
LEMMA CountTaken ==
    ASSUME NEW e \in Events, NEW p \in Procs, \A r \in Procs \ {p} : Counted(proc'[r], e) = {},
           Counted(proc'[p], e) = {tries'[e]}, event'[e].status # "absent"
    PROVE  CountOK(e)'
<1>1. \A r \in Procs : Counted(proc[r], e)' = Counted(proc'[r], e)
  BY DEF Counted
<1>. QED
  BY <1>1 DEF CountOK

\* Being idle, or listing, is having no copy.
LEMMA NoCopy ==
    ASSUME NEW q, q.event = 0, q.todo = {}, NEW e \in Events
    PROVE  Counted(q, e) = {}
  BY Numbers DEF Counted

\* A goroutine that is through with its event drops that copy and no other.
LEMMA ThroughCounted ==
    ASSUME TypeOK, TruthInv, NEW p \in Procs, proc[p].pc \in {"channels", "send", "write"},
           NEW d \in Events
    PROVE  Counted(Through(p), d) = IF d = proc[p].event THEN {} ELSE Counted(proc[p], d)
<1>. DEFINE o == Through(p)
            q == proc[p]
<1>1. q.event \in Events \ q.todo /\ q \in Proc
  BY DEF TypeOK, TruthInv, HandOK
<1>2. \/ /\ q.todo = {} /\ o.event = 0 /\ o.todo = {}
      \/ /\ o.event \in q.todo /\ o.row = q.list[o.event]
         /\ o.todo = q.todo \ {o.event}
         /\ \A c \in o.todo : o.list[c] = q.list[c]
  BY ThroughFields
<1>. HIDE DEF o
<1>3. CASE q.todo = {} /\ o.event = 0 /\ o.todo = {}
  BY <1>1, <1>3, Numbers DEF Counted, o
<1>4. CASE /\ o.event \in q.todo /\ o.row = q.list[o.event]
           /\ o.todo = q.todo \ {o.event}
           /\ \A c \in o.todo : o.list[c] = q.list[c]
  BY <1>1, <1>4 DEF Counted, o
<1>. QED
  BY <1>2, <1>3, <1>4

LEMMA CountInit == Init => CountInv
<1>. SUFFICES ASSUME Init, NEW e \in Events PROVE CountOK(e)
  BY DEF CountInv
<1>1. /\ \A p \in Procs : proc[p] = Idle
      /\ event[e].attempts = 0 /\ tries[e] = 0
  BY DEF Init, NoRow
<1>2. \A p \in Procs : Counted(proc[p], e) = {}
  BY <1>1, IdleType, NoCopy
<1>. QED
  BY <1>1, <1>2 DEF CountOK

\* Notify and RetryEvent: a goroutine takes the event as its row is stored.
LEMMA TakeCount ==
    ASSUME TypeOK, TypeOK', TruthInv, TruthInv', CountInv, Grows,
           NEW p \in Procs, proc[p].pc = "idle", NEW e \in Events,
           NEW row \in Row, proc'[p].event = e, proc'[p].row = row, proc'[p].todo = {},
           \A r \in Procs \ {p} : proc'[r] = proc[r],
           loose' = IF e \in InHand(p) THEN loose \cup {e} ELSE loose,
           tries' = tries, \A d \in Events \ {e} : event'[d] = event[d],
           event'[e].status # "absent",
           CountOK(e) /\ (\A r \in Procs : Counted(proc[r], e) = {}) => row.attempts = tries[e]
    PROVE  CountInv'
<1>1. \A d \in Events : Counted(proc[p], d) = {}
  <2>1. proc[p].event = 0 /\ proc[p].todo = {}
    BY DEF TruthInv, HandOK
  <2>. QED
    BY <2>1, NoCopy
<1>2. ASSUME NEW d \in Events \ loose' PROVE CountOK(d)'
  <2>0. d \in Events \ loose /\ CountOK(d)
    BY DEF CountInv
  <2>1. CASE d = e
    <3>1. \A r \in Procs \ {p} : Counted(proc[r], e) = {}
      BY <2>1, InHandCounted
    <3>2. row.attempts = tries[e]
      BY <1>1, <2>0, <2>1, <3>1
    <3>3. Counted(proc'[p], e) = {tries'[e]}
      BY <3>2 DEF Counted
    <3>4. \A r \in Procs \ {p} : Counted(proc'[r], e) = {}
      BY <3>1
    <3>. QED
      BY <2>1, <3>3, <3>4, CountTaken, SMTT(60)
  <2>2. CASE d # e
    <3>1. Counted(proc'[p], d) = {}
      BY <2>2 DEF Counted
    <3>2. event'[d] = event[d]
      BY <2>2
    <3>. QED
      BY <1>1, <2>0, <3>1, <3>2, CountKeptBy, ZenonT(150)
  <2>. QED
    BY <2>1, <2>2
<1>. QED
  BY <1>2 DEF CountInv

LEMMA NotifyCount ==
    ASSUME TypeOK, TypeOK', TruthInv, TruthInv', CountInv, Grows,
           NEW p \in Callers, NEW e \in Events, NEW type \in Types, Notify(p, e, type)
    PROVE  CountInv'
<1>. DEFINE row == [status |-> "pending", type |-> type, attempts |-> 0, next |-> "none"]
<1>0. p \in Procs /\ proc[p].pc = "idle" /\ row \in Row /\ FALSE \in BOOLEAN
  BY Numbers DEF Procs, Notify, Row
<1>1. /\ event' = [event EXCEPT ![e] = row] /\ event[e].status = "absent"
      /\ Take(p, e, row, FALSE) /\ tries' = tries
  BY DEF Notify
<1>a. row.status = "pending" /\ row.attempts = 0
  OBVIOUS
<1>. HIDE DEF row
<1>2. event'[e].status # "absent" /\ \A d \in Events \ {e} : event'[d] = event[d]
  BY <1>1, <1>a DEF TypeOK
<1>3. CountOK(e) => row.attempts = tries[e]
  BY <1>1, <1>a DEF CountOK
<1>4. /\ proc' \in [Procs -> Proc] /\ loose' \in SUBSET Events
      /\ proc'[p].pc = "channels" /\ proc'[p].event = e /\ proc'[p].row = row
      /\ proc'[p].manual = FALSE
      /\ proc'[p].todo = {} /\ proc'[p].n + Cardinality(proc'[p].todo) <= Limit
      /\ \A q \in Procs \ {p} : proc'[q] = proc[q]
  BY <1>0, <1>1, TakeType, ZenonT(60)
<1>5. loose' = IF e \in InHand(p) THEN loose \cup {e} ELSE loose
  BY <1>1 DEF Take
<1>. QED
  BY <1>0, <1>1, <1>2, <1>3, <1>4, <1>5, TakeCount, SMTT(150)

LEMMA RetryCount ==
    ASSUME TypeOK, TypeOK', TruthInv, TruthInv', CountInv, Grows,
           NEW p \in Callers, NEW e \in Events, RetryEvent(p, e)
    PROVE  CountInv'
<1>0. /\ p \in Procs /\ proc[p].pc = "idle" /\ event[e] \in Row /\ TRUE \in BOOLEAN
      /\ event[e].status # "absent"
      /\ Take(p, e, event[e], TRUE) /\ tries' = tries /\ event' = event
  BY DEF Procs, RetryEvent, TypeOK
<1>1. event'[e].status # "absent" /\ \A d \in Events \ {e} : event'[d] = event[d]
  BY <1>0
<1>2. (\A r \in Procs : Counted(proc[r], e) = {}) /\ CountOK(e) => event[e].attempts = tries[e]
  BY DEF CountOK
<1>3. /\ proc' \in [Procs -> Proc] /\ loose' \in SUBSET Events
      /\ proc'[p].pc = "channels" /\ proc'[p].event = e /\ proc'[p].row = event[e]
      /\ proc'[p].manual = TRUE
      /\ proc'[p].todo = {} /\ proc'[p].n + Cardinality(proc'[p].todo) <= Limit
      /\ \A q \in Procs \ {p} : proc'[q] = proc[q]
  BY <1>0, TakeType, ZenonT(60)
<1>4. loose' = IF e \in InHand(p) THEN loose \cup {e} ELSE loose
  BY <1>0 DEF Take
<1>. QED
  BY <1>0, <1>1, <1>2, <1>3, <1>4, TakeCount, SMTT(150)

\* An attempt is counted in the copy and in the history at once.
LEMMA ListChannelsCount ==
    ASSUME TypeOK, TypeOK', TruthInv, TruthInv', CountInv, Grows, NEW p \in Procs, ListChannels(p)
    PROVE  CountInv'
<1>. DEFINE q == proc[p]
            matched == Matching(q.row.type)
<1>0. /\ q \in Proc /\ q.row \in Row /\ q.row.attempts \in Nat /\ HandOK(p)
      /\ q.pc = "channels" /\ UNCHANGED <<event, loose>>
  BY Numbers DEF TypeOK, Proc, Row, TruthInv, ListChannels
<1>1. PICK e \in Events \ q.todo : e = q.event
  BY <1>0 DEF HandOK
<1>2. q.row.attempts + (IF q.manual THEN 2 ELSE 1) <= Allowance(e)
  BY <1>0, <1>1 DEF HandOK
<1>3. q.row.attempts + 1 <= MaxTries
  <2>1. Allowance(e) \in Nat /\ Allowance(e) <= MaxTries
    BY Numbers DEF TypeOK, Allowance
  <2>. QED
    BY <1>0, <1>2, <2>1, Numbers
<1>4. CASE matched = {}
  <2>. DEFINE s == [q EXCEPT !.pc = "write", !.row.status = "skipped", !.row.next = "none"]
  <2>1. proc' = [proc EXCEPT ![p] = s] /\ tries' = tries
    BY <1>4, SMTT(60) DEF ListChannels, Become
  <2>2. SameList(s, q) /\ s.row.attempts = q.row.attempts
    BY <1>0, SkippedFields, ZenonT(60)
  <2>. HIDE DEF s
  <2>3. proc'[p] = s /\ \A r \in Procs \ {p} : proc'[r] = proc[r]
    BY <2>1 DEF TypeOK
  <2>4. \A d \in Events : Counted(proc'[p], d) = Counted(proc[p], d)
    BY <2>2, <2>3 DEF Counted, SameList
  <2>5. ASSUME NEW d \in Events \ loose' PROVE CountOK(d)'
    <3>1. CountOK(d) /\ tries'[d] = tries[d] /\ event'[d] = event[d]
      BY <1>0, <2>1 DEF CountInv
    <3>. QED
      BY <2>3, <2>4, <3>1, CountKeptBy
  <2>. QED
    BY <2>5 DEF CountInv
<1>5. CASE matched # {}
  <2>. DEFINE s == [q EXCEPT !.pc = "send", !.rest = matched, !.row.attempts = @ + 1]
  <2>1. /\ proc' = [proc EXCEPT ![p] = s]
        /\ tries' = [tries EXCEPT ![e] = IF tries[e] < MaxTries THEN tries[e] + 1 ELSE tries[e]]
    BY <1>1, <1>5, SMTT(60) DEF ListChannels, Become
  <2>2. SameList(s, q) /\ s.row.attempts = q.row.attempts + 1
    <3>1. matched \in SUBSET Channels
      BY DEF Matching
    <3>. QED
      BY <1>0, <1>3, <3>1, SendingFields, ZenonT(60)
  <2>. HIDE DEF s, matched
  <2>3. proc'[p] = s /\ \A r \in Procs \ {p} : proc'[r] = proc[r]
    BY <2>1 DEF TypeOK
  <2>4. ASSUME NEW d \in Events \ loose' PROVE CountOK(d)'
    <3>0. CountOK(d) /\ event'[d] = event[d]
      BY <1>0 DEF CountInv
    <3>1. CASE d = e
      <4>1. Counted(proc[p], e) = {q.row.attempts}
        BY <1>1 DEF Counted
      <4>2. q.row.attempts = tries[e] /\ \A r \in Procs \ {p} : Counted(proc[r], e) = {}
        BY <3>0, <3>1, <4>1 DEF CountOK
      <4>3. tries'[e] = q.row.attempts + 1
        BY <1>0, <1>3, <2>1, <4>2, Numbers DEF TypeOK
      <4>4. Counted(proc'[p], e) = {tries'[e]}
        BY <1>1, <2>2, <2>3, <4>3 DEF Counted, SameList
      <4>5. event'[e].status # "absent"
        BY <1>0, <1>1 DEF HandOK, RowOK
      <4>6. \A r \in Procs \ {p} : Counted(proc'[r], e) = {}
        BY <2>3, <4>2
      <4>. QED
        BY <3>1, <4>4, <4>5, <4>6, CountTaken
    <3>2. CASE d # e
      <4>1. tries'[d] = tries[d]
        BY <2>1, <3>2 DEF TypeOK
      <4>2. Counted(proc'[p], d) = Counted(proc[p], d)
        BY <1>1, <2>2, <2>3, <3>2 DEF Counted, SameList
      <4>. QED
        BY <2>3, <3>0, <4>1, <4>2, CountKeptBy
    <3>. QED
      BY <3>1, <3>2
  <2>. QED
    BY <2>4 DEF CountInv
<1>. QED
  BY <1>4, <1>5

\* Calling a webhook counts nothing.
LEMMA SentCount ==
    ASSUME NEW q \in Proc, NEW c \in Channels, NEW failed \in BOOLEAN
    PROVE  /\ SameList(Sent(q, c, failed), q)
           /\ Sent(q, c, failed).row.attempts = q.row.attempts
<1>. DEFINE s == Sent(q, c, failed)
            o == Outcome(q.row, failed, q.manual)
<1>1. SameList(s, q) /\ (s.row = o \/ s.row = q.row)
  BY SentFields
<1>2. q.row \in Row /\ q.manual \in BOOLEAN
  BY DEF Proc
<1>3. o.attempts = q.row.attempts
  BY <1>2, OutcomeFields, SMTT(60)
<1>. HIDE DEF s, o
<1>4. s.row.attempts = q.row.attempts
  BY <1>1, <1>3
<1>. QED
  BY <1>1, <1>4 DEF s

LEMMA SendCount ==
    ASSUME TypeOK, TypeOK', TruthInv, TruthInv', CountInv, Grows, NEW p \in Procs, Send(p)
    PROVE  CountInv'
<1>. DEFINE q == proc[p]
            c == Max(q.rest)
<1>0. /\ q \in Proc /\ q.row \in Row /\ q.manual \in BOOLEAN /\ q.failed \in BOOLEAN
      /\ q.rest \in SUBSET Channels /\ q.rest # {} /\ UNCHANGED <<event, tries, loose>>
  BY DEF TypeOK, Proc, TruthInv, HandOK, Send
<1>1. c \in Channels
  <2>1. q.rest \in SUBSET Nat /\ IsFiniteSet(q.rest)
    BY <1>0, NotificationAssumption, FS_Subset
  <2>. QED
    BY <1>0, <2>1, MaxIn
<1>. HIDE DEF c
<1>2. PICK ok \in BOOLEAN : Become(p, Sent(q, c, q.failed \/ ~ ok))
  BY DEF Send, c
<1>3. PICK failed \in BOOLEAN : failed = (q.failed \/ ~ ok)
  OBVIOUS
<1>. DEFINE s == Sent(q, c, failed)
<1>4. SameList(s, q) /\ s.row.attempts = q.row.attempts
  <2>1. q \in Proc /\ c \in Channels /\ failed \in BOOLEAN
    BY <1>0, <1>1
  <2>. HIDE DEF q
  <2>. QED
    BY <2>1, SentCount, Zenon
<1>5. proc' = [proc EXCEPT ![p] = s]
  BY <1>2, <1>3 DEF Become
<1>. HIDE DEF s
<1>6. proc'[p] = s /\ \A r \in Procs \ {p} : proc'[r] = proc[r]
  BY <1>5 DEF TypeOK
<1>7. \A d \in Events : Counted(proc'[p], d) = Counted(proc[p], d)
  BY <1>4, <1>6 DEF Counted, SameList
<1>8. ASSUME NEW d \in Events \ loose' PROVE CountOK(d)'
  <2>1. CountOK(d) /\ tries'[d] = tries[d] /\ event'[d] = event[d]
    BY <1>0 DEF CountInv
  <2>. QED
    BY <1>6, <1>7, <2>1, CountKeptBy
<1>. QED
  BY <1>8 DEF CountInv

\* The row has what was counted once the copy is gone.
LEMMA WriteCount ==
    ASSUME TypeOK, TypeOK', TruthInv, TruthInv', CountInv, Grows, NEW p \in Procs, Write(p)
    PROVE  CountInv'
<1>. DEFINE q == proc[p]
<1>0. /\ q.pc = "write" /\ Become(p, Through(p)) /\ UNCHANGED <<tries, loose>> /\ HandOK(p)
      /\ event' = [event EXCEPT ![q.event] = q.row]
  BY DEF TruthInv, Write
<1>1. PICK e \in Events : e = q.event
  BY <1>0 DEF HandOK
<1>2. proc'[p] = Through(p) /\ \A r \in Procs \ {p} : proc'[r] = proc[r]
  BY <1>0, ThroughType
<1>3. \A d \in Events : Counted(proc'[p], d) = IF d = e THEN {} ELSE Counted(proc[p], d)
  BY <1>0, <1>1, <1>2, ThroughCounted
<1>4. ASSUME NEW d \in Events \ loose' PROVE CountOK(d)'
  <2>0. CountOK(d) /\ tries'[d] = tries[d]
    BY <1>0 DEF CountInv
  <2>1. CASE d = e
    <3>1. Counted(proc[p], e) = {q.row.attempts}
      BY <1>1 DEF Counted
    <3>2. q.row.attempts = tries[e] /\ \A r \in Procs \ {p} : Counted(proc[r], e) = {}
      BY <2>0, <2>1, <3>1 DEF CountOK
    <3>3. event'[e] = q.row /\ q.row.status # "absent"
      BY <1>0, <1>1 DEF TypeOK, HandOK, RowOK
    <3>4. \A r \in Procs : Counted(proc'[r], e) = {}
      BY <1>2, <1>3, <3>2
    <3>5. \A r \in Procs : Counted(proc[r], e)' = Counted(proc'[r], e)
      BY DEF Counted
    <3>. QED
      BY <2>0, <2>1, <3>2, <3>3, <3>4, <3>5 DEF CountOK
  <2>2. CASE d # e
    <3>1. event'[d] = event[d] /\ Counted(proc'[p], d) = Counted(proc[p], d)
      BY <1>0, <1>1, <1>3, <2>2 DEF TypeOK
    <3>. QED
      BY <1>2, <2>0, <3>1, CountKeptBy
  <2>. QED
    BY <2>1, <2>2
<1>. QED
  BY <1>4 DEF CountInv

LEMMA DispatchFailsCount ==
    ASSUME TypeOK, TypeOK', TruthInv, TruthInv', CountInv, Grows, NEW p \in Procs,
           DispatchFails(p)
    PROVE  CountInv'
<1>0. /\ proc[p].pc \in {"channels", "write"} /\ Become(p, Through(p))
      /\ UNCHANGED <<event, tries>> /\ loose' = loose \cup {proc[p].event}
  BY DEF DispatchFails
<1>1. proc'[p] = Through(p) /\ \A r \in Procs \ {p} : proc'[r] = proc[r]
  BY <1>0, ThroughType
<1>2. ASSUME NEW d \in Events \ loose' PROVE CountOK(d)'
  <2>1. CountOK(d) /\ tries'[d] = tries[d] /\ event'[d] = event[d] /\ d # proc[p].event
    BY <1>0 DEF CountInv
  <2>2. Counted(proc'[p], d) = Counted(proc[p], d)
    BY <1>0, <1>1, <2>1, ThroughCounted
  <2>. QED
    BY <1>1, <2>1, <2>2, CountKeptBy
<1>. QED
  BY <1>2 DEF CountInv

LEMMA ListDueCount ==
    ASSUME TypeOK, TypeOK', TruthInv, TruthInv', CountInv, Grows, ListDue
    PROVE  CountInv'
<1>. DEFINE o == proc'[Worker]
<1>0. PICK found \in SUBSET Events :
        /\ \A e \in found : event[e].status \in Waiting
        /\ loose' = loose \cup (found \cap InHand(Worker))
        /\ \/ /\ found = {} /\ o.event = 0 /\ o.pc \in {"idle", "list"} /\ o.todo = {}
           \/ /\ o.event \in found /\ o.pc = "channels" /\ o.manual = FALSE
              /\ o.row = event[o.event] /\ o.todo = found \ {o.event}
              /\ \A d \in o.todo : o.list[d] = event[d]
  BY ListDueFields
<1>1. /\ proc[Worker].todo = {} /\ proc[Worker].event = 0 /\ Worker \in Procs
      /\ \A r \in Procs \ {Worker} : proc'[r] = proc[r]
      /\ UNCHANGED <<event, tries>>
  BY ListDueFields DEF ListDue, Procs
<1>2. \A d \in Events : Counted(proc[Worker], d) = {}
  BY <1>1, NoCopy
<1>. HIDE DEF o
<1>3. \A d \in Events : Counted(o, d) = IF d \in found THEN {event[d].attempts} ELSE {}
  BY <1>0, Numbers DEF Counted
<1>4. ASSUME NEW d \in Events \ loose' PROVE CountOK(d)'
  <2>0. CountOK(d) /\ tries'[d] = tries[d] /\ event'[d] = event[d]
    BY <1>0, <1>1 DEF CountInv
  <2>1. CASE d \in found
    <3>1. \A r \in Procs \ {Worker} : Counted(proc[r], d) = {}
      BY <1>0, <1>1, <2>1, InHandCounted
    <3>2. event[d].attempts = tries[d]
      BY <1>2, <2>0, <3>1 DEF CountOK
    <3>3. Counted(proc'[Worker], d) = {tries'[d]}
      BY <1>3, <2>0, <2>1, <3>2 DEF o
    <3>4. \A r \in Procs \ {Worker} : Counted(proc'[r], d) = {}
      BY <1>1, <3>1
    <3>5. event'[d].status # "absent"
      BY <1>0, <2>0, <2>1 DEF Waiting
    <3>. QED
      BY <1>1, <3>3, <3>4, <3>5, CountTaken
  <2>2. CASE d \notin found
    <3>1. Counted(proc'[Worker], d) = Counted(proc[Worker], d)
      BY <1>2, <1>3, <2>2 DEF o
    <3>. QED
      BY <1>1, <2>0, <3>1, CountKeptBy
  <2>. QED
    BY <2>1, <2>2
<1>. QED
  BY <1>4 DEF CountInv

LEMMA ListFailsCount ==
    ASSUME TypeOK, TypeOK', TruthInv, TruthInv', CountInv, Grows, ListFails
    PROVE  CountInv'
<1>0. /\ proc' = [proc EXCEPT ![Worker] = Idle] /\ Worker \in Procs
      /\ proc[Worker].pc = "list" /\ UNCHANGED <<event, tries, loose>>
  BY DEF ListFails, Become, history, Procs
<1>1. proc'[Worker] = Idle /\ \A r \in Procs \ {Worker} : proc'[r] = proc[r]
  BY <1>0 DEF TypeOK
<1>2. proc[Worker].event = 0 /\ proc[Worker].todo = {}
  BY <1>0 DEF TruthInv, HandOK
<1>3. ASSUME NEW d \in Events \ loose' PROVE CountOK(d)'
  <2>1. CountOK(d) /\ tries'[d] = tries[d] /\ event'[d] = event[d]
    BY <1>0 DEF CountInv
  <2>2. Counted(proc'[Worker], d) = {} /\ Counted(proc[Worker], d) = {}
    BY <1>1, <1>2, IdleType, NoCopy
  <2>. QED
    BY <1>0, <1>1, <2>1, <2>2, CountKeptBy
<1>. QED
  BY <1>3 DEF CountInv

LEMMA CrashCount ==
    ASSUME TypeOK, TypeOK', TruthInv, TruthInv', CountInv, Grows, Crash
    PROVE  CountInv'
<1>0. /\ proc' = [p \in Procs |-> Idle] /\ UNCHANGED <<event, tries>>
      /\ loose' = loose \cup UNION {Holds(proc[p]) : p \in Procs}
  BY DEF Crash
<1>1. ASSUME NEW d \in Events \ loose' PROVE CountOK(d)'
  <2>1. CountOK(d) /\ tries'[d] = tries[d] /\ event'[d] = event[d]
    BY <1>0 DEF CountInv
  <2>2. \A p \in Procs : d \notin Holds(proc[p])
    BY <1>0
  <2>3. \A p \in Procs : Counted(proc'[p], d) = {} /\ Counted(proc[p], d) = {}
    BY <1>0, <2>2, IdleType, NoCopy, HoldsCounted
  <2>. QED
    BY <2>1, <2>3, CountKept
<1>. QED
  BY <1>1 DEF CountInv

\* Steps of none of the goroutines: channels change, time passes.
LEMMA StillCount ==
    ASSUME CountInv, Grows, UNCHANGED <<proc, tries, loose>>,
           \A d \in Events : event'[d].attempts = event[d].attempts
    PROVE  CountInv'
<1>1. ASSUME NEW d \in Events \ loose' PROVE CountOK(d)'
  <2>1. CountOK(d) /\ tries'[d] = tries[d] /\ event'[d].attempts = event[d].attempts
    BY DEF CountInv
  <2>. QED
    BY <2>1, CountKept
<1>. QED
  BY <1>1 DEF CountInv

\* No step takes back what Grows is about.
LEMMA StepGrows == TypeOK /\ TypeOK' /\ TruthInv /\ [Next]_vars => Grows
<1>. SUFFICES ASSUME TypeOK, TypeOK', TruthInv, [Next]_vars, NEW e \in Events
              PROVE  /\ tries[e] <= tries'[e] /\ manual[e] <= manual'[e] /\ got[e] \subseteq got'[e]
                     /\ event[e].status # "absent" =>
                           /\ event'[e].status # "absent" /\ event'[e].type = event[e].type
                           /\ owed'[e] \subseteq owed[e]
  BY DEF Grows
<1>0. tries[e] \in 0 .. MaxTries /\ manual[e] \in 0 .. MaxManual /\ MaxTries \in Nat /\ MaxManual \in Nat
  BY Numbers DEF TypeOK
<1>1. ASSUME NEW c \in Channels, CreateChannel(c) \/ UpdateChannel(c) \/ DeleteChannel(c)
      PROVE  UNCHANGED <<event, got, tries, manual>> /\ owed'[e] \subseteq owed[e]
  <2>1. PICK ch \in Channel : Edit(c, ch)
    BY <1>1 DEF CreateChannel, UpdateChannel, DeleteChannel, Channel
  <2>. QED
    BY <2>1 DEF Edit
<1>2. ASSUME NEW p \in Callers, NEW d \in Events, NEW type \in Types, Notify(p, d, type)
      PROVE  /\ UNCHANGED <<got, tries, manual>>
             /\ event[e].status # "absent" => event'[e] = event[e] /\ owed'[e] = owed[e]
  BY <1>2 DEF Notify, TypeOK
<1>3. ASSUME NEW p \in Callers, NEW d \in Events, RetryEvent(p, d)
      PROVE  /\ UNCHANGED <<event, got, tries, owed>> /\ manual[e] <= manual'[e]
  BY <1>0, <1>3 DEF RetryEvent, TypeOK
<1>4. ASSUME NEW p \in Procs, ListChannels(p)
      PROVE  UNCHANGED <<event, got, manual, owed>> /\ tries[e] <= tries'[e]
  <2>1. tries' = tries \/ tries' = [tries EXCEPT ![proc[p].event] = IF @ < MaxTries THEN @ + 1 ELSE @]
    BY <1>4 DEF ListChannels
  <2>2. tries[e] <= tries'[e]
    BY <1>0, <2>1 DEF TypeOK
  <2>. QED
    BY <1>4, <2>2 DEF ListChannels
<1>5. ASSUME NEW p \in Procs, Send(p)
      PROVE  UNCHANGED <<event, tries, manual, owed>> /\ got[e] \subseteq got'[e]
  <2>1. UNCHANGED <<event, tries, manual, owed>>
    BY <1>5 DEF Send
  <2>2. PICK c : got' = got \/ got' = [got EXCEPT ![proc[p].event] = @ \cup {c}]
    BY <1>5 DEF Send
  <2>3. got[e] \subseteq got'[e]
    BY <2>2 DEF TypeOK
  <2>. QED
    BY <2>1, <2>3
<1>6. ASSUME NEW p \in Procs, Write(p)
      PROVE  /\ UNCHANGED <<got, tries, manual, owed>>
             /\ event'[e] = event[e] \/ (event'[e].status # "absent" /\ event'[e].type = event[e].type)
  <2>1. /\ UNCHANGED <<got, tries, manual, owed>>
        /\ event' = [event EXCEPT ![proc[p].event] = proc[p].row]
        /\ HandOK(p) /\ proc[p].pc = "write"
    BY <1>6 DEF Write, TruthInv
  <2>2. RowOK(proc[p].event, proc[p].row)
    BY <2>1 DEF HandOK
  <2>. QED
    BY <2>1, <2>2 DEF TypeOK, RowOK
<1>7. ASSUME NEW p \in Procs, DispatchFails(p) PROVE UNCHANGED <<event, got, tries, manual, owed>>
  BY <1>7 DEF DispatchFails
<1>8. CASE ListDue \/ ListFails \/ Crash \/ UNCHANGED vars
  <2>1. UNCHANGED <<event, got, tries, manual, owed>>
    BY <1>8 DEF ListDue, ListFails, Crash, history, vars
  <2>. QED
    BY <1>0, <2>1
<1>9. ASSUME NEW d \in Events, Pass(d)
      PROVE  /\ UNCHANGED <<got, tries, manual, owed>>
             /\ event'[e].status = event[e].status /\ event'[e].type = event[e].type
  BY <1>9 DEF Pass, history, TypeOK, Row
<1>. QED
  BY <1>0, <1>1, <1>2, <1>3, <1>4, <1>5, <1>6, <1>7, <1>8, <1>9 DEF Next, Dispatch

LEMMA CountStep ==
    TypeOK /\ TypeOK' /\ TruthInv /\ TruthInv' /\ CountInv /\ [Next]_vars => CountInv'
<1>. SUFFICES ASSUME TypeOK, TypeOK', TruthInv, TruthInv', CountInv, [Next]_vars
              PROVE  CountInv'
  OBVIOUS
<1>0. Grows
  BY StepGrows
<1>1. ASSUME NEW c \in Channels, CreateChannel(c) \/ UpdateChannel(c) \/ DeleteChannel(c)
      PROVE  CountInv'
  <2>1. UNCHANGED <<event, proc, tries, loose>>
    BY <1>1 DEF CreateChannel, UpdateChannel, DeleteChannel, Edit
  <2>. QED
    BY <1>0, <2>1, StillCount
<1>2. ASSUME NEW p \in Callers, NEW e \in Events, NEW type \in Types, Notify(p, e, type)
      PROVE  CountInv'
  BY <1>0, <1>2, NotifyCount
<1>3. ASSUME NEW p \in Callers, NEW e \in Events, RetryEvent(p, e) PROVE CountInv'
  BY <1>0, <1>3, RetryCount
<1>4. ASSUME NEW p \in Procs, Dispatch(p) \/ DispatchFails(p) PROVE CountInv'
  BY <1>0, <1>4, ListChannelsCount, SendCount, WriteCount, DispatchFailsCount DEF Dispatch
<1>5. ASSUME NEW e \in Events, Pass(e) PROVE CountInv'
  <2>1. UNCHANGED <<proc, tries, loose>> /\ event' = [event EXCEPT ![e].next = "passed"]
    BY <1>5 DEF Pass, history
  <2>2. \A d \in Events : event'[d].attempts = event[d].attempts
    BY <2>1 DEF TypeOK, Row
  <2>. QED
    BY <1>0, <2>1, <2>2, StillCount
<1>6. CASE UNCHANGED vars
  <2>1. UNCHANGED <<event, proc, tries, loose>>
    BY <1>6 DEF vars
  <2>. QED
    BY <1>0, <2>1, StillCount
<1>. QED
  BY <1>0, <1>1, <1>2, <1>3, <1>4, <1>5, <1>6, ListDueCount, ListFailsCount, CrashCount DEF Next

\* No copy has counted more than the allowance.
LEMMA CountBound ==
    ASSUME TypeOK, TruthInv, NEW e \in Events, CountOK(e)
    PROVE  tries[e] <= Allowance(e)
<1>0. Allowance(e) \in Nat
  BY Numbers DEF TypeOK, Allowance
<1>1. CASE \A p \in Procs : Counted(proc[p], e) = {}
  BY <1>1 DEF CountOK, TruthInv, EventOK
<1>2. ASSUME NEW p \in Procs, Counted(proc[p], e) # {} PROVE tries[e] <= Allowance(e)
  <2>0. /\ proc[p] \in Proc /\ ListOK(p) /\ HandOK(p) /\ Counted(proc[p], e) \subseteq {tries[e]}
    BY DEF TypeOK, TruthInv, CountOK
  <2>1. CASE e = proc[p].event
    <3>1. tries[e] = proc[p].row.attempts
      BY <2>0, <2>1 DEF Counted
    <3>2. proc[p].pc \in {"channels", "send", "write"} /\ proc[p].row.attempts \in Nat
      BY <2>0, <2>1, Numbers DEF HandOK, Proc, Row
    <3>3. /\ proc[p].pc = "channels" =>
                proc[p].row.attempts + (IF proc[p].manual THEN 2 ELSE 1) <= Allowance(e)
          /\ proc[p].pc = "send" =>
                proc[p].row.attempts + (IF proc[p].manual THEN 1 ELSE 0) <= Allowance(e)
          /\ proc[p].pc = "write" => proc[p].row.attempts <= Allowance(e)
      BY <2>0, <2>1 DEF HandOK
    <3>. QED
      BY <1>0, <3>1, <3>2, <3>3
  <2>2. CASE e # proc[p].event
    <3>1. e \in proc[p].todo /\ tries[e] = proc[p].list[e].attempts
      BY <1>2, <2>0, <2>2 DEF Counted
    <3>2. proc[p].list[e].attempts \in Nat
      BY <2>0, Numbers DEF Proc, Row
    <3>. QED
      BY <1>0, <2>0, <3>1, <3>2 DEF ListOK
  <2>. QED
    BY <2>1, <2>2
<1>. QED
  BY <1>1, <1>2

\* An event is sent around at most MaxAttempts times, and twice more for every
\* retry by hand, unless two goroutines had it in hand at once or a fault hit it:
\* the worker, Notify and RetryEvent take a row only after the goroutine before
\* them has written what it counted, and dispatchEvent gives up at the limit.
THEOREM SendsAreBounded == Spec => []SendsBounded
<1>1. TypeOK /\ TruthInv /\ CountInv => SendsBounded
  BY CountBound DEF CountInv, SendsBounded, Allowance
<1>2. Spec => []CountInv
  BY CountInit, CountStep, TruthAlways, PTL DEF Spec
<1>. QED
  BY <1>1, <1>2, TruthAlways, PTL
=============================================================================
