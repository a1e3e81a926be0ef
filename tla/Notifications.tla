---------------------------- MODULE Notifications ----------------------------
(***************************************************************************)
(* Notification channels and events (notification_service.go, its          *)
(* repository and the webhook sender).  A business module calls Notify,    *)
(* which stores an event and sends it to every matching channel; a user    *)
(* retries an event by hand; the retry worker goes through the due events  *)
(* once a minute.  All of them run dispatchEvent on their own copy of the  *)
(* row, and nothing keeps two of them from having the same event in hand.  *)
(* One step is one call to the database or to a webhook.                   *)
(*                                                                         *)
(* Event and channel ids are numbers: lists come newest first.  Payloads,  *)
(* signatures and the lengths of the back-off are left out; time only      *)
(* makes an event due.  TestChannel changes nothing and is left out.       *)
(***************************************************************************)
EXTENDS Integers, FiniteSets, FiniteSetsExt

CONSTANTS
    Events,       \* ids 1 .. n (their number is a bound)
    Channels,     \* ids
    Types,        \* supportedNotificationEvents
    Callers,      \* goroutines of business modules and of requests
    Worker,       \* the goroutine of StartRetryWorker
    MaxAttempts,  \* defaultNotificationMaxAttempts
    Limit,        \* events of one ProcessDueEvents
    FaultKinds,   \* "db", "crash"
    MaxFaults,    \* how many of these, and of channel changes, in a behaviour (bound)
    MaxManual     \* how many retries of an event by hand (bound)

ASSUME NotificationAssumption ==
    /\ IsFiniteSet(Events) /\ Events = 1 .. Cardinality(Events)
    /\ Channels \subseteq Nat /\ IsFiniteSet(Channels)
    /\ IsFiniteSet(Callers) /\ Worker \notin Callers
    /\ {MaxAttempts, Limit} \subseteq Nat \ {0}
    /\ {MaxFaults, MaxManual} \subseteq Nat

VARIABLES
    channel,  \* notification_channels
    event,    \* notification_events
    proc,     \* the goroutines
    got,      \* history: the channels that have received an event
    owed,     \* history: the channels that matched an event at all times since it was made
    tries,    \* history: how many times an event was sent around
    manual,   \* history: how many of these a user asked for
    loose,    \* history: events that two goroutines had in hand, or that a fault hit
    faults

vars == <<channel, event, proc, got, owed, tries, manual, loose, faults>>
history == <<got, owed, tries, manual, loose>>

Procs == Callers \cup {Worker}
Settled == {"delivered", "failed", "skipped"}
NoChannel == [state |-> "absent", types |-> {}]
Channel == {NoChannel} \cup [state : {"on", "off"}, types : SUBSET Types]

\* The most attempts that the row can count, and tries up to which they are told apart
MaxTries == MaxAttempts + 2 * MaxManual + MaxFaults + Cardinality(Procs)

\* next: next_attempt_at, not set, still to come, or passed
Row == [status : {"absent", "pending", "retry_pending"} \cup Settled, type : Types \cup {"none"},
        attempts : 0 .. MaxTries, next : {"none", "later", "passed"}]
NoRow == [status |-> "absent", type |-> "none", attempts |-> 0, next |-> "none"]

Proc == [pc : {"idle", "list", "channels", "send", "write"},
         event : Events \cup {0}, row : Row,   \* the event in hand
         rest : SUBSET Channels, failed : BOOLEAN, manual : BOOLEAN,
         phase : {"pending", "retry_pending"}, \* the worker's list, and its copies
         todo : SUBSET Events, list : [Events -> Row], n : 0 .. Limit]
Idle == [pc |-> "idle", event |-> 0, row |-> NoRow, rest |-> {}, failed |-> FALSE,
         manual |-> FALSE, phase |-> "pending", todo |-> {}, list |-> [e \in Events |-> NoRow], n |-> 0]

TypeOK ==
    /\ channel \in [Channels -> Channel]
    /\ event \in [Events -> Row]
    /\ proc \in [Procs -> Proc]
    /\ got \in [Events -> SUBSET Channels] /\ owed \in [Events -> SUBSET Channels]
    /\ tries \in [Events -> 0 .. MaxTries] /\ manual \in [Events -> 0 .. MaxManual]
    /\ loose \in SUBSET Events
    /\ faults \in 0 .. MaxFaults

-----------------------------------------------------------------------------
\* notificationChannelMatchesEvent
Matches(ch, type) == ch.state = "on" /\ (ch.types = {} \/ type \in ch.types)

Matching(type) == {c \in Channels : Matches(channel[c], type)}

\* The events that a goroutine has a copy of
Holds(q) == q.todo \cup (IF q.event = 0 THEN {} ELSE {q.event})
InHand(p) == UNION {Holds(proc[q]) : q \in Procs \ {p}}

Become(p, q) == proc' = [proc EXCEPT ![p] = q]

Hold(q, e, row, byHand) ==
    [q EXCEPT !.pc = "channels", !.event = e, !.row = row, !.manual = byHand, !.failed = FALSE,
              !.rest = {}, !.todo = @ \ {e}, !.list[e] = NoRow]

\* The worker's next event, its next list, or the end of ProcessDueEvents
Onward(q) ==
    CASE q.todo # {} -> LET e == Max(q.todo) IN Hold([q EXCEPT !.n = @ + 1], e, q.list[e], FALSE)
      [] q.todo = {} /\ q.phase = "pending" /\ q.n < Limit ->
            [Idle EXCEPT !.pc = "list", !.phase = "retry_pending", !.n = q.n]
      [] OTHER -> Idle

\* What a goroutine does once it is through with an event: the worker goes on to
\* the next one, after an error too.
Through(p) == IF p = Worker THEN Onward(proc[p]) ELSE Idle

Fault(kind) == kind \in FaultKinds /\ faults > 0 /\ faults' = faults - 1

Init ==
    /\ channel \in [Channels -> {NoChannel, [state |-> "on", types |-> {}]}]
    /\ event = [e \in Events |-> NoRow]
    /\ proc = [p \in Procs |-> Idle]
    /\ got = [e \in Events |-> {}] /\ owed = [e \in Events |-> {}]
    /\ tries = [e \in Events |-> 0] /\ manual = [e \in Events |-> 0]
    /\ loose = {}
    /\ faults = MaxFaults

-----------------------------------------------------------------------------
(* Channels *)

Edit(c, ch) ==
    /\ faults > 0 /\ faults' = faults - 1
    /\ channel' = [channel EXCEPT ![c] = ch]
    /\ owed' = [e \in Events |->
                 IF c \in owed[e] /\ ~Matches(ch, event[e].type) THEN owed[e] \ {c} ELSE owed[e]]
    /\ UNCHANGED <<event, proc, got, tries, manual, loose>>

CreateChannel(c) ==
    /\ channel[c].state = "absent"
    /\ \E ch \in Channel \ {NoChannel} : Edit(c, ch)

UpdateChannel(c) ==
    /\ channel[c].state # "absent"
    /\ \E ch \in Channel \ {NoChannel, channel[c]} : Edit(c, ch)

DeleteChannel(c) ==
    /\ channel[c].state # "absent"
    /\ Edit(c, NoChannel)

-----------------------------------------------------------------------------
(* Events *)

Take(p, e, row, byHand) ==
    /\ Become(p, Hold(proc[p], e, row, byHand))
    /\ loose' = IF e \in InHand(p) THEN loose \cup {e} ELSE loose

\* Notify: the event is stored, then dispatched.
Notify(p, e, type) ==
    LET row == [status |-> "pending", type |-> type, attempts |-> 0, next |-> "none"]
    IN  /\ proc[p].pc = "idle"
        /\ event[e].status = "absent" /\ \A d \in Events : d < e => event[d].status # "absent"
        /\ event' = [event EXCEPT ![e] = row]
        /\ owed' = [owed EXCEPT ![e] = Matching(type)]
        /\ Take(p, e, row, FALSE)
        /\ UNCHANGED <<channel, got, tries, manual, faults>>

RetryEvent(p, e) ==
    /\ proc[p].pc = "idle"
    /\ event[e].status \notin {"absent", "delivered", "skipped"}
    /\ manual[e] < MaxManual
    /\ manual' = [manual EXCEPT ![e] = @ + 1]
    /\ Take(p, e, event[e], TRUE)
    /\ UNCHANGED <<channel, event, got, owed, tries, faults>>

\* Mutant: an attempt is not counted when the channels are listed.
MutantListChannels(p) ==
    LET q == proc[p]
        matched == Matching(q.row.type)
    IN  /\ q.pc = "channels"
        /\ IF matched = {}
           THEN /\ Become(p, [q EXCEPT !.pc = "write", !.row.status = "skipped", !.row.next = "none"])
                /\ UNCHANGED tries
           ELSE /\ Become(p, [q EXCEPT !.pc = "send", !.rest = matched])
                /\ tries' = [tries EXCEPT ![q.event] = IF @ < MaxTries THEN @ + 1 ELSE @]
        /\ UNCHANGED <<channel, event, got, owed, manual, loose, faults>>

\* dispatchEvent: the enabled channels are listed and an attempt is counted.
ListChannels(p) ==
    LET q == proc[p]
        matched == Matching(q.row.type)
    IN  /\ q.pc = "channels"
        /\ IF matched = {}
           THEN /\ Become(p, [q EXCEPT !.pc = "write", !.row.status = "skipped", !.row.next = "none"])
                /\ UNCHANGED tries
           ELSE /\ Become(p, [q EXCEPT !.pc = "send", !.rest = matched, !.row.attempts = @ + 1])
                /\ tries' = [tries EXCEPT ![q.event] = IF @ < MaxTries THEN @ + 1 ELSE @]
        /\ UNCHANGED <<channel, event, got, owed, manual, loose, faults>>

\* What dispatchEvent makes of the row
Outcome(row, failed, byHand) ==
    CASE ~failed -> [row EXCEPT !.status = "delivered", !.next = "none"]
      [] failed /\ row.attempts >= MaxAttempts /\ ~byHand ->
            [row EXCEPT !.status = "failed", !.next = "none"]
      [] OTHER -> [row EXCEPT !.status = "retry_pending", !.next = "later"]

Sent(q, c, failed) ==
    [q EXCEPT !.rest = @ \ {c}, !.failed = failed,
              !.pc = IF q.rest = {c} THEN "write" ELSE "send",
              !.row = IF q.rest = {c} THEN Outcome(@, failed, q.manual) ELSE @]

\* Mutant: the answer of the last channel decides.
MutantSend(p) ==
    LET q == proc[p]
        c == Max(q.rest)
    IN  /\ q.pc = "send"
        /\ \E arrived, ok \in BOOLEAN :
              /\ ok => arrived
              /\ got' = IF arrived THEN [got EXCEPT ![q.event] = @ \cup {c}] ELSE got
              /\ Become(p, Sent(q, c, ~ok))
        /\ UNCHANGED <<channel, event, owed, tries, manual, loose, faults>>

\* One webhook is called.  It may have received what it does not confirm.
Send(p) ==
    LET q == proc[p]
        c == Max(q.rest)
    IN  /\ q.pc = "send"
        /\ \E arrived, ok \in BOOLEAN :
              /\ ok => arrived
              /\ got' = IF arrived THEN [got EXCEPT ![q.event] = @ \cup {c}] ELSE got
              /\ Become(p, Sent(q, c, q.failed \/ ~ok))
        /\ UNCHANGED <<channel, event, owed, tries, manual, loose, faults>>

\* UpdateEvent writes every column of the copy.
Write(p) ==
    LET q == proc[p]
    IN  /\ q.pc = "write"
        /\ event' = [event EXCEPT ![q.event] = q.row]
        /\ Become(p, Through(p))
        /\ UNCHANGED <<channel, got, owed, tries, manual, loose, faults>>

\* The database fails dispatchEvent, at its list or at its update.
DispatchFails(p) ==
    /\ proc[p].pc \in {"channels", "write"}
    /\ Fault("db")
    /\ loose' = loose \cup {proc[p].event}
    /\ Become(p, Through(p))
    /\ UNCHANGED <<channel, event, got, owed, tries, manual>>

-----------------------------------------------------------------------------
(* The retry worker *)

\* ListEvents: due events of one status, the newest first.
Due(status) == {e \in Events : event[e].status = status /\ event[e].next # "later"}
Newest(set, k) == {e \in set : Cardinality({d \in set : d > e}) < k}

\* Mutant: only events that failed before are looked for.
MutantFound(phase, k) == IF phase = "pending" THEN {} ELSE Newest(Due(phase), k)

Found(phase, k) == Newest(Due(phase), k)

\* ProcessDueEvents, at a tick and again for the second status.  (A tick that
\* would find nothing is left out.)
ListDue ==
    LET q == proc[Worker]
        found == Found(q.phase, Limit - q.n)
    IN  /\ q.pc = "idle" => Due("pending") \cup Due("retry_pending") # {}
        /\ q.pc \in {"idle", "list"}
        /\ Become(Worker, Onward([q EXCEPT !.todo = found,
                                    !.list = [e \in Events |-> IF e \in found THEN event[e] ELSE NoRow]]))
        /\ loose' = loose \cup (found \cap InHand(Worker))
        /\ UNCHANGED <<channel, event, got, owed, tries, manual, faults>>

\* The list cannot be read: ProcessDueEvents returns.
ListFails ==
    /\ proc[Worker].pc = "list"  \* at a tick nothing is lost
    /\ Fault("db")
    /\ Become(Worker, Idle)
    /\ UNCHANGED <<channel, event, history>>

\* An event's back-off is over.
Pass(e) ==
    /\ event[e].next = "later"
    /\ event' = [event EXCEPT ![e].next = "passed"]
    /\ UNCHANGED <<channel, proc, history, faults>>

\* The process stops and is started again.
Crash ==
    /\ Fault("crash")
    /\ loose' = loose \cup UNION {Holds(proc[p]) : p \in Procs}
    /\ proc' = [p \in Procs |-> Idle]
    /\ UNCHANGED <<channel, event, got, owed, tries, manual>>

Dispatch(p) == ListChannels(p) \/ Send(p) \/ Write(p)

Next ==
    \/ \E c \in Channels : CreateChannel(c) \/ UpdateChannel(c) \/ DeleteChannel(c)
    \/ \E p \in Callers, e \in Events :
          (\E type \in Types : Notify(p, e, type)) \/ RetryEvent(p, e)
    \/ \E p \in Procs : Dispatch(p) \/ DispatchFails(p)
    \/ ListDue \/ ListFails
    \/ \E e \in Events : Pass(e)
    \/ Crash

\* A goroutine that runs goes on (calls to webhooks time out after ten seconds),
\* the worker's ticker ticks and time passes.
Fairness ==
    /\ \A p \in Procs : WF_vars(Dispatch(p))
    /\ WF_vars(ListDue)
    /\ \A e \in Events : WF_vars(Pass(e))

Spec == Init /\ [][Next]_vars /\ Fairness

-----------------------------------------------------------------------------
\* The status of a settled event is true.  One that is delivered, or has no
\* channel, has been received by every channel that was there for it the whole
\* time: what one of several webhooks answers does not hide the failure of
\* another.  One that has failed was sent around as often as promised, whichever
\* goroutines did it and whatever of their counting was lost.  A stale row written
\* back by a second goroutine never claims more than was done.
SettledTruly ==
    /\ TypeOK
    /\ \A e \in Events :
        /\ event[e].status \in {"delivered", "skipped"} => owed[e] \subseteq got[e]
        /\ event[e].status = "failed" => tries[e] >= MaxAttempts

\* Webhooks are not called without end: unless two goroutines had the event in
\* hand at once, or a failure lost a count, it is sent around at most MaxAttempts
\* times, and twice more for every retry by hand.
SendsBounded ==
    \A e \in Events \ loose : tries[e] <= MaxAttempts + 2 * manual[e]

\* Every event is some day delivered, skipped or given up, crashes, failures of
\* the database and races between Notify, the worker and users included.
EventSettles ==
    \A e \in Events : event[e].status # "absent" ~> event[e].status \in Settled
=============================================================================
