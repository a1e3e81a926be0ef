------------------------------- MODULE RSSFeeds -------------------------------
(***************************************************************************)
(* RSS sources and subscriptions (rss_service.go): how they are made,      *)
(* edited, switched, cloned, imported and deleted, and how a source is     *)
(* refreshed by the worker, one by one or all at once, with its failure    *)
(* count, its health and the notification about it.                        *)
(*                                                                         *)
(* A goroutine works on the *entity.RSSSource it read or listed: the       *)
(* refresh lock is taken after that, and UpdateSource writes all columns   *)
(* back.  Deleting a source takes its subscriptions and items with it, in  *)
(* one transaction and with no lock; nothing else ties these rows to it.   *)
(*                                                                         *)
(* Of the items only whether a source has any is kept (their life is       *)
(* RSSItem), of a subscription only its source: what it matches, its       *)
(* switch included, is open there.  All rows have one owner, and every     *)
(* caller has rss.manage, which the routes ask for.  A request that is one *)
(* write, and fails, changes nothing and is not a step.                    *)
(***************************************************************************)
EXTENDS Integers, FiniteSets

CONSTANTS
    Feeds,       \* ids of sources, in the order they are given out (a bound)
    Subs,        \* ids of subscriptions, likewise
    Urls,
    Flaky,       \* urls that cannot always be fetched
    Documents,   \* what is imported: urls of sources, and urls that subscriptions name
    Callers,     \* goroutines of requests
    Refresher,   \* the goroutine of StartRefreshWorker
    DegradedAt, CircuitAt,   \* failures in a row for a worse health: 3 and 5 in the code
    MaxTurns     \* requests, database errors and restarts in a behaviour (bound)

ASSUME FeedsAssumption ==
    /\ Feeds \subseteq Nat \ {0} /\ \E last \in Feeds : \A f \in Feeds : f <= last
    /\ Subs \subseteq Nat \ {0} /\ Subs # {}
    /\ Refresher \notin Callers /\ 0 \notin Callers \cup {Refresher}
    /\ Urls # {} /\ Flaky \subseteq Urls
    /\ Documents \subseteq [urls : SUBSET Urls, subsOf : SUBSET Urls]
    /\ DegradedAt \in Nat \ {0} /\ CircuitAt \in Nat /\ DegradedAt < CircuitAt
    /\ MaxTurns \in Nat

VARIABLES
    feed,    \* rss_sources
    sub,     \* rss_subscriptions
    found,   \* the sources that have rows in rss_items
    held,    \* refreshLocks
    job,     \* the goroutines
    told,    \* the rss.source_failure events: source and health
    turns,   \* left
    want,    \* url and switch, as a request last wrote them with nobody else at work on the row
    untold   \* sources whose notification was lost to an error or a restart

feedVars == <<feed, sub, found, held, job, told, turns, want, untold>>

\* due: next_refresh_at has passed.  The count only matters up to CircuitAt; the
\* health is written together with it and follows from it.
FeedRow == [state : {"unused", "live", "gone"}, url : Urls, on : BOOLEAN,
            fails : 0 .. CircuitAt, due : BOOLEAN]
SubRow == [state : {"unused", "live", "gone"}, feed : Feeds \cup {0}]

AnyUrl == CHOOSE u \in Urls : TRUE
NoFeed == [state |-> "unused", url |-> AnyUrl, on |-> FALSE, fails |-> 0, due |-> FALSE]
NoSub == [state |-> "unused", feed |-> 0]

HealthFor(fails) ==
    CASE fails >= CircuitAt -> "circuit_open"
      [] fails >= DegradedAt /\ fails < CircuitAt -> "degraded"
      [] OTHER -> "ok"

Goroutines == Callers \cup {Refresher}
Resting == [pc |-> "idle", todo |-> {}, list |-> [f \in Feeds |-> NoFeed],
            id |-> 0, row |-> NoFeed,     \* the copy of a source
            sid |-> 0, srow |-> NoSub,    \* the copy of a subscription
            subs |-> {},                  \* what is left of a batch of subscriptions
            urls |-> {}, subsOf |-> {},   \* what is left of an import
            known |-> [u \in Urls |-> 0]] \* sourceByURL, as far as it is still used

FeedsTypeOK ==
    /\ feed \in [Feeds -> FeedRow]
    /\ sub \in [Subs -> SubRow]
    /\ found \subseteq Feeds
    /\ held \in [Feeds -> Goroutines \cup {0}]
    /\ told \subseteq Feeds \X {"degraded", "circuit_open"}
    /\ \A g \in Goroutines : job[g].row \in FeedRow /\ job[g].srow \in SubRow
    /\ turns \in 0 .. MaxTurns

\* applyRSSSourceRefreshSuccess, and applyRSSSourceRefreshFailure with its back-off
Succeeded(row) == [row EXCEPT !.fails = 0, !.due = FALSE]
FailedOnce(row) ==
    [row EXCEPT !.fails = IF row.fails < CircuitAt THEN row.fails + 1 ELSE row.fails, !.due = FALSE]

NewRow(u, on) == [state |-> "live", url |-> u, on |-> on, fails |-> 0, due |-> TRUE]

Wanted(row) == [url |-> row.url, on |-> row.on, sure |-> TRUE]
Unsure == [url |-> AnyUrl, on |-> FALSE, sure |-> FALSE]

\* A source that has been refreshed, with items and a subscription
FeedsInit ==
    LET first == CHOOSE f \in Feeds : \A g \in Feeds : f <= g
        firstSub == CHOOSE s \in Subs : \A t \in Subs : s <= t
    IN  /\ feed = [f \in Feeds |-> IF f = first THEN Succeeded(NewRow(AnyUrl, TRUE)) ELSE NoFeed]
        /\ sub = [s \in Subs |-> IF s = firstSub THEN [state |-> "live", feed |-> first]
                                 ELSE NoSub]
        /\ found = {first} /\ told = {} /\ untold = {}
        /\ held = [f \in Feeds |-> 0]
        /\ job = [g \in Goroutines |-> Resting]
        /\ want = [f \in Feeds |-> Wanted(feed[f])]
        /\ turns = MaxTurns

-----------------------------------------------------------------------------
(* Steps shared by the operations *)

Doing(g, point) == job[g].pc = point
Set(g, q) == job' = [job EXCEPT ![g] = q]
Live(f) == f \in Feeds /\ feed[f].state = "live"
LiveSub(s) == s \in Subs /\ sub[s].state = "live"

Slip == turns > 0 /\ turns' = turns - 1

\* Another goroutine than g has a row of the source in hand, or its id
InHand(f, g) ==
    \E h \in Goroutines \ {g} :
        LET q == job[h]
        IN  f \in q.todo \/ q.id = f \/ q.srow.feed = f \/ \E u \in Urls : q.known[u] = f

\* UpdateSource of a row that is gone is ErrNotFound.
UpdateSource(f, row) == feed' = IF Live(f) THEN [feed EXCEPT ![f] = row] ELSE feed

UnusedFeeds == {f \in Feeds : feed[f].state = "unused"}
UnusedSubs == {s \in Subs : sub[s].state = "unused"}
NextFeed == CHOOSE f \in UnusedFeeds : \A g \in UnusedFeeds : f <= g
NextSub == CHOOSE s \in UnusedSubs : \A t \in UnusedSubs : s <= t

InsertFeed(row) ==
    /\ UnusedFeeds # {}
    /\ feed' = [feed EXCEPT ![NextFeed] = row]
    /\ want' = [want EXCEPT ![NextFeed] = Wanted(row)]

-----------------------------------------------------------------------------
(* Requests about sources *)

CreateSource(u, on) ==
    /\ InsertFeed(NewRow(u, on))
    /\ UNCHANGED <<sub, found, held, job, told, untold>>

\* UpdateSource reads the row, ...
EditStart(g, f) ==
    /\ Doing(g, "idle") /\ Live(f)
    /\ Set(g, [Resting EXCEPT !.pc = "edit", !.id = f, !.row = feed[f]])
    /\ UNCHANGED <<feed, sub, found, held, told, want, untold>>

\* ... and writes it with the url and, when the request has one, the switch.
EditWrite(g) ==
    LET q == job[g]
    IN  /\ Doing(g, "edit")
        /\ \/ \E u \in Urls, on \in BOOLEAN :
                 LET row == [q.row EXCEPT !.url = u, !.on = on]
                 IN  /\ UpdateSource(q.id, row)
                     /\ want' = [want EXCEPT ![q.id] = CASE ~ Live(q.id) -> want[q.id]
                                                         [] InHand(q.id, g) /\ Live(q.id) -> Unsure
                                                         [] OTHER -> Wanted(row)]
                     /\ UNCHANGED turns
           \/ Slip /\ UNCHANGED <<feed, want>>
        /\ Set(g, Resting)
        /\ UNCHANGED <<sub, found, held, told, untold>>

\* Mutant: the subscriptions of the source stay.
MutantNoCascade(f) ==
    /\ Live(f)
    /\ feed' = [feed EXCEPT ![f] = [NoFeed EXCEPT !.state = "gone"]]
    /\ found' = found \ {f}
    /\ told' = {t \in told : t[1] # f}
    /\ want' = [want EXCEPT ![f] = IF InHand(f, 0) THEN Unsure ELSE Wanted(NoFeed)]
    /\ UNCHANGED <<sub, held, job, untold>>

DeleteSource(f) ==
    /\ Live(f)
    /\ feed' = [feed EXCEPT ![f] = [NoFeed EXCEPT !.state = "gone"]]
    /\ sub' = [s \in Subs |-> IF sub[s].feed = f THEN [NoSub EXCEPT !.state = "gone"] ELSE sub[s]]
    /\ found' = found \ {f}
    /\ told' = {t \in told : t[1] # f}    \* ids are not used again
    /\ want' = [want EXCEPT ![f] = IF InHand(f, 0) THEN Unsure ELSE Wanted(NoFeed)]
    /\ UNCHANGED <<held, job, untold>>

-----------------------------------------------------------------------------
(* refreshSourceEntity, from RefreshSource, RefreshAllSources and the worker *)

\* The rows a loop has listed; their next_refresh_at is set anew before it is used.
ListOf(set) == [f \in Feeds |-> IF f \in set THEN [feed[f] EXCEPT !.due = FALSE] ELSE NoFeed]

\* The loop goes on, or has ended.
Going(q) == IF q.todo = {} THEN Resting ELSE [q EXCEPT !.pc = "next", !.id = 0, !.row = NoFeed]

RefreshThese(g, set) ==
    /\ Doing(g, "idle")
    /\ Set(g, Going([Resting EXCEPT !.todo = set, !.list = ListOf(set)]))
    /\ UNCHANGED <<feed, sub, found, held, told, want, untold>>

RefreshSource(g, f) == Live(f) /\ RefreshThese(g, {f})

RefreshAllSources(g) == RefreshThese(g, {f \in Feeds : Live(f) /\ feed[f].on})

sourceRefreshDue(row) == row.on /\ row.due

RefreshDueSources ==
    RefreshThese(Refresher, {f \in Feeds : Live(f) /\ sourceRefreshDue(feed[f])})

\* The next source of the list; its lock is tried, and passed over when taken.
NextSource(g) ==
    LET q == job[g]
        f == CHOOSE f \in q.todo : \A h \in q.todo : h <= f    \* created_at desc
        rest == [q EXCEPT !.todo = q.todo \ {f}, !.list = [q.list EXCEPT ![f] = NoFeed]]
    IN  /\ Doing(g, "next")
        /\ \/ held[f] # 0 /\ Set(g, Going(rest)) /\ UNCHANGED held
           \/ /\ held[f] = 0
              /\ held' = [held EXCEPT ![f] = g]
              /\ Set(g, [rest EXCEPT !.pc = "fetch", !.id = f, !.row = q.list[f]])
        /\ UNCHANGED <<feed, sub, found, told, turns, want, untold>>

Unlocked(g) == held' = [held EXCEPT ![job[g].id] = 0] /\ Set(g, Going(job[g]))

\* Mutant: the health before is asked for after the failure was counted.
MutantHealthAfter(before, row) == HealthFor(row.fails) # "ok" /\ HealthFor(row.fails) # HealthFor(row.fails)

\* notifyRSSSourceFailure tells of a health that is new and not ok.
News(before, row) == HealthFor(row.fails) # "ok" /\ HealthFor(row.fails) # HealthFor(before.fails)

\* Fetch fails: whether the row can be written makes no difference.
FetchFails(g) ==
    LET q == job[g]
        row == FailedOnce(q.row)
    IN  /\ Doing(g, "fetch") /\ q.row.url \in Flaky
        /\ \/ UpdateSource(q.id, row) /\ UNCHANGED turns
           \/ Slip /\ UNCHANGED feed
        /\ \/ /\ News(q.row, row)
              /\ Set(g, [q EXCEPT !.pc = "notify", !.row = [NoFeed EXCEPT !.fails = row.fails]])
              /\ UNCHANGED held
           \/ ~ News(q.row, row) /\ Unlocked(g)
        /\ UNCHANGED <<sub, found, told, want, untold>>

NotifyFailure(g) ==
    LET q == job[g]
    IN  /\ Doing(g, "notify")
        /\ \/ told' = told \cup {<<q.id, HealthFor(q.row.fails)>>} /\ UNCHANGED <<turns, untold>>
           \/ Slip /\ untold' = untold \cup {q.id} /\ UNCHANGED told
        /\ Unlocked(g)
        /\ UNCHANGED <<feed, sub, found, want>>

\* Fetch brings items, upsertFetchedItem puts them in, and the row is written, in
\* one step: what an edit does in between it does before, and a deletion in
\* between takes the items with it.  An error of the database ends the refresh
\* before or after the items.
FetchItems(g) ==
    LET q == job[g]
    IN  /\ Doing(g, "fetch")
        /\ \/ UpdateSource(q.id, Succeeded(q.row)) /\ found' = found \cup {q.id} /\ UNCHANGED turns
           \/ Slip /\ found' \in {found, found \cup {q.id}} /\ UNCHANGED feed
        /\ Unlocked(g)
        /\ UNCHANGED <<sub, told, want, untold>>

-----------------------------------------------------------------------------
(* Requests about subscriptions *)

\* CreateSubscription and UpdateSubscription find the source, the second and
\* CloneSubscription the row too; the checks of the request follow.
SubStart(g, s, row) ==
    /\ Doing(g, "idle")
    /\ Set(g, [Resting EXCEPT !.pc = "subWrite", !.sid = s, !.srow = row])
    /\ UNCHANGED <<feed, sub, found, held, told, want, untold>>

CreateSubscription(g, f) == Live(f) /\ SubStart(g, 0, [state |-> "live", feed |-> f])

UpdateSubscription(g, s, f) ==
    LiveSub(s) /\ Live(f) /\ SubStart(g, s, [sub[s] EXCEPT !.feed = f])

CloneSubscription(g, s) == LiveSub(s) /\ SubStart(g, 0, sub[s])

DeleteSubscription(s) ==
    /\ LiveSub(s)
    /\ sub' = [sub EXCEPT ![s] = [NoSub EXCEPT !.state = "gone"]]
    /\ UNCHANGED <<feed, found, held, job, told, want, untold>>

\* BatchUpdateSubscriptionState goes through its ids, one row after another.
BatchStart(g, set) ==
    /\ Doing(g, "idle") /\ set # {}
    /\ Set(g, [Resting EXCEPT !.pc = "batch", !.subs = set])
    /\ UNCHANGED <<feed, sub, found, held, told, want, untold>>

BatchNext(g) ==
    LET q == job[g]
    IN  /\ Doing(g, "batch")
        /\ \/ \E s \in q.subs :
                 Set(g, IF LiveSub(s)
                        THEN [q EXCEPT !.pc = "subWrite", !.subs = q.subs \ {s}, !.sid = s,
                                       !.srow = sub[s]]
                        ELSE [q EXCEPT !.subs = q.subs \ {s}])
           \/ q.subs = {} /\ Set(g, Resting)
        /\ UNCHANGED <<feed, sub, found, held, told, turns, want, untold>>

\* What goes on after a row was written: a batch, an import, or nothing
AfterRow(q) ==
    LET rest == [q EXCEPT !.sid = 0, !.srow = NoSub]
    IN  CASE q.subs # {} -> [rest EXCEPT !.pc = "batch"]
          [] q.subs = {} /\ q.subsOf # {} -> [rest EXCEPT !.pc = "importSub"]
          [] OTHER -> Resting

\* The repository's CreateSubscription, or UpdateSubscription of a row still there
SubWrite(g) ==
    LET q == job[g]
    IN  /\ Doing(g, "subWrite")
        /\ \/ q.sid = 0 /\ UnusedSubs # {} /\ sub' = [sub EXCEPT ![NextSub] = q.srow] /\ UNCHANGED turns
           \/ q.sid = 0 /\ UnusedSubs = {} /\ UNCHANGED <<sub, turns>>     \* bound: no more ids
           \/ q.sid # 0 /\ LiveSub(q.sid) /\ sub' = [sub EXCEPT ![q.sid] = q.srow] /\ UNCHANGED turns
           \/ q.sid # 0 /\ ~ LiveSub(q.sid) /\ UNCHANGED <<sub, turns>>
           \/ Slip /\ UNCHANGED sub
        /\ Set(g, AfterRow(q))
        /\ UNCHANGED <<feed, found, held, told, want, untold>>

-----------------------------------------------------------------------------
(* ImportConfig: sources are found by their url or made, then subscriptions *)

\* sourceByURL, from the caller's sources; of two with one url the one listed
\* last counts, which is the oldest.
KnownSources ==
    [u \in Urls |->
        LET these == {f \in Feeds : Live(f) /\ feed[f].url = u}
        IN  IF these = {} THEN 0 ELSE CHOOSE f \in these : \A g \in these : f <= g]

Used(q) == [q EXCEPT !.known = [u \in Urls |-> IF u \in q.urls \cup q.subsOf THEN q.known[u] ELSE 0]]

ImportStart(g, document) ==
    /\ Doing(g, "idle")
    /\ Set(g, Used([Resting EXCEPT !.pc = "importSource", !.urls = document.urls,
                                   !.subsOf = document.subsOf, !.known = KnownSources]))
    /\ UNCHANGED <<feed, sub, found, held, told, want, untold>>

ImportSource(g) ==
    LET q == job[g]
    IN  /\ Doing(g, "importSource")
        /\ \/ /\ q.urls = {} /\ Set(g, [q EXCEPT !.pc = "importSub"])
              /\ UNCHANGED <<feed, want, turns>>
           \/ \E u \in q.urls :
                 LET rest == [q EXCEPT !.urls = q.urls \ {u}]
                 IN  \/ q.known[u] # 0 /\ Set(g, Used(rest)) /\ UNCHANGED <<feed, want, turns>>
                     \/ /\ q.known[u] = 0 /\ \E on \in BOOLEAN : InsertFeed(NewRow(u, on))
                        /\ Set(g, Used([rest EXCEPT !.known[u] = NextFeed])) /\ UNCHANGED turns
                     \/ /\ q.known[u] = 0 /\ UnusedFeeds = {}             \* bound: no more ids
                        /\ Set(g, rest) /\ UNCHANGED <<feed, want, turns>>
                     \/ q.known[u] = 0 /\ Slip /\ Set(g, rest) /\ UNCHANGED <<feed, want>>
        /\ UNCHANGED <<sub, found, held, told, untold>>

\* A subscription whose source is not known, or that does not pass the checks,
\* is an error of its own.
ImportSub(g) ==
    LET q == job[g]
    IN  /\ Doing(g, "importSub")
        /\ \/ q.subsOf = {} /\ Set(g, Resting)
           \/ \E u \in q.subsOf :
                 LET rest == [q EXCEPT !.subsOf = q.subsOf \ {u}]
                 IN  \/ Set(g, Used(rest))
                     \/ /\ q.known[u] # 0
                        /\ Set(g, Used([rest EXCEPT !.pc = "subWrite",
                                                    !.srow = [state |-> "live", feed |-> q.known[u]]]))
        /\ UNCHANGED <<feed, sub, found, held, told, turns, want, untold>>

-----------------------------------------------------------------------------
(* Time and the process *)

\* next_refresh_at passes, in the row and in the copy of an edit, the only one
\* that is written back with it.
FeedElapse(f) ==
    /\ Live(f) /\ ~ feed[f].due
    /\ feed' = [feed EXCEPT ![f].due = TRUE]
    /\ job' = [g \in Goroutines |->
                  IF Doing(g, "edit") /\ job[g].id = f THEN [job[g] EXCEPT !.row.due = TRUE] ELSE job[g]]
    /\ UNCHANGED <<sub, found, held, told, turns, want, untold>>

Restart ==
    /\ Slip
    /\ untold' = untold \cup {job[g].id : g \in {g \in Goroutines : Doing(g, "notify")}}
    /\ job' = [g \in Goroutines |-> Resting]
    /\ held' = [f \in Feeds |-> 0]
    /\ UNCHANGED <<feed, sub, found, told, want>>

Request(g) ==
    /\ turns > 0 /\ turns' = turns - 1
    /\ \/ \E u \in Urls, on \in BOOLEAN : CreateSource(u, on)
       \/ \E f \in Feeds : EditStart(g, f) \/ DeleteSource(f) \/ RefreshSource(g, f)
       \/ RefreshAllSources(g)
       \/ \E f \in Feeds : CreateSubscription(g, f) \/ \E s \in Subs : UpdateSubscription(g, s, f)
       \/ \E s \in Subs : CloneSubscription(g, s) \/ DeleteSubscription(s)
       \/ \E set \in SUBSET Subs : BatchStart(g, set)
       \/ \E document \in Documents : ImportStart(g, document)

FeedStep(g) ==
    \/ EditWrite(g) \/ NextSource(g) \/ FetchFails(g) \/ NotifyFailure(g)
    \/ FetchItems(g)
    \/ BatchNext(g) \/ SubWrite(g) \/ ImportSource(g) \/ ImportSub(g)

\* The worker's ticker
FeedTick == RefreshDueSources /\ UNCHANGED turns

FeedsNext ==
    \/ \E g \in Callers : Request(g)
    \/ \E g \in Goroutines : FeedStep(g)
    \/ FeedTick
    \/ \E f \in Feeds : FeedElapse(f)
    \/ Restart

-----------------------------------------------------------------------------
(* Properties *)

\* A source has the url and the switch that a request last gave it, and a deleted
\* one leaves no subscription or item behind, unless another goroutine had read
\* it before the request wrote: only such a refresh, edit or import writes its
\* old copy, or a row below the source, afterwards.
ConfigKept ==
    /\ FeedsTypeOK
    /\ \A f \in {f \in Feeds : want[f].sure} :
        /\ Live(f) => Wanted(feed[f]) = want[f]
        /\ feed[f].state = "gone" => f \notin found /\ \A s \in Subs : LiveSub(s) => sub[s].feed # f

\* A source in worse health has been told of, in that health, whatever copies of
\* its row were counted and written in between; only an error of the notification
\* itself, or a restart just before it, loses one (notifyRSSSourceFailure comes
\* after the write).
WorseHealthTold ==
    \A f \in Feeds \ untold :
        LET health == HealthFor(feed[f].fails)
        IN  (Live(f) /\ health # "ok") =>
                \/ <<f, health>> \in told
                \/ \E g \in Goroutines : Doing(g, "notify") /\ job[g].id = f /\ HealthFor(job[g].row.fails) = health
=============================================================================
