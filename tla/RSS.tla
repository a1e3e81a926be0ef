--------------------------------- MODULE RSS ---------------------------------
(***************************************************************************)
(* The RSS service: the items of a source (RSSItem) and the sources and    *)
(* subscriptions (RSSFeeds).  A behaviour is about one of the two: what an *)
(* edit or a refresh of the source means for its items is in RSSItem       *)
(* already, as what a refresh brings and whether a subscription matches    *)
(* are open there.                                                         *)
(***************************************************************************)
EXTENDS RSSItem, RSSFeeds

CONSTANTS Parts    \* "items", "feeds"

ASSUME RSSPartsAssumption == Parts \subseteq {"items", "feeds"}

VARIABLE part

all == <<vars, feedVars, part>>

RSSInit == Init /\ FeedsInit /\ part \in Parts

OfItems(A) == part = "items" /\ A /\ UNCHANGED <<feedVars, part>>
OfFeeds(A) == part = "feeds" /\ A /\ UNCHANGED <<vars, part>>

RSSNext == OfItems(Next) \/ OfFeeds(FeedsNext)

\* The goroutines that work on items go on, the retry worker's ticker fires, and
\* time passes.
RSSSpec ==
    /\ RSSInit /\ [][RSSNext]_all
    /\ \A a \in Actors : WF_all(OfItems(Step(a)))
    /\ WF_all(OfItems(CycleStart(Worker) /\ UNCHANGED asks))
    /\ \A i \in Items : WF_all(OfItems(Elapse(i) /\ UNCHANGED asks))
=============================================================================
