------------------------------ MODULE Discovery ------------------------------
(***************************************************************************)
(* discover_markets() of src/strategies/data_capture.py: which markets the *)
(* bot watches, read page by page from a catalogue that grows, and whose   *)
(* markets close, between two pages.  The neg-risk source must yield whole *)
(* groups: with a leg missing, the rest sums below a dollar by itself.     *)
(*                                                                         *)
(* The exchange appends new markets at the end ("paginacion por creacion", *)
(* which the code assumes): a cursor is an offset.  A list of markets is   *)
(* a set here, read in the order of the catalogue.                         *)
(***************************************************************************)
EXTENDS Integers, Sequences, FiniteSets

CONSTANTS
  Catalogue,   \* every market there will be, in the order they are created
  GroupOf,     \* neg_risk_market_id of a market, NoGroup for a plain one
  NoGroup,
  Rewarded,    \* markets of the sampling list
  Wanted,      \* watched_condition_ids
  PageSize,
  MaxPages,    \* DISCOVERY_MAX_PAGES
  MaxWatched,  \* MAX_WATCHED_MARKETS
  MinLegs,     \* MOTOR_3_MIN_LEGS
  Listed0,     \* markets listed when the model begins
  MaxClosures  \* bound: markets that close

MarketIds == {Catalogue[i] : i \in DOMAIN Catalogue}
Groups    == {GroupOf[m] : m \in MarketIds} \ {NoGroup}
Sources   == {"explicit", "sampling", "all_recent", "neg_risk"}

(* A market is created once. *)
ASSUME CatalogueAssumption ==
  /\ Catalogue \in Seq(MarketIds)
  /\ \A i, j \in DOMAIN Catalogue : Catalogue[i] = Catalogue[j] => i = j

ASSUME DiscoveryAssumption ==
  /\ GroupOf \in [MarketIds -> Groups \cup {NoGroup}]
  /\ {PageSize, MaxPages, MaxWatched} \subseteq Nat \ {0}
  /\ MinLegs \in Nat \ {0, 1}
  /\ Listed0 \in 0 .. Len(Catalogue) /\ MaxClosures \in Nat
  /\ Rewarded \subseteq MarketIds /\ Wanted \subseteq MarketIds

VARIABLES
  source,     \* MARKET_DISCOVERY_SOURCE, or explicit ids
  listed,     \* how many markets of the catalogue are listed
  closed,     \* markets that are closed
  phase,      \* of discover_markets(): sampling pages, market pages, or done
  page,       \* the page that is read next
  seen,       \* markets of a group (neg_risk) or of the sampling list (all_recent) read so far
  extracted,  \* markets that extract_binary_market() accepted so far
  watched,    \* self.watched
  members     \* history: markets listed when discovery ended

discovery == <<source, listed, closed, phase, page, seen, extracted, watched, members>>

Listing  == {Catalogue[i] : i \in 1 .. listed}
Sampling == Listing \cap Rewarded

FirstPhase(src) == IF src = "neg_risk" THEN "markets" ELSE "sampling"

DiscoveryInit ==
  /\ source \in Sources
  /\ listed = Listed0
  /\ closed = {}
  /\ phase = FirstPhase(source)
  /\ page = 0
  /\ seen = {}
  /\ extracted = {}
  /\ watched = {}
  /\ members = {}

-----------------------------------------------------------------------------
(* The exchange.  What it does when discovery is over changes nothing: the *)
(* watched markets are never chosen anew.                                  *)

Appears ==
  /\ phase # "done"
  /\ listed < Len(Catalogue)
  /\ listed' = listed + 1
  /\ UNCHANGED <<source, closed, phase, page, seen, extracted, watched, members>>

Closes(m) ==
  /\ phase # "done"
  /\ Cardinality(closed) < MaxClosures
  /\ m \in Listing \ closed
  /\ closed' = closed \cup {m}
  /\ UNCHANGED <<source, listed, phase, page, seen, extracted, watched, members>>

-----------------------------------------------------------------------------
(* Pages.                                                                  *)

Position(m) == CHOOSE i \in DOMAIN Catalogue : Catalogue[i] = m

Before(m, list) == {x \in list : Position(x) < Position(m)}
After(m, list)  == {x \in list : Position(x) > Position(m)}

FirstOf(list, n) == {m \in list : Cardinality(Before(m, list)) < n}
LastOf(list, n)  == {m \in list : Cardinality(After(m, list)) < n}

Page(list)     == FirstOf(list, (page + 1) * PageSize) \ FirstOf(list, page * PageSize)
LastPage(list) == (page + 1) * PageSize >= Cardinality(list)
CapReached     == page + 1 = MaxPages

(* extract_binary_market() refuses closed markets. *)
Open(list) == list \ closed

(* The lists of the pages are local. *)
Ends(markets) ==
  /\ phase' = "done"
  /\ page' = 0 /\ seen' = {} /\ extracted' = {}
  /\ watched' = markets
  /\ members' = Listing
  /\ UNCHANGED <<source, listed, closed>>

TurnsPage(raw, taken) ==
  /\ page' = page + 1 /\ seen' = raw /\ extracted' = taken
  /\ UNCHANGED <<source, listed, closed, phase, watched, members>>

(* A page that fails ends the service with an exception; the runner starts *)
(* a new one.                                                              *)
PageFails ==
  /\ phase # "done"
  /\ phase' = FirstPhase(source)
  /\ page' = 0
  /\ seen' = {}
  /\ extracted' = {}
  /\ UNCHANGED <<source, listed, closed, watched, members>>

(* An id that cannot be loaded is left out; MAX_WATCHED_MARKETS does not   *)
(* bound the ids.                                                          *)
LoadsWanted ==
  /\ source = "explicit"
  /\ phase = "sampling"
  /\ \E loaded \in SUBSET (Wanted \ closed) : Ends(loaded)

(* _discover_sampling(): no cap on pages, stops when it has enough. *)
SamplesPage ==
  LET taken == extracted \cup Open(Page(Sampling))
  IN  /\ source = "sampling"
      /\ phase = "sampling"
      /\ IF Cardinality(taken) >= MaxWatched \/ LastPage(Sampling)
         THEN Ends(FirstOf(taken, MaxWatched))
         ELSE TurnsPage(seen, taken)

(* _discover_all_recent(): the sampling list first, only to leave it out. *)
ExcludesPage ==
  /\ source = "all_recent"
  /\ phase = "sampling"
  /\ seen' = seen \cup Page(Sampling)
  /\ IF LastPage(Sampling) \/ CapReached
     THEN phase' = "markets" /\ page' = 0
     ELSE page' = page + 1 /\ UNCHANGED phase
  /\ UNCHANGED <<source, listed, closed, extracted, watched, members>>

RecentPage ==
  LET taken == extracted \cup (Open(Page(Listing)) \ seen)
  IN  /\ source = "all_recent"
      /\ phase = "markets"
      /\ IF LastPage(Listing) \/ CapReached
         THEN Ends(LastOf(taken, MaxWatched))
         ELSE TurnsPage(seen, taken)

-----------------------------------------------------------------------------
(* _discover_neg_risk().                                                   *)

Legs(g, markets) == {m \in markets : GroupOf[m] = g}

(* As many legs extracted as were seen, and enough of them. *)
Complete_AsExtracted(g, raw, markets) ==
  Cardinality(Legs(g, markets)) >= MinLegs

Complete(g, raw, markets) ==
  /\ Cardinality(Legs(g, markets)) = Cardinality(Legs(g, raw))
  /\ Cardinality(Legs(g, markets)) >= MinLegs

(* The first leg of g was not read before that of h. *)
NotBefore(g, h, markets) ==
  \A x \in Legs(g, markets) : \E y \in Legs(h, markets) : Position(y) =< Position(x)

(* Whole groups, the newest first, until one does not fit the budget.     *)
WholeGroups(raw, taken) ==
  LET complete == {g \in Groups : Complete(g, raw, taken)}
      upTo(g)  == UNION {Legs(h, taken) : h \in {h \in complete : NotBefore(h, g, taken)}}
  IN  UNION {Legs(g, taken) : g \in {g \in complete : Cardinality(upTo(g)) =< MaxWatched}}

InGroup(list) == {m \in list : GroupOf[m] # NoGroup}

(* Cut by the cap before the end, the whole discovery is thrown away. *)
NegRiskPage ==
  LET raw   == seen \cup InGroup(Page(Listing))
      taken == extracted \cup InGroup(Open(Page(Listing)))
  IN  /\ source = "neg_risk"
      /\ phase = "markets"
      /\ \/ LastPage(Listing) /\ Ends(WholeGroups(raw, taken))
         \/ ~LastPage(Listing) /\ CapReached /\ Ends({})
         \/ ~LastPage(Listing) /\ ~CapReached /\ TurnsPage(raw, taken)

DiscoveryNext ==
  \/ Appears
  \/ \E m \in MarketIds : Closes(m)
  \/ PageFails
  \/ LoadsWanted \/ SamplesPage \/ ExcludesPage \/ RecentPage \/ NegRiskPage

=============================================================================
