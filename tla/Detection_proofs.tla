-------------------------- MODULE Detection_proofs --------------------------
(***************************************************************************)
(* Proofs about Detection and the discovery it rests on, for any           *)
(* catalogue, groups, page size, budget, books and fee.                    *)
(***************************************************************************)
EXTENDS Detection, NumberLemmas

(* What discover_markets() has read is known and, once it is over, fixed.  *)
DiscoveryType ==
  /\ source \in Sources
  /\ phase \in {"sampling", "markets", "done"}
  /\ listed \in 0 .. Len(Catalogue)
  /\ page \in Nat
  /\ extracted \in SUBSET MarketIds
  /\ watched \in SUBSET MarketIds

Grouped(markets, n) == {m \in markets : Position(m) =< n /\ GroupOf[m] # NoGroup}

(* _discover_neg_risk() has counted every leg of the pages it has read,    *)
(* and these pages hold the oldest markets there are.                      *)
PagesRead ==
  source = "neg_risk" /\ phase # "done" =>
    /\ phase = "markets"
    /\ page * PageSize =< listed
    /\ seen = Grouped(Listing, page * PageSize)
    /\ extracted \in SUBSET seen

(* It watches a group as a whole or not at all. *)
WholeGroupsWatched ==
  source = "neg_risk" /\ phase = "done" =>
    \A g \in Groups : Legs(g, watched) \in {{}, Legs(g, members)}

(* A row of motor 3 has an ask for every watched leg of its group.         *)
StoredWindows ==
  \A k \in Keys : stored[k] # None =>
    /\ phase = "done"
    /\ stored[k].asks \in [Legs(k[1], watched) -> 1 .. 99]
    /\ Cardinality(Legs(k[1], watched)) >= MinLegs
    /\ SetEdge(k[2], stored[k].asks, FeeBps) > 0

-----------------------------------------------------------------------------
(* The catalogue.                                                          *)

LEMMA Parameters ==
  /\ Len(Catalogue) \in Nat /\ DOMAIN Catalogue = 1 .. Len(Catalogue)
  /\ PageSize \in Nat \ {0} /\ MinLegs \in Nat /\ MinLegs >= 2
  /\ Listed0 \in 0 .. Len(Catalogue)
  /\ Rewarded \in SUBSET MarketIds /\ Wanted \in SUBSET MarketIds
BY CatalogueAssumption, DiscoveryAssumption DEF CatalogueAssumption, DiscoveryAssumption

LEMMA PositionOf ==
  /\ \A i \in DOMAIN Catalogue : Position(Catalogue[i]) = i
  /\ \A m \in MarketIds : Position(m) \in 1 .. Len(Catalogue) /\ Catalogue[Position(m)] = m
<1>1. ASSUME NEW i \in DOMAIN Catalogue PROVE Position(Catalogue[i]) = i
  BY CatalogueAssumption DEF CatalogueAssumption, Position
<1>2. ASSUME NEW m \in MarketIds PROVE Position(m) \in 1 .. Len(Catalogue) /\ Catalogue[Position(m)] = m
  <2>1. PICK i \in DOMAIN Catalogue : m = Catalogue[i]
    BY DEF MarketIds
  <2> QED BY <1>1, <2>1, Parameters
<1> QED BY <1>1, <1>2

(* The first n markets of the catalogue. *)
LEMMA Prefix ==
  ASSUME NEW n \in 0 .. Len(Catalogue)
  PROVE  LET P == {Catalogue[i] : i \in 1 .. n}
         IN  /\ P \in SUBSET MarketIds
             /\ P = {m \in MarketIds : Position(m) =< n}
             /\ IsFiniteSet(P)
             /\ Cardinality(P) = n
<1> DEFINE P == {Catalogue[i] : i \in 1 .. n}
           f == [i \in 1 .. n |-> Catalogue[i]]
<1>1. 1 .. n \subseteq DOMAIN Catalogue
  BY Parameters
<1>2. P \in SUBSET MarketIds
  BY <1>1 DEF MarketIds
<1>3. P = {m \in MarketIds : Position(m) =< n}
  <2>1. ASSUME NEW m \in P PROVE Position(m) =< n
    BY <1>1, PositionOf
  <2>2. ASSUME NEW m \in MarketIds, Position(m) =< n PROVE m \in P
    <3>1. Position(m) \in 1 .. n /\ Catalogue[Position(m)] = m
      BY <2>2, PositionOf
    <3> QED BY <3>1
  <2> QED BY <1>2, <2>1, <2>2
<1>4. f \in Bijection(1 .. n, P)
  <2>1. f \in [1 .. n -> P] /\ \A t \in P : \E i \in 1 .. n : f[i] = t
    OBVIOUS
  <2>2. \A i, j \in 1 .. n : f[i] = f[j] => i = j
    BY <1>1, PositionOf
  <2> QED BY <2>1, <2>2 DEF Bijection, Injection, Surjection, IsInjective
<1>5. ExistsBijection(1 .. n, P)
  BY <1>4 DEF ExistsBijection
<1>6. IsFiniteSet(1 .. n) /\ Cardinality(1 .. n) = n
  BY FS_Interval, Parameters
<1>7. IsFiniteSet(P) /\ Cardinality(P) = n
  BY <1>5, <1>6, FS_Bijection
<1> QED BY <1>2, <1>3, <1>7

LEMMA MarketsAreFinite ==
  IsFiniteSet(MarketIds) /\ \A M \in SUBSET MarketIds : IsFiniteSet(M) /\ Cardinality(M) \in Nat
<1>1. Len(Catalogue) \in 0 .. Len(Catalogue)
  BY Parameters
<1>2. MarketIds = {Catalogue[i] : i \in 1 .. Len(Catalogue)}
  BY Parameters DEF MarketIds
<1> QED BY <1>1, <1>2, Prefix, FS_Subset, FS_CardinalityType

LEMMA ListingOf ==
  ASSUME listed \in 0 .. Len(Catalogue)
  PROVE  /\ Listing = {m \in MarketIds : Position(m) =< listed}
         /\ Listing \in SUBSET MarketIds
         /\ Cardinality(Listing) = listed
BY Prefix DEF Listing

(* The n oldest of the listed markets are those with the first n positions. *)
LEMMA FirstOfListing ==
  ASSUME listed \in 0 .. Len(Catalogue), NEW n \in Nat
  PROVE  FirstOf(Listing, n) = {m \in Listing : Position(m) =< n}
<1>1. ASSUME NEW m \in Listing PROVE Cardinality(Before(m, Listing)) = Position(m) - 1
  <2>1. m \in MarketIds /\ Position(m) \in 1 .. Len(Catalogue) /\ Position(m) =< listed
    BY ListingOf, PositionOf
  <2> DEFINE k == Position(m) - 1
  <2>2. k \in 0 .. Len(Catalogue)
    BY <2>1, Parameters
  <2>3. Before(m, Listing) = {x \in MarketIds : Position(x) =< k}
    <3>1. \A x \in MarketIds : (Position(x) < Position(m)) <=> (Position(x) =< k)
      BY <2>1, PositionOf
    <3>2. \A x \in MarketIds : Position(x) < Position(m) => Position(x) =< listed
      BY <2>1, PositionOf, Parameters
    <3> QED BY <3>1, <3>2, ListingOf DEF Before
  <2>4. Cardinality({x \in MarketIds : Position(x) =< k}) = k
    <3> HIDE DEF k
    <3> QED BY <2>2, Prefix
  <2> QED BY <2>3, <2>4
<1>2. ASSUME NEW m \in Listing PROVE (Cardinality(Before(m, Listing)) < n) <=> (Position(m) =< n)
  <2>1. Position(m) \in Nat
    BY ListingOf, PositionOf, Parameters
  <2> QED BY <1>1, <2>1
<1> QED BY <1>2 DEF FirstOf

-----------------------------------------------------------------------------
(* A page of the neg-risk discovery.                                       *)

(* What has been counted after a page is every grouped market up to its end. *)
LEMMA CountedAfterPage ==
  ASSUME listed \in 0 .. Len(Catalogue), page \in Nat, seen = Grouped(Listing, page * PageSize)
  PROVE  seen \cup InGroup(Page(Listing)) = Grouped(Listing, (page + 1) * PageSize)
<1> DEFINE a == page * PageSize
           b == (page + 1) * PageSize
<1>1. a \in Nat /\ b \in Nat /\ a =< b
  BY Parameters
<1>2. Page(Listing) = {m \in Listing : Position(m) =< b} \ {m \in Listing : Position(m) =< a}
  BY <1>1, FirstOfListing DEF Page
<1>3. \A m \in Listing : Position(m) \in Nat
  BY ListingOf, PositionOf, Parameters
<1> HIDE DEF a, b
<1>4. seen = Grouped(Listing, a)
  BY DEF a
<1>5. Grouped(Listing, a) \cup InGroup(Page(Listing)) = Grouped(Listing, b)
  BY <1>1, <1>2, <1>3 DEF Grouped, InGroup
<1> QED BY <1>4, <1>5 DEF b

(* The groups that are kept have all the legs that were counted. *)
LEMMA KeptGroupsAreWhole ==
  ASSUME NEW raw \in SUBSET MarketIds, NEW taken \in SUBSET raw, NEW g \in Groups
  PROVE  Legs(g, WholeGroups(raw, taken)) \in {{}, Legs(g, raw)}
<1> DEFINE complete == {h \in Groups : Complete(h, raw, taken)}
           W == WholeGroups(raw, taken)
<1>1. PICK kept : kept \in SUBSET complete /\ W = UNION {Legs(h, taken) : h \in kept}
  <2> DEFINE upTo(h) == UNION {Legs(x, taken) : x \in {x \in complete : NotBefore(x, h, taken)}}
             K == {h \in complete : Cardinality(upTo(h)) =< MaxWatched}
  <2>1. W = UNION {Legs(h, taken) : h \in K}
    BY DEF WholeGroups
  <2>2. K \in SUBSET complete
    OBVIOUS
  <2> HIDE DEF K, W, complete
  <2> QED BY <2>1, <2>2
<1> HIDE DEF W
<1>2. W \in SUBSET taken
  BY <1>1 DEF Legs
<1>3. ASSUME NEW h \in kept PROVE Legs(h, taken) = Legs(h, raw)
  <2>1. Cardinality(Legs(h, taken)) = Cardinality(Legs(h, raw))
    BY <1>1, <1>3 DEF Complete
  <2>2. Legs(h, raw) \in SUBSET MarketIds /\ Legs(h, taken) \in SUBSET Legs(h, raw)
    BY DEF Legs
  <2>3. IsFiniteSet(Legs(h, raw))
    BY <2>2, MarketsAreFinite
  <2> QED BY <2>1, <2>2, <2>3, FS_Subset
<1>4. CASE g \in kept
  <2>1. Legs(g, W) = Legs(g, taken)
    BY <1>1, <1>2, <1>4 DEF Legs
  <2> QED BY <1>2, <1>3, <1>4, <2>1 DEF W
<1>5. CASE g \notin kept
  <2>1. Legs(g, W) = {}
    BY <1>1, <1>5 DEF Legs
  <2> QED BY <1>2, <2>1 DEF W
<1> QED BY <1>4, <1>5

-----------------------------------------------------------------------------
(* Discovery, step by step.                                                *)

LEMMA DiscoveryStarts ==
  ASSUME Init
  PROVE  DiscoveryType /\ PagesRead /\ WholeGroupsWatched
<1>1. /\ source \in Sources /\ phase = FirstPhase(source) /\ listed = Listed0 /\ page = 0
      /\ seen = {} /\ extracted = {} /\ watched = {}
  BY DEF Init, DiscoveryInit
<1>2. DiscoveryType
  BY <1>1, Parameters DEF DiscoveryType, FirstPhase
<1>3. Grouped(Listing, 0) = {}
  <2>1. \A m \in Listing : Position(m) \in 1 .. Len(Catalogue)
    BY <1>2, ListingOf, PositionOf DEF DiscoveryType
  <2> QED BY <2>1, Parameters DEF Grouped
<1>4. page * PageSize = 0
  BY <1>1, Parameters
<1>5. PagesRead
  BY <1>1, <1>2, <1>3, <1>4 DEF PagesRead, FirstPhase, DiscoveryType
<1>6. WholeGroupsWatched
  BY <1>1 DEF WholeGroupsWatched, FirstPhase
<1> QED BY <1>2, <1>5, <1>6

(* The catalogue grows behind what has been read. *)
LEMMA GrowthKeepsPages ==
  ASSUME DiscoveryType, PagesRead, WholeGroupsWatched, Appears
  PROVE  (DiscoveryType /\ PagesRead /\ WholeGroupsWatched)'
<1>1. /\ phase # "done" /\ listed < Len(Catalogue) /\ listed' = listed + 1
      /\ UNCHANGED <<source, phase, page, seen, extracted, watched>>
  BY DEF Appears
<1>2. listed' \in 0 .. Len(Catalogue)
  BY <1>1, Parameters DEF DiscoveryType
<1>3. DiscoveryType'
  BY <1>1, <1>2 DEF DiscoveryType
<1>4. ASSUME NEW n \in Nat, n =< listed PROVE Grouped(Listing, n)' = Grouped(Listing, n)
  <2>1. Listing = {m \in MarketIds : Position(m) =< listed}
    BY ListingOf DEF DiscoveryType
  <2>2. Listing' = {m \in MarketIds : Position(m) =< listed'}
    BY <1>2, Prefix DEF Listing
  <2>3. \A m \in MarketIds : Position(m) \in Nat
    BY PositionOf, Parameters
  <2> QED BY <1>1, <1>4, <2>1, <2>2, <2>3 DEF Grouped, DiscoveryType
<1>5. PagesRead'
  <2> SUFFICES ASSUME source = "neg_risk"
               PROVE  (/\ phase = "markets"
                       /\ page * PageSize =< listed
                       /\ seen = Grouped(Listing, page * PageSize)
                       /\ extracted \in SUBSET seen)'
    BY <1>1 DEF PagesRead
  <2>1. /\ phase = "markets" /\ page * PageSize =< listed
        /\ seen = Grouped(Listing, page * PageSize) /\ extracted \in SUBSET seen
    BY <1>1 DEF PagesRead
  <2> DEFINE n == page * PageSize
  <2>2. n \in Nat /\ n' = n
    BY <1>1, Parameters DEF DiscoveryType
  <2> HIDE DEF n
  <2>3. Grouped(Listing, n)' = Grouped(Listing, n)
    BY <1>4, <2>1, <2>2 DEF n
  <2>4. n' =< listed'
    BY <1>1, <2>1, <2>2 DEF n, DiscoveryType
  <2> QED BY <1>1, <2>1, <2>2, <2>3, <2>4 DEF n, Grouped
<1>6. WholeGroupsWatched'
  BY <1>1 DEF WholeGroupsWatched
<1> QED BY <1>3, <1>5, <1>6

(* The page that ends the catalogue, or one before it. *)
LEMMA PageKeepsPages ==
  ASSUME DiscoveryType, PagesRead, NegRiskPage
  PROVE  (DiscoveryType /\ PagesRead /\ WholeGroupsWatched)'
<1> DEFINE raw   == seen \cup InGroup(Page(Listing))
           taken == extracted \cup InGroup(Open(Page(Listing)))
           b     == (page + 1) * PageSize
<1>0. /\ source = "neg_risk" /\ phase = "markets" /\ page \in Nat /\ listed \in 0 .. Len(Catalogue)
      /\ seen = Grouped(Listing, page * PageSize) /\ extracted \in SUBSET seen
  BY DEF NegRiskPage, PagesRead, DiscoveryType
<1>1. raw = Grouped(Listing, b)
  BY <1>0, CountedAfterPage
<1>2. raw \in SUBSET MarketIds /\ taken \in SUBSET raw
  <2>1. raw \in SUBSET Listing /\ Listing \in SUBSET MarketIds
    BY <1>0, <1>1, ListingOf DEF Grouped
  <2>2. taken \in SUBSET raw
    BY <1>0 DEF InGroup, Open
  <2> QED BY <2>1, <2>2
<1>3. b \in Nat
  BY <1>0, Parameters
<1>4. LastPage(Listing) <=> b >= listed
  BY <1>0, ListingOf DEF LastPage
<1>5. \/ LastPage(Listing) /\ Ends(WholeGroups(raw, taken))
      \/ Ends({})
      \/ ~LastPage(Listing) /\ TurnsPage(raw, taken)
  BY DEF NegRiskPage
<1> HIDE DEF raw, taken, b
<1>6. CASE LastPage(Listing) /\ Ends(WholeGroups(raw, taken))
  <2>1. /\ phase' = "done" /\ page' = 0 /\ extracted' = {} /\ watched' = WholeGroups(raw, taken)
        /\ members' = Listing /\ UNCHANGED <<source, listed>>
    BY <1>6 DEF Ends
  <2>2. WholeGroups(raw, taken) \in SUBSET taken
    BY DEF WholeGroups, Legs
  <2>3. DiscoveryType'
    BY <1>2, <2>1, <2>2 DEF DiscoveryType
  <2>4. ASSUME NEW g \in Groups PROVE Legs(g, watched)' \in {{}, Legs(g, members)'}
    <3>1. Legs(g, raw) = Legs(g, Listing)
      <4>1. \A m \in Listing : Position(m) =< b
        BY <1>0, <1>3, <1>4, <1>6, ListingOf, PositionOf, Parameters
      <4>2. g # NoGroup
        BY DEF Groups
      <4> QED BY <1>1, <4>1, <4>2 DEF Grouped, Legs
    <3>2. Legs(g, WholeGroups(raw, taken)) \in {{}, Legs(g, raw)}
      BY <1>2, KeptGroupsAreWhole
    <3> QED BY <2>1, <3>1, <3>2 DEF Legs
  <2> QED BY <2>1, <2>3, <2>4 DEF PagesRead, WholeGroupsWatched
<1>7. CASE Ends({})
  <2>1. /\ phase' = "done" /\ page' = 0 /\ extracted' = {} /\ watched' = {}
        /\ UNCHANGED <<source, listed>>
    BY <1>7 DEF Ends
  <2>2. DiscoveryType'
    BY <2>1 DEF DiscoveryType
  <2>3. WholeGroupsWatched'
    BY <2>1 DEF WholeGroupsWatched, Legs
  <2> QED BY <2>1, <2>2, <2>3 DEF PagesRead
<1>8. CASE ~LastPage(Listing) /\ TurnsPage(raw, taken)
  <2>1. /\ page' = page + 1 /\ seen' = raw /\ extracted' = taken
        /\ UNCHANGED <<source, listed, phase, watched>>
    BY <1>8 DEF TurnsPage
  <2>2. DiscoveryType'
    BY <1>0, <1>2, <2>1 DEF DiscoveryType
  <2>3. Listing' = Listing /\ page' * PageSize = b
    BY <2>1 DEF Listing, b
  <2>4. b =< listed
    BY <1>0, <1>3, <1>4, <1>8, Parameters
  <2>5. PagesRead'
    BY <1>0, <1>1, <1>2, <2>1, <2>3, <2>4 DEF PagesRead, Grouped
  <2>6. WholeGroupsWatched'
    BY <1>0, <2>1 DEF WholeGroupsWatched
  <2> QED BY <2>2, <2>5, <2>6
<1> QED BY <1>5, <1>6, <1>7, <1>8

(* The other sources watch markets of the catalogue, in no whole groups. *)
LEMMA OtherPagesKeepTypes ==
  ASSUME DiscoveryType, LoadsWanted \/ SamplesPage \/ ExcludesPage \/ RecentPage
  PROVE  (DiscoveryType /\ PagesRead /\ WholeGroupsWatched)'
<1>0. /\ page \in Nat /\ listed \in 0 .. Len(Catalogue) /\ source # "neg_risk"
      /\ extracted \in SUBSET MarketIds /\ watched \in SUBSET MarketIds
      /\ source \in Sources /\ phase \in {"sampling", "markets", "done"}
  BY DEF DiscoveryType, LoadsWanted, SamplesPage, ExcludesPage, RecentPage
<1>1. Sampling \in SUBSET MarketIds /\ Listing \in SUBSET MarketIds
  BY <1>0, ListingOf DEF Sampling
<1>2. \A list, n : FirstOf(list, n) \in SUBSET list /\ LastOf(list, n) \in SUBSET list
  BY DEF FirstOf, LastOf
<1>3. Open(Page(Sampling)) \in SUBSET MarketIds /\ Open(Page(Listing)) \in SUBSET MarketIds
  BY <1>1, <1>2 DEF Page, Open
<1>4. ASSUME NEW markets \in SUBSET MarketIds, Ends(markets) PROVE DiscoveryType' /\ source' = source
  BY <1>0, <1>4 DEF Ends, DiscoveryType
<1>5. ASSUME NEW raw, NEW taken \in SUBSET MarketIds, TurnsPage(raw, taken)
      PROVE  DiscoveryType' /\ source' = source
  BY <1>0, <1>5 DEF TurnsPage, DiscoveryType
<1>6. CASE LoadsWanted
  <2>1. PICK loaded \in SUBSET (Wanted \ closed) : Ends(loaded)
    BY <1>6 DEF LoadsWanted
  <2>2. loaded \in SUBSET MarketIds
    BY Parameters
  <2>3. DiscoveryType' /\ source' = source
    BY <1>4, <2>1, <2>2
  <2> QED BY <1>0, <2>3 DEF PagesRead, WholeGroupsWatched
<1>7. CASE SamplesPage
  <2> DEFINE taken == extracted \cup Open(Page(Sampling))
  <2>1. taken \in SUBSET MarketIds
    BY <1>0, <1>3
  <2>2. Ends(FirstOf(taken, MaxWatched)) \/ TurnsPage(seen, taken)
    BY <1>7 DEF SamplesPage
  <2> HIDE DEF taken
  <2>3. FirstOf(taken, MaxWatched) \in SUBSET MarketIds
    BY <1>2, <2>1
  <2>4. DiscoveryType' /\ source' = source
    BY <1>4, <1>5, <2>1, <2>2, <2>3
  <2> QED BY <1>0, <2>4 DEF PagesRead, WholeGroupsWatched
<1>8. CASE ExcludesPage
  <2>1. UNCHANGED <<source, listed, extracted, watched>>
    BY <1>8 DEF ExcludesPage
  <2>2. page' \in Nat /\ phase' \in {"sampling", "markets", "done"}
    BY <1>0, <1>8 DEF ExcludesPage
  <2> QED BY <1>0, <2>1, <2>2 DEF DiscoveryType, PagesRead, WholeGroupsWatched
<1>9. CASE RecentPage
  <2> DEFINE taken == extracted \cup (Open(Page(Listing)) \ seen)
  <2>1. taken \in SUBSET MarketIds
    BY <1>0, <1>3
  <2>2. Ends(LastOf(taken, MaxWatched)) \/ TurnsPage(seen, taken)
    BY <1>9 DEF RecentPage
  <2> HIDE DEF taken
  <2>3. LastOf(taken, MaxWatched) \in SUBSET MarketIds
    BY <1>2, <2>1
  <2>4. DiscoveryType' /\ source' = source
    BY <1>4, <1>5, <2>1, <2>2, <2>3
  <2> QED BY <1>0, <2>4 DEF PagesRead, WholeGroupsWatched
<1> QED BY <1>6, <1>7, <1>8, <1>9

LEMMA DiscoveryKeepsPages ==
  ASSUME DiscoveryType, PagesRead, WholeGroupsWatched, DiscoveryNext
  PROVE  (DiscoveryType /\ PagesRead /\ WholeGroupsWatched)'
<1>1. ASSUME NEW m \in MarketIds, Closes(m) PROVE (DiscoveryType /\ PagesRead /\ WholeGroupsWatched)'
  <2>1. UNCHANGED <<source, listed, phase, page, seen, extracted, watched, members>>
    BY <1>1 DEF Closes
  <2> QED BY <2>1 DEF DiscoveryType, PagesRead, WholeGroupsWatched, Grouped, Listing, Legs
<1>2. CASE PageFails
  <2>1. /\ phase' = FirstPhase(source) /\ page' = 0 /\ seen' = {} /\ extracted' = {}
        /\ UNCHANGED <<source, listed, watched>>
    BY <1>2 DEF PageFails
  <2>2. DiscoveryType'
    BY <2>1 DEF DiscoveryType, FirstPhase
  <2>3. page' * PageSize = 0
    BY <2>1, Parameters
  <2>4. Grouped(Listing, 0)' = {}
    <3>1. \A m \in Listing : Position(m) \in 1 .. Len(Catalogue)
      BY ListingOf, PositionOf DEF DiscoveryType
    <3>2. Listing' = Listing
      BY <2>1 DEF Listing
    <3> QED BY <3>1, <3>2, Parameters DEF Grouped
  <2> QED BY <2>1, <2>2, <2>3, <2>4 DEF PagesRead, WholeGroupsWatched, FirstPhase, DiscoveryType, Grouped
<1> QED BY <1>1, <1>2, GrowthKeepsPages, OtherPagesKeepTypes, PageKeepsPages DEF DiscoveryNext

(* Discovery that is over stays over. *)
LEMMA DoneStays ==
  ASSUME phase = "done"
  PROVE  ~DiscoveryNext
BY DEF DiscoveryNext, Appears, Closes, PageFails, LoadsWanted, SamplesPage, ExcludesPage, RecentPage,
       NegRiskPage

-----------------------------------------------------------------------------
(* What the code rounds.                                                   *)

(* A rounded quotient is at most half above what it stands for. *)
LEMMA RoundedIsNear ==
  ASSUME NEW a \in Nat, NEW b \in Nat \ {0}
  PROVE  /\ Rounded(a, b) \in Nat
         /\ 2 * (b * Rounded(a, b)) =< 2 * a + b
<1> DEFINE down == a \div b
           rest == a % b
<1>1. down \in Nat /\ rest \in 0 .. b - 1 /\ a = b * down + rest
  <2>1. rest \in 0 .. b - 1 /\ a = b * down + rest
    BY Division
  <2>2. down \in Nat
    BY Quotient
  <2> QED BY <2>1, <2>2
<1>2. Rounded(a, b) \in {down, down + 1} /\ (Rounded(a, b) = down + 1 => 2 * rest >= b)
  <2>1. 2 * rest \in Int
    BY <1>1
  <2> HIDE DEF down, rest
  <2> QED BY <1>1, <2>1 DEF Rounded, down, rest
<1> HIDE DEF down, rest
<1>3. b * (down + 1) = b * down + b /\ b * down \in Nat
  BY <1>1
<1> QED BY <1>1, <1>2, <1>3

(* A loss is no positive percentage, however it is rounded. *)
LEMMA PercentageOfLoss ==
  ASSUME NEW a \in Int, NEW b \in Nat \ {0}
  PROVE  Percentage(a, b) \in Int /\ (a =< 0 => Percentage(a, b) =< 0)
<1> DEFINE units == (100 * a) \div b
           left  == 100 * ((100 * a) % b)
           more  == left \div b
           last  == Rounded(100 * (left % b), b)
<1>1. /\ units \in Int /\ (100 * a) % b \in 0 .. b - 1
      /\ 100 * a = b * units + ((100 * a) % b)
  <2> DEFINE h == 100 * a
  <2>1. h \in Int
    OBVIOUS
  <2> HIDE DEF h
  <2>2. h \div b \in Int /\ h % b \in 0 .. b - 1 /\ h = b * (h \div b) + (h % b)
    BY <2>1, Division
  <2> QED BY <2>2 DEF h
<1>2. left \in 0 .. 100 * (b - 1)
  BY <1>1
<1>3. more \in Nat /\ left % b \in 0 .. b - 1 /\ left = b * more + (left % b)
  <2>1. left \in Nat
    BY <1>2
  <2> HIDE DEF left
  <2>2. left % b \in 0 .. b - 1 /\ left = b * more + (left % b)
    BY <2>1, Division
  <2>3. more \in Nat
    BY <2>1, Quotient
  <2> QED BY <2>2, <2>3
<1>4. last \in Nat /\ 2 * (b * last) =< 200 * (left % b) + b
  BY <1>3, RoundedIsNear
<1>5. Percentage(a, b) = 10000 * units + 100 * more + last
  BY DEF Percentage, Percent
<1> DEFINE rest == left % b
           m == (100 * a) % b
<1> HIDE DEF units, more, last, rest
<1>6. more =< 99
  <2>1. b * more =< 100 * (b - 1)
    BY <1>2, <1>3 DEF rest
  <2> QED BY <1>3, <2>1
<1>7. last =< 100
  <2>1. 2 * (b * last) =< 200 * (b - 1) + b
    BY <1>3, <1>4 DEF rest
  <2>2. last >= 101 => b * last >= b * 101
    BY <1>4
  <2> QED BY <1>4, <2>1, <2>2
<1>8. CASE a < 0
  <2>1. units =< -1
    BY <1>1, <1>8
  <2> QED BY <1>1, <1>3, <1>4, <1>5, <1>6, <1>7, <2>1
<1>9. CASE a = 0
  <2>1. 100 * a = 0
    BY <1>9
  <2>2. units = 0 /\ (100 * a) % b = 0
    <3>1. 0 = b * units + m /\ m \in 0 .. b - 1 /\ units \in Int
      BY <1>1, <2>1 DEF m
    <3> HIDE DEF m
    <3>2. units >= 1 => b * units >= b
      BY <3>1
    <3>3. units =< -1 => b * units =< -b
      BY <3>1
    <3>4. units = 0
      BY <3>1, <3>2, <3>3
    <3> QED BY <3>1, <3>4 DEF m
  <2>3. left = 0
    BY <2>2
  <2>4. more = 0 /\ rest = 0
    BY <2>3 DEF more, rest
  <2>5. last = 0
    <3>1. last \in Nat /\ 2 * (b * last) =< b
      BY <1>4, <2>4 DEF rest
    <3>2. last >= 1 => b * last >= b
      BY <3>1
    <3> QED BY <3>1, <3>2
  <2> QED BY <1>5, <2>2, <2>4, <2>5
<1>10. Percentage(a, b) \in Int
  BY <1>1, <1>3, <1>4, <1>5
<1> QED BY <1>8, <1>9, <1>10

-----------------------------------------------------------------------------
(* What a set of legs costs.                                               *)

LEMMA MotorParameters ==
  /\ FeeBps \in Nat /\ MinSize \in Nat /\ MaxTrade \in Nat
  /\ MinEdge \in Nat /\ MinEdge >= 1 /\ MaxEdge \in Nat
BY DetectionAssumption DEF DetectionAssumption

LEMMA FeeIsNatural ==
  ASSUME NEW price \in 0 .. 99, NEW bps \in Nat
  PROVE  ClobFee(price, bps) \in Nat
<1> DEFINE side == IF price < 100 - price THEN price ELSE 100 - price
<1>1. side \in Nat
  OBVIOUS
<1> HIDE DEF side
<1>2. bps * side \in Nat
  BY <1>1
<1> QED BY <1>2 DEF ClobFee, side

(* The price, the fee and the slippage of every leg. *)
LEMMA LegCosts ==
  ASSUME NEW D \in SUBSET MarketIds, NEW asks \in [D -> 1 .. 99]
  PROVE  /\ SetCost(asks) \in Int /\ SetFees(asks, FeeBps) \in Int
         /\ Costs(asks) = SetCost(asks) + SetFees(asks, FeeBps)
         /\ D # {} => SetCost(asks) >= 1
<1> DEFINE f == [l \in D |-> Cent * asks[l]]
           g == [l \in D |-> ClobFee(asks[l], FeeBps) + Slippage]
           h == [l \in D |-> Cent * asks[l] + ClobFee(asks[l], FeeBps) + Slippage]
<1>1. IsFiniteSet(D)
  BY MarketsAreFinite
<1>2. ASSUME NEW l \in D
      PROVE  f[l] \in Int /\ f[l] >= 1 /\ g[l] \in Int /\ h[l] \in Int /\ h[l] = f[l] + g[l]
  <2>1. asks[l] \in 1 .. 99 /\ asks[l] \in 0 .. 99
    OBVIOUS
  <2>2. ClobFee(asks[l], FeeBps) \in Nat
    BY <2>1, MotorParameters, FeeIsNatural
  <2> QED BY <2>1, <2>2 DEF Slippage, Cent
<1>3. /\ SetCost(asks) = SumFunctionOnSet(f, D) /\ SetFees(asks, FeeBps) = SumFunctionOnSet(g, D)
      /\ Costs(asks) = SumFunctionOnSet(h, D)
  BY DEF SetCost, SetFees, Costs, SumFunction, SumFunctionOnSet, FoldFunction
<1> HIDE DEF f, g, h
<1>4. SetCost(asks) \in Int /\ SetFees(asks, FeeBps) \in Int
  BY <1>1, <1>2, <1>3, SumType
<1>5. Costs(asks) = SetCost(asks) + SetFees(asks, FeeBps)
  BY <1>1, <1>2, <1>3, SumAdd
<1>6. ASSUME D # {} PROVE SetCost(asks) >= 1
  <2>1. PICK l \in D : TRUE
    BY <1>6
  <2> DEFINE R == D \ {l}
             z == [m \in R |-> 0]
  <2>2. SumFunctionOnSet(f, D) = f[l] + SumFunctionOnSet(f, R)
    BY <1>1, <1>2, SumRemove
  <2>3. IsFiniteSet(R) /\ \A m \in R : z[m] \in Int /\ f[m] \in Int /\ z[m] =< f[m] /\ z[m] = 0
    BY <1>1, <1>2, FS_Subset
  <2> HIDE DEF z, R
  <2>4. SumFunctionOnSet(z, R) =< SumFunctionOnSet(f, R)
    BY <2>3, SumMonotone
  <2>5. SumFunctionOnSet(z, R) = 0
    BY <2>3, SumZero
  <2>6. SumFunctionOnSet(f, R) \in Int
    BY <2>3, SumType
  <2> QED BY <1>2, <1>3, <2>2, <2>4, <2>5, <2>6
<1> QED BY <1>4, <1>5, <1>6

(* A window has an ask on every watched leg and an edge.                   *)
LEMMA WindowHasEdge ==
  ASSUME NEW k \in Keys, NEW books \in Books, NEW approved, DiscoveryType,
         Window(k[1], k[2], books, approved) # None
  PROVE  LET w == Window(k[1], k[2], books, approved)
         IN  /\ w.asks \in [Legs(k[1], watched) -> 1 .. 99]
             /\ Cardinality(Legs(k[1], watched)) >= MinLegs
             /\ SetEdge(k[2], w.asks, FeeBps) > 0
<1> DEFINE D    == Legs(k[1], watched)
           asks == Quotes(k[1], k[2], books)
           edge == SetEdge(k[2], asks, FeeBps)
           cost == SetCost(asks)
<1>1. ~NoWindow(k[1], k[2], books) /\ Window(k[1], k[2], books, approved).asks = asks
  BY DEF Window
<1>2. D \in SUBSET MarketIds
  BY DEF Legs, DiscoveryType
<1>3. DOMAIN asks = D
  BY DEF Quotes
<1>4. Cardinality(D) >= MinLegs /\ (\A m \in D : asks[m] # 0) /\ ~(NetPct(k[2], asks, FeeBps) < Percent * MinEdge)
  <2>1. ~(Cardinality(D) < MinLegs) /\ (\A m \in D : asks[m] # 0) /\ ~(NetPct(k[2], asks, FeeBps) < Percent * MinEdge)
    <3> HIDE DEF D
    <3> QED BY <1>1, <1>3, Zenon DEF NoWindow
  <2>2. Cardinality(D) \in Nat
    BY <1>2, MarketsAreFinite
  <2> QED BY <2>1, <2>2, Parameters
<1>5. asks \in [D -> 1 .. 99]
  <2>1. ASSUME NEW m \in D PROVE asks[m] \in 0 .. 99
    <3>1. books[m] \in [yes : 0 .. 99, no : 0 .. 99, size : Nat]
      BY <1>2, DetectionAssumption DEF DetectionAssumption
    <3>2. books[m].yes \in 0 .. 99 /\ books[m].no \in 0 .. 99
      BY <3>1
    <3> QED BY <3>2 DEF Quotes
  <2>2. \A m \in D : asks[m] \in 1 .. 99
    BY <2>1, <1>4
  <2>3. asks = [m \in D |-> asks[m]]
    BY DEF Quotes
  <2> QED BY <2>2, <2>3
<1>6. D # {} /\ Cardinality(D) \in Nat
  BY <1>2, <1>4, MarketsAreFinite, Parameters, FS_EmptySet
<1>7. cost \in Int /\ cost >= 1 /\ SetFees(asks, FeeBps) \in Int
  BY <1>2, <1>5, <1>6, LegCosts
<1>8. edge \in Int
  <2>1. SetPayout(k[2], Cardinality(D)) \in Int
    BY <1>6 DEF SetPayout, Dollar
  <2> QED BY <1>3, <1>7, <2>1 DEF SetEdge
<1>9. ~(Percentage(edge, cost) < Percent * MinEdge)
  BY <1>4 DEF NetPct
<1> HIDE DEF edge, cost, asks, D
<1>10. edge > 0
  <2>1. Percent * MinEdge >= 1
    BY MotorParameters DEF Percent
  <2>2. cost \in Nat \ {0}
    BY <1>7
  <2>3. Percentage(edge, cost) \in Int /\ (edge =< 0 => Percentage(edge, cost) =< 0)
    BY <1>8, <2>2, PercentageOfLoss
  <2>4. Percent * MinEdge \in Int
    BY MotorParameters DEF Percent
  <2> QED BY <1>8, <1>9, <2>1, <2>3, <2>4
<1> QED BY <1>1, <1>4, <1>5, <1>10 DEF D, asks, edge

(* What a pair that is worth executing pays, costs and commits.            *)
LEMMA OpportunityHasEdge ==
  ASSUME NEW m \in watched, NEW books \in Books, NEW approved, DiscoveryType, HasPair(m, books),
         PairStatus(m, books, approved) = "shadow_recorded"
  PROVE  LET o    == Opportunity(m, books)
             left == Dollar - Cent * (o.yes + o.no) - ClobFee(o.yes, FeeBps) - ClobFee(o.no, FeeBps)
         IN  left > 0 /\ left - Slippage =< Percent * MaxEdge /\ 2 * o.size * (o.yes + o.no) =< 2 * MaxTrade + (o.yes + o.no)
<1> DEFINE yes  == books[m].yes
           no   == books[m].no
           edge == PairEdge(yes, no, FeeBps)
           most == Rounded(Cent * MaxTrade, Cent * (yes + no))
           size == SizeOf(books[m].size, Cent * (yes + no))
<1>1. books[m] \in [yes : 0 .. 99, no : 0 .. 99, size : Nat]
  BY DetectionAssumption DEF DetectionAssumption, DiscoveryType
<1>2. yes \in 0 .. 99 /\ no \in 0 .. 99 /\ books[m].size \in Nat
  BY <1>1
<1>3. ClobFee(yes, FeeBps) \in Nat /\ ClobFee(no, FeeBps) \in Nat
  BY <1>2, FeeIsNatural, MotorParameters
<1>4. edge >= Percent * MinEdge /\ yes # 0 /\ no # 0
  BY DEF HasPair
<1>5. ~(edge > Percent * MaxEdge)
  BY DEF PairStatus, StatusOf
<1> HIDE DEF yes, no
<1>6. /\ edge = Dollar - Cent * (yes + no) - ClobFee(yes, FeeBps) - ClobFee(no, FeeBps) - Slippage
      /\ edge \in Int
  <2>1. edge = Dollar - Cent * (yes + no) - ClobFee(yes, FeeBps) - ClobFee(no, FeeBps) - Slippage
    BY DEF PairEdge
  <2> HIDE DEF edge
  <2> QED BY <1>2, <1>3, <2>1 DEF Dollar, Slippage, Cent, Percent
<1>7. 2 * size * (yes + no) =< 2 * MaxTrade + (yes + no)
  <2> DEFINE c == yes + no
  <2>1. c \in Nat \ {0} /\ Cent * c \in Nat \ {0} /\ Cent * MaxTrade \in Nat
    BY <1>2, <1>4, MotorParameters DEF Cent
  <2>2. most \in Nat /\ 2 * ((Cent * c) * most) =< 2 * (Cent * MaxTrade) + Cent * c
    <3> HIDE DEF c
    <3>1. LET r == Rounded(Cent * MaxTrade, Cent * c)
          IN  r \in Nat /\ 2 * ((Cent * c) * r) =< 2 * (Cent * MaxTrade) + Cent * c
      BY <2>1, RoundedIsNear
    <3> QED BY <3>1 DEF c
  <2>3. size \in Nat /\ size =< most
    <3> DEFINE S == {100 * books[m].size, most}
    <3>1. 100 * books[m].size \in Nat
      BY <1>2
    <3> HIDE DEF most
    <3>2. \E x \in S : \A y \in S : x =< y
      BY <2>2, <3>1
    <3>3. Min(S) \in S /\ \A y \in S : Min(S) =< y
      BY <3>2 DEF Min
    <3>4. size = Min(S)
      BY DEF SizeOf, most
    <3> QED BY <2>2, <3>1, <3>3, <3>4
  <2> HIDE DEF size, most, c
  <2>4. 2 * (c * most) =< 2 * MaxTrade + c
    <3>1. c * most \in Nat
      BY <2>1, <2>2
    <3>2. (Cent * c) * most = Cent * (c * most)
      BY <2>1, <2>2 DEF Cent
    <3> QED BY <2>1, <2>2, <3>1, <3>2, MotorParameters DEF Cent
  <2>5. c * size =< c * most
    BY <2>1, <2>2, <2>3
  <2>6. 2 * (c * size) =< 2 * MaxTrade + c
    BY <2>1, <2>2, <2>3, <2>4, <2>5, MotorParameters
  <2>7. 2 * size * c = 2 * (c * size)
    BY <2>1, <2>3
  <2>8. 2 * size * c =< 2 * MaxTrade + c
    BY <2>6, <2>7
  <2> QED BY <2>8 DEF c
<1>8. /\ Opportunity(m, books).yes = yes /\ Opportunity(m, books).no = no
      /\ Opportunity(m, books).size = size
  BY DEF Opportunity, yes, no
<1> HIDE DEF edge, size
<1> QED BY <1>2, <1>3, <1>4, <1>5, <1>6, <1>7, <1>8, MotorParameters DEF Dollar, Slippage, Cent, Percent

-----------------------------------------------------------------------------
(* The steps of the motors.                                                *)

LEMMA WindowsStayWhole ==
  ASSUME DiscoveryType, StoredWindows, [Next]_vars
  PROVE  StoredWindows'
<1>1. CASE DiscoveryNext /\ UNCHANGED motors
  <2>1. phase # "done" /\ stored' = stored
    BY <1>1, DoneStays DEF motors
  <2> QED BY <2>1 DEF StoredWindows
<1>2. ASSUME NEW books \in Books, NEW commits \in BOOLEAN, NEW approved,
             SetTick(books, approved, commits)
      PROVE  StoredWindows'
  <2> DEFINE windows == [k \in Keys |-> Window(k[1], k[2], books, k \in approved)]
  <2>1. /\ phase = "done" /\ phase' = phase /\ watched' = watched
        /\ \/ stored' = stored
           \/ stored' = [k \in Keys |-> IF k \in Fresh(windows) THEN windows[k] ELSE stored[k]]
    BY <1>2 DEF SetTick, discovery
  <2>2. ASSUME NEW k \in Keys, k \in Fresh(windows)
        PROVE  /\ windows[k].asks \in [Legs(k[1], watched) -> 1 .. 99]
               /\ Cardinality(Legs(k[1], watched)) >= MinLegs
               /\ SetEdge(k[2], windows[k].asks, FeeBps) > 0
    <3>1. windows[k] # None /\ windows[k] = Window(k[1], k[2], books, k \in approved)
      BY <2>2 DEF Fresh
    <3> QED BY <3>1, WindowHasEdge
  <2> HIDE DEF windows
  <2>3. ASSUME NEW k \in Keys, stored'[k] # None
        PROVE  stored'[k] = stored[k] \/ (k \in Fresh(windows) /\ stored'[k] = windows[k])
    BY <2>1
  <2> QED BY <2>1, <2>2, <2>3 DEF StoredWindows
<1>3. ASSUME UNCHANGED <<phase, watched, stored>> PROVE StoredWindows'
  BY <1>3 DEF StoredWindows
<1>4. ASSUME NEW books \in Books, NEW commits \in BOOLEAN, NEW approved,
             PairTick(books, approved, commits)
      PROVE  StoredWindows'
  BY <1>3, <1>4 DEF PairTick, discovery
<1>5. ASSUME NEW o \in opps, Executes(o) PROVE StoredWindows'
  BY <1>3, <1>5 DEF Executes, discovery
<1>6. CASE UNCHANGED vars
  BY <1>3, <1>6 DEF vars, discovery, motors
<1> QED BY <1>1, <1>2, <1>4, <1>5, <1>6 DEF Next

IInv == DiscoveryType /\ PagesRead /\ WholeGroupsWatched /\ StoredWindows

LEMMA IInvHolds == Spec => []IInv
<1>1. Init => IInv
  <2> SUFFICES ASSUME Init PROVE IInv
    OBVIOUS
  <2>1. StoredWindows
    BY DEF Init, StoredWindows
  <2> QED BY <2>1, DiscoveryStarts DEF IInv
<1>2. IInv /\ [Next]_vars => IInv'
  <2> SUFFICES ASSUME IInv, [Next]_vars PROVE IInv'
    OBVIOUS
  <2>1. DiscoveryNext \/ UNCHANGED discovery
    BY DEF Next, SetTick, PairTick, Executes, vars
  <2>2. (DiscoveryType /\ PagesRead /\ WholeGroupsWatched)'
    <3>1. CASE DiscoveryNext
      BY <3>1, DiscoveryKeepsPages DEF IInv
    <3>2. CASE UNCHANGED discovery
      BY <3>2 DEF IInv, discovery, DiscoveryType, PagesRead, WholeGroupsWatched, Grouped, Listing
    <3> QED BY <2>1, <3>1, <3>2
  <2> QED BY <2>2, WindowsStayWhole DEF IInv
<1> QED BY <1>1, <1>2, PTL DEF Spec

-----------------------------------------------------------------------------
(* Whichever outcome of its group wins, a window that motor 3 stored as a  *)
(* shadow trade from the neg-risk source pays more than it costs           *)
(* (RecordedIsArbitrage).                                                  *)
THEOREM RecordedIsArbitrageHolds == Spec => []RecordedIsArbitrage
<1>1. IInv => RecordedIsArbitrage
  <2> SUFFICES ASSUME IInv, NEW k \in Keys, source = "neg_risk", stored[k] # None,
                      NEW w \in Legs(k[1], members)
               PROVE  Pays(k, stored[k].asks, w) > Costs(stored[k].asks)
    BY DEF RecordedIsArbitrage
  <2> DEFINE D == Legs(k[1], watched)
             asks == stored[k].asks
             n == Cardinality(D)
  <2>1. /\ phase = "done" /\ asks \in [D -> 1 .. 99] /\ n >= MinLegs
        /\ SetEdge(k[2], asks, FeeBps) > 0
    BY DEF IInv, StoredWindows
  <2>2. D \in SUBSET MarketIds
    BY DEF IInv, DiscoveryType, Legs
  <2>3. IsFiniteSet(D) /\ n \in Nat /\ D # {}
    BY <2>1, <2>2, MarketsAreFinite, Parameters, FS_EmptySet
  <2>4. k[1] \in Groups /\ k[2] \in Directions
    BY DEF Keys
  <2>5. w \in D
    <3>1. D \in {{}, Legs(k[1], members)}
      BY <2>1, <2>4 DEF IInv, WholeGroupsWatched
    <3> QED BY <2>3, <3>1
  <2>6. /\ SetCost(asks) \in Int /\ SetFees(asks, FeeBps) \in Int
        /\ Costs(asks) = SetCost(asks) + SetFees(asks, FeeBps)
    BY <2>1, <2>2, LegCosts
  <2>7. DOMAIN asks = D
    BY <2>1
  <2> DEFINE paying == {m \in D : (m = w) <=> (k[2] = "buy_yes_all")}
  <2>8. Cardinality(paying) = IF k[2] = "buy_yes_all" THEN 1 ELSE n - 1
    <3>1. CASE k[2] = "buy_yes_all"
      <4>1. paying = {w}
        BY <2>5, <3>1
      <4> QED BY <3>1, <4>1, FS_Singleton
    <3>2. CASE k[2] # "buy_yes_all"
      <4>1. paying = D \ {w}
        BY <2>5, <3>2
      <4> QED BY <2>3, <2>5, <3>2, <4>1, FS_RemoveElement
    <3> QED BY <3>1, <3>2
  <2>9. Pays(k, asks, w) = Dollar * Cardinality(paying)
    BY <2>7 DEF Pays
  <2>10. SetEdge(k[2], asks, FeeBps) = SetPayout(k[2], n) - SetCost(asks) - SetFees(asks, FeeBps)
    BY <2>7 DEF SetEdge
  <2> HIDE DEF D, asks, n, paying
  <2>11. Pays(k, asks, w) = SetPayout(k[2], n) /\ SetPayout(k[2], n) \in Int
    BY <2>3, <2>8, <2>9 DEF SetPayout, Dollar
  <2> QED BY <2>1, <2>6, <2>10, <2>11 DEF asks
<1> QED BY <1>1, IInvHolds, PTL

(* A fingerprint in memory is that of the last row of its key, unless the  *)
(* commit that should have written it failed (RememberedIsStored).         *)
THEOREM RememberedIsStoredHolds == Spec => []RememberedIsStored
<1>1. Init => RememberedIsStored
  BY DEF Init, RememberedIsStored
<1>2. RememberedIsStored /\ [Next]_vars => RememberedIsStored'
  <2> SUFFICES ASSUME RememberedIsStored, [Next]_vars PROVE RememberedIsStored'
    OBVIOUS
  <2>1. ASSUME UNCHANGED <<remembered, stored, lost>> PROVE RememberedIsStored'
    BY <2>1 DEF RememberedIsStored
  <2>2. ASSUME NEW books \in Books, NEW commits \in BOOLEAN, NEW approved,
               SetTick(books, approved, commits)
        PROVE  RememberedIsStored'
    <3> DEFINE windows == [k \in Keys |-> Window(k[1], k[2], books, k \in approved)]
               fresh   == Fresh(windows)
    <3>1. /\ remembered' = [k \in Keys |-> IF k \in fresh THEN Fingerprint(windows[k])
                                            ELSE remembered[k]]
          /\ stored' = IF commits THEN [k \in Keys |-> IF k \in fresh THEN windows[k] ELSE stored[k]]
                       ELSE stored
          /\ lost' = IF commits THEN lost \ fresh ELSE lost \cup fresh
      BY <2>2, Zenon DEF SetTick, Remembers
    <3>2. \A k \in fresh : windows[k] # None
      BY DEF Fresh
    <3> HIDE DEF windows, fresh
    <3> SUFFICES ASSUME NEW k \in Keys, k \notin lost', remembered'[k] # None
                 PROVE  stored'[k] # None /\ remembered'[k] = Fingerprint(stored'[k])
      BY DEF RememberedIsStored, Fingerprint
    <3>3. CASE k \in fresh
      <4>1. commits
        BY <3>1, <3>3
      <4> QED BY <3>1, <3>2, <3>3, <4>1
    <3>4. CASE k \notin fresh
      <4>1. k \notin lost /\ remembered'[k] = remembered[k] /\ stored'[k] = stored[k]
        BY <3>1, <3>4
      <4> QED BY <4>1 DEF RememberedIsStored
    <3> QED BY <3>3, <3>4
  <2> QED BY <2>1, <2>2 DEF Next, PairTick, Executes, vars, motors
<1> QED BY <1>1, <1>2, PTL DEF Spec

(* What motor 1 goes on to execute was committed by its last tick, pays a  *)
(* dollar for less than a dollar with its fees and no more than the filter *)
(* believes, and exceeds the limit of a trade by no more than the rounding *)
(* of its size, half a hundredth of a pair (ExecutedWasRecorded).          *)
THEOREM ExecutedWasRecordedHolds == Spec => []ExecutedWasRecorded
<1>1. Init => ExecutedWasRecorded
  BY DEF Init, ExecutedWasRecorded
<1>2. IInv /\ ExecutedWasRecorded /\ [Next]_vars => ExecutedWasRecorded'
  <2> SUFFICES ASSUME IInv, ExecutedWasRecorded, [Next]_vars PROVE ExecutedWasRecorded'
    OBVIOUS
  <2>1. ASSUME opps' \subseteq opps, rows' = rows PROVE ExecutedWasRecorded'
    BY <2>1 DEF ExecutedWasRecorded
  <2>2. ASSUME NEW books \in Books, NEW commits \in BOOLEAN, NEW approved,
               PairTick(books, approved, commits)
        PROVE  ExecutedWasRecorded'
    <3> SUFFICES ASSUME NEW o \in opps'
                 PROVE  /\ o \in rows'
                        /\ LET left == Dollar - Cent * (o.yes + o.no) - ClobFee(o.yes, FeeBps)
                                         - ClobFee(o.no, FeeBps)
                           IN  left > 0 /\ left - Slippage =< Percent * MaxEdge
                        /\ 2 * o.size * (o.yes + o.no) =< 2 * MaxTrade + (o.yes + o.no)
      BY DEF ExecutedWasRecorded
    <3>1. commits /\ o \in Recorded(books, approved) /\ rows' = Recorded(books, approved)
      BY <2>2 DEF PairTick, ToExecute
    <3>2. PICK m \in watched : /\ o = Opportunity(m, books) /\ HasPair(m, books)
                               /\ PairStatus(m, books, m \in approved) = "shadow_recorded"
      BY <3>1 DEF Recorded
    <3>3. DiscoveryType
      BY DEF IInv
    <3> QED BY <3>1, <3>2, <3>3, OpportunityHasEdge
  <2>3. ASSUME NEW books \in Books, NEW commits \in BOOLEAN, NEW approved,
               SetTick(books, approved, commits)
        PROVE  ExecutedWasRecorded'
    BY <2>1, <2>3 DEF SetTick
  <2>4. ASSUME NEW o \in opps, Executes(o) PROVE ExecutedWasRecorded'
    BY <2>1, <2>4 DEF Executes
  <2>5. CASE UNCHANGED vars \/ UNCHANGED motors
    BY <2>1, <2>5 DEF vars, motors
  <2> QED BY <2>2, <2>3, <2>4, <2>5 DEF Next
<1> QED BY <1>1, <1>2, IInvHolds, PTL DEF Spec
====
