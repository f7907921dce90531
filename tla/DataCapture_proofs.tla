-------------------------- MODULE DataCapture_proofs --------------------------
(***************************************************************************)
(* Proofs about DataCapture and the books it owns, for any tokens, levels  *)
(* and size of the buffer, and any number of frames and connections.       *)
(***************************************************************************)
EXTENDS DataCapture, FiniteSetTheorems, SequenceTheorems, TLAPS

Books == [levels : SUBSET Levels, hash : SUBSET Levels, synced : BOOLEAN]

-----------------------------------------------------------------------------
LEMMA Parameters ==
  /\ IsFiniteSet(Tokens)
  /\ Levels # {}
  /\ MaxSent \in Nat /\ MaxConnections \in Nat
  /\ FlushAt \in Nat \ {0}
BY FeedAssumption, BufferAssumption DEF FeedAssumption, BufferAssumption

LEMMA ChangedType ==
  ASSUME NEW levels \in SUBSET Levels, NEW l \in Levels, NEW size
  PROVE  Changed(levels, l, size) \in SUBSET Levels
BY DEF Changed

LEMMA SnapshotType ==
  ASSUME FeedTypeOK, NEW t \in Tokens, NEW sound \in BOOLEAN
  PROVE  SnapshotOf(t, sound) \in Frame
<1>1. (CHOOSE l \in Levels : TRUE) \in Levels
  BY Parameters
<1> QED
  BY <1>1 DEF SnapshotOf, Frame, FeedTypeOK

LEMMA ProcessedType ==
  ASSUME FeedTypeOK, NEW f \in Frame
  PROVE  Processed(f) \in Books
<1>1. f.token \in Tokens /\ f.level \in Levels /\ f.hash \in SUBSET Levels
      /\ f.kind \in {"book", "change", "trade"}
  BY DEF Frame
<1>2. book[f.token] \in Books
  BY <1>1 DEF FeedTypeOK, Books
<1>3. CASE IsGap(f)
  BY <1>2, <1>3 DEF Processed, Books
<1>4. CASE ~IsGap(f) /\ f.kind = "book"
  BY <1>1, <1>2, <1>4 DEF Processed, ApplySnapshot, Books
<1>5. CASE ~IsGap(f) /\ f.kind = "change"
  <2>1. Changed(book[f.token].levels, f.level, f.size) \in SUBSET Levels
    BY <1>1, <1>2, ChangedType DEF Books
  <2> QED
    BY <1>1, <1>2, <1>5, <2>1 DEF Processed, ApplyPriceChange, Books
<1>6. CASE f.kind = "trade"
  BY <1>2, <1>6 DEF Processed, IsGap
<1> QED
  BY <1>1, <1>3, <1>4, <1>5, <1>6

LEMMA HalfProcessedType ==
  ASSUME FeedTypeOK, NEW f \in Frame, NEW b \in HalfProcessed(f)
  PROVE  /\ b \in Books
         /\ b.hash = book[f.token].hash /\ b.synced = book[f.token].synced
         /\ f.kind = "trade" => b = book[f.token]
<1>1. f.token \in Tokens
  BY DEF Frame
<1>2. book[f.token] \in Books /\ Processed(f) \in Books
  BY <1>1, ProcessedType DEF FeedTypeOK, Books
<1>3. PICK l \in SUBSET (book[f.token].levels \cup Processed(f).levels) :
        /\ book[f.token].levels \cap Processed(f).levels \subseteq l
        /\ b = [book[f.token] EXCEPT !.levels = l]
  BY DEF HalfProcessed
<1>4. l \in SUBSET Levels
  BY <1>2, <1>3 DEF Books
<1>5. b \in Books /\ b.hash = book[f.token].hash /\ b.synced = book[f.token].synced
      /\ b.levels = l
  BY <1>2, <1>3, <1>4 DEF Books
<1>6. ASSUME f.kind = "trade" PROVE b = book[f.token]
  <2>1. Processed(f) = book[f.token]
    BY <1>6 DEF Processed, IsGap
  <2>2. l = book[f.token].levels
    BY <1>3, <2>1
  <2> QED
    BY <1>2, <1>3, <2>2 DEF Books
<1> QED
  BY <1>5, <1>6

LEMMA ProcessEventType ==
  ASSUME FeedTypeOK, NEW f \in Frame, ProcessEvent(f)
  PROVE  /\ book' \in [Tokens -> Books]
         /\ gapTokens' \subseteq Tokens
         /\ torn' \subseteq Tokens
<1>1. f.token \in Tokens
  BY DEF Frame
<1>2. book \in [Tokens -> Books]
  BY DEF FeedTypeOK, Books
<1>3. CASE f.sound \/ IsGap(f)
  BY <1>1, <1>2, <1>3, ProcessedType DEF ProcessEvent, FeedTypeOK
<1>4. CASE ~(f.sound \/ IsGap(f))
  BY <1>1, <1>2, <1>4, HalfProcessedType DEF ProcessEvent, FeedTypeOK
<1> QED
  BY <1>3, <1>4

(* The wire of a new connection: one snapshot of each subscribed token. *)
LEMMA WsConnectsWire ==
  ASSUME FeedTypeOK, WsConnects
  PROVE  /\ wire' \in Seq(Frame)
         /\ \A i \in 1 .. Len(wire') : wire'[i].kind = "book" /\ wire'[i].token \in subscribed
                                       /\ wire'[i].hash = market[wire'[i].token]
         /\ \A t \in subscribed : \E i \in 1 .. Len(wire') : wire'[i].token = t
<1> DEFINE n == Cardinality(subscribed)
<1>1. IsFiniteSet(subscribed) /\ n \in Nat
  BY Parameters, FS_Subset, FS_CardinalityType DEF FeedTypeOK
<1>2. PICK order \in SetToSeqs(subscribed), sound \in [subscribed -> BOOLEAN] :
        wire' = [i \in 1 .. Len(order) |-> SnapshotOf(order[i], sound[order[i]])]
  BY DEF WsConnects
<1>3. /\ order \in [1 .. n -> subscribed]
      /\ \A i, j \in 1 .. n : i # j => order[i] # order[j]
  BY <1>2 DEF SetToSeqs
<1>4. Len(order) = n
  BY <1>1, <1>3
<1> HIDE DEF n
<1>5. wire' = [i \in 1 .. n |-> SnapshotOf(order[i], sound[order[i]])]
  BY <1>2, <1>4
<1>6. \A i \in 1 .. n : SnapshotOf(order[i], sound[order[i]]) \in Frame
  <2>1. TAKE i \in 1 .. n
  <2>2. order[i] \in Tokens
    BY <1>3 DEF FeedTypeOK
  <2>3. sound[order[i]] \in BOOLEAN
    BY <1>3
  <2> QED
    BY <2>2, <2>3, SnapshotType
<1>7. wire' \in Seq(Frame) /\ Len(wire') = n
  BY <1>1, <1>5, <1>6
<1>8. order \in Surjection(1 .. n, subscribed)
  <2>1. order \in Injection(1 .. n, subscribed)
    BY <1>3 DEF Injection, IsInjective
  <2>2. Cardinality(1 .. n) = n
    BY <1>1, FS_Interval
  <2>3. Cardinality(1 .. n) = Cardinality(subscribed)
    BY <2>2 DEF n
  <2> QED
    BY <1>1, <2>1, <2>3, FS_Injection
<1>9. \A t \in subscribed : \E i \in 1 .. n : order[i] = t
  BY <1>8 DEF Surjection
<1> QED
  BY <1>3, <1>5, <1>7, <1>9 DEF SnapshotOf

-----------------------------------------------------------------------------
LEMMA SendsType ==
  ASSUME FeedTypeOK, NEW f \in Frame, Sends(f)
  PROVE  FeedTypeOK'
<1>1. f.token \in Tokens /\ f.hash \in SUBSET Levels
  BY DEF Frame
<1>2. sent' \in 0 .. MaxSent
  BY Parameters DEF FeedTypeOK, Sends
<1>3. wire' \in Seq(Frame)
  BY DEF FeedTypeOK, Sends
<1>4. market' \in [Tokens -> SUBSET Levels]
  BY <1>1 DEF FeedTypeOK, Sends
<1> QED
  BY <1>2, <1>3, <1>4 DEF FeedTypeOK, Sends

LEMMA ExchangeChangesSends ==
  ASSUME FeedTypeOK, ExchangeChanges
  PROVE  \E f \in Frame : /\ Sends(f) /\ f.kind = "change"
                          /\ f.hash = Changed(market[f.token], f.level, f.size)
<1>1. PICK t \in Tokens, l \in Levels, size \in {0, 1}, sound \in BOOLEAN :
        Sends([kind |-> "change", token |-> t, level |-> l, size |-> size,
               hash |-> Changed(market[t], l, size), sound |-> sound])
  BY DEF ExchangeChanges
<1> DEFINE f == [kind |-> "change", token |-> t, level |-> l, size |-> size,
                 hash |-> Changed(market[t], l, size), sound |-> sound]
<1>2. Changed(market[t], l, size) \in SUBSET Levels
  BY ChangedType DEF FeedTypeOK
<1>3. f \in Frame
  BY <1>2 DEF Frame
<1>4. f.kind = "change" /\ f.hash = Changed(market[f.token], f.level, f.size)
  OBVIOUS
<1> QED
  BY <1>1, <1>3, <1>4

LEMMA ExchangeTradesSends ==
  ASSUME FeedTypeOK, ExchangeTrades
  PROVE  \E f \in Frame : Sends(f) /\ f.kind = "trade"
<1>1. PICK t \in Tokens, sound \in BOOLEAN :
        Sends([SnapshotOf(t, sound) EXCEPT !.kind = "trade"])
  BY DEF ExchangeTrades
<1>2. SnapshotOf(t, sound) \in Frame
  BY SnapshotType
<1>3. [SnapshotOf(t, sound) EXCEPT !.kind = "trade"] \in Frame
  BY <1>2 DEF Frame
<1>4. [SnapshotOf(t, sound) EXCEPT !.kind = "trade"].kind = "trade"
  BY <1>2 DEF Frame
<1> QED
  BY <1>1, <1>3, <1>4

LEMMA FeedStepType ==
  ASSUME FeedTypeOK, ExchangeChanges \/ ExchangeTrades \/ WsConnects \/ WsDrops
  PROVE  FeedTypeOK' /\ (ws' # "off" <=> ws # "off")
<1>1. CASE ExchangeChanges \/ ExchangeTrades
  <2>1. PICK f \in Frame : Sends(f)
    BY <1>1, ExchangeChangesSends, ExchangeTradesSends
  <2> QED
    BY <2>1, SendsType DEF Sends
<1>2. CASE WsConnects
  <2>1. wire' \in Seq(Frame)
    BY <1>2, WsConnectsWire
  <2> QED
    BY <1>2, <2>1, Parameters DEF WsConnects, FeedTypeOK
<1>3. CASE WsDrops
  BY <1>3 DEF WsDrops, FeedTypeOK
<1> QED
  BY <1>1, <1>2, <1>3

LEMMA FlushType ==
  ASSUME TypeOK, NEW b \in Seq(Nat), NEW ok \in BOOLEAN, Flush(b, ok)
  PROVE  buffer' \in Seq(Nat) /\ stored' \in Seq(Nat) /\ lost' \subseteq Nat
<1>1. ToSet(b) \subseteq Nat
  BY DEF ToSet
<1>2. stored \o b \in Seq(Nat) /\ << >> \in Seq(Nat)
  BY ConcatProperties, EmptySeq DEF TypeOK
<1>3. stored' \in Seq(Nat)
  BY <1>2 DEF Flush, TypeOK
<1>4. lost' \subseteq Nat
  BY <1>1 DEF Flush, TypeOK
<1> QED
  BY <1>2, <1>3, <1>4 DEF Flush

LEMMA OnWsEventType ==
  ASSUME TypeOK, OnWsEvent
  PROVE  TypeOK'
<1>1. FeedTypeOK /\ rows \in Nat /\ buffer \in Seq(Nat) /\ stored \in Seq(Nat) /\ lost \subseteq Nat
  BY DEF TypeOK
<1>2. Head(wire) \in Frame /\ Tail(wire) \in Seq(Frame)
  BY <1>1 DEF OnWsEvent, FeedTypeOK
<1>3. book' \in [Tokens -> Books] /\ gapTokens' \subseteq Tokens /\ torn' \subseteq Tokens
  BY <1>1, <1>2, ProcessEventType DEF OnWsEvent
<1>4. FeedTypeOK'
  BY <1>1, <1>2, <1>3 DEF OnWsEvent, FeedTypeOK, Books
<1>5. rows' \in Nat /\ buffer' \in Seq(Nat) /\ stored' \in Seq(Nat) /\ lost' \subseteq Nat
  <2>1. CASE ~Summarised(Head(wire))
    BY <1>1, <2>1 DEF OnWsEvent, records
  <2>2. CASE Summarised(Head(wire))
    <3> DEFINE b == Append(buffer, rows + 1)
    <3>1. b \in Seq(Nat) /\ rows + 1 \in Nat
      BY <1>1
    <3>2. rows' = rows + 1
      BY <2>2 DEF OnWsEvent
    <3>3. \/ \E ok \in BOOLEAN : Flush(b, ok)
          \/ buffer' = b /\ stored' = stored /\ lost' = lost
      BY <2>2 DEF OnWsEvent
    <3> HIDE DEF b
    <3>4. buffer' \in Seq(Nat) /\ stored' \in Seq(Nat) /\ lost' \subseteq Nat
      BY <1>1, <3>1, <3>3, FlushType
    <3> QED
      BY <3>1, <3>2, <3>4
  <2> QED
    BY <2>1, <2>2
<1> QED
  BY <1>4, <1>5 DEF OnWsEvent, capture, TypeOK

LEMMA LeavesLoopType ==
  ASSUME TypeOK, NEW ok \in BOOLEAN, LoopRaises(ok) \/ Stops(ok)
  PROVE  TypeOK'
<1>1. buffer \in Seq(Nat)
  BY DEF TypeOK
<1>2. buffer' \in Seq(Nat) /\ stored' \in Seq(Nat) /\ lost' \subseteq Nat
  BY <1>1, FlushType DEF LoopRaises, Stops
<1>3. << >> \in Seq(Frame)
  BY EmptySeq
<1>4. FeedTypeOK'
  BY <1>3 DEF LoopRaises, Stops, WindsDown, TypeOK, FeedTypeOK
<1> QED
  BY <1>2, <1>4 DEF LoopRaises, Stops, WindsDown, TypeOK

LEMMA ProcessDiesType ==
  ASSUME TypeOK, ProcessDies
  PROVE  TypeOK'
<1>1. ToSet(buffer) \subseteq Nat
  BY DEF ToSet, TypeOK
<1>2. << >> \in Seq(Frame) /\ << >> \in Seq(Nat)
  BY EmptySeq
<1>3. FeedTypeOK'
  BY <1>2 DEF ProcessDies, TypeOK, FeedTypeOK, NewBook
<1>4. lost' \subseteq Nat
  BY <1>1 DEF ProcessDies, TypeOK
<1> QED
  BY <1>2, <1>3, <1>4 DEF ProcessDies, TypeOK

LEMMA TypeStep ==
  ASSUME TypeOK, [Next]_vars
  PROVE  TypeOK'
<1>1. CASE FeedStep
  <2>1. FeedTypeOK' /\ (ws' # "off" <=> ws # "off")
    BY <1>1, FeedStepType DEF FeedStep, TypeOK
  <2> QED
    BY <1>1, <2>1 DEF FeedStep, capture, records, TypeOK
<1>2. CASE OnWsEvent
  BY <1>2, OnWsEventType
<1>3. ASSUME NEW found \in SUBSET Tokens, Discovers(found)
      PROVE  TypeOK'
  BY <1>3 DEF Discovers, TypeOK, FeedTypeOK, records
<1>4. CASE DiscoveryFails \/ GivesUpEmpty \/ RunnerRestarts
  BY <1>4 DEF DiscoveryFails, GivesUpEmpty, RunnerRestarts, TypeOK, feedVars, FeedTypeOK, records
<1>5. CASE LoopPasses
  <2>1. buffer \in Seq(Nat)
    BY DEF TypeOK
  <2>2. buffer' \in Seq(Nat) /\ stored' \in Seq(Nat) /\ lost' \subseteq Nat
    BY <1>5, <2>1, FlushType DEF LoopPasses
  <2> QED
    BY <1>5, <2>2 DEF LoopPasses, TypeOK, feedVars, FeedTypeOK
<1>6. ASSUME NEW ok \in BOOLEAN, LoopRaises(ok) \/ Stops(ok)
      PROVE  TypeOK'
  BY <1>6, LeavesLoopType
<1>7. CASE ProcessDies
  BY <1>7, ProcessDiesType
<1>8. CASE UNCHANGED vars
  BY <1>8 DEF vars, feedVars, capture, records, TypeOK, FeedTypeOK
<1> QED
  BY <1>1, <1>2, <1>3, <1>4, <1>5, <1>6, <1>7, <1>8 DEF Next

(* The WebSocket client lives exactly as long as the loop of run() does,   *)
(* and books, buffer and tables hold what they are declared to hold        *)
(* (data_capture.py:352-404).                                              *)
THEOREM TypeCorrect == Spec => []TypeOK
<1>1. ASSUME Init PROVE TypeOK
  <2>1. << >> \in Seq(Frame) /\ << >> \in Seq(Nat)
    BY EmptySeq
  <2>2. FeedTypeOK
    BY <1>1, <2>1, Parameters DEF Init, FeedInit, FeedTypeOK, NewBook
  <2> QED
    BY <1>1, <2>1, <2>2 DEF Init, FeedInit, TypeOK
<1> QED
  BY <1>1, TypeStep, PTL DEF Spec

-----------------------------------------------------------------------------
(* The replica.  The frames on the wire are a chain: for each subscribed   *)
(* token there is a history of the exchange's book, one entry before the   *)
(* first frame and one after each, that ends in the book of now.           *)

Follows(before, after, t, f) ==
  IF f.token # t \/ f.kind = "trade" THEN after = before
  ELSE /\ after = f.hash
       /\ f.kind = "change" => f.hash = Changed(before, f.level, f.size)

Chain(t, w, first, last) ==
  \E h \in [0 .. Len(w) -> SUBSET Levels] :
    /\ h[0] = first /\ h[Len(w)] = last
    /\ \A i \in 1 .. Len(w) : Follows(h[i - 1], h[i], t, w[i])

HasSnapshot(t, w) == \E i \in 1 .. Len(w) : w[i].kind = "book" /\ w[i].token = t

(* The snapshots of a connection come first, and only for what was asked. *)
SnapshotsFirst ==
  /\ ws # "connected" => wire = << >>
  /\ svc = "running" => watched = subscribed
  /\ \A i \in 1 .. Len(wire) : wire[i].token \in subscribed
  /\ \A i, j \in 1 .. Len(wire) :
       i < j /\ wire[j].kind = "book" => wire[i].kind = "book"

(* The history starts at the book, unless that waits for a snapshot. *)
StartsAtBook(t, first) ==
  \/ HasSnapshot(t, wire)
  \/ t \in torn
  \/ book[t].synced /\ book[t].hash = first

WireIsChain ==
  ws = "connected" =>
    \A t \in subscribed :
      \E first : Chain(t, wire, first, market[t]) /\ StartsAtBook(t, first)

ReplicaInv == TypeOK /\ SnapshotsFirst /\ WireIsChain /\ SyncedIsReplica

-----------------------------------------------------------------------------
LEMMA ChainShrinks ==
  ASSUME NEW t, NEW w \in Seq(Frame), w # << >>,
         NEW first, NEW last, Chain(t, w, first, last)
  PROVE  \E second : Chain(t, Tail(w), second, last) /\ Follows(first, second, t, Head(w))
<1> DEFINE n == Len(w)
<1>1. /\ n \in Nat \ {0}
      /\ Tail(w) \in Seq(Frame) /\ Len(Tail(w)) = n - 1
      /\ \A i \in 1 .. n - 1 : Tail(w)[i] = w[i + 1]
      /\ Head(w) = w[1]
  BY HeadTailProperties, EmptySeq
<1>2. PICK h \in [0 .. n -> SUBSET Levels] :
        /\ h[0] = first /\ h[n] = last
        /\ \A i \in 1 .. n : Follows(h[i - 1], h[i], t, w[i])
  BY DEF Chain
<1> DEFINE g == [i \in 0 .. n - 1 |-> h[i + 1]]
<1> HIDE DEF n
<1>3. g \in [0 .. n - 1 -> SUBSET Levels]
  BY <1>1, <1>2
<1>4. \A i \in 1 .. n - 1 : Follows(g[i - 1], g[i], t, Tail(w)[i])
  <2>1. TAKE i \in 1 .. n - 1
  <2>2. i + 1 \in 1 .. n /\ i - 1 \in 0 .. n - 1 /\ i \in 0 .. n - 1
    BY <1>1
  <2>3. Follows(h[(i + 1) - 1], h[i + 1], t, w[i + 1])
    BY <1>2, <2>2
  <2>4. g[i - 1] = h[(i + 1) - 1] /\ g[i] = h[i + 1] /\ Tail(w)[i] = w[i + 1]
    BY <1>1, <2>2
  <2> QED
    BY <2>3, <2>4
<1>5. g[0] = h[1] /\ g[n - 1] = last
  BY <1>1, <1>2
<1> HIDE DEF g
<1>6. Chain(t, Tail(w), h[1], last)
  BY <1>1, <1>3, <1>4, <1>5 DEF Chain
<1>7. Follows(first, h[1], t, w[1])
  <2>1. 1 \in 1 .. n /\ 1 - 1 = 0
    BY <1>1
  <2> QED
    BY <1>2, <2>1
<1> QED
  BY <1>1, <1>6, <1>7

LEMMA ChainGrows ==
  ASSUME NEW t, NEW w \in Seq(Frame), NEW f \in Frame,
         NEW first, NEW last, Chain(t, w, first, last),
         NEW levels \in SUBSET Levels, Follows(last, levels, t, f)
  PROVE  Chain(t, Append(w, f), first, levels)
<1> DEFINE n == Len(w)
<1>1. /\ n \in Nat
      /\ Len(Append(w, f)) = n + 1
      /\ \A i \in 1 .. n : Append(w, f)[i] = w[i]
      /\ Append(w, f)[n + 1] = f
  BY AppendProperties, LenProperties
<1>2. PICK h \in [0 .. n -> SUBSET Levels] :
        /\ h[0] = first /\ h[n] = last
        /\ \A i \in 1 .. n : Follows(h[i - 1], h[i], t, w[i])
  BY DEF Chain
<1> DEFINE g == [i \in 0 .. n + 1 |-> IF i = n + 1 THEN levels ELSE h[i]]
<1> HIDE DEF n
<1>3. g \in [0 .. n + 1 -> SUBSET Levels]
  BY <1>1, <1>2
<1>4. ASSUME NEW i \in 1 .. n + 1
      PROVE  Follows(g[i - 1], g[i], t, Append(w, f)[i])
  <2>1. CASE i = n + 1
    <3>1. g[i - 1] = last /\ g[i] = levels
      BY <1>1, <1>2, <2>1
    <3> HIDE DEF g
    <3> QED
      BY <1>1, <2>1, <3>1
  <2>2. CASE i # n + 1
    <3>1. i \in 1 .. n /\ g[i - 1] = h[i - 1] /\ g[i] = h[i]
      BY <1>1, <2>2
    <3> HIDE DEF g
    <3> QED
      BY <1>1, <1>2, <3>1
  <2> QED
    BY <2>1, <2>2
<1>5. g[0] = first /\ g[n + 1] = levels
  BY <1>1, <1>2
<1> HIDE DEF g
<1> QED
  BY <1>1, <1>3, <1>4, <1>5 DEF Chain

LEMMA SendsReplica ==
  ASSUME ReplicaInv, NEW f \in Frame, Sends(f), UNCHANGED capture,
         \/ f.kind = "trade"
         \/ f.kind = "change" /\ f.hash = Changed(market[f.token], f.level, f.size)
  PROVE  SnapshotsFirst' /\ WireIsChain' /\ SyncedIsReplica'
<1>1. /\ wire \in Seq(Frame) /\ market \in [Tokens -> SUBSET Levels]
      /\ f.token \in Tokens /\ f.hash \in SUBSET Levels /\ subscribed \subseteq Tokens
  BY DEF ReplicaInv, TypeOK, FeedTypeOK, Frame
<1>2. /\ subscribed' = subscribed /\ ws' = ws /\ book' = book /\ torn' = torn
      /\ svc' = svc /\ watched' = watched
      /\ wire' = IF ws = "connected" /\ f.token \in subscribed THEN Append(wire, f) ELSE wire
      /\ market' = IF f.kind = "change" THEN [market EXCEPT ![f.token] = f.hash] ELSE market
  BY DEF Sends, capture
<1> DEFINE n == Len(wire)
<1>3. /\ n \in Nat
      /\ Len(Append(wire, f)) = n + 1
      /\ \A i \in 1 .. n : Append(wire, f)[i] = wire[i]
      /\ Append(wire, f)[n + 1] = f
  BY <1>1, AppendProperties, LenProperties
<1>4. SnapshotsFirst'
  <2>1. CASE ws = "connected" /\ f.token \in subscribed
    <3>1. wire' = Append(wire, f) /\ Len(wire') = n + 1
      BY <1>2, <1>3, <2>1
    <3> HIDE DEF n
    <3>2. ASSUME NEW i \in 1 .. n + 1 PROVE wire'[i] = IF i = n + 1 THEN f ELSE wire[i]
      BY <1>3, <3>1
    <3>3. /\ \A i \in 1 .. n : wire[i].token \in subscribed
          /\ \A i, j \in 1 .. n :
               i < j /\ wire[j].kind = "book" => wire[i].kind = "book"
      BY DEF ReplicaInv, SnapshotsFirst, n
    <3>4. \A i \in 1 .. n + 1 : wire'[i].token \in subscribed
      BY <1>3, <2>1, <3>2, <3>3
    <3>5. ASSUME NEW i \in 1 .. n + 1, NEW j \in 1 .. n + 1, i < j, wire'[j].kind = "book"
          PROVE  wire'[i].kind = "book"
      <4>1. j # n + 1
        BY <3>2, <3>5
      <4>2. i \in 1 .. n /\ j \in 1 .. n /\ wire'[i] = wire[i] /\ wire'[j] = wire[j]
        BY <1>3, <3>2, <3>5, <4>1
      <4> QED
        BY <3>3, <3>5, <4>2
    <3> QED
      BY <1>2, <2>1, <3>1, <3>4, <3>5 DEF ReplicaInv, SnapshotsFirst
  <2>2. CASE ~(ws = "connected" /\ f.token \in subscribed)
    BY <1>2, <2>2 DEF ReplicaInv, SnapshotsFirst
  <2> QED
    BY <2>1, <2>2
<1>5. WireIsChain'
  <2>1. SUFFICES ASSUME ws = "connected", NEW t \in subscribed
                 PROVE  \E first : Chain(t, wire', first, market'[t]) /\ StartsAtBook(t, first)'
    BY <1>2 DEF WireIsChain
  <2>2. PICK first : Chain(t, wire, first, market[t]) /\ StartsAtBook(t, first)
    BY <2>1 DEF ReplicaInv, WireIsChain
  <2>3. t \in Tokens /\ market'[t] \in SUBSET Levels
    BY <1>1, <1>2, <2>1
  <2>4. CASE f.token \in subscribed
    <3>1. wire' = Append(wire, f)
      BY <1>2, <2>1, <2>4
    <3>2. Follows(market[t], market'[t], t, f)
      BY <1>1, <1>2, <2>3 DEF Follows
    <3>3. Chain(t, wire', first, market'[t])
      BY <1>1, <2>2, <2>3, <3>1, <3>2, ChainGrows
    <3>4. StartsAtBook(t, first)'
      <4>1. ASSUME HasSnapshot(t, wire) PROVE HasSnapshot(t, wire')
        <5>1. PICK i \in 1 .. n : wire[i].kind = "book" /\ wire[i].token = t
          BY <4>1 DEF HasSnapshot
        <5>2. i \in 1 .. Len(wire') /\ wire'[i] = wire[i]
          BY <1>3, <3>1
        <5> QED
          BY <5>1, <5>2 DEF HasSnapshot
      <4> QED
        BY <1>2, <2>2, <3>3, <4>1 DEF StartsAtBook
    <3> QED
      BY <3>3, <3>4
  <2>5. CASE f.token \notin subscribed
    <3>1. wire' = wire /\ market'[t] = market[t]
      BY <1>1, <1>2, <2>1, <2>3, <2>5
    <3>2. StartsAtBook(t, first)'
      BY <1>2, <2>2, <3>1 DEF StartsAtBook
    <3> QED
      BY <2>2, <3>1, <3>2
  <2> QED
    BY <2>4, <2>5
<1>6. SyncedIsReplica'
  BY <1>2 DEF ReplicaInv, SyncedIsReplica
<1> QED
  BY <1>4, <1>5, <1>6

LEMMA ConnectsReplica ==
  ASSUME ReplicaInv, WsConnects, UNCHANGED capture
  PROVE  SnapshotsFirst' /\ WireIsChain' /\ SyncedIsReplica'
<1>1. FeedTypeOK
  BY DEF ReplicaInv, TypeOK
<1>2. /\ wire' \in Seq(Frame)
      /\ \A i \in 1 .. Len(wire') : wire'[i].kind = "book" /\ wire'[i].token \in subscribed
                                    /\ wire'[i].hash = market[wire'[i].token]
      /\ \A t \in subscribed : \E i \in 1 .. Len(wire') : wire'[i].token = t
  BY <1>1, WsConnectsWire
<1>3. /\ subscribed' = subscribed /\ ws' = "connected" /\ book' = book /\ torn' = torn
      /\ svc' = svc /\ watched' = watched /\ market' = market
  BY DEF WsConnects, capture
<1>4. SnapshotsFirst'
  BY <1>2, <1>3 DEF ReplicaInv, SnapshotsFirst
<1>5. WireIsChain'
  <2>1. SUFFICES ASSUME NEW t \in subscribed
                 PROVE  \E first : Chain(t, wire', first, market'[t]) /\ StartsAtBook(t, first)'
    BY <1>3 DEF WireIsChain
  <2> DEFINE n == Len(wire')
             h == [i \in 0 .. n |-> market[t]]
  <2>2. n \in Nat
    BY <1>2, LenProperties
  <2>3. market[t] \in SUBSET Levels
    BY <1>1 DEF FeedTypeOK
  <2>4. HasSnapshot(t, wire')
    BY <1>2 DEF HasSnapshot
  <2> HIDE DEF n
  <2>5. h \in [0 .. n -> SUBSET Levels] /\ h[n] = market[t]
    BY <2>2, <2>3
  <2>6. ASSUME NEW i \in 1 .. n PROVE Follows(h[i - 1], h[i], t, wire'[i])
    <3>1. h[i - 1] = market[t] /\ h[i] = market[t]
      BY <2>2
    <3>2. wire'[i].kind = "book" /\ wire'[i].hash = market[wire'[i].token]
      BY <1>2 DEF n
    <3> HIDE DEF h
    <3> QED
      BY <3>1, <3>2 DEF Follows
  <2> HIDE DEF h
  <2>7. Chain(t, wire', market[t], market'[t])
    <3>1. h[0] = market[t]
      BY <2>2 DEF h
    <3> QED
      BY <1>3, <2>5, <2>6, <3>1 DEF Chain, n
  <2> QED
    BY <2>4, <2>7 DEF StartsAtBook
<1>6. SyncedIsReplica'
  BY <1>3 DEF ReplicaInv, SyncedIsReplica
<1> QED
  BY <1>4, <1>5, <1>6

(* What process_event() does to the book of the frame's token: a frame     *)
(* that raises leaves its mark in `torn`, or had nothing to say.           *)
LEMMA ProcessEventEffect ==
  ASSUME FeedTypeOK, NEW f \in Frame, ProcessEvent(f)
  PROVE  /\ \A t \in Tokens \ {f.token} :
              book'[t] = book[t] /\ (t \in torn' <=> t \in torn)
         /\ \/ f.token \in torn'
            \/ f.kind = "book" /\ book'[f.token] = ApplySnapshot(book[f.token], f)
            \/ /\ f.kind = "change" /\ book[f.token].synced /\ f.token \notin torn
               /\ book'[f.token] = ApplyPriceChange(book[f.token], f)
            \/ /\ f.kind # "book" /\ book'[f.token] = book[f.token] /\ f.token \notin torn
               /\ f.kind = "change" => ~book[f.token].synced
<1>1. f.token \in Tokens /\ f.kind \in {"book", "change", "trade"}
  BY DEF Frame
<1>2. book \in [Tokens -> Books]
  BY DEF FeedTypeOK, Books
<1>3. CASE f.sound \/ IsGap(f)
  <2>1. /\ book' = [book EXCEPT ![f.token] = Processed(f)]
        /\ torn' = IF f.kind = "book" THEN torn \ {f.token} ELSE torn
    BY <1>3 DEF ProcessEvent
  <2>2. book'[f.token] = Processed(f)
    BY <1>1, <1>2, <2>1
  <2>3. CASE IsGap(f)
    <3>1. f.kind = "change" /\ ~book[f.token].synced
      BY <2>3 DEF IsGap
    <3>2. Processed(f) = [book[f.token] EXCEPT !.synced = FALSE]
      BY <2>3 DEF Processed
    <3>3. Processed(f) = book[f.token]
      BY <1>1, <1>2, <3>1, <3>2 DEF Books
    <3> QED
      BY <1>1, <1>2, <2>1, <2>2, <3>1, <3>3
  <2>4. CASE ~IsGap(f) /\ f.kind = "book"
    BY <1>1, <1>2, <2>1, <2>2, <2>4 DEF Processed
  <2>5. CASE ~IsGap(f) /\ f.kind = "change"
    BY <1>1, <1>2, <2>1, <2>2, <2>5 DEF Processed, IsGap
  <2>6. CASE ~IsGap(f) /\ f.kind = "trade"
    BY <1>1, <1>2, <2>1, <2>2, <2>6 DEF Processed
  <2> QED
    BY <1>1, <2>3, <2>4, <2>5, <2>6
<1>4. CASE ~(f.sound \/ IsGap(f))
  <2>1. PICK b \in HalfProcessed(f) : book' = [book EXCEPT ![f.token] = b]
    BY <1>4 DEF ProcessEvent
  <2>2. torn' = IF f.kind = "trade" THEN torn ELSE torn \cup {f.token}
    BY <1>4 DEF ProcessEvent
  <2>3. f.kind = "trade" => b = book[f.token]
    BY HalfProcessedType
  <2> QED
    BY <1>1, <1>2, <2>1, <2>2, <2>3
<1> QED
  BY <1>3, <1>4

LEMMA ConsumesReplica ==
  ASSUME ReplicaInv, OnWsEvent
  PROVE  SnapshotsFirst' /\ WireIsChain' /\ SyncedIsReplica'
<1> DEFINE f == Head(wire)
           n == Len(wire)
<1>1. /\ FeedTypeOK /\ wire \in Seq(Frame) /\ wire # << >>
      /\ subscribed \subseteq Tokens /\ book \in [Tokens -> Books]
  BY DEF ReplicaInv, TypeOK, FeedTypeOK, OnWsEvent, Books
<1>2. /\ n \in Nat \ {0}
      /\ Len(Tail(wire)) = n - 1
      /\ \A i \in 1 .. n - 1 : Tail(wire)[i] = wire[i + 1]
      /\ f = wire[1] /\ f \in Frame
  BY <1>1, HeadTailProperties, EmptySeq
<1>3. /\ ws = "connected" /\ ws' = ws /\ subscribed' = subscribed /\ market' = market
      /\ svc' = svc /\ watched' = watched /\ wire' = Tail(wire)
      /\ ProcessEvent(f)
  BY DEF OnWsEvent, capture
<1>4. /\ \A t \in Tokens \ {f.token} :
            book'[t] = book[t] /\ (t \in torn' <=> t \in torn)
      /\ \/ f.token \in torn'
         \/ f.kind = "book" /\ book'[f.token] = ApplySnapshot(book[f.token], f)
         \/ /\ f.kind = "change" /\ book[f.token].synced /\ f.token \notin torn
            /\ book'[f.token] = ApplyPriceChange(book[f.token], f)
         \/ /\ f.kind # "book" /\ book'[f.token] = book[f.token] /\ f.token \notin torn
            /\ f.kind = "change" => ~book[f.token].synced
  BY <1>1, <1>2, <1>3, ProcessEventEffect
<1>5. /\ \A i \in 1 .. n : wire[i].token \in subscribed
      /\ \A i, j \in 1 .. n :
           i < j /\ wire[j].kind = "book" => wire[i].kind = "book"
      /\ svc = "running" => watched = subscribed
  BY DEF ReplicaInv, SnapshotsFirst
<1> HIDE DEF n, f
<1>6. f.token \in subscribed /\ f.token \in Tokens
  BY <1>1, <1>2, <1>5
<1>7. \A i \in 1 .. n - 1 : i + 1 \in 1 .. n /\ wire'[i] = wire[i + 1]
  BY <1>2, <1>3
<1>8. SnapshotsFirst'
  <2>1. ASSUME NEW i \in 1 .. n - 1, NEW j \in 1 .. n - 1, i < j, wire'[j].kind = "book"
        PROVE  wire'[i].kind = "book"
    <3>1. i + 1 \in 1 .. n /\ j + 1 \in 1 .. n /\ i + 1 < j + 1 /\ wire[j + 1].kind = "book"
          /\ wire'[i] = wire[i + 1]
      BY <1>2, <1>7, <2>1
    <3> QED
      BY <1>5, <3>1
  <2>2. \A i \in 1 .. n - 1 : wire'[i].token \in subscribed
    BY <1>5, <1>7
  <2>3. Len(wire') = n - 1
    BY <1>2, <1>3
  <2> QED
    BY <1>3, <1>5, <2>1, <2>2, <2>3 DEF SnapshotsFirst
(* A delta is consumed only after the snapshot of its token. *)
<1>9. ASSUME NEW t \in subscribed, HasSnapshot(t, wire), f.kind # "book" \/ f.token # t
      PROVE  HasSnapshot(t, wire') /\ f.kind = "book"
  <2>1. PICK j \in 1 .. n : wire[j].kind = "book" /\ wire[j].token = t
    BY <1>9 DEF HasSnapshot, n
  <2>2. j # 1
    BY <1>2, <1>9, <2>1
  <2>3. j - 1 \in 1 .. n - 1 /\ 1 \in 1 .. n /\ 1 < j /\ (j - 1) + 1 = j
    BY <1>2, <2>1, <2>2
  <2>4. wire'[j - 1] = wire[j] /\ wire[1].kind = "book"
    BY <1>5, <1>7, <2>1, <2>3
  <2>5. Len(wire') = n - 1
    BY <1>2, <1>3
  <2> QED
    BY <1>2, <2>1, <2>3, <2>4, <2>5 DEF HasSnapshot
<1>10. ASSUME NEW t \in subscribed
       PROVE  \E first : /\ Chain(t, wire, first, market[t])
                        /\ \/ HasSnapshot(t, wire)
                           \/ t \in torn
                           \/ book[t].synced /\ book[t].hash = first
  BY <1>3 DEF ReplicaInv, WireIsChain, StartsAtBook, n
<1>11. WireIsChain'
  <2>1. SUFFICES ASSUME NEW t \in subscribed
                 PROVE  \E first : Chain(t, wire', first, market'[t]) /\ StartsAtBook(t, first)'
    BY <1>3 DEF WireIsChain
  <2>2. PICK first : /\ Chain(t, wire, first, market[t])
                     /\ \/ HasSnapshot(t, wire)
                        \/ t \in torn
                        \/ book[t].synced /\ book[t].hash = first
    BY <1>10
  <2>3. PICK second : Chain(t, Tail(wire), second, market[t]) /\ Follows(first, second, t, f)
    BY <1>1, <2>2, ChainShrinks DEF f
  <2>4. StartsAtBook(t, second)'
    <3>1. CASE f.token # t
      <4>1. book'[t] = book[t] /\ (t \in torn' <=> t \in torn)
        BY <1>1, <1>4, <3>1
      <4>2. second = first
        BY <2>3, <3>1 DEF Follows
      <4> QED
        BY <1>9, <2>2, <3>1, <4>1, <4>2 DEF StartsAtBook
    <3>2. CASE f.token = t /\ f.kind = "book"
      <4>1. second = f.hash
        BY <2>3, <3>2 DEF Follows
      <4>2. t \in torn' \/ book'[t] = ApplySnapshot(book[t], f)
        BY <1>4, <3>2
      <4> QED
        BY <4>1, <4>2 DEF StartsAtBook, ApplySnapshot
    <3>3. CASE f.token = t /\ f.kind # "book"
      <4>1. t \in torn' \/ t \notin torn
        BY <1>4, <3>3
      <4>2. ~HasSnapshot(t, wire)
        BY <1>9, <3>3
      <4>3. CASE t \in torn'
        BY <4>3 DEF StartsAtBook
      <4>4. CASE t \notin torn'
        <5>1. book[t].synced /\ book[t].hash = first
          BY <2>2, <4>1, <4>2, <4>4
        <5>2. CASE f.kind = "change"
          <6>1. book'[t] = ApplyPriceChange(book[t], f)
            BY <1>4, <3>3, <4>4, <5>1, <5>2
          <6>2. second = f.hash
            BY <2>3, <3>3, <5>2 DEF Follows
          <6>3. book[t] \in Books
            BY <1>1
          <6>4. book'[t].synced /\ book'[t].hash = f.hash
            BY <5>1, <6>1, <6>3 DEF ApplyPriceChange, Books
          <6> QED
            BY <6>2, <6>4 DEF StartsAtBook
        <5>3. CASE f.kind # "change"
          <6>1. f.kind = "trade"
            BY <1>2, <3>3, <5>3 DEF Frame
          <6>2. second = first
            BY <2>3, <6>1 DEF Follows
          <6>3. book'[t] = book[t]
            BY <1>4, <3>3, <4>4, <6>1
          <6> QED
            BY <5>1, <6>2, <6>3 DEF StartsAtBook
        <5> QED
          BY <5>2, <5>3
      <4> QED
        BY <4>3, <4>4
    <3> QED
      BY <3>1, <3>2, <3>3
  <2> QED
    BY <1>3, <2>2, <2>3, <2>4
<1>12. SyncedIsReplica'
  <2>1. SUFFICES ASSUME NEW t \in Tokens, book'[t].synced, t \notin torn'
                 PROVE  book'[t].levels = book'[t].hash
    BY DEF SyncedIsReplica
  <2>2. book[t].synced /\ t \notin torn => book[t].levels = book[t].hash
    BY DEF ReplicaInv, SyncedIsReplica
  <2>3. CASE f.token # t
    BY <1>4, <2>1, <2>2, <2>3
  <2>4. CASE f.token = t /\ f.kind = "book"
    BY <1>4, <2>1, <2>4 DEF ApplySnapshot
  <2>5. CASE f.token = t /\ f.kind = "change" /\ book[t].synced /\ t \notin torn
    <3>1. book'[t] = ApplyPriceChange(book[t], f) /\ book[t] \in Books
      BY <1>1, <1>4, <2>1, <2>5
    <3>2. PICK first : /\ Chain(t, wire, first, market[t])
                       /\ HasSnapshot(t, wire) \/ book[t].hash = first
      BY <1>6, <1>10, <2>5
    <3>3. ~HasSnapshot(t, wire)
      BY <1>6, <1>9, <2>5
    <3>4. PICK second : Follows(first, second, t, f)
      BY <1>1, <3>2, ChainShrinks DEF f
    <3>5. f.hash = Changed(book[t].hash, f.level, f.size)
      BY <2>5, <3>2, <3>3, <3>4 DEF Follows
    <3>6. book'[t].levels = Changed(book[t].levels, f.level, f.size) /\ book'[t].hash = f.hash
      BY <3>1 DEF ApplyPriceChange, Books
    <3> QED
      BY <2>2, <2>5, <3>5, <3>6
  <2>6. CASE f.token = t /\ book'[t] = book[t] /\ t \notin torn
    BY <2>1, <2>2, <2>6
  <2> QED
    BY <1>4, <2>1, <2>3, <2>4, <2>5, <2>6
<1> QED
  BY <1>8, <1>11, <1>12

(* Steps that end in no connection: nothing is on the wire any more. *)
LEMMA OffReplica ==
  ASSUME ws' # "connected", wire' = << >>, SyncedIsReplica', svc' = "running" => watched' = subscribed'
  PROVE  SnapshotsFirst' /\ WireIsChain' /\ SyncedIsReplica'
<1>1. Len(wire') = 0
  OBVIOUS
<1>2. 1 .. Len(wire') = {}
  BY <1>1
<1> QED
  BY <1>2 DEF SnapshotsFirst, WireIsChain

LEMMA ReplicaStep ==
  ASSUME ReplicaInv, [Next]_vars
  PROVE  SnapshotsFirst' /\ WireIsChain' /\ SyncedIsReplica'
<1>1. /\ TypeOK /\ FeedTypeOK /\ SyncedIsReplica
      /\ ws # "connected" => wire = << >>
      /\ svc = "running" => watched = subscribed
      /\ ws # "off" <=> svc = "running"
  BY DEF ReplicaInv, TypeOK, SnapshotsFirst
<1>2. CASE FeedStep
  <2>1. UNCHANGED capture
    BY <1>2 DEF FeedStep
  <2>2. CASE ExchangeChanges \/ ExchangeTrades
    <3>1. PICK f \in Frame :
            /\ Sends(f)
            /\ \/ f.kind = "trade"
               \/ f.kind = "change" /\ f.hash = Changed(market[f.token], f.level, f.size)
      BY <1>1, <2>2, ExchangeChangesSends, ExchangeTradesSends
    <3> QED
      BY <2>1, <3>1, SendsReplica
  <2>3. CASE WsConnects
    BY <2>1, <2>3, ConnectsReplica
  <2>4. CASE WsDrops
    <3>1. SyncedIsReplica'
      BY <1>1, <2>4 DEF WsDrops, SyncedIsReplica
    <3>2. ws' # "connected" /\ wire' = << >> /\ (svc' = "running" => watched' = subscribed')
      BY <1>1, <2>1, <2>4 DEF WsDrops, capture
    <3> QED
      BY <3>1, <3>2, OffReplica
  <2> QED
    BY <1>2, <2>2, <2>3, <2>4 DEF FeedStep
<1>3. CASE OnWsEvent
  BY <1>3, ConsumesReplica
<1>4. ASSUME NEW found \in SUBSET Tokens, Discovers(found)
      PROVE  SnapshotsFirst' /\ WireIsChain' /\ SyncedIsReplica'
  <2>1. SyncedIsReplica'
    BY <1>1, <1>4 DEF Discovers, SyncedIsReplica
  <2>2. ws' # "connected" /\ wire' = << >> /\ (svc' = "running" => watched' = subscribed')
    BY <1>1, <1>4 DEF Discovers
  <2> QED
    BY <2>1, <2>2, OffReplica
<1>5. CASE DiscoveryFails \/ GivesUpEmpty \/ RunnerRestarts
  <2>1. SyncedIsReplica'
    BY <1>1, <1>5 DEF DiscoveryFails, GivesUpEmpty, RunnerRestarts, feedVars, SyncedIsReplica
  <2>2. ws' # "connected" /\ wire' = << >> /\ (svc' = "running" => watched' = subscribed')
    BY <1>1, <1>5 DEF DiscoveryFails, GivesUpEmpty, RunnerRestarts, feedVars
  <2> QED
    BY <2>1, <2>2, OffReplica
<1>6. CASE LoopPasses \/ UNCHANGED vars
  <2>1. UNCHANGED <<feedVars, svc, watched>>
    BY <1>6 DEF LoopPasses, vars, capture
  <2> QED
    BY <2>1 DEF ReplicaInv, SnapshotsFirst, WireIsChain, StartsAtBook, SyncedIsReplica, feedVars
<1>7. ASSUME NEW ok \in BOOLEAN, LoopRaises(ok) \/ Stops(ok)
      PROVE  SnapshotsFirst' /\ WireIsChain' /\ SyncedIsReplica'
  <2>1. SyncedIsReplica'
    BY <1>1, <1>7 DEF LoopRaises, Stops, WindsDown, SyncedIsReplica
  <2>2. ws' # "connected" /\ wire' = << >> /\ svc' # "running"
    BY <1>7 DEF LoopRaises, Stops, WindsDown
  <2> QED
    BY <2>1, <2>2, OffReplica
<1>8. CASE ProcessDies
  <2>1. SyncedIsReplica'
    BY <1>8 DEF ProcessDies, SyncedIsReplica, NewBook
  <2>2. ws' # "connected" /\ wire' = << >> /\ svc' # "running"
    BY <1>8 DEF ProcessDies
  <2> QED
    BY <2>1, <2>2, OffReplica
<1> QED
  BY <1>2, <1>3, <1>4, <1>5, <1>6, <1>7, <1>8 DEF Next

LEMMA ReplicaInvariant == Spec => []ReplicaInv
<1>1. ASSUME Init PROVE SnapshotsFirst /\ WireIsChain /\ SyncedIsReplica
  <2>1. Len(wire) = 0 /\ 1 .. 0 = {}
    BY <1>1 DEF Init, FeedInit
  <2> QED
    BY <1>1, <2>1
       DEF Init, FeedInit, SnapshotsFirst, WireIsChain, SyncedIsReplica, NewBook
<1>2. ASSUME SnapshotsFirst, WireIsChain, SyncedIsReplica, TypeOK, [Next]_vars
      PROVE  SnapshotsFirst' /\ WireIsChain' /\ SyncedIsReplica'
  BY <1>2, ReplicaStep DEF ReplicaInv
<1>3. SnapshotsFirst /\ WireIsChain /\ SyncedIsReplica /\ TypeOK => ReplicaInv
  BY DEF ReplicaInv
<1> QED
  BY <1>1, <1>2, <1>3, TypeCorrect, PTL DEF Spec

(* A synced book has exactly the levels that its hash stands for, whatever *)
(* gaps, reconnections and restarts came before, unless a frame raised     *)
(* after its last snapshot (orderbook_manager.py:134-165).                 *)
THEOREM SyncedIsReplicaHolds == Spec => []SyncedIsReplica
<1>1. ReplicaInv => SyncedIsReplica
  BY DEF ReplicaInv
<1> QED
  BY <1>1, ReplicaInvariant, PTL

(* With a connection and nothing on its way, the book of a watched token   *)
(* is the exchange's, in whichever run of the service                      *)
(* (polymarket_ws.py:82-114, data_capture.py:363-369).                     *)
THEOREM ConnectedMeansCurrentHolds == Spec => []ConnectedMeansCurrent
<1>1. ASSUME ReplicaInv PROVE ConnectedMeansCurrent
  <2>1. SUFFICES ASSUME NEW t \in watched, ws = "connected", wire = << >>, t \notin torn
                 PROVE  book[t].synced /\ book[t].levels = market[t]
    BY DEF ConnectedMeansCurrent
  <2>2. t \in subscribed /\ t \in Tokens
    BY <1>1, <2>1 DEF ReplicaInv, TypeOK, FeedTypeOK, SnapshotsFirst
  <2>3. PICK first : Chain(t, wire, first, market[t]) /\ StartsAtBook(t, first)
    BY <1>1, <2>1, <2>2 DEF ReplicaInv, WireIsChain
  <2>4. Len(wire) = 0 /\ 1 .. Len(wire) = {}
    BY <2>1
  <2>5. first = market[t]
    BY <2>3, <2>4 DEF Chain
  <2>6. book[t].synced /\ book[t].hash = first
    BY <2>1, <2>3, <2>4 DEF StartsAtBook, HasSnapshot
  <2>7. book[t].levels = book[t].hash
    BY <1>1, <2>1, <2>2, <2>6 DEF ReplicaInv, SyncedIsReplica
  <2> QED
    BY <2>5, <2>6, <2>7
<1> QED
  BY <1>1, ReplicaInvariant, PTL

-----------------------------------------------------------------------------
(* The rows.  `kept` is the table followed by the buffer.                  *)

Accounted(kept, gone, n) ==
  /\ 1 .. n = ToSet(kept) \cup gone
  /\ gone \cap ToSet(kept) = {}
  /\ \A i, j \in 1 .. Len(kept) : i < j => kept[i] < kept[j]

LEMMA AppendOfConcat ==
  ASSUME NEW s \in Seq(Nat), NEW b \in Seq(Nat), NEW n \in Nat
  PROVE  Append(s \o b, n) = s \o Append(b, n)
<1> DEFINE k == Len(s)
           m == Len(b)
           l == Append(s \o b, n)
           c == Append(b, n)
           r == s \o c
<1>1. /\ k \in Nat /\ m \in Nat /\ s \o b \in Seq(Nat) /\ Len(s \o b) = k + m
      /\ \A i \in 1 .. k + m : (s \o b)[i] = IF i <= k THEN s[i] ELSE b[i - k]
  BY ConcatProperties, LenProperties
<1>2. /\ c \in Seq(Nat) /\ Len(c) = m + 1 /\ c[m + 1] = n
      /\ \A i \in 1 .. m : c[i] = b[i]
  BY AppendProperties
<1>3. /\ l \in Seq(Nat) /\ Len(l) = k + m + 1 /\ l[k + m + 1] = n
      /\ \A i \in 1 .. k + m : l[i] = (s \o b)[i]
  BY <1>1, AppendProperties
<1> HIDE DEF c
<1>4. /\ r \in Seq(Nat) /\ Len(r) = k + (m + 1)
      /\ \A i \in 1 .. k + (m + 1) : r[i] = IF i <= k THEN s[i] ELSE c[i - k]
  <2>1. /\ s \o c \in Seq(Nat) /\ Len(s \o c) = Len(s) + Len(c)
        /\ \A i \in 1 .. Len(s) + Len(c) : (s \o c)[i] = IF i <= Len(s) THEN s[i] ELSE c[i - Len(s)]
    BY <1>2, ConcatProperties
  <2>2. Len(s) + Len(c) = k + (m + 1)
    BY <1>2
  <2> QED
    BY <2>1, <2>2
<1> HIDE DEF k, m, l, r
<1>5. ASSUME NEW i \in 1 .. k + m + 1 PROVE l[i] = r[i]
  <2>1. i \in 1 .. k + (m + 1)
    BY <1>1
  <2>2. CASE i = k + m + 1
    <3>1. ~(i <= k) /\ i - k = m + 1
      BY <1>1, <2>2
    <3> QED
      BY <1>2, <1>3, <1>4, <2>1, <2>2, <3>1
  <2>3. CASE i # k + m + 1
    <3>1. i \in 1 .. k + m /\ (~(i <= k) => i - k \in 1 .. m)
      BY <1>1, <2>3
    <3> QED
      BY <1>1, <1>2, <1>3, <1>4, <2>1, <3>1
  <2> QED
    BY <2>2, <2>3
<1>6. Len(l) = Len(r)
  BY <1>1, <1>3, <1>4
<1>7. l = r
  BY <1>3, <1>4, <1>5, <1>6, SeqEqual
<1> QED
  BY <1>7 DEF l, r, c

LEMMA NewRowAccounted ==
  ASSUME NEW kept \in Seq(Nat), NEW gone, NEW n \in Nat, Accounted(kept, gone, n)
  PROVE  Accounted(Append(kept, n + 1), gone, n + 1)
<1> DEFINE m == Len(kept)
           more == Append(kept, n + 1)
<1>1. /\ m \in Nat /\ more \in Seq(Nat) /\ Len(more) = m + 1
      /\ \A i \in 1 .. m : more[i] = kept[i] /\ kept[i] \in Nat
      /\ more[m + 1] = n + 1
  BY AppendProperties, LenProperties, ElementOfSeq
<1>2. ToSet(kept) = {kept[i] : i \in 1 .. m} /\ ToSet(more) = {more[i] : i \in 1 .. Len(more)}
  BY <1>1, LenProperties DEF ToSet
<1>3. /\ 1 .. n = ToSet(kept) \cup gone
      /\ gone \cap ToSet(kept) = {}
      /\ \A i, j \in 1 .. m : i < j => kept[i] < kept[j]
  BY DEF Accounted
<1> HIDE DEF m, more
<1>4. ToSet(more) = ToSet(kept) \cup {n + 1}
  <2>1. 1 .. Len(more) = 1 .. m \cup {m + 1}
    BY <1>1
  <2> QED
    BY <1>1, <1>2, <2>1
<1>5. 1 .. n + 1 = 1 .. n \cup {n + 1} /\ n + 1 \notin 1 .. n
  OBVIOUS
<1>6. ASSUME NEW i \in 1 .. Len(more), NEW j \in 1 .. Len(more), i < j
      PROVE  more[i] < more[j]
  <2>1. i \in 1 .. m /\ more[i] = kept[i] /\ kept[i] \in Nat
    BY <1>1, <1>6
  <2>2. CASE j = m + 1
    <3>1. kept[i] \in 1 .. n
      BY <1>2, <1>3, <2>1
    <3> QED
      BY <1>1, <2>1, <2>2, <3>1
  <2>3. CASE j # m + 1
    <3>1. j \in 1 .. m /\ more[j] = kept[j]
      BY <1>1, <2>3
    <3> QED
      BY <1>3, <1>6, <2>1, <3>1
  <2> QED
    BY <2>2, <2>3
<1>7. 1 .. n + 1 = ToSet(more) \cup gone /\ gone \cap ToSet(more) = {}
  BY <1>3, <1>4, <1>5
<1> QED
  BY <1>6, <1>7 DEF Accounted, more

LEMMA LostRowsAccounted ==
  ASSUME NEW s \in Seq(Nat), NEW b \in Seq(Nat), NEW gone, NEW n \in Nat,
         Accounted(s \o b, gone, n)
  PROVE  Accounted(s, gone \cup ToSet(b), n)
<1> DEFINE k == Len(s)
           m == Len(b)
           all == s \o b
<1>1. /\ k \in Nat /\ m \in Nat /\ all \in Seq(Nat) /\ Len(all) = k + m
      /\ \A i \in 1 .. k + m : all[i] = IF i <= k THEN s[i] ELSE b[i - k]
  BY ConcatProperties, LenProperties
<1>2. /\ ToSet(s) = {s[i] : i \in 1 .. k} /\ ToSet(b) = {b[i] : i \in 1 .. m}
      /\ ToSet(all) = {all[i] : i \in 1 .. Len(all)}
  BY <1>1, LenProperties DEF ToSet
<1>3. /\ 1 .. n = ToSet(all) \cup gone
      /\ gone \cap ToSet(all) = {}
      /\ \A i, j \in 1 .. Len(all) : i < j => all[i] < all[j]
  BY DEF Accounted
<1>4. \A i \in 1 .. k : s[i] \in Nat
  BY ElementOfSeq
<1> HIDE DEF k, m, all
<1>5. \A i \in 1 .. k : i \in 1 .. Len(all) /\ all[i] = s[i]
  BY <1>1
<1>6. ASSUME NEW j \in 1 .. m
      PROVE  k + j \in 1 .. Len(all) /\ all[k + j] = b[j]
  <2>1. k + j \in 1 .. k + m /\ ~(k + j <= k) /\ (k + j) - k = j
    BY <1>1
  <2> QED
    BY <1>1, <2>1
<1>7. ToSet(all) = ToSet(s) \cup ToSet(b)
  <2>1. ASSUME NEW x \in ToSet(all) PROVE x \in ToSet(s) \cup ToSet(b)
    <3>1. PICK i \in 1 .. k + m : x = all[i]
      BY <1>1, <1>2
    <3>2. CASE i <= k
      <4>1. i \in 1 .. k /\ x = s[i]
        BY <1>1, <3>1, <3>2
      <4> QED
        BY <1>2, <4>1
    <3>3. CASE ~(i <= k)
      <4>1. i - k \in 1 .. m /\ x = b[i - k]
        BY <1>1, <3>1, <3>3
      <4> QED
        BY <1>2, <4>1
    <3> QED
      BY <3>2, <3>3
  <2>2. ToSet(s) \subseteq ToSet(all)
    BY <1>2, <1>5
  <2>3. ToSet(b) \subseteq ToSet(all)
    BY <1>2, <1>6
  <2> QED
    BY <2>1, <2>2, <2>3
<1>8. ToSet(s) \cap ToSet(b) = {}
  <2>1. SUFFICES ASSUME NEW i \in 1 .. k, NEW j \in 1 .. m, s[i] = b[j] PROVE FALSE
    BY <1>2
  <2>2. i < k + j
    BY <1>1
  <2>3. all[i] < all[k + j]
    BY <1>3, <1>5, <1>6, <2>2
  <2> QED
    BY <1>4, <1>5, <1>6, <2>1, <2>3
<1>9. \A i, j \in 1 .. k : i < j => s[i] < s[j]
  BY <1>3, <1>5
<1>10. /\ 1 .. n = ToSet(s) \cup (gone \cup ToSet(b))
       /\ (gone \cup ToSet(b)) \cap ToSet(s) = {}
  BY <1>3, <1>7, <1>8
<1> QED
  BY <1>9, <1>10 DEF Accounted, k

LEMMA FlushAccounted ==
  ASSUME TypeOK, NEW b \in Seq(Nat), NEW ok \in BOOLEAN, NEW n \in Nat,
         Accounted(stored \o b, lost, n), Flush(b, ok)
  PROVE  Accounted(stored' \o buffer', lost', n) /\ Len(buffer') < FlushAt
<1>1. stored \in Seq(Nat) /\ stored \o b \in Seq(Nat)
  BY ConcatProperties DEF TypeOK
<1>2. stored \o << >> = stored /\ (stored \o b) \o << >> = stored \o b
  BY <1>1, ConcatEmptySeq
<1>3. buffer' = << >> /\ Len(buffer') < FlushAt
  BY Parameters DEF Flush
<1>4. CASE ok
  <2>1. stored' \o buffer' = stored \o b /\ lost' = lost
    BY <1>2, <1>3, <1>4 DEF Flush
  <2> QED
    BY <1>3, <2>1
<1>5. CASE ~ok
  <2>1. stored' \o buffer' = stored /\ lost' = lost \cup ToSet(b)
    BY <1>2, <1>3, <1>5 DEF Flush
  <2>2. Accounted(stored, lost \cup ToSet(b), n)
    BY <1>1, LostRowsAccounted
  <2> QED
    BY <1>3, <2>1, <2>2
<1> QED
  BY <1>4, <1>5

LEMMA RowsMeaning ==
  RowsAccountedFor <=> Accounted(stored \o buffer, lost, rows) /\ Len(buffer) < FlushAt
BY DEF RowsAccountedFor, Accounted

LEMMA RowsStep ==
  ASSUME TypeOK, RowsAccountedFor, [Next]_vars
  PROVE  RowsAccountedFor'
<1>1. /\ rows \in Nat /\ buffer \in Seq(Nat) /\ stored \in Seq(Nat)
      /\ Accounted(stored \o buffer, lost, rows) /\ Len(buffer) < FlushAt
  BY RowsMeaning DEF TypeOK
<1>2. SUFFICES Accounted(stored' \o buffer', lost', rows') /\ Len(buffer') < FlushAt
  BY DEF RowsAccountedFor, Accounted
<1>3. CASE UNCHANGED records
  BY <1>1, <1>3 DEF records
<1>4. ASSUME NEW ok \in BOOLEAN, Flush(buffer, ok), rows' = rows
      PROVE  Accounted(stored' \o buffer', lost', rows') /\ Len(buffer') < FlushAt
  BY <1>1, <1>4, FlushAccounted
<1>5. CASE OnWsEvent
  <2>1. CASE ~Summarised(Head(wire))
    BY <1>3, <1>5, <2>1 DEF OnWsEvent
  <2>2. CASE Summarised(Head(wire))
    <3> DEFINE b == Append(buffer, rows + 1)
    <3>1. rows + 1 \in Nat /\ b \in Seq(Nat)
      BY <1>1
    <3>2. Accounted(stored \o b, lost, rows + 1)
      <4>1. stored \o buffer \in Seq(Nat)
        BY <1>1, ConcatProperties
      <4>2. Accounted(Append(stored \o buffer, rows + 1), lost, rows + 1)
        BY <1>1, <4>1, NewRowAccounted
      <4>3. Append(stored \o buffer, rows + 1) = stored \o b
        BY <1>1, <3>1, AppendOfConcat
      <4> QED
        BY <4>2, <4>3
    <3>3. rows' = rows + 1
      BY <1>5, <2>2 DEF OnWsEvent
    <3>4. \/ \E ok \in BOOLEAN : Flush(b, ok)
          \/ ~(Len(b) >= FlushAt) /\ buffer' = b /\ stored' = stored /\ lost' = lost
      BY <1>5, <2>2 DEF OnWsEvent
    <3> HIDE DEF b
    <3>5. ASSUME NEW ok \in BOOLEAN, Flush(b, ok)
          PROVE  Accounted(stored' \o buffer', lost', rows + 1) /\ Len(buffer') < FlushAt
      BY <3>1, <3>2, <3>5, FlushAccounted
    <3>6. CASE ~(Len(b) >= FlushAt) /\ buffer' = b /\ stored' = stored /\ lost' = lost
      <4>1. Len(b) \in Nat /\ FlushAt \in Nat
        BY <3>1, LenProperties, Parameters
      <4> QED
        BY <3>2, <3>3, <3>6, <4>1
    <3> QED
      BY <3>3, <3>4, <3>5, <3>6
  <2> QED
    BY <2>1, <2>2
<1>6. CASE LoopPasses
  <2>1. Flush(buffer, TRUE) /\ rows' = rows
    BY <1>6 DEF LoopPasses
  <2> QED
    BY <1>4, <2>1
<1>7. ASSUME NEW ok \in BOOLEAN, LoopRaises(ok) \/ Stops(ok)
      PROVE  Accounted(stored' \o buffer', lost', rows') /\ Len(buffer') < FlushAt
  <2>1. Flush(buffer, ok) /\ rows' = rows
    BY <1>7 DEF LoopRaises, Stops, WindsDown
  <2> QED
    BY <1>4, <2>1
<1>8. CASE ProcessDies
  <2>1. Flush(buffer, FALSE) /\ rows' = rows
    BY <1>8 DEF ProcessDies, Flush
  <2> QED
    BY <1>4, <2>1
<1>9. CASE FeedStep \/ DiscoveryFails \/ GivesUpEmpty \/ RunnerRestarts \/ UNCHANGED vars
           \/ \E found \in SUBSET Tokens : Discovers(found)
  <2>1. UNCHANGED records
    BY <1>9 DEF FeedStep, DiscoveryFails, GivesUpEmpty, RunnerRestarts, Discovers, vars
  <2> QED
    BY <1>3, <2>1
<1> QED
  BY <1>5, <1>6, <1>7, <1>8, <1>9 DEF Next

(* Every row made is in the buffer, in the table or lost with a failed     *)
(* commit or a dead process, in exactly one of them and in the order of    *)
(* the events, and the buffer stays below its limit                        *)
(* (data_capture.py:305-321, 403).                                         *)
THEOREM RowsAccountedForHolds == Spec => []RowsAccountedFor
<1>1. ASSUME Init PROVE RowsAccountedFor
  <2>1. stored \o buffer = << >> /\ lost = {} /\ rows = 0 /\ Len(buffer) = 0
    BY <1>1, EmptySeq, ConcatEmptySeq DEF Init
  <2>2. 1 .. rows = {} /\ ToSet(<< >>) = {} /\ 1 .. Len(<< >>) = {}
    BY <2>1 DEF ToSet
  <2>3. Accounted(stored \o buffer, lost, rows)
    BY <2>1, <2>2 DEF Accounted
  <2> QED
    BY <2>1, <2>3, RowsMeaning, Parameters
<1> QED
  BY <1>1, RowsStep, TypeCorrect, PTL DEF Spec

=============================================================================
