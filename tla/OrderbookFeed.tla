---------------------------- MODULE OrderbookFeed ----------------------------
(***************************************************************************)
(* The local order books: the exchange's market channel (external), the    *)
(* connection of src/clients/polymarket_ws.py and the OrderbookManager of  *)
(* src/marketdata/orderbook_manager.py, which turns frames into books.     *)
(*                                                                         *)
(* A book is the set of its levels (a price of a side); the size of a      *)
(* level only matters in that 0 removes it.  A frame carries the hash of   *)
(* the exchange's book after it; a hash stands for the book it is of.      *)
(* The length of the reconnection delay is left out, and so are the        *)
(* keep-alive and the frames without event type or token.                  *)
(***************************************************************************)
EXTENDS Integers, Sequences, FiniteSets, SequencesExt

CONSTANTS
  Tokens,
  Levels,      \* levels a book may have
  MaxSent,         \* bound on the frames the exchange sends of its own accord
  MaxConnections   \* bound on the connections made

ASSUME FeedAssumption ==
  /\ IsFiniteSet(Tokens)
  /\ Levels # {}
  /\ {MaxSent, MaxConnections} \subseteq Nat

VARIABLES
  market,      \* the exchange's book of each token (external)
  sent,        \* frames sent so far, subscription snapshots not counted
  ws,          \* "off", "waiting" for the next attempt, "connected"
  subscribed,  \* asset_ids of the client
  wire,        \* frames of this connection not yet consumed
  book,        \* TokenBook of each token: levels, last_hash, synced
  gapTokens,   \* _gap_tokens
  connections, \* connections made
  torn         \* history: tokens whose last snapshot or a later delta raised

feedVars == <<market, sent, ws, subscribed, wire, book, gapTokens, connections, torn>>

Frame ==
  [kind : {"book", "change", "trade"}, token : Tokens, level : Levels,
   size : {0, 1}, hash : SUBSET Levels, sound : BOOLEAN]

NewBook == [levels |-> {}, hash |-> {}, synced |-> FALSE]

FeedTypeOK ==
  /\ market \in [Tokens -> SUBSET Levels]
  /\ sent \in 0 .. MaxSent
  /\ ws \in {"off", "waiting", "connected"}
  /\ subscribed \subseteq Tokens
  /\ wire \in Seq(Frame)
  /\ book \in [Tokens -> [levels : SUBSET Levels, hash : SUBSET Levels, synced : BOOLEAN]]
  /\ gapTokens \subseteq Tokens
  /\ connections \in 0 .. MaxConnections
  /\ torn \subseteq Tokens

FeedInit ==
  /\ market = [t \in Tokens |-> {}]
  /\ sent = 0
  /\ ws = "off"
  /\ subscribed = {}
  /\ wire = << >>
  /\ book = [t \in Tokens |-> NewBook]
  /\ gapTokens = {}
  /\ connections = 0
  /\ torn = {}

-----------------------------------------------------------------------------
(* The exchange.  It may send a level or a size that float() refuses.      *)

Changed(levels, l, size) == IF size = 0 THEN levels \ {l} ELSE levels \cup {l}

SnapshotOf(t, sound) ==
  [kind |-> "book", token |-> t, level |-> CHOOSE l \in Levels : TRUE, size |-> 0,
   hash |-> market[t], sound |-> sound]

Sends(f) ==
  /\ sent < MaxSent
  /\ sent' = sent + 1
  /\ market' = IF f.kind = "change" THEN [market EXCEPT ![f.token] = f.hash] ELSE market
  /\ wire' = IF ws = "connected" /\ f.token \in subscribed THEN Append(wire, f) ELSE wire
  /\ UNCHANGED <<ws, subscribed, book, gapTokens, connections, torn>>

ExchangeChanges ==
  \E t \in Tokens, l \in Levels, size \in {0, 1}, sound \in BOOLEAN :
    /\ Changed(market[t], l, size) # market[t]
    /\ Sends([kind |-> "change", token |-> t, level |-> l, size |-> size,
              hash |-> Changed(market[t], l, size), sound |-> sound])

ExchangeTrades ==
  \E t \in Tokens, sound \in BOOLEAN :
    Sends([SnapshotOf(t, sound) EXCEPT !.kind = "trade"])

-----------------------------------------------------------------------------
(* The connection.  Subscribing makes the exchange send a snapshot of each *)
(* token before anything else of that token.                               *)

WsConnects ==
  /\ ws = "waiting"
  /\ connections < MaxConnections
  /\ connections' = connections + 1
  /\ ws' = "connected"
  /\ \E order \in SetToSeqs(subscribed), sound \in [subscribed -> BOOLEAN] :
       wire' = [i \in 1 .. Len(order) |-> SnapshotOf(order[i], sound[order[i]])]
  /\ UNCHANGED <<market, sent, subscribed, book, gapTokens, torn>>

(* What the exchange sends until the next connection is not replayed.      *)
WsDrops ==
  /\ ws = "connected"
  /\ ws' = "waiting"
  /\ wire' = << >>
  /\ UNCHANGED <<market, sent, subscribed, book, gapTokens, connections, torn>>

-----------------------------------------------------------------------------
(* OrderbookManager.process_event().                                       *)

ApplySnapshot_Merged(b, f) ==
  [levels |-> b.levels \cup f.hash, hash |-> f.hash, synced |-> TRUE]

ApplySnapshot(b, f) == [levels |-> f.hash, hash |-> f.hash, synced |-> TRUE]

ApplyPriceChange(b, f) ==
  [b EXCEPT !.levels = Changed(@, f.level, f.size), !.hash = f.hash]

IsGap(f) == f.kind = "change" /\ ~book[f.token].synced

Processed(f) ==
  LET b == book[f.token]
  IN  IF IsGap(f) THEN [b EXCEPT !.synced = FALSE]
      ELSE CASE f.kind = "book"   -> ApplySnapshot(b, f)
             [] f.kind = "change" -> ApplyPriceChange(b, f)
             [] f.kind = "trade"  -> b

(* float() raises in the middle: some levels may be the new ones already   *)
(* (of a snapshot, the bids but not the asks), the hash and `synced` are   *)
(* the old ones.  An unsynced book is not read that far.                   *)
HalfProcessed(f) ==
  LET b   == book[f.token]
      new == Processed(f).levels
  IN  {[b EXCEPT !.levels = l] :
         l \in {s \in SUBSET (b.levels \cup new) : b.levels \cap new \subseteq s}}

ProcessEvent(f) ==
  /\ IF f.sound \/ IsGap(f)
     THEN /\ book' = [book EXCEPT ![f.token] = Processed(f)]
          /\ gapTokens' = IF IsGap(f) THEN gapTokens \cup {f.token} ELSE gapTokens
          /\ torn' = IF f.kind = "book" THEN torn \ {f.token} ELSE torn
     ELSE /\ \E b \in HalfProcessed(f) : book' = [book EXCEPT ![f.token] = b]
          /\ torn' = IF f.kind = "trade" THEN torn ELSE torn \cup {f.token}
          /\ UNCHANGED gapTokens

(* Whether process_event() returns a summary to be persisted. *)
Summarised(f) == f.sound \/ IsGap(f)

-----------------------------------------------------------------------------
(* Properties of the books.                                                *)

(* A synced book is the exchange's book as of the last frame that changed  *)
(* it: nothing of an older connection, of a gap or of a removed level is   *)
(* left in it.  The manager stores the hash that says so and compares it   *)
(* never (orderbook_manager.py:135-165); what it cannot see are the frames *)
(* that raised after the last snapshot.                                    *)
SyncedIsReplica ==
  \A t \in Tokens : book[t].synced /\ t \notin torn => book[t].levels = book[t].hash
=============================================================================
