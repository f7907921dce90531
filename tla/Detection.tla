----------------------------- MODULE Detection -----------------------------
(***************************************************************************)
(* Motors 1 and 3 over the markets that discovery found: the pairs and the *)
(* neg-risk sets they record, the de-duplication of motor 3, and the       *)
(* opportunities motor 1 hands to its executor one after another.          *)
(*                                                                         *)
(* A tick reads every book between two awaits, so it is one step; what the *)
(* books show, the risk decision and the outcome of the commit are inputs  *)
(* of the step.  What execute() does is ArbExecution.                      *)
(***************************************************************************)
EXTENDS Discovery, Fees, FiniteSetsExt

CONSTANTS
  Books,      \* what the books may show: market -> [yes, no, size], ask 0 when unsynced or empty
  FeeBps,     \* FEE_RATE_BPS
  MinEdge,    \* MIN_EDGE_PCT
  MaxEdge,    \* MIN_EDGE_PCT_MAX
  MinSize,    \* MIN_LIQUIDITY_CONTRACTS
  MaxTrade,   \* max_trade_size_usd(), in hundredths of a cent
  None

Directions == {"buy_yes_all", "buy_no_all"}
Keys       == Groups \X Directions

ASSUME DetectionAssumption ==
  /\ \A books \in Books :
       books \in [MarketIds -> [yes : 0 .. 99, no : 0 .. 99, size : Nat]]
  /\ {FeeBps, MinSize, MaxTrade} \subseteq Nat
  /\ MinEdge \in Nat \ {0} /\ MaxEdge \in Nat

VARIABLES
  remembered,  \* motor 3 _last_recorded: fingerprint of a group and direction, or None
  stored,      \* history: the last row of a group and direction, or None
  lost,        \* history: keys remembered by a tick whose commit failed, not remembered anew since
  opps,        \* opportunities of motor 1 still to be executed
  rows         \* history: rows "shadow_recorded" that motor 1's last committed tick added

motors == <<remembered, stored, lost, opps, rows>>
vars   == <<discovery, motors>>

(* Hundredths of a contract, the nearest to what the limit of a trade      *)
(* allows: half a hundredth above it at most, and then more than it.       *)
SizeOf(depth, cost) == Min({100 * depth, Rounded(Cent * MaxTrade, cost)})

(* The order in which both motors classify an edge. *)
StatusOf(tooHigh, depth, approved) ==
  CASE tooHigh         -> "edge_too_high"
    [] depth < MinSize -> "low_liquidity"
    [] ~approved       -> "risk_blocked"
    [] OTHER           -> "shadow_recorded"

Sized(status) == status \in {"risk_blocked", "shadow_recorded"}

-----------------------------------------------------------------------------
(* Motor 3: evaluate_group().                                              *)

(* _legs_from_books() *)
Quotes(g, d, books) ==
  [m \in Legs(g, watched) |-> IF d = "buy_yes_all" THEN books[m].yes ELSE books[m].no]

NoWindow(g, d, books) ==
  LET asks == Quotes(g, d, books)
  IN  \/ Cardinality(DOMAIN asks) < MinLegs
      \/ \E m \in DOMAIN asks : asks[m] = 0
      \/ NetPct(d, asks, FeeBps) < Percent * MinEdge

Window(g, d, books, approved) ==
  IF NoWindow(g, d, books) THEN None
  ELSE LET asks   == Quotes(g, d, books)
           net    == NetPct(d, asks, FeeBps)
           depth  == Min({books[m].size : m \in DOMAIN asks})
           status == StatusOf(net > Percent * MaxEdge, depth, approved)
       IN  [status |-> status, asks |-> asks, net |-> net,
            size |-> IF Sized(status) THEN SizeOf(depth, SetCost(asks)) ELSE 0]

Fingerprint(w) == <<w.net, w.size>>

(* The windows that are not duplicates. *)
Fresh(windows) ==
  {k \in Keys : windows[k] # None /\ remembered[k] # Fingerprint(windows[k])}

(* The fingerprints are remembered before the session opens. *)
Remembers_OnlyRecorded(windows, fresh) ==
  remembered' = [k \in Keys |-> IF k \in fresh /\ windows[k].status = "shadow_recorded"
                                THEN Fingerprint(windows[k]) ELSE remembered[k]]

Remembers(windows, fresh) ==
  remembered' = [k \in Keys |-> IF k \in fresh THEN Fingerprint(windows[k]) ELSE remembered[k]]

SetTick(books, approved, commits) ==
  LET windows == [k \in Keys |-> Window(k[1], k[2], books, k \in approved)]
      fresh   == Fresh(windows)
  IN  /\ phase = "done"
      /\ Remembers(windows, fresh)
      /\ stored' = IF commits THEN [k \in Keys |-> IF k \in fresh THEN windows[k] ELSE stored[k]]
                   ELSE stored
      /\ lost' = IF commits THEN lost \ fresh ELSE lost \cup fresh
      /\ UNCHANGED <<discovery, opps, rows>>

-----------------------------------------------------------------------------
(* Motor 1: evaluate_market(), tick() and run().                           *)

HasPair(m, books) ==
  /\ books[m].yes # 0 /\ books[m].no # 0
  /\ PairEdge(books[m].yes, books[m].no, FeeBps) >= Percent * MinEdge

PairStatus(m, books, approved) ==
  StatusOf(PairEdge(books[m].yes, books[m].no, FeeBps) > Percent * MaxEdge, books[m].size, approved)

Opportunity(m, books) ==
  [market |-> m, yes |-> books[m].yes, no |-> books[m].no,
   size |-> SizeOf(books[m].size, Cent * (books[m].yes + books[m].no))]

Recorded(books, approved) ==
  {Opportunity(m, books) : m \in {x \in watched : HasPair(x, books)
                                    /\ PairStatus(x, books, x \in approved) = "shadow_recorded"}}

(* A commit that fails is an exception: the opportunities die with it. *)
ToExecute_Uncommitted(recorded, commits) == recorded

ToExecute(recorded, commits) == IF commits THEN recorded ELSE {}

(* The next tick comes when the executions of this one are over. *)
PairTick(books, approved, commits) ==
  /\ phase = "done"
  /\ opps = {}
  /\ opps' = ToExecute(Recorded(books, approved), commits)
  /\ rows' = IF commits THEN Recorded(books, approved) ELSE rows
  /\ UNCHANGED <<discovery, remembered, stored, lost>>

(* Each is executed in its turn across awaits, or an exception of the      *)
(* executor ends the tick.                                                 *)
Executes(o) ==
  /\ o \in opps
  /\ \/ opps' = opps \ {o}
     \/ opps' = {}
  /\ UNCHANGED <<discovery, remembered, stored, lost, rows>>

-----------------------------------------------------------------------------
Init ==
  /\ DiscoveryInit
  /\ remembered = [k \in Keys |-> None]
  /\ stored = [k \in Keys |-> None]
  /\ lost = {}
  /\ opps = {}
  /\ rows = {}

Next ==
  \/ DiscoveryNext /\ UNCHANGED motors
  \/ \E books \in Books, commits \in BOOLEAN :
       \/ \E approved \in SUBSET {k \in Keys : ~NoWindow(k[1], k[2], books)} :
            SetTick(books, approved, commits)
       \/ \E approved \in SUBSET {m \in watched : HasPair(m, books)} :
            PairTick(books, approved, commits)
  \/ \E o \in opps : Executes(o)

Spec == Init /\ [][Next]_vars

-----------------------------------------------------------------------------
(* What a set of legs pays when outcome w wins, in millionths of a dollar. *)
Pays(k, asks, w) ==
  Dollar * Cardinality({m \in DOMAIN asks : (m = w) <=> (k[2] = "buy_yes_all")})

(* What it costs: the asks, and per leg the fee and the slippage buffer. *)
Costs(asks) ==
  SumFunction([m \in DOMAIN asks |-> Cent * asks[m] + ClobFee(asks[m], FeeBps) + Slippage])

(* Whichever outcome of its group wins, of all that were listed when       *)
(* discovery ended, a window that motor 3 stored as a shadow trade pays    *)
(* more than it costs, however the group was cut into pages while markets  *)
(* opened and closed.  It needs the neg-risk source: the other ones watch  *)
(* parts of groups, and motor 3 evaluates these too                        *)
(* (data_capture.py:195-274, motor_3_neg_risk/engine.py:12, 198-208).      *)
RecordedIsArbitrage ==
  \A k \in Keys :
    /\ source = "neg_risk"
    /\ stored[k] # None
    /\ stored[k].status = "shadow_recorded"
    => \A w \in Legs(k[1], members) : Pays(k, stored[k].asks, w) > Costs(stored[k].asks)

(* A fingerprint in memory is that of the last row of its key, unless the  *)
(* commit that should have written it failed (engine.py:216-251).          *)
RememberedIsStored ==
  \A k \in Keys \ lost :
    remembered[k] # None => stored[k] # None /\ remembered[k] = Fingerprint(stored[k])

(* What motor 1 goes on to execute was committed by its last tick, pays a  *)
(* dollar for less than a dollar with its fees and no more than the        *)
(* anti-phantom filter believes, and exceeds the limit of a trade by no    *)
(* more than the rounding of its size, half a hundredth of a pair.  It may *)
(* exceed it by that: check_and_reserve() then refuses what the tick       *)
(* recorded as approved (engine.py:104-133, 172-182, 202-236;              *)
(* manager.py:213).                                                        *)
ExecutedWasRecorded ==
  \A o \in opps :
    /\ o \in rows
    /\ LET left == Dollar - Cent * (o.yes + o.no) - ClobFee(o.yes, FeeBps) - ClobFee(o.no, FeeBps)
       IN  left > 0 /\ left - Slippage =< Percent * MaxEdge
    /\ 2 * o.size * (o.yes + o.no) =< 2 * MaxTrade + (o.yes + o.no)

=============================================================================
