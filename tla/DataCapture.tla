----------------------------- MODULE DataCapture -----------------------------
(***************************************************************************)
(* Data capture, src/strategies/data_capture.py, on top of the books it    *)
(* owns: discovery of markets, one row per book event through a buffer,    *)
(* a snapshot row per market, and its life under the runner.               *)
(*                                                                         *)
(* Rows are numbered in the order of the events they summarise.  The       *)
(* buffer and the books belong to the service object, which the runner     *)
(* starts again after a crash; only the process' end loses them.           *)
(***************************************************************************)
EXTENDS OrderbookFeed

CONSTANT FlushAt     \* 200

ASSUME BufferAssumption == FlushAt \in Nat \ {0}

VARIABLES
  svc,       \* "discovering", "empty", "running", "crashed", "returned"
  watched,   \* tokens of the watched markets
  reported,  \* BotState.ws_connected
  rows,      \* rows made so far
  buffer,    \* _event_buffer
  stored,    \* OrderbookEvent rows in the database
  lost       \* history: rows of failed commits and of a dead process

capture == <<svc, watched, reported>>
records == <<rows, buffer, stored, lost>>
vars == <<feedVars, capture, records>>

TypeOK ==
  /\ FeedTypeOK
  /\ svc \in {"discovering", "empty", "running", "crashed", "returned"}
  /\ watched \subseteq Tokens
  /\ reported \in BOOLEAN
  /\ ws # "off" <=> svc = "running"   \* the client lives as long as the loop
  /\ rows \in Nat
  /\ buffer \in Seq(Nat)
  /\ stored \in Seq(Nat)
  /\ lost \subseteq Nat

Init ==
  /\ FeedInit
  /\ svc = "discovering"
  /\ watched = {}
  /\ reported = FALSE
  /\ rows = 0
  /\ buffer = << >>
  /\ stored = << >>
  /\ lost = {}

-----------------------------------------------------------------------------
(* The buffer.                                                             *)

(* _flush_events_locked() of buffer b: it is emptied before the commit, so *)
(* that a commit that fails loses it; `ok` says whether it failed.         *)
Flush_KeptOnFailure(b, ok) ==
  /\ buffer' = IF ok THEN << >> ELSE b
  /\ stored' = IF ok THEN stored \o b ELSE stored
  /\ UNCHANGED lost

Flush(b, ok) ==
  /\ buffer' = << >>
  /\ stored' = IF ok THEN stored \o b ELSE stored
  /\ lost' = IF ok THEN lost ELSE lost \cup ToSet(b)

(* on_ws_event(): a failed flush is an exception of the handler, which the *)
(* WebSocket client logs and forgets.                                      *)
OnWsEvent ==
  /\ ws = "connected"
  /\ wire # << >>
  /\ wire' = Tail(wire)
  /\ ProcessEvent(Head(wire))
  /\ IF Summarised(Head(wire))
     THEN /\ rows' = rows + 1
          /\ LET b == Append(buffer, rows + 1)
             IN  IF Len(b) >= FlushAt
                 THEN \E ok \in BOOLEAN : Flush(b, ok)
                 ELSE buffer' = b /\ UNCHANGED <<stored, lost>>
     ELSE UNCHANGED records
  /\ UNCHANGED <<market, sent, connections, ws, subscribed, capture>>

-----------------------------------------------------------------------------
(* run().                                                                  *)

Discovers_OldClient(found) ==
  /\ svc = "discovering"
  /\ watched' = found
  /\ svc' = IF found = {} THEN "empty" ELSE "running"
  /\ ws' = IF found = {} THEN ws ELSE "waiting"
  /\ subscribed' = IF subscribed = {} THEN found ELSE subscribed
  /\ UNCHANGED <<market, sent, wire, book, gapTokens, connections, torn, reported, records>>

(* A new client for the markets found now; books of earlier ones stay. *)
Discovers(found) ==
  /\ svc = "discovering"
  /\ watched' = found
  /\ svc' = IF found = {} THEN "empty" ELSE "running"
  /\ ws' = IF found = {} THEN ws ELSE "waiting"
  /\ subscribed' = IF found = {} THEN subscribed ELSE found
  /\ UNCHANGED <<market, sent, wire, book, gapTokens, connections, torn, reported, records>>

DiscoveryFails ==
  /\ svc = "discovering"
  /\ svc' = "crashed"
  /\ UNCHANGED <<feedVars, watched, reported, records>>

GivesUpEmpty ==
  /\ svc = "empty"
  /\ svc' = "returned"
  /\ UNCHANGED <<feedVars, watched, reported, records>>

WindsDown_ClientLeft ==
  /\ reported' = FALSE
  /\ UNCHANGED <<feedVars, watched, rows>>

(* The `finally` of run(): the client is cancelled, what arrived until     *)
(* then is flushed.                                                        *)
WindsDown ==
  /\ reported' = FALSE
  /\ ws' = "off"
  /\ wire' = << >>
  /\ UNCHANGED <<market, sent, subscribed, book, gapTokens, connections, torn, watched, rows>>

(* Every five seconds: flush, and a snapshot of the markets when due. *)
LoopPasses ==
  /\ svc = "running"
  /\ reported' = (ws = "connected")
  /\ Flush(buffer, TRUE)
  /\ UNCHANGED <<feedVars, svc, watched, rows>>

(* The commit of the flush fails, or that of the snapshots after a flush   *)
(* that did not; either way the final flush finds an empty buffer.         *)
LoopRaises(ok) ==
  /\ svc = "running"
  /\ svc' = "crashed"
  /\ Flush(buffer, ok)
  /\ WindsDown

Stops(ok) ==
  /\ svc = "running"
  /\ svc' = "returned"
  /\ Flush(buffer, ok)
  /\ WindsDown

RunnerRestarts ==
  /\ svc = "crashed"
  /\ svc' = "discovering"
  /\ UNCHANGED <<feedVars, watched, reported, records>>

(* The process dies and the container starts a new one. *)
ProcessDies ==
  /\ svc' = "discovering"
  /\ watched' = {}
  /\ reported' = FALSE
  /\ ws' = "off"
  /\ subscribed' = {}
  /\ wire' = << >>
  /\ book' = [t \in Tokens |-> NewBook]
  /\ gapTokens' = {}
  /\ torn' = {}
  /\ buffer' = << >>
  /\ lost' = lost \cup ToSet(buffer)
  /\ UNCHANGED <<market, sent, connections, rows, stored>>

FeedStep ==
  /\ ExchangeChanges \/ ExchangeTrades \/ WsConnects \/ WsDrops
  /\ UNCHANGED <<capture, records>>

Next ==
  \/ FeedStep
  \/ OnWsEvent
  \/ \E found \in SUBSET Tokens : Discovers(found)
  \/ DiscoveryFails
  \/ GivesUpEmpty
  \/ LoopPasses
  \/ \E ok \in BOOLEAN : LoopRaises(ok) \/ Stops(ok)
  \/ RunnerRestarts
  \/ ProcessDies

Spec == Init /\ [][Next]_vars

-----------------------------------------------------------------------------
(* Properties.                                                             *)

(* Every row made is in exactly one place: in the buffer, in the database, *)
(* or lost with a commit that failed or a process that died; crash and     *)
(* restart of the service alone lose none.  Table and buffer keep the      *)
(* order of the events, so none is doubled, and a database that keeps      *)
(* failing does not make the buffer grow (data_capture.py:305-321, 403).   *)
RowsAccountedFor ==
  LET all == stored \o buffer
  IN  /\ 1 .. rows = ToSet(all) \cup lost
      /\ lost \cap ToSet(all) = {}
      /\ \A i, j \in 1 .. Len(all) : i < j => all[i] < all[j]
      /\ Len(buffer) < FlushAt

(* When nothing is on its way, the book of a watched token is the          *)
(* exchange's: a new connection makes good for whatever was missed before  *)
(* it, in whichever run of the service.  Between the fall of a connection  *)
(* and the new snapshot the book goes on being synced, and until it is     *)
(* asked for again a token whose snapshot raised stays without one         *)
(* (polymarket_ws.py:13, data_capture.py:363-369).                         *)
ConnectedMeansCurrent ==
  \A t \in watched :
    ws = "connected" /\ wire = << >> /\ t \notin torn =>
      book[t].synced /\ book[t].levels = market[t]
=============================================================================
