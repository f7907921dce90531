------------------------------ MODULE RiskGate ------------------------------
(***************************************************************************)
(* What the rest of the bot relies on when it talks to the risk manager    *)
(* (src/risk/manager.py), without saying how losses, pauses or clocks are  *)
(* kept: capital is committed only through an open gate and only within    *)
(* the exposure limit, and a killed gate is reopened by a human alone.     *)
(*                                                                         *)
(* RiskManager.tla and ArbExecution.tla are both checked, and proved, to   *)
(* implement this specification.                                           *)
(***************************************************************************)
EXTENDS Integers

CONSTANT MaxExposure  \* max_exposure_usd(): 25% of the active capital

VARIABLES
  gate,    \* "open", "paused" (until some instant) or "killed"
  booked,  \* exposure of the open Position rows
  held     \* exposure reserved by the trading process, not yet a Position

vars == <<gate, booked, held>>

Gates == {"open", "paused", "killed"}

Init ==
  /\ gate \in Gates
  /\ booked \in Nat
  /\ held = 0

(* check_and_reserve() approves: nothing else may raise `held`. *)
Approve ==
  /\ gate = "open"
  /\ held' > held
  /\ booked + held' =< MaxExposure
  /\ UNCHANGED <<gate, booked>>

(* release_reservation(), or a restart: reservations live in memory. *)
Return ==
  /\ held' \in 0 .. held
  /\ UNCHANGED <<gate, booked>>

(* A fill becomes a Position, or a Position is settled.  A fill is booked  *)
(* whatever the gate says and may carry the total over the limit: only     *)
(* Approve is bound by it.                                                 *)
Rebook ==
  /\ booked' \in Nat
  /\ held' \in 0 .. held
  /\ UNCHANGED gate

(* A pause, a stop-loss or the kill switch. *)
Closes ==
  /\ gate' \in {"paused", "killed"}
  /\ gate = "killed" => gate' = "killed"

(* The pause expires or a human lifts it. *)
Reopens ==
  /\ gate = "paused"
  /\ gate' = "open"

(* scripts/clear_kill_switch.py: a pause still running stays in force. *)
HumanClears ==
  /\ gate = "killed"
  /\ gate' \in {"open", "paused"}

GateTurns == Closes \/ Reopens \/ HumanClears

Turn == GateTurns /\ UNCHANGED <<booked, held>>

Next == Approve \/ Return \/ Rebook \/ Turn

Spec == Init /\ [][Next]_vars
=============================================================================
