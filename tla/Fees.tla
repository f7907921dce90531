-------------------------------- MODULE Fees --------------------------------
(***************************************************************************)
(* The cost model of src/math/fees.py.  Prices are in cents; fees, costs   *)
(* and edges are in millionths of a dollar, so that any fee in basis       *)
(* points of a price is a whole number.  Only what the code rounds is.     *)
(***************************************************************************)
EXTENDS Integers, FiniteSets, Functions

Dollar   == 1000000
Cent     == 10000
Percent  == 10000   \* of a dollar, and of what Percentage() returns
Slippage == 2000    \* DEFAULT_SLIPPAGE_BUFFER, of a leg

(* round(): a / b to the nearest whole number, to the even one of two. *)
Rounded(a, b) ==
  LET down == a \div b
      left == 2 * (a % b)
  IN  IF left > b \/ (left = b /\ down % 2 = 1) THEN down + 1 ELSE down

(* round(100 * a / b, 4), in ten-thousandths: a long division.             *)
Percentage(a, b) ==
  LET units == (100 * a) \div b
      left  == 100 * ((100 * a) % b)
  IN  Percent * units + 100 * (left \div b) + Rounded(100 * (left % b), b)

(* clob_fee() of one contract: on the cheap side of the price. *)
ClobFee(price, bps) == bps * (IF price < 100 - price THEN price ELSE 100 - price)

(* arb_edge_pct(): what is left of a dollar after a pair; the buffer is    *)
(* charged once.                                                           *)
PairEdge(yes, no, bps) ==
  Dollar - Cent * (yes + no) - ClobFee(yes, bps) - ClobFee(no, bps) - Slippage

(* multi_outcome_edge() of a set of legs, a function from legs to asks. *)
SetCost(asks) == SumFunction([l \in DOMAIN asks |-> Cent * asks[l]])

SetFees(asks, bps) ==
  SumFunction([l \in DOMAIN asks |-> ClobFee(asks[l], bps) + Slippage])

SetPayout(direction, n) == IF direction = "buy_yes_all" THEN Dollar ELSE (n - 1) * Dollar

SetEdge(direction, asks, bps) ==
  SetPayout(direction, Cardinality(DOMAIN asks)) - SetCost(asks) - SetFees(asks, bps)

(* net_edge_pct *)
NetPct(direction, asks, bps) == Percentage(SetEdge(direction, asks, bps), SetCost(asks))
=============================================================================
