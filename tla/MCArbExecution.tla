--------------------------- MODULE MCArbExecution ---------------------------
(* Instances of ArbExecution: one pair in two lots a leg, so that fills    *)
(* are partial, or two pairs of one lot in the same market, so that their  *)
(* positions merge and the second one meets the limit.                     *)
EXTENDS ArbExecution

Pair(yesPrice, noPrice, lots) ==
  [market |-> "m1", yes |-> yesPrice, no |-> noPrice, size |-> lots]

MCOnePair == {Pair(2, 1, 2)}

(* Within a limit of 5, a pair of 3 leaves room for one of 2, and for      *)
(* another of 3 only when it was rolled back or forgotten in a crash.      *)
MCTwoPairs == {Pair(2, 1, 1), Pair(1, 1, 1)}

(* The dearer pair comes first. *)
MCDearFirst == n > 0 => opp[1] = Pair(2, 1, 1)
=============================================================================
