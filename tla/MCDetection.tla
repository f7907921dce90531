---------------------------- MODULE MCDetection ----------------------------
(* A catalogue of two groups and a plain market, cut into pages of two; the *)
(* last leg of the first group is a longshot that is listed late.           *)
EXTENDS Detection, TLC
CONSTANTS a1, a2, a3, b1, b2, p1, NoGroupId, A, B

MCCatalogue == <<a1, p1, b1, a2, b2, a3>>
MCGroupOf == [m \in {a1, a2, a3, b1, b2, p1} |->
                CASE m \in {a1, a2, a3} -> A [] m \in {b1, b2} -> B [] OTHER -> NoGroupId]

Quote(y, n, s) == [yes |-> y, no |-> n, size |-> s]

(* The whole group costs 94 cents without its longshot and 99 with it;     *)
(* then quotes that are too good, thin or missing, and a NO side that pays. *)
MCBooks ==
  {a1 :> Quote(50, 47, 10) @@ a2 :> Quote(44, 57, 20) @@ a3 :> Quote(5, 96, 9)
     @@ b1 :> Quote(48, 47, 3) @@ b2 :> Quote(48, 47, 8) @@ p1 :> Quote(40, 40, 9),
   a1 :> Quote(45, 60, 10) @@ a2 :> Quote(44, 57, 20) @@ a3 :> Quote(3, 98, 9)
     @@ b1 :> Quote(0, 47, 30) @@ b2 :> Quote(49, 47, 8) @@ p1 :> Quote(46, 49, 90)}
=============================================================================
