--------------------------- MODULE MCConicRoutes ---------------------------
(* One integer variable over 0..2 (0..4 in halves) and two cells; problems with  *)
(* two, one or no points, one whose only integer is fixed at a half, one with a  *)
(* ray, and one without integer variables.                                      *)
EXTENDS ConicRoutes, TLC

CONSTANTS p0, p1, p2, p3

MCPoints == {p0, p1, p2, p3}
MCTwice == (p0 :> 0) @@ (p1 :> 2) @@ (p2 :> 4) @@ (p3 :> 2)
MCCell == (p0 :> 1) @@ (p1 :> 1) @@ (p2 :> 2) @@ (p3 :> 2)
MCValue == (p0 :> 5) @@ (p1 :> 4) @@ (p2 :> 6) @@ (p3 :> 2)

Box(lo, hi, first, last) == [lo |-> lo, hi |-> hi, first |-> first, last |-> last]
MCProblems ==
  {[box |-> Box(0, 4, 1, 2), ints |-> TRUE, ray |-> FALSE],
   [box |-> Box(0, 4, 1, 1), ints |-> TRUE, ray |-> FALSE],
   [box |-> Box(1, 1, 1, 2), ints |-> TRUE, ray |-> FALSE],
   [box |-> Box(1, 1, 1, 2), ints |-> TRUE, ray |-> TRUE],
   [box |-> Box(1, 4, 2, 2), ints |-> TRUE, ray |-> TRUE],
   [box |-> Box(0, 2, 1, 2), ints |-> FALSE, ray |-> FALSE],
   [box |-> Box(0, 0, 2, 2), ints |-> FALSE, ray |-> FALSE],
   [box |-> Box(0, 2, 1, 2), ints |-> FALSE, ray |-> TRUE]}
MCBounds == {1, 2, 4, 5, 6}
=============================================================================
