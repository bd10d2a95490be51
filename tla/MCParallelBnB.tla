--------------------------- MODULE MCParallelBnB ---------------------------
(* ParallelBnB on problems with one integer variable, the value of a point     *)
(* that is not feasible being never looked at, and SharedIncumbent, which it   *)
(* takes for an atomic register: one of them at a time.                       *)
EXTENDS ParallelBnB, SharedIncumbent, TLC

CONSTANT Parts   \* of "search", "incumbent"

VARIABLE part

\* Three points, the best in the middle.
ThreePoints == 0..2
ValueValley == [p \in ThreePoints |-> <<5, 3, 4>>[p + 1]]

\* Three points, the middle one infeasible.
OuterPoints == {0, 2}
ValueOuter == [p \in OuterPoints |-> p + 3]

\* Four points, one of them infeasible.
FourPoints == 0..3
FourFeasible == {0, 1, 3}
ValueFour == [p \in FourFeasible |-> <<4, 3, 0, 5>>[p + 1]]

\* No feasible point at all.
NoPoints == {}
ValueNowhere == [p \in {} |-> 0]

Symmetry == Permutations(Workers) \cup Permutations(Threads)

\* The one that is not looked at does not move.
MCInit ==
  /\ part \in Parts
  /\ Init /\ (part = "incumbent" => best = Inf)
  /\ IncumbentInit /\ (part = "search" => inner = Infinity)

MCNext ==
  \/ part = "search" /\ Next /\ UNCHANGED <<part, incumbentVars>>
  \/ part = "incumbent" /\ IncumbentNext /\ UNCHANGED <<part, vars>>

MCSpec == MCInit /\ [][MCNext]_<<part, vars, incumbentVars>>
=============================================================================
