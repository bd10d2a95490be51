------------------------------- MODULE LpData -------------------------------
(***************************************************************************)
(* A linear program under presolve (presolve/transforms/state.rs), the        *)
(* activity of its rows (presolve/activity.rs), and what it means.            *)
(*                                                                         *)
(* An LP is a record: coefficients a, right-hand sides b, kinds of the rows,  *)
(* bounds lo and hi, costs c, the rows and columns not yet removed, and the   *)
(* constant off that removed columns add to the objective.                   *)
(*                                                                         *)
(* The code computes with floats.  Here coefficients are -1, 0 or 1 and the   *)
(* matrices totally unimodular, so that every quotient is a product, every    *)
(* vertex, ray and dual is integral, and tolerances play no part.            *)
(***************************************************************************)
EXTENDS Integers, Sequences, FiniteSets, FiniteSetsExt, Functions

CONSTANTS
  Rows, Cols,     \* indices
  Inf,            \* the infinite bound
  Reach           \* every vertex, and every dual one, is in -Reach..Reach

ASSUME LpDataAssumption ==
  /\ Rows \subseteq Nat /\ IsFiniteSet(Rows)
  /\ Cols \subseteq Nat /\ IsFiniteSet(Cols)
  /\ Reach \in Nat /\ Inf \in Nat /\ Inf > Reach

IsFinite(v) == v # Inf /\ v # -Inf

\* The columns of a row and the rows of a column, of those not removed.
RowCols(lp, i) == {j \in lp.cols : lp.a[i][j] # 0}
ColRows(lp, j) == {i \in lp.rows : lp.a[i][j] # 0}

IsFree(lp, j) == lp.lo[j] = -Inf /\ lp.hi[j] = Inf

-----------------------------------------------------------------------------
(* Activity *)

\* The bounds at which a column contributes least and most to a row.
Least(lp, i, j) == IF lp.a[i][j] > 0 THEN lp.lo[j] ELSE lp.hi[j]
Most(lp, i, j) == IF lp.a[i][j] > 0 THEN lp.hi[j] ELSE lp.lo[j]

\* activity_range over the columns S of row i.
MinFinite(lp, i, S) == \A j \in S : IsFinite(Least(lp, i, j))
MaxFinite(lp, i, S) == \A j \in S : IsFinite(Most(lp, i, j))
MinActivity(lp, i, S) == SumFunction([j \in S |-> lp.a[i][j] * Least(lp, i, j)])
MaxActivity(lp, i, S) == SumFunction([j \in S |-> lp.a[i][j] * Most(lp, i, j)])

\* propagate_row_bounds: what row i says of column j when the others are
\* where they contribute least, for "<=", or most, for ">=".
Implied(lp, i, j) ==
  LET rest == RowCols(lp, i) \ {j}
      atLeast == IF lp.kind[i] # "Ge" /\ MinFinite(lp, i, rest)
                 THEN {(lp.b[i] - MinActivity(lp, i, rest)) * lp.a[i][j]} ELSE {}
      atMost == IF lp.kind[i] # "Le" /\ MaxFinite(lp, i, rest)
                THEN {(lp.b[i] - MaxActivity(lp, i, rest)) * lp.a[i][j]} ELSE {}
      caps == IF lp.a[i][j] > 0 THEN atLeast ELSE atMost
      floors == IF lp.a[i][j] > 0 THEN atMost ELSE atLeast
  IN  [lo |-> Max({lp.lo[j]} \cup floors), hi |-> Min({lp.hi[j]} \cup caps)]

-----------------------------------------------------------------------------
(* Operations shared by the reductions *)

\* Columns leave the problem at the values v (FixedVariable, fix_and_remove).
FixColumns(lp, v) ==
  LET S == DOMAIN v
  IN  [lp EXCEPT
        !.b = [i \in Rows |-> IF i \in lp.rows
                 THEN @[i] - SumFunction([j \in S |-> lp.a[i][j] * v[j]]) ELSE @[i]],
        !.off = @ + SumFunction([j \in S |-> lp.c[j] * v[j]]),
        !.cols = @ \ S]

DropRow(lp, i) == [lp EXCEPT !.rows = @ \ {i}]

\* eliminate_variable_via_eq_row: column j is replaced by its value in row i.
Eliminate(lp, i, j) ==
  LET p == lp.a[i][j]
      others == RowCols(lp, i) \ {j}
      touched == ColRows(lp, j) \ {i}
  IN  [lp EXCEPT
        !.b = [r \in Rows |-> IF r \in touched
                 THEN @[r] - lp.a[r][j] * lp.b[i] * p ELSE @[r]],
        !.a = [r \in Rows |-> [k \in Cols |->
                 IF r \notin touched THEN @[r][k]
                 ELSE IF k = j THEN 0
                 ELSE IF k \in others THEN @[r][k] - lp.a[r][j] * lp.a[i][k] * p
                 ELSE @[r][k]]],
        !.c = [k \in Cols |->
                 IF k = j THEN 0
                 ELSE IF k \in others THEN @[k] - lp.c[j] * lp.a[i][k] * p
                 ELSE @[k]],
        !.off = @ + lp.c[j] * lp.b[i] * p,
        !.rows = @ \ {i},
        !.cols = @ \ {j}]

\* fill_in_exceeds_budget: more new entries than entries that go.
TooMuchFill(lp, i, j) ==
  LET others == Cardinality(RowCols(lp, i) \ {j})
      touched == Cardinality(ColRows(lp, j) \ {i})
  IN  others * touched > 1 + others + touched

-----------------------------------------------------------------------------
(* What a linear program means *)

Activity(lp, i, x) == SumFunction([j \in lp.cols |-> lp.a[i][j] * x[j]])

Compare(kind, v, w) ==
  CASE kind = "Le" -> v <= w [] kind = "Ge" -> v >= w [] kind = "Eq" -> v = w

InBox(lp, x) ==
  \A j \in Cols :
    IF j \in lp.cols THEN lp.lo[j] <= x[j] /\ x[j] <= lp.hi[j] ELSE x[j] = 0

IsFeasible(lp, x) ==
  InBox(lp, x) /\ \A i \in lp.rows : Compare(lp.kind[i], Activity(lp, i, x), lp.b[i])

Cost(lp, x) == SumFunction([j \in lp.cols |-> lp.c[j] * x[j]])

Points(lp) == {x \in [Cols -> -Reach..Reach] : IsFeasible(lp, x)}

\* A direction of the region along which the objective falls without end.
IsDescentRay(lp, d) ==
  /\ \A j \in Cols :
       /\ (j \notin lp.cols \/ IsFinite(lp.lo[j])) => d[j] >= 0
       /\ (j \notin lp.cols \/ IsFinite(lp.hi[j])) => d[j] <= 0
  /\ \A i \in lp.rows : Compare(lp.kind[i], Activity(lp, i, d), 0)
  /\ Cost(lp, d) < 0

HasDescentRay(lp) == \E d \in [Cols -> -1..1] : IsDescentRay(lp, d)

\* The optimum with the constant: infeasible, unbounded, or a value.
Optimum(lp) ==
  LET points == Points(lp)
  IN  IF points = {} THEN [kind |-> "infeasible", value |-> 0]
      ELSE IF HasDescentRay(lp) THEN [kind |-> "unbounded", value |-> 0]
      ELSE [kind |-> "finite", value |-> Min({Cost(lp, x) : x \in points}) + lp.off]

\* Reduced costs, and the sign each must have (dfeas_bound, postsolve.rs).
ReducedCost(lp, y, j) == lp.c[j] - SumFunction([i \in lp.rows |-> lp.a[i][j] * y[i]])

DualFeasibleAt(lp, x, y, j) ==
  LET rc == ReducedCost(lp, y, j)
      atLo == x[j] = lp.lo[j]
      atHi == x[j] = lp.hi[j]
  IN  \/ lp.lo[j] = lp.hi[j]
      \/ atLo /\ rc >= 0
      \/ atHi /\ rc <= 0
      \/ rc = 0

DualFeasible(lp, x, y) == \A j \in lp.cols : DualFeasibleAt(lp, x, y, j)

\* prove_optimal_lp: the optimality conditions of x with the row duals y.
IsOptimalPair(lp, x, y) ==
  /\ IsFeasible(lp, x)
  /\ DualFeasible(lp, x, y)
  /\ \A i \in lp.rows :
       /\ lp.kind[i] = "Le" => y[i] <= 0
       /\ lp.kind[i] = "Ge" => y[i] >= 0
       /\ y[i] # 0 => Activity(lp, i, x) = lp.b[i]
=============================================================================
