------------------------------ MODULE GapTest ------------------------------
(***************************************************************************)
(* The pruning test both branch-and-bound families share: the mixed-integer *)
(* searches and the global QP search.  An objective or a bound is an         *)
(* integer; Inf stands for the infinite float (no incumbent), -Inf for the   *)
(* bound of a region nothing is known of.                                    *)
(* Source: otspot-core/src/qp/global/pruning.rs.                             *)
(***************************************************************************)
EXTENDS Integers

CONSTANTS
  Inf,               \* +infinity
  GapNum, GapDen     \* gap_tol = GapNum / GapDen

\* `gap_tol >= 0`; a tolerance above 1 would let a later, better incumbent
\* promise more than the pruning done for an earlier one can keep.
ASSUME GapAssumption ==
  /\ Inf \in Int /\ Inf > 0
  /\ GapNum \in Nat /\ GapDen \in Nat \ {0}
  /\ GapNum <= GapDen

Lesser(a, b) == IF a <= b THEN a ELSE b
Greater(a, b) == IF a <= b THEN b ELSE a
IsFinite(v) == -Inf < v /\ v < Inf

\* max(1, |incumbent|)
Scale(v) == Greater(1, Greater(v, -v))

\* (incumbent - lower_bound) / scale <= gap_tol, never for an infinite operand.
WithinGap(inc, lb) ==
  /\ IsFinite(inc) /\ IsFinite(lb)
  /\ (inc - lb) * GapDen <= GapNum * Scale(inc)

\* What gap_tol promises of a claimed objective: no value is further below it.
Tolerated(obj, v) == (obj - v) * GapDen <= GapNum * Scale(obj)

\* Without an incumbent (inc = Inf) nothing is pruned.
ShouldPrune(lb, inc) == WithinGap(inc, lb)

=============================================================================
