----------------------------- MODULE IntegerRows -----------------------------
(***************************************************************************)
(* What the root of a mixed-integer solve learns from the rows before any     *)
(* relaxation: bound propagation, probing of the binaries (mip/presolve.rs    *)
(* over presolve/activity.rs) and ordering rows for interchangeable binaries  *)
(* (mip/symmetry.rs).                                                        *)
(*                                                                         *)
(* A mixed-integer program is a program of LpData with the integer columns    *)
(* ints, whose rows are numbered from 1.  Its coefficients may be any         *)
(* integers, but those of a continuous column are -1, 0 or 1.                *)
(***************************************************************************)
EXTENDS LpData, SequencesExt

Magnitude(v) == IF v < 0 THEN -v ELSE v

RowOrder(lp) == [i \in 1..Cardinality(lp.rows) |-> i]

\* The elements of S in the order R, a set of pairs.
Sorted(S, R) ==
  CHOOSE s \in [1..Cardinality(S) -> S] : \A m, n \in DOMAIN s : m < n => <<s[m], s[n]>> \in R

\* The bounds of some column are crossed: what propagation reports as None.
IsEmptyBox(lp) == \E j \in lp.cols : lp.lo[j] > lp.hi[j]

-----------------------------------------------------------------------------
(* Propagation *)

\* How far a column may move in a row, rounded to its integers.
Room(v, q) == v \div q

\* propagate_row_bounds with the integer mask: Implied, for any coefficient.
ImpliedInteger(lp, i, j) ==
  LET q == Magnitude(lp.a[i][j])
      rest == RowCols(lp, i) \ {j}
      below == IF lp.kind[i] # "Ge" /\ MinFinite(lp, i, rest)
               THEN {Room(lp.b[i] - MinActivity(lp, i, rest), q)} ELSE {}
      above == IF lp.kind[i] # "Le" /\ MaxFinite(lp, i, rest)
               THEN {Room(MaxActivity(lp, i, rest) - lp.b[i], q)} ELSE {}
      caps == IF lp.a[i][j] > 0 THEN below ELSE above
      floors == {-v : v \in IF lp.a[i][j] > 0 THEN above ELSE below}
  IN  [lo |-> Max({lp.lo[j]} \cup floors), hi |-> Min({lp.hi[j]} \cup caps)]

WithBounds(lp, v) ==
  FoldSet(LAMBDA j, lq : [lq EXCEPT !.lo[j] = v[j].lo, !.hi[j] = v[j].hi], lp, DOMAIN v)

\* Every column of the row against the bounds the row started with.
PropagateRow(lp, i) ==
  WithBounds(lp, [j \in RowCols(lp, i) |-> ImpliedInteger(lp, i, j)])

\* propagation_pass: row after row, until one contradicts the bounds.
PropagationPass(lp) ==
  FoldLeft(LAMBDA lq, i : IF IsEmptyBox(lq) THEN lq ELSE PropagateRow(lq, i), lp, RowOrder(lp))

\* tighten_bounds_at_node, with its passes counted together.
Propagated(lp, passes) ==
  FoldLeft(LAMBDA lq, n : PropagationPass(lq), lp, [n \in 1..passes |-> n])

-----------------------------------------------------------------------------
(* Probing *)

IsBinary(lp, j) == j \in lp.ints /\ lp.lo[j] = 0 /\ lp.hi[j] = 1

FixedAt(lp, j, v) == WithBounds(lp, [k \in {j} |-> [lo |-> v, hi |-> v]])

LesserOf(v, w) == IF v <= w THEN v ELSE w
GreaterOf(v, w) == IF v <= w THEN w ELSE v

\* What both fixings of a binary imply of column k.
Envelope(lp, zero, one, k) ==
  [lo |-> GreaterOf(lp.lo[k], LesserOf(zero.lo[k], one.lo[k])),
   hi |-> LesserOf(lp.hi[k], GreaterOf(zero.hi[k], one.hi[k]))]

\* The columns whose bounds changed, apart from what a propagation did that
\* followed a fixing.
ProbeStep(s, j) ==
  LET zero == PropagationPass(FixedAt(s.lp, j, 0))
      one == PropagationPass(FixedAt(s.lp, j, 1))
      both == WithBounds(s.lp, [k \in s.lp.cols \ {j} |-> Envelope(s.lp, zero, one, k)])
      moved == {k \in s.lp.cols : both.lo[k] # s.lp.lo[k] \/ both.hi[k] # s.lp.hi[k]}
      \* with both fixings contradicted this leaves an empty box, as it should
      Forced(v) == [lp |-> PropagationPass(FixedAt(s.lp, j, v)), changed |-> s.changed \cup {j}]
  IN  IF IsEmptyBox(s.lp) \/ s.lp.lo[j] = s.lp.hi[j] THEN s
      ELSE IF IsEmptyBox(zero) THEN Forced(1)
      ELSE IF IsEmptyBox(one) THEN Forced(0)
      ELSE [lp |-> both, changed |-> s.changed \cup moved]

\* probing_pass over the candidates S.
Probed(lp, S) ==
  FoldLeft(ProbeStep, [lp |-> lp, changed |-> {}], Sorted(S, {p \in S \X S : p[1] < p[2]}))

-----------------------------------------------------------------------------
(* Symmetry *)

\* Binaries with the same column and the same cost.
Interchangeable(lp, j, k) ==
  /\ lp.c[j] = lp.c[k]
  /\ \A i \in lp.rows : lp.a[i][j] = lp.a[i][k]

\* Consecutive members of an orbit.
OrderedPairs(lp) ==
  LET orbit(j) == {k \in Cols : IsBinary(lp, k) /\ Interchangeable(lp, j, k)}
  IN  {p \in Cols \X Cols :
         /\ IsBinary(lp, p[1]) /\ p[1] < p[2] /\ p[2] \in orbit(p[1])
         /\ \A k \in orbit(p[1]) : ~(p[1] < k /\ k < p[2])}

\* A program with further rows [a, b, kind], after those it has.
WithRows(lp, new) ==
  [lp EXCEPT !.a = @ \o [n \in DOMAIN new |-> new[n].a],
             !.b = @ \o [n \in DOMAIN new |-> new[n].b],
             !.kind = @ \o [n \in DOMAIN new |-> new[n].kind],
             !.rows = 1..(Len(lp.a) + Len(new))]

\* break_symmetry: x_j - x_k >= 0 for each such pair.
OrderRow(p) ==
  [a |-> [j \in Cols |-> IF j = p[1] THEN 1 ELSE IF j = p[2] THEN -1 ELSE 0],
   b |-> 0, kind |-> "Ge"]

OrderRows(lp) == WithRows(lp, SetToSeq({OrderRow(p) : p \in OrderedPairs(lp)}))
=============================================================================
