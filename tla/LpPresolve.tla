----------------------------- MODULE LpPresolve -----------------------------
(***************************************************************************)
(* LP presolve (presolve/transforms/): passes of thirteen reductions, each    *)
(* scanning the rows or the columns, until a pass changes nothing.  A step     *)
(* of this module is one reduction that fires.                                *)
(*                                                                         *)
(* The lists of a row's entries have no order here: where the code breaks a   *)
(* tie by that order, any choice is taken.                                    *)
(***************************************************************************)
EXTENDS LpData

CONSTANTS
  Problems,       \* the programs given
  MaxPass         \* presolve_max_pass

ASSUME LpPresolveAssumption == MaxPass \in Nat \ {0}

VARIABLES
  prob, goal,     \* the program given, and its optimum
  lp,             \* the program as reduced
  stack,          \* postsolve_stack, the last reduction last
  pass, at,       \* passes begun, and the last reduction that fired in this one
  changed,        \* the pass has removed, fixed or substituted something
  expired,        \* the deadline has passed
  phase           \* where presolve, and what follows it (LpSolve), stands

presolveVars == <<prob, goal, lp, stack, pass, at, changed, expired, phase>>

-----------------------------------------------------------------------------
(* What fires *)

IsFixed(lq, j) == lq.lo[j] = lq.hi[j]

CannotHold(i) ==
  LET S == RowCols(lp, i)
  IN  \/ lp.kind[i] # "Ge" /\ MinFinite(lp, i, S) /\ MinActivity(lp, i, S) > lp.b[i]
      \/ lp.kind[i] # "Le" /\ MaxFinite(lp, i, S) /\ MaxActivity(lp, i, S) < lp.b[i]

ForcedDown(i) ==
  LET S == RowCols(lp, i)
  IN  lp.kind[i] # "Ge" /\ MinFinite(lp, i, S) /\ MinActivity(lp, i, S) >= lp.b[i]

ForcedUp(i) ==
  LET S == RowCols(lp, i)
  IN  lp.kind[i] # "Le" /\ MaxFinite(lp, i, S) /\ MaxActivity(lp, i, S) <= lp.b[i]

AlwaysHolds(i) ==
  LET S == RowCols(lp, i)
  IN  /\ lp.kind[i] # "Ge" => MaxFinite(lp, i, S) /\ MaxActivity(lp, i, S) <= lp.b[i]
      /\ lp.kind[i] # "Le" => MinFinite(lp, i, S) /\ MinActivity(lp, i, S) >= lp.b[i]

\* The columns of row i whose bounds the row improves, and those it crosses.
Improved(i) == {j \in RowCols(lp, i) : Implied(lp, i, j) # [lo |-> lp.lo[j], hi |-> lp.hi[j]]}
Crossed(i) == {j \in RowCols(lp, i) : Implied(lp, i, j).lo > Implied(lp, i, j).hi}

\* The column of an equation of two that may be eliminated: the free one of
\* the original problem, if there is exactly one.
Pivots(i) ==
  LET S == RowCols(lp, i)
      free == {j \in S : IsFree(prob, j)}
  IN  IF Cardinality(free) = 1 THEN free ELSE S

IsDoubleton(i) == lp.kind[i] = "Eq" /\ Cardinality(RowCols(lp, i)) = 2

\* The equations a column free in the original problem may be eliminated with.
FreePivots(j) ==
  IF IsFree(prob, j)
  THEN {i \in ColRows(lp, j) : lp.kind[i] = "Eq" /\ ~TooMuchFill(lp, i, j)}
  ELSE {}

Parallel(i, k) ==
  /\ {i, k} \subseteq lp.rows /\ lp.kind[i] = lp.kind[k]
  /\ Cardinality(RowCols(lp, i)) >= 2
  /\ \A j \in lp.cols : lp.a[i][j] = lp.a[k][j]

\* Of two parallel rows, the one that says no more than the other.
Looser(i, k) ==
  IF \/ lp.kind[i] = "Le" /\ lp.b[i] > lp.b[k]
     \/ lp.kind[i] = "Ge" /\ lp.b[i] < lp.b[k]
  THEN i ELSE k

\* fix_to_lb and fix_to_ub do something.
CanFix(j, v) == IsFinite(v) /\ ~IsFixed(lp, j)

\* Of two identical columns, the one held at its lower bound while the other,
\* no dearer and without an upper bound, does the work of both.
Idle(j, k) ==
  IF /\ {j, k} \subseteq lp.cols /\ ColRows(lp, j) # {}
     /\ \A i \in lp.rows : lp.a[i][j] = lp.a[i][k]
  THEN IF lp.c[j] <= lp.c[k] /\ lp.hi[j] = Inf /\ CanFix(k, lp.lo[k]) THEN {k}
       ELSE IF lp.c[k] <= lp.c[j] /\ lp.hi[k] = Inf /\ CanFix(j, lp.lo[j]) THEN {j}
       ELSE {}
  ELSE {}

\* Every row of column j, and its cost, wants it small, or large.
WantedLow(j) ==
  /\ ColRows(lp, j) # {} /\ lp.c[j] >= 0
  /\ \A i \in ColRows(lp, j) : lp.kind[i] = IF lp.a[i][j] > 0 THEN "Le" ELSE "Ge"

WantedHigh(j) ==
  /\ ColRows(lp, j) # {} /\ lp.c[j] <= 0
  /\ \A i \in ColRows(lp, j) : lp.kind[i] = IF lp.a[i][j] > 0 THEN "Ge" ELSE "Le"

\* With the cost not asked: a column that costs nothing may slide for free.
SlidesAtAnyCost(j, v) == ~IsFinite(v) /\ ~IsFree(lp, j)

\* A side without a bound is a verdict, unless the cost does not care or the
\* column is free.
Slides(j, v) == ~IsFinite(v) /\ lp.c[j] # 0 /\ ~IsFree(lp, j)

-----------------------------------------------------------------------------
(* The order of a pass: reductions one after the other, each over its rows,   *)
(* its columns or its pairs in ascending order                                *)

Order == [fixed |-> 1, singletonRow |-> 2, forcingRow |-> 3, emptyRow |-> 4,
          emptyColumn |-> 5, redundant |-> 6, tighten |-> 7, doubleton |-> 8,
          freeColumn |-> 9, freeSingleton |-> 10, parallelRows |-> 11,
          dominatedColumn |-> 12, dualFixing |-> 13]

Rank(p) == 100 * p[1] + 10 * p[2] + p[3]

RowsThat(name, Fires(_)) == {<<Order[name], i, 0>> : i \in {i \in lp.rows : Fires(i)}}
ColsThat(name, Fires(_)) == {<<Order[name], j, 0>> : j \in {j \in lp.cols : Fires(j)}}
Pairs(name, I, Fires(_, _)) ==
  {<<Order[name], p[1], p[2]>> : p \in {q \in I \X I : q[1] < q[2] /\ Fires(q[1], q[2])}}

Firing ==
  ColsThat("fixed", LAMBDA j : IsFixed(lp, j))
  \cup RowsThat("singletonRow", LAMBDA i : Cardinality(RowCols(lp, i)) = 1)
  \cup RowsThat("forcingRow", LAMBDA i :
         /\ Cardinality(RowCols(lp, i)) >= 2
         /\ CannotHold(i) \/ ForcedDown(i) \/ ForcedUp(i))
  \cup RowsThat("emptyRow", LAMBDA i : RowCols(lp, i) = {})
  \cup ColsThat("emptyColumn", LAMBDA j : ColRows(lp, j) = {})
  \cup RowsThat("redundant", AlwaysHolds)
  \cup RowsThat("tighten", LAMBDA i : Improved(i) # {})
  \cup RowsThat("doubleton", LAMBDA i :
         /\ IsDoubleton(i)
         /\ Crossed(i) # {} \/ \E j \in Pivots(i) : ~TooMuchFill(lp, i, j))
  \cup ColsThat("freeColumn", LAMBDA j : FreePivots(j) # {})
  \cup ColsThat("freeSingleton", LAMBDA j :
         Cardinality(ColRows(lp, j)) = 1 /\ FreePivots(j) # {})
  \cup Pairs("parallelRows", lp.rows, Parallel)
  \cup Pairs("dominatedColumn", lp.cols, LAMBDA j, k : Idle(j, k) # {})
  \cup ColsThat("dualFixing", LAMBDA j :
         \/ WantedLow(j) /\ (CanFix(j, lp.lo[j]) \/ Slides(j, lp.lo[j]))
         \/ WantedHigh(j) /\ (CanFix(j, lp.hi[j]) \/ Slides(j, lp.hi[j])))

\* What this pass has not come to yet.
Pending == {p \in Firing : Rank(p) > Rank(at)}

-----------------------------------------------------------------------------
(* What each does.  An entry of the stack holds what undoing it will need.    *)

\* Column j in the rows other than i that remain (col_orig_entries).
Elsewhere(i, j) == [r \in ColRows(lp, j) \ {i} |-> lp.a[r][j]]

FixEntry(j, v) == [tag |-> "fix", col |-> j, value |-> v]
RowEntry(i) == [tag |-> "row", row |-> i]
BoundsEntry == [tag |-> "bounds"]
SingletonEntry(tag, i, j, v) ==
  [tag |-> tag, row |-> i, col |-> j, value |-> v, pivot |-> lp.a[i][j],
   entries |-> Elsewhere(i, j), cost |-> lp.c[j]]
SubstEntry(i, j) ==
  [tag |-> "subst", row |-> i, col |-> j, pivot |-> lp.a[i][j], rhs |-> lp.b[i],
   others |-> [k \in RowCols(lp, i) \ {j} |-> lp.a[i][k]],
   entries |-> Elsewhere(i, j), cost |-> lp.c[j]]

Becomes(lq, entries, progress) ==
  /\ lp' = lq
  /\ stack' = stack \o entries
  /\ changed' = (changed \/ progress)
  /\ UNCHANGED phase

Verdict(v) == phase' = v /\ UNCHANGED <<lp, stack, changed>>

At(v, j) == [k \in {j} |-> v]
SetBounds(lq, j, lo, hi) == [lq EXCEPT !.lo[j] = lo, !.hi[j] = hi]

FixedVariable(j) ==
  Becomes(FixColumns(lp, At(lp.lo[j], j)), <<FixEntry(j, lp.lo[j])>>, TRUE)

SingletonEq(i, j) ==
  LET v == lp.b[i] * lp.a[i][j]
  IN  IF v < lp.lo[j] \/ v > lp.hi[j] THEN Verdict("infeasible")
      ELSE Becomes(DropRow(FixColumns(lp, At(v, j)), i),
                   <<SingletonEntry("singletonEq", i, j, v)>>, TRUE)

\* The row becomes a bound of its column.
SingletonIneq(i, j) ==
  LET v == Implied(lp, i, j)
  IN  IF v.lo > v.hi THEN Verdict("infeasible")
      ELSE Becomes(DropRow(SetBounds(lp, j, v.lo, v.hi), i),
                   <<SingletonEntry("singletonIneq", i, j, 0)>>, TRUE)

SingletonRow(i) ==
  \E j \in RowCols(lp, i) :
    IF lp.kind[i] = "Eq" THEN SingletonEq(i, j) ELSE SingletonIneq(i, j)

\* The least (or largest) activity is the right-hand side: every column of the
\* row is where that activity puts it.
ForcingRow(i) ==
  LET S == RowCols(lp, i)
      v == [j \in S |-> IF ForcedDown(i) THEN Least(lp, i, j) ELSE Most(lp, i, j)]
  IN  IF CannotHold(i) THEN Verdict("infeasible")
      ELSE Becomes(DropRow(FixColumns(lp, v), i),
                   <<[tag |-> "forcing", row |-> i, values |-> v,
                      entries |-> [j \in S |-> lp.a[i][j]]]>>, TRUE)

EmptyRow(i) ==
  IF Compare(lp.kind[i], 0, lp.b[i])
  THEN Becomes(DropRow(lp, i), <<RowEntry(i)>>, TRUE)
  ELSE Verdict("infeasible")

\* Where its cost alone puts a column, or where any value will do.
Preferred(j) ==
  IF lp.c[j] > 0 THEN lp.lo[j]
  ELSE IF lp.c[j] < 0 THEN lp.hi[j]
  ELSE IF IsFinite(lp.lo[j]) THEN lp.lo[j]
  ELSE IF IsFinite(lp.hi[j]) THEN lp.hi[j]
  ELSE 0

EmptyColumn(j) ==
  LET v == Preferred(j)
  IN  IF IsFinite(v) THEN Becomes(FixColumns(lp, At(v, j)), <<FixEntry(j, v)>>, TRUE)
      ELSE Verdict("unbounded")

Redundant(i) == Becomes(DropRow(lp, i), <<RowEntry(i)>>, TRUE)

\* Only a column that the row fixes counts as progress.
Tighten(i) ==
  LET better == Improved(i)
      lq == [lp EXCEPT !.lo = [j \in Cols |-> IF j \in better THEN Implied(lp, i, j).lo ELSE @[j]],
                       !.hi = [j \in Cols |-> IF j \in better THEN Implied(lp, i, j).hi ELSE @[j]]]
  IN  IF Crossed(i) # {} THEN Verdict("infeasible")
      ELSE Becomes(lq, [n \in 1..Cardinality(better) |-> BoundsEntry],
                   \E j \in better : IsFixed(lq, j))

Substitute(lq, i, j, before) == Becomes(Eliminate(lq, i, j), before \o <<SubstEntry(i, j)>>, TRUE)

\* The bounds of the column that goes are first made bounds of the other.
Doubleton(i) ==
  \E j \in Pivots(i) :
    LET k == CHOOSE k \in RowCols(lp, i) : k # j
        v == Implied(lp, i, k)
        lq == SetBounds(lp, k, v.lo, v.hi)
    IN  IF v.lo > v.hi THEN Verdict("infeasible")
        ELSE /\ ~TooMuchFill(lp, i, j)
             /\ Substitute(lq, i, j, IF lq = lp THEN <<>> ELSE <<BoundsEntry>>)

FreeColumn(j) == \E i \in FreePivots(j) : Substitute(lp, i, j, <<>>)

ParallelRows(i, k) ==
  IF lp.kind[i] = "Eq" /\ lp.b[i] # lp.b[k] THEN Verdict("infeasible")
  ELSE Becomes(DropRow(lp, Looser(i, k)), <<RowEntry(Looser(i, k))>>, TRUE)

\* A column held at a bound leaves as a fixed variable of the next pass.
Hold(j, v) == Becomes(SetBounds(lp, j, v, v), <<BoundsEntry>>, TRUE)

DominatedColumn(j, k) == \E d \in Idle(j, k) : Hold(d, lp.lo[d])

DualFixing(j) ==
  LET v == IF WantedLow(j) THEN lp.lo[j] ELSE lp.hi[j]
  IN  IF IsFinite(v) THEN Hold(j, v) ELSE Verdict("unbounded")

-----------------------------------------------------------------------------
(* run_presolve_with_flags and run_fixpoint *)

Given ==
  /\ prob \in Problems
  /\ goal = Optimum(prob)
  /\ lp = prob /\ stack = <<>>
  /\ pass = 0 /\ at = <<0, 0, 0>>
  /\ expired = FALSE

Init == Given /\ changed = FALSE /\ phase = "boundary"

Expire ==
  /\ ~expired
  /\ phase \notin {"infeasible", "unbounded", "answered"}
  /\ expired' = TRUE
  /\ UNCHANGED <<prob, goal, lp, stack, pass, at, changed, phase>>

\* The top of a pass: a passed deadline ends presolve with what it has.
NextPass ==
  /\ phase = "boundary"
  /\ IF expired \/ pass = MaxPass
     THEN phase' = "revert" /\ UNCHANGED <<pass, at, changed>>
     ELSE phase' = "sweep" /\ pass' = pass + 1 /\ at' = <<0, 0, 0>> /\ changed' = FALSE
  /\ UNCHANGED <<prob, goal, lp, stack, expired>>

Fire(p) ==
  \/ p[1] = Order.fixed /\ FixedVariable(p[2])
  \/ p[1] = Order.singletonRow /\ SingletonRow(p[2])
  \/ p[1] = Order.forcingRow /\ ForcingRow(p[2])
  \/ p[1] = Order.emptyRow /\ EmptyRow(p[2])
  \/ p[1] = Order.emptyColumn /\ EmptyColumn(p[2])
  \/ p[1] = Order.redundant /\ Redundant(p[2])
  \/ p[1] = Order.tighten /\ Tighten(p[2])
  \/ p[1] = Order.doubleton /\ Doubleton(p[2])
  \/ p[1] \in {Order.freeColumn, Order.freeSingleton} /\ FreeColumn(p[2])
  \/ p[1] = Order.parallelRows /\ ParallelRows(p[2], p[3])
  \/ p[1] = Order.dominatedColumn /\ DominatedColumn(p[2], p[3])
  \/ p[1] = Order.dualFixing /\ DualFixing(p[2])

Reduce ==
  /\ phase = "sweep" /\ ~expired
  /\ \E p \in Pending :
       /\ \A q \in Pending : Rank(p) <= Rank(q)
       /\ at' = p
       /\ Fire(p)
  /\ UNCHANGED <<prob, goal, pass, expired>>

\* A passed deadline met before a reduction of the pass: nothing is kept.
Interrupt ==
  /\ phase = "sweep" /\ expired
  /\ at[1] < Order.dualFixing
  /\ lp' = prob /\ stack' = <<>>
  /\ phase' = "built"
  /\ UNCHANGED <<prob, goal, pass, at, changed, expired>>

\* The end of a pass; one that meets the deadline in its last reduction leaves
\* the rest of that one undone.
EndSweep ==
  /\ phase = "sweep"
  /\ \A p \in Pending : expired /\ p[1] = Order.dualFixing
  /\ phase' = IF changed THEN "boundary" ELSE "revert"
  /\ UNCHANGED <<prob, goal, lp, stack, pass, at, changed, expired>>

\* With the bounds of the reduced program in the place of the original ones:
\* each bound is found implied by itself.
RevertedByItself(lq) ==
  LET Goes(j) == j \in lq.cols /\ ~IsFixed(lq, j) /\ ColRows(lq, j) # {}
  IN  [lq EXCEPT
        !.lo = [j \in Cols |-> IF Goes(j) /\ prob.lo[j] = -Inf THEN -Inf ELSE @[j]],
        !.hi = [j \in Cols |-> IF Goes(j) /\ prob.hi[j] = Inf THEN Inf ELSE @[j]]]

\* revert_redundant_added_bounds: a bound presolve added where there was none
\* goes if a row that remains says as much of the original bounds.
Reverted(lq) ==
  LET orig == [lq EXCEPT !.lo = prob.lo, !.hi = prob.hi]
      heard == {i \in lq.rows : \A j \in RowCols(lq, i) :
                  Implied(orig, i, j).lo <= Implied(orig, i, j).hi}
      says == [j \in Cols |-> {Implied(orig, i, j) : i \in heard \cap ColRows(lq, j)}]
      Unneeded(j) == j \in lq.cols /\ ~IsFixed(lq, j)
  IN  [lq EXCEPT
        !.lo = [j \in Cols |->
                  IF /\ Unneeded(j) /\ prob.lo[j] = -Inf
                     /\ \E v \in says[j] : v.lo >= @[j]
                  THEN -Inf ELSE @[j]],
        !.hi = [j \in Cols |->
                  IF /\ Unneeded(j) /\ prob.hi[j] = Inf
                     /\ \E v \in says[j] : v.hi <= @[j]
                  THEN Inf ELSE @[j]]]

Build ==
  /\ phase = "revert"
  /\ lp' = Reverted(lp)
  /\ phase' = "built"
  /\ UNCHANGED <<prob, goal, stack, pass, at, changed, expired>>

PresolveNext == Expire \/ NextPass \/ Reduce \/ Interrupt \/ EndSweep \/ Build

-----------------------------------------------------------------------------
(* Properties *)

\* Coefficients stay -1, 0 or 1: a substitution that distributes its row wrongly
\* soon makes others.
IsProgram(lq) ==
  /\ lq.rows \subseteq Rows /\ lq.cols \subseteq Cols
  /\ \A i \in Rows, j \in Cols : lq.a[i][j] \in -1..1
  /\ \A j \in lq.cols : lq.lo[j] <= lq.hi[j] /\ lq.lo[j] < Inf /\ lq.hi[j] > -Inf

\* Presolve may change the program as it likes, not its optimum: whatever has
\* been removed, tightened, substituted or put back, and whenever the deadline
\* passes, the reduced program has the optimum of the given one.
KeepsOptimum ==
  phase \in {"boundary", "sweep", "revert", "built"} => IsProgram(lp) /\ Optimum(lp) = goal
=============================================================================
