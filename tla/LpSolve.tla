------------------------------ MODULE LpSolve -------------------------------
(***************************************************************************)
(* solve_with (simplex/entry.rs): presolve, the simplex on the reduced        *)
(* program, run_postsolve (presolve/postsolve.rs) from its solution to one    *)
(* of the program given, and what is done when that is no optimum.           *)
(*                                                                         *)
(* The simplex (solve_without_presolve) is an oracle: it answers truly, or    *)
(* gives up.  So is the crossover: from an optimal point it finds duals or    *)
(* not.                                                                    *)
(***************************************************************************)
EXTENDS LpPresolve, SequencesExt

VARIABLES
  lifted,         \* what postsolve returns: point x, row duals y, objective
  answer          \* the SolverResult: its status and objective

vars == <<presolveVars, lifted, answer>>

NoAnswer == [status |-> "none", value |-> 0]
NoPoint == [x |-> [j \in Cols |-> 0], y |-> [i \in Rows |-> 0], objective |-> 0]

WasReduced == lp.rows # prob.rows \/ lp.cols # prob.cols

-----------------------------------------------------------------------------
(* run_postsolve: the stack undone from its top *)

\* The cost alone.
BalancingAlone(e, y) == e.cost * e.pivot

\* The dual of row i that makes its column's reduced cost vanish, by the rows
\* the column had when row i left.
Balancing(e, y) ==
  (e.cost - SumFunction([r \in DOMAIN e.entries |-> e.entries[r] * y[r]])) * e.pivot

\* The sign a row's dual must have (y <= 0 for "<=" rows).
Signed(kind, v) ==
  IF (kind = "Le" /\ v > 0) \/ (kind = "Ge" /\ v < 0) THEN 0 ELSE v

\* is_row_nonbinding, on the row of the original program and on a point that
\* the entries below in the stack have not completed.
Nonbinding(i, x) ==
  LET v == Activity(prob, i, x)
  IN  prob.kind[i] # "Eq" /\ v # prob.b[i] /\ Compare(prob.kind[i], v, prob.b[i])

\* stationarity_dual: the value nearest zero among those that every column of
\* the row admits, or zero if there is none.
Stationary(i, entries, x, y) ==
  LET ratio == [j \in DOMAIN entries |->
                  ReducedCost(prob, [y EXCEPT ![i] = 0], j) * entries[j]]
      judge == {j \in DOMAIN entries : ~IsFixed(prob, j)}
      \* a column at one of its bounds admits one side of its ratio
      OnlyBelow(j) == IF entries[j] > 0 THEN x[j] = prob.lo[j] ELSE x[j] = prob.hi[j]
      OnlyAbove(j) == IF entries[j] > 0 THEN x[j] = prob.hi[j] ELSE x[j] = prob.lo[j]
      caps == {ratio[j] : j \in {j \in judge : ~OnlyAbove(j)}}
                \cup (IF prob.kind[i] = "Le" THEN {0} ELSE {})
      floors == {ratio[j] : j \in {j \in judge : ~OnlyBelow(j)}}
                \cup (IF prob.kind[i] = "Ge" THEN {0} ELSE {})
      crossed == \E v \in floors, w \in caps : v > w
  IN  IF crossed THEN 0
      ELSE IF \E v \in caps : v < 0 THEN Min(caps)
      ELSE IF \E v \in floors : v > 0 THEN Max(floors)
      ELSE 0

UndoFix(e, s) == [s EXCEPT !.x[e.col] = e.value]
UndoRow(e, s) == [s EXCEPT !.y[e.row] = 0]
UndoSingletonEq(e, s) ==
  [s EXCEPT !.x[e.col] = e.value, !.y[e.row] = Balancing(e, s.y)]
UndoSingletonIneq(e, s) ==
  [s EXCEPT !.y[e.row] = IF Nonbinding(e.row, s.x) THEN 0
                         ELSE Signed(prob.kind[e.row], Balancing(e, s.y))]
UndoSubst(e, s) ==
  [s EXCEPT !.x[e.col] =
              (e.rhs - SumFunction([k \in DOMAIN e.others |-> e.others[k] * s.x[k]])) * e.pivot,
            !.y[e.row] = Balancing(e, s.y)]
UndoForcing(e, s) ==
  LET x == [j \in Cols |-> IF j \in DOMAIN e.values THEN e.values[j] ELSE s.x[j]]
  IN  [s EXCEPT !.x = x, !.y[e.row] = Stationary(e.row, e.entries, x, s.y)]

Undo(e, s) ==
  CASE e.tag = "fix" -> UndoFix(e, s)
    [] e.tag = "row" -> UndoRow(e, s)
    [] e.tag = "bounds" -> s
    [] e.tag = "singletonEq" -> UndoSingletonEq(e, s)
    [] e.tag = "singletonIneq" -> UndoSingletonIneq(e, s)
    [] e.tag = "subst" -> UndoSubst(e, s)
    [] e.tag = "forcing" -> UndoForcing(e, s)

\* In the order of the reductions.
PostsolvedForward(raw) == FoldLeft(LAMBDA s, e : Undo(e, s), raw, stack)

Postsolved(raw) == FoldRight(Undo, stack, raw)

-----------------------------------------------------------------------------
(* The simplex *)

Extended(S, I, v) == [i \in I |-> IF i \in S THEN v[i] ELSE 0]

\* Any optimal point of the reduced program, with any duals that prove it.
OptimalPairs ==
  LET value == Optimum(lp).value
      best == {x \in Points(lp) : Cost(lp, x) + lp.off = value}
      duals == {Extended(lp.rows, Rows, y) : y \in [lp.rows -> -Reach..Reach]}
  IN  {s \in [x : best, y : duals, objective : {value}] : IsOptimalPair(lp, s.x, s.y)}

StatusOf(o) == IF o.kind = "finite" THEN "optimal" ELSE o.kind

\* What the simplex may say of a program whose optimum is o.
Says(o) ==
  {[status |-> StatusOf(o), value |-> o.value]}
    \cup {[status |-> s, value |-> 0] : s \in {"timeout", "suboptimal", "error"}}

-----------------------------------------------------------------------------
(* solve_with *)

SolveInit == Init /\ lifted = NoPoint /\ answer = NoAnswer

Presolve == PresolveNext /\ UNCHANGED <<lifted, answer>>

Answer(r) ==
  /\ answer' = r
  /\ phase' = "answered"
  /\ UNCHANGED <<prob, goal, lp, stack, pass, at, changed, expired>>

\* The verdicts of presolve are returned as they are.
ReturnVerdict ==
  /\ phase \in {"infeasible", "unbounded"}
  /\ Answer([status |-> phase, value |-> 0])
  /\ UNCHANGED lifted

SolveOriginal == \E r \in Says(goal) : Answer(r)

\* Nothing was removed: the program given is solved, time permitting.
SolveUnreduced ==
  /\ phase = "built" /\ ~WasReduced
  /\ IF expired THEN Answer([status |-> "timeout", value |-> 0]) ELSE SolveOriginal
  /\ UNCHANGED lifted

\* The simplex found no optimum of the reduced program: failures fall back to
\* the program given, verdicts are passed on; a solve cut short by the caller
\* and not by the deadline may leave nothing that can be lifted.
SolveReducedElse ==
  /\ phase = "built" /\ WasReduced
  /\ \E r \in Says(Optimum(lp)) :
       /\ r.status # "optimal"
       /\ \/ r.status \in {"error", "suboptimal"} /\ SolveOriginal
          \/ r.status \in {"infeasible", "unbounded", "timeout"} /\ Answer(r)
          \/ r.status = "timeout" /\ ~expired /\ Answer([r EXCEPT !.status = "error"])
  /\ UNCHANGED lifted

SolveReduced ==
  /\ phase = "built" /\ WasReduced
  /\ \E raw \in OptimalPairs : lifted' = Postsolved(raw)
  /\ phase' = "lifted"
  /\ UNCHANGED <<prob, goal, lp, stack, pass, at, changed, expired, answer>>

\* guard_lp_optimal on the lifted point with the lifted duals or, when these
\* are infeasible (and only then), with those of a crossover.
MayBeProven ==
  \/ IsOptimalPair(prob, lifted.x, lifted.y)
  \/ /\ ~DualFeasible(prob, lifted.x, lifted.y)
     /\ IsFeasible(prob, lifted.x) /\ Cost(prob, lifted.x) = goal.value

Accept ==
  /\ phase = "lifted" /\ MayBeProven
  /\ Answer([status |-> "optimal", value |-> lifted.objective])
  /\ UNCHANGED lifted

\* Another try, on the program given; only an optimum replaces what there is.
Retry ==
  /\ phase = "lifted" /\ ~IsOptimalPair(prob, lifted.x, lifted.y)
  /\ \E r \in IF expired THEN {NoAnswer} ELSE Says(goal) :
       Answer(IF r.status = "optimal" THEN r
              ELSE [status |-> "suboptimal", value |-> lifted.objective])
  /\ UNCHANGED lifted

SolveNext ==
  \/ Presolve \/ ReturnVerdict \/ SolveUnreduced \/ SolveReducedElse \/ SolveReduced
  \/ Accept \/ Retry

Spec == SolveInit /\ [][SolveNext]_vars

-----------------------------------------------------------------------------
(* Properties *)

\* What postsolve returns is an optimal point of the program given, at the
\* objective reported.
LiftedOptimal ==
  phase = "lifted" =>
    /\ IsFeasible(prob, lifted.x)
    /\ Cost(prob, lifted.x) = lifted.objective
    /\ lifted.objective = goal.value

\* A column whose bounds presolve left alone, and that no forced row placed.
Untouched(j) ==
  /\ lp.lo[j] = prob.lo[j] /\ lp.hi[j] = prob.hi[j]
  /\ \A n \in DOMAIN stack : stack[n].tag = "forcing" => j \notin DOMAIN stack[n].values

\* The duals too, as far as the stack remembers enough: a reduced cost of the
\* wrong sign, for which crossover and retry are there, is that of a column
\* whose bounds presolve changed (BoundsTightened undoes nothing) or forced.
DualsRecovered ==
  phase = "lifted" =>
    \A j \in Cols : Untouched(j) => DualFeasibleAt(prob, lifted.x, lifted.y, j)

\* The status and the objective of the answer are those of the program given:
\* an infeasible or unbounded reduced program "propagates directly to the
\* original" (entry.rs), so nothing else stands behind those two.  (Unbounded
\* is not taken to mean feasible: presolve never asks.)
AnswersTrue ==
  /\ answer.status = "optimal" => goal = [kind |-> "finite", value |-> answer.value]
  /\ answer.status = "infeasible" => goal.kind = "infeasible"
  /\ answer.status = "unbounded" => goal.kind # "finite"
=============================================================================
