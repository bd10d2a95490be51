-------------------------------- MODULE Cuts ---------------------------------
(***************************************************************************)
(* Cutting planes of a mixed-integer program with three columns: what        *)
(* mip/cuts.rs, mip/cuts/flow_cover.rs and mip/cuts/knapsack_cover.rs derive   *)
(* from an optimal basis or from the rows alone, and what the pool of         *)
(* mip/cut_pool.rs lets through.                                            *)
(*                                                                         *)
(* Rows and bounds are inequalities p . x >= r.  The standard form has a       *)
(* nonnegative variable for each, its slack; that of a bound is the shifted   *)
(* column itself.  A basis is given by its nonbasic variables, three            *)
(* inequalities that hold with equality, and everything the tableau says is   *)
(* a quotient of determinants, so that no fraction is ever rounded.          *)
(***************************************************************************)
EXTENDS IntegerRows

CONSTANT MaxCoefficient   \* bound on the coefficients of cuts

ASSUME CutsAssumption == Cols = 1..3 /\ MaxCoefficient \in Nat

Dot(p, x) == p[1] * x[1] + p[2] * x[2] + p[3] * x[3]
Cross(p, q) == <<p[2] * q[3] - p[3] * q[2], p[3] * q[1] - p[1] * q[3], p[1] * q[2] - p[2] * q[1]>>
Negated(p) == <<-p[1], -p[2], -p[3]>>
Triple(f) == <<f[1], f[2], f[3]>>
Unit(j) == Triple([k \in Cols |-> IF k = j THEN 1 ELSE 0])

-----------------------------------------------------------------------------
(* Optimal bases *)

Inequality(p, r, integral, always) == [p |-> p, r |-> r, integral |-> integral, always |-> always]

OfRow(lp, i) ==
  IF lp.kind[i] = "Le" THEN Inequality(Negated(lp.a[i]), -lp.b[i], FALSE, FALSE)
  ELSE Inequality(lp.a[i], lp.b[i], FALSE, lp.kind[i] = "Eq")

\* The shifted column, and the row of its upper bound; every column has both.
OfLower(lp, j) == Inequality(Unit(j), lp.lo[j], j \in lp.ints, FALSE)
OfUpper(lp, j) == Inequality(Negated(Unit(j)), -lp.hi[j], FALSE, FALSE)

Inequalities(lp) ==
  [i \in DOMAIN lp.a |-> OfRow(lp, i)] \o [j \in Cols |-> OfLower(lp, j)]
    \o [j \in Cols |-> OfUpper(lp, j)]

\* Three inequalities in the order that makes their determinant positive, with
\* the cross products of the other two and the vertex num / det.
Vertex(t) ==
  LET raw == <<Cross(t[2].p, t[3].p), Cross(t[3].p, t[1].p), Cross(t[1].p, t[2].p)>>
      d == Dot(t[1].p, raw[1])
      cross == IF d < 0 THEN <<Negated(raw[1]), Negated(raw[2]), Negated(raw[3])>> ELSE raw
  IN  [tight |-> t, cross |-> cross, det |-> Magnitude(d),
       num |-> Triple([j \in Cols |-> t[1].r * cross[1][j] + t[2].r * cross[2][j] + t[3].r * cross[3][j]])]

Satisfies(v, q) ==
  IF q.always THEN Dot(q.p, v.num) = q.r * v.det ELSE Dot(q.p, v.num) >= q.r * v.det

\* The bases a simplex may end with: dual and primal feasible.
OptimalBases(lp) ==
  LET all == Inequalities(lp)
      Has(t, n) == t[1] = n \/ t[2] = n \/ t[3] = n
      triples == {t \in (DOMAIN all) \X (DOMAIN all) \X (DOMAIN all) :
                    /\ t[1] < t[2] /\ t[2] < t[3]
                    /\ \A n \in DOMAIN all : all[n].always => Has(t, n)}
      vertices == {Vertex(<<all[t[1]], all[t[2]], all[t[3]]>>) : t \in triples}
  IN  {v \in vertices :
         /\ v.det # 0
         /\ \A n \in 1..3 : ~v.tight[n].always => Dot(lp.c, v.cross[n]) >= 0
         /\ \A n \in DOMAIN all : Satisfies(v, all[n])}

\* Objectives num / det.
ObjectiveOf(lp, v) == [num |-> Dot(lp.c, v.num), det |-> v.det]
IsBetterBound(f, g) == f.num * g.det > g.num * f.det
SameObjective(f, g) == f.num * g.det = g.num * f.det

\* Columns by falling, or rising, keys; equals in the order of the columns, or
\* by the falling values of a second key.
Falling(S, key) ==
  Sorted(S, {p \in S \X S : key[p[1]] > key[p[2]] \/ (key[p[1]] = key[p[2]] /\ p[1] < p[2])})
RisingThenFalling(S, key, second) ==
  Sorted(S, {p \in S \X S :
    \/ key[p[1]] < key[p[2]]
    \/ /\ key[p[1]] = key[p[2]]
       /\ second[p[1]] > second[p[2]] \/ (second[p[1]] = second[p[2]] /\ p[1] < p[2])})
Rising(S, key) == RisingThenFalling(S, key, key)

-----------------------------------------------------------------------------
(* Gomory and mixed-integer rounding cuts *)

\* A cut p . x >= r that the vertex violates.
Violates(v, cut) == Dot(cut.p, v.num) < cut.r * v.det

CutRow(cut) == [a |-> cut.p, b |-> cut.r, kind |-> "Ge"]

\* Divided by the largest number that divides every coefficient.
Coprime(cut) ==
  LET largest == Max({Magnitude(cut.p[j]) : j \in Cols})
      common == {d \in 1..largest : cut.r % d = 0 /\ \A j \in Cols : cut.p[j] % d = 0}
      g == Max(common)
  IN  IF largest = 0 THEN cut
      ELSE [p |-> Triple([j \in Cols |-> cut.p[j] \div g]), r |-> cut.r \div g]

\* finalize_cut: a cut the vertex violates, with coefficients of one scale (in
\* the code the largest is at most 10^9 times the smallest).
Finalized(v, cut) ==
  /\ Violates(v, cut)
  /\ cut.p # <<0, 0, 0>> /\ \A j \in Cols : Magnitude(cut.p[j]) <= MaxCoefficient

\* Mutant: the two sides of the fraction are taken for each other.
GmiCoefficientSwapped(entry, frac, det, integral) ==
  IF integral
  THEN LET f == entry % det
       IN  IF f <= frac THEN f * frac ELSE (det - f) * (det - frac)
  ELSE IF entry > 0 THEN entry * frac ELSE -entry * (det - frac)

\* gmi_coeff (and mir_coeff, which is the same) of the tableau entry
\* entry / det in a row whose right-hand side has the fraction frac / det,
\* times f0 (1 - f0) det * det.
GmiCoefficient(entry, frac, det, integral) ==
  IF integral
  THEN LET f == entry % det
       IN  IF f <= frac THEN f * (det - frac) ELSE (det - f) * frac
  ELSE IF entry > 0 THEN entry * (det - frac) ELSE -entry * frac

\* build_cut from the row of the basic column j: sum of gamma * slack >= 1,
\* written in the columns of the program (accumulate_column).
GomoryCut(v, j) ==
  LET frac == v.num[j] % v.det
      gamma == Triple([n \in 1..3 |->
        IF v.tight[n].always THEN 0
        ELSE GmiCoefficient(-v.cross[n][j], frac, v.det, v.tight[n].integral)])
      Sum(f) == gamma[1] * f[1] + gamma[2] * f[2] + gamma[3] * f[3]
  IN  Coprime([p |-> Triple([k \in Cols |-> Sum([n \in 1..3 |-> v.tight[n].p[k]])]),
               r |-> frac * (v.det - frac) + Sum([n \in 1..3 |-> v.tight[n].r])])

\* generate_round: a cut for each integer column with a fractional value, those
\* nearest one half first.
GomoryCuts(lp, v) ==
  LET fractional == {j \in lp.ints : v.num[j] % v.det # 0}
      half == [j \in Cols |-> -Magnitude(2 * (v.num[j] % v.det) - v.det)]
      Tried(cuts, cut) == IF Finalized(v, cut) THEN Append(cuts, cut) ELSE cuts
  IN  FoldLeft(LAMBDA cuts, j : Tried(cuts, GomoryCut(v, j)), <<>>, Falling(fractional, half))

\* Cuts whose coefficients are proportional (cosine above 0.999).
IsParallel(cut, other) == Cross(cut.p, other.p) = <<0, 0, 0>>

\* CutPool::separate_round: of cuts that the point violates, those not parallel
\* to one the pool holds.  A cut enters the pool when the point violates it, and
\* is then a row of the program, so that no cut of an earlier round comes back.
Separate(pool, cuts) ==
  FoldLeft(LAMBDA s, cut : IF \E q \in pool \cup ToSet(s) : IsParallel(q, cut)
                           THEN s ELSE Append(s, cut),
           <<>>, cuts)

-----------------------------------------------------------------------------
(* Covers *)

InUnitBox(lp, j) == j \in lp.ints /\ lp.lo[j] >= 0 /\ lp.hi[j] <= 1

\* A knapsack over binaries.
IsKnapsack(lp, i) ==
  /\ lp.kind[i] = "Le" /\ lp.b[i] > 0
  /\ Cardinality(RowCols(lp, i)) >= 2
  /\ \A j \in RowCols(lp, i) : lp.a[i][j] > 0 /\ InUnitBox(lp, j)

Weight(S, w) == SumFunction([j \in S |-> w[j]])

\* Columns taken in the order given until they weigh more than b.
GreedyCover(order, w, b) ==
  FoldLeft(LAMBDA S, j : IF Weight(S, w) > b THEN S ELSE S \cup {j}, {}, order)

\* And dropped, in another order, as long as they still do.
Minimised(S, order, w, b) ==
  FoldLeft(LAMBDA C, j : IF j \in C /\ Weight(C \ {j}, w) > b THEN C \ {j} ELSE C, S, order)

Indicator(S, w) == [j \in Cols |-> IF j \in S THEN w[j] ELSE 0]
AtMost(coef, r) == [p |-> Negated(coef), r |-> -r]

\* A cut over the cover C that S was minimised to, if it is a cover of two.
OverCover(S, C, w, b, cut) == IF Weight(S, w) > b /\ Cardinality(C) >= 2 THEN {cut} ELSE {}

\* generate_cover_cuts: at most |C| - 1 of a minimal cover.
CoverCut(lp, i) ==
  LET w == lp.a[i]
      order == Falling(RowCols(lp, i), w)
      G == GreedyCover(order, w, lp.b[i])
      C == Minimised(G, Reverse(order), w, lp.b[i])
  IN  OverCover(G, C, w, lp.b[i], AtMost(Indicator(C, [j \in Cols |-> 1]), Cardinality(C) - 1))

\* knapsack_max_value: the most that columns of S are worth together within
\* capacity cap, if any selection fits.
MostWorth(S, w, worth, cap) == Max({Weight(R, worth) : R \in {R \in SUBSET S : Weight(R, w) <= cap}})

\* Sequential lifting of one more column.
Lift(coef, C, j, w, b) ==
  LET S == {k \in Cols : coef[k] > 0}
      worth == Cardinality(C) - 1
      alpha == IF b < w[j] THEN 0 ELSE worth - MostWorth(S, w, coef, b - w[j])
  IN  [coef EXCEPT ![j] = IF alpha > 0 THEN alpha ELSE 0]

\* separate_lifted_cover: the cover the vertex v loads most, and the other
\* columns of the row lifted into it, the heaviest first.
LiftedCoverCut(lp, v, i) ==
  LET w == lp.a[i]
      b == lp.b[i]
      S == RowCols(lp, i)
      G == GreedyCover(Falling(S, v.num), w, b)
      C == Minimised(G, Rising(S, w), w, b)
      coef == FoldLeft(LAMBDA f, j : Lift(f, C, j, w, b), Indicator(C, [j \in Cols |-> 1]),
                       Falling(S \ C, w))
  IN  OverCover(G, C, w, b, AtMost(coef, Cardinality(C) - 1))

KnapsackCuts(lp, v) ==
  UNION {CoverCut(lp, i) \cup LiftedCoverCut(lp, v, i) : i \in {i \in lp.rows : IsKnapsack(lp, i)}}

-----------------------------------------------------------------------------
(* Cliques, implied bounds, flow covers *)

\* Two binaries that one knapsack does not let be 1 together.
Conflict(lp, j, k) ==
  j # k /\ \E i \in lp.rows :
             IsKnapsack(lp, i) /\ {j, k} \subseteq RowCols(lp, i) /\ lp.a[i][j] + lp.a[i][k] > lp.b[i]

\* generate_clique_cuts: from each column the vertex loads, neighbours taken by
\* falling value as long as each is in conflict with all.
CliqueCuts(lp, v) ==
  LET Grown(seed) ==
        FoldLeft(LAMBDA Q, k : IF \A j \in Q : Conflict(lp, j, k) THEN Q \cup {k} ELSE Q,
                 {seed}, Falling({k \in Cols : Conflict(lp, seed, k)}, v.num))
      seeds == {j \in Cols : InUnitBox(lp, j) /\ v.num[j] > 0}
  IN  {AtMost(Indicator(Q, [j \in Cols |-> 1]), 1) :
         Q \in {Q \in {Grown(j) : j \in seeds} : Cardinality(Q) >= 3}}

\* generate_implied_bound_cuts: what one row says of an integer column with a
\* positive coefficient, rounded, as a row.
ImpliedBoundCuts(lp) ==
  LET said == {p \in lp.rows \X lp.ints : lp.a[p[1]][p[2]] > 0}
      caps == {p \in said : lp.kind[p[1]] = "Le" /\ ImpliedInteger(lp, p[1], p[2]).hi < lp.hi[p[2]]}
      floors == {p \in said : lp.kind[p[1]] = "Ge" /\ ImpliedInteger(lp, p[1], p[2]).lo > lp.lo[p[2]]}
  IN  {AtMost(Unit(p[2]), ImpliedInteger(lp, p[1], p[2]).hi) : p \in caps}
        \cup {[p |-> Unit(p[2]), r |-> ImpliedInteger(lp, p[1], p[2]).lo] : p \in floors}

\* detect_vubs: rows c1 x - c2 y <= 0 of a column x >= 0 and a binary y, as
\* pairs [y, cap] with cap = c2 / c1; c1 = 1 as x is continuous.
IsUpperBound(lp, x, i, y) ==
  /\ lp.kind[i] = "Le" /\ lp.b[i] = 0 /\ RowCols(lp, i) = {x, y} /\ x # y
  /\ lp.a[i][x] > 0 /\ lp.a[i][y] < 0
  /\ InUnitBox(lp, y) /\ ~InUnitBox(lp, x) /\ lp.lo[x] >= 0

UpperBounds(lp, x) ==
  {[y |-> p[2], cap |-> -lp.a[p[1]][p[2]]] :
     p \in {p \in lp.rows \X Cols : IsUpperBound(lp, x, p[1], p[2])}}

\* What closing a member of the cover takes from the row: (u - lambda)^+.
FlowSlack(cap, excess) == GreaterOf(cap - excess, 0)

\* separate_flow_cover on a row of flow columns.
FlowCoverCut(lp, v, i) ==
  LET S == RowCols(lp, i)
      b == lp.b[i]
      vub == [x \in S |-> CHOOSE u \in UpperBounds(lp, x) : \A w \in UpperBounds(lp, x) : u.cap <= w.cap]
      cap == [x \in S |-> lp.a[i][x] * vub[x].cap]
      G == GreedyCover(Falling(S, v.num), cap, b)
      C == Minimised(G, RisingThenFalling(S, cap, v.num), cap, b)
      slack == [x \in C |-> FlowSlack(cap[x], Weight(C, cap) - b)]
      closed(y) == SumFunction([x \in {x \in C : vub[x].y = y} |-> slack[x]])
  IN  OverCover(G, C, cap, b,
        [p |-> Triple([k \in Cols |-> closed(k) - (IF k \in C THEN lp.a[i][k] ELSE 0)]),
         r |-> SumFunction(slack) - b])

FlowCoverCuts(lp, v) ==
  UNION {FlowCoverCut(lp, v, i) : i \in {i \in lp.rows :
    /\ lp.kind[i] = "Le" /\ lp.b[i] > 0 /\ Cardinality(RowCols(lp, i)) >= 2
    /\ \A x \in RowCols(lp, i) : lp.a[i][x] > 0 /\ UpperBounds(lp, x) # {}}}

\* The structural phase of add_root_cuts.
StructuralCuts(lp, v) ==
  {cut \in KnapsackCuts(lp, v) \cup CliqueCuts(lp, v) \cup ImpliedBoundCuts(lp)
             \cup FlowCoverCuts(lp, v) : Finalized(v, cut)}
=============================================================================
