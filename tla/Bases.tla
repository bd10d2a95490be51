-------------------------------- MODULE Bases --------------------------------
(***************************************************************************)
(* The linear algebra of a simplex basis, exactly, for programs with two rows: *)
(* what the factors of basis/lu.rs stand for when they are accurate, and what  *)
(* a program's feasible bases, optimum and rays are.                          *)
(*                                                                         *)
(* A program P in standard form (min c x, a x = b, x >= 0, b >= 0) is a record *)
(* with its columns 1..P.n (the first P.x of them structural), and for every  *)
(* row the slack that is basic at the start, or 0 when the row needs an       *)
(* artificial; the artificial of row i is the column P.n + i.                 *)
(*                                                                         *)
(* The code divides; here a solution is multiplied by the size of the         *)
(* determinant, so that integers suffice.                                    *)
(***************************************************************************)
EXTENDS Integers, Sequences, FiniteSets

Row == 1..2

Unit(i) == [k \in Row |-> IF k = i THEN 1 ELSE 0]

\* Integer data; a slack that is basic at the start is a unit column of its row.
IsProgram(P) ==
  /\ P.n \in Nat /\ P.x \in 0..P.n
  /\ P.a \in [1..P.n -> [Row -> Int]] /\ P.b \in [Row -> Nat] /\ P.c \in [1..P.n -> Int]
  /\ P.start \in [Row -> 0..P.n]
  /\ \A i \in Row : P.start[i] # 0 => P.a[P.start[i]] = Unit(i)

Original(P) == 1..P.n
Artificial(P) == {P.n + i : i \in {k \in Row : P.start[k] = 0}}
Column(P, j) == IF j <= P.n THEN P.a[j] ELSE Unit(j - P.n)

\* A basis is one column for each row.
BasisSet(B) == {B[i] : i \in Row}
Bases(P) == {B \in [Row -> Original(P) \cup Artificial(P)] : B[1] # B[2]}

Cross(u, v) == u[1] * v[2] - u[2] * v[1]
Det(P, B) == Cross(Column(P, B[1]), Column(P, B[2]))
Singular(P, B) == Det(P, B) = 0

Size(P, B) == IF Det(P, B) < 0 THEN -Det(P, B) ELSE Det(P, B)
Sign(P, B) == IF Det(P, B) < 0 THEN -1 ELSE 1

\* FTRAN: the z with B z = v, times Size.
Ftran(P, B, v) == <<Sign(P, B) * Cross(v, Column(P, B[2])), Sign(P, B) * Cross(Column(P, B[1]), v)>>

\* BTRAN: the y with transposed(B) y = w, times Size.
Btran(P, B, w) ==
  LET p == Column(P, B[1])  q == Column(P, B[2])
  IN  <<Sign(P, B) * (w[1] * q[2] - w[2] * p[2]), Sign(P, B) * (w[2] * p[1] - w[1] * q[1])>>

Dot(u, v) == u[1] * v[1] + u[2] * v[2]

\* The basic variables, and what a unit of column j takes from each.
Basic(P, B) == Ftran(P, B, P.b)
Taken(P, B, j) == Ftran(P, B, Column(P, j))

\* What an artificial costs where it is only penalized: more than any dual value.
Penalty == 100

\* Phase 1 pays for artificials, phase 2 for the program's own columns, phase 3
\* for both.
Cost(P, phase, j) ==
  IF j <= P.n THEN (IF phase = 1 THEN 0 ELSE P.c[j]) ELSE <<1, 0, Penalty>>[phase]
BasicCost(P, phase, B) == <<Cost(P, phase, B[1]), Cost(P, phase, B[2])>>

\* What column j costs less what it saves, times Size.
ReducedFor(P, own, basic, B, j) == own * Size(P, B) - Dot(Btran(P, B, basic), Column(P, j))
Reduced(P, phase, B, j) == ReducedFor(P, Cost(P, phase, j), BasicCost(P, phase, B), B, j)
Objective(P, phase, B) == Dot(BasicCost(P, phase, B), Basic(P, B))

\* What the artificials of a basis carry, the negative ones counted as nothing.
Infeasibility(P, B) ==
  LET x == Basic(P, B)
      carried(i) == IF B[i] > P.n /\ x[i] > 0 THEN x[i] ELSE 0
  IN  carried(1) + carried(2)

-----------------------------------------------------------------------------
(* What a program means *)

Vertex(P, B) ==
  /\ ~Singular(P, B)
  /\ \A i \in Row : Basic(P, B)[i] >= 0 /\ (B[i] > P.n => Basic(P, B)[i] = 0)
Vertices(P) == {B \in Bases(P) : Vertex(P, B)}
Feasible(P) == Vertices(P) # {}

\* A direction that column j opens, which leaves every artificial where it is.
Ray(P, B, j) ==
  \A i \in Row : IF B[i] > P.n THEN Taken(P, B, j)[i] = 0 ELSE Taken(P, B, j)[i] <= 0
HasRay(P) ==
  \E B \in Bases(P) : /\ ~Singular(P, B)
                      /\ \E j \in Original(P) \ BasisSet(B) : Ray(P, B, j) /\ Reduced(P, 2, B, j) < 0

\* B is as good as every vertex.
Best(P, B) ==
  /\ Vertex(P, B)
  /\ \A C \in Vertices(P) : Objective(P, 2, B) * Size(P, C) <= Objective(P, 2, C) * Size(P, B)
  /\ ~HasRay(P)
=============================================================================
