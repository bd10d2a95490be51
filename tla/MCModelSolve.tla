---------------------------- MODULE MCModelSolve ----------------------------
(* Linear programs, and mixed-integer ones, for MilpRoot. *)
EXTENDS MCLpSolve, MilpRoot

Binary == <<0, 1>>
Upto(n) == <<0, n>>

Milp(rows, x, ints, c) ==
  [a |-> [i \in DOMAIN rows |-> rows[i][1]], kind |-> [i \in DOMAIN rows |-> rows[i][2]],
   b |-> [i \in DOMAIN rows |-> rows[i][3]], rows |-> DOMAIN rows, cols |-> Cols, ints |-> ints,
   c |-> c, off |-> 0, lo |-> [j \in Cols |-> x[j][1]], hi |-> [j \in Cols |-> x[j][2]]]

Binaries3 == <<Binary, Binary, Binary>>

Knapsacks ==
  {Milp(<<<<q[1], "Le", q[2]>>>>, Binaries3, Cols, q[3]) :
     q \in {<<<<2, 2, 3>>, 4, <<-1, -1, -1>>>>, <<<<2, 2, 3>>, 3, <<-1, -2, -1>>>>,
            <<<<2, 2, 2>>, 3, <<-1, -1, -1>>>>}}

Cliques ==
  {Milp(<<<<<<1, 1, 0>>, "Le", 1>>, <<<<0, 1, 1>>, "Le", 1>>, <<<<1, 0, 1>>, "Le", 1>>>>,
        Binaries3, Cols, c) : c \in {<<-1, -1, -1>>, <<-1, -2, -2>>}}

Flows ==
  {Milp(<<<<<<1, 1, 0>>, "Le", 3>>, <<<<1, 0, -2>>, "Le", 0>>, <<<<0, 1, -2>>, "Le", 0>>>>,
        <<Upto(3), Upto(3), Binary>>, {3}, c) : c \in {<<-1, -1, 1>>, <<-1, -2, 3>>}}

\* General integers, and a row that bounds one of them.
Boxed ==
  {Milp(<<<<<<3, 2, 1>>, "Le", 5>>, <<<<1, -1, 0>>, "Ge", -1>>>>, <<Upto(2), Upto(2), Binary>>,
        Cols, <<-2, -1, 0>>)}

\* Programs that probing decides, and propagation alone does not.
Probes ==
  {Milp(<<<<<<1, 1, 0>>, "Ge", 1>>, <<<<1, -1, 0>>, "Ge", 0>>, <<<<1, 0, 2>>, k, 2>>>>, Binaries3, Cols, <<1, 1, 1>>) :
     k \in {"Le", "Eq", "Ge"}}
    \cup {Milp(<<<<<<1, 1, 0>>, "Eq", 1>>, <<<<1, -1, 0>>, "Eq", 0>>>>, Binaries3, Cols, <<1, 1, 1>>)}

Milps == Knapsacks \cup Cliques \cup Flows \cup Boxed \cup Probes

MCModels == MCProblems \cup Milps
=============================================================================
