------------------------------ MODULE MCLpLadder ------------------------------
(* Programs of two rows: boxes and cones with slacks, pairs of equations that     *)
(* have a solution, none, or are the same, and rows with a surplus.             *)
EXTENDS LpLadder

Standard(structurals, extra, start, b, c) ==
  [a |-> structurals \o extra, b |-> b, c |-> c \o [k \in DOMAIN extra |-> 0],
   n |-> Len(structurals) + Len(extra), x |-> Len(structurals), start |-> start]

Slacks == <<<<1, 0>>, <<0, 1>>>>
Surplus == <<<<-1, 0>>, <<0, 1>>>>

MCPrograms ==
  {Standard(q[1], Slacks, <<3, 4>>, q[2], q[3]) :
     q \in {<<<<<<1, 0>>, <<1, 1>>>>, <<2, 2>>, <<-1, -2>>>>,
            <<<<<<1, -1>>, <<-1, 1>>>>, <<1, 1>>, <<-1, -1>>>>,
            <<<<<<1, 2>>, <<2, 1>>>>, <<0, 2>>, <<-1, -1>>>>,
            <<<<<<-1, -2>>, <<1, -1>>>>, <<2, 1>>, <<2, -2>>>>}}
    \cup {Standard(q[1], Slacks, <<4, 5>>, q[2], q[3]) :
     q \in {<<<<<<1, 1>>, <<-2, 1>>, <<1, -1>>>>, <<0, 0>>, <<-1, -1, -1>>>>}}
    \cup {Standard(q[1], <<>>, <<0, 0>>, q[2], q[3]) :
     q \in {<<<<<<1, 1>>, <<1, 2>>>>, <<2, 3>>, <<1, 2>>>>,
            <<<<<<1, 2>>, <<2, 4>>>>, <<1, 1>>, <<1, -1>>>>,
            <<<<<<1, 1>>, <<2, 2>>, <<1, 1>>>>, <<1, 2>>, <<1, 1, 1>>>>,
            <<<<<<1, 1>>, <<-1, -1>>, <<1, 0>>>>, <<1, 1>>, <<-1, -1, 1>>>>,
            <<<<<<1, 1>>, <<0, -1>>>>, <<1, 1>>, <<0, -1>>>>}}
    \cup {Standard(q[1], Surplus, <<0, 4>>, q[2], q[3]) :
     q \in {<<<<<<1, 1>>, <<1, 0>>>>, <<1, 1>>, <<1, 2>>>>,
            <<<<<<1, 1>>, <<1, 2>>>>, <<2, 1>>, <<1, 1>>>>,
            <<<<<<1, 1>>, <<1, -1>>>>, <<2, 1>>, <<1, -1>>>>}}

\* With artificials the primal and the dual method do a part of what Auto does.
Methods(P) == {"auto"} \cup (IF Artificial(P) = {} THEN {"primal", "dual"} ELSE {})
Warm(P) == {B \in Bases(P) : B[1] = 1 /\ B[2] \in Original(P) \ {1}}
MCOptions(P) ==
  {[method |-> m, warm |-> NoBasis] : m \in Methods(P)}
    \cup {[method |-> m, warm |-> B] : m \in Methods(P) \ {"primal"}, B \in Warm(P)}
=============================================================================
