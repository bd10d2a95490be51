----------------------------- MODULE MCLpSolve ------------------------------
(* Families of small programs for LpSolve. *)
EXTENDS LpSolve

\* The rows of interval and network matrices, all totally unimodular.
Line == [first |-> <<1, 0, 0>>, second |-> <<0, 1, 0>>, last |-> <<0, 0, 1>>,
         pair |-> <<1, 1, 0>>, far |-> <<0, 1, 1>>, sum |-> <<1, 1, 1>>,
         chain |-> <<1, -1, 0>>, link |-> <<0, 1, -1>>, split |-> <<1, -1, -1>>]

Matrices == {
  <<Line.first, Line.chain, Line.link>>,
  <<Line.sum, Line.sum, Line.pair>>,
  <<Line.far, Line.sum, Line.last>>,
  <<Line.pair, Line.far, Line.last>>}

Boxes == [nonneg |-> <<0, Inf>>, unit |-> <<0, 1>>, free |-> <<-Inf, Inf>>, nonpos |-> <<-Inf, 0>>]

Programs(A, B, K, X, C) ==
  {[a |-> a, b |-> b, kind |-> k, c |-> c, rows |-> Rows, cols |-> Cols, ints |-> {}, off |-> 0,
    lo |-> [j \in Cols |-> Boxes[x[j]][1]], hi |-> [j \in Cols |-> Boxes[x[j]][2]]]
   : a \in A, b \in B, k \in K, x \in X, c \in C}

\* A column free in an inequality may be answered wrongly (FreeBounded).
FreeInEquations(lq) ==
  \A j \in lq.cols : IsFree(lq, j) => \A i \in ColRows(lq, j) : lq.kind[i] = "Eq"

MCProblems ==
  {lq \in Programs(Matrices, {<<1, 0, 1>>, <<1, 2, 0>>},
                   {<<"Eq", "Le", "Ge">>, <<"Le", "Eq", "Eq">>, <<"Ge", "Le", "Le">>, <<"Eq", "Eq", "Le">>},
                   [Cols -> DOMAIN Boxes], {<<1, 1, -1>>, <<-1, 0, 1>>}) :
     FreeInEquations(lq)}

\* A free column with a row for its upper bound.
FreeBounded ==
  Programs({<<Line.first, Line.split, Line.second>>}, {<<1, 0, 0>>},
           {<<"Le", "Eq", "Ge">>}, {<<"free", "nonneg", "free">>}, {<<-1, 0, 0>>, <<1, 0, 0>>})
=============================================================================
