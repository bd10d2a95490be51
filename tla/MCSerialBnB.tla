----------------------------- MODULE MCSerialBnB -----------------------------
(* SerialBnB on problems with one integer variable of four values.            *)
EXTENDS SerialBnB

FourPoints == 0..3
FourFeasible == {0, 1, 3}
ValueFour == [p \in FourFeasible |-> <<4, 3, 0, 6>>[p + 1]]
=============================================================================
