---------------------------- MODULE SolveContract ----------------------------
(***************************************************************************)
(* What a branch and bound promises its caller, whichever it is and whatever *)
(* the number of threads (doc of SolverOptions::threads, of                 *)
(* BoundGapCertificate, of SolveStatus, of MisocpResult and GlobalResult):    *)
(* an incumbent that is always a feasible point and only improves, then one   *)
(* answer, and a proof only of what is true.                                *)
(***************************************************************************)
EXTENDS Integers

CONSTANTS
  Value, Inf,           \* the objective of a point, +infinity
  Tolerated(_, _)       \* whether a claimed objective may exceed a value

VARIABLES
  feasible,   \* the feasible points of the problem
  ray,        \* whether some relaxation of the problem may be unbounded
  best,       \* the objective of the incumbent, Inf when there is none
  answer      \* [status, obj, lb] of the result, "none" before it exists

Objectives == {Value[p] : p \in feasible}

\* No feasible point improves on obj by more than the gap tolerance.
ProvesOptimal(obj) == \A p \in feasible : Tolerated(obj, Value[p])

Init ==
  /\ best \in Objectives \cup {Inf}
  /\ answer.status = "none"

Improve ==
  /\ answer.status = "none"
  /\ best' \in Objectives
  /\ best' < best
  /\ UNCHANGED answer

\* An answer is about the incumbent at that moment.  The failures of the machinery
\* promise nothing.
Sound(a) ==
  CASE a.status = "Optimal" ->
         /\ best # Inf /\ a.obj = best /\ ProvesOptimal(best)
         /\ a.lb <= a.obj /\ Tolerated(a.obj, a.lb)
    [] a.status = "Infeasible" -> feasible = {}
    [] a.status = "Suboptimal" -> best # Inf /\ a.obj = best
    [] a.status = "MaxIterations" -> best = Inf
    [] a.status = "Timeout" -> a.obj = best
    [] a.status = "Unbounded" -> ray
    [] OTHER -> a.status \in {"ResourceExhausted", "NumericalError", "NotSupported",
                              "panic"}

Conclude ==
  /\ answer.status = "none"
  /\ Sound(answer')
  /\ UNCHANGED best

Next == (Improve \/ Conclude) /\ UNCHANGED <<feasible, ray>>

Spec == Init /\ [][Next]_<<feasible, ray, best, answer>>

=============================================================================
