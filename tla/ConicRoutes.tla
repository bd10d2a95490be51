----------------------------- MODULE ConicRoutes -----------------------------
(***************************************************************************)
(* The entries of the conic solver that end in a branch and bound:           *)
(*   misocp   solve_misocp,                                                 *)
(*   miqcp    solve_miqcp, which reformulates and calls it,                   *)
(*   global   solve_global_miqcp / solve_global_qcqp,                         *)
(*   qcqp     the route of a continuous QCQP: a convex attempt first, the      *)
(*            global search as its fallback, one deadline for both.           *)
(* Sources: otspot-core/src/conic/{misocp,qcqp,nonconvex}.rs,                 *)
(* otspot-core/src/qp/qcqp_route.rs.                                         *)
(***************************************************************************)
EXTENDS ConicBnB

VARIABLES
  route,     \* the entry that was called
  psd,       \* what the Cholesky factorization says of the quadratic forms:
             \* "yes", "no", or "clamped" when only approximately so
  convex     \* the outcome of the convex attempt: [status, obj]

routeVars == <<route, psd, convex>>
allVars == <<prob, search, pc, stack, hand, inc, lower, nodes, cut, failures,
             expired, cancelled, answer, route, psd, convex>>

SearchOf(r) == IF r \in {"misocp", "miqcp"} THEN "misocp" ELSE "spatial"

NoOutcome == [status |-> "none", obj |-> Inf]

Init ==
  /\ prob \in Problems
  /\ route \in {"misocp", "miqcp", "global", "qcqp"}
  /\ psd \in {"yes", "no", "clamped"}
  /\ route = "misocp" => psd = "yes"        \* its callers refuse the others
  /\ route = "qcqp" => ~prob.ints
  /\ route = "global" => ~prob.ray          \* finite bounds on every variable
  /\ search = SearchOf(route)
  /\ pc = "entry"
  /\ convex = NoOutcome
  /\ SearchInit

\* An optimum is its own bound.
Answered(status, obj) ==
  /\ answer' = [status |-> status, obj |-> obj,
                lb |-> IF status = "Optimal" THEN obj ELSE -Inf]
  /\ pc' = "done"
  /\ UNCHANGED <<input, stack, hand, inc, lower, nodes, cut, failures, clock,
                 routeVars>>

Launched ==
  /\ pc' = "pop"
  /\ UNCHANGED <<input, stack, hand, inc, lower, nodes, cut, failures, clock,
                 answer, routeVars>>

\* solve_miqcp refuses a reformulation that is only approximate: no bound of the
\* search would hold.
MiqcpReady == route = "miqcp" => psd = "yes"

EnterMisocp ==
  /\ pc = "entry" /\ search = "misocp"
  /\ \/ ~MiqcpReady /\ Answered("NotSupported", Inf)
     \/ MiqcpReady /\ (cancelled \/ expired) /\ Answered("Timeout", Inf)
     \/ MiqcpReady /\ ~cancelled /\ ~expired /\ Launched

EnterGlobal == pc = "entry" /\ route = "global" /\ Launched

\* The optimum of a convex problem, and what an approximate one may give instead.
ConvexOptima ==
  IF psd = "clamped" THEN Bounds
  ELSE {Value[p] : p \in {p \in Feasible : \A q \in Feasible : Value[p] <= Value[q]}}

\* solve_qp_problem_as_qcqp.
ConvexOutcomes ==
  {[status |-> s, obj |-> Inf] :
     s \in {"Failed"}
           \cup (IF cancelled THEN {"Timeout"} ELSE {})
           \cup (IF psd = "no" THEN {"NotSupported"} ELSE {})
           \cup (IF Feasible = {} \/ psd = "clamped" THEN {"Infeasible"} ELSE {})
           \cup (IF prob.ray \/ psd = "clamped" THEN {"Unbounded"} ELSE {})}
  \cup (IF psd = "no" \/ prob.ray THEN {}
        ELSE {[status |-> "Optimal", obj |-> v] : v \in ConvexOptima})

\* Mutant: the clamped factorization is not looked at.
CleanUnlessRejected(o) ==
  o.status \in {"Optimal", "Infeasible", "Unbounded", "Timeout"}

\* is_clean_convex_outcome: a Timeout met before the factorization is clean too.
Clean(o) ==
  /\ o.status \in {"Optimal", "Infeasible", "Unbounded", "Timeout"}
  /\ psd # "clamped"

\* A clean optimum becomes the incumbent, and the next step returns it.
ConvexAttempt ==
  /\ pc = "entry" /\ route = "qcqp"
  /\ \E o \in ConvexOutcomes :
       /\ convex' = o
       /\ inc' = IF Clean(o) THEN o.obj ELSE Inf
  /\ pc' = "route"
  /\ UNCHANGED <<input, stack, hand, lower, nodes, cut, failures, clock, answer,
                 route, psd>>

ReturnConvex == pc = "route" /\ Clean(convex) /\ Answered(convex.status, convex.obj)

\* external_stop_requested sees the flag and an absolute deadline, not one derived
\* from a relative timeout, which the search will see at its first node.
FallBack ==
  /\ pc = "route" /\ ~Clean(convex)
  /\ \/ cancelled /\ Answered("Timeout", Inf)
     \/ prob.ray /\ Answered(IF convex.status = "NotSupported" THEN "NotSupported"
                              ELSE "NumericalError", Inf)
     \/ ~prob.ray /\ Launched

Step ==
  \/ EnterMisocp \/ EnterGlobal \/ ConvexAttempt \/ ReturnConvex \/ FallBack
  \/ SearchStep /\ UNCHANGED routeVars

Next ==
  \/ Step
  \/ (Cancel \/ Expire) /\ UNCHANGED routeVars
  \/ pc = "done" /\ UNCHANGED allVars

Spec == Init /\ [][Next]_allVars

-----------------------------------------------------------------------------
(* Properties *)

\* The regions still to be searched.
Open == (IF pc = "relax" THEN {hand} ELSE {}) \cup {stack[i] : i \in DOMAIN stack}

\* Through branching at a point that is already integral, rounding that fails,
\* tight leaves, prunes and interruptions, every feasible point is in an open
\* region, in one that was given up and is remembered, or cannot beat the incumbent
\* by more than the tolerance.
RegionsCovered ==
  pc \in {"pop", "relax", "close"} =>
    \A p \in Feasible :
      \/ \E r \in Open : p \in InBox(r.box) /\ r.lb <= Value[p]
      \/ inc # Inf /\ inc - Value[p] <= GapTol
      \/ IF search = "spatial" THEN lower <= Value[p] ELSE failures \/ cut # "no"

\* The gap of a result of the spatial search is honest however the search ended:
\* no feasible point lies below the objective by more.
GapHonest ==
  answer.status # "none" /\ search = "spatial" =>
    \A p \in Feasible : answer.lb <= Value[p]

\* Once a stop has been observed nothing that rests on an exhausted search or on a
\* ray is published as a proof any more; a clean convex result may be.
ProofsYieldToStop ==
  [][answer' # answer /\ pc # "route" /\ cancelled
       => answer'.status \notin {"Optimal", "Infeasible", "Unbounded"}]_allVars

\* "an unrounded MISOCP candidate has an integer variable" (misocp.rs): the
\* search never has to branch where nothing is integer.
NoPanic == answer.status # "panic"

Absolute(obj, v) == obj - v <= GapTol

Contract == INSTANCE SolveContract WITH
  Tolerated <- Absolute, feasible <- Feasible, ray <- prob.ray, best <- inc

\* Every entry keeps the contract of a branch and bound, the one with a fallback and
\* the one that may be handed an approximate reformulation included.
ImplementsContract == Contract!Spec

=============================================================================
