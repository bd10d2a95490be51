------------------------------ MODULE ConicBnB ------------------------------
(***************************************************************************)
(* The two depth-first branch and bounds of the conic solver: misocp         *)
(* (mixed-integer second-order cones, solve_misocp) and spatial (non-convex  *)
(* QCQP by McCormick relaxations, global_core).  They keep the same books     *)
(* and mirror each other's stop checks, so they are two values of `search`.   *)
(* Sources: otspot-core/src/conic/{misocp,nonconvex}.rs.                     *)
(*                                                                         *)
(* Abstraction of the data.  A box bounds one integer variable, in halves so  *)
(* that a caller may fix it between two integers, and an interval of cells, a  *)
(* cell being what spatial branching cannot divide (1e-9).  A feasible point   *)
(* is a model value with its place in the box and its objective.  The          *)
(* relaxation solver is external: it may give any answer that is true.        *)
(***************************************************************************)
EXTENDS Integers, Sequences, FiniteSets

CONSTANTS
  Problems,     \* [box, ints, ray]: root box, whether there is an integer variable,
                \* whether the relaxations have an improving ray
  Points,       \* the points some problem admits
  Twice,        \* twice the integer variable of a point
  Cell, Value,  \* its cell and its objective
  Bounds,       \* the finite bounds a relaxation may have
  Inf,          \* +infinity
  GapTol, MaxNodes

ASSUME ConicAssumption ==
  /\ \A p \in Problems : /\ p.ints \in BOOLEAN /\ p.ray \in BOOLEAN
                         /\ p.box \in [lo : Int, hi : Int, first : Int, last : Int]
  /\ Twice \in [Points -> Int] /\ Cell \in [Points -> Int]
  /\ Value \in [Points -> Int] /\ Bounds \subseteq Int
  /\ \A p \in Points : Twice[p] % 2 = 0
  /\ \A v \in Bounds \cup {Value[p] : p \in Points} : -Inf < v /\ v < Inf
  /\ Inf \in Int /\ Inf > 0 /\ GapTol \in Nat /\ MaxNodes \in Nat \ {0}

VARIABLES
  prob,       \* the problem
  search,     \* "misocp" or "spatial"
  pc,         \* "entry", "pop", "relax", "close", "done"
  stack,      \* the regions to explore: [box, lb], lb inherited from the parent
  hand,       \* the region being relaxed
  inc,        \* incumbent_obj, Inf for none
  lower,      \* lower_bound: the least bound of the terminal regions
  nodes,
  cut,        \* "no", "timed_out" or "limited": how the loop was left
  failures,   \* numerical_failures > 0
  expired,    \* the deadline of BbOptions has passed
  cancelled,  \* ConicOptions::stop_requested: deadline or cancel flag
  answer      \* [status, obj, lb], lb the objective minus the reported gap

vars == <<prob, search, pc, stack, hand, inc, lower, nodes, cut, failures,
          expired, cancelled, answer>>
clock == <<expired, cancelled>>
input == <<prob, search>>

Lesser(a, b) == IF a <= b THEN a ELSE b
Greater(a, b) == IF a <= b THEN b ELSE a

-----------------------------------------------------------------------------
(* Boxes *)

InBox(b) == {p \in Points : /\ b.lo <= Twice[p] /\ Twice[p] <= b.hi
                            /\ b.first <= Cell[p] /\ Cell[p] <= b.last}
Feasible == InBox(prob.box)

Region(b, lb) == [box |-> b, lb |-> lb]
NoRegion == Region([lo |-> 0, hi |-> 0, first |-> 0, last |-> 0], Inf)

NonEmpty(b) == b.lo <= b.hi /\ b.first <= b.last

\* The children in the order they are pushed, without the empty ones.
Children(down, up, lb) ==
  (IF NonEmpty(down) THEN <<Region(down, lb)>> ELSE <<>>)
    \o (IF NonEmpty(up) THEN <<Region(up, lb)>> ELSE <<>>)

\* Branch on the integer variable: at most `below`, or at least `above`.
RoundApart(b, below, above, lb) ==
  Children([b EXCEPT !.hi = below], [b EXCEPT !.lo = above], lb)

\* Split the cells after cell s.
SplitCells(b, s, lb) ==
  Children([b EXCEPT !.last = s], [b EXCEPT !.first = s + 1], lb)

\* RayVerdict::Bisect: mid = floor((lb + ub) / 2).
Bisected(b) ==
  LET mid == 2 * ((b.lo + b.hi) \div 4)
  IN  RoundApart(b, mid, mid + 2, -Inf)

Fractional(b) == {v \in b.lo .. b.hi : v % 2 = 1}

\* Bounds a relaxation of the box may have: below all its points.
RelaxationBounds(b) == {v \in Bounds : \A p \in InBox(b) : v <= Value[p]}

-----------------------------------------------------------------------------
(* The loop: taking a region *)

SearchInit ==
  /\ stack = <<Region(prob.box, -Inf)>>
  /\ hand = NoRegion
  /\ inc = Inf /\ lower = Inf /\ nodes = 0
  /\ cut = "no" /\ failures = FALSE
  /\ expired = FALSE /\ cancelled = FALSE
  /\ answer = [status |-> "none", obj |-> Inf, lb |-> -Inf]

Cancel == /\ ~cancelled /\ pc # "done" /\ cancelled' = TRUE
          /\ UNCHANGED <<input, pc, stack, hand, inc, lower, nodes, cut, failures,
                         expired, answer>>
Expire == /\ ~expired /\ pc # "done" /\ search = "misocp" /\ expired' = TRUE
          /\ UNCHANGED <<input, pc, stack, hand, inc, lower, nodes, cut, failures,
                         cancelled, answer>>

\* Each search looks at its own clock before a node.
Stopped == IF search = "misocp" THEN expired ELSE cancelled

Top == stack[Len(stack)]
Below == SubSeq(stack, 1, Len(stack) - 1)

\* Mutant: the region in hand when the search stops is forgotten.
LeaveForgetting(why, lb) ==
  /\ cut' = why /\ pc' = "close"
  /\ UNCHANGED <<input, inc, nodes, failures, lower, clock, answer>>

\* The bound of a terminal region; misocp reports none.
Fold(lb) == lower' = IF search = "spatial" THEN Lesser(lower, lb) ELSE lower

\* Leave the loop with a region unresolved: its inherited bound stands.
Leave(why, lb) ==
  /\ cut' = why /\ pc' = "close"
  /\ Fold(lb)
  /\ UNCHANGED <<input, inc, nodes, failures, clock, answer>>

PopStopped ==
  /\ pc = "pop" /\ stack # <<>>
  /\ \/ Stopped /\ Leave("timed_out", Top.lb)
     \/ ~Stopped /\ nodes >= MaxNodes /\ Leave("limited", Top.lb)
  /\ stack' = Below
  /\ UNCHANGED hand

Pop ==
  /\ pc = "pop" /\ stack # <<>> /\ ~Stopped /\ nodes < MaxNodes
  /\ hand' = Top /\ stack' = Below
  /\ nodes' = nodes + 1
  /\ pc' = "relax"
  /\ UNCHANGED <<input, inc, lower, cut, failures, clock, answer>>

Drained ==
  /\ pc = "pop" /\ stack = <<>>
  /\ pc' = "close"
  /\ UNCHANGED <<input, stack, hand, inc, lower, nodes, cut, failures, clock, answer>>

-----------------------------------------------------------------------------
(* The loop: what the relaxation of the region in hand answers *)

Relaxing(name) == pc = "relax" /\ search = name
NextRegion(open) ==
  /\ pc' = "pop" /\ hand' = NoRegion /\ stack' = stack \o open
  /\ UNCHANGED <<input, nodes, cut, clock, answer>>

\* A solver stops when it sees the flag or the deadline.
RelaxTimedOut ==
  /\ pc = "relax" /\ cancelled
  /\ Leave("timed_out", hand.lb)
  /\ hand' = NoRegion
  /\ UNCHANGED stack

\* No certificate: the region is pruned, and counted.
RelaxFailed ==
  /\ pc = "relax"
  /\ failures' = TRUE
  /\ Fold(hand.lb)
  /\ NextRegion(<<>>)
  /\ UNCHANGED inc

\* Infeasible with a Farkas certificate (misocp), or an infeasible LP.
RelaxEmpty ==
  /\ pc = "relax" /\ InBox(hand.box) = {}
  /\ NextRegion(<<>>)
  /\ UNCHANGED <<inc, lower, failures>>

\* An improving ray.  What it means depends on the bounds alone
\* (classify_ray_node), and it is answered at once unless a stop is seen.
RayUnbounded ==
  /\ Relaxing("misocp") /\ prob.ray
  /\ prob.ints => hand.box.lo = hand.box.hi /\ hand.box.lo % 2 = 0
  /\ \/ /\ ~cancelled
        /\ answer' = [status |-> "Unbounded", obj |-> -Inf, lb |-> -Inf]
        /\ pc' = "done"
        /\ UNCHANGED <<input, inc, lower, nodes, cut, failures, clock>>
     \/ cancelled /\ Leave("timed_out", hand.lb)
  /\ hand' = NoRegion
  /\ UNCHANGED stack

RayNoInteger ==
  /\ Relaxing("misocp") /\ prob.ray /\ prob.ints
  /\ hand.box.lo = hand.box.hi /\ hand.box.lo % 2 = 1
  /\ NextRegion(<<>>)
  /\ UNCHANGED <<inc, lower, failures>>

RayBisect ==
  /\ Relaxing("misocp") /\ prob.ray /\ prob.ints
  /\ hand.box.lo # hand.box.hi
  /\ NextRegion(Bisected(hand.box))
  /\ UNCHANGED <<inc, lower, failures>>

\* An optimum with objective b; the bound of the region is at least its parent's.
Relaxed(name, b) ==
  /\ Relaxing(name) /\ ~prob.ray
  /\ b \in RelaxationBounds(hand.box)
  /\ UNCHANGED failures

\* `lower >= incumbent - gap_tol`.
Worse(b) == inc # Inf /\ b >= inc - GapTol

Pruned(b) ==
  /\ Relaxed(search, b)
  /\ Worse(Greater(b, hand.lb))
  /\ Fold(Greater(b, hand.lb))
  /\ NextRegion(<<>>)
  /\ UNCHANGED inc

\* misocp: branch on a fractional integer variable.
MisocpFractional(b) ==
  /\ Relaxed("misocp", b) /\ ~Worse(b) /\ prob.ints
  /\ \E v \in Fractional(hand.box) :
       NextRegion(RoundApart(hand.box, v - 1, v + 1, -Inf))
  /\ UNCHANGED <<inc, lower>>

\* misocp: the optimum is integral and stays feasible when rounded, which makes
\* it the best point of the region.
MisocpLeaf(b) ==
  /\ Relaxed("misocp", b) /\ ~Worse(b)
  /\ \E p \in InBox(hand.box) : Value[p] = b
  /\ inc' = Lesser(inc, b)
  /\ NextRegion(<<>>)
  /\ UNCHANGED lower

\* Mutant: the region is dropped when its optimum does not survive rounding.
MisocpNotRoundedDropped(b) ==
  /\ Relaxed("misocp", b) /\ ~Worse(b) /\ prob.ints
  /\ NextRegion(<<>>)
  /\ UNCHANGED <<inc, lower>>

\* misocp: integral within int_tol, infeasible once rounded.  The value is at an
\* integer v, a little above it or a little below, and the region is searched on.
MisocpNotRounded(b) ==
  /\ Relaxed("misocp", b) /\ ~Worse(b) /\ prob.ints
  /\ \E v \in {w \in hand.box.lo .. hand.box.hi : w % 2 = 0} :
       \/ NextRegion(RoundApart(hand.box, v, v, -Inf))
       \/ NextRegion(RoundApart(hand.box, v, v + 2, -Inf))
       \/ NextRegion(RoundApart(hand.box, v - 2, v, -Inf))
  /\ UNCHANGED <<inc, lower>>

\* misocp: the same without an integer variable, where there is none to branch on:
\* the `expect` fails.
MisocpPanics(b) ==
  /\ Relaxed("misocp", b) /\ ~Worse(b) /\ ~prob.ints
  /\ answer' = [status |-> "panic", obj |-> Inf, lb |-> -Inf]
  /\ pc' = "done" /\ hand' = NoRegion
  /\ UNCHANGED <<input, stack, inc, lower, nodes, cut, clock>>

\* spatial: accept the point of the relaxation if it is integral and feasible.
Accepted ==
  \/ UNCHANGED inc
  \/ \E p \in InBox(hand.box) : inc' = Lesser(inc, Value[p])

SpatialFractional(b) ==
  LET lb == Greater(b, hand.lb) IN
  /\ Relaxed("spatial", b) /\ ~Worse(lb) /\ prob.ints
  /\ \E v \in Fractional(hand.box) :
       NextRegion(RoundApart(hand.box, v - 1, v + 1, lb))
  /\ UNCHANGED <<inc, lower>>

\* spatial: a leaf, tight, or too thin to be split.
SpatialLeaf(b) ==
  /\ Relaxed("spatial", b) /\ ~Worse(Greater(b, hand.lb))
  /\ Accepted
  /\ Fold(Greater(b, hand.lb))
  /\ NextRegion(<<>>)

SpatialSplit(b) ==
  LET lb == Greater(b, hand.lb) IN
  /\ Relaxed("spatial", b) /\ ~Worse(lb)
  /\ Accepted
  /\ \E c \in hand.box.first .. (hand.box.last - 1) :
       NextRegion(SplitCells(hand.box, c, lb))
  /\ UNCHANGED lower

-----------------------------------------------------------------------------
(* The classification of the result *)

\* spatial: with an incumbent the gap has closed, without one every region was
\* proved empty.
BoundsMeet ==
  search = "spatial" => IF inc = Inf THEN lower = Inf ELSE inc - lower <= GapTol

OpenBound == LET open == {stack[i].lb : i \in DOMAIN stack} \cup {lower}
             IN  CHOOSE v \in open : \A w \in open : v <= w

StatusOf(conclusive) ==
  CASE cut = "timed_out" -> "Timeout"
    [] cut = "limited" -> IF inc = Inf THEN "MaxIterations" ELSE "Suboptimal"
    [] cut = "no" /\ ~conclusive -> IF inc = Inf THEN "NumericalError" ELSE "Suboptimal"
    [] cut = "no" /\ conclusive /\ cancelled -> "Timeout"
    [] OTHER -> IF inc = Inf THEN "Infeasible" ELSE "Optimal"

\* misocp reports no bound: its objective stands for it in a proof.
ReportedBound(status) ==
  IF search = "spatial" THEN Lesser(inc, OpenBound)
  ELSE IF status = "Optimal" THEN inc ELSE -Inf

\* Mutant: a proof is published without a last look at the stop flag.
CloseUnchecked ==
  /\ pc = "close"
  /\ LET status == IF cut = "no" /\ ~failures /\ BoundsMeet
                   THEN (IF inc = Inf THEN "Infeasible" ELSE "Optimal")
                   ELSE StatusOf(FALSE)
     IN  answer' = [status |-> status, obj |-> inc, lb |-> ReportedBound(status)]
  /\ pc' = "done"
  /\ UNCHANGED <<input, stack, hand, inc, lower, nodes, cut, failures, clock>>

\* The stop flag is read a last time before a proof is accepted.
Close ==
  /\ pc = "close"
  /\ LET status == StatusOf(~failures /\ BoundsMeet)
     IN  answer' = [status |-> status, obj |-> inc, lb |-> ReportedBound(status)]
  /\ pc' = "done"
  /\ UNCHANGED <<input, stack, hand, inc, lower, nodes, cut, failures, clock>>

SearchStep ==
  \/ PopStopped \/ Pop \/ Drained
  \/ RelaxTimedOut \/ RelaxFailed \/ RelaxEmpty
  \/ RayUnbounded \/ RayNoInteger \/ RayBisect
  \/ \E b \in Bounds :
       \/ Pruned(b) \/ MisocpFractional(b) \/ MisocpLeaf(b) \/ MisocpNotRounded(b)
       \/ MisocpPanics(b) \/ SpatialFractional(b) \/ SpatialLeaf(b) \/ SpatialSplit(b)
  \/ Close

=============================================================================
