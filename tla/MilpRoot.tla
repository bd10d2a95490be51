------------------------------ MODULE MilpRoot ------------------------------
(***************************************************************************)
(* solve_milp_with_stats (mip/mod.rs): what happens to a mixed-integer program *)
(* on its way to the branch and bound, and to a node's program inside it.     *)
(* Bounds are propagated and binaries probed, interchangeable binaries are    *)
(* ordered by rows, cuts are added at the root (mip/cuts.rs, add_root_cuts),    *)
(* and a node may separate further cuts (separate_tree_cuts) on a share of    *)
(* the simplex iterations spent so far (mip/effort.rs).                       *)
(*                                                                         *)
(* Relaxations are solved by oracles: an optimal basis, any of them, or a     *)
(* failure.  So is the tree, whose own modules are SerialBnB and ParallelBnB;  *)
(* here it processes nodes, which are boxes, until it answers.                *)
(***************************************************************************)
EXTENDS LpSolve, Cuts

CONSTANTS
  MaxCutRounds,   \* max_cut_rounds
  TreeRounds,     \* TREE_CUT_MAX_ROUNDS
  DryLimit,       \* SEPARATION_DRY_STREAK_LIMIT
  MaxNodes,       \* bound on the nodes processed
  NodeIters       \* simplex iterations a node may take

ASSUME MilpRootAssumption ==
  /\ {MaxCutRounds, TreeRounds, DryLimit, MaxNodes} \subseteq Nat
  /\ NodeIters \subseteq Nat

\* The programs with integer columns: any integers for coefficients, and bounds
\* on every column.
MixedPrograms ==
  [a : Seq([Cols -> Int]), b : Seq(Int), kind : Seq({"Le", "Ge", "Eq"}), rows : SUBSET Nat,
   cols : {Cols}, ints : SUBSET Cols, c : [Cols -> Int], off : {0},
   lo : [Cols -> -Reach..Reach], hi : [Cols -> -Reach..Reach]]

ASSUME MixedAssumption ==
  \A P \in Problems : P.ints # {} =>
    P \in MixedPrograms /\ P.rows = DOMAIN P.a /\ DOMAIN P.b = P.rows /\ DOMAIN P.kind = P.rows

VARIABLES
  root,           \* the probing and the cut rounds: see NoRoot
  stats,          \* MipStats: nodes and simplex iterations
  node            \* the separation under way at a node, or NoNode

milpVars == <<root, stats, node>>

NoRoot ==
  [candidates |-> {},   \* binaries to probe
   moved |-> {},        \* columns the last probing changed
   round |-> 0,         \* rounds of probing, then of cuts
   before |-> <<>>,     \* the objective before the last round of cuts
   plain |-> 0]         \* rows that are not cuts

NoStats == [nodes |-> 0, node_iters |-> 0, sep_iters |-> 0, overhead |-> 0, dry |-> 0]

NoNode == [active |-> FALSE]

MilpInit == root = NoRoot /\ stats = NoStats /\ node = NoNode

-----------------------------------------------------------------------------
(* tighten_bounds_with_probing *)

\* run_fixpoint: another pass, unless the last one changed nothing, the limit
\* is reached or the deadline has passed.
GoesOn(more, n) == more /\ n < MaxPass /\ ~expired
IsInterrupted(more, n) == more /\ n < MaxPass /\ expired

Enter(p) == phase' = p /\ pass' = 0 /\ changed' = TRUE

Binaries(lq) == {j \in lq.ints : IsBinary(lq, j)}

ProvenInfeasible ==
  Answer([status |-> "infeasible", value |-> 0]) /\ UNCHANGED <<lifted, milpVars>>

\* A pass of either fixpoint, before probing and after it.
PropagateAtRoot ==
  /\ phase \in {"propagate", "repropagate"} /\ GoesOn(changed, pass)
  /\ LET lq == PropagationPass(lp)
     IN  IF IsEmptyBox(lq) THEN ProvenInfeasible
         ELSE /\ lp' = lq /\ changed' = (lq # lp) /\ pass' = pass + 1
              /\ UNCHANGED <<prob, goal, stack, at, expired, phase, lifted, answer, milpVars>>

EndPropagation ==
  /\ phase = "propagate" /\ ~GoesOn(changed, pass)
  /\ Enter(IF IsInterrupted(changed, pass) THEN "order" ELSE "probe")
  /\ root' = [root EXCEPT !.candidates = Binaries(lp)]
  /\ UNCHANGED <<prob, goal, lp, stack, at, expired, lifted, answer, stats, node>>

\* A round of probing.
Probe ==
  /\ phase = "probe" /\ GoesOn(root.candidates # {}, root.round)
  /\ LET new == Probed(lp, root.candidates)
     IN  IF IsEmptyBox(new.lp) THEN ProvenInfeasible
         ELSE /\ lp' = new.lp
              /\ Enter(IF new.changed = {} THEN "order" ELSE "repropagate")
              /\ root' = [root EXCEPT !.moved = new.changed, !.round = @ + 1]
              /\ UNCHANGED <<prob, goal, stack, at, expired, lifted, answer, stats, node>>

\* The next round probes the binaries that changed.
EndRepropagation ==
  /\ phase = "repropagate" /\ ~GoesOn(changed, pass)
  /\ Enter(IF IsInterrupted(changed, pass) THEN "order" ELSE "probe")
  /\ root' = [root EXCEPT !.candidates = root.moved \cap Binaries(lp)]
  /\ UNCHANGED <<prob, goal, lp, stack, at, expired, lifted, answer, stats, node>>

EndProbing ==
  /\ phase = "probe" /\ ~GoesOn(root.candidates # {}, root.round)
  /\ Enter("order")
  /\ UNCHANGED <<prob, goal, lp, stack, at, expired, lifted, answer, milpVars>>

-----------------------------------------------------------------------------
(* break_symmetry and add_root_cuts *)

AtRoot == UNCHANGED <<prob, goal, stack, pass, at, changed, lifted, answer, stats, node>>

\* With and without cfg.symmetry and cfg.cuts.  From here on a passed deadline
\* shows in solves that fail, any of which may, and expired is not looked at.
OrderColumns ==
  /\ phase = "order"
  /\ \E lq \in {lp, OrderRows(lp)} :
       /\ lp' = lq
       /\ root' = [NoRoot EXCEPT !.plain = Len(lq.a)]
  /\ phase' \in {"cut", "tree"}
  /\ expired' = FALSE /\ AtRoot

\* A program with the cuts, if the relaxation still solves.
WithCuts(lq, cuts) == WithRows(lq, [n \in DOMAIN cuts |-> CutRow(cuts[n])])

\* A round of Gomory cuts, if the last one moved the objective.  (The number of
\* cuts never comes near its limit, 64.)
CutRound ==
  /\ phase = "cut" /\ root.round < MaxCutRounds
  /\ \E v \in OptimalBases(lp) :
       LET cuts == GomoryCuts(lp, v)
           candidate == WithCuts(lp, cuts)
       IN  /\ root.round > 0 => ~SameObjective(ObjectiveOf(lp, v), root.before)
           /\ cuts # <<>> /\ OptimalBases(candidate) # {}
           /\ lp' = candidate
           /\ root' = [root EXCEPT !.round = @ + 1, !.before = ObjectiveOf(lp, v)]
  /\ UNCHANGED <<phase, expired>> /\ AtRoot

\* The rounds end for one of those reasons, or because a solve fails or meets
\* the deadline for cuts, which is nearer than the search's.
EndCutRounds ==
  /\ phase = "cut"
  /\ phase' = "structural"
  /\ UNCHANGED <<lp, root, expired>> /\ AtRoot

Structural ==
  /\ phase = "structural"
  /\ \/ UNCHANGED lp
     \/ \E v \in OptimalBases(lp) :
          LET candidate == WithCuts(lp, SetToSeq(StructuralCuts(lp, v)))
          IN  OptimalBases(candidate) # {} /\ lp' = candidate
  /\ phase' = "handover"
  /\ root' = [NoRoot EXCEPT !.plain = root.plain]
  /\ UNCHANGED expired /\ AtRoot

\* convert_cuts_to_le, and a last solve, without which no cut is kept.
CutsAsLe(lq) ==
  [lq EXCEPT
    !.a = [i \in DOMAIN @ |-> IF i > root.plain THEN Negated(@[i]) ELSE @[i]],
    !.b = [i \in DOMAIN @ |-> IF i > root.plain THEN -@[i] ELSE @[i]],
    !.kind = [i \in DOMAIN @ |-> IF i > root.plain THEN "Le" ELSE @[i]]]

FirstRows(lq, n) ==
  [lq EXCEPT !.a = SubSeq(@, 1, n), !.b = SubSeq(@, 1, n), !.kind = SubSeq(@, 1, n),
             !.rows = 1..n]

HandOver ==
  /\ phase = "handover"
  /\ \/ lp' = FirstRows(lp, root.plain)
     \/ OptimalBases(lp) # {} /\ lp' = CutsAsLe(lp)
  /\ phase' = "tree"
  /\ UNCHANGED <<root, expired>> /\ AtRoot

-----------------------------------------------------------------------------
(* The share of the iterations that separation may take *)

\* total_simplex_iters.
TotalIters(s) == GreaterOf(s.node_iters + s.sep_iters, s.nodes)

\* SEPARATION_ITER_SHARE, rounded down.
Share(n) == (35 * n) \div 1000

\* Mutant: the surcharges are not counted.
AllowanceOfIterations(s) == GreaterOf(Share(TotalIters(s)) - s.sep_iters, 0)

\* separation_iter_budget.
Allowance(s) == GreaterOf(Share(TotalIters(s)) - s.sep_iters - s.overhead, 0)

\* may_run_separation.
MaySeparate(s) == s.dry < DryLimit /\ Allowance(s) > 0

\* tree_cut_dim, tree_cut_construction_surcharge, tree_cut_min_useful_iters.
Dim(lq) == Cardinality(Cols) + Len(lq.a)
Surcharge(lq, builds) == (builds * Dim(lq)) \div 4
Useful(lq) == 4 * Dim(lq)

Remaining(n) == GreaterOf(n.max - n.iters - n.overhead, 0)

-----------------------------------------------------------------------------
(* Nodes: maybe_apply_tree_cut_separation *)

\* The boxes of nodes: one side of a branch on an integer column.
Branches(lq) ==
  {WithBounds(lq, [k \in {s.col} |-> s]) :
     s \in {s \in [col : lq.ints, lo : -Reach..Reach, hi : -Reach..Reach] :
              /\ s.lo <= s.hi
              /\ \/ s.lo = lq.lo[s.col] /\ s.hi < lq.hi[s.col]
                 \/ s.hi = lq.hi[s.col] /\ s.lo > lq.lo[s.col]}}

\* separate_tree_cuts at a node with the box of home, solved to the vertex v.
SeparationAt(home, lq, v, max) ==
  [active |-> TRUE, home |-> home, lp |-> lq, pool |-> {}, round |-> 0, max |-> max,
   iters |-> 0, overhead |-> 0, over |-> FALSE,
   base |-> ObjectiveOf(lq, v), reached |-> ObjectiveOf(lq, v)]

InTree == UNCHANGED <<prob, goal, lp, stack, pass, at, changed, expired, phase, lifted, answer, root>>

\* A node's relaxation is solved; its depth, and the number of nodes, say
\* whether separation is tried.  An incumbent found since the last node, or the
\* number of nodes, may have ended the dry streak.  (Bounds are propagated to a
\* fixpoint, which MaxPass passes mostly reach.)
ProcessNode ==
  /\ phase = "tree" /\ ~node.active /\ stats.nodes < MaxNodes
  /\ \E k \in NodeIters, d \in {0, stats.dry} :
       LET new == [stats EXCEPT !.nodes = @ + 1, !.node_iters = @ + k, !.dry = d]
       IN  /\ stats' = new
           /\ \/ UNCHANGED node
              \/ /\ MaySeparate(new)
                 /\ \E home \in Branches(lp) :
                      LET lq == Propagated(home, MaxPass)
                      IN  /\ ~IsEmptyBox(lq)
                          /\ \E v \in OptimalBases(lq) :
                               node' = SeparationAt(home, lq, v, Allowance(new))
  /\ InTree

\* Cuts appended to a node's program, and the solve that decides on them with
\* what remains of the iterations (n holds what has been spent).
Validate(n, cuts) ==
  LET candidate == WithCuts(n.lp, cuts)
      bases == OptimalBases(candidate)
  IN  IF cuts = <<>> \/ Remaining(n) < Useful(candidate)
      THEN node' = [n EXCEPT !.over = TRUE]
      ELSE \E used \in {0, Remaining(n)} :
             LET spent == [n EXCEPT !.iters = @ + used, !.overhead = @ + Surcharge(candidate, 3)]
             IN  \/ node' = [spent EXCEPT !.over = TRUE]
                 \/ \E v \in bases :
                      LET f == ObjectiveOf(candidate, v)
                      IN  node' = [spent EXCEPT
                                     !.lp = candidate, !.pool = @ \cup ToSet(cuts),
                                     !.round = @ + 1, !.reached = f,
                                     !.over = ~IsBetterBound(f, n.reached)]

CanSeparate == ~node.over /\ node.round < TreeRounds /\ Remaining(node) >= Useful(node.lp)

\* A round: solve, generate, validate.  The first solve starts cold.
SeparationRound ==
  /\ node.active /\ CanSeparate
  /\ LET start == Surcharge(node.lp, IF node.round = 0 THEN 1 ELSE 2)
     IN  \E used \in {0, Remaining(node) - start} :
           LET n == [node EXCEPT !.iters = @ + used, !.overhead = @ + start]
           IN  \/ node' = [n EXCEPT !.over = TRUE]
               \/ \E v \in OptimalBases(n.lp) :
                    Validate([n EXCEPT !.overhead = @ + Surcharge(n.lp, 1)],
                             Separate(n.pool, GomoryCuts(n.lp, v)))
  /\ UNCHANGED stats /\ InTree

\* record_separation_attempt, if a round ran.
EndSeparation ==
  /\ node.active /\ ~CanSeparate
  /\ LET attempted == node.iters + node.overhead > 0
     IN  stats' = [stats EXCEPT
                     !.sep_iters = @ + node.iters, !.overhead = @ + node.overhead,
                     !.dry = IF ~attempted THEN @
                             ELSE IF IsBetterBound(node.reached, node.base) THEN 0 ELSE @ + 1]
  /\ node' = NoNode
  /\ InTree

\* solve_mip_dispatch, on the program as it now is.
AnswerFromTree ==
  /\ phase = "tree" /\ ~node.active
  /\ \E r \in Says(Optimum(lp)) : Answer(r)
  /\ UNCHANGED <<lifted, milpVars>>

-----------------------------------------------------------------------------
MilpNext ==
  \/ PropagateAtRoot \/ EndPropagation \/ Probe \/ EndRepropagation \/ EndProbing
  \/ OrderColumns \/ CutRound \/ EndCutRounds \/ Structural \/ HandOver
  \/ ProcessNode \/ SeparationRound \/ EndSeparation \/ AnswerFromTree

\* Model::solve (otspot-model): a program with integer columns takes this way,
\* a linear one that of LpSolve.
ModelInit ==
  /\ Given
  /\ lifted = NoPoint /\ answer = NoAnswer /\ MilpInit
  /\ IF prob.ints = {} THEN phase = "boundary" /\ changed = FALSE
     ELSE phase = "propagate" /\ changed = TRUE

ModelNext ==
  \/ root.plain = 0 /\ SolveNext /\ UNCHANGED milpVars
  \/ MilpNext

ModelSpec == ModelInit /\ [][ModelNext]_<<vars, milpVars>>

-----------------------------------------------------------------------------
(* Properties *)

\* The points of the program given that the ordering rows admit, if any.
Representatives ==
  {x \in Points(prob) : \A i \in (Len(prob.a) + 1)..root.plain :
                          Compare(lp.kind[i], Activity(lp, i, x), lp.b[i])}

\* No bound tightened at the root and no cut, be it Gomory's, a cover, a clique
\* or a flow cover, removes a point of the program given, but for those that
\* the ordering rows give up; these leave an optimal one.  What is done at a
\* node removes no point of the node's box, which is all a cut found there is
\* good for (the soundness note of separate_tree_cuts).
KeepsPoints ==
  /\ phase \in {"propagate", "repropagate", "probe", "order", "cut", "structural", "handover", "tree"} =>
       Representatives \subseteq Points(lp) /\ Optimum(lp) = goal
  /\ node.active => Points(node.home) \subseteq Points(node.lp)

\* What separation has spent, iterations and surcharges, is within its share of
\* the search's iterations, but for the surcharge of one last solve.
SeparationBudget ==
  prob.ints # {} =>
  LET n == IF node.active THEN node ELSE [iters |-> 0, overhead |-> 0]
      spent == stats.sep_iters + stats.overhead + n.iters + n.overhead
      largest == Dim(lp) + TreeRounds * Cardinality(lp.ints)
  IN  spent <= Share(TotalIters(stats)) + (3 * largest) \div 4
=============================================================================
