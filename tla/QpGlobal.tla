------------------------------ MODULE QpGlobal ------------------------------
(***************************************************************************)
(* The spatial branch and bound of a non-convex QP (solve_qp_global).        *)
(* Sources: otspot-core/src/qp/global/{mod,branch,node,tree}.rs.             *)
(*                                                                         *)
(* Abstraction of the data.  A box of variable bounds is an interval of      *)
(* cells: a cell is what branching cannot separate any more, since every     *)
(* variable left is at most MIN_BRANCH_BOX_WIDTH wide or has an infinite      *)
(* bound.  A feasible point is a model value with its cell and objective.    *)
(* One action is one iteration of the search loop; the calls of the local    *)
(* solver and of the bounding procedures are choices among the answers a     *)
(* sound solver may give.                                                   *)
(***************************************************************************)
EXTENDS GapTest, FiniteSets

CONSTANTS
  RootBoxes,     \* the boxes a problem may have
  Feasible,      \* the points the constraints admit
  Cell, Value,   \* their cell and their objective
  Bound,         \* the finite values a bounding procedure may return
  CellsExact,    \* a local solve of a single cell finds its least value: true of
                 \* boxes too narrow to branch, not of infinite ones
  CanStop,       \* whether a deadline or a cancel flag was given
  MaxNodes, MaxDepth

ASSUME QpAssumption ==
  /\ \A box \in RootBoxes : box.lo \in Nat /\ box.hi \in Nat /\ box.lo <= box.hi
  /\ Cell \in [Feasible -> Nat] /\ Value \in [Feasible -> Int]
  /\ Bound \subseteq Int
  /\ \A v \in Bound \cup {Value[p] : p \in Feasible} : -Inf < v /\ v < Inf
  /\ CellsExact \in BOOLEAN /\ CanStop \in BOOLEAN
  /\ MaxNodes \in Nat \ {0} /\ MaxDepth \in Nat

VARIABLES
  root,            \* the box of this problem
  pc,              \* "root", "bound", "loop", "close", "done"
  tree,            \* BBTree
  inc,             \* incumbent_obj
  originalDuals,   \* the incumbent is the root's, with a status polish trusts
  discardLb,       \* discard_lb
  incomplete,      \* search_incomplete
  processed,       \* stats.nodes_processed
  answer           \* the result: its claim, objective and lower bound

vars == <<root, pc, tree, inc, originalDuals, discardLb, incomplete, processed,
          answer>>

-----------------------------------------------------------------------------
(* Boxes, nodes and the tree *)

Inside(box) == {p \in Feasible : box.lo <= Cell[p] /\ Cell[p] <= box.hi}

Answer(claim, obj, lb) == [claim |-> claim, obj |-> obj, lb |-> lb]
NoAnswer == Answer("none", Inf, -Inf)

RootNode(lb) == [box |-> root, lb |-> lb, depth |-> 0]

\* select_branching_variable finds one.
Branchable(box) == box.lo < box.hi

\* split_node: both children inherit the bound the parent itself inherited.
Children(node, s) ==
  {[box |-> [lo |-> node.box.lo, hi |-> s], lb |-> node.lb,
    depth |-> node.depth + 1],
   [box |-> [lo |-> s + 1, hi |-> node.box.hi], lb |-> node.lb,
    depth |-> node.depth + 1]}

Splits(node) == {Children(node, s) : s \in node.box.lo .. (node.box.hi - 1)}

\* Best bound first; equal bounds leave first-in-first-out in the code and in
\* any order here.
BestNodes(nodes) == {n \in nodes : \A m \in nodes : n.lb <= m.lb}
BestBound(nodes) == IF nodes = {} THEN Inf ELSE (CHOOSE n \in BestNodes(nodes) : TRUE).lb

-----------------------------------------------------------------------------
(* What the solvers answer *)

\* compute_node_lower_bound (interval, alpha-BB, McCormick; -Inf when the box
\* is infinite or the bounding solves are cut short), then the maximum with the
\* inherited bound.
NodeBounds(node) ==
  {Greater(node.lb, b) :
     b \in {-Inf} \cup {b \in Bound : \A p \in Inside(node.box) : b <= Value[p]}}

\* The objectives of the usable points a local solve of the box may return.
LocalValues(box) ==
  LET here == Inside(box)
      least == {p \in here : \A r \in here : Value[p] <= Value[r]}
  IN  {Value[p] : p \in IF CellsExact /\ ~Branchable(box) THEN least ELSE here}

\* polish_incumbent_duals: a re-solve on the original bounds.  Skipped for a
\* root incumbent with trusted duals; accepted up to gap_tol worse otherwise.
Polished ==
  IF originalDuals THEN {inc}
  ELSE {inc} \cup {v \in {Value[p] : p \in Inside(root)} :
                     (v - inc) * GapDen <= GapNum * Scale(inc)}

-----------------------------------------------------------------------------
(* The root *)

Init ==
  /\ root \in RootBoxes
  /\ pc = "root" /\ tree = {} /\ inc = Inf /\ originalDuals = FALSE
  /\ discardLb = Inf /\ incomplete = FALSE /\ processed = 0
  /\ answer = NoAnswer

\* The local solve of the root box fails (or is infeasible): its own status is
\* the answer.
RootFails ==
  /\ pc = "root"
  /\ \E claim \in {"Failed"} \cup {c \in {"Infeasible"} : Inside(root) = {}} :
       answer' = Answer(claim, Inf, -Inf)
  /\ pc' = "done"
  /\ UNCHANGED <<root, tree, inc, originalDuals, discardLb, incomplete, processed>>

RootSolves ==
  /\ pc = "root"
  /\ inc' \in LocalValues(root)
  /\ originalDuals' \in BOOLEAN
  /\ processed' = 1
  /\ pc' = "bound"
  /\ UNCHANGED <<root, tree, discardLb, incomplete, answer>>

\* finalize_proven: prove_optimal may still demote the incumbent.
Proven(obj, lb) ==
  /\ \E claim \in {"Global", "Local"} : answer' = Answer(claim, obj, lb)
  /\ pc' = "done"
  /\ UNCHANGED <<root, tree, inc, originalDuals, discardLb, incomplete, processed>>

\* finalize_unproven.
Unproven(obj, lb) ==
  /\ answer' = Answer("Local", obj, lb)
  /\ pc' = "done"
  /\ UNCHANGED <<root, tree, inc, originalDuals, discardLb, incomplete, processed>>

\* The root incumbent is within the gap of the root bound: the test is made
\* before the polish.
FinishAtRoot ==
  /\ pc = "bound"
  /\ \E lb \in NodeBounds(RootNode(-Inf)), obj \in Polished :
       WithinGap(inc, lb) /\ Proven(obj, lb)

\* finalize_unbranchable_root: the test is made again after the polish.
FinishUnbranchableRoot ==
  /\ pc = "bound" /\ ~Branchable(root)
  /\ \E lb \in NodeBounds(RootNode(-Inf)), obj \in Polished :
       /\ ~WithinGap(inc, lb)
       /\ \/ WithinGap(obj, lb) /\ Proven(obj, lb)
          \/ ~WithinGap(obj, lb) /\ Unproven(obj, lb)

SplitRoot ==
  /\ pc = "bound" /\ Branchable(root)
  /\ \E lb \in NodeBounds(RootNode(-Inf)) :
       ~WithinGap(inc, lb) /\ tree' \in Splits(RootNode(lb))
  /\ pc' = "loop"
  /\ UNCHANGED <<root, inc, originalDuals, discardLb, incomplete, processed, answer>>

-----------------------------------------------------------------------------
(* One iteration of the loop *)

Popped(node) ==
  /\ pc = "loop" /\ node \in BestNodes(tree)
  /\ UNCHANGED <<root, answer>>

\* Mutant: the node in hand is dropped.
ForgetRegion(lb) == incomplete' = TRUE /\ UNCHANGED discardLb

\* A region is given up: fold_interrupted_node and the two folds of the loop.
FoldRegion(lb) == incomplete' = TRUE /\ discardLb' = Lesser(discardLb, lb)

Interrupted(node) ==
  /\ Popped(node)
  /\ CanStop \/ processed >= MaxNodes
  /\ FoldRegion(node.lb)
  /\ tree' = tree \ {node}
  /\ pc' = "close"
  /\ UNCHANGED <<inc, originalDuals, processed>>

Rest(node) == tree \ {node}

\* Pruned by the inherited bound or by the tightened one.
Pruned(node) ==
  /\ Popped(node) /\ processed < MaxNodes
  /\ \E lb \in NodeBounds(node) : ShouldPrune(lb, inc)
  /\ tree' = Rest(node)
  /\ UNCHANGED <<pc, inc, originalDuals, discardLb, incomplete, processed>>

\* The node survives both tests with the bound lb and is solved locally.
Explored(node, lb) ==
  /\ Popped(node) /\ processed < MaxNodes
  /\ ~ShouldPrune(node.lb, inc)
  /\ lb \in NodeBounds(node) /\ ~ShouldPrune(lb, inc)
  /\ processed' = processed + 1
  /\ UNCHANGED pc

\* node_discard_is_conclusive.
ProvedEmpty(node, lb) ==
  /\ Explored(node, lb) /\ Inside(node.box) = {}
  /\ tree' = Rest(node)
  /\ UNCHANGED <<inc, originalDuals, discardLb, incomplete>>

\* Any other unusable result says nothing of the box.
Abandoned(node, lb) ==
  /\ Explored(node, lb)
  /\ FoldRegion(lb)
  /\ tree' = Rest(node)
  /\ UNCHANGED <<inc, originalDuals>>

\* update_incumbent, by a strictly better objective.
Adopted(v) ==
  /\ inc' = Lesser(inc, v)
  /\ originalDuals' = (originalDuals /\ v >= inc)

TooDeep(node) == node.depth + 1 > MaxDepth

SolvedTooDeep(node, lb) ==
  /\ Explored(node, lb) /\ TooDeep(node)
  /\ \E v \in LocalValues(node.box) : Adopted(v)
  /\ FoldRegion(lb)
  /\ tree' = Rest(node)

\* No variable to branch on: the node leaves the tree and nothing is folded.
SolvedLeaf(node, lb) ==
  /\ Explored(node, lb) /\ ~TooDeep(node) /\ ~Branchable(node.box)
  /\ \E v \in LocalValues(node.box) : Adopted(v)
  /\ tree' = Rest(node)
  /\ UNCHANGED <<discardLb, incomplete>>

Branched(node, lb) ==
  /\ Explored(node, lb) /\ ~TooDeep(node) /\ Branchable(node.box)
  /\ \E v \in LocalValues(node.box) : Adopted(v)
  /\ \E children \in Splits(node) : tree' = Rest(node) \cup children
  /\ UNCHANGED <<discardLb, incomplete>>

Drained ==
  /\ pc = "loop" /\ tree = {}
  /\ pc' = "close"
  /\ UNCHANGED <<root, tree, inc, originalDuals, discardLb, incomplete, processed, answer>>

\* Mutant: an empty tree is taken for a complete search.
HaltedEarlyByTree(stopped) == tree # {} \/ stopped

\* `halted_early`; the stop flag is read once more after the polish.
HaltedEarly(stopped) ==
  tree # {} \/ incomplete \/ stopped \/ processed >= MaxNodes

\* polish_incumbent_duals and finalize_search_outcome.
Close ==
  /\ pc = "close"
  /\ \E obj \in Polished, stopped \in {CanStop, FALSE} :
       LET remaining == Lesser(BestBound(tree), discardLb)
       IN  \/ ~HaltedEarly(stopped) /\ Proven(obj, obj)
           \/ /\ HaltedEarly(stopped) /\ WithinGap(obj, remaining)
              /\ Proven(obj, Lesser(remaining, obj))
           \/ /\ HaltedEarly(stopped) /\ ~WithinGap(obj, remaining)
              /\ Unproven(obj, remaining)

Explore(node) ==
  \E lb \in NodeBounds(node) :
    \/ ProvedEmpty(node, lb) \/ Abandoned(node, lb)
    \/ SolvedTooDeep(node, lb) \/ SolvedLeaf(node, lb) \/ Branched(node, lb)

Step ==
  \/ RootFails \/ RootSolves
  \/ FinishAtRoot \/ FinishUnbranchableRoot \/ SplitRoot
  \/ \E node \in tree : Interrupted(node) \/ Pruned(node) \/ Explore(node)
  \/ Drained \/ Close

\* The call has returned.
Returned == pc = "done" /\ UNCHANGED vars

Next == Step \/ Returned

Spec == Init /\ [][Next]_vars

-----------------------------------------------------------------------------
(* Properties *)

\* Every variable has its type, and the node count never passes its limit.
TypeOK ==
  /\ root \in RootBoxes
  /\ pc \in {"root", "bound", "loop", "close", "done"}
  /\ \A n \in tree : n.lb \in Int /\ n.depth \in 1 .. Greater(1, MaxDepth)
                     /\ root.lo <= n.box.lo /\ n.box.hi <= root.hi
  /\ inc \in Int /\ inc <= Inf
  /\ originalDuals \in BOOLEAN /\ incomplete \in BOOLEAN
  /\ discardLb \in Int /\ discardLb <= Inf
  /\ processed \in 0 .. MaxNodes
  /\ answer.claim \in {"none", "Failed", "Infeasible", "Local", "Global"}

Accounted(p) ==
  \/ \E n \in tree : p \in Inside(n.box) /\ n.lb <= Value[p]
  \/ incomplete /\ discardLb <= Value[p]
  \/ WithinGap(inc, Value[p])

\* Through prunes, failed solves, the depth limit and interruptions, every
\* feasible point is in an open node or a folded region whose bound it respects,
\* or is not worth looking for; so the bound published at the end is honest.
RegionsCovered ==
  pc \in {"loop", "close"} => \A p \in Inside(root) : Accounted(p)

\* What the code does guarantee of a global claim: one gap_tol lost by pruning and
\* one by the polish after it.
GapKeptTwice ==
  answer.claim = "Global" =>
    \A p \in Inside(root) :
      (answer.obj - Value[p]) * GapDen
        <= 2 * GapNum * Greater(Scale(inc), Scale(answer.obj))

=============================================================================
