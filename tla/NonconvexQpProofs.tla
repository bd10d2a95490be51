--------------------------- MODULE NonconvexQpProofs ---------------------------
(***************************************************************************)
(* The three parts of the non-convex QP front end.                          *)
(* The spatial branch and bound, for any feasible points, any bounds that    *)
(* respect them, any gap tolerance of at most 1 and any node and depth        *)
(* limits: no region is lost, and a global claim is within twice the          *)
(* tolerance.  Its inductive invariant is IInv: the types, where the search    *)
(* has an incumbent, RegionsCovered, and the claim itself.                   *)
(* The multistart calls over the cached solver pool, for any calls and        *)
(* requests, and the ladder of interior-point attempts, for any iterates,     *)
(* limits and calls.                                                         *)
(***************************************************************************)
EXTENDS QpGlobal, MultiStart, IpmAttempts, FiniteSetTheorems,
        SequenceTheorems, WellFoundedInduction, TLAPS

-----------------------------------------------------------------------------
(* The pruning test, for any gap tolerance of at most 1, and least bounds *)

\* |v|, but at least 1, is a positive integer.
LEMMA ScaleType == ASSUME NEW v \in Int PROVE Scale(v) \in Nat /\ Scale(v) >= 1
  BY DEF Scale, Greater

\* Two objectives differ by at least as much as their scales.
LEMMA ScaleLipschitz ==
  ASSUME NEW u \in Int, NEW v \in Int, u <= v
  PROVE  Scale(v) <= Scale(u) + (v - u)
  BY DEF Scale, Greater

\* A value within the gap of an incumbent is within the gap of a better one:
\* what was pruned stays pruned.  This is where gap_tol <= 1 is needed.
LEMMA GapMonotone ==
  ASSUME NEW inc1 \in Int, NEW inc2 \in Int, NEW v \in Int,
         inc2 <= inc1, IsFinite(inc2), WithinGap(inc1, v)
  PROVE  WithinGap(inc2, v)
<1> DEFINE d == inc1 - inc2
<1>1. GapNum \in Nat /\ GapDen \in Nat /\ GapNum <= GapDen
  BY GapAssumption
<1>2. Scale(inc1) \in Nat /\ Scale(inc2) \in Nat /\ d \in Nat
  BY ScaleType
<1>3. Scale(inc1) <= Scale(inc2) + d
  BY ScaleLipschitz
<1>4. (inc1 - v) * GapDen <= GapNum * Scale(inc1)
  BY DEF WithinGap
<1>5. GapNum * Scale(inc1) <= GapNum * Scale(inc2) + GapNum * d
  <2> HIDE DEF d
  <2> QED
    BY <1>1, <1>2, <1>3
<1>6. GapNum * d <= GapDen * d
  BY <1>1, <1>2
<1>7. (inc2 - v) * GapDen = (inc1 - v) * GapDen - GapDen * d
  BY <1>1
<1>8. GapNum * Scale(inc1) \in Int /\ GapNum * Scale(inc2) \in Int
      /\ GapNum * d \in Int /\ GapDen * d \in Int /\ (inc1 - v) * GapDen \in Int
  BY <1>1, <1>2
<1>9. (inc2 - v) * GapDen <= GapNum * Scale(inc2)
  <2> HIDE DEF d
  <2> QED
    BY <1>4, <1>5, <1>6, <1>7, <1>8
<1> QED
  BY <1>9 DEF WithinGap

\* A better bound than one within the gap is within the gap too.
LEMMA GapOfHigherBound ==
  ASSUME NEW u \in Int, NEW lb \in Int, NEW v \in Int,
         WithinGap(u, lb), lb <= v, v < Inf
  PROVE  WithinGap(u, v)
<1>1. GapNum \in Nat /\ GapDen \in Nat \ {0} /\ Inf \in Int
  BY GapAssumption
<1>2. (u - v) * GapDen <= (u - lb) * GapDen
  BY <1>1
<1>3. GapNum * Scale(u) \in Int
  BY <1>1, ScaleType
<1>4. (u - v) * GapDen \in Int /\ (u - lb) * GapDen \in Int
  BY <1>1
<1> QED
  BY <1>1, <1>2, <1>3, <1>4 DEF WithinGap, IsFinite

\* A value the incumbent does not exceed is within the gap.
LEMMA GapOfWorse ==
  ASSUME NEW u \in Int, NEW v \in Int, IsFinite(u), IsFinite(v), u <= v
  PROVE  WithinGap(u, v)
<1>1. GapNum \in Nat /\ GapDen \in Nat
  BY GapAssumption
<1>2. GapNum * Scale(u) \in Nat
  BY <1>1, ScaleType
<1>3. (u - v) * GapDen <= 0 /\ (u - v) * GapDen \in Int
  BY <1>1
<1> QED
  BY <1>2, <1>3 DEF WithinGap

\* A set of naturals has a least one: the order is well founded.
LEMMA LeastNatural ==
  ASSUME NEW T, T \subseteq Nat, T # {}
  PROVE  \E x \in T : \A y \in T : x <= y
<1>1. PICK x \in T : \A y \in T : <<y, x>> \notin OpToRel(<, Nat)
  BY WFMin, NatLessThanWellFounded, Zenon
<1>2. \A y \in T : ~(y < x)
  BY <1>1, Zenon DEF OpToRel
<1> QED
  BY <1>2

\* So has a set of integers that is bounded from below.
LEMMA LeastInteger ==
  ASSUME NEW T \in SUBSET Int, T # {}, NEW low \in Int, \A v \in T : low <= v
  PROVE  \E x \in T : \A y \in T : x <= y
<1> DEFINE offsets == {v - low : v \in T}
<1>1. \A v \in T : v \in Int /\ v - low \in Nat
  OBVIOUS
<1>2. offsets \subseteq Nat /\ offsets # {}
  BY <1>1
<1>3. PICK x \in offsets : \A y \in offsets : x <= y
  <2> HIDE DEF offsets
  <2> QED
    BY <1>2, LeastNatural
<1>4. PICK v \in T : x = v - low
  OBVIOUS
<1>5. ASSUME NEW w \in T PROVE v <= w
  <2>1. w - low \in offsets
    OBVIOUS
  <2> QED
    BY <1>1, <1>3, <1>4, <2>1
<1> QED
  BY <1>5

-----------------------------------------------------------------------------
(* The spatial branch and bound *)

\* A node is a record of a box of integers, whose bound is finite or -Inf.
Nodes == [box : [lo : Int, hi : Int], lb : {v \in Int : -Inf <= v}, depth : Nat]

\* From the root solve on there is an incumbent, and it is an objective.
HasIncumbent ==
  pc \in {"bound", "loop", "close"} => IsFinite(inc)

\* Before the loop the tree is empty; no bound is discarded below -Inf.
Shape ==
  /\ tree \subseteq Nodes
  /\ pc \in {"root", "bound"} => tree = {}
  /\ pc \in {"root", "bound", "loop", "close"} => answer.claim = "none"
  /\ pc = "root" => processed = 0

TypeInv == TypeOK /\ Shape /\ HasIncumbent

IInv == TypeInv /\ RegionsCovered /\ GapKeptTwice

-----------------------------------------------------------------------------
(* Boxes and bounds *)

\* The objectives are finite integers, and so are the bounds.
LEMMA Data ==
  /\ Inf \in Int /\ Inf > 0
  /\ GapNum \in Nat /\ GapDen \in Nat \ {0} /\ GapNum <= GapDen
  /\ MaxNodes \in Nat \ {0} /\ MaxDepth \in Nat
  /\ \A p \in Feasible : Value[p] \in Int /\ IsFinite(Value[p]) /\ Cell[p] \in Nat
  /\ \A b \in Bound : b \in Int /\ IsFinite(b)
  /\ \A box \in RootBoxes : box.lo \in Nat /\ box.hi \in Nat /\ box.lo <= box.hi
  BY GapAssumption, QpAssumption DEF IsFinite

\* What compute_node_lower_bound returns is no worse than the inherited bound,
\* and respects every point of the box that the inherited one respects.
LEMMA BoundsRespect ==
  ASSUME NEW node, node.lb \in Int, -Inf <= node.lb, NEW lb \in NodeBounds(node)
  PROVE  /\ lb \in Int /\ -Inf <= lb /\ node.lb <= lb
         /\ \A p \in Inside(node.box) : node.lb <= Value[p] => lb <= Value[p]
<1>1. PICK b \in {-Inf} \cup {v \in Bound : \A p \in Inside(node.box) : v <= Value[p]} :
        lb = Greater(node.lb, b)
  BY DEF NodeBounds
<1>2. b \in Int /\ \A p \in Inside(node.box) : Value[p] \in Int /\ b <= Value[p]
  BY Data DEF Inside, IsFinite
<1> QED
  BY <1>1, <1>2, Data DEF Greater

\* A local solve returns the objective of a feasible point.
LEMMA LocalIsFinite ==
  ASSUME NEW box, NEW v \in LocalValues(box)
  PROVE  v \in Int /\ IsFinite(v)
  BY Data DEF LocalValues, Inside

\* Branching loses no point of the box.
LEMMA ChildrenCover ==
  ASSUME NEW node, node.box.lo \in Int, node.box.hi \in Int,
         node.lb \in Int, -Inf <= node.lb, node.depth \in Nat,
         NEW children \in Splits(node)
  PROVE  /\ children \subseteq Nodes
         /\ \A c \in children : /\ c.lb = node.lb /\ c.depth = node.depth + 1
                                /\ node.box.lo <= c.box.lo /\ c.box.hi <= node.box.hi
         /\ \A p \in Inside(node.box) : \E c \in children : p \in Inside(c.box)
<1>1. PICK s \in node.box.lo .. (node.box.hi - 1) : children = Children(node, s)
  BY DEF Splits
<1> DEFINE left == [box |-> [lo |-> node.box.lo, hi |-> s], lb |-> node.lb,
                    depth |-> node.depth + 1]
           right == [box |-> [lo |-> s + 1, hi |-> node.box.hi], lb |-> node.lb,
                     depth |-> node.depth + 1]
<1>2. children = {left, right}
  BY <1>1 DEF Children
<1>3. s \in Int /\ node.box.lo <= s /\ s + 1 <= node.box.hi
  OBVIOUS
<1>4. left \in Nodes /\ right \in Nodes
  BY <1>3 DEF Nodes
<1>5. ASSUME NEW p \in Inside(node.box)
      PROVE  \E c \in children : p \in Inside(c.box)
  <2>1. p \in Feasible /\ Cell[p] \in Nat
        /\ node.box.lo <= Cell[p] /\ Cell[p] <= node.box.hi
    BY <1>5, Data DEF Inside
  <2>2. Cell[p] <= s => p \in Inside(left.box)
    BY <2>1 DEF Inside
  <2>3. ~(Cell[p] <= s) => p \in Inside(right.box)
    BY <2>1, <1>3 DEF Inside
  <2> QED
    BY <1>2, <2>2, <2>3
<1>6. \A c \in children : /\ c.lb = node.lb /\ c.depth = node.depth + 1
                          /\ node.box.lo <= c.box.lo /\ c.box.hi <= node.box.hi
  BY <1>2, <1>3
<1> QED
  BY <1>2, <1>4, <1>5, <1>6

\* The remaining bound of a tree is no more than that of any node in it: a set
\* of integers bounded from below has a least one.
LEMMA BestBoundIsLeast ==
  ASSUME tree \subseteq Nodes
  PROVE  /\ BestBound(tree) \in Int
         /\ \A n \in tree : BestBound(tree) <= n.lb
<1>1. CASE tree = {}
  BY <1>1, Data DEF BestBound
<1>2. CASE tree # {}
  <2> DEFINE lbs == {n.lb : n \in tree}
  <2>1. lbs \in SUBSET Int /\ lbs # {} /\ -Inf \in Int /\ \A v \in lbs : -Inf <= v
    BY <1>2, Data DEF Nodes
  <2>2. PICK x \in lbs : \A y \in lbs : x <= y
    <3> HIDE DEF lbs
    <3> QED
      BY <2>1, LeastInteger
  <2>4. PICK n \in tree : x = n.lb
    OBVIOUS
  <2>5. n \in BestNodes(tree)
    BY <2>2, <2>4 DEF BestNodes
  <2>6. BestBound(tree) = (CHOOSE m \in BestNodes(tree) : TRUE).lb
    BY <1>2 DEF BestBound
  <2>7. (CHOOSE m \in BestNodes(tree) : TRUE) \in BestNodes(tree)
    BY <2>5
  <2> QED
    BY <2>6, <2>7 DEF BestNodes, Nodes
<1> QED
  BY <1>1, <1>2

-----------------------------------------------------------------------------
(* The types, and where the search has an incumbent *)

\* A better incumbent is still an objective.
LEMMA AdoptedType ==
  ASSUME inc \in Int, IsFinite(inc), originalDuals \in BOOLEAN,
         NEW box, \E v \in LocalValues(box) : Adopted(v)
  PROVE  /\ inc' \in Int /\ inc' <= inc /\ IsFinite(inc')
         /\ originalDuals' \in BOOLEAN
<1>1. PICK v \in LocalValues(box) : Adopted(v)
  OBVIOUS
<1>2. v \in Int /\ IsFinite(v)
  BY LocalIsFinite
<1>3. inc' \in Int /\ inc' <= inc /\ IsFinite(inc')
  <2>1. inc' = Lesser(inc, v)
    BY <1>1 DEF Adopted
  <2> QED
    BY <1>2, <2>1, Data DEF Lesser, IsFinite
<1>4. originalDuals' \in BOOLEAN
  BY <1>1, Zenon DEF Adopted
<1> QED
  BY <1>3, <1>4

\* Every iteration of the loop keeps a tree of nodes within the root box, each
\* no deeper than the limit allows, and an incumbent.
LEMMA ExploreType ==
  ASSUME TypeInv, NEW node \in tree, Explore(node)
  PROVE  TypeInv'
<1>1. PICK lb \in NodeBounds(node) :
        \/ ProvedEmpty(node, lb) \/ Abandoned(node, lb)
        \/ SolvedTooDeep(node, lb) \/ SolvedLeaf(node, lb) \/ Branched(node, lb)
  BY DEF Explore
<1>2. /\ pc = "loop" /\ pc' = "loop" /\ root' = root /\ answer' = answer
      /\ processed < MaxNodes /\ processed' = processed + 1
  BY <1>1 DEF ProvedEmpty, Abandoned, SolvedTooDeep, SolvedLeaf, Branched, Explored,
              Popped
<1>3. node \in Nodes /\ node.lb \in Int /\ -Inf <= node.lb
  BY DEF TypeInv, Shape, Nodes
<1>4. lb \in Int /\ -Inf <= lb
  BY <1>3, BoundsRespect
<1>5. /\ inc' \in Int /\ IsFinite(inc')
      /\ originalDuals' \in BOOLEAN
  <2>1. inc \in Int /\ IsFinite(inc) /\ originalDuals \in BOOLEAN
    BY <1>2 DEF TypeInv, TypeOK, HasIncumbent
  <2>2. (UNCHANGED <<inc, originalDuals>>)
          \/ (\E v \in LocalValues(node.box) : Adopted(v))
    BY <1>1 DEF ProvedEmpty, Abandoned, SolvedTooDeep, SolvedLeaf, Branched
  <2> QED
    BY <2>1, <2>2, AdoptedType
<1>6. discardLb' \in Int /\ discardLb' <= Inf /\ incomplete' \in BOOLEAN
  <2>1. discardLb \in Int /\ discardLb <= Inf /\ incomplete \in BOOLEAN
    BY DEF TypeInv, TypeOK
  <2>2. (UNCHANGED <<discardLb, incomplete>>) \/ FoldRegion(lb)
    BY <1>1 DEF ProvedEmpty, Abandoned, SolvedTooDeep, SolvedLeaf, Branched
  <2>3. ASSUME FoldRegion(lb)
        PROVE  incomplete' = TRUE /\ discardLb' = Lesser(discardLb, lb)
    BY <2>3, Zenon DEF FoldRegion
  <2>4. Lesser(discardLb, lb) \in Int /\ Lesser(discardLb, lb) <= Inf
    BY <2>1, <1>4, Data DEF Lesser
  <2> QED
    BY <2>1, <2>2, <2>3, <2>4
<1>7. /\ tree' \subseteq Nodes
      /\ \A n \in tree' : n.lb \in Int /\ n.depth \in 1 .. Greater(1, MaxDepth)
                          /\ root.lo <= n.box.lo /\ n.box.hi <= root.hi
  <2>1. CASE tree' = Rest(node)
    BY <2>1 DEF Rest, TypeInv, TypeOK, Shape
  <2>2. CASE Branched(node, lb)
    <3>1. PICK children \in Splits(node) : tree' = Rest(node) \cup children
      BY <2>2 DEF Branched
    <3>2. node.box.lo \in Int /\ node.box.hi \in Int /\ node.depth \in Nat
      BY <1>3 DEF Nodes
    <3>3. /\ children \subseteq Nodes
          /\ \A c \in children : /\ c.lb = node.lb /\ c.depth = node.depth + 1
                                 /\ node.box.lo <= c.box.lo /\ c.box.hi <= node.box.hi
      BY <1>3, <3>2, ChildrenCover
    <3>4. node.depth + 1 \in 1 .. Greater(1, MaxDepth)
      BY <2>2, <3>2, Data DEF Branched, TooDeep, Greater
    <3>5. root.lo \in Int /\ root.hi \in Int
          /\ root.lo <= node.box.lo /\ node.box.hi <= root.hi
      BY Data DEF TypeInv, TypeOK
    <3>6. ASSUME NEW c \in children
          PROVE  c.lb \in Int /\ c.depth \in 1 .. Greater(1, MaxDepth)
                 /\ root.lo <= c.box.lo /\ c.box.hi <= root.hi
      <4>1. c.box.lo \in Int /\ c.box.hi \in Int
        BY <3>3 DEF Nodes
      <4> QED
        BY <1>3, <3>2, <3>3, <3>4, <3>5, <4>1
    <3>7. Rest(node) \subseteq tree
      BY DEF Rest
    <3> QED
      BY <3>1, <3>3, <3>6, <3>7 DEF TypeInv, TypeOK, Shape
  <2> QED
    BY <1>1, <2>1, <2>2 DEF ProvedEmpty, Abandoned, SolvedTooDeep, SolvedLeaf
<1>8. processed' \in 0 .. MaxNodes
  BY <1>2, Data DEF TypeInv, TypeOK
<1>9. TypeOK'
  <2>1. root' \in RootBoxes /\ pc' = "loop" /\ answer'.claim = answer.claim
    BY <1>2 DEF TypeInv, TypeOK
  <2>2. inc' <= Inf
    BY <1>5, Data DEF IsFinite
  <2> QED
    BY <1>2, <2>1, <2>2, <1>5, <1>6, <1>7, <1>8 DEF TypeOK, TypeInv
<1> QED
  BY <1>2, <1>5, <1>7, <1>9 DEF TypeInv, Shape, HasIncumbent

\* The call starts in the root box, with nothing found and nothing given up.
LEMMA TypeInit == Init => TypeInv
<1> SUFFICES ASSUME Init PROVE TypeInv
  OBVIOUS
<1>1. TypeOK
  <2>1. answer.claim = "none"
    BY DEF Init, NoAnswer, Answer
  <2>2. inc \in Int /\ inc <= Inf /\ discardLb \in Int /\ discardLb <= Inf
        /\ processed \in 0 .. MaxNodes
    BY Data DEF Init
  <2>3. root \in RootBoxes /\ pc = "root" /\ tree = {}
        /\ originalDuals = FALSE /\ incomplete = FALSE
    BY DEF Init
  <2> QED
    BY <2>1, <2>2, <2>3 DEF TypeOK
<1>2. Shape
  BY DEF Init, Shape, NoAnswer, Answer
<1>3. HasIncumbent
  BY DEF Init, HasIncumbent
<1> QED
  BY <1>1, <1>2, <1>3 DEF TypeInv

\* Every step of the call keeps the types.
LEMMA TypeStep ==
  ASSUME TypeInv, [Next]_vars
  PROVE  TypeInv'
<1> USE DEF TypeInv
<1>1. CASE RootFails
  <2>1. answer'.claim \in {"Failed", "Infeasible"}
    BY <1>1 DEF RootFails, Answer
  <2> QED
    BY <1>1, <2>1 DEF RootFails, TypeOK, Shape, HasIncumbent
<1>2. CASE RootSolves
  <2>1. inc' \in Int /\ IsFinite(inc')
    BY <1>2, LocalIsFinite DEF RootSolves
  <2>2. inc' <= Inf /\ 1 \in 0 .. MaxNodes
    BY <2>1, Data DEF IsFinite
  <2> QED
    BY <1>2, <2>1, <2>2 DEF RootSolves, TypeOK, Shape, HasIncumbent
<1>3. ASSUME NEW obj, NEW lb, Proven(obj, lb) \/ Unproven(obj, lb) PROVE TypeInv'
  <2>1. answer'.claim \in {"Global", "Local"}
    BY <1>3 DEF Proven, Unproven, Answer
  <2> QED
    BY <1>3, <2>1 DEF Proven, Unproven, TypeOK, Shape, HasIncumbent
<1>4. CASE FinishAtRoot
  BY <1>3, <1>4 DEF FinishAtRoot
<1>5. CASE FinishUnbranchableRoot
  BY <1>3, <1>5 DEF FinishUnbranchableRoot
<1>6. CASE SplitRoot
  <2>1. PICK lb \in NodeBounds(RootNode(-Inf)) : tree' \in Splits(RootNode(lb))
    BY <1>6 DEF SplitRoot
  <2>2. lb \in Int /\ -Inf <= lb
    BY <2>1, BoundsRespect, Data DEF RootNode
  <2> DEFINE node == RootNode(lb)
  <2>3. /\ node.lb = lb /\ node.depth = 0 /\ node.box = root
        /\ root.lo \in Int /\ root.hi \in Int
    BY Data DEF RootNode, TypeOK
  <2> HIDE DEF node
  <2>4. /\ tree' \subseteq Nodes
        /\ \A c \in tree' : /\ c.lb = lb /\ c.depth = 1
                            /\ root.lo <= c.box.lo /\ c.box.hi <= root.hi
    <3>1. tree' \in Splits(node)
      BY <2>1 DEF node
    <3> QED
      BY <3>1, <2>2, <2>3, ChildrenCover
  <2>5. 1 \in 1 .. Greater(1, MaxDepth)
    BY Data DEF Greater
  <2>6. TypeOK'
    BY <1>6, <2>2, <2>4, <2>5 DEF SplitRoot, TypeOK
  <2> QED
    BY <1>6, <2>4, <2>6 DEF SplitRoot, Shape, HasIncumbent
<1>7. ASSUME NEW node \in tree, Interrupted(node) PROVE TypeInv'
  <2>1. node.lb \in Int /\ discardLb \in Int /\ discardLb <= Inf
    BY DEF Shape, Nodes, TypeOK
  <2>2. incomplete' = TRUE /\ discardLb' \in Int /\ discardLb' <= Inf
    BY <1>7, <2>1, Data DEF Interrupted, FoldRegion, Lesser
  <2>3. tree' \subseteq tree /\ pc = "loop" /\ pc' = "close"
        /\ UNCHANGED <<root, answer, inc, originalDuals, processed>>
    BY <1>7 DEF Interrupted, Popped
  <2> QED
    BY <2>2, <2>3 DEF TypeOK, Shape, HasIncumbent
<1>8. ASSUME NEW node \in tree, Pruned(node) PROVE TypeInv'
  <2>1. tree' \subseteq tree
        /\ UNCHANGED <<root, answer, pc, inc, originalDuals, discardLb, incomplete,
                      processed>>
    BY <1>8 DEF Pruned, Popped, Rest
  <2> QED
    BY <2>1 DEF TypeOK, Shape, HasIncumbent
<1>9. ASSUME NEW node \in tree, Explore(node) PROVE TypeInv'
  BY <1>9, ExploreType
<1>10. CASE Drained
  BY <1>10 DEF Drained, TypeOK, Shape, HasIncumbent
<1>11. CASE Close
  BY <1>3, <1>11 DEF Close
<1>12. CASE UNCHANGED vars
  BY <1>12 DEF vars, TypeOK, Shape, HasIncumbent
<1> QED
  BY <1>1, <1>2, <1>4, <1>5, <1>6, <1>7, <1>8, <1>9, <1>10, <1>11, <1>12
  DEF Next, Step, Returned

-----------------------------------------------------------------------------
(* No region is lost *)

\* A point accounted for in the loop stays so when its node, its folded region
\* and the incumbent that excuses it are no worse than before.
LEMMA StaysAccounted ==
  ASSUME TypeInv, NEW p \in Feasible, Accounted(p),
         inc' \in Int, inc' <= inc, IsFinite(inc'),
         discardLb' \in Int, discardLb' <= discardLb, incomplete => incomplete',
         \A n \in tree \ tree' : p \in Inside(n.box) /\ n.lb <= Value[p]
                                  => Accounted(p)'
  PROVE  Accounted(p)'
<1>1. Value[p] \in Int /\ IsFinite(Value[p])
  BY Data
<1>2. ASSUME NEW n \in tree, p \in Inside(n.box), n.lb <= Value[p]
      PROVE  Accounted(p)'
  <2>1. CASE n \in tree'
    BY <1>2, <2>1 DEF Accounted
  <2> QED
    BY <1>2, <2>1
<1>3. ASSUME incomplete, discardLb <= Value[p] PROVE Accounted(p)'
  <2>1. discardLb \in Int
    BY DEF TypeInv, TypeOK
  <2> QED
    BY <1>1, <1>3, <2>1 DEF Accounted
<1>4. ASSUME WithinGap(inc, Value[p]) PROVE Accounted(p)'
  <2>1. inc \in Int
    BY DEF TypeInv, TypeOK
  <2>2. WithinGap(inc', Value[p])
    BY <1>1, <1>4, <2>1, GapMonotone
  <2> QED
    BY <2>2 DEF Accounted
<1> QED
  BY <1>2, <1>3, <1>4 DEF Accounted

\* A region given up with the bound lb accounts for the points above it.
LEMMA FoldAccounts ==
  ASSUME TypeInv, NEW p \in Feasible, NEW lb \in Int, FoldRegion(lb)
  PROVE  /\ discardLb' \in Int /\ discardLb' <= discardLb /\ incomplete'
         /\ lb <= Value[p] => Accounted(p)'
<1>1. discardLb \in Int /\ Value[p] \in Int
  BY Data DEF TypeInv, TypeOK
<1>2. incomplete' = TRUE /\ discardLb' = Lesser(discardLb, lb)
  BY DEF FoldRegion
<1>3. discardLb' \in Int /\ discardLb' <= discardLb /\ discardLb' <= lb
  BY <1>1, <1>2 DEF Lesser
<1> QED
  BY <1>1, <1>2, <1>3 DEF Accounted

\* An iteration accounts for the points of the node it takes: an empty box has
\* none, an abandoned or too deep one is folded with the bound, the least value
\* of a box that cannot be branched is found, and the children cover the rest.
LEMMA ExploreCovers ==
  ASSUME CellsExact, TypeInv, NEW node \in tree, Explore(node),
         NEW p \in Feasible, Accounted(p)
  PROVE  Accounted(p)'
<1>1. PICK lb \in NodeBounds(node) :
        \/ ProvedEmpty(node, lb) \/ Abandoned(node, lb)
        \/ SolvedTooDeep(node, lb) \/ SolvedLeaf(node, lb) \/ Branched(node, lb)
  BY DEF Explore
<1>2. node \in Nodes /\ node.lb \in Int /\ -Inf <= node.lb
      /\ node.box.lo \in Int /\ node.box.hi \in Int /\ node.depth \in Nat
  BY DEF TypeInv, Shape, Nodes
<1>3. /\ lb \in Int
      /\ p \in Inside(node.box) => (node.lb <= Value[p] => lb <= Value[p])
  BY <1>2, BoundsRespect
<1>4. Value[p] \in Int /\ IsFinite(Value[p])
  BY Data
<1>5. pc = "loop" /\ inc \in Int /\ IsFinite(inc) /\ originalDuals \in BOOLEAN
      /\ discardLb \in Int
  BY <1>1 DEF ProvedEmpty, Abandoned, SolvedTooDeep, SolvedLeaf, Branched, Explored,
              Popped, TypeInv, TypeOK, HasIncumbent
<1>6. CASE ProvedEmpty(node, lb)
  <2>1. Inside(node.box) = {} /\ tree' = tree \ {node}
        /\ UNCHANGED <<inc, discardLb, incomplete>>
    BY <1>6 DEF ProvedEmpty, Rest
  <2>2. \A n \in tree \ tree' : n = node
    BY <2>1
  <2> QED
    BY <1>5, <2>1, <2>2, StaysAccounted
<1>7. CASE Abandoned(node, lb)
  <2>1. FoldRegion(lb) /\ tree' = tree \ {node} /\ inc' = inc
    BY <1>7 DEF Abandoned, Rest
  <2>2. \A n \in tree \ tree' : n = node
    BY <2>1
  <2> QED
    BY <1>3, <1>5, <2>1, <2>2, FoldAccounts, StaysAccounted
<1>8. CASE SolvedTooDeep(node, lb)
  <2>1. FoldRegion(lb) /\ tree' = tree \ {node}
        /\ \E v \in LocalValues(node.box) : Adopted(v)
    BY <1>8 DEF SolvedTooDeep, Rest
  <2>2. \A n \in tree \ tree' : n = node
    BY <2>1
  <2>3. inc' \in Int /\ inc' <= inc /\ IsFinite(inc')
    BY <1>5, <2>1, AdoptedType
  <2> QED
    BY <1>3, <2>1, <2>2, <2>3, FoldAccounts, StaysAccounted
<1>9. CASE SolvedLeaf(node, lb)
  <2>1. PICK v \in LocalValues(node.box) : Adopted(v)
    BY <1>9 DEF SolvedLeaf
  <2>2. tree' = tree \ {node} /\ ~Branchable(node.box)
        /\ UNCHANGED <<discardLb, incomplete>>
    BY <1>9 DEF SolvedLeaf, Rest
  <2>3. inc' \in Int /\ inc' <= inc /\ IsFinite(inc') /\ inc' <= v
    <3>1. inc' \in Int /\ inc' <= inc /\ IsFinite(inc')
      BY <1>5, <2>1, AdoptedType
    <3>2. inc' = Lesser(inc, v) /\ v \in Int
      BY <2>1, LocalIsFinite DEF Adopted
    <3> QED
      BY <1>5, <3>1, <3>2 DEF Lesser
  <2>4. p \in Inside(node.box) => v <= Value[p]
    BY <2>1, <2>2 DEF LocalValues
  <2>5. ASSUME p \in Inside(node.box) PROVE Accounted(p)'
    <3>1. inc' <= Value[p]
      BY <1>4, <2>1, <2>3, <2>4, <2>5, LocalIsFinite
    <3> QED
      BY <1>4, <2>3, <3>1, GapOfWorse DEF Accounted
  <2>6. \A n \in tree \ tree' : n = node
    BY <2>2
  <2> QED
    BY <1>5, <2>2, <2>3, <2>5, <2>6, StaysAccounted
<1>10. CASE Branched(node, lb)
  <2>1. PICK children \in Splits(node) : tree' = Rest(node) \cup children
    BY <1>10 DEF Branched
  <2>2. UNCHANGED <<discardLb, incomplete>>
        /\ \E v \in LocalValues(node.box) : Adopted(v)
    BY <1>10 DEF Branched
  <2>3. inc' \in Int /\ inc' <= inc /\ IsFinite(inc')
    BY <1>5, <2>2, AdoptedType
  <2>4. ASSUME p \in Inside(node.box), node.lb <= Value[p] PROVE Accounted(p)'
    <3>1. PICK c \in children : p \in Inside(c.box) /\ c.lb = node.lb
      BY <1>2, <2>4, ChildrenCover
    <3>2. c \in tree'
      BY <2>1
    <3> QED
      BY <2>4, <3>1, <3>2 DEF Accounted
  <2>5. \A n \in tree \ tree' : n = node
    BY <2>1 DEF Rest
  <2> QED
    BY <1>5, <2>2, <2>3, <2>4, <2>5, StaysAccounted
<1> QED
  BY <1>1, <1>6, <1>7, <1>8, <1>9, <1>10

\* Every step of the call keeps every feasible point accounted for.
LEMMA CoverStep ==
  ASSUME CellsExact, TypeInv, RegionsCovered, [Next]_vars
  PROVE  RegionsCovered'
<1> SUFFICES ASSUME pc' \in {"loop", "close"}, NEW p \in Inside(root')
             PROVE  Accounted(p)'
  BY DEF RegionsCovered
<1>1. root' = root /\ p \in Feasible
  BY DEF Inside, Next, Step, RootFails, RootSolves, FinishAtRoot,
         FinishUnbranchableRoot, SplitRoot, Interrupted, Pruned, Explore, ProvedEmpty,
         Abandoned, SolvedTooDeep, SolvedLeaf, Branched, Explored, Popped, Drained,
         Close, Proven, Unproven, Returned, vars
<1>2. Value[p] \in Int /\ IsFinite(Value[p])
  BY <1>1, Data
<1>3. inc \in Int /\ discardLb \in Int
  BY DEF TypeInv, TypeOK
<1>4. ASSUME pc \in {"loop", "close"} PROVE Accounted(p) /\ IsFinite(inc)
  BY <1>1, <1>4 DEF RegionsCovered, TypeInv, HasIncumbent
<1>5. CASE SplitRoot
  <2>1. PICK lb \in NodeBounds(RootNode(-Inf)) : tree' \in Splits(RootNode(lb))
    BY <1>5 DEF SplitRoot
  <2> DEFINE top == RootNode(-Inf)
             node == RootNode(lb)
  <2>2. /\ top.lb = -Inf /\ top.box = root
        /\ node.lb = lb /\ node.box = root /\ node.depth = 0
        /\ root.lo \in Int /\ root.hi \in Int
    BY Data DEF RootNode, TypeInv, TypeOK
  <2>3. lb \in NodeBounds(top) /\ tree' \in Splits(node)
    BY <2>1
  <2> HIDE DEF top, node
  <2>4. /\ lb \in Int /\ -Inf <= lb
        /\ -Inf <= Value[p] => lb <= Value[p]
    BY <1>1, <2>2, <2>3, BoundsRespect, Data
  <2>5. PICK c \in tree' : p \in Inside(c.box) /\ c.lb = lb
    BY <1>1, <2>2, <2>3, <2>4, ChildrenCover
  <2> QED
    BY <1>2, <2>4, <2>5, Data DEF Accounted, IsFinite
<1>6. ASSUME NEW node \in tree, Interrupted(node) PROVE Accounted(p)'
  <2>1. FoldRegion(node.lb) /\ tree' = tree \ {node} /\ inc' = inc /\ pc = "loop"
    BY <1>6 DEF Interrupted, Popped
  <2>2. node.lb \in Int
    BY DEF TypeInv, Shape, Nodes
  <2>3. \A n \in tree \ tree' : n = node
    BY <2>1
  <2> QED
    BY <1>1, <1>3, <1>4, <2>1, <2>2, <2>3, FoldAccounts, StaysAccounted
<1>7. ASSUME NEW node \in tree, Pruned(node) PROVE Accounted(p)'
  <2>1. PICK lb \in NodeBounds(node) : WithinGap(inc, lb)
    BY <1>7 DEF Pruned, ShouldPrune
  <2>2. tree' = tree \ {node} /\ pc = "loop" /\ UNCHANGED <<inc, discardLb, incomplete>>
    BY <1>7 DEF Pruned, Popped, Rest
  <2>3. node.lb \in Int /\ -Inf <= node.lb
    BY DEF TypeInv, Shape, Nodes
  <2>4. /\ lb \in Int
        /\ p \in Inside(node.box) => (node.lb <= Value[p] => lb <= Value[p])
    BY <2>3, BoundsRespect
  <2>5. ASSUME p \in Inside(node.box), node.lb <= Value[p] PROVE Accounted(p)'
    <3>1. WithinGap(inc, Value[p])
      <4>1. lb \in Int /\ lb <= Value[p]
        BY <2>4, <2>5
      <4>2. Value[p] < Inf
        BY <1>2 DEF IsFinite
      <4> QED
        BY <1>2, <1>3, <2>1, <4>1, <4>2, GapOfHigherBound
    <3> QED
      BY <2>2, <3>1 DEF Accounted
  <2>6. \A n \in tree \ tree' : n = node
    BY <2>2
  <2> QED
    BY <1>1, <1>3, <1>4, <2>2, <2>5, <2>6, StaysAccounted
<1>8. ASSUME NEW node \in tree, Explore(node) PROVE Accounted(p)'
  <2>1. pc = "loop"
    BY <1>8 DEF Explore, ProvedEmpty, Abandoned, SolvedTooDeep, SolvedLeaf, Branched,
                Explored, Popped
  <2> QED
    BY <1>1, <1>4, <1>8, <2>1, ExploreCovers
<1>9. CASE Drained
  <2>1. pc = "loop" /\ UNCHANGED <<tree, inc, discardLb, incomplete>>
    BY <1>9 DEF Drained
  <2> QED
    BY <1>1, <1>3, <1>4, <2>1, StaysAccounted
<1>10. CASE UNCHANGED vars
  <2>1. UNCHANGED <<pc, tree, inc, discardLb, incomplete>>
    BY <1>10 DEF vars
  <2> QED
    BY <1>1, <1>3, <1>4, <2>1, StaysAccounted
<1>11. ASSUME RootFails \/ RootSolves \/ FinishAtRoot \/ FinishUnbranchableRoot \/ Close
       PROVE  FALSE
  BY <1>11 DEF RootFails, RootSolves, FinishAtRoot, FinishUnbranchableRoot, Close,
               Proven, Unproven
<1> QED
  BY <1>5, <1>6, <1>7, <1>8, <1>9, <1>10, <1>11 DEF Next, Step, Returned

-----------------------------------------------------------------------------
(* The claim *)

\* What a claim loses: GapNum tolerated of it, or of the incumbent before the
\* polish, or of both.
Lost(obj, v) == (obj - v) * GapDen

\* Each of the three is at most twice the tolerance of the larger scale.
LEMMA TwiceTheGap ==
  ASSUME NEW i \in Int, NEW obj \in Int, NEW v \in Int,
         \/ WithinGap(obj, v)
         \/ WithinGap(i, v) /\ (obj = i \/ (obj - i) * GapDen <= GapNum * Scale(i))
  PROVE  Lost(obj, v) <= 2 * GapNum * Greater(Scale(i), Scale(obj))
<1> DEFINE m == Greater(Scale(i), Scale(obj))
<1>1. GapNum \in Nat /\ GapDen \in Nat \ {0}
  BY GapAssumption
<1>2. Scale(i) \in Nat /\ Scale(obj) \in Nat
  BY ScaleType
<1>3. m \in Nat /\ Scale(i) <= m /\ Scale(obj) <= m
  BY <1>2 DEF Greater
<1> HIDE DEF m
<1>4. /\ GapNum * Scale(i) \in Nat /\ GapNum * Scale(obj) \in Nat /\ GapNum * m \in Nat
      /\ GapNum * Scale(i) <= GapNum * m /\ GapNum * Scale(obj) <= GapNum * m
  BY <1>1, <1>2, <1>3
<1>5. (obj - v) * GapDen \in Int /\ (obj - i) * GapDen \in Int /\ (i - v) * GapDen \in Int
      /\ (obj - v) * GapDen = (obj - i) * GapDen + (i - v) * GapDen
  BY <1>1
<1>6. Lost(obj, v) <= GapNum * m + GapNum * m
  <2>1. CASE WithinGap(obj, v)
    BY <1>4, <1>5, <2>1 DEF WithinGap, Lost
  <2>2. CASE WithinGap(i, v) /\ obj = i
    BY <1>4, <1>5, <2>2 DEF WithinGap, Lost
  <2>3. CASE WithinGap(i, v) /\ (obj - i) * GapDen <= GapNum * Scale(i)
    BY <1>4, <1>5, <2>3 DEF WithinGap, Lost
  <2> QED
    BY <2>1, <2>2, <2>3
<1>7. GapNum * m + GapNum * m = 2 * GapNum * m
  BY <1>1, <1>3
<1> QED
  BY <1>6, <1>7 DEF m

\* A polished objective is an integer, no further above the incumbent than the
\* tolerance.
LEMMA PolishedValue ==
  ASSUME TypeInv, IsFinite(inc), NEW obj \in Polished
  PROVE  /\ obj \in Int
         /\ obj = inc \/ (obj - inc) * GapDen <= GapNum * Scale(inc)
<1>1. inc \in Int
  BY DEF TypeInv, TypeOK
<1>2. \A p \in Inside(root) : Value[p] \in Int
  BY Data DEF Inside
<1> QED
  BY <1>1, <1>2 DEF Polished

\* A bound that is honest for every point and within the gap of the objective
\* puts every point within it.
LEMMA HonestBound ==
  ASSUME NEW obj \in Int, NEW lb \in Int, NEW p \in Feasible,
         WithinGap(obj, lb), lb <= Value[p]
  PROVE  WithinGap(obj, Value[p])
  BY Data, GapOfHigherBound DEF IsFinite

\* Every global claim, from the root or from the tree, keeps the gap twice.
LEMMA ClaimStep ==
  ASSUME TypeInv, RegionsCovered, GapKeptTwice, [Next]_vars
  PROVE  GapKeptTwice'
<1> SUFFICES ASSUME answer'.claim = "Global", NEW p \in Inside(root')
             PROVE  Lost(answer'.obj, Value[p])
                      <= 2 * GapNum * Greater(Scale(inc'), Scale(answer'.obj))
  BY DEF GapKeptTwice, Lost
<1>1. inc \in Int /\ discardLb \in Int /\ tree \subseteq Nodes
  BY DEF TypeInv, TypeOK, Shape
<1>2. ASSUME NEW obj \in Polished, NEW lb, Proven(obj, lb), IsFinite(inc),
             WithinGap(obj, Value[p]) \/ WithinGap(inc, Value[p])
      PROVE  Lost(answer'.obj, Value[p])
                <= 2 * GapNum * Greater(Scale(inc'), Scale(answer'.obj))
  <2>1. answer'.obj = obj /\ inc' = inc /\ root' = root
    BY <1>2 DEF Proven, Answer
  <2>2. Value[p] \in Int
    BY Data, <2>1 DEF Inside
  <2>3. obj \in Int /\ (obj = inc \/ (obj - inc) * GapDen <= GapNum * Scale(inc))
    BY <1>2, PolishedValue
  <2> QED
    BY <1>1, <1>2, <2>1, <2>2, <2>3, TwiceTheGap
<1>3. ASSUME NEW obj, NEW lb, Unproven(obj, lb) PROVE FALSE
  BY <1>3 DEF Unproven, Answer
<1>4. ASSUME pc = "bound", NEW lb \in NodeBounds(RootNode(-Inf)), root' = root
      PROVE  lb \in Int /\ p \in Feasible /\ lb <= Value[p] /\ IsFinite(inc)
  <2> DEFINE top == RootNode(-Inf)
  <2>1. top.lb = -Inf /\ top.box = root
    BY DEF RootNode
  <2>2. lb \in NodeBounds(top)
    BY <1>4
  <2>3. p \in Feasible /\ p \in Inside(root) /\ -Inf <= Value[p] /\ Value[p] \in Int
    BY <1>4, Data DEF Inside, IsFinite
  <2> HIDE DEF top
  <2>4. lb \in Int /\ (-Inf <= Value[p] => lb <= Value[p])
    BY <2>1, <2>2, <2>3, BoundsRespect, Data
  <2> QED
    BY <1>4, <2>3, <2>4 DEF TypeInv, HasIncumbent
<1>5. CASE FinishAtRoot
  <2>1. PICK lb \in NodeBounds(RootNode(-Inf)), obj \in Polished :
          WithinGap(inc, lb) /\ Proven(obj, lb)
    BY <1>5 DEF FinishAtRoot
  <2>2. pc = "bound" /\ root' = root
    BY <1>5, <2>1 DEF FinishAtRoot, Proven
  <2>3. WithinGap(inc, Value[p])
    BY <1>1, <1>4, <2>1, <2>2, HonestBound
  <2> QED
    BY <1>2, <1>4, <2>1, <2>2, <2>3
<1>6. CASE FinishUnbranchableRoot
  <2>1. PICK lb \in NodeBounds(RootNode(-Inf)), obj \in Polished :
          WithinGap(obj, lb) /\ Proven(obj, lb)
    BY <1>3, <1>6 DEF FinishUnbranchableRoot
  <2>2. pc = "bound" /\ root' = root
    BY <1>6, <2>1 DEF FinishUnbranchableRoot, Proven
  <2>3. WithinGap(obj, Value[p])
    BY <1>4, <2>1, <2>2, HonestBound, PolishedValue
  <2> QED
    BY <1>2, <1>4, <2>1, <2>2, <2>3
<1>7. CASE Close
  <2> DEFINE remaining == Lesser(BestBound(tree), discardLb)
  <2>1. PICK obj \in Polished, stopped \in {CanStop, FALSE} :
          \/ ~HaltedEarly(stopped) /\ Proven(obj, obj)
          \/ /\ HaltedEarly(stopped) /\ WithinGap(obj, remaining)
             /\ Proven(obj, Lesser(remaining, obj))
    BY <1>3, <1>7 DEF Close
  <2>2. pc = "close" /\ root' = root
    BY <1>7, <2>1 DEF Close, Proven
  <2>3. p \in Feasible /\ Value[p] \in Int /\ Accounted(p) /\ IsFinite(inc)
    BY <2>2, Data DEF RegionsCovered, Inside, TypeInv, HasIncumbent
  <2>4. /\ BestBound(tree) \in Int
        /\ \A n \in tree : BestBound(tree) <= n.lb /\ n.lb \in Int
    BY <1>1, BestBoundIsLeast DEF Nodes
  <2>5. remaining \in Int /\ remaining <= BestBound(tree) /\ remaining <= discardLb
    BY <1>1, <2>4 DEF Lesser
  <2>6. CASE WithinGap(inc, Value[p])
    BY <1>2, <2>1, <2>3, <2>6
  <2>7. CASE HaltedEarly(stopped) /\ remaining <= Value[p]
    <3>1. WithinGap(obj, remaining) /\ Proven(obj, Lesser(remaining, obj))
      BY <2>1, <2>7
    <3>2. WithinGap(obj, Value[p])
      BY <2>3, <2>5, <2>7, <3>1, HonestBound, PolishedValue
    <3> QED
      BY <1>2, <2>3, <3>1, <3>2
  <2>8. ASSUME NEW n \in tree, n.lb <= Value[p]
        PROVE  HaltedEarly(stopped) /\ remaining <= Value[p]
    BY <2>3, <2>4, <2>5, <2>8 DEF HaltedEarly
  <2>9. ASSUME incomplete, discardLb <= Value[p]
        PROVE  HaltedEarly(stopped) /\ remaining <= Value[p]
    BY <1>1, <2>3, <2>5, <2>9 DEF HaltedEarly
  <2> QED
    BY <2>3, <2>6, <2>7, <2>8, <2>9 DEF Accounted
<1>8. ASSUME UNCHANGED <<answer, inc, root>>
      PROVE  Lost(answer'.obj, Value[p])
                <= 2 * GapNum * Greater(Scale(inc'), Scale(answer'.obj))
  BY <1>8 DEF GapKeptTwice, Lost
<1>9. CASE RootFails
  BY <1>9 DEF RootFails, Answer
<1>10. ASSUME answer' = answer, pc \in {"root", "bound", "loop", "close"} PROVE FALSE
  BY <1>10 DEF TypeInv, Shape
<1>11. CASE RootSolves \/ SplitRoot \/ Drained
  BY <1>10, <1>11 DEF RootSolves, SplitRoot, Drained
<1>12. ASSUME NEW node \in tree, Interrupted(node) \/ Pruned(node) \/ Explore(node)
       PROVE  FALSE
  BY <1>10, <1>12 DEF Interrupted, Pruned, Explore, ProvedEmpty, Abandoned,
                      SolvedTooDeep, SolvedLeaf, Branched, Explored, Popped
<1>13. CASE UNCHANGED vars
  BY <1>8, <1>13 DEF vars
<1> QED
  BY <1>5, <1>6, <1>7, <1>9, <1>11, <1>12, <1>13 DEF Next, Step, Returned

-----------------------------------------------------------------------------
(* Theorems *)

\* The types: among them that the nodes stay inside the root box and above the
\* depth limit, and that no more nodes are processed than max_nodes allows.
THEOREM TypesHold == Spec => []TypeOK
<1>1. Init => TypeInv
  BY TypeInit
<1>2. TypeInv /\ [Next]_vars => TypeInv'
  BY TypeStep
<1>3. TypeInv => TypeOK
  BY DEF TypeInv
<1> QED
  BY <1>1, <1>2, <1>3, PTL DEF Spec

\* The inductive invariant, where the local solve of a box too narrow to branch
\* finds its least value.
LEMMA Invariant == CellsExact => (Spec => []IInv)
<1> SUFFICES ASSUME CellsExact PROVE Spec => []IInv
  OBVIOUS
<1>1. Init => IInv
  BY TypeInit DEF Init, IInv, RegionsCovered, GapKeptTwice, NoAnswer, Answer
<1>2. IInv /\ [Next]_vars => IInv'
  BY TypeStep, CoverStep, ClaimStep DEF IInv
<1> QED
  BY <1>1, <1>2, PTL DEF Spec

\* Through prunes, failed solves, the depth limit and interruptions, every
\* feasible point is in an open node or in a folded region whose bound it
\* respects, or within the gap of the incumbent.
THEOREM NoRegionLost == CellsExact => (Spec => []RegionsCovered)
<1>1. IInv => RegionsCovered
  BY DEF IInv
<1> QED
  BY <1>1, Invariant, PTL

\* No feasible point is further below a global claim than twice the tolerance:
\* once lost by pruning, once by the polish after it.
THEOREM ClaimsKeepTheGapTwice == CellsExact => (Spec => []GapKeptTwice)
<1>1. IInv => GapKeptTwice
  BY DEF IInv
<1> QED
  BY <1>1, Invariant, PTL

-----------------------------------------------------------------------------
(* The solver pool: an inductive invariant *)

PoolTypeOK ==
  /\ cached \in PoolIds \cup {NoPool}
  /\ size \in [PoolIds -> Nat]
  /\ DOMAIN request = Calls /\ \A c \in Calls : request[c] \in Requests[c]
  /\ callPc \in [Calls -> {"ask", "work", "done"}]
  /\ held \in [Calls -> PoolIds \cup {NoPool}]
  /\ DOMAIN task = Calls
  /\ \A c \in Calls : task[c] \in [Tasks(c) -> {"todo", "busy", "done", "skipped"}]

\* The Arc count: the cache owns the pool it holds, and each call the one it runs in.
OwnersCount ==
  owners = [p \in PoolIds |-> (IF p = cached THEN {"cache"} ELSE {})
                                \cup {c \in Calls : held[c] = p}]

\* A call that runs in a pool asked for its size; only a call at work runs anything.
PoolsFit ==
  \A c \in Calls :
    /\ held[c] # NoPool => callPc[c] = "work" /\ size[held[c]] = Parallel(request[c])
    /\ callPc[c] # "work" => Busy(c) = {}

\* No pool has more tasks at work than threads.
BusyFits ==
  \A p \in PoolIds : IsFiniteSet(BusyIn(p)) /\ Cardinality(BusyIn(p)) <= size[p]

PoolInv == PoolTypeOK /\ OwnersCount /\ PoolsFit /\ BusyFits

\* A task is at work in a pool when its call holds it.
LEMMA BusyInIs ==
  ASSUME NEW p, NEW x
  PROVE  x \in BusyIn(p) <=>
           \E c \in Calls : held[c] = p /\ \E i \in Busy(c) : x = <<c, i>>
  BY DEF BusyIn

\* The pools alive besides the cached one are those of running calls, and no more
\* than these.
LEMMA AliveAreHeld ==
  ASSUME PoolTypeOK, OwnersCount
  PROVE  /\ \A p \in PoolIds : p \in Alive <=> p = cached \/ \E c \in Calls : held[c] = p
         /\ Cardinality(Alive \ {cached}) <= Cardinality({c \in Calls : held[c] # NoPool})
<1>1. \A p \in PoolIds : p \in Alive <=> p = cached \/ \E c \in Calls : held[c] = p
  BY DEF OwnersCount, Alive
<1> DEFINE others == Alive \ {cached}
           holders == {c \in Calls : held[c] \in others}
           pool == [c \in holders |-> held[c]]
<1>2. \A p \in others : p \in PoolIds /\ \E c \in holders : held[c] = p
  <2>1. \A p \in others : p \in PoolIds
    BY DEF Alive
  <2> QED
    BY <1>1, <2>1
<1>3. pool \in Surjection(holders, others)
  BY <1>2 DEF Surjection
<1>4. IsFiniteSet(holders)
  BY CallAssumption, FS_Subset
<1>5. Cardinality(others) <= Cardinality(holders)
  <2> HIDE DEF pool, holders, others
  <2> QED
    BY <1>3, <1>4, FS_Surjection
<1>6. holders \in SUBSET {c \in Calls : held[c] # NoPool}
  BY PoolAssumption DEF Alive
<1>7. IsFiniteSet({c \in Calls : held[c] # NoPool})
  BY CallAssumption, FS_Subset
<1>8. Cardinality(holders) <= Cardinality({c \in Calls : held[c] # NoPool})
  BY <1>6, <1>7, FS_Subset
<1>9. /\ Cardinality(holders) \in Nat
      /\ Cardinality({c \in Calls : held[c] # NoPool}) \in Nat
      /\ Cardinality(others) \in Nat
  <2>1. IsFiniteSet(others)
    <3>1. others \in SUBSET PoolIds
      BY DEF Alive
    <3> QED
      BY <3>1, PoolAssumption, FS_Subset
  <2> QED
    BY <1>4, <1>7, <2>1, FS_CardinalityType
<1> QED
  BY <1>1, <1>5, <1>8, <1>9

\* A call that is still to enter finds a name for a new pool.
LEMMA NameLeft ==
  ASSUME PoolTypeOK, OwnersCount, PoolsFit, NEW c \in Calls, callPc[c] = "ask"
  PROVE  NewPool \in PoolIds \ Alive
<1> DEFINE holders == {d \in Calls : held[d] # NoPool}
<1>1. IsFiniteSet(Calls) /\ IsFiniteSet(holders) /\ IsFiniteSet(Alive)
      /\ IsFiniteSet(Alive \ {cached})
  <2>1. Alive \in SUBSET PoolIds /\ Alive \ {cached} \in SUBSET PoolIds
    BY DEF Alive
  <2>2. holders \in SUBSET Calls
    OBVIOUS
  <2> QED
    BY <2>1, <2>2, CallAssumption, PoolAssumption, FS_Subset
<1>2. holders \in SUBSET (Calls \ {c}) /\ IsFiniteSet(Calls \ {c})
  BY <1>1, FS_RemoveElement DEF PoolsFit
<1>3. /\ Cardinality(Calls) \in Nat /\ Cardinality(holders) \in Nat
      /\ Cardinality(Alive) \in Nat /\ Cardinality(PoolIds) \in Nat
      /\ Cardinality(Alive \ {cached}) \in Nat
  BY <1>1, PoolAssumption, FS_CardinalityType
<1>4. Cardinality(Calls \ {c}) = Cardinality(Calls) - 1
  BY <1>1, FS_RemoveElement
<1>5. Cardinality(holders) <= Cardinality(Calls) - 1
  BY <1>2, <1>4, FS_Subset
<1>6. Cardinality(Alive) <= Cardinality(Alive \ {cached}) + 1
  BY <1>1, <1>3, FS_RemoveElement
<1>7. Cardinality(Alive) < Cardinality(PoolIds)
  <2>1. Cardinality(Alive \ {cached}) <= Cardinality(holders)
    BY AliveAreHeld
  <2> HIDE DEF holders
  <2> QED
    BY <1>3, <1>5, <1>6, <2>1, CallAssumption
<1>8. \E p \in PoolIds : p \notin Alive
  <2>1. SUFFICES ASSUME \A p \in PoolIds : p \in Alive PROVE FALSE
    OBVIOUS
  <2>2. Alive = PoolIds
    BY <2>1 DEF Alive
  <2> QED
    BY <1>3, <1>7, <2>2
<1> QED
  BY <1>8 DEF NewPool

\* Nothing is asked for, held or at work at first.
LEMMA PoolInitOK == CallsInit => PoolInv
<1> SUFFICES ASSUME CallsInit PROVE PoolInv
  OBVIOUS
<1> USE DEF CallsInit, PoolInit
<1>1. PoolTypeOK
  BY DEF PoolTypeOK
<1>2. \A c \in Calls : held[c] = NoPool /\ Busy(c) = {}
  BY DEF Busy
<1>3. OwnersCount
  BY <1>2, PoolAssumption DEF OwnersCount
<1>4. PoolsFit
  BY <1>2 DEF PoolsFit
<1>5. BusyFits
  <2>1. ASSUME NEW p \in PoolIds PROVE BusyIn(p) = {}
    BY <1>2, <2>1, PoolAssumption, BusyInIs
  <2>2. \A p \in PoolIds : size[p] = 0
    OBVIOUS
  <2>3. IsFiniteSet({}) /\ Cardinality({}) = 0
    BY FS_EmptySet
  <2> HIDE DEF CallsInit, PoolInit
  <2> QED
    BY <2>1, <2>2, <2>3 DEF BusyFits
<1> QED
  BY <1>1, <1>3, <1>4, <1>5 DEF PoolInv

\* A call that starts without a pool changes nothing of the pools.
LEMMA EnterInline ==
  ASSUME PoolInv, NEW c \in Calls, NEW how, Enter(c, NoPool, how), UNCHANGED poolVars
  PROVE  PoolInv'
<1>1. /\ callPc[c] = "ask" /\ callPc' = [callPc EXCEPT ![c] = "work"]
      /\ held' = [held EXCEPT ![c] = NoPool]
      /\ UNCHANGED <<cached, size, owners, request, task>>
  BY DEF Enter, poolVars
<1>2. held' = held
  BY <1>1 DEF PoolInv, PoolTypeOK, PoolsFit
<1>3. \A d \in Calls : Busy(d)' = Busy(d)
  BY <1>1 DEF Busy, Tasks
<1>4. PoolTypeOK'
  BY <1>1, <1>2 DEF PoolInv, PoolTypeOK, Tasks
<1>5. OwnersCount'
  BY <1>1, <1>2 DEF PoolInv, OwnersCount
<1>6. PoolsFit'
  BY <1>1, <1>2, <1>3 DEF PoolInv, PoolTypeOK, PoolsFit
<1>7. BusyFits'
  BY <1>1, <1>2 DEF PoolInv, BusyFits, BusyIn, Busy, Tasks
<1> QED
  BY <1>4, <1>5, <1>6, <1>7 DEF PoolInv

\* A call with nothing at work adds nothing to the pool it enters or leaves.
LEMMA HolderIdle ==
  ASSUME PoolInv, NEW c \in Calls, Busy(c) = {}, NEW to,
         held' = [held EXCEPT ![c] = to], UNCHANGED <<request, task>>, NEW p
  PROVE  BusyIn(p)' = BusyIn(p)
<1>1. \A d \in Calls : Busy(d)' = Busy(d)
  BY DEF Busy, Tasks
<1>2. \A d \in Calls \ {c} : held'[d] = held[d]
  BY DEF PoolInv, PoolTypeOK
<1>3. ASSUME NEW x PROVE x \in BusyIn(p)' <=> x \in BusyIn(p)
  BY <1>1, <1>2 DEF BusyIn
<1> QED
  BY <1>3

\* A call enters the cached pool, whose size is the one it asks for.
LEMMA EnterReused ==
  ASSUME PoolInv, NEW c \in Calls, Parallel(request[c]) > 1,
         Reuse(c, Parallel(request[c])), Enter(c, cached, "pool")
  PROVE  PoolInv'
<1>1. /\ callPc[c] = "ask" /\ callPc' = [callPc EXCEPT ![c] = "work"]
      /\ held' = [held EXCEPT ![c] = cached]
      /\ owners' = [owners EXCEPT ![cached] = @ \cup {c}]
      /\ cached # NoPool /\ size[cached] = Parallel(request[c])
      /\ UNCHANGED <<cached, size, request, task>>
  BY DEF Enter, Reuse, Hit
<1>2. cached \in PoolIds /\ held \in [Calls -> PoolIds \cup {NoPool}]
      /\ callPc \in [Calls -> {"ask", "work", "done"}]
  BY <1>1 DEF PoolInv, PoolTypeOK
<1>3. held[c] = NoPool /\ Busy(c) = {}
  BY <1>1 DEF PoolInv, PoolsFit
<1>4. \A d \in Calls : Busy(d)' = Busy(d)
  BY <1>1 DEF Busy, Tasks
<1>5. PoolTypeOK'
  BY <1>1, <1>2 DEF PoolInv, PoolTypeOK, Tasks
<1>6. OwnersCount'
  <2>1. ASSUME NEW p \in PoolIds
        PROVE  owners'[p] = (IF p = cached THEN {"cache"} ELSE {})
                              \cup {d \in Calls : held'[d] = p}
    BY <1>1, <1>2, <1>3, PoolAssumption DEF PoolInv, OwnersCount
  <2>2. owners' = [p \in PoolIds |-> owners'[p]]
    BY <1>1 DEF PoolInv, OwnersCount
  <2> QED
    BY <1>1, <2>1, <2>2 DEF OwnersCount
<1>7. PoolsFit'
  BY <1>1, <1>2, <1>4 DEF PoolInv, PoolsFit
<1>8. BusyFits'
  <2>1. \A p \in PoolIds : BusyIn(p)' = BusyIn(p)
    BY <1>1, <1>3, HolderIdle
  <2> QED
    BY <1>1, <2>1 DEF PoolInv, BusyFits
<1> QED
  BY <1>5, <1>6, <1>7, <1>8 DEF PoolInv

\* A call enters a new pool: nobody ran in what has its name, and the pool it
\* replaces in the cache stays with the calls that run in it.
LEMMA EnterBuilt ==
  ASSUME PoolInv, NEW c \in Calls, Parallel(request[c]) > 1, NEW new,
         new = NewPool, Build(c, Parallel(request[c]), new), Enter(c, new, "pool")
  PROVE  PoolInv'
<1>1. /\ callPc[c] = "ask" /\ callPc' = [callPc EXCEPT ![c] = "work"]
      /\ held' = [held EXCEPT ![c] = new] /\ cached' = new
      /\ size' = [size EXCEPT ![new] = Parallel(request[c])]
      /\ owners' = [p \in PoolIds |-> IF p = new THEN {"cache", c}
                                      ELSE owners[p] \ {"cache"}]
      /\ UNCHANGED <<request, task>>
  BY DEF Enter, Build
<1>2. /\ held \in [Calls -> PoolIds \cup {NoPool}] /\ size \in [PoolIds -> Nat]
      /\ callPc \in [Calls -> {"ask", "work", "done"}]
  BY DEF PoolInv, PoolTypeOK
<1>3. held[c] = NoPool /\ Busy(c) = {}
  BY <1>1 DEF PoolInv, PoolsFit
<1>4. new \in PoolIds /\ new # NoPool /\ new # cached
      /\ \A d \in Calls : held[d] # new
  BY <1>1, NameLeft, AliveAreHeld, PoolAssumption DEF PoolInv
<1>5. Parallel(request[c]) \in Nat
  BY CallAssumption DEF PoolInv, PoolTypeOK, Parallel, Smaller, Larger
<1>6. \A d \in Calls : Busy(d)' = Busy(d)
  BY <1>1 DEF Busy, Tasks
<1>7. PoolTypeOK'
  BY <1>1, <1>2, <1>4, <1>5 DEF PoolInv, PoolTypeOK, Tasks
<1>8. OwnersCount'
  <2>1. ASSUME NEW p \in PoolIds
        PROVE  owners'[p] = (IF p = new THEN {"cache"} ELSE {})
                              \cup {d \in Calls : held'[d] = p}
    <3>1. CASE p = new
      BY <1>1, <1>2, <1>4, <3>1
    <3>2. CASE p # new
      <4>1. owners'[p] = owners[p] \ {"cache"}
        BY <1>1, <3>2
      <4>2. {d \in Calls : held'[d] = p} = {d \in Calls : held[d] = p}
        BY <1>1, <1>2, <1>3, <3>2, PoolAssumption
      <4> QED
        BY <3>2, <4>1, <4>2, CallAssumption DEF PoolInv, OwnersCount
    <3> QED
      BY <3>1, <3>2
  <2>2. owners' = [p \in PoolIds |-> owners'[p]]
    BY <1>1
  <2> QED
    BY <1>1, <2>1, <2>2 DEF OwnersCount
<1>9. PoolsFit'
  BY <1>1, <1>2, <1>4, <1>6 DEF PoolInv, PoolsFit
<1>10. BusyFits'
  <2>1. \A p \in PoolIds : BusyIn(p)' = BusyIn(p)
    BY <1>1, <1>3, HolderIdle
  <2>2. BusyIn(new) = {}
    BY <1>4, BusyInIs
  <2>3. \A p \in PoolIds \ {new} : size'[p] = size[p]
    BY <1>1, <1>2
  <2>4. size'[new] \in Nat
    BY <1>1, <1>2, <1>4, <1>5
  <2> QED
    BY <2>1, <2>2, <2>3, <2>4, FS_EmptySet DEF PoolInv, BusyFits
<1> QED
  BY <1>7, <1>8, <1>9, <1>10 DEF PoolInv

\* A step that touches tasks only, and puts none to work.
LEMMA NothingBegins ==
  ASSUME PoolInv, PoolTypeOK', UNCHANGED <<cached, size, owners, request, callPc, held>>,
         \A d \in Calls : Busy(d)' \subseteq Busy(d)
  PROVE  PoolInv'
<1>1. OwnersCount'
  BY DEF PoolInv, OwnersCount
<1>2. PoolsFit'
  BY DEF PoolInv, PoolsFit
<1>3. BusyFits'
  <2>1. SUFFICES ASSUME NEW p \in PoolIds
                 PROVE  IsFiniteSet(BusyIn(p)') /\ Cardinality(BusyIn(p)') <= size[p]
    BY DEF BusyFits
  <2>2. BusyIn(p)' \in SUBSET BusyIn(p)
    BY DEF BusyIn
  <2>3. IsFiniteSet(BusyIn(p)) /\ Cardinality(BusyIn(p)) <= size[p] /\ size[p] \in Nat
    BY DEF PoolInv, PoolTypeOK, BusyFits
  <2>4. IsFiniteSet(BusyIn(p)') /\ Cardinality(BusyIn(p)') <= Cardinality(BusyIn(p))
    BY <2>2, <2>3, FS_Subset
  <2>5. Cardinality(BusyIn(p)') \in Nat /\ Cardinality(BusyIn(p)) \in Nat
    BY <2>3, <2>4, FS_CardinalityType
  <2> QED
    BY <2>3, <2>4, <2>5
<1> QED
  BY <1>1, <1>2, <1>3 DEF PoolInv

\* A worker takes a task when the pool has one to spare.
LEMMA BeginStep ==
  ASSUME PoolInv, NEW c \in Calls, NEW i \in Tasks(c), Begin(c, i)
  PROVE  PoolInv'
<1>1. /\ callPc[c] = "work" /\ task[c][i] = "todo"
      /\ task' = [task EXCEPT ![c][i] = "busy"]
      /\ held[c] # NoPool => Cardinality(BusyIn(held[c])) < size[held[c]]
      /\ UNCHANGED <<cached, size, owners, request, callPc, held>>
  BY DEF Begin, MayBegin, SetTask
<1>2. /\ task[c] \in [Tasks(c) -> {"todo", "busy", "done", "skipped"}]
      /\ DOMAIN task = Calls /\ size \in [PoolIds -> Nat]
  BY DEF PoolInv, PoolTypeOK
<1>3. \A d \in Calls : Tasks(d)' = Tasks(d)
  BY <1>1 DEF Tasks
<1>4. PoolTypeOK'
  BY <1>1, <1>2, <1>3 DEF PoolInv, PoolTypeOK
<1>5. /\ Busy(c)' = Busy(c) \cup {i}
      /\ \A d \in Calls \ {c} : Busy(d)' = Busy(d)
  BY <1>1, <1>2, <1>3 DEF Busy
<1>6. OwnersCount'
  BY <1>1 DEF PoolInv, OwnersCount
<1>7. PoolsFit'
  BY <1>1, <1>5 DEF PoolInv, PoolsFit
<1>8. BusyFits'
  <2>1. SUFFICES ASSUME NEW p \in PoolIds
                 PROVE  IsFiniteSet(BusyIn(p)') /\ Cardinality(BusyIn(p)') <= size[p]
    BY <1>1 DEF BusyFits
  <2>2. IsFiniteSet(BusyIn(p)) /\ Cardinality(BusyIn(p)) <= size[p] /\ size[p] \in Nat
    BY <1>2 DEF PoolInv, BusyFits
  <2>3. CASE held[c] = p
    <3>1. ASSUME NEW x PROVE x \in BusyIn(p)' <=> x \in BusyIn(p) \cup {<<c, i>>}
      BY <1>1, <1>5, <2>3 DEF BusyIn
    <3>2. BusyIn(p)' = BusyIn(p) \cup {<<c, i>>}
      BY <3>1
    <3>3. Cardinality(BusyIn(p)) < size[p]
      BY <1>1, <2>3, PoolAssumption
    <3>4. Cardinality(BusyIn(p)) \in Nat
      BY <2>2, FS_CardinalityType
    <3>5. /\ IsFiniteSet(BusyIn(p) \cup {<<c, i>>})
          /\ \/ Cardinality(BusyIn(p) \cup {<<c, i>>}) = Cardinality(BusyIn(p))
             \/ Cardinality(BusyIn(p) \cup {<<c, i>>}) = Cardinality(BusyIn(p)) + 1
      BY <2>2, FS_AddElement
    <3> QED
      BY <2>2, <3>2, <3>3, <3>4, <3>5
  <2>4. CASE held[c] # p
    <3>1. BusyIn(p)' = BusyIn(p)
      BY <1>1, <1>5, <2>4 DEF BusyIn
    <3> QED
      BY <2>2, <3>1
  <2> QED
    BY <2>3, <2>4
<1> QED
  BY <1>4, <1>6, <1>7, <1>8 DEF PoolInv

\* A task ends, or is never begun.
LEMMA TaskEnds ==
  ASSUME PoolInv, NEW c \in Calls,
         (\E i \in Tasks(c) : BeginLate(c, i) \/ Finish(c, i)) \/ LeaveOut(c)
  PROVE  PoolInv'
<1>1. UNCHANGED <<cached, size, owners, request, callPc, held>>
  BY DEF BeginLate, Finish, LeaveOut, SetTask
<1>2. /\ task[c] \in [Tasks(c) -> {"todo", "busy", "done", "skipped"}]
      /\ DOMAIN task = Calls
  BY DEF PoolInv, PoolTypeOK
<1>3. \A d \in Calls : Tasks(d)' = Tasks(d)
  BY <1>1 DEF Tasks
<1>4. /\ DOMAIN task' = Calls
      /\ \A d \in Calls \ {c} : task'[d] = task[d]
      /\ task'[c] \in [Tasks(c) -> {"todo", "busy", "done", "skipped"}]
      /\ \A i \in Tasks(c) : task'[c][i] = "busy" => task[c][i] = "busy"
  <2>1. CASE \E i \in Tasks(c) : BeginLate(c, i) \/ Finish(c, i)
    <3>1. PICK i \in Tasks(c) : task' = [task EXCEPT ![c][i] = "done"]
      BY <2>1 DEF BeginLate, Finish, SetTask
    <3> QED
      BY <1>2, <3>1
  <2>2. CASE LeaveOut(c)
    <3>1. task' = [task EXCEPT ![c] =
                    [i \in Tasks(c) |-> IF @[i] = "todo" THEN "skipped" ELSE @[i]]]
      BY <2>2 DEF LeaveOut
    <3> QED
      BY <1>2, <3>1
  <2> QED
    BY <2>1, <2>2
<1>5. PoolTypeOK'
  BY <1>1, <1>3, <1>4 DEF PoolInv, PoolTypeOK
<1>6. \A d \in Calls : Busy(d)' \subseteq Busy(d)
  BY <1>3, <1>4 DEF Busy
<1> QED
  BY <1>1, <1>5, <1>6, NothingBegins

\* The deadline passes, or all calls are done.
LEMMA TimePasses ==
  ASSUME PoolInv, (\E c \in Calls : Expire(c)) \/ UNCHANGED startVars
  PROVE  PoolInv'
<1>1. UNCHANGED <<cached, size, owners, request, callPc, held, task>>
  BY DEF Expire, startVars, callVars
<1>2. PoolTypeOK' /\ \A d \in Calls : Busy(d)' \subseteq Busy(d)
  BY <1>1 DEF PoolInv, PoolTypeOK, Busy, Tasks
<1> QED
  BY <1>1, <1>2, NothingBegins

\* A call returns when every task of its own has ended, and drops its pool.
LEMMA ReturnStep ==
  ASSUME PoolInv, NEW c \in Calls, Return(c)
  PROVE  PoolInv'
<1>1. /\ callPc[c] = "work" /\ callPc' = [callPc EXCEPT ![c] = "done"]
      /\ held' = [held EXCEPT ![c] = NoPool] /\ Settled(c)
      /\ owners' = [p \in PoolIds |-> owners[p] \ {c}]
      /\ UNCHANGED <<cached, size, request, task>>
  BY DEF Return, Drop
<1>2. /\ held \in [Calls -> PoolIds \cup {NoPool}]
      /\ callPc \in [Calls -> {"ask", "work", "done"}]
  BY DEF PoolInv, PoolTypeOK
<1>3. Busy(c) = {} /\ \A d \in Calls : Busy(d)' = Busy(d)
  BY <1>1 DEF Settled, Busy, Tasks
<1>4. PoolTypeOK'
  BY <1>1, <1>2 DEF PoolInv, PoolTypeOK, Tasks
<1>5. OwnersCount'
  <2>1. ASSUME NEW p \in PoolIds
        PROVE  owners[p] \ {c} = (IF p = cached THEN {"cache"} ELSE {})
                                    \cup {d \in Calls : held'[d] = p}
    <3>1. {d \in Calls : held'[d] = p} = {d \in Calls : held[d] = p} \ {c}
      BY <1>1, <1>2, PoolAssumption
    <3> QED
      BY <3>1, CallAssumption DEF PoolInv, OwnersCount
  <2> QED
    BY <1>1, <2>1 DEF OwnersCount
<1>6. PoolsFit'
  BY <1>1, <1>2, <1>3 DEF PoolInv, PoolsFit
<1>7. BusyFits'
  <2>1. \A p \in PoolIds : BusyIn(p)' = BusyIn(p)
    BY <1>1, <1>3, HolderIdle
  <2> QED
    BY <1>1, <2>1 DEF PoolInv, BusyFits
<1> QED
  BY <1>4, <1>5, <1>6, <1>7 DEF PoolInv

\* Every step of every call preserves the invariant.
LEMMA PoolStepOK == PoolInv /\ [CallsNext]_startVars => PoolInv'
<1> SUFFICES ASSUME PoolInv, [CallsNext]_startVars PROVE PoolInv'
  OBVIOUS
<1>1. ASSUME NEW c \in Calls, CallStep(c) PROVE PoolInv'
  <2>1. CASE EnterSequential(c)
    BY <2>1, EnterInline DEF EnterSequential
  <2>2. CASE EnterPool(c)
    BY <2>2, EnterReused, EnterBuilt DEF EnterPool
  <2>3. CASE EnterRefused(c)
    BY <2>3, EnterInline DEF EnterRefused, BuildRefused
  <2>4. ASSUME NEW i \in Tasks(c), Begin(c, i) PROVE PoolInv'
    BY <2>4, BeginStep
  <2>5. CASE (\E i \in Tasks(c) : BeginLate(c, i) \/ Finish(c, i)) \/ LeaveOut(c)
    BY <2>5, TaskEnds
  <2>6. CASE Return(c)
    BY <2>6, ReturnStep
  <2> QED
    BY <1>1, <2>1, <2>2, <2>3, <2>4, <2>5, <2>6 DEF CallStep
<1> QED
  BY <1>1, TimePasses DEF CallsNext

\* Worker threads do not accumulate over the calls of a process: the pools alive
\* besides the cached one are no more than the calls that run in one, none of
\* these was retired, and none has more tasks at work than a call asked for.
THEOREM PoolsStayBounded == CallsSpec => []PoolsDoNotAccumulate
<1>1. CallsInit => PoolInv
  BY PoolInitOK
<1>2. PoolInv /\ [CallsNext]_startVars => PoolInv'
  BY PoolStepOK
<1>3. PoolInv => PoolsDoNotAccumulate
  <2> SUFFICES ASSUME PoolInv PROVE PoolsDoNotAccumulate
    OBVIOUS
  <2>1. ASSUME NEW c \in Calls, held[c] # NoPool
        PROVE  /\ c \in owners[held[c]]
               /\ Cardinality(BusyIn(held[c])) <= Parallel(request[c])
    <3>1. held[c] \in PoolIds
      BY <2>1 DEF PoolInv, PoolTypeOK
    <3> QED
      BY <2>1, <3>1 DEF PoolInv, OwnersCount, PoolsFit, BusyFits
  <2> QED
    BY <2>1, AliveAreHeld DEF PoolInv, PoolsDoNotAccumulate
<1> QED
  BY <1>1, <1>2, <1>3, PTL DEF CallsSpec

-----------------------------------------------------------------------------
(* Folds *)

\* A set of subsets of a finite set that holds the empty one, and with a subset
\* without some element the subset, holds the whole set.
LEMMA SubsetInduction ==
  ASSUME NEW S, IsFiniteSet(S), NEW G, {} \in G,
         \A s \in SUBSET S : s # {} => \E x \in s : s \ {x} \in G => s \in G
  PROVE  S \in G
<1> DEFINE bad == {Cardinality(s) : s \in (SUBSET S) \ G}
<1>1. \A s \in SUBSET S : IsFiniteSet(s) /\ Cardinality(s) \in Nat
  BY FS_Subset, FS_CardinalityType
<1>2. SUFFICES ASSUME S \notin G PROVE FALSE
  OBVIOUS
<1>3. bad \subseteq Nat /\ bad # {}
  BY <1>1, <1>2
<1>4. PICK n \in bad : \A m \in bad : n <= m
  <2> HIDE DEF bad
  <2> QED
    BY <1>3, LeastNatural
<1>5. PICK s \in (SUBSET S) \ G : n = Cardinality(s)
  BY <1>4
<1>6. s # {}
  BY <1>5
<1>7. PICK x \in s : s \ {x} \in G => s \in G
  BY <1>5, <1>6
<1>8. Cardinality(s \ {x}) = n - 1 /\ n \in Nat
  BY <1>1, <1>5, <1>7, FS_RemoveElement
<1>9. Cardinality(s \ {x}) \in bad
  BY <1>5, <1>7
<1> HIDE DEF bad
<1> QED
  BY <1>4, <1>8, <1>9

\* What a fold over the subsets of S is: an element is picked, and g says what it
\* adds to the fold of the others.
IsFold(it, S, base, pick, g) ==
  \A s \in SUBSET S : it[s] = IF s = {} THEN base ELSE g[<<s, it[s \ {pick[s]}]>>]
PicksFrom(pick, S) == \A s \in SUBSET S : s # {} => pick[s] \in s
StaysIn(g, S, V) == \A s \in SUBSET S : s # {} => \A v \in V : g[<<s, v>>] \in V

\* The function a fold over a finite set is defined by exists, whatever the order
\* in which the elements are picked and whatever is done with them.
LEMMA FoldExists ==
  ASSUME NEW S, IsFiniteSet(S), NEW V, NEW base \in V, NEW pick, NEW g,
         PicksFrom(pick, S), StaysIn(g, S, V)
  PROVE  \E it \in [SUBSET S -> V] : IsFold(it, S, base, pick, g)
<1> USE DEF PicksFrom, StaysIn
<1> DEFINE Upto(k) == {s \in SUBSET S : Cardinality(s) <= k}
           Is(it, k) == \A s \in Upto(k) :
                          it[s] = IF s = {} THEN base ELSE g[<<s, it[s \ {pick[s]}]>>]
           bad == {k \in Nat : ~\E it \in [Upto(k) -> V] : Is(it, k)}
<1>1. \A s \in SUBSET S : IsFiniteSet(s) /\ Cardinality(s) \in Nat
  BY FS_Subset, FS_CardinalityType
<1>2. \A s \in SUBSET S : s # {} =>
        /\ s \ {pick[s]} \in SUBSET S /\ Cardinality(s \ {pick[s]}) = Cardinality(s) - 1
        /\ Cardinality(s) > 0
  <2> SUFFICES ASSUME NEW s \in SUBSET S, s # {}
               PROVE  /\ Cardinality(s \ {pick[s]}) = Cardinality(s) - 1
                      /\ Cardinality(s) > 0
    OBVIOUS
  <2>1. PICK x \in s : x = pick[s]
    OBVIOUS
  <2>2. IsFiniteSet(s) /\ Cardinality(s) \in Nat /\ Cardinality(s \ {x}) \in Nat
    BY <1>1
  <2>3. Cardinality(s \ {x}) = Cardinality(s) - 1
    BY <2>2, FS_RemoveElement
  <2> QED
    BY <2>1, <2>2, <2>3
<1>3. bad = {}
  <2> SUFFICES ASSUME bad # {} PROVE FALSE
    OBVIOUS
  <2>1. bad \subseteq Nat
    OBVIOUS
  <2>2. PICK n \in bad : \A m \in bad : n <= m
    <3> HIDE DEF bad
    <3> QED
      BY <2>1, LeastNatural
  <2>3. CASE n = 0
    <3> DEFINE it == [s \in Upto(0) |-> base]
    <3>1. \A s \in Upto(0) : s = {}
      <4> SUFFICES ASSUME NEW s \in SUBSET S, Cardinality(s) <= 0, s # {} PROVE FALSE
        OBVIOUS
      <4>1. Cardinality(s) \in Nat /\ Cardinality(s) > 0
        BY <1>1, <1>2
      <4> QED
        BY <4>1
    <3>2. it \in [Upto(0) -> V] /\ Is(it, 0)
      BY <3>1
    <3> QED
      BY <2>2, <2>3, <3>2
  <2>4. CASE n # 0
    <3>1. n \in Nat /\ n - 1 \in Nat /\ n - 1 \notin bad
      <4>1. n \in Nat
        BY <2>1, <2>2
      <4> HIDE DEF bad
      <4> QED
        BY <2>2, <2>4, <4>1
    <3>2. PICK old \in [Upto(n - 1) -> V] : Is(old, n - 1)
      BY <3>1
    <3> DEFINE it == [s \in Upto(n) |->
                        IF s = {} THEN base ELSE g[<<s, old[s \ {pick[s]}]>>]]
    <3>3. \A s \in Upto(n) : s # {} => s \ {pick[s]} \in Upto(n - 1)
      BY <1>1, <1>2
    <3>4. \A s \in Upto(n - 1) : s \in Upto(n) /\ it[s] = old[s]
      BY <1>1, <2>2, <3>2
    <3>5. it \in [Upto(n) -> V]
      BY <3>2, <3>3
    <3>6. Is(it, n)
      BY <3>3, <3>4
    <3> QED
      BY <2>2, <3>5, <3>6
  <2> QED
    BY <2>3, <2>4
<1>4. Cardinality(S) \in Nat /\ Cardinality(S) \notin bad
  BY <1>1, <1>3
<1>5. PICK it \in [Upto(Cardinality(S)) -> V] : Is(it, Cardinality(S))
  BY <1>4
<1>6. Upto(Cardinality(S)) = SUBSET S
  BY FS_Subset
<1> QED
  BY <1>5, <1>6 DEF IsFold

-----------------------------------------------------------------------------
(* The reduction of the results of the starts *)

Statuses == DOMAIN Rank
Replies == [status : Statuses, obj : Int, start : Nat]

\* Each status has a rank, and "none" is not one of them.
LEMMA RankIs == "none" \notin Statuses /\ "Timeout" \in Statuses /\ \A s \in Statuses : Rank[s] \in Nat
  BY DEF Statuses, Rank

\* No result of a start is taken for the lack of one.
LEMMA NoResultIs == NoResult \notin Replies
  BY RankIs DEF NoResult, Result, Replies

\* A finite set of numbers has a largest one, which is what Max picks.
LEMMA MaxIs ==
  ASSUME NEW n \in Nat, NEW s \in SUBSET (1..n), s # {}
  PROVE  Max(s) \in s /\ \A i \in s : i <= Max(s)
<1> DEFINE gaps == {n - i : i \in s}
<1>1. gaps \subseteq Nat /\ gaps # {}
  <2>1. \A i \in s : i \in 1..n /\ n - i \in Nat
    OBVIOUS
  <2> QED
    BY <2>1
<1>2. PICK x \in gaps : \A y \in gaps : x <= y
  <2> HIDE DEF gaps
  <2> QED
    BY <1>1, LeastNatural
<1>3. PICK i \in s : x = n - i
  BY <1>2
<1>4. \A j \in s : i >= j
  <2> SUFFICES ASSUME NEW j \in s PROVE i >= j
    OBVIOUS
  <2>1. n - j \in gaps
    OBVIOUS
  <2>2. x <= n - j
    BY <1>2, <2>1
  <2> QED
    BY <1>3, <2>2
<1>5. \E k \in s : \A j \in s : k >= j
  BY <1>4
<1>6. Max(s) \in s /\ \A j \in s : Max(s) >= j
  BY <1>5, Zenon DEF Max
<1>7. Max(s) \in Nat /\ \A j \in s : j \in Nat
  <2>1. \A j \in s : j \in 1..n /\ j \in Nat
    OBVIOUS
  <2> QED
    BY <1>6, <2>1
<1> QED
  BY <1>6, <1>7

\* Beats orders the results of the starts.
LEMMA BeatsOrders ==
  ASSUME NEW a \in Replies, NEW b \in Replies
  PROVE  /\ ~Beats(a, a)
         /\ \A r \in Replies : ~Beats(a, r) /\ Beats(b, r) => ~Beats(a, b)
<1>1. Rank[a.status] \in Nat /\ Rank[b.status] \in Nat /\ \A r \in Replies : Rank[r.status] \in Nat
  BY RankIs DEF Replies
<1>2. \A r \in {a, b} \cup Replies : r.obj \in Int /\ r.start \in Nat
  BY DEF Replies
<1> QED
  BY <1>1, <1>2 DEF Beats

\* Of the results of two starts the later one is kept if it beats the earlier.
LEMMA PickBetterIs ==
  ASSUME NEW a \in Replies, NEW b \in Replies, a.start < b.start
  PROVE  PickBetter(a, b) = IF Beats(b, a) THEN b ELSE a
<1>1. Rank[a.status] \in Nat /\ Rank[b.status] \in Nat
  BY RankIs DEF Replies
<1>2. a.obj \in Int /\ b.obj \in Int /\ a.start \in Nat /\ b.start \in Nat
  BY DEF Replies
<1> QED
  BY <1>1, <1>2 DEF PickBetter, Beats

\* What reducing the first results of a call, or any of them, leaves: one that no
\* other of them beats, or none if there is none.
BestOf(seq, s, r) ==
  \/ r = NoResult /\ \A i \in s : seq[i] = NoResult
  \/ \E i \in s : /\ r = seq[i] /\ r # NoResult
                  /\ \A j \in s : seq[j] # NoResult => ~Beats(seq[j], r)

\* One more result, of a later start than all before.
LEMMA CombinedIs ==
  ASSUME NEW n \in Nat, NEW seq \in [1..n -> Replies \cup {NoResult}],
         \A i \in 1..n : seq[i] # NoResult => seq[i].start = i,
         NEW s \in SUBSET (1..n), NEW m \in s, \A i \in s : i <= m,
         NEW r, BestOf(seq, s \ {m}, r)
  PROVE  BestOf(seq, s, Combined(r, seq[m]))
<1>1. m \in 1..n /\ \A i \in s : seq[i] \in Replies \cup {NoResult}
  OBVIOUS
<1>2. CASE seq[m] = NoResult
  <2>1. Combined(r, seq[m]) = r
    BY <1>2 DEF Combined
  <2> QED
    BY <1>2, <2>1 DEF BestOf
<1>3. CASE seq[m] # NoResult /\ r = NoResult
  <2>1. Combined(r, seq[m]) = seq[m] /\ seq[m] \in Replies
    BY <1>1, <1>3 DEF Combined
  <2>2. \A i \in s \ {m} : seq[i] = NoResult
    BY <1>3 DEF BestOf
  <2>3. ~Beats(seq[m], seq[m])
    BY <2>1, BeatsOrders
  <2> QED
    BY <1>3, <2>1, <2>2, <2>3 DEF BestOf
<1>4. CASE seq[m] # NoResult /\ r # NoResult
  <2>1. PICK i \in s \ {m} : /\ r = seq[i]
                             /\ \A j \in s \ {m} : seq[j] # NoResult => ~Beats(seq[j], r)
    BY <1>4 DEF BestOf
  <2>2. r \in Replies /\ seq[m] \in Replies /\ r.start = i /\ seq[m].start = m /\ i < m
    BY <1>1, <1>4, <2>1
  <2>3. Combined(r, seq[m]) = IF Beats(seq[m], r) THEN seq[m] ELSE r
    BY <1>4, <2>2, PickBetterIs DEF Combined
  <2>4. ~Beats(seq[m], seq[m])
    BY <2>2, BeatsOrders
  <2>5. CASE Beats(seq[m], r)
    <3>1. \A j \in s : seq[j] # NoResult => ~Beats(seq[j], seq[m])
      BY <1>1, <2>1, <2>2, <2>4, <2>5, BeatsOrders
    <3> QED
      BY <1>4, <2>3, <2>5, <3>1 DEF BestOf
  <2>6. CASE ~Beats(seq[m], r)
    BY <1>4, <2>1, <2>3, <2>6 DEF BestOf
  <2> QED
    BY <2>5, <2>6
<1> QED
  BY <1>2, <1>3, <1>4

\* So the whole reduction answers with a result no other one beats, however many
\* starts there are.
LEMMA ReductionIs ==
  ASSUME NEW n \in Nat, NEW seq \in [1..n -> Replies \cup {NoResult}],
         \A i \in 1..n : seq[i] # NoResult => seq[i].start = i
  PROVE  BestOf(seq, 1..n, FoldLeft(Combined, NoResult, seq))
<1> DEFINE S == 1..n
           Fold(it) == it = [s \in SUBSET S |->
                              IF s = {} THEN NoResult
                              ELSE Combined(it[s \ {Max(s)}], seq[Max(s)])]
           iter == CHOOSE it : Fold(it)
           V == Replies \cup {NoResult}
           pick == [s \in SUBSET S |-> Max(s)]
           g == [p \in (SUBSET S) \X V |-> Combined(p[2], seq[Max(p[1])])]
<1>1. FoldLeft(Combined, NoResult, seq) = iter[S]
  BY DEF FoldLeft, MapThenFoldSet
<1>2. IsFiniteSet(S)
  BY FS_Interval
<1>3. \A s \in SUBSET S : s # {} => Max(s) \in s /\ \A i \in s : i <= Max(s)
  BY MaxIs
<1>4. StaysIn(g, S, V)
  BY <1>3 DEF Combined, PickBetter, StaysIn
<1>5. \E it \in [SUBSET S -> V] : IsFold(it, S, NoResult, pick, g)
  <2>1. PicksFrom(pick, S)
    BY <1>3 DEF PicksFrom
  <2> HIDE DEF S, g, pick, V
  <2>2. NoResult \in V
    BY DEF V
  <2> QED
    BY <1>2, <1>4, <2>1, <2>2, FoldExists
<1>6. \E it : Fold(it)
  <2>1. PICK it \in [SUBSET S -> V] : IsFold(it, S, NoResult, pick, g)
    BY <1>5
  <2>2. \A s \in SUBSET S : s # {} =>
          g[<<s, it[s \ {pick[s]}]>>] = Combined(it[s \ {Max(s)}], seq[Max(s)])
    OBVIOUS
  <2> HIDE DEF g, pick
  <2>3. Fold(it)
    BY <2>1, <2>2 DEF IsFold
  <2> QED
    BY <2>3
<1>7. Fold(iter)
  BY <1>6
<1> DEFINE G == {s \in SUBSET S : BestOf(seq, s, iter[s])}
<1>8. {} \in G
  BY <1>7 DEF BestOf
<1>9. ASSUME NEW s \in SUBSET S, s # {}
      PROVE  \E x \in s : s \ {x} \in G => s \in G
  <2>1. Max(s) \in s /\ \A i \in s : i <= Max(s)
    BY <1>3, <1>9
  <2>2. iter[s] = Combined(iter[s \ {Max(s)}], seq[Max(s)])
    BY <1>7, <1>9
  <2>3. BestOf(seq, s \ {Max(s)}, iter[s \ {Max(s)}]) => BestOf(seq, s, iter[s])
    <3> DEFINE m == Max(s)
               r == iter[s \ {m}]
    <3>1. s \in SUBSET (1..n) /\ m \in s /\ \A i \in s : i <= m
      BY <2>1
    <3>2. ASSUME BestOf(seq, s \ {m}, r) PROVE BestOf(seq, s, Combined(r, seq[m]))
      <4> HIDE DEF iter, S, m, r
      <4> QED
        BY <3>1, <3>2, CombinedIs
    <3> QED
      BY <2>2, <3>2
  <2> QED
    BY <2>1, <2>3
<1>10. S \in G
  <2> HIDE DEF G, S
  <2> QED
    BY <1>2, <1>8, <1>9, SubsetInduction
<1> QED
  BY <1>1, <1>10

-----------------------------------------------------------------------------
(* The answer of a multistart call *)

\* A start has its own result or none.
StartsTypeOK ==
  /\ DOMAIN result = Calls /\ DOMAIN chosen = Calls /\ expired \in [Calls -> BOOLEAN]
  /\ \A c \in Calls :
       /\ result[c] \in [Tasks(c) -> Replies \cup {NoResult}]
       /\ \A i \in Tasks(c) : result[c][i] # NoResult => result[c][i].start = i

\* A start that has ended has a result, and none is left out before the deadline;
\* a call is over when all of its starts are.
StartsEnd ==
  \A c \in Calls :
    /\ \A i \in Tasks(c) :
         /\ task[c][i] = "done" /\ request[c].kind = "multistart" => result[c][i] # NoResult
         /\ task[c][i] = "skipped" => expired[c]
    /\ callPc[c] = "done" => Settled(c)

StartsInv == PoolInv /\ StartsTypeOK /\ StartsEnd /\ BestStartWins

\* A call has as many tasks as its request says, at least one.
LEMMA TasksAre ==
  ASSUME PoolTypeOK, NEW c \in Calls
  PROVE  request[c].tasks \in Nat \ {0} /\ 1 \in Tasks(c) /\ Tasks(c) = 1..request[c].tasks
<1>1. request[c] \in Requests[c]
  BY DEF PoolTypeOK
<1>2. request[c].tasks \in Nat \ {0}
  BY <1>1, CallAssumption
<1> QED
  BY <1>2 DEF Tasks

\* What solve_one may return is a result of the start.
LEMMA AnswersAre ==
  ASSUME NEW c, NEW i \in Nat, NEW r \in Answers(c, i) \cup {Stub(i)}
  PROVE  r \in Replies /\ r.start = i /\ r # NoResult
<1>1. Stub(i) \in Replies /\ Stub(i).start = i
  BY RankIs, OutcomeAssumption DEF Stub, Result, Replies
<1>2. ASSUME NEW o \in Outcomes PROVE Result(o, i) \in Replies /\ Result(o, i).start = i
  BY OutcomeAssumption DEF Result, Replies, Statuses
<1>3. r \in Replies /\ r.start = i
  BY <1>1, <1>2 DEF Answers
<1> QED
  BY <1>3, NoResultIs

\* Before the calls begin no start has a result.
LEMMA StartsInitOK == CallsInit => StartsInv
<1> SUFFICES ASSUME CallsInit PROVE StartsInv
  OBVIOUS
<1>1. PoolInv
  BY PoolInitOK
<1>2. /\ callPc = [c \in Calls |-> "ask"]
      /\ task = [c \in Calls |-> [i \in Tasks(c) |-> "todo"]]
      /\ result = [c \in Calls |-> [i \in Tasks(c) |-> NoResult]]
      /\ expired = [c \in Calls |-> FALSE]
      /\ chosen = [c \in Calls |-> NoResult]
  BY DEF CallsInit
<1>3. StartsTypeOK
  BY <1>2 DEF StartsTypeOK
<1>4. StartsEnd
  BY <1>2 DEF StartsEnd
<1>5. BestStartWins
  BY <1>2 DEF BestStartWins
<1> QED
  BY <1>1, <1>3, <1>4, <1>5 DEF StartsInv

\* A step that leaves the results of the starts, and the calls that are over, alone.
LEMMA ResultsStay ==
  ASSUME StartsInv, PoolInv',
         UNCHANGED <<request, task, result, chosen>>,
         expired' \in [Calls -> BOOLEAN], \A c \in Calls : expired[c] => expired'[c],
         \A c \in Calls : callPc'[c] = "done" => callPc[c] = "done"
  PROVE  StartsInv'
<1>1. \A c \in Calls : Tasks(c)' = Tasks(c)
  BY DEF Tasks
<1>2. \A c \in Calls : Settled(c) => Settled(c)'
  BY <1>1 DEF Settled
<1>3. StartsTypeOK'
  BY <1>1 DEF StartsInv, StartsTypeOK
<1>4. StartsEnd'
  BY <1>1, <1>2 DEF StartsInv, StartsEnd
<1>5. BestStartWins'
  BY <1>1 DEF StartsInv, BestStartWins
<1> QED
  BY <1>3, <1>4, <1>5 DEF StartsInv

\* A step of one task of a call at work, after which it has a result if it is done.
LEMMA TaskMoves ==
  ASSUME StartsInv, PoolInv', NEW c \in Calls, NEW i \in Tasks(c), callPc[c] = "work",
         NEW to \in {"busy", "done"}, NEW r \in Replies \cup {NoResult},
         SetTask(c, i, to, r),
         r # NoResult => r.start = i,
         to = "done" /\ request[c].kind = "multistart" => r # NoResult
  PROVE  StartsInv'
<1>1. /\ task' = [task EXCEPT ![c][i] = to]
      /\ result' = [result EXCEPT ![c][i] = r]
      /\ UNCHANGED <<request, callPc, expired, chosen>>
  BY DEF SetTask
<1>2. \A d \in Calls : Tasks(d)' = Tasks(d)
  BY <1>1 DEF Tasks
<1>3. /\ DOMAIN task = Calls /\ DOMAIN result = Calls
      /\ task[c] \in [Tasks(c) -> {"todo", "busy", "done", "skipped"}]
      /\ result[c] \in [Tasks(c) -> Replies \cup {NoResult}]
  BY DEF StartsInv, StartsTypeOK, PoolInv, PoolTypeOK
<1>4. /\ \A d \in Calls \ {c} : task'[d] = task[d] /\ result'[d] = result[d]
      /\ task'[c] = [task[c] EXCEPT ![i] = to]
      /\ result'[c] = [result[c] EXCEPT ![i] = r]
      /\ DOMAIN result' = Calls
  BY <1>1, <1>3
<1>5. StartsTypeOK'
  BY <1>1, <1>2, <1>3, <1>4 DEF StartsInv, StartsTypeOK
<1>6. StartsEnd'
  <2>1. ASSUME NEW d \in Calls \ {c}, Settled(d) PROVE Settled(d)'
    BY <1>2, <1>4, <2>1 DEF Settled
  <2>2. callPc'[c] # "done"
    BY <1>1
  <2>3. ASSUME NEW j \in Tasks(c)
        PROVE  /\ task'[c][j] = "done" /\ request'[c].kind = "multistart" => result'[c][j] # NoResult
               /\ task'[c][j] = "skipped" => expired'[c]
    BY <1>1, <1>3, <1>4 DEF StartsInv, StartsEnd
  <2>4. ASSUME NEW d \in Calls \ {c}
        PROVE  /\ \A j \in Tasks(d) :
                    /\ task'[d][j] = "done" /\ request'[d].kind = "multistart" => result'[d][j] # NoResult
                    /\ task'[d][j] = "skipped" => expired'[d]
               /\ callPc'[d] = "done" => Settled(d)'
    BY <1>1, <1>4, <2>1 DEF StartsInv, StartsEnd
  <2> QED
    BY <1>2, <2>2, <2>3, <2>4 DEF StartsEnd
<1>7. BestStartWins'
  BY <1>1, <1>2, <1>4 DEF StartsInv, BestStartWins
<1> QED
  BY <1>5, <1>6, <1>7 DEF StartsInv

\* take_while: what is left out is left out after the deadline.
LEMMA StartsLeftOut ==
  ASSUME StartsInv, PoolInv', NEW c \in Calls, LeaveOut(c)
  PROVE  StartsInv'
<1>1. /\ task' = [task EXCEPT ![c] =
                    [i \in Tasks(c) |-> IF @[i] = "todo" THEN "skipped" ELSE @[i]]]
      /\ callPc[c] = "work" /\ expired[c]
      /\ UNCHANGED <<request, callPc, result, expired, chosen>>
  BY DEF LeaveOut, Shortcut
<1>2. \A d \in Calls : Tasks(d)' = Tasks(d)
  BY <1>1 DEF Tasks
<1>3. DOMAIN task = Calls
  BY DEF StartsInv, PoolInv, PoolTypeOK
<1>4. /\ \A d \in Calls \ {c} : task'[d] = task[d]
      /\ \A i \in Tasks(c) : task'[c][i] = IF task[c][i] = "todo" THEN "skipped" ELSE task[c][i]
  BY <1>1, <1>3
<1>5. StartsTypeOK'
  BY <1>1, <1>2 DEF StartsInv, StartsTypeOK
<1>6. StartsEnd'
  <2>1. ASSUME NEW d \in Calls \ {c}, Settled(d) PROVE Settled(d)'
    BY <1>2, <1>4, <2>1 DEF Settled
  <2>2. callPc'[c] # "done"
    BY <1>1
  <2>3. ASSUME NEW j \in Tasks(c)
        PROVE  /\ task'[c][j] = "done" /\ request'[c].kind = "multistart" => result'[c][j] # NoResult
               /\ task'[c][j] = "skipped" => expired'[c]
    BY <1>1, <1>4 DEF StartsInv, StartsEnd
  <2>4. ASSUME NEW d \in Calls \ {c}
        PROVE  /\ \A j \in Tasks(d) :
                    /\ task'[d][j] = "done" /\ request'[d].kind = "multistart" => result'[d][j] # NoResult
                    /\ task'[d][j] = "skipped" => expired'[d]
               /\ callPc'[d] = "done" => Settled(d)'
    BY <1>1, <1>4, <2>1 DEF StartsInv, StartsEnd
  <2> QED
    BY <1>2, <2>2, <2>3, <2>4 DEF StartsEnd
<1>7. BestStartWins'
  BY <1>1, <1>2 DEF StartsInv, BestStartWins
<1> QED
  BY <1>5, <1>6, <1>7 DEF StartsInv

\* The call returns: every start has ended, and their results are reduced.
LEMMA StartsReduced ==
  ASSUME StartsInv, PoolInv', NEW c \in Calls, Return(c)
  PROVE  StartsInv'
<1>1. /\ callPc[c] = "work" /\ callPc' = [callPc EXCEPT ![c] = "done"] /\ Settled(c)
      /\ UNCHANGED <<request, task, result, expired>>
  BY DEF Return
<1>2. /\ \A d \in Calls : Tasks(d)' = Tasks(d)
      /\ \A d \in Calls : Settled(d) => Settled(d)'
  BY <1>1 DEF Tasks, Settled
<1>3. /\ callPc \in [Calls -> {"ask", "work", "done"}] /\ DOMAIN chosen = Calls
      /\ result[c] \in [Tasks(c) -> Replies \cup {NoResult}]
      /\ \A i \in Tasks(c) : result[c][i] # NoResult => result[c][i].start = i
  BY DEF StartsInv, StartsTypeOK, PoolInv, PoolTypeOK
<1>4. /\ \A d \in Calls \ {c} : chosen'[d] = chosen[d] /\ callPc'[d] = callPc[d]
      /\ DOMAIN chosen' = Calls /\ callPc'[c] = "done"
  BY <1>1, <1>3 DEF Return
<1>5. StartsTypeOK'
  BY <1>1, <1>2, <1>4 DEF StartsInv, StartsTypeOK
<1>6. StartsEnd'
  BY <1>1, <1>2, <1>4 DEF StartsInv, StartsEnd
<1>7. /\ request[c].tasks \in Nat \ {0} /\ Tasks(c) = 1..request[c].tasks
      /\ 1 \in Tasks(c)
  BY TasksAre DEF StartsInv, PoolInv
<1>8. BestOf(result[c], Tasks(c), Reduced(c))
  <2>1. BestOf(result[c], 1..request[c].tasks, FoldLeft(Combined, NoResult, result[c]))
    BY <1>3, <1>7, ReductionIs
  <2> QED
    BY <1>7, <2>1 DEF Reduced
<1>9. ASSUME request[c].kind = "multistart"
      PROVE  /\ \A i \in Tasks(c) : result[c][i] # NoResult => ~Beats(result[c][i], chosen'[c])
             /\ expired[c] \/ \A i \in Tasks(c) : result[c][i].status # "none"
             /\ chosen'[c].start \in Tasks(c)
  <2>1. expired[c] \/ \A i \in Tasks(c) : result[c][i] # NoResult
    BY <1>1, <1>9 DEF StartsInv, StartsEnd, Settled
  <2>2. \A i \in Tasks(c) : result[c][i] # NoResult => result[c][i].status # "none"
    BY <1>3, RankIs DEF Replies
  <2>3. CASE Reduced(c) = NoResult
    <3>1. \A i \in Tasks(c) : result[c][i] = NoResult
      BY <1>8, <2>3 DEF BestOf
    <3>2. PICK r \in Answers(c, 1) : chosen' = [chosen EXCEPT ![c] = r]
      BY <1>9, <2>3 DEF Return
    <3>3. chosen'[c] = r /\ r.start = 1
      BY <1>3, <3>2, AnswersAre
    <3> QED
      BY <1>7, <2>1, <3>1, <3>3
  <2>4. CASE Reduced(c) # NoResult
    <3>1. PICK i \in Tasks(c) :
            /\ Reduced(c) = result[c][i]
            /\ \A j \in Tasks(c) : result[c][j] # NoResult => ~Beats(result[c][j], Reduced(c))
      BY <1>8, <2>4 DEF BestOf
    <3>2. chosen'[c] = Reduced(c)
      BY <1>3, <1>9, <2>4 DEF Return
    <3> QED
      BY <1>3, <2>1, <2>2, <2>4, <3>1, <3>2
  <2> QED
    BY <2>3, <2>4
<1>10. BestStartWins'
  BY <1>1, <1>2, <1>4, <1>9 DEF StartsInv, BestStartWins
<1> QED
  BY <1>5, <1>6, <1>10 DEF StartsInv

\* Every step of every call preserves the invariant.
LEMMA StartsStepOK == StartsInv /\ [CallsNext]_startVars => StartsInv'
<1> SUFFICES ASSUME StartsInv, [CallsNext]_startVars PROVE StartsInv'
  OBVIOUS
<1>1. PoolInv'
  BY PoolStepOK DEF StartsInv
<1>2. /\ callPc \in [Calls -> {"ask", "work", "done"}] /\ expired \in [Calls -> BOOLEAN]
      /\ \A c \in Calls : callPc[c] # "work" => Busy(c) = {}
      /\ \A c \in Calls : request[c].tasks \in Nat /\ Tasks(c) = 1..request[c].tasks
  BY TasksAre DEF StartsInv, StartsTypeOK, PoolInv, PoolTypeOK, PoolsFit
<1>3. ASSUME NEW c \in Calls, NEW p, NEW how, Enter(c, p, how) PROVE StartsInv'
  <2>1. /\ callPc' = [callPc EXCEPT ![c] = "work"]
        /\ UNCHANGED <<request, task, result, expired, chosen>>
    BY <1>3 DEF Enter
  <2>2. \A d \in Calls : callPc'[d] = "done" => callPc[d] = "done"
    BY <1>2, <2>1
  <2> QED
    BY <1>1, <1>2, <2>1, <2>2, ResultsStay
<1>4. ASSUME NEW c \in Calls, CallStep(c) PROVE StartsInv'
  <2>1. CASE EnterSequential(c) \/ EnterPool(c) \/ EnterRefused(c)
    BY <1>3, <2>1 DEF EnterSequential, EnterPool, EnterRefused
  <2>2. ASSUME NEW i \in Tasks(c), Begin(c, i) PROVE StartsInv'
    BY <1>1, <2>2, TaskMoves DEF Begin, MayBegin
  <2>3. ASSUME NEW i \in Tasks(c), BeginLate(c, i) PROVE StartsInv'
    <3>1. i \in Nat
      BY <1>2, <2>3
    <3>2. Stub(i) \in Replies /\ Stub(i).start = i /\ Stub(i) # NoResult
      BY <3>1, AnswersAre
    <3> QED
      BY <1>1, <2>3, <3>2, TaskMoves DEF BeginLate, MayBegin
  <2>4. ASSUME NEW i \in Tasks(c), Finish(c, i) PROVE StartsInv'
    <3>0. task[c][i] = "busy"
      BY <2>4 DEF Finish
    <3>1. i \in Nat
      BY <1>2, <2>4
    <3>2. callPc[c] = "work"
      BY <1>2, <2>4, <3>0 DEF Busy
    <3>3. CASE request[c].kind = "factor"
      <4>1. SetTask(c, i, "done", NoResult)
        BY <2>4, <3>3 DEF Finish
      <4> QED
        BY <1>1, <3>2, <3>3, <4>1, TaskMoves
    <3>4. CASE request[c].kind # "factor"
      <4>1. PICK r \in Answers(c, i) : SetTask(c, i, "done", r)
        BY <2>4, <3>4 DEF Finish
      <4>2. r \in Replies /\ r.start = i /\ r # NoResult
        BY <3>1, AnswersAre
      <4> QED
        BY <1>1, <3>2, <4>1, <4>2, TaskMoves
    <3> QED
      BY <3>3, <3>4
  <2>5. CASE LeaveOut(c)
    BY <1>1, <2>5, StartsLeftOut
  <2>6. CASE Return(c)
    BY <1>1, <2>6, StartsReduced
  <2> QED
    BY <1>4, <2>1, <2>2, <2>3, <2>4, <2>5, <2>6 DEF CallStep
<1>5. ASSUME NEW c \in Calls, Expire(c) PROVE StartsInv'
  <2>1. /\ expired' = [expired EXCEPT ![c] = TRUE]
        /\ UNCHANGED <<request, callPc, task, result, chosen>>
    BY <1>5 DEF Expire
  <2> QED
    BY <1>1, <1>2, <2>1, ResultsStay
<1>6. CASE UNCHANGED startVars
  <2>1. UNCHANGED <<request, callPc, task, result, expired, chosen>>
    BY <1>6 DEF startVars, callVars
  <2> QED
    BY <1>1, <1>2, <2>1, ResultsStay
<1> QED
  BY <1>4, <1>5, <1>6 DEF CallsNext

\* Whatever the number of starts, what they find, the order in which they end, the
\* pool they run in and the moment the deadline passes: the answer of a multistart
\* call is the first of its best starts, and before the deadline each had its say.
THEOREM BestOfTheStarts == CallsSpec => []BestStartWins
<1>1. CallsInit => StartsInv
  BY StartsInitOK
<1>2. StartsInv /\ [CallsNext]_startVars => StartsInv'
  BY StartsStepOK
<1>3. StartsInv => BestStartWins
  BY DEF StartsInv
<1> QED
  BY <1>1, <1>2, <1>3, PTL DEF CallsSpec

-----------------------------------------------------------------------------
(* The interior-point attempts: outcomes *)

OutcomeSet ==
  {o \in [point : Iterates \cup {NoIterate}, verdict : Verdicts \cup {"none"},
          verified : BOOLEAN, failed : BOOLEAN,
          term : {"Converged", "Stalled", "IterationLimit", "Deadline"}] :
     /\ o.verdict # "none" \/ o.failed => o.point = NoIterate
     /\ o.verdict # "none" => ~o.failed}

\* An attempt ends at a point, or at a verdict, or fails, and at no more iterations
\* than it was granted.
LEMMA EndsType ==
  ASSUME NEW granted \in Nat, NEW stop, NEW e \in Ends(granted, stop)
  PROVE  e[1] \in OutcomeSet /\ e[2] \in Nat /\ e[2] <= granted
<1>1. ASSUME NEW v \in Verdicts, NEW c \in BOOLEAN PROVE Verdict(v, c) \in OutcomeSet
  <2>1. v # "none" /\ (c \/ v = "NonConvex") \in BOOLEAN
    BY AttemptAssumption
  <2> QED
    BY <2>1 DEF Verdict, Outcome, OutcomeSet
<1>2. ASSUME NEW term \in {"Converged", "Stalled", "IterationLimit", "Deadline"}
      PROVE  /\ \A p \in Iterates : Iterate(p, term) \in OutcomeSet
             /\ Ending(term) \subseteq OutcomeSet
  <2>1. \A p \in Iterates : Iterate(p, term) \in OutcomeSet
    BY AttemptAssumption DEF Iterate, Outcome, OutcomeSet
  <2>2. Failure(term) \in OutcomeSet
    BY DEF Failure, Outcome, OutcomeSet
  <2> QED
    BY <2>1, <2>2 DEF Ending
<1>3. CASE e \in ({Verdict(v, c) : v \in Verdicts, c \in BOOLEAN}
                   \cup {Iterate(p, "Converged") : p \in Iterates} \cup Ending("Stalled"))
                  \X {i \in Iterations : i <= granted}
  BY <1>1, <1>2, <1>3, AttemptAssumption
<1>4. CASE e \in Ending("IterationLimit") \X {granted}
  BY <1>2, <1>4
<1>5. CASE e \in Ending("Deadline") \X {0}
  BY <1>2, <1>5
<1> QED
  BY <1>3, <1>4, <1>5 DEF Ends

\* The least of one number, and of two.
LEMMA LeastOfTwo ==
  ASSUME NEW a \in Int, NEW b \in Int
  PROVE  /\ Min({a}) = a
         /\ Min({a, b}) \in {a, b} /\ Min({a, b}) <= a /\ Min({a, b}) <= b
<1>1. Min({a}) = a
  BY DEF Min
<1>2. \E x \in {a, b} : \A y \in {a, b} : x <= y
  OBVIOUS
<1>3. Min({a, b}) \in {a, b} /\ \A y \in {a, b} : Min({a, b}) <= y
  BY <1>2 DEF Min
<1> QED
  BY <1>1, <1>3

\* A score is a natural number; the only proof is a point of score 0, which is one
\* that satisfies eps; a final outcome is a verdict.
LEMMA Scores ==
  ASSUME NEW o \in OutcomeSet
  PROVE  /\ ScoreOf(o) \in Nat /\ ObjectiveOf(o) \in Int
         /\ ProvesOptimal(o) => /\ o.point \in Satisfying /\ Score[o.point] = 0
                                /\ o.verdict = "none" /\ ~o.failed /\ ~Final(o)
         /\ Final(o) => o.verdict # "none" /\ o.point = NoIterate /\ ~o.failed
  BY AttemptAssumption DEF OutcomeSet, ScoreOf, ObjectiveOf, ProvesOptimal, Final

-----------------------------------------------------------------------------
(* The interior-point attempts: an inductive invariant *)

Marks == [exp : Int, iters : Int, point : Iterates \cup {NoIterate}]

LogType ==
  [made : SUBSET Nat, spent : Nat,
   evidence : SUBSET [where : {"presolved", "original"}, of : OutcomeSet],
   least : SUBSET Nat, capped : BOOLEAN, extended : BOOLEAN,
   alike : [BOOLEAN -> Marks \X Nat]]

IpmTypeOK ==
  /\ ipmCall \in IpmCalls
  /\ stage \in {"presolve", "ladder", "extend", "fallback", "finalize", "answered"}
  /\ rung \in Nat /\ used \in Nat /\ fallbacks \in Nat
  /\ progress \subseteq Nat
  /\ best = {} \/ \E o \in OutcomeSet : best = {o}
  /\ prev \in [BOOLEAN -> Marks] /\ runLen \in [BOOLEAN -> Nat]
  /\ dead \in [BOOLEAN -> BOOLEAN]
  /\ late \in BOOLEAN /\ cancelled \in BOOLEAN
  /\ log \in LogType

\* What the properties remember is what the attempts were charged.
SpentIsUsed == log.spent = used

\* The first evidence stays in `best`: a proof ends the ladder at once, a verified
\* verdict of the presolved program gives way to nothing.
EvidenceKept ==
  /\ log.evidence = {} => \A b \in best : ~ProvesOptimal(b) /\ ~Final(b)
  /\ \A e \in log.evidence : ProvesOptimal(e.of) \/ Final(e.of)
  /\ \A e \in log.evidence : ProvesOptimal(e.of) =>
       /\ stage \in {"extend", "fallback", "finalize", "answered"}
       /\ stage \in {"extend", "fallback"} => fallbacks = 0
       /\ \E b \in best : ProvesOptimal(b)
  /\ \A e \in log.evidence : e.where = "presolved" /\ Final(e.of) =>
       \E b \in best : Final(b) /\ b.verdict = e.of.verdict

\* Nothing is known before the ladder, and nothing ran without presolve before its end.
InOrder ==
  /\ stage = "presolve" => log.evidence = {}
  /\ stage \in {"presolve", "ladder", "extend"} => fallbacks = 0

IpmInv ==
  IpmTypeOK /\ SpentIsUsed /\ InOrder /\ EvidenceKept /\ KeepsBest /\ FirstEvidenceDecides

-----------------------------------------------------------------------------
(* The ladder *)

\* The exponents are a sequence of integers.
LEMMA DepthsType ==
  ASSUME NEW call \in IpmCalls
  PROVE  Depths(call) \in Seq(Int)
<1>1. call.base \in Nat
  BY AttemptAssumption
<1>2. /\ <<call.base, call.base + 1>> \in Seq(Int)
      /\ (IF NoRuizOnly(call) THEN <<>> ELSE <<call.base + 2>>) \in Seq(Int)
      /\ (IF call.base > 1 THEN <<call.base - 1>> ELSE <<>>) \in Seq(Int)
      /\ (IF call.base > 0 THEN <<0>> ELSE <<>>) \in Seq(Int)
  BY <1>1
<1> QED
  BY <1>2, ConcatProperties DEF Depths

\* An entry of the ladder has a lane and an exponent.
LEMMA LadderType ==
  ASSUME NEW call \in IpmCalls
  PROVE  /\ DOMAIN Ladder(call) \subseteq Nat \ {0}
         /\ \A k \in DOMAIN Ladder(call) :
              Ladder(call)[k].ruiz \in BOOLEAN /\ Ladder(call)[k].exp \in Int
<1> DEFINE depth == Depths(call)
<1>1. /\ DOMAIN depth = 1 .. Len(depth) /\ Len(depth) \in Nat
      /\ \A k \in 1 .. Len(depth) : depth[k] \in Int
  BY DepthsType, LenProperties, ElementOfSeq
<1> HIDE DEF depth
<1>2. CASE NoRuizOnly(call)
  <2>1. Ladder(call) = [k \in 1 .. Len(depth) |-> [ruiz |-> FALSE, exp |-> depth[k]]]
    BY <1>1, <1>2 DEF Ladder, depth
  <2>2. DOMAIN Ladder(call) = 1 .. Len(depth)
    BY <2>1
  <2>3. ASSUME NEW k \in 1 .. Len(depth)
        PROVE  Ladder(call)[k].ruiz = FALSE /\ Ladder(call)[k].exp = depth[k]
    BY <2>1
  <2>4. 1 .. Len(depth) \subseteq Nat \ {0}
    BY <1>1
  <2> QED
    BY <1>1, <2>2, <2>3, <2>4
<1>3. CASE ~NoRuizOnly(call)
  <2> DEFINE n == 2 * Len(depth)
             half(k) == (k + 1) \div 2
  <2>1. Ladder(call) = [k \in 1 .. n |-> [ruiz |-> k % 2 = 1, exp |-> depth[half(k)]]]
    BY <1>3 DEF Ladder, depth
  <2>2. DOMAIN Ladder(call) = 1 .. n /\ n \in Nat
    BY <1>1, <2>1
  <2>3. ASSUME NEW k \in 1 .. n
        PROVE  Ladder(call)[k].ruiz \in BOOLEAN /\ Ladder(call)[k].exp \in Int
    <3>1. half(k) \in 1 .. Len(depth) /\ (k % 2 = 1) \in BOOLEAN
      BY <1>1
    <3>2. Ladder(call)[k] = [ruiz |-> k % 2 = 1, exp |-> depth[half(k)]]
      BY <2>1
    <3> QED
      BY <1>1, <3>1, <3>2
  <2> HIDE DEF n
  <2> QED
    BY <2>2, <2>3
<1> QED
  BY <1>2, <1>3

\* A set of naturals has a least one.
LEMMA LeastOfNaturals ==
  ASSUME NEW T \in SUBSET Nat, T # {}
  PROVE  Min(T) \in T /\ \A y \in T : Min(T) <= y
<1>1. PICK x \in T : \A y \in T : <<y, x>> \notin OpToRel(<, Nat)
  BY WFMin, NatLessThanWellFounded, Zenon
<1>2. \A y \in T : ~(y < x)
  BY <1>1, Zenon DEF OpToRel
<1>3. \E z \in T : \A y \in T : z <= y
  BY <1>2
<1> QED
  BY <1>3 DEF Min

\* The next entry is the first that is pending; what it passes over is dead.
LEMMA NextRung ==
  ASSUME IpmTypeOK, Pending # {}
  PROVE  /\ Min(Pending) \in Pending /\ Min(Pending) \in Nat
         /\ Ladder(ipmCall)[Min(Pending)].ruiz \in BOOLEAN
         /\ Ladder(ipmCall)[Min(Pending)].exp \in Int
         /\ ~dead[Ladder(ipmCall)[Min(Pending)].ruiz]
         /\ \A k \in DOMAIN Ladder(ipmCall) :
              k <= Min(Pending) => k <= rung \/ k = Min(Pending)
                                   \/ dead[Ladder(ipmCall)[k].ruiz]
<1>1. Pending \in SUBSET Nat
  BY LadderType DEF Pending, IpmTypeOK
<1>2. Min(Pending) \in Pending /\ \A y \in Pending : Min(Pending) <= y
  BY <1>1, LeastOfNaturals
<1>3. \A k \in DOMAIN Ladder(ipmCall) :
        k <= Min(Pending) => k <= rung \/ k = Min(Pending) \/ dead[Ladder(ipmCall)[k].ruiz]
  <2>1. SUFFICES ASSUME NEW k \in DOMAIN Ladder(ipmCall), k <= Min(Pending), ~(k <= rung),
                        ~dead[Ladder(ipmCall)[k].ruiz]
                 PROVE  k = Min(Pending)
    OBVIOUS
  <2>2. k \in Nat /\ rung \in Nat
    BY LadderType DEF IpmTypeOK
  <2>3. k \in Pending
    BY <2>1, <2>2 DEF Pending
  <2> QED
    BY <1>1, <1>2, <2>1, <2>3
<1> QED
  BY <1>1, <1>2, <1>3, LadderType DEF Pending, IpmTypeOK

-----------------------------------------------------------------------------
(* What one attempt does *)

\* What the properties remember of an attempt.
LEMMA NotedFields ==
  ASSUME IpmTypeOK, NEW where \in {"presolved", "original"}, NEW o \in OutcomeSet,
         NEW i \in Nat
  PROVE  LET n == Noted(where, o, i)
         IN  /\ n \in LogType
             /\ n.spent = log.spent + i /\ n.made = log.made
             /\ n.alike = log.alike /\ n.extended = log.extended
             /\ n.evidence = IF log.evidence = {} /\ (ProvesOptimal(o) \/ Final(o))
                             THEN {[where |-> where, of |-> o]} ELSE log.evidence
             /\ n.least = IF where = "presolved" /\ o.verdict = "none"
                          THEN {Min(log.least \cup {ScoreOf(o)})} ELSE log.least
             /\ n.capped <=> log.capped
                              \/ (where = "presolved" /\ o.term = "IterationLimit")
<1> DEFINE n == Noted(where, o, i)
<1>1. log \in LogType
  BY DEF IpmTypeOK
<1>2. /\ n.spent = log.spent + i /\ n.made = log.made
      /\ n.alike = log.alike /\ n.extended = log.extended
      /\ n.evidence = IF log.evidence = {} /\ (ProvesOptimal(o) \/ Final(o))
                      THEN {[where |-> where, of |-> o]} ELSE log.evidence
      /\ n.least = IF where = "presolved" /\ o.verdict = "none"
                   THEN {Min(log.least \cup {ScoreOf(o)})} ELSE log.least
      /\ n.capped = (log.capped \/ (where = "presolved" /\ o.term = "IterationLimit"))
  BY <1>1 DEF Noted, LogType
<1>3. ASSUME NEW a \in Nat, NEW d \in BOOLEAN, NEW c \in SUBSET Nat,
             NEW b \in SUBSET [where : {"presolved", "original"}, of : OutcomeSet]
      PROVE  [log EXCEPT !.spent = a, !.evidence = b, !.least = c, !.capped = d] \in LogType
  BY <1>1 DEF LogType
<1>4. Min(log.least \cup {ScoreOf(o)}) \in Nat
  <2>1. log.least \cup {ScoreOf(o)} \in SUBSET Nat
    BY <1>1, Scores DEF LogType
  <2> QED
    BY <2>1, LeastOfNaturals
<1>5. n.capped \in BOOLEAN
  BY <1>1, <1>2, Zenon DEF LogType
<1>6. n = [log EXCEPT !.spent = n.spent, !.evidence = n.evidence, !.least = n.least,
                       !.capped = n.capped]
  BY <1>1, <1>2 DEF Noted, LogType
<1> HIDE DEF n
<1>7. n.evidence \in SUBSET [where : {"presolved", "original"}, of : OutcomeSet]
  BY <1>1, <1>2 DEF LogType
<1>8. n.spent \in Nat /\ n.least \in SUBSET Nat
  BY <1>1, <1>2, <1>4 DEF LogType
<1>9. n \in LogType
  <2>1. [log EXCEPT !.spent = n.spent, !.evidence = n.evidence, !.least = n.least,
                    !.capped = n.capped] \in LogType
    BY <1>3, <1>5, <1>7, <1>8, Zenon
  <2> QED
    BY <1>6, <2>1, Zenon
<1> QED
  BY <1>2, <1>9 DEF n

\* An attempt on the presolved program replaces the best outcome by a proof that may,
\* or by a better candidate.
Taken(o) == IF ProvesOptimal(o) /\ MintMayReplace(best) THEN {o} ELSE Candidate(o)

\* One outcome is kept, the new one or the one before; a verified verdict is not
\* replaced, and replaces anything else.
LEMMA TakenIs ==
  ASSUME IpmTypeOK, NEW o \in OutcomeSet
  PROVE  /\ \E b \in OutcomeSet : Taken(o) = {b}
         /\ Taken(o) = {o} \/ (Taken(o) = best /\ best # {})
         /\ best = {} => Taken(o) = {o}
         /\ \A b \in best : Final(b) => Taken(o) = {b}
         /\ \A b \in best : Final(o) /\ ~Final(b) => Taken(o) = {o}
<1>1. CASE best = {}
  BY <1>1 DEF Taken, Candidate, MintMayReplace
<1>2. CASE best # {}
  <2>1. PICK b \in OutcomeSet : best = {b}
    BY <1>2 DEF IpmTypeOK
  <2>2. Taken(o) = {o} \/ Taken(o) = best
    BY <2>1 DEF Taken, Candidate
  <2>3. Final(b) => Taken(o) = {b}
    <3>1. ASSUME Final(b) PROVE ~MintMayReplace(best) /\ ~Better(o, b)
      BY <2>1, <3>1, Scores DEF MintMayReplace, Better
    <3> QED
      BY <2>1, <3>1 DEF Taken, Candidate
  <2>4. Final(o) /\ ~Final(b) => Taken(o) = {o}
    <3>1. ASSUME Final(o), ~Final(b) PROVE Better(o, b)
      BY <3>1, Scores DEF Better
    <3> QED
      BY <2>1, <3>1 DEF Taken, Candidate
  <2> QED
    BY <2>1, <2>2, <2>3, <2>4
<1> QED
  BY <1>1, <1>2

\* KeepsBest, of the outcome taken and the scores remembered.
LEMMA TakenKeepsBest ==
  ASSUME IpmTypeOK, KeepsBest, NEW o \in OutcomeSet, NEW i \in Nat,
         Noted("presolved", o, i).least # {}
  PROVE  \E b \in Taken(o) :
           Final(b) \/ (b.verdict = "none"
                          /\ \A s \in Noted("presolved", o, i).least : ScoreOf(b) <= s)
<1> DEFINE least == Noted("presolved", o, i).least
<1>1. least = IF o.verdict = "none" THEN {Min(log.least \cup {ScoreOf(o)})} ELSE log.least
  BY NotedFields
<1>2. ScoreOf(o) \in Nat /\ log.least \in SUBSET Nat
  BY Scores DEF IpmTypeOK, LogType
<1>3. ASSUME o.verdict = "none"
      PROVE  \A s \in least : /\ s \in Nat
                              /\ s = ScoreOf(o) \/ s \in log.least
                              /\ s <= ScoreOf(o)
  BY <1>1, <1>2, <1>3, LeastOfNaturals
<1>4. CASE log.least = {}
  <2>1. o.verdict = "none" /\ \A s \in least : s = ScoreOf(o)
    BY <1>1, <1>3, <1>4
  <2>2. CASE Taken(o) = {o}
    BY <1>2, <2>1, <2>2
  <2>3. CASE Taken(o) # {o}
    <3>1. PICK b \in OutcomeSet : best = {b} /\ Taken(o) = {b}
      BY <2>3, TakenIs DEF IpmTypeOK
    <3>2. ~Better(o, b) \/ Final(b)
      BY <2>3, <3>1, Scores DEF Taken, Candidate, MintMayReplace
    <3>3. b.verdict # "none" => Final(b)
      BY <2>1, <3>2 DEF Better
    <3>4. b.verdict = "none" => ScoreOf(b) <= ScoreOf(o) \/ Final(b)
      BY <1>2, <2>1, <3>2, Scores DEF Better
    <3> QED
      BY <2>1, <3>1, <3>3, <3>4
  <2> QED
    BY <2>2, <2>3
<1>5. CASE log.least # {}
  <2>1. PICK b \in best :
          Final(b) \/ (b.verdict = "none" /\ \A s \in log.least : ScoreOf(b) <= s)
    BY <1>5 DEF KeepsBest
  <2>2. b \in OutcomeSet /\ best = {b}
    BY DEF IpmTypeOK
  <2>3. ScoreOf(b) \in Nat
    BY <2>2, Scores
  <2>4. CASE Final(b)
    BY <2>2, <2>4, TakenIs
  <2>5. CASE ~Final(b) /\ Taken(o) = {o}
    <3>1. CASE o.verdict # "none"
      <4>1. ~ProvesOptimal(o)
        BY <3>1, Scores
      <4>2. CASE o = b
        BY <2>1, <2>5, <3>1, <4>2
      <4>3. CASE o # b
        <5>1. Candidate(o) = {o}
          BY <2>5, <4>1 DEF Taken
        <5>2. Better(o, b)
          BY <2>2, <4>3, <5>1 DEF Candidate
        <5> QED
          BY <2>5, <3>1, <5>2 DEF Better
      <4> QED
        BY <4>2, <4>3
    <3>2. CASE o.verdict = "none"
      <4>1. ScoreOf(o) <= ScoreOf(b)
        <5>1. CASE ProvesOptimal(o)
          BY <2>3, <5>1 DEF ProvesOptimal
        <5>2. CASE ~ProvesOptimal(o) /\ o # b
          <6>1. Better(o, b)
            BY <2>2, <2>5, <5>2 DEF Taken, Candidate
          <6> QED
            BY <1>2, <2>1, <2>3, <2>5, <3>2, <6>1 DEF Better
        <5>3. CASE o = b
          BY <2>3, <5>3
        <5> QED
          BY <5>1, <5>2, <5>3
      <4>2. \A s \in least : ScoreOf(o) <= s
        BY <1>2, <1>3, <2>1, <2>3, <2>5, <3>2, <4>1
      <4> QED
        BY <2>5, <3>2, <4>2
    <3> QED
      BY <3>1, <3>2
  <2>6. CASE ~Final(b) /\ Taken(o) = {b}
    <3>1. CASE o.verdict # "none"
      BY <1>1, <2>1, <2>6, <3>1
    <3>2. CASE o.verdict = "none"
      <4>1. ScoreOf(b) <= ScoreOf(o)
        <5>1. CASE o = b
          BY <1>2, <5>1
        <5>2. CASE o # b
          <6>1. ~Better(o, b)
            BY <2>2, <2>6, <5>2 DEF Taken, Candidate
          <6> QED
            BY <1>2, <2>1, <2>3, <2>6, <3>2, <6>1 DEF Better
        <5> QED
          BY <5>1, <5>2
      <4>2. \A s \in least : ScoreOf(b) <= s
        BY <1>2, <1>3, <2>1, <2>6, <3>2, <4>1
      <4> QED
        BY <2>1, <2>6, <4>2
    <3> QED
      BY <3>1, <3>2
  <2> QED
    BY <2>2, <2>4, <2>5, <2>6, TakenIs
<1> QED
  BY <1>4, <1>5

\* What is charged is what was used.
LEMMA ChargedIs ==
  ASSUME NEW granted \in Nat, NEW i \in Nat, i <= granted
  PROVE  Charged(i, granted) = i
<1>1. /\ Min({i, granted}) \in {i, granted}
      /\ Min({i, granted}) <= i /\ Min({i, granted}) <= granted
  <2>1. i \in Int /\ granted \in Int
    OBVIOUS
  <2> QED
    BY <2>1, LeastOfTwo, Zenon
<1> QED
  BY <1>1 DEF Charged

\* What the properties remember of an attempt of the ladder.
LEMMA NotedOnLadderFields ==
  ASSUME IpmTypeOK, NEW k \in Nat, Ladder(ipmCall)[k].ruiz \in BOOLEAN,
         NEW o \in OutcomeSet, NEW i \in Nat
  PROVE  /\ NotedOnLadder(k, o, i) \in LogType
         /\ NotedOnLadder(k, o, i).made = log.made \cup {k}
         /\ NotedOnLadder(k, o, i).spent = Noted("presolved", o, i).spent
         /\ NotedOnLadder(k, o, i).evidence = Noted("presolved", o, i).evidence
         /\ NotedOnLadder(k, o, i).least = Noted("presolved", o, i).least
         /\ NotedOnLadder(k, o, i).capped = Noted("presolved", o, i).capped
         /\ NotedOnLadder(k, o, i).extended = Noted("presolved", o, i).extended
         /\ \A l \in BOOLEAN :
              NotedOnLadder(k, o, i).alike[l] =
                IF l = Ladder(ipmCall)[k].ruiz THEN NextAlike(log.alike[l], o, i)
                ELSE log.alike[l]
<1> DEFINE n == Noted("presolved", o, i)
           lane == Ladder(ipmCall)[k].ruiz
           last == log.alike[lane]
           next == NextAlike(last, o, i)
<1>1. n \in LogType /\ n.made = log.made /\ n.alike = log.alike
  BY NotedFields
<1>2. last \in Marks \X Nat
  BY DEF IpmTypeOK, LogType
<1>3. next \in Marks \X Nat
  <2>1. NoMark \in Marks /\ [exp |-> 0, iters |-> i, point |-> o.point] \in Marks
    BY DEF NoMark, Marks, OutcomeSet
  <2> QED
    BY <1>2, <2>1 DEF NextAlike
<1>4. NotedOnLadder(k, o, i) =
        [n EXCEPT !.made = @ \cup {k}, !.alike[lane] = NextAlike(@, o, i)]
  BY DEF NotedOnLadder
<1> HIDE DEF n, last
<1>5. lane \in BOOLEAN
  OBVIOUS
<1> HIDE DEF lane
<1>6. NotedOnLadder(k, o, i) =
        [n EXCEPT !.made = log.made \cup {k}, !.alike = [log.alike EXCEPT ![lane] = next]]
  BY <1>1, <1>2, <1>4 DEF last
<1> HIDE DEF next
<1>7. [log.alike EXCEPT ![lane] = next] \in [BOOLEAN -> Marks \X Nat]
  BY <1>3, <1>5 DEF IpmTypeOK, LogType
<1>8. log.made \cup {k} \in SUBSET Nat
  BY DEF IpmTypeOK, LogType
<1>9. ASSUME NEW a \in SUBSET Nat, NEW b \in [BOOLEAN -> Marks \X Nat]
      PROVE  LET m == [n EXCEPT !.made = a, !.alike = b]
             IN  /\ m \in LogType /\ m.made = a /\ m.alike = b
                 /\ m.spent = n.spent /\ m.evidence = n.evidence /\ m.least = n.least
                 /\ m.capped = n.capped /\ m.extended = n.extended
  BY <1>1 DEF LogType
<1> DEFINE m == [n EXCEPT !.made = log.made \cup {k}, !.alike = [log.alike EXCEPT ![lane] = next]]
<1>10. /\ m \in LogType
       /\ m.made = log.made \cup {k} /\ m.alike = [log.alike EXCEPT ![lane] = next]
       /\ m.spent = n.spent /\ m.evidence = n.evidence /\ m.least = n.least
       /\ m.capped = n.capped /\ m.extended = n.extended
  BY <1>7, <1>8, <1>9, Zenon
<1>11. NotedOnLadder(k, o, i) = m
  BY <1>6
<1> HIDE DEF m
<1>12. /\ NotedOnLadder(k, o, i) \in LogType
       /\ NotedOnLadder(k, o, i).made = log.made \cup {k}
       /\ NotedOnLadder(k, o, i).spent = n.spent
       /\ NotedOnLadder(k, o, i).evidence = n.evidence
       /\ NotedOnLadder(k, o, i).least = n.least
       /\ NotedOnLadder(k, o, i).capped = n.capped
       /\ NotedOnLadder(k, o, i).extended = n.extended
  BY <1>10, <1>11, Zenon
<1>13. ASSUME NEW l \in BOOLEAN
       PROVE  NotedOnLadder(k, o, i).alike[l] = IF l = lane THEN next ELSE log.alike[l]
  BY <1>5, <1>10, <1>11 DEF IpmTypeOK, LogType
<1> QED
  BY <1>12, <1>13 DEF n, lane, last, next

-----------------------------------------------------------------------------
(* The first evidence and the best iterate are kept *)

\* An attempt on the presolved program, of the ladder or its extension.
LEMMA PresolvedAttempt ==
  ASSUME IpmInv, NEW o \in OutcomeSet, NEW i \in Nat,
         stage \in {"ladder", "extend"}, \A e \in log.evidence : ~ProvesOptimal(e.of),
         stage' \in {"ladder", "extend", "fallback"},
         ProvesOptimal(o) /\ MintMayReplace(best) => stage' # "ladder",
         best' = Taken(o), fallbacks' = fallbacks,
         log'.evidence = Noted("presolved", o, i).evidence,
         log'.least = Noted("presolved", o, i).least
  PROVE  /\ \E b \in OutcomeSet : best' = {b}
         /\ InOrder' /\ EvidenceKept' /\ KeepsBest' /\ FirstEvidenceDecides'
<1>1. PICK b \in OutcomeSet : best' = {b}
  BY TakenIs DEF IpmInv
<1>2. InOrder'
  BY DEF IpmInv, InOrder
<1>3. fallbacks' = 0
  BY DEF IpmInv, InOrder
<1>4. FirstEvidenceDecides'
  BY DEF FirstEvidenceDecides, Answered
<1>5. KeepsBest'
  <2>1. SUFFICES ASSUME log'.least # {}
                 PROVE  \E x \in best' :
                          Final(x) \/ (x.verdict = "none" /\ \A s \in log'.least : ScoreOf(x) <= s)
    BY DEF KeepsBest
  <2> QED
    BY <2>1, TakenKeepsBest DEF IpmInv
<1>6. EvidenceKept'
  <2> DEFINE new == [where |-> "presolved", of |-> o]
  <2>1. log'.evidence = IF log.evidence = {} /\ (ProvesOptimal(o) \/ Final(o))
                        THEN {new} ELSE log.evidence
    BY NotedFields DEF IpmInv
  <2>2. CASE log.evidence # {}
    <3>1. log'.evidence = log.evidence
      BY <2>1, <2>2
    <3>2. \A e \in log.evidence : e.where = "presolved" /\ Final(e.of) =>
            \E x \in best' : Final(x) /\ x.verdict = e.of.verdict
      BY TakenIs DEF IpmInv, EvidenceKept
    <3> QED
      BY <2>2, <3>1, <3>2 DEF IpmInv, EvidenceKept
  <2>3. CASE log.evidence = {} /\ ProvesOptimal(o)
    <3>1. MintMayReplace(best)
      BY <2>3 DEF IpmInv, EvidenceKept, MintMayReplace
    <3>2. best' = {o} /\ stage' \in {"extend", "fallback"}
      BY <2>3, <3>1 DEF Taken
    <3>3. ~Final(o)
      BY <2>3, Scores
    <3>4. log'.evidence = {new} /\ new.of = o
      BY <2>1, <2>3
    <3> HIDE DEF new
    <3> QED
      BY <1>3, <2>3, <3>2, <3>3, <3>4 DEF EvidenceKept
  <2>4. CASE log.evidence = {} /\ Final(o)
    <3>1. best' = {o}
      BY <2>4, TakenIs DEF IpmInv, EvidenceKept, IpmTypeOK
    <3>2. ~ProvesOptimal(o)
      BY <2>4, Scores
    <3>3. log'.evidence = {new} /\ new.of = o
      BY <2>1, <2>4
    <3> HIDE DEF new
    <3> QED
      BY <2>4, <3>1, <3>2, <3>3 DEF EvidenceKept
  <2>5. CASE log.evidence = {} /\ ~ProvesOptimal(o) /\ ~Final(o)
    <3>1. log'.evidence = {}
      BY <2>1, <2>5
    <3>2. best' = {o} \/ best' = best
      BY TakenIs DEF IpmInv
    <3> QED
      BY <2>5, <3>1, <3>2 DEF IpmInv, EvidenceKept
  <2> QED
    BY <2>2, <2>3, <2>4, <2>5
<1> QED
  BY <1>1, <1>2, <1>4, <1>5, <1>6

\* What an attempt is granted.
LEMMA Granted ==
  ASSUME IpmTypeOK, MayAttempt
  PROVE  Left \in Nat /\ Min({AttemptCap, Left}) \in Nat
<1>1. Left \in Nat
  BY AttemptAssumption DEF MayAttempt, Left, IpmTypeOK
<1>2. AttemptCap \in Nat
  BY AttemptAssumption
<1>3. {AttemptCap, Left} \in SUBSET Nat /\ {AttemptCap, Left} # {}
  BY <1>1, <1>2
<1>4. Min({AttemptCap, Left}) \in {AttemptCap, Left}
  BY <1>3, LeastOfNaturals
<1> QED
  BY <1>1, <1>2, <1>4

\* While a step runs the flags stay Boolean.
LEMMA MeanwhileType ==
  ASSUME IpmTypeOK, Meanwhile
  PROVE  late' \in BOOLEAN /\ cancelled' \in BOOLEAN
<1>1. ipmCall.timed \in BOOLEAN /\ ipmCall.cancellable \in BOOLEAN
  BY AttemptAssumption DEF IpmTypeOK
<1> QED
  BY <1>1, Zenon DEF IpmTypeOK, Meanwhile

\* The marks of the two lanes keep their types.
LEMMA LanesType ==
  ASSUME IpmTypeOK, NEW k \in Nat, Ladder(ipmCall)[k].ruiz \in BOOLEAN,
         Ladder(ipmCall)[k].exp \in Int, NEW o \in OutcomeSet, NEW i \in Nat,
         Lanes(Ladder(ipmCall)[k], o, i)
  PROVE  /\ prev' \in [BOOLEAN -> Marks] /\ runLen' \in [BOOLEAN -> Nat]
         /\ dead' \in [BOOLEAN -> BOOLEAN]
<1> DEFINE cfg == Ladder(ipmCall)[k]
<1>1. Fingerprint(cfg, o, i) \in Marks
  BY DEF Fingerprint, Marks, OutcomeSet
<1> HIDE DEF cfg
<1>2. prev' \in [BOOLEAN -> Marks]
  BY <1>1 DEF IpmTypeOK, Lanes, cfg
<1>3. runLen' \in [BOOLEAN -> Nat]
  BY DEF IpmTypeOK, Lanes
<1>4. dead' \in [BOOLEAN -> BOOLEAN]
  <2>1. dead' = [dead EXCEPT ![cfg.ruiz] = dead[cfg.ruiz] \/ runLen'[cfg.ruiz] >= SameToStop]
    BY DEF Lanes, cfg
  <2>2. (dead[cfg.ruiz] \/ runLen'[cfg.ruiz] >= SameToStop) \in BOOLEAN
    BY Zenon
  <2> QED
    BY <2>1, <2>2, Zenon DEF IpmTypeOK
<1> QED
  BY <1>2, <1>3, <1>4

\* An entry of the ladder.
LEMMA AttemptStep == IpmInv /\ Attempt => IpmInv'
<1> SUFFICES ASSUME IpmInv, Attempt PROVE IpmInv'
  OBVIOUS
<1>1. IpmTypeOK /\ stage = "ladder" /\ Pending # {} /\ MayAttempt /\ Meanwhile
  BY DEF IpmInv, Attempt
<1>5. PICK k \in Nat : /\ k = Min(Pending)
                      /\ Ladder(ipmCall)[k].ruiz \in BOOLEAN
                      /\ Ladder(ipmCall)[k].exp \in Int
  BY <1>1, NextRung
<1> DEFINE cfg == Ladder(ipmCall)[k]
           granted == Min({AttemptCap, Left})
<1>2. PICK e \in Ends(granted, late' \/ cancelled') :
        /\ rung' = k
        /\ used' = used + Charged(e[2], granted)
        /\ progress' = IF e[1].term = "IterationLimit" /\ \A s \in progress : ScoreOf(e[1]) < s
                       THEN {ScoreOf(e[1])} ELSE progress
        /\ IF ProvesOptimal(e[1]) /\ MintMayReplace(best)
           THEN best' = {e[1]} /\ stage' = "extend" /\ UNCHANGED laneVars
           ELSE /\ best' = Candidate(e[1])
                /\ Lanes(cfg, e[1], e[2])
                /\ stage' = IF \A l \in BOOLEAN : dead'[l] THEN "extend" ELSE "ladder"
        /\ log' = NotedOnLadder(k, e[1], e[2])
  BY <1>5 DEF Attempt
<1>3. ipmCall' = ipmCall /\ fallbacks' = fallbacks
  BY DEF Attempt
<1> DEFINE o == e[1]
           i == e[2]
           n == Noted("presolved", o, i)
<1>4. granted \in Nat
  BY <1>1, Granted
<1> HIDE DEF granted
<1>6. o \in OutcomeSet /\ i \in Nat /\ i <= granted
  BY <1>2, <1>4, EndsType
<1>7. used' = used + i
  BY <1>2, <1>4, <1>6, ChargedIs
<1> HIDE DEF o, i
<1>8. /\ n \in LogType /\ n.spent = log.spent + i
      /\ log' \in LogType /\ log'.spent = n.spent
      /\ log'.evidence = n.evidence /\ log'.least = n.least
  <2>1. log' = NotedOnLadder(k, o, i)
    BY <1>2 DEF o, i
  <2>2. n \in LogType /\ n.spent = log.spent + i
    BY <1>1, <1>6, NotedFields
  <2>3. /\ NotedOnLadder(k, o, i) \in LogType
        /\ NotedOnLadder(k, o, i).spent = n.spent
        /\ NotedOnLadder(k, o, i).evidence = n.evidence
        /\ NotedOnLadder(k, o, i).least = n.least
    <3>1. IpmTypeOK /\ k \in Nat /\ Ladder(ipmCall)[k].ruiz \in BOOLEAN
          /\ o \in OutcomeSet /\ i \in Nat
      BY <1>1, <1>5, <1>6
    <3> QED
      BY <3>1, NotedOnLadderFields, ZenonT(60)
  <2> QED
    BY <2>1, <2>2, <2>3
<1>9. best' = Taken(o)
  BY <1>2 DEF Taken, o
<1>10. /\ stage' \in {"ladder", "extend"}
       /\ ProvesOptimal(o) /\ MintMayReplace(best) => stage' # "ladder"
  BY <1>2 DEF o
<1>11. \A x \in log.evidence : ~ProvesOptimal(x.of)
  BY <1>1 DEF IpmInv, EvidenceKept
<1>12. /\ \E b \in OutcomeSet : best' = {b}
       /\ InOrder' /\ EvidenceKept' /\ KeepsBest' /\ FirstEvidenceDecides'
  BY <1>1, <1>3, <1>6, <1>8, <1>9, <1>10, <1>11, PresolvedAttempt
<1>13. SpentIsUsed'
  BY <1>7, <1>8 DEF IpmInv, SpentIsUsed
<1>14. /\ prev' \in [BOOLEAN -> Marks] /\ runLen' \in [BOOLEAN -> Nat]
       /\ dead' \in [BOOLEAN -> BOOLEAN]
  <2>1. CASE ProvesOptimal(o) /\ MintMayReplace(best)
    BY <1>1, <1>2, <2>1 DEF IpmTypeOK, laneVars, o
  <2>2. CASE ~(ProvesOptimal(o) /\ MintMayReplace(best))
    <3>1. Lanes(cfg, o, i)
      BY <1>2, <2>2 DEF o, i
    <3> QED
      BY <1>1, <1>5, <1>6, <3>1, LanesType
  <2> QED
    BY <2>1, <2>2
<1>15. progress' \subseteq Nat
  BY <1>1, <1>2, <1>6, Scores DEF IpmTypeOK, o
<1>16. late' \in BOOLEAN /\ cancelled' \in BOOLEAN
  BY <1>1, MeanwhileType
<1>17. rung' \in Nat /\ used' \in Nat
  BY <1>1, <1>2, <1>5, <1>6, <1>7 DEF IpmTypeOK
<1>18. IpmTypeOK'
  BY <1>1, <1>3, <1>8, <1>10, <1>12, <1>14, <1>15, <1>16, <1>17 DEF IpmTypeOK
<1> QED
  BY <1>12, <1>13, <1>18 DEF IpmInv

\* The extension.
LEMMA ExtendStep == IpmInv /\ Extend => IpmInv'
<1> SUFFICES ASSUME IpmInv, Extend PROVE IpmInv'
  OBVIOUS
<1>1. IpmTypeOK /\ stage = "extend" /\ MayExtend /\ Meanwhile
  BY DEF IpmInv, Extend
<1>2. PICK e \in Ends(Left, late' \/ cancelled') :
        /\ used' = used + Charged(e[2], Left)
        /\ best' = IF ProvesOptimal(e[1]) /\ MintMayReplace(best)
                   THEN {e[1]} ELSE Candidate(e[1])
        /\ log' = [Noted("presolved", e[1], e[2]) EXCEPT !.extended = TRUE]
  BY DEF Extend
<1>3. stage' = "fallback" /\ UNCHANGED <<ipmCall, rung, progress, laneVars, fallbacks, reply>>
  BY DEF Extend
<1> DEFINE o == e[1]
           i == e[2]
           n == Noted("presolved", o, i)
<1>4. Left \in Nat
  BY <1>1, Granted DEF MayExtend
<1>5. o \in OutcomeSet /\ i \in Nat /\ i <= Left
  BY <1>2, <1>4, EndsType
<1>6. used' = used + i
  BY <1>2, <1>4, <1>5, ChargedIs
<1> HIDE DEF o, i
<1>7. /\ n \in LogType /\ n.spent = log.spent + i
  BY <1>1, <1>5, NotedFields
<1>8. /\ log' \in LogType /\ log'.spent = n.spent
      /\ log'.evidence = n.evidence /\ log'.least = n.least
  <2>1. log' = [n EXCEPT !.extended = TRUE]
    BY <1>2 DEF o, i
  <2> HIDE DEF n
  <2> QED
    BY <1>7, <2>1 DEF LogType
<1>9. best' = Taken(o)
  BY <1>2 DEF Taken, o
<1>10. \A x \in log.evidence : ~ProvesOptimal(x.of)
  BY <1>1 DEF IpmInv, EvidenceKept, MayExtend, BestProven
<1>11. /\ \E b \in OutcomeSet : best' = {b}
       /\ InOrder' /\ EvidenceKept' /\ KeepsBest' /\ FirstEvidenceDecides'
  BY <1>1, <1>3, <1>5, <1>8, <1>9, <1>10, PresolvedAttempt
<1>12. SpentIsUsed'
  BY <1>6, <1>7, <1>8 DEF IpmInv, SpentIsUsed
<1>13. late' \in BOOLEAN /\ cancelled' \in BOOLEAN
  BY <1>1, MeanwhileType
<1>14. used' \in Nat
  BY <1>1, <1>5, <1>6 DEF IpmTypeOK
<1>15. IpmTypeOK'
  BY <1>1, <1>3, <1>8, <1>11, <1>13, <1>14 DEF IpmTypeOK, laneVars
<1> QED
  BY <1>11, <1>12, <1>15 DEF IpmInv

\* An attempt without presolve.
LEMMA FallBackStep == IpmInv /\ FallBack => IpmInv'
<1> SUFFICES ASSUME IpmInv, FallBack PROVE IpmInv'
  OBVIOUS
<1> DEFINE granted == Min({AttemptCap, Left})
<1>1. IpmTypeOK /\ stage = "fallback" /\ MayFallBack /\ MayAttempt /\ Meanwhile
  BY DEF IpmInv, FallBack, MayFallBack
<1>2. PICK e \in Ends(granted, late' \/ cancelled') :
        /\ used' = used + Charged(e[2], granted)
        /\ IF ProvesOptimal(e[1]) /\ MintMayReplace(best)
           THEN best' = {e[1]} /\ stage' = "finalize"
           ELSE /\ best' = {IF FallbackReplaces(e[1], old) THEN e[1] ELSE old : old \in best}
                /\ UNCHANGED stage
        /\ log' = Noted("original", e[1], e[2])
  BY DEF FallBack
<1>3. fallbacks' = fallbacks + 1 /\ UNCHANGED <<ipmCall, rung, progress, laneVars, reply>>
  BY DEF FallBack
<1> DEFINE o == e[1]
           i == e[2]
           n == Noted("original", o, i)
<1>4. granted \in Nat
  BY <1>1, Granted
<1> HIDE DEF granted
<1>5. o \in OutcomeSet /\ i \in Nat /\ i <= granted
  BY <1>2, <1>4, EndsType
<1>6. used' = used + i
  BY <1>2, <1>4, <1>5, ChargedIs
<1> HIDE DEF o, i
<1>7. /\ log' \in LogType /\ log'.spent = log.spent + i
      /\ log'.evidence = IF log.evidence = {} /\ (ProvesOptimal(o) \/ Final(o))
                         THEN {[where |-> "original", of |-> o]} ELSE log.evidence
      /\ log'.least = log.least
  <2>1. log' = n
    BY <1>2 DEF o, i
  <2>2. /\ n \in LogType /\ n.spent = log.spent + i
        /\ n.evidence = IF log.evidence = {} /\ (ProvesOptimal(o) \/ Final(o))
                        THEN {[where |-> "original", of |-> o]} ELSE log.evidence
        /\ n.least = log.least
    BY <1>1, <1>5, NotedFields
  <2> QED
    BY <2>1, <2>2, Zenon
<1>8. \A x \in log.evidence : ~ProvesOptimal(x.of)
  <2>1. SUFFICES ASSUME NEW x \in log.evidence, ProvesOptimal(x.of) PROVE FALSE
    OBVIOUS
  <2>2. fallbacks = 0 /\ BestProven
    BY <1>1, <2>1 DEF IpmInv, EvidenceKept, BestProven
  <2> QED
    BY <1>1, <2>2 DEF MayFallBack
<1>9. CASE ProvesOptimal(o) /\ MintMayReplace(best)
  <2>1. best' = {o} /\ stage' = "finalize"
    BY <1>2, <1>9 DEF o
  <2>2. o.verdict = "none" /\ ~Final(o) /\ ScoreOf(o) = 0
    BY <1>5, <1>9, Scores DEF ProvesOptimal
  <2>3. KeepsBest'
    <3>1. log.least \in SUBSET Nat
      BY <1>1 DEF IpmTypeOK, LogType
    <3>2. \A s \in log'.least : ScoreOf(o) <= s
      BY <1>7, <2>2, <3>1
    <3> QED
      BY <2>1, <2>2, <3>2 DEF KeepsBest
  <2>4. EvidenceKept'
    <3>1. \A x \in log.evidence : x.where = "presolved" => ~Final(x.of)
      BY <1>9 DEF IpmInv, EvidenceKept, MintMayReplace
    <3>2. CASE log.evidence = {}
      <4> DEFINE new == [where |-> "original", of |-> o]
      <4>1. log'.evidence = {new} /\ new.of = o /\ new.where = "original"
        BY <1>7, <1>9, <3>2
      <4> HIDE DEF new
      <4> QED
        BY <1>9, <2>1, <4>1 DEF EvidenceKept
    <3>3. CASE log.evidence # {}
      BY <1>7, <1>8, <2>1, <3>1, <3>3 DEF IpmInv, EvidenceKept
    <3> QED
      BY <3>2, <3>3
  <2>5. InOrder' /\ FirstEvidenceDecides' /\ SpentIsUsed'
    BY <1>6, <1>7, <2>1 DEF IpmInv, InOrder, FirstEvidenceDecides, Answered, SpentIsUsed
  <2>6. late' \in BOOLEAN /\ cancelled' \in BOOLEAN
    BY <1>1, MeanwhileType
  <2>7. IpmTypeOK'
    BY <1>1, <1>3, <1>5, <1>6, <1>7, <2>1, <2>6 DEF IpmTypeOK, laneVars
  <2> QED
    BY <2>3, <2>4, <2>5, <2>7 DEF IpmInv
<1>10. CASE ~(ProvesOptimal(o) /\ MintMayReplace(best))
  <2>1. /\ best' = {IF FallbackReplaces(o, old) THEN o ELSE old : old \in best}
        /\ stage' = "fallback"
    BY <1>1, <1>2, <1>10 DEF o
  <2>2. /\ best = {} => best' = {}
        /\ \A b : best = {b} => best' = {IF FallbackReplaces(o, b) THEN o ELSE b}
    BY <2>1
  <2>3. best' = {} \/ \E b \in OutcomeSet : best' = {b}
    BY <1>1, <1>5, <2>2 DEF IpmTypeOK
  <2>4. KeepsBest'
    <3>1. SUFFICES ASSUME log.least # {}
                   PROVE  \E x \in best' :
                            \/ Final(x)
                            \/ x.verdict = "none" /\ \A s \in log.least : ScoreOf(x) <= s
      BY <1>7 DEF KeepsBest
    <3>2. PICK b \in best :
            Final(b) \/ (b.verdict = "none" /\ \A s \in log.least : ScoreOf(b) <= s)
      BY <3>1 DEF IpmInv, KeepsBest
    <3>3. b \in OutcomeSet /\ best = {b} /\ log.least \in SUBSET Nat
      BY <1>1, <3>2 DEF IpmTypeOK, LogType
    <3>4. CASE ~FallbackReplaces(o, b)
      BY <2>2, <3>2, <3>3, <3>4
    <3>5. CASE FallbackReplaces(o, b)
      <4>1. best' = {o} /\ Better(o, b) /\ ~Final(b)
        BY <2>2, <3>3, <3>5 DEF FallbackReplaces
      <4>2. ScoreOf(o) \in Nat /\ ScoreOf(b) \in Nat
        BY <1>5, <3>3, Scores
      <4>3. Final(o) \/ (o.verdict = "none" /\ ScoreOf(o) <= ScoreOf(b))
        BY <3>2, <4>1, <4>2 DEF Better
      <4> QED
        BY <3>2, <3>3, <4>1, <4>2, <4>3
    <3> QED
      BY <3>4, <3>5
  <2>5. EvidenceKept'
    <3>1. CASE log.evidence # {}
      <4>1. log'.evidence = log.evidence
        BY <1>7, <3>1
      <4>2. \A x \in log.evidence : x.where = "presolved" /\ Final(x.of) =>
              \E b \in best' : Final(b) /\ b.verdict = x.of.verdict
        <5>1. SUFFICES ASSUME NEW x \in log.evidence, x.where = "presolved", Final(x.of)
                       PROVE  \E b \in best' : Final(b) /\ b.verdict = x.of.verdict
          OBVIOUS
        <5>2. PICK b \in best : Final(b) /\ b.verdict = x.of.verdict
          BY <5>1 DEF IpmInv, EvidenceKept
        <5>3. best = {b}
          BY <1>1, <5>2 DEF IpmTypeOK
        <5>4. ~FallbackReplaces(o, b)
          BY <5>2 DEF FallbackReplaces
        <5>5. best' = {b}
          BY <2>2, <5>3, <5>4
        <5> QED
          BY <5>2, <5>5
      <4> QED
        BY <1>8, <3>1, <4>1, <4>2 DEF IpmInv, EvidenceKept
    <3>2. CASE log.evidence = {}
      <4>1. MintMayReplace(best)
        BY <3>2 DEF IpmInv, EvidenceKept, MintMayReplace
      <4>2. ~ProvesOptimal(o)
        BY <1>10, <4>1
      <4>3. CASE Final(o)
        <5> DEFINE new == [where |-> "original", of |-> o]
        <5>1. log'.evidence = {new} /\ new.of = o /\ new.where = "original"
          BY <1>7, <3>2, <4>3
        <5> HIDE DEF new
        <5> QED
          BY <4>2, <4>3, <5>1 DEF EvidenceKept
      <4>4. CASE ~Final(o)
        <5>1. log'.evidence = {}
          BY <1>7, <3>2, <4>2, <4>4
        <5>2. \A b \in best' : b = o \/ b \in best
          BY <2>1
        <5> QED
          BY <3>2, <4>2, <4>4, <5>1, <5>2 DEF IpmInv, EvidenceKept
      <4> QED
        BY <4>3, <4>4
    <3> QED
      BY <3>1, <3>2
  <2>6. InOrder' /\ FirstEvidenceDecides' /\ SpentIsUsed'
    BY <1>6, <1>7, <2>1 DEF IpmInv, InOrder, FirstEvidenceDecides, Answered, SpentIsUsed
  <2>7. late' \in BOOLEAN /\ cancelled' \in BOOLEAN
    BY <1>1, MeanwhileType
  <2>8. IpmTypeOK'
    BY <1>1, <1>3, <1>5, <1>6, <1>7, <2>1, <2>3, <2>7 DEF IpmTypeOK, laneVars
  <2> QED
    BY <2>4, <2>5, <2>6, <2>8 DEF IpmInv
<1> QED
  BY <1>9, <1>10

\* finalize_outcome: a proof is answered as one, and so is a verified verdict unless
\* the solve was stopped.
LEMMA StatusOfEvidence ==
  ASSUME NEW o \in OutcomeSet
  PROVE  /\ ProvesOptimal(o) => StatusOf(o) = "Optimal"
         /\ Final(o) => StatusOf(o) = IF IpmStopped THEN "Timeout" ELSE o.verdict
<1>1. ASSUME ProvesOptimal(o) PROVE StatusOf(o) = "Optimal"
  <2>1. /\ o.point \in Satisfying /\ Score[o.point] = 0 /\ o.verdict = "none"
        /\ ~o.failed /\ ~Final(o) /\ o.point # NoIterate
    BY <1>1, Scores, AttemptAssumption
  <2> QED
    BY <2>1 DEF StatusOf
<1>2. ASSUME Final(o) PROVE StatusOf(o) = IF IpmStopped THEN "Timeout" ELSE o.verdict
  <2>1. /\ o.verdict # "none" /\ o.point = NoIterate /\ ~o.failed
        /\ NoIterate \notin Satisfying /\ NoIterate \notin Iterates
    BY <1>2, Scores, AttemptAssumption
  <2>2. CASE IpmStopped
    BY <1>2, <2>1, <2>2 DEF StatusOf
  <2>3. CASE ~IpmStopped
    BY <1>2, <2>1, <2>3 DEF StatusOf
  <2> QED
    BY <2>2, <2>3
<1> QED
  BY <1>1, <1>2

\* The answer.
LEMMA FinalizeStep == IpmInv /\ Finalize => IpmInv'
<1> SUFFICES ASSUME IpmInv, Finalize PROVE IpmInv'
  OBVIOUS
<1>1. /\ stage = "finalize" /\ stage' = "answered"
      /\ UNCHANGED <<ipmCall, rung, best, progress, used, laneVars, fallbacks, late,
                     cancelled, log>>
  BY DEF Finalize, Reply
<1>2. IpmTypeOK' /\ SpentIsUsed' /\ InOrder' /\ KeepsBest'
  BY <1>1 DEF IpmInv, IpmTypeOK, SpentIsUsed, InOrder, KeepsBest, laneVars
<1>3. EvidenceKept'
  BY <1>1 DEF IpmInv, EvidenceKept
<1>4. FirstEvidenceDecides'
  <2>1. ASSUME NEW b \in best
        PROVE  b \in OutcomeSet /\ reply'.status = StatusOf(b) /\ reply'.point = b.point
    <3>1. b \in OutcomeSet /\ best = {b}
      BY DEF IpmInv, IpmTypeOK
    <3>2. (CHOOSE x \in best : TRUE) = b /\ best # {}
      BY <3>1
    <3> QED
      BY <3>1, <3>2 DEF Finalize, Reply
  <2>2. ASSUME NEW e \in log.evidence, ProvesOptimal(e.of)
        PROVE  reply'.status = "Optimal" /\ Score[reply'.point] = 0
    <3>1. PICK b \in best : ProvesOptimal(b)
      BY <2>2 DEF IpmInv, EvidenceKept
    <3> QED
      BY <2>1, <3>1, Scores, StatusOfEvidence
  <2>3. ASSUME NEW e \in log.evidence, e.where = "presolved", Final(e.of)
        PROVE  reply'.status = IF IpmStopped THEN "Timeout" ELSE e.of.verdict
    <3>1. PICK b \in best : Final(b) /\ b.verdict = e.of.verdict
      BY <2>3 DEF IpmInv, EvidenceKept
    <3> QED
      BY <2>1, <3>1, StatusOfEvidence
  <2>4. IpmStopped' <=> IpmStopped
    BY <1>1 DEF IpmStopped
  <2> QED
    BY <1>1, <2>2, <2>3, <2>4 DEF FirstEvidenceDecides
<1> QED
  BY <1>2, <1>3, <1>4 DEF IpmInv

\* Steps that attempt nothing.
LEMMA QuietSteps ==
  ASSUME IpmInv, PresolveQp \/ LadderOver \/ NothingToExtend \/ NoFallBack
  PROVE  IpmInv'
<1>1. CASE PresolveQp
  <2>1. /\ stage = "presolve" /\ stage' \in {"ladder", "answered"} /\ Meanwhile
        /\ UNCHANGED <<ipmCall, rung, best, progress, used, laneVars, fallbacks, log>>
    BY <1>1 DEF PresolveQp, Reply
  <2>2. log.evidence = {}
    BY <2>1 DEF IpmInv, InOrder
  <2>3. late' \in BOOLEAN /\ cancelled' \in BOOLEAN
    BY <2>1, MeanwhileType DEF IpmInv
  <2>4. IpmTypeOK' /\ SpentIsUsed' /\ KeepsBest'
    BY <2>1, <2>3 DEF IpmInv, IpmTypeOK, SpentIsUsed, KeepsBest, laneVars
  <2>5. InOrder' /\ FirstEvidenceDecides'
    BY <2>1, <2>2 DEF IpmInv, InOrder, FirstEvidenceDecides
  <2>6. EvidenceKept'
    BY <2>1, <2>2 DEF IpmInv, EvidenceKept
  <2> QED
    BY <2>4, <2>5, <2>6 DEF IpmInv
<1>2. CASE LadderOver \/ NothingToExtend \/ NoFallBack
  <2>1. /\ \/ stage = "ladder" /\ stage' = "extend"
           \/ stage = "extend" /\ stage' = "fallback"
           \/ stage = "fallback" /\ stage' = "finalize"
        /\ UNCHANGED <<ipmCall, rung, best, progress, used, laneVars, fallbacks, late,
                       cancelled, reply, log>>
    BY <1>2 DEF LadderOver, NothingToExtend, NoFallBack
  <2>2. IpmTypeOK' /\ SpentIsUsed' /\ KeepsBest'
    BY <2>1 DEF IpmInv, IpmTypeOK, SpentIsUsed, KeepsBest, laneVars
  <2>3. InOrder' /\ FirstEvidenceDecides'
    BY <2>1 DEF IpmInv, InOrder, FirstEvidenceDecides, Answered
  <2>4. EvidenceKept'
    BY <2>1 DEF IpmInv, EvidenceKept, InOrder
  <2> QED
    BY <2>2, <2>3, <2>4 DEF IpmInv
<1> QED
  BY <1>1, <1>2

\* The invariant of the attempts holds when a solve begins.
LEMMA IpmInitOK == IpmInit => IpmInv
<1> SUFFICES ASSUME IpmInit PROVE IpmInv
  OBVIOUS
<1>1. NoMark \in Marks
  BY DEF NoMark, Marks
<1>2. log \in LogType
  BY <1>1 DEF IpmInit, LogType
<1>3. IpmTypeOK
  BY <1>1, <1>2 DEF IpmInit, IpmTypeOK
<1>4. /\ log.evidence = {} /\ log.least = {} /\ log.spent = 0 /\ used = 0 /\ best = {}
      /\ stage = "presolve" /\ fallbacks = 0
  BY DEF IpmInit
<1>5. SpentIsUsed /\ InOrder /\ EvidenceKept /\ KeepsBest /\ FirstEvidenceDecides
  BY <1>4 DEF SpentIsUsed, InOrder, EvidenceKept, KeepsBest, FirstEvidenceDecides
<1> QED
  BY <1>3, <1>5 DEF IpmInv

\* Every step keeps it.
LEMMA IpmStepOK == IpmInv /\ [IpmNext]_ipmVars => IpmInv'
<1> SUFFICES ASSUME IpmInv, [IpmNext]_ipmVars PROVE IpmInv'
  OBVIOUS
<1>1. CASE UNCHANGED ipmVars
  <2>1. UNCHANGED <<ipmCall, stage, rung, best, progress, used, prev, runLen, dead,
                    fallbacks, late, cancelled, reply, log>>
    BY <1>1 DEF ipmVars, laneVars
  <2>2. IpmTypeOK' /\ SpentIsUsed' /\ InOrder' /\ EvidenceKept' /\ KeepsBest'
    BY <2>1 DEF IpmInv, IpmTypeOK, SpentIsUsed, InOrder, EvidenceKept, KeepsBest
  <2>3. FirstEvidenceDecides'
    BY <2>1 DEF IpmInv, FirstEvidenceDecides, Answered, IpmStopped
  <2> QED
    BY <2>2, <2>3 DEF IpmInv
<1>2. CASE PresolveQp \/ LadderOver \/ NothingToExtend \/ NoFallBack
  BY <1>2, QuietSteps
<1>3. CASE Attempt
  BY <1>3, AttemptStep
<1>4. CASE Extend
  BY <1>4, ExtendStep
<1>5. CASE FallBack
  BY <1>5, FallBackStep
<1>6. CASE Finalize
  BY <1>6, FinalizeStep
<1> QED
  BY <1>1, <1>2, <1>3, <1>4, <1>5, <1>6 DEF IpmNext

\* It holds of every behaviour.
LEMMA IpmInvariant == IpmSpec => []IpmInv
  BY IpmInitOK, IpmStepOK, PTL DEF IpmSpec

\* No iterate is lost, whatever the attempts end in: the best outcome is at least as good
\* as every iterate the presolved program led to, unless it is a verified verdict.
THEOREM NoIterateLost == IpmSpec => []KeepsBest
<1>1. IpmInv => KeepsBest
  BY DEF IpmInv
<1> QED
  BY <1>1, IpmInvariant, PTL

\* The first proof, or the first verified verdict of the presolved program, decides the
\* answer, whatever the attempts after it end in and whenever the solve is stopped.
THEOREM EvidenceDecides == IpmSpec => []FirstEvidenceDecides
<1>1. IpmInv => FirstEvidenceDecides
  BY DEF IpmInv
<1> QED
  BY <1>1, IpmInvariant, PTL

-----------------------------------------------------------------------------
(* The solve gives up for a cause: a second inductive invariant *)

\* What ends the attempts by itself.
OutOfReach == late \/ used >= ipmCall.maxIter \/ BestProven

\* Every entry of the ladder was tried, or follows equal attempts of its own lane.
LadderTried ==
  \A k \in DOMAIN Ladder(ipmCall) \ log.made :
    log.alike[Ladder(ipmCall)[k].ruiz][2] >= SameToStop

CutContinued == log.capped /\ ipmCall.timed => log.extended

\* The code compares an attempt with the one before, in accuracy too; the properties
\* count the attempts that end alike.  The first is never more than the second.
LaneMarks ==
  /\ \A l \in BOOLEAN :
       /\ runLen[l] <= log.alike[l][2]
       /\ runLen[l] > 0 => /\ log.alike[l][1].iters = prev[l].iters
                           /\ log.alike[l][1].point = prev[l].point
       /\ dead[l] => log.alike[l][2] >= SameToStop
  /\ \A k \in DOMAIN Ladder(ipmCall) :
       k <= rung => k \in log.made \/ dead[Ladder(ipmCall)[k].ruiz]

CauseInv ==
  /\ fallbacks <= 2
  /\ stage \in {"presolve", "ladder"} => LaneMarks /\ ~BestProven
  /\ stage \in {"presolve", "ladder", "extend"} => (log.capped => progress # {})
  /\ stage = "fallback" /\ fallbacks > 0 => ~BestProven
  /\ stage = "extend" => OutOfReach \/ LadderTried
  /\ stage = "fallback" => OutOfReach \/ (LadderTried /\ CutContinued)
  /\ stage = "finalize" =>
       \/ OutOfReach
       \/ /\ LadderTried /\ CutContinued
          /\ ipmCall.scaled /\ ipmCall.small => fallbacks = 2
  /\ GivesUpForCause

\* A candidate that is not a proof at once is none later.
LEMMA CandidateUnproven ==
  ASSUME IpmTypeOK, ~BestProven, NEW o \in OutcomeSet,
         ~(ProvesOptimal(o) /\ MintMayReplace(best))
  PROVE  /\ \A b \in Candidate(o) : ~ProvesOptimal(b)
         /\ \A old \in best : FallbackReplaces(o, old) => ~ProvesOptimal(o)
<1>1. CASE ~ProvesOptimal(o)
  BY <1>1 DEF Candidate, BestProven
<1>2. CASE ProvesOptimal(o)
  <2>1. PICK b \in best : Final(b)
    BY <1>2 DEF MintMayReplace
  <2>2. best = {b}
    BY <2>1 DEF IpmTypeOK
  <2>3. o.verdict = "none" /\ b.verdict # "none"
    BY <1>2, <2>1, Scores DEF Final
  <2>4. ~Better(o, b) /\ ~FallbackReplaces(o, b)
    BY <2>1, <2>3 DEF Better, FallbackReplaces
  <2> QED
    BY <2>2, <2>4 DEF Candidate, BestProven
<1> QED
  BY <1>1, <1>2

\* One more attempt in a live lane.
LEMMA LaneMarksKept ==
  ASSUME IpmTypeOK, LaneMarks, Pending # {}, NEW k \in Nat, k = Min(Pending), rung' = k,
         NEW o \in OutcomeSet, NEW i \in Nat,
         Lanes(Ladder(ipmCall)[k], o, i), log' = NotedOnLadder(k, o, i), ipmCall' = ipmCall
  PROVE  LaneMarks'
<1> DEFINE lane == Ladder(ipmCall)[k].ruiz
<1>1. /\ lane \in BOOLEAN /\ ~dead[lane]
      /\ \A j \in DOMAIN Ladder(ipmCall) :
           j <= k => j <= rung \/ j = k \/ dead[Ladder(ipmCall)[j].ruiz]
  BY NextRung
<1>2. /\ log'.made = log.made \cup {k}
      /\ \A l \in BOOLEAN :
           log'.alike[l] = IF l = lane THEN NextAlike(log.alike[l], o, i) ELSE log.alike[l]
  BY <1>1, NotedOnLadderFields
<1>3. /\ prev' = [prev EXCEPT ![lane] = Fingerprint(Ladder(ipmCall)[k], o, i)]
      /\ runLen' = [runLen EXCEPT ![lane] =
                      IF o.term = "Converged" THEN 0
                      ELSE IF SameAsBefore(Ladder(ipmCall)[k], o, i) THEN runLen[lane] + 1
                      ELSE 1]
      /\ dead' = [dead EXCEPT ![lane] = dead[lane] \/ runLen'[lane] >= SameToStop]
  BY DEF Lanes
<1>4. Fingerprint(Ladder(ipmCall)[k], o, i).iters = i
      /\ Fingerprint(Ladder(ipmCall)[k], o, i).point = o.point
  BY DEF Fingerprint
<1>5. SameAsBefore(Ladder(ipmCall)[k], o, i) =>
        prev[lane].iters = i /\ prev[lane].point = o.point
  BY DEF SameAsBefore
<1> HIDE DEF lane
<1>6. ASSUME NEW l \in BOOLEAN, l # lane
      PROVE  /\ log'.alike[l] = log.alike[l] /\ prev'[l] = prev[l]
             /\ runLen'[l] = runLen[l] /\ dead'[l] = dead[l]
  BY <1>1, <1>2, <1>3, <1>6 DEF IpmTypeOK
<1>7. /\ runLen'[lane] = IF o.term = "Converged" THEN 0
                         ELSE IF SameAsBefore(Ladder(ipmCall)[k], o, i) THEN runLen[lane] + 1
                         ELSE 1
      /\ prev'[lane] = Fingerprint(Ladder(ipmCall)[k], o, i)
      /\ dead'[lane] <=> runLen'[lane] >= SameToStop
      /\ log'.alike[lane] = NextAlike(log.alike[lane], o, i)
  BY <1>1, <1>2, <1>3 DEF IpmTypeOK
<1>8. /\ runLen[lane] \in Nat /\ log.alike[lane] \in Marks \X Nat
      /\ log.alike[lane][2] \in Nat
  BY <1>1 DEF IpmTypeOK, LogType
<1>9. /\ runLen'[lane] <= log'.alike[lane][2]
      /\ runLen'[lane] > 0 => /\ log'.alike[lane][1].iters = i
                              /\ log'.alike[lane][1].point = o.point
  <2>1. CASE o.term = "Converged"
    BY <1>7, <2>1 DEF NextAlike
  <2>2. CASE o.term # "Converged" /\ log.alike[lane][1].iters = i
                                 /\ log.alike[lane][1].point = o.point
    <3>1. log'.alike[lane] = <<log.alike[lane][1], log.alike[lane][2] + 1>>
      BY <1>7, <2>2 DEF NextAlike
    <3>2. runLen'[lane] <= runLen[lane] + 1
      BY <1>7, <1>8, <2>2
    <3>3. runLen[lane] <= log.alike[lane][2]
      BY <1>1 DEF LaneMarks
    <3> QED
      BY <1>7, <1>8, <2>2, <3>1, <3>2, <3>3
  <2>3. CASE o.term # "Converged" /\ ~(log.alike[lane][1].iters = i
                                         /\ log.alike[lane][1].point = o.point)
    <3>1. log'.alike[lane] = <<[exp |-> 0, iters |-> i, point |-> o.point], 1>>
      BY <1>7, <2>3, Zenon DEF NextAlike
    <3>2. SameAsBefore(Ladder(ipmCall)[k], o, i) => runLen[lane] = 0
      BY <1>1, <1>5, <1>8, <2>3 DEF LaneMarks
    <3>3. runLen'[lane] = 1
      BY <1>7, <2>3, <3>2
    <3> QED
      BY <3>1, <3>3
  <2> QED
    BY <2>1, <2>2, <2>3
<1>10. dead'[lane] => log'.alike[lane][2] >= SameToStop
  <2>1. SameToStop \in Nat /\ runLen'[lane] \in Nat /\ log'.alike[lane][2] \in Nat
    BY <1>7, <1>8, AttemptAssumption DEF NextAlike
  <2> QED
    BY <1>7, <1>9, <2>1
<1>11. ASSUME NEW l \in BOOLEAN
       PROVE  /\ runLen'[l] <= log'.alike[l][2]
              /\ runLen'[l] > 0 => /\ log'.alike[l][1].iters = prev'[l].iters
                                   /\ log'.alike[l][1].point = prev'[l].point
              /\ dead'[l] => log'.alike[l][2] >= SameToStop
  <2>1. CASE l = lane
    BY <1>4, <1>7, <1>9, <1>10, <2>1
  <2>2. CASE l # lane
    BY <1>6, <2>2 DEF LaneMarks
  <2> QED
    BY <2>1, <2>2
<1>12. \A j \in DOMAIN Ladder(ipmCall) :
         j <= k => j \in log'.made \/ dead'[Ladder(ipmCall)[j].ruiz]
  <2>1. SUFFICES ASSUME NEW j \in DOMAIN Ladder(ipmCall), j <= k, j \notin log'.made
                 PROVE  dead'[Ladder(ipmCall)[j].ruiz]
    OBVIOUS
  <2>2. j # k /\ j \notin log.made
    BY <1>2, <2>1
  <2>3. dead[Ladder(ipmCall)[j].ruiz]
    BY <1>1, <2>1, <2>2 DEF LaneMarks
  <2>4. Ladder(ipmCall)[j].ruiz \in BOOLEAN
    BY LadderType DEF IpmTypeOK
  <2> QED
    BY <1>1, <1>6, <2>3, <2>4
<1> QED
  BY <1>11, <1>12 DEF LaneMarks

\* The second invariant holds when a solve begins.
LEMMA CauseInitOK == IpmInit => CauseInv
<1> SUFFICES ASSUME IpmInit PROVE CauseInv
  OBVIOUS
<1>1. \A k \in DOMAIN Ladder(ipmCall) : k \in Nat \ {0}
  BY LadderType DEF IpmInit
<1>2. LaneMarks
  BY <1>1 DEF IpmInit, LaneMarks
<1> QED
  BY <1>2 DEF IpmInit, CauseInv, BestProven, GivesUpForCause, Answered

\* Iterations spent and a deadline that has passed stay so.
LEMMA StaysOut ==
  ASSUME IpmTypeOK, ipmCall' = ipmCall, used' \in Nat, used' >= used, Meanwhile \/ late' = late,
         late \/ used >= ipmCall.maxIter
  PROVE  OutOfReach'
<1>1. late => late'
  BY Zenon DEF Meanwhile
<1>2. ipmCall.maxIter \in Nat /\ used \in Nat
  BY AttemptAssumption DEF IpmTypeOK
<1>3. CASE late
  BY <1>1, <1>3 DEF OutOfReach
<1>4. CASE used >= ipmCall.maxIter
  BY <1>2, <1>4 DEF OutOfReach
<1> QED
  BY <1>3, <1>4

\* An attempt of the ladder is made, or skipped in a dead lane.
LEMMA CauseAttempt == IpmInv /\ CauseInv /\ Attempt => CauseInv'
<1> SUFFICES ASSUME IpmInv, CauseInv, Attempt PROVE CauseInv'
  OBVIOUS
<1>1. IpmTypeOK /\ stage = "ladder" /\ Pending # {} /\ MayAttempt /\ Meanwhile
  BY DEF IpmInv, Attempt
<1>2. PICK k \in Nat : k = Min(Pending) /\ Ladder(ipmCall)[k].ruiz \in BOOLEAN
  BY <1>1, NextRung
<1> DEFINE granted == Min({AttemptCap, Left})
<1>3. PICK e \in Ends(granted, late' \/ cancelled') :
        /\ rung' = k
        /\ used' = used + Charged(e[2], granted)
        /\ progress' = IF e[1].term = "IterationLimit" /\ \A s \in progress : ScoreOf(e[1]) < s
                       THEN {ScoreOf(e[1])} ELSE progress
        /\ IF ProvesOptimal(e[1]) /\ MintMayReplace(best)
           THEN best' = {e[1]} /\ stage' = "extend" /\ UNCHANGED laneVars
           ELSE /\ best' = Candidate(e[1])
                /\ Lanes(Ladder(ipmCall)[k], e[1], e[2])
                /\ stage' = IF \A l \in BOOLEAN : dead'[l] THEN "extend" ELSE "ladder"
        /\ log' = NotedOnLadder(k, e[1], e[2])
  BY <1>2 DEF Attempt
<1>4. ipmCall' = ipmCall /\ fallbacks' = fallbacks
  BY DEF Attempt
<1> DEFINE o == e[1]
           i == e[2]
<1>5. granted \in Nat
  BY <1>1, Granted
<1> HIDE DEF granted
<1>6. o \in OutcomeSet /\ i \in Nat
  BY <1>3, <1>5, EndsType
<1>7. log' = NotedOnLadder(k, o, i)
  BY <1>3 DEF o, i
<1> HIDE DEF o, i
<1>8. log'.capped <=> log.capped \/ o.term = "IterationLimit"
  <2>1. log'.capped = Noted("presolved", o, i).capped
    BY <1>1, <1>2, <1>6, <1>7, NotedOnLadderFields
  <2>2. Noted("presolved", o, i).capped <=> log.capped \/ o.term = "IterationLimit"
    BY <1>1, <1>6, NotedFields
  <2> QED
    BY <2>1, <2>2, Zenon
<1>9. log'.capped => progress' # {}
  BY <1>1, <1>3, <1>8 DEF CauseInv, o
<1>10. GivesUpForCause' /\ fallbacks' <= 2 /\ stage' \in {"ladder", "extend"}
  BY <1>3, <1>4 DEF CauseInv, GivesUpForCause, Answered
<1>11. CASE ProvesOptimal(o) /\ MintMayReplace(best)
  <2>1. best' = {o} /\ stage' = "extend"
    BY <1>3, <1>11 DEF o
  <2>2. OutOfReach'
    BY <1>11, <2>1 DEF OutOfReach, BestProven
  <2> QED
    BY <1>9, <1>10, <2>1, <2>2 DEF CauseInv
<1>12. CASE ~(ProvesOptimal(o) /\ MintMayReplace(best))
  <2>1. /\ best' = Candidate(o)
        /\ Lanes(Ladder(ipmCall)[k], o, i)
        /\ stage' = IF \A l \in BOOLEAN : dead'[l] THEN "extend" ELSE "ladder"
    BY <1>3, <1>12 DEF o, i
  <2>2. ~BestProven'
    BY <1>1, <1>6, <1>12, <2>1, CandidateUnproven DEF CauseInv, BestProven
  <2>3. LaneMarks'
    BY <1>1, <1>2, <1>3, <1>4, <1>6, <1>7, <2>1, LaneMarksKept DEF CauseInv
  <2>4. stage' = "extend" => LadderTried'
    <3>1. SUFFICES ASSUME stage' = "extend" PROVE LadderTried'
      OBVIOUS
    <3>2. \A l \in BOOLEAN : dead'[l]
      BY <2>1, <3>1
    <3>3. \A j \in DOMAIN Ladder(ipmCall) : Ladder(ipmCall)[j].ruiz \in BOOLEAN
      BY <1>1, LadderType DEF IpmTypeOK
    <3> QED
      BY <1>4, <2>3, <3>2, <3>3 DEF LaneMarks, LadderTried
  <2> QED
    BY <1>9, <1>10, <2>2, <2>3, <2>4 DEF CauseInv
<1> QED
  BY <1>11, <1>12

\* The ladder ends: it is exhausted, or out of reach.
LEMMA CauseLadderOver == IpmInv /\ CauseInv /\ LadderOver => CauseInv'
<1> SUFFICES ASSUME IpmInv, CauseInv, LadderOver PROVE CauseInv'
  OBVIOUS
<1>1. /\ stage = "ladder" /\ stage' = "extend"
      /\ Pending = {} \/ ~MayAttempt
      /\ UNCHANGED <<ipmCall, rung, best, progress, used, laneVars, fallbacks, late,
                     cancelled, reply, log>>
  BY DEF LadderOver
<1>2. IpmTypeOK /\ LaneMarks
  BY <1>1 DEF IpmInv, CauseInv
<1>3. OutOfReach' \/ LadderTried'
  <2>1. CASE Pending = {}
    <3>1. ASSUME NEW k \in DOMAIN Ladder(ipmCall), k \notin log.made
          PROVE  log.alike[Ladder(ipmCall)[k].ruiz][2] >= SameToStop
      <4>1. k \in Nat /\ rung \in Nat /\ Ladder(ipmCall)[k].ruiz \in BOOLEAN
        BY <1>2, LadderType DEF IpmTypeOK
      <4>2. k <= rung \/ dead[Ladder(ipmCall)[k].ruiz]
        BY <2>1, <4>1 DEF Pending
      <4>3. dead[Ladder(ipmCall)[k].ruiz]
        BY <1>2, <3>1, <4>2 DEF LaneMarks
      <4> QED
        BY <1>2, <4>1, <4>3 DEF LaneMarks
    <3> QED
      BY <1>1, <3>1 DEF LadderTried
  <2>2. CASE ~MayAttempt
    <3>1. used \in Nat /\ ipmCall.maxIter \in Nat
      BY <1>2, AttemptAssumption DEF IpmTypeOK
    <3>2. late \/ used >= ipmCall.maxIter
      BY <2>2, <3>1 DEF MayAttempt, Left
    <3> QED
      BY <1>1, <3>2 DEF OutOfReach
  <2> QED
    BY <1>1, <2>1, <2>2
<1>4. GivesUpForCause'
  BY <1>1 DEF GivesUpForCause, Answered
<1> QED
  BY <1>1, <1>3, <1>4 DEF CauseInv

\* What its cap had cut is continued.
LEMMA CauseExtend == IpmInv /\ CauseInv /\ Extend => CauseInv'
<1> SUFFICES ASSUME IpmInv, CauseInv, Extend PROVE CauseInv'
  OBVIOUS
<1>1. IpmTypeOK /\ stage = "extend" /\ MayExtend /\ Meanwhile
  BY DEF IpmInv, Extend
<1>2. PICK e \in Ends(Left, late' \/ cancelled') :
        /\ used' = used + Charged(e[2], Left)
        /\ log' = [Noted("presolved", e[1], e[2]) EXCEPT !.extended = TRUE]
  BY DEF Extend
<1>3. stage' = "fallback" /\ UNCHANGED <<ipmCall, rung, progress, laneVars, fallbacks, reply>>
  BY DEF Extend
<1> DEFINE o == e[1]
           i == e[2]
<1>4. Left \in Nat
  BY <1>1, Granted DEF MayExtend
<1>5. o \in OutcomeSet /\ i \in Nat /\ i <= Left
  BY <1>2, <1>4, EndsType
<1>6. used' = used + i
  BY <1>2, <1>4, <1>5, ChargedIs
<1> HIDE DEF o, i
<1> DEFINE n == Noted("presolved", o, i)
<1>7. n \in LogType /\ n.made = log.made /\ n.alike = log.alike
  BY <1>1, <1>5, NotedFields
<1>8. log'.made = log.made /\ log'.alike = log.alike /\ log'.extended = TRUE
  <2>1. log' = [n EXCEPT !.extended = TRUE]
    BY <1>2 DEF o, i
  <2> HIDE DEF n
  <2> QED
    BY <1>7, <2>1 DEF LogType
<1>9. OutOfReach' \/ LadderTried'
  <2>1. CASE LadderTried
    BY <1>3, <1>8, <2>1 DEF LadderTried
  <2>2. CASE late \/ used >= ipmCall.maxIter
    <3>1. used \in Nat /\ used' \in Nat /\ used' >= used
      BY <1>1, <1>5, <1>6 DEF IpmTypeOK
    <3> QED
      BY <1>1, <1>3, <2>2, <3>1, StaysOut
  <2> QED
    BY <1>1, <2>1, <2>2 DEF CauseInv, OutOfReach, MayExtend
<1>10. CutContinued'
  BY <1>8 DEF CutContinued
<1>11. fallbacks' = 0 /\ GivesUpForCause'
  BY <1>1, <1>3 DEF IpmInv, InOrder, GivesUpForCause, Answered
<1> QED
  BY <1>3, <1>9, <1>10, <1>11 DEF CauseInv

\* Nothing was cut, or nothing may be continued.
LEMMA CauseNothingToExtend == IpmInv /\ CauseInv /\ NothingToExtend => CauseInv'
<1> SUFFICES ASSUME IpmInv, CauseInv, NothingToExtend PROVE CauseInv'
  OBVIOUS
<1>1. /\ stage = "extend" /\ ~MayExtend /\ stage' = "fallback" /\ IpmTypeOK
      /\ UNCHANGED <<ipmCall, rung, best, progress, used, laneVars, fallbacks, late,
                     cancelled, reply, log>>
  BY DEF NothingToExtend, IpmInv
<1>2. OutOfReach \/ CutContinued
  <2>1. used \in Nat /\ ipmCall.maxIter \in Nat
    BY <1>1, AttemptAssumption DEF IpmTypeOK
  <2>2. MayAttempt \/ late \/ used >= ipmCall.maxIter
    BY <2>1 DEF MayAttempt, Left
  <2> QED
    BY <1>1, <2>2 DEF MayExtend, OutOfReach, CutContinued, CauseInv
<1>3. OutOfReach' \/ (LadderTried' /\ CutContinued')
  BY <1>1, <1>2 DEF CauseInv, OutOfReach, LadderTried, CutContinued, BestProven
<1>4. fallbacks' = 0 /\ GivesUpForCause'
  BY <1>1 DEF IpmInv, InOrder, GivesUpForCause, Answered
<1> QED
  BY <1>1, <1>3, <1>4 DEF CauseInv

\* An attempt without presolve is made.
LEMMA CauseFallBack == IpmInv /\ CauseInv /\ FallBack => CauseInv'
<1> SUFFICES ASSUME IpmInv, CauseInv, FallBack PROVE CauseInv'
  OBVIOUS
<1> DEFINE granted == Min({AttemptCap, Left})
<1>1. /\ IpmTypeOK /\ stage = "fallback" /\ MayFallBack /\ MayAttempt /\ Meanwhile
      /\ fallbacks \in Nat /\ fallbacks < 2 /\ ~BestProven
  BY DEF IpmInv, IpmTypeOK, FallBack, MayFallBack, CauseInv
<1>2. PICK e \in Ends(granted, late' \/ cancelled') :
        /\ used' = used + Charged(e[2], granted)
        /\ IF ProvesOptimal(e[1]) /\ MintMayReplace(best)
           THEN best' = {e[1]} /\ stage' = "finalize"
           ELSE /\ best' = {IF FallbackReplaces(e[1], old) THEN e[1] ELSE old : old \in best}
                /\ UNCHANGED stage
        /\ log' = Noted("original", e[1], e[2])
  BY DEF FallBack
<1>3. fallbacks' = fallbacks + 1 /\ UNCHANGED <<ipmCall, rung, progress, laneVars, reply>>
  BY DEF FallBack
<1> DEFINE o == e[1]
           i == e[2]
<1>4. granted \in Nat
  BY <1>1, Granted
<1> HIDE DEF granted
<1>5. o \in OutcomeSet /\ i \in Nat /\ i <= granted
  BY <1>2, <1>4, EndsType
<1>6. used' = used + i
  BY <1>2, <1>4, <1>5, ChargedIs
<1>7. log' = Noted("original", o, i)
  BY <1>2 DEF o, i
<1> HIDE DEF o, i
<1>8. log'.made = log.made /\ log'.alike = log.alike /\ log'.extended = log.extended
  BY <1>1, <1>5, <1>7, NotedFields
<1>9. log'.capped <=> log.capped
  <2>1. Noted("original", o, i).capped <=> log.capped
    BY <1>1, <1>5, NotedFields
  <2> QED
    BY <1>7, <2>1, Zenon
<1>10. fallbacks' <= 2 /\ stage' \in {"fallback", "finalize"} /\ GivesUpForCause'
  BY <1>1, <1>2, <1>3 DEF GivesUpForCause, Answered
<1>11. CASE ProvesOptimal(o) /\ MintMayReplace(best)
  <2>1. best' = {o} /\ stage' = "finalize"
    BY <1>2, <1>11 DEF o
  <2>2. OutOfReach'
    BY <1>11, <2>1 DEF OutOfReach, BestProven
  <2> QED
    BY <1>10, <2>1, <2>2 DEF CauseInv
<1>12. CASE ~(ProvesOptimal(o) /\ MintMayReplace(best))
  <2>1. /\ best' = {IF FallbackReplaces(o, old) THEN o ELSE old : old \in best}
        /\ stage' = "fallback"
    BY <1>1, <1>2, <1>12 DEF o
  <2>2. ~BestProven'
    BY <1>1, <1>5, <1>12, <2>1, CandidateUnproven DEF BestProven
  <2>3. OutOfReach' \/ (LadderTried' /\ CutContinued')
    <3>1. CASE LadderTried /\ CutContinued
      BY <1>3, <1>8, <1>9, <3>1 DEF LadderTried, CutContinued
    <3>2. CASE late \/ used >= ipmCall.maxIter
      <4>1. used \in Nat /\ used' \in Nat /\ used' >= used
        BY <1>1, <1>5, <1>6 DEF IpmTypeOK
      <4> QED
        BY <1>1, <1>3, <3>2, <4>1, StaysOut
    <3> QED
      BY <1>1, <3>1, <3>2 DEF CauseInv, OutOfReach
  <2> QED
    BY <1>10, <2>1, <2>2, <2>3 DEF CauseInv
<1> QED
  BY <1>11, <1>12

\* None is made, or none is left.
LEMMA CauseNoFallBack == IpmInv /\ CauseInv /\ NoFallBack => CauseInv'
<1> SUFFICES ASSUME IpmInv, CauseInv, NoFallBack PROVE CauseInv'
  OBVIOUS
<1>1. /\ stage = "fallback" /\ ~MayFallBack /\ stage' = "finalize" /\ IpmTypeOK
      /\ UNCHANGED <<ipmCall, rung, best, progress, used, laneVars, fallbacks, late,
                     cancelled, reply, log>>
  BY DEF NoFallBack, IpmInv
<1>2. OutOfReach \/ (ipmCall.scaled /\ ipmCall.small => fallbacks = 2)
  <2>1. used \in Nat /\ ipmCall.maxIter \in Nat /\ fallbacks \in Nat /\ fallbacks <= 2
    BY <1>1, AttemptAssumption DEF IpmTypeOK, CauseInv
  <2>2. MayAttempt \/ late \/ used >= ipmCall.maxIter
    BY <2>1 DEF MayAttempt, Left
  <2> QED
    BY <1>1, <2>1, <2>2 DEF MayFallBack, OutOfReach
<1>3. \/ OutOfReach'
      \/ /\ LadderTried' /\ CutContinued'
         /\ ipmCall'.scaled /\ ipmCall'.small => fallbacks' = 2
  BY <1>1, <1>2 DEF CauseInv, OutOfReach, LadderTried, CutContinued, BestProven
<1>4. fallbacks' <= 2 /\ GivesUpForCause'
  BY <1>1 DEF CauseInv, GivesUpForCause, Answered
<1> QED
  BY <1>1, <1>3, <1>4 DEF CauseInv

\* The status is chosen.
LEMMA CauseFinalize == IpmInv /\ CauseInv /\ Finalize => CauseInv'
<1> SUFFICES ASSUME IpmInv, CauseInv, Finalize PROVE CauseInv'
  OBVIOUS
<1>1. /\ stage = "finalize" /\ stage' = "answered"
      /\ UNCHANGED <<ipmCall, rung, best, progress, used, laneVars, fallbacks, late,
                     cancelled, log>>
  BY DEF Finalize, Reply
<1>2. BestProven => reply'.status = "Optimal"
  <2>1. SUFFICES ASSUME NEW b \in best, ProvesOptimal(b) PROVE reply'.status = "Optimal"
    BY DEF BestProven
  <2>2. b \in OutcomeSet /\ best = {b}
    BY DEF IpmInv, IpmTypeOK
  <2>3. (CHOOSE x \in best : TRUE) = b /\ best # {}
    BY <2>2
  <2> QED
    BY <2>1, <2>2, <2>3, StatusOfEvidence DEF Finalize, Reply
<1>3. log.spent = used
  BY DEF IpmInv, SpentIsUsed
<1>4. GivesUpForCause'
  <2>1. SUFFICES ASSUME ~late, reply'.status # "Optimal"
                 PROVE  \/ log.spent >= ipmCall.maxIter
                        \/ /\ LadderTried /\ CutContinued
                           /\ ipmCall.scaled /\ ipmCall.small => fallbacks = 2
    BY <1>1 DEF GivesUpForCause, Answered, LadderTried, CutContinued
  <2> QED
    BY <1>1, <1>2, <1>3, <2>1 DEF CauseInv, OutOfReach
<1>5. fallbacks' <= 2
  BY <1>1 DEF CauseInv
<1> QED
  BY <1>1, <1>4, <1>5 DEF CauseInv

\* Presolve decides, or the ladder begins.
LEMMA CausePresolve == IpmInv /\ CauseInv /\ PresolveQp => CauseInv'
<1> SUFFICES ASSUME IpmInv, CauseInv, PresolveQp PROVE CauseInv'
  OBVIOUS
<1>1. /\ stage = "presolve"
      /\ \/ stage' = "ladder"
         \/ stage' = "answered" /\ reply'.status \in {"Infeasible", "Unbounded", "Timeout"}
      /\ UNCHANGED <<ipmCall, rung, best, progress, used, laneVars, fallbacks, log>>
  BY DEF PresolveQp, Reply
<1>2. GivesUpForCause'
  BY <1>1 DEF GivesUpForCause, Answered
<1>3. LaneMarks' /\ ~BestProven'
  BY <1>1 DEF CauseInv, LaneMarks, BestProven, laneVars
<1> QED
  BY <1>1, <1>2, <1>3 DEF CauseInv

\* Every step keeps the second invariant.
LEMMA CauseStepOK == IpmInv /\ CauseInv /\ [IpmNext]_ipmVars => CauseInv'
<1> SUFFICES ASSUME IpmInv, CauseInv, [IpmNext]_ipmVars PROVE CauseInv'
  OBVIOUS
<1>1. CASE UNCHANGED ipmVars
  <2>1. UNCHANGED <<ipmCall, stage, rung, best, progress, used, prev, runLen, dead,
                    fallbacks, late, cancelled, reply, log>>
    BY <1>1 DEF ipmVars, laneVars
  <2>2. /\ OutOfReach' <=> OutOfReach
        /\ LadderTried' <=> LadderTried
        /\ CutContinued' <=> CutContinued
        /\ LaneMarks' <=> LaneMarks
        /\ BestProven' <=> BestProven
        /\ GivesUpForCause' <=> GivesUpForCause
    BY <2>1 DEF OutOfReach, LadderTried, CutContinued, LaneMarks, BestProven,
                GivesUpForCause, Answered
  <2> QED
    BY <2>1, <2>2 DEF CauseInv
<1> QED
  BY <1>1, CauseAttempt, CauseLadderOver, CauseExtend, CauseNothingToExtend, CauseFallBack,
     CauseNoFallBack, CauseFinalize, CausePresolve DEF IpmNext

\* Before the deadline the solve answers with less than a proof only when its iterations
\* are spent, or every entry of the ladder was tried or follows equal attempts of its own
\* lane, what its cap had cut was continued, and both attempts without presolve were made
\* where they apply.
THEOREM GivingUpHasACause == IpmSpec => []GivesUpForCause
<1>1. CauseInv => GivesUpForCause
  BY DEF CauseInv
<1> QED
  BY <1>1, CauseInitOK, CauseStepOK, IpmInvariant, PTL DEF IpmSpec

=============================================================================
