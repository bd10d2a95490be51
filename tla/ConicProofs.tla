----------------------------- MODULE ConicProofs -----------------------------
(***************************************************************************)
(* The safety of the entries that end in a conic branch and bound, for any     *)
(* problems, points and true relaxations, any tolerance and any node limit:    *)
(* no region is lost, the reported gap is honest, a stop that was seen is not   *)
(* overtaken by a proof, and every entry keeps the contract of a branch and     *)
(* bound.  The inductive invariant is ConicInv: the types, what is known before  *)
(* the search, and that every feasible point is accounted for.                  *)
(***************************************************************************)
EXTENDS ConicRoutes, SequenceTheorems, WellFoundedInduction, TLAPS

Boxes == [lo : Int, hi : Int, first : Int, last : Int]
Regions == [box : Boxes, lb : {v \in Int : -Inf <= v}]

\* The regions of a stack.
Elements(s) == {s[i] : i \in DOMAIN s}

ConicTypeOK ==
  /\ prob \in Problems /\ search \in {"misocp", "spatial"}
  /\ pc \in {"entry", "route", "pop", "relax", "close", "done"}
  /\ stack \in Seq(Regions) /\ hand \in Regions
  /\ inc \in Int /\ inc <= Inf
  /\ lower \in Int /\ -Inf <= lower
  /\ nodes \in Nat /\ cut \in {"no", "timed_out", "limited"} /\ failures \in BOOLEAN
  /\ expired \in BOOLEAN /\ cancelled \in BOOLEAN
  /\ psd \in {"yes", "no", "clamped"}

\* Nothing is searched before the search is launched, nothing is open after it ran to
\* its end, and there is one answer.
ConicShape ==
  /\ pc \in {"entry", "route"} => stack = <<Region(prob.box, -Inf)>>
  /\ pc = "entry" => inc = Inf
  /\ pc = "close" /\ cut = "no" => stack = <<>>
  /\ pc \in {"entry", "route", "pop", "relax"} => cut = "no"
  /\ pc # "done" <=> answer.status = "none"
  /\ pc = "route" => search = "spatial"

\* What the convex attempt may hand over: a clean optimum is one.
ConvexFacts ==
  pc = "route" =>
    /\ inc = IF Clean(convex) THEN convex.obj ELSE Inf
    /\ Clean(convex) =>
         /\ convex.status = "Optimal" =>
              /\ \E p \in Feasible : convex.obj = Value[p]
              /\ \A p \in Feasible : convex.obj <= Value[p]
         /\ convex.status # "Optimal" => convex.obj = Inf
         /\ convex.status = "Infeasible" => Feasible = {}
         /\ convex.status = "Unbounded" => prob.ray

\* Open regions hold feasible points only.
InsideRoot == \A r \in Open : InBox(r.box) \subseteq Feasible

\* A feasible point is in an open region whose bound it respects; or, in the spatial
\* search, above the bound of the terminal regions; or, in misocp, not below the
\* incumbent by more than the tolerance, unless the search is known to be incomplete.
Accounted(p) ==
  \/ \E r \in Open : p \in InBox(r.box) /\ r.lb <= Value[p]
  \/ IF search = "spatial" THEN lower <= Value[p]
     ELSE \/ inc # Inf /\ inc - Value[p] <= GapTol
          \/ failures \/ cut # "no"

PointsAccounted == pc \in {"pop", "relax", "close"} => \A p \in Feasible : Accounted(p)

ConicInv ==
  /\ ConicTypeOK /\ ConicShape /\ ConvexFacts /\ InsideRoot /\ PointsAccounted
  /\ GapHonest

-----------------------------------------------------------------------------
(* Boxes and stacks *)

\* The data of the problems: integers, below infinity.
LEMMA Points2 ==
  /\ Inf \in Int /\ Inf > 0 /\ GapTol \in Nat
  /\ \A p \in Points : /\ Twice[p] \in Int /\ Twice[p] % 2 = 0 /\ Cell[p] \in Int
                       /\ Value[p] \in Int /\ -Inf < Value[p] /\ Value[p] < Inf
  /\ \A b \in Bounds : b \in Int /\ -Inf < b /\ b < Inf
  /\ \A p \in Problems : p.box \in Boxes
  BY ConicAssumption DEF Boxes

\* What is stacked together is stacked.
LEMMA ElementsOfConcat ==
  ASSUME NEW s \in Seq(Regions), NEW t \in Seq(Regions)
  PROVE  s \o t \in Seq(Regions) /\ Elements(s \o t) = Elements(s) \cup Elements(t)
<1>1. /\ s \o t \in Seq(Regions) /\ Len(s \o t) = Len(s) + Len(t)
      /\ \A i \in 1 .. Len(s) + Len(t) :
           (s \o t)[i] = IF i <= Len(s) THEN s[i] ELSE t[i - Len(s)]
  BY ConcatProperties
<1>2. /\ Len(s) \in Nat /\ Len(t) \in Nat
      /\ DOMAIN s = 1 .. Len(s) /\ DOMAIN t = 1 .. Len(t)
      /\ DOMAIN (s \o t) = 1 .. Len(s) + Len(t)
  BY <1>1, LenProperties
<1> DEFINE u == s \o t
<1>3. /\ \A i \in 1 .. Len(s) : i \in DOMAIN u /\ u[i] = s[i]
      /\ \A i \in 1 .. Len(t) : i + Len(s) \in DOMAIN u /\ u[i + Len(s)] = t[i]
      /\ \A i \in DOMAIN u : \/ i \in 1 .. Len(s) /\ u[i] = s[i]
                             \/ i - Len(s) \in 1 .. Len(t) /\ u[i] = t[i - Len(s)]
  BY <1>1, <1>2
<1> HIDE DEF u
<1>4. Elements(u) = Elements(s) \cup Elements(t)
  BY <1>2, <1>3 DEF Elements
<1> QED
  BY <1>1, <1>4 DEF u

\* Taking the region on top.
LEMMA ElementsOfPop ==
  ASSUME stack \in Seq(Regions), stack # <<>>
  PROVE  /\ Below \in Seq(Regions) /\ Top \in Regions
         /\ Elements(stack) = Elements(Below) \cup {Top}
<1> DEFINE n == Len(stack)
<1>1. n \in Nat /\ n > 0 /\ DOMAIN stack = 1 .. n /\ \A i \in 1 .. n : stack[i] \in Regions
  BY LenProperties, EmptySeq, ElementOfSeq
<1>2. /\ Below \in Seq(Regions) /\ Len(Below) = n - 1
      /\ \A i \in 1 .. n - 1 : Below[i] = stack[i]
  <2>1. \A i \in 1 .. n - 1 : stack[i] \in Regions
    BY <1>1
  <2>2. 1 \in Int /\ n - 1 \in Int
    BY <1>1
  <2> HIDE DEF n
  <2>3. /\ SubSeq(stack, 1, n - 1) \in Seq(Regions)
        /\ Len(SubSeq(stack, 1, n - 1)) = IF 1 <= n - 1 THEN (n - 1) - 1 + 1 ELSE 0
        /\ \A i \in 1 .. (n - 1) - 1 + 1 : SubSeq(stack, 1, n - 1)[i] = stack[1 + i - 1]
    BY <2>1, <2>2, SubSeqProperties
  <2> QED
    BY <1>1, <2>3 DEF Below, n
<1>3. DOMAIN Below = 1 .. n - 1
  BY <1>2, LenProperties
<1>4. Top = stack[n] /\ Top \in Regions
  BY <1>1 DEF Top
<1> HIDE DEF n
<1>5. \A i \in 1 .. n : i \in 1 .. n - 1 \/ i = n
  BY <1>1
<1>6. \A i \in 1 .. n - 1 : i \in 1 .. n
  BY <1>1
<1>7. n \in 1 .. n
  BY <1>1
<1> QED
  BY <1>1, <1>2, <1>3, <1>4, <1>5, <1>6, <1>7 DEF Elements

\* The empty stack, and a stack of one region.
LEMMA OneRegion ==
  ASSUME NEW r \in Regions
  PROVE  /\ <<>> \in Seq(Regions) /\ Elements(<<>>) = {}
         /\ <<r>> \in Seq(Regions) /\ Elements(<<r>>) = {r}
  BY DEF Elements

\* The children that are pushed: the two, without the empty ones.
LEMMA ChildrenAre ==
  ASSUME NEW down \in Boxes, NEW up \in Boxes, NEW lb \in {v \in Int : -Inf <= v}
  PROVE  /\ Children(down, up, lb) \in Seq(Regions)
         /\ \A r : r \in Elements(Children(down, up, lb)) <=>
                    \/ r = Region(down, lb) /\ NonEmpty(down)
                    \/ r = Region(up, lb) /\ NonEmpty(up)
<1> DEFINE d == Region(down, lb)
           u == Region(up, lb)
           first == IF NonEmpty(down) THEN <<d>> ELSE <<>>
           second == IF NonEmpty(up) THEN <<u>> ELSE <<>>
<1>1. d \in Regions /\ u \in Regions /\ d.box = down /\ u.box = up
  BY DEF Region, Regions
<1> HIDE DEF d, u
<1>2. /\ first \in Seq(Regions)
      /\ Elements(first) = IF NonEmpty(down) THEN {d} ELSE {}
  BY <1>1, OneRegion
<1>3. /\ second \in Seq(Regions)
      /\ Elements(second) = IF NonEmpty(up) THEN {u} ELSE {}
  BY <1>1, OneRegion
<1>4. Children(down, up, lb) = first \o second
  BY DEF Children, d, u
<1> HIDE DEF first, second
<1>5. /\ first \o second \in Seq(Regions)
      /\ Elements(first \o second) = Elements(first) \cup Elements(second)
  BY <1>2, <1>3, ElementsOfConcat
<1>6. \A r : r \in Elements(first \o second) <=>
              (r = d /\ NonEmpty(down)) \/ (r = u /\ NonEmpty(up))
  BY <1>1, <1>2, <1>3, <1>5
<1> QED
  BY <1>4, <1>5, <1>6 DEF d, u

\* Branching on the integer variable at two values that leave no point between.
LEMMA RoundingCovers ==
  ASSUME NEW b \in Boxes, NEW lb \in {v \in Int : -Inf <= v},
         NEW below \in Int, NEW above \in Int,
         below <= b.hi \/ below < b.lo, b.lo <= above \/ b.hi < above,
         \A p \in InBox(b) : Twice[p] <= below \/ above <= Twice[p]
  PROVE  /\ RoundApart(b, below, above, lb) \in Seq(Regions)
         /\ \A q \in Elements(RoundApart(b, below, above, lb)) :
              q.lb = lb /\ InBox(q.box) \subseteq InBox(b)
         /\ \A p \in InBox(b) : \E q \in Elements(RoundApart(b, below, above, lb)) :
              p \in InBox(q.box)
<1> DEFINE down == [b EXCEPT !.hi = below]
           up == [b EXCEPT !.lo = above]
           c == RoundApart(b, below, above, lb)
<1>1. /\ down \in Boxes /\ down.lo = b.lo /\ down.hi = below
      /\ down.first = b.first /\ down.last = b.last
      /\ up \in Boxes /\ up.lo = above /\ up.hi = b.hi
      /\ up.first = b.first /\ up.last = b.last
      /\ b.lo \in Int /\ b.hi \in Int /\ b.first \in Int /\ b.last \in Int
  BY DEF Boxes
<1> HIDE DEF down, up
<1>2. /\ c \in Seq(Regions)
      /\ \A r : r \in Elements(c) <=>
                 \/ r = Region(down, lb) /\ NonEmpty(down)
                 \/ r = Region(up, lb) /\ NonEmpty(up)
  <2>1. c = Children(down, up, lb)
    BY DEF RoundApart, down, up
  <2> HIDE DEF c
  <2>2. /\ Children(down, up, lb) \in Seq(Regions)
        /\ \A r : r \in Elements(Children(down, up, lb)) <=>
                   \/ r = Region(down, lb) /\ NonEmpty(down)
                   \/ r = Region(up, lb) /\ NonEmpty(up)
    BY <1>1, ChildrenAre
  <2> QED
    BY <2>1, <2>2, Zenon
<1>3. /\ Region(down, lb).box = down /\ Region(down, lb).lb = lb
      /\ Region(up, lb).box = up /\ Region(up, lb).lb = lb
  BY DEF Region
<1> HIDE DEF c
<1>4. NonEmpty(down) => InBox(down) \subseteq InBox(b)
  BY <1>1, Points2 DEF NonEmpty, InBox
<1>5. NonEmpty(up) => InBox(up) \subseteq InBox(b)
  BY <1>1, Points2 DEF NonEmpty, InBox
<1>6. ASSUME NEW q \in Elements(c) PROVE q.lb = lb /\ InBox(q.box) \subseteq InBox(b)
  BY <1>2, <1>3, <1>4, <1>5
<1>7. ASSUME NEW p \in InBox(b) PROVE \E q \in Elements(c) : p \in InBox(q.box)
  <2>1. CASE Twice[p] <= below
    <3>1. p \in InBox(down) /\ NonEmpty(down)
      BY <1>1, <2>1, Points2 DEF NonEmpty, InBox
    <3> QED
      BY <1>2, <1>3, <3>1
  <2>2. CASE above <= Twice[p]
    <3>1. p \in InBox(up) /\ NonEmpty(up)
      BY <1>1, <2>2, Points2 DEF NonEmpty, InBox
    <3> QED
      BY <1>2, <1>3, <3>1
  <2> QED
    BY <2>1, <2>2
<1> QED
  BY <1>2, <1>6, <1>7 DEF c

\* Splitting the cells.
LEMMA SplittingCovers ==
  ASSUME NEW b \in Boxes, NEW lb \in {v \in Int : -Inf <= v},
         NEW s \in b.first .. (b.last - 1)
  PROVE  /\ SplitCells(b, s, lb) \in Seq(Regions)
         /\ \A q \in Elements(SplitCells(b, s, lb)) :
              q.lb = lb /\ InBox(q.box) \subseteq InBox(b)
         /\ \A p \in InBox(b) : \E q \in Elements(SplitCells(b, s, lb)) : p \in InBox(q.box)
<1> DEFINE down == [b EXCEPT !.last = s]
           up == [b EXCEPT !.first = s + 1]
           c == SplitCells(b, s, lb)
<1>1. b.lo \in Int /\ b.hi \in Int /\ b.first \in Int /\ b.last \in Int
  BY DEF Boxes
<1>2. s \in Int /\ b.first <= s /\ s < b.last
  BY <1>1
<1>3. /\ down \in Boxes /\ down.lo = b.lo /\ down.hi = b.hi
      /\ down.first = b.first /\ down.last = s
      /\ up \in Boxes /\ up.lo = b.lo /\ up.hi = b.hi
      /\ up.first = s + 1 /\ up.last = b.last
  BY <1>2 DEF Boxes
<1> HIDE DEF down, up
<1>4. /\ c \in Seq(Regions)
      /\ \A r : r \in Elements(c) <=>
                 \/ r = Region(down, lb) /\ NonEmpty(down)
                 \/ r = Region(up, lb) /\ NonEmpty(up)
  <2>1. c = Children(down, up, lb)
    BY DEF SplitCells, down, up
  <2> HIDE DEF c
  <2>2. /\ Children(down, up, lb) \in Seq(Regions)
        /\ \A r : r \in Elements(Children(down, up, lb)) <=>
                   \/ r = Region(down, lb) /\ NonEmpty(down)
                   \/ r = Region(up, lb) /\ NonEmpty(up)
    BY <1>3, ChildrenAre
  <2> QED
    BY <2>1, <2>2, Zenon
<1>5. /\ Region(down, lb).box = down /\ Region(down, lb).lb = lb
      /\ Region(up, lb).box = up /\ Region(up, lb).lb = lb
  BY DEF Region
<1> HIDE DEF c
<1>6. InBox(down) \subseteq InBox(b) /\ InBox(up) \subseteq InBox(b)
  BY <1>1, <1>2, <1>3, Points2 DEF InBox
<1>7. ASSUME NEW q \in Elements(c) PROVE q.lb = lb /\ InBox(q.box) \subseteq InBox(b)
  BY <1>4, <1>5, <1>6
<1>8. ASSUME NEW p \in InBox(b) PROVE \E q \in Elements(c) : p \in InBox(q.box)
  <2>1. CASE Cell[p] <= s
    <3>1. p \in InBox(down) /\ NonEmpty(down)
      BY <1>1, <1>2, <1>3, <2>1, Points2 DEF NonEmpty, InBox
    <3> QED
      BY <1>4, <1>5, <3>1
  <2>2. CASE ~(Cell[p] <= s)
    <3>1. p \in InBox(up) /\ NonEmpty(up)
      BY <1>1, <1>2, <1>3, <2>2, Points2 DEF NonEmpty, InBox
    <3> QED
      BY <1>4, <1>5, <3>1
  <2> QED
    BY <2>1, <2>2
<1> QED
  BY <1>4, <1>7, <1>8 DEF c

-----------------------------------------------------------------------------
(* Steps of the loop *)

\* Where the open regions are.
LEMMA OpenIs ==
  /\ pc = "relax" => Open = {hand} \cup Elements(stack)
  /\ pc # "relax" => Open = Elements(stack)
  BY DEF Open, Elements

\* The region in hand is replaced by `open`: what it held is in the new regions, or
\* accounted for otherwise.
LEMMA RegionDone ==
  ASSUME ConicInv, pc = "relax", NEW open \in Seq(Regions), NextRegion(open),
         psd' = psd, convex' = convex,
         \A q \in Elements(open) : InBox(q.box) \subseteq InBox(hand.box),
         inc' \in Int, inc' <= inc, lower' \in Int, -Inf <= lower', lower' <= lower,
         failures' \in BOOLEAN, failures => failures',
         \A p \in InBox(hand.box) : hand.lb <= Value[p] =>
           \/ \E q \in Elements(open) : p \in InBox(q.box) /\ q.lb <= Value[p]
           \/ IF search = "spatial" THEN lower' <= Value[p]
              ELSE (inc' # Inf /\ inc' - Value[p] <= GapTol) \/ failures'
  PROVE  ConicInv'
<1>1. /\ pc' = "pop" /\ hand' = NoRegion /\ stack' = stack \o open
      /\ UNCHANGED <<prob, search, nodes, cut, expired, cancelled, answer>>
  BY DEF NextRegion, input, clock
<1>2. ConicTypeOK /\ ConicShape
  BY DEF ConicInv
<1>3. stack' \in Seq(Regions) /\ Elements(stack') = Elements(stack) \cup Elements(open)
  BY <1>1, <1>2, ElementsOfConcat DEF ConicTypeOK
<1>4. Open = {hand} \cup Elements(stack) /\ Open' = Elements(stack) \cup Elements(open)
  BY <1>1, <1>3, OpenIs DEF Open, Elements
<1>5. hand' \in Regions
  BY <1>1, Points2 DEF NoRegion, Region, Regions, Boxes
<1>6. Feasible' = Feasible
  BY <1>1 DEF Feasible
<1>7. ConicTypeOK'
  <2>1. inc' <= Inf
    BY <1>2, Points2 DEF ConicTypeOK
  <2> QED
    BY <1>1, <1>2, <1>3, <1>5, <2>1 DEF ConicTypeOK
<1>8. ConicShape' /\ ConvexFacts'
  BY <1>1, <1>2 DEF ConicShape, ConvexFacts
<1>9. InsideRoot'
  BY <1>4, <1>6 DEF ConicInv, InsideRoot
<1>10. GapHonest'
  BY <1>1, <1>2 DEF ConicShape, GapHonest
<1>11. ASSUME NEW p \in Feasible PROVE Accounted(p)'
  <2>1. Accounted(p)
    BY <1>11 DEF ConicInv, PointsAccounted
  <2>2. Value[p] \in Int /\ Inf \in Int /\ GapTol \in Nat /\ inc \in Int /\ lower \in Int /\ inc <= Inf
    BY <1>2, <1>11, Points2 DEF Feasible, InBox, ConicTypeOK
  <2>3. CASE \E r \in Elements(stack) : p \in InBox(r.box) /\ r.lb <= Value[p]
    BY <1>4, <2>3 DEF Accounted
  <2>4. CASE p \in InBox(hand.box) /\ hand.lb <= Value[p]
    BY <1>1, <1>4, <2>4 DEF Accounted
  <2>5. CASE search = "spatial" /\ lower <= Value[p]
    BY <1>1, <2>2, <2>5 DEF Accounted
  <2>6. CASE search # "spatial" /\ inc # Inf /\ inc - Value[p] <= GapTol
    BY <1>1, <2>2, <2>6 DEF Accounted
  <2>7. CASE search # "spatial" /\ (failures \/ cut # "no")
    BY <1>1, <2>7 DEF Accounted
  <2> QED
    BY <1>4, <2>1, <2>3, <2>4, <2>5, <2>6, <2>7 DEF Accounted
<1>12. PointsAccounted'
  BY <1>6, <1>11 DEF PointsAccounted
<1> QED
  BY <1>7, <1>8, <1>9, <1>10, <1>12 DEF ConicInv

\* The loop is left with region r unresolved.
LEMMA LeftWith ==
  ASSUME ConicInv, pc \in {"pop", "relax"}, NEW why \in {"timed_out", "limited"},
         NEW r \in Regions, Leave(why, r.lb), psd' = psd, convex' = convex,
         stack' \in Seq(Regions), hand' \in Regions,
         Open = {r} \cup Elements(stack')
  PROVE  ConicInv'
<1>1. /\ pc' = "close" /\ cut' = why
      /\ UNCHANGED <<prob, search, inc, nodes, failures, expired, cancelled, answer>>
      /\ lower' = IF search = "spatial" THEN Lesser(lower, r.lb) ELSE lower
  BY DEF Leave, Fold, input, clock
<1>2. ConicTypeOK /\ ConicShape
  BY DEF ConicInv
<1>3. r.lb \in Int /\ -Inf <= r.lb /\ lower \in Int /\ -Inf <= lower /\ Inf \in Int
  BY <1>2, Points2 DEF Regions, ConicTypeOK
<1>4. /\ lower' \in Int /\ -Inf <= lower' /\ lower' <= lower
      /\ search = "spatial" => lower' <= r.lb
  BY <1>1, <1>3 DEF Lesser
<1>5. ConicTypeOK'
  BY <1>1, <1>2, <1>4 DEF ConicTypeOK
<1>6. ConicShape' /\ ConvexFacts' /\ GapHonest'
  BY <1>1, <1>2 DEF ConicShape, ConvexFacts, GapHonest
<1>7. Feasible' = Feasible /\ Open' = Elements(stack')
  BY <1>1 DEF Feasible, Open, Elements
<1>8. InsideRoot'
  BY <1>7 DEF ConicInv, InsideRoot
<1>9. ASSUME NEW p \in Feasible PROVE Accounted(p)'
  <2>1. Accounted(p)
    BY <1>9 DEF ConicInv, PointsAccounted
  <2>2. Value[p] \in Int
    BY <1>9, Points2 DEF Feasible, InBox
  <2>3. CASE search # "spatial"
    BY <1>1, <2>3 DEF Accounted
  <2>4. CASE search = "spatial"
    <3>1. CASE lower <= Value[p] \/ r.lb <= Value[p]
      <4>1. lower' <= Value[p]
        BY <1>3, <1>4, <2>2, <2>4, <3>1
      <4> QED
        BY <1>1, <2>4, <4>1 DEF Accounted
    <3>2. CASE \E q \in Elements(stack') : p \in InBox(q.box) /\ q.lb <= Value[p]
      BY <1>7, <3>2 DEF Accounted
    <3> QED
      BY <2>1, <2>4, <3>1, <3>2 DEF Accounted
  <2> QED
    BY <2>3, <2>4
<1>10. PointsAccounted'
  BY <1>7, <1>9 DEF PointsAccounted
<1> QED
  BY <1>5, <1>6, <1>8, <1>10 DEF ConicInv

\* Taking a region, or leaving the loop before one, and the end of the stack.
LEMMA PopSteps ==
  ASSUME ConicInv, PopStopped \/ Pop \/ Drained, psd' = psd, convex' = convex
  PROVE  ConicInv'
<1>1. ConicTypeOK /\ ConicShape
  BY DEF ConicInv
<1>2. CASE PopStopped
  <2>1. /\ pc = "pop" /\ stack # <<>> /\ stack' = Below /\ hand' = hand
        /\ \E why \in {"timed_out", "limited"} : Leave(why, Top.lb)
    BY <1>2 DEF PopStopped
  <2>2. Below \in Seq(Regions) /\ Top \in Regions /\ Elements(stack) = Elements(Below) \cup {Top}
    BY <1>1, <2>1, ElementsOfPop DEF ConicTypeOK
  <2>3. Open = {Top} \cup Elements(stack')
    BY <2>1, <2>2, OpenIs
  <2> QED
    BY <1>1, <2>1, <2>2, <2>3, LeftWith DEF ConicTypeOK
<1>3. CASE Pop
  <2>1. /\ pc = "pop" /\ stack # <<>> /\ hand' = Top /\ stack' = Below
        /\ nodes' = nodes + 1 /\ pc' = "relax"
        /\ UNCHANGED <<prob, search, inc, lower, cut, failures, expired, cancelled, answer>>
    BY <1>3 DEF Pop, input, clock
  <2>2. Below \in Seq(Regions) /\ Top \in Regions /\ Elements(stack) = Elements(Below) \cup {Top}
    BY <1>1, <2>1, ElementsOfPop DEF ConicTypeOK
  <2>3. Open = Elements(stack) /\ Open' = {Top} \cup Elements(Below)
    BY <2>1, OpenIs DEF Open, Elements
  <2>4. Open' = Open /\ Feasible' = Feasible
    BY <2>1, <2>2, <2>3 DEF Feasible
  <2>5. ConicTypeOK'
    BY <1>1, <2>1, <2>2 DEF ConicTypeOK
  <2>6. ConicShape' /\ ConvexFacts' /\ GapHonest'
    BY <1>1, <2>1 DEF ConicShape, ConvexFacts, GapHonest
  <2>7. InsideRoot' /\ PointsAccounted'
    BY <2>1, <2>4 DEF ConicInv, InsideRoot, PointsAccounted, Accounted
  <2> QED
    BY <2>5, <2>6, <2>7 DEF ConicInv
<1>4. CASE Drained
  <2>1. /\ pc = "pop" /\ pc' = "close" /\ stack = <<>>
        /\ UNCHANGED <<prob, search, stack, hand, nodes, inc, lower, cut, failures, expired,
                       cancelled, answer>>
    BY <1>4 DEF Drained, input, clock
  <2>2. Open' = Open /\ Feasible' = Feasible
    BY <2>1 DEF Feasible, Open
  <2>3. ConicTypeOK'
    BY <1>1, <2>1 DEF ConicTypeOK
  <2>4. ConicShape' /\ ConvexFacts' /\ GapHonest'
    BY <1>1, <2>1 DEF ConicShape, ConvexFacts, GapHonest
  <2>5. InsideRoot' /\ PointsAccounted'
    BY <2>1, <2>2 DEF ConicInv, InsideRoot, PointsAccounted, Accounted
  <2> QED
    BY <2>3, <2>4, <2>5 DEF ConicInv
<1> QED
  BY <1>2, <1>3, <1>4

\* The region in hand is as typed, and so is what is known of the search.
LEMMA InHand ==
  ASSUME ConicInv, pc = "relax"
  PROVE  /\ hand.box \in Boxes /\ hand.lb \in Int /\ -Inf <= hand.lb
         /\ inc \in Int /\ inc <= Inf /\ lower \in Int /\ -Inf <= lower
         /\ failures \in BOOLEAN /\ prob \in Problems
         /\ search = "misocp" \/ search = "spatial"
         /\ Inf \in Int /\ -Inf \in Int /\ -Inf <= -Inf /\ GapTol \in Nat
         /\ \A p \in InBox(hand.box) : /\ Value[p] \in Int /\ Twice[p] \in Int
                                       /\ -Inf < Value[p] /\ Value[p] < Inf
                                       /\ Twice[p] % 2 = 0
  BY Points2 DEF ConicInv, ConicTypeOK, Regions, InBox

\* The region in hand needs no others.
LEMMA RegionGone ==
  ASSUME ConicInv, pc = "relax", NextRegion(<<>>), psd' = psd, convex' = convex,
         inc' \in Int, inc' <= inc, lower' \in Int, -Inf <= lower', lower' <= lower,
         failures' \in BOOLEAN, failures => failures',
         \A p \in InBox(hand.box) : hand.lb <= Value[p] =>
           IF search = "spatial" THEN lower' <= Value[p]
           ELSE (inc' # Inf /\ inc' - Value[p] <= GapTol) \/ failures'
  PROVE  ConicInv'
<1> DEFINE open == <<>>
<1>1. open \in Seq(Regions) /\ Elements(open) = {} /\ NextRegion(open)
  BY DEF Elements
<1> HIDE DEF open
<1> QED
  BY <1>1, RegionDone

\* What is left to relaxations that stop, fail or find nothing.
LEMMA RelaxSteps ==
  ASSUME ConicInv, RelaxTimedOut \/ RelaxFailed \/ RelaxEmpty, psd' = psd, convex' = convex
  PROVE  ConicInv'
<1>1. pc = "relax" /\ ConicTypeOK
  BY DEF ConicInv, RelaxTimedOut, RelaxFailed, RelaxEmpty
<1>2. CASE RelaxTimedOut
  <2>1. Leave("timed_out", hand.lb) /\ hand' = NoRegion /\ stack' = stack
    BY <1>2 DEF RelaxTimedOut
  <2>2. NoRegion \in Regions
    BY Points2 DEF NoRegion, Region, Regions, Boxes
  <2>3. Open = {hand} \cup Elements(stack')
    BY <1>1, <2>1, OpenIs
  <2> QED
    BY <1>1, <2>1, <2>2, <2>3, LeftWith DEF ConicTypeOK
<1>3. CASE RelaxFailed
  <2>1. /\ failures' = TRUE /\ inc' = inc /\ NextRegion(<<>>)
        /\ lower' = IF search = "spatial" THEN Lesser(lower, hand.lb) ELSE lower
    BY <1>3 DEF RelaxFailed, Fold
  <2>2. /\ lower' \in Int /\ -Inf <= lower' /\ lower' <= lower
        /\ search = "spatial" => lower' <= hand.lb
    BY <1>1, <2>1, InHand DEF Lesser
  <2>3. \A p \in InBox(hand.box) : hand.lb <= Value[p] =>
          IF search = "spatial" THEN lower' <= Value[p] ELSE failures'
    BY <1>1, <2>1, <2>2, InHand
  <2> QED
    BY <1>1, <2>1, <2>2, <2>3, InHand, RegionGone
<1>4. CASE RelaxEmpty
  <2>1. InBox(hand.box) = {} /\ NextRegion(<<>>) /\ UNCHANGED <<inc, lower, failures>>
    BY <1>4 DEF RelaxEmpty
  <2> QED
    BY <1>1, <2>1, InHand, RegionGone
<1> QED
  BY <1>2, <1>3, <1>4

\* A region is branched on at `below` and `above`, its children with the bound lb.
LEMMA Rounded ==
  ASSUME ConicInv, pc = "relax", psd' = psd, convex' = convex,
         NEW lb \in {v \in Int : -Inf <= v}, NEW below \in Int, NEW above \in Int,
         below <= hand.box.hi \/ below < hand.box.lo,
         hand.box.lo <= above \/ hand.box.hi < above,
         \A p \in InBox(hand.box) : Twice[p] <= below \/ above <= Twice[p],
         \A p \in InBox(hand.box) : hand.lb <= Value[p] => lb <= Value[p],
         NextRegion(RoundApart(hand.box, below, above, lb)),
         UNCHANGED <<inc, lower, failures>>
  PROVE  ConicInv'
<1> DEFINE open == RoundApart(hand.box, below, above, lb)
<1>1. /\ open \in Seq(Regions)
      /\ \A q \in Elements(open) : q.lb = lb /\ InBox(q.box) \subseteq InBox(hand.box)
      /\ \A p \in InBox(hand.box) : \E q \in Elements(open) : p \in InBox(q.box)
  BY InHand, RoundingCovers
<1> HIDE DEF open
<1>2. \A p \in InBox(hand.box) : hand.lb <= Value[p] =>
        \E q \in Elements(open) : p \in InBox(q.box) /\ q.lb <= Value[p]
  BY <1>1
<1>3. NextRegion(open)
  BY DEF open
<1> QED
  BY <1>1, <1>2, <1>3, InHand, RegionDone

\* An improving ray: nothing to round, a bisection, or an answer.
LEMMA RayRegions ==
  ASSUME ConicInv, RayNoInteger \/ RayBisect, psd' = psd, convex' = convex
  PROVE  ConicInv'
<1>1. pc = "relax" /\ search = "misocp" /\ UNCHANGED <<inc, lower, failures>>
  BY DEF RayNoInteger, RayBisect, Relaxing
<1> DEFINE lo == hand.box.lo
           hi == hand.box.hi
<1>2. lo \in Int /\ hi \in Int
  BY <1>1, InHand DEF Boxes
<1>3. CASE RayNoInteger
  <2>1. lo = hi /\ lo % 2 = 1 /\ NextRegion(<<>>)
    BY <1>3 DEF RayNoInteger
  <2>2. InBox(hand.box) = {}
    <3>1. SUFFICES ASSUME NEW p \in InBox(hand.box) PROVE FALSE
      OBVIOUS
    <3>2. Twice[p] \in Int /\ lo <= Twice[p] /\ Twice[p] <= hi /\ Twice[p] % 2 = 0
      BY <1>1, <3>1, InHand DEF InBox
    <3>3. Twice[p] = lo
      BY <1>2, <2>1, <3>2
    <3> QED
      BY <2>1, <3>2, <3>3
  <2> QED
    BY <1>1, <2>1, <2>2, InHand, RegionGone
<1>4. CASE RayBisect
  <2> DEFINE mid == 2 * ((lo + hi) \div 4)
  <2>1. NextRegion(RoundApart(hand.box, mid, mid + 2, -Inf))
    BY <1>4 DEF RayBisect, Bisected
  <2>2. /\ mid \in Int /\ mid % 2 = 0
        /\ mid <= hi \/ mid < lo
        /\ lo <= mid + 2 \/ hi < mid + 2
    BY <1>2
  <2>3. \A p \in InBox(hand.box) : Twice[p] <= mid \/ mid + 2 <= Twice[p]
    <3>1. SUFFICES ASSUME NEW p \in InBox(hand.box) PROVE Twice[p] <= mid \/ mid + 2 <= Twice[p]
      OBVIOUS
    <3>2. Twice[p] \in Int /\ Twice[p] % 2 = 0
      BY <1>1, InHand
    <3> HIDE DEF mid
    <3> QED
      BY <2>2, <3>2
  <2>4. mid + 2 \in Int
    BY <2>2
  <2> HIDE DEF mid
  <2>5. \A p \in InBox(hand.box) : hand.lb <= Value[p] => -Inf <= Value[p]
    BY <1>1, InHand
  <2> QED
    BY <1>1, <2>1, <2>2, <2>3, <2>4, <2>5, InHand, Rounded
<1> QED
  BY <1>3, <1>4

\* Steps that answer.
LEMMA RayAnswers ==
  ASSUME ConicInv, RayUnbounded, psd' = psd, convex' = convex
  PROVE  ConicInv'
<1>1. /\ pc = "relax" /\ search = "misocp" /\ hand' = NoRegion /\ stack' = stack
      /\ ConicTypeOK /\ ConicShape
  BY DEF ConicInv, RayUnbounded, Relaxing
<1>2. NoRegion \in Regions
  BY Points2 DEF NoRegion, Region, Regions, Boxes
<1>3. CASE Leave("timed_out", hand.lb)
  <2>1. Open = {hand} \cup Elements(stack')
    BY <1>1, OpenIs
  <2> QED
    BY <1>1, <1>2, <1>3, <2>1, LeftWith DEF ConicTypeOK
<1>4. CASE ~Leave("timed_out", hand.lb)
  <2>1. /\ answer' = [status |-> "Unbounded", obj |-> -Inf, lb |-> -Inf] /\ pc' = "done"
        /\ UNCHANGED <<prob, search, inc, lower, nodes, cut, failures, expired, cancelled>>
    BY <1>4 DEF RayUnbounded, input, clock
  <2>2. ConicTypeOK'
    BY <1>1, <1>2, <2>1 DEF ConicTypeOK
  <2>3. ConicShape' /\ ConvexFacts' /\ GapHonest' /\ PointsAccounted'
    BY <1>1, <2>1 DEF ConicShape, ConvexFacts, GapHonest, PointsAccounted
  <2>4. Open' \subseteq Open /\ Feasible' = Feasible
    BY <1>1, <2>1 DEF Open, Feasible
  <2>5. InsideRoot'
    BY <2>4 DEF ConicInv, InsideRoot
  <2> QED
    BY <2>2, <2>3, <2>5 DEF ConicInv
<1> QED
  BY <1>3, <1>4

\* A panic ends the search; the regions stay accounted for.
LEMMA PanicAnswers ==
  ASSUME ConicInv, NEW b \in Bounds, MisocpPanics(b), psd' = psd, convex' = convex
  PROVE  ConicInv'
<1>1. /\ pc = "relax" /\ search = "misocp" /\ hand' = NoRegion
      /\ ConicTypeOK /\ ConicShape
      /\ answer' = [status |-> "panic", obj |-> Inf, lb |-> -Inf] /\ pc' = "done"
      /\ UNCHANGED <<prob, search, stack, inc, lower, nodes, cut, failures, expired, cancelled>>
  BY DEF ConicInv, MisocpPanics, Relaxed, Relaxing, input, clock
<1>2. NoRegion \in Regions
  BY Points2 DEF NoRegion, Region, Regions, Boxes
<1>3. ConicTypeOK'
  BY <1>1, <1>2 DEF ConicTypeOK
<1>4. ConicShape' /\ ConvexFacts' /\ GapHonest' /\ PointsAccounted'
  BY <1>1 DEF ConicShape, ConvexFacts, GapHonest, PointsAccounted
<1>5. Open' \subseteq Open /\ Feasible' = Feasible
  BY <1>1 DEF Open, Feasible
<1>6. InsideRoot'
  BY <1>5 DEF ConicInv, InsideRoot
<1> QED
  BY <1>3, <1>4, <1>6 DEF ConicInv

\* An optimum b of the relaxation, and its maximum with the inherited bound, are below
\* every point of the region.
LEMMA BoundHolds ==
  ASSUME ConicInv, NEW b \in Bounds, NEW name, Relaxed(name, b)
  PROVE  /\ pc = "relax" /\ search = name /\ failures' = failures
         /\ b \in Int /\ -Inf < b /\ b < Inf
         /\ Greater(b, hand.lb) \in {v \in Int : -Inf <= v}
         /\ \A p \in InBox(hand.box) :
              b <= Value[p] /\ (hand.lb <= Value[p] => Greater(b, hand.lb) <= Value[p])
<1>1. pc = "relax" /\ search = name /\ failures' = failures /\ b \in RelaxationBounds(hand.box)
  BY DEF Relaxed, Relaxing
<1>2. b \in Int /\ -Inf < b /\ b < Inf /\ \A p \in InBox(hand.box) : b <= Value[p]
  BY <1>1, Points2 DEF RelaxationBounds
<1>3. hand.lb \in Int /\ -Inf <= hand.lb /\ Inf \in Int
  BY <1>1, InHand
<1> QED
  BY <1>1, <1>2, <1>3 DEF Greater

\* What the bound of a terminal region becomes.
LEMMA Folded ==
  ASSUME ConicInv, pc = "relax", NEW lb \in {v \in Int : -Inf <= v}, Fold(lb)
  PROVE  /\ lower' \in Int /\ -Inf <= lower' /\ lower' <= lower
         /\ search = "spatial" => lower' <= lb
  BY InHand DEF Fold, Lesser

\* A region is pruned, its bound within the tolerance of the incumbent.
LEMMA PrunedStep ==
  ASSUME ConicInv, NEW b \in Bounds, Pruned(b), psd' = psd, convex' = convex
  PROVE  ConicInv'
<1> DEFINE lb == Greater(b, hand.lb)
<1>1. Relaxed(search, b) /\ Worse(lb) /\ Fold(lb) /\ NextRegion(<<>>) /\ inc' = inc
  BY DEF Pruned
<1>2. /\ pc = "relax" /\ failures' = failures /\ lb \in {v \in Int : -Inf <= v}
      /\ \A p \in InBox(hand.box) : hand.lb <= Value[p] => lb <= Value[p]
  BY <1>1, BoundHolds
<1> HIDE DEF lb
<1>3. /\ lower' \in Int /\ -Inf <= lower' /\ lower' <= lower
      /\ search = "spatial" => lower' <= lb
  BY <1>1, <1>2, Folded
<1>4. ASSUME NEW p \in InBox(hand.box), hand.lb <= Value[p]
      PROVE  IF search = "spatial" THEN lower' <= Value[p]
             ELSE inc' # Inf /\ inc' - Value[p] <= GapTol
  <2>1. lb <= Value[p] /\ Value[p] \in Int /\ lb \in Int /\ inc \in Int /\ GapTol \in Nat
    BY <1>2, <1>4, InHand
  <2>2. inc # Inf /\ lb >= inc - GapTol
    BY <1>1 DEF Worse
  <2> QED
    BY <1>1, <1>3, <2>1, <2>2
<1> QED
  BY <1>1, <1>2, <1>3, <1>4, InHand, RegionGone

\* Branching on an integer variable that is fractional in the relaxation.
LEMMA FractionalSteps ==
  ASSUME ConicInv, NEW b \in Bounds, MisocpFractional(b) \/ SpatialFractional(b),
         psd' = psd, convex' = convex
  PROVE  ConicInv'
<1>1. PICK lb \in {v \in Int : -Inf <= v}, v \in Fractional(hand.box) :
        /\ NextRegion(RoundApart(hand.box, v - 1, v + 1, lb))
        /\ pc = "relax" /\ UNCHANGED <<inc, lower, failures>>
        /\ \A p \in InBox(hand.box) : hand.lb <= Value[p] => lb <= Value[p]
  <2>1. CASE MisocpFractional(b)
    <3>1. /\ Relaxed("misocp", b) /\ UNCHANGED <<inc, lower>>
          /\ \E v \in Fractional(hand.box) :
               NextRegion(RoundApart(hand.box, v - 1, v + 1, -Inf))
      BY <2>1 DEF MisocpFractional
    <3>2. pc = "relax" /\ failures' = failures
      BY <3>1, BoundHolds
    <3>3. /\ -Inf \in {v \in Int : -Inf <= v}
          /\ \A p \in InBox(hand.box) : hand.lb <= Value[p] => -Inf <= Value[p]
      BY <3>2, InHand
    <3> QED
      BY <3>1, <3>2, <3>3
  <2>2. CASE SpatialFractional(b)
    <3> DEFINE lb == Greater(b, hand.lb)
    <3>1. /\ Relaxed("spatial", b) /\ UNCHANGED <<inc, lower>>
          /\ \E v \in Fractional(hand.box) :
               NextRegion(RoundApart(hand.box, v - 1, v + 1, lb))
      BY <2>2 DEF SpatialFractional
    <3>2. /\ pc = "relax" /\ failures' = failures /\ lb \in {v \in Int : -Inf <= v}
          /\ \A p \in InBox(hand.box) : hand.lb <= Value[p] => lb <= Value[p]
      BY <3>1, BoundHolds
    <3> HIDE DEF lb
    <3> QED
      BY <3>1, <3>2
  <2> QED
    BY <2>1, <2>2
<1>2. hand.box.lo \in Int /\ hand.box.hi \in Int
  BY <1>1, InHand DEF Boxes
<1>3. /\ v \in Int /\ hand.box.lo <= v /\ v <= hand.box.hi /\ v % 2 = 1
      /\ v - 1 \in Int /\ v + 1 \in Int
  BY <1>2 DEF Fractional
<1>4. ASSUME NEW p \in InBox(hand.box) PROVE Twice[p] <= v - 1 \/ v + 1 <= Twice[p]
  <2>1. Twice[p] \in Int /\ Twice[p] % 2 = 0
    BY <1>1, InHand
  <2>2. Twice[p] # v
    BY <1>3, <2>1
  <2> QED
    BY <1>3, <2>1, <2>2
<1>5. /\ v - 1 <= hand.box.hi \/ v - 1 < hand.box.lo
      /\ hand.box.lo <= v + 1 \/ hand.box.hi < v + 1
  BY <1>2, <1>3
<1> QED
  BY <1>1, <1>3, <1>4, <1>5, Rounded

\* misocp: a point that rounds, or one that does not.
LEMMA MisocpLeafStep ==
  ASSUME ConicInv, NEW b \in Bounds, MisocpLeaf(b), psd' = psd, convex' = convex
  PROVE  ConicInv'
<1>1. Relaxed("misocp", b) /\ inc' = Lesser(inc, b) /\ NextRegion(<<>>) /\ lower' = lower
  BY DEF MisocpLeaf
<1>2. /\ pc = "relax" /\ search = "misocp" /\ failures' = failures /\ b \in Int /\ b < Inf
      /\ \A p \in InBox(hand.box) : b <= Value[p]
  BY <1>1, BoundHolds
<1>3. inc' \in Int /\ inc' <= inc /\ inc' <= b /\ inc' # Inf
  BY <1>1, <1>2, InHand DEF Lesser
<1>4. ASSUME NEW p \in InBox(hand.box) PROVE inc' # Inf /\ inc' - Value[p] <= GapTol
  <2>1. b <= Value[p] /\ Value[p] \in Int /\ GapTol \in Nat
    BY <1>2, InHand
  <2> QED
    BY <1>2, <1>3, <2>1
<1> QED
  BY <1>1, <1>2, <1>3, <1>4, InHand, RegionGone

\* An integral relaxation whose rounding is not feasible: the region is split around it.
LEMMA NotRoundedStep ==
  ASSUME ConicInv, NEW b \in Bounds, MisocpNotRounded(b), psd' = psd, convex' = convex
  PROVE  ConicInv'
<1>1. Relaxed("misocp", b) /\ UNCHANGED <<inc, lower>>
  BY DEF MisocpNotRounded
<1>2. pc = "relax" /\ failures' = failures
  BY <1>1, BoundHolds
<1>3. hand.box.lo \in Int /\ hand.box.hi \in Int
  BY <1>2, InHand DEF Boxes
<1>4. PICK v \in {w \in hand.box.lo .. hand.box.hi : w % 2 = 0} :
        \/ NextRegion(RoundApart(hand.box, v, v, -Inf))
        \/ NextRegion(RoundApart(hand.box, v, v + 2, -Inf))
        \/ NextRegion(RoundApart(hand.box, v - 2, v, -Inf))
  BY DEF MisocpNotRounded
<1>5. v \in Int /\ v % 2 = 0 /\ hand.box.lo <= v /\ v <= hand.box.hi
  BY <1>3, <1>4
<1>6. PICK below \in {v, v - 2}, above \in {v, v + 2} :
        /\ NextRegion(RoundApart(hand.box, below, above, -Inf))
        /\ below = v \/ above = v
  BY <1>4
<1>7. /\ below \in Int /\ above \in Int
      /\ below <= hand.box.hi \/ below < hand.box.lo
      /\ hand.box.lo <= above \/ hand.box.hi < above
  BY <1>3, <1>5, <1>6
<1>8. ASSUME NEW p \in InBox(hand.box) PROVE Twice[p] <= below \/ above <= Twice[p]
  <2>1. Twice[p] \in Int /\ Twice[p] % 2 = 0
    BY <1>2, InHand
  <2>2. Twice[p] # v + 1 /\ Twice[p] # v - 1
    BY <1>5, <2>1
  <2> QED
    BY <1>5, <1>6, <2>1, <2>2
<1>9. \A p \in InBox(hand.box) : hand.lb <= Value[p] => -Inf <= Value[p]
  BY <1>2, InHand
<1> QED
  BY <1>1, <1>2, <1>6, <1>7, <1>8, <1>9, InHand, Rounded

\* spatial: what is accepted is a feasible point.
LEMMA AcceptedType ==
  ASSUME ConicInv, pc = "relax", Accepted
  PROVE  inc' \in Int /\ inc' <= inc
  BY InHand DEF Accepted, Lesser

\* A leaf of the spatial search is folded, and a region is split in two cells of it.
LEMMA SpatialSteps ==
  ASSUME ConicInv, NEW b \in Bounds, SpatialLeaf(b) \/ SpatialSplit(b),
         psd' = psd, convex' = convex
  PROVE  ConicInv'
<1> DEFINE lb == Greater(b, hand.lb)
<1>1. Relaxed("spatial", b) /\ Accepted
  BY DEF SpatialLeaf, SpatialSplit
<1>2. /\ pc = "relax" /\ search = "spatial" /\ failures' = failures
      /\ lb \in {v \in Int : -Inf <= v}
      /\ \A p \in InBox(hand.box) : hand.lb <= Value[p] => lb <= Value[p]
  BY <1>1, BoundHolds
<1>3. inc' \in Int /\ inc' <= inc
  BY <1>1, <1>2, AcceptedType
<1>4. CASE SpatialLeaf(b)
  <2>1. Fold(lb) /\ NextRegion(<<>>)
    BY <1>4 DEF SpatialLeaf
  <2> HIDE DEF lb
  <2>2. /\ lower' \in Int /\ -Inf <= lower' /\ lower' <= lower
        /\ lower' <= lb
    BY <1>2, <2>1, Folded
  <2>3. \A p \in InBox(hand.box) : hand.lb <= Value[p] => lower' <= Value[p]
    BY <1>2, <2>2, InHand
  <2> QED
    BY <1>2, <1>3, <2>1, <2>2, <2>3, InHand, RegionGone
<1>5. CASE SpatialSplit(b)
  <2>1. PICK s \in hand.box.first .. (hand.box.last - 1) : NextRegion(SplitCells(hand.box, s, lb))
    BY <1>5 DEF SpatialSplit
  <2>2. lower' = lower
    BY <1>5 DEF SpatialSplit
  <2> DEFINE open == SplitCells(hand.box, s, lb)
  <2> HIDE DEF lb
  <2>3. /\ open \in Seq(Regions)
        /\ \A q \in Elements(open) : q.lb = lb /\ InBox(q.box) \subseteq InBox(hand.box)
        /\ \A p \in InBox(hand.box) : \E q \in Elements(open) : p \in InBox(q.box)
    BY <1>2, InHand, SplittingCovers
  <2>4. NextRegion(open)
    BY <2>1
  <2> HIDE DEF open
  <2>5. \A p \in InBox(hand.box) : hand.lb <= Value[p] =>
          \E q \in Elements(open) : p \in InBox(q.box) /\ q.lb <= Value[p]
    BY <1>2, <2>3
  <2> QED
    BY <1>2, <1>3, <2>2, <2>3, <2>4, <2>5, InHand, RegionDone
<1> QED
  BY <1>1, <1>4, <1>5

-----------------------------------------------------------------------------
(* The end of the search *)

\* A set of integers that is bounded from below has a least element.
LEMMA LeastNatural ==
  ASSUME NEW T, T \subseteq Nat, T # {}
  PROVE  \E x \in T : \A y \in T : x <= y
<1>1. PICK x \in T : \A y \in T : <<y, x>> \notin OpToRel(<, Nat)
  BY WFMin, NatLessThanWellFounded, Zenon
<1>2. \A y \in T : ~(y < x)
  BY <1>1, Zenon DEF OpToRel
<1> QED
  BY <1>2

\* So has a set of integers that is bounded below.
LEMMA LeastInteger ==
  ASSUME NEW T \in SUBSET Int, T # {}, NEW low \in Int, \A v \in T : low <= v
  PROVE  \E x \in T : \A y \in T : x <= y
<1> DEFINE above == {v - low : v \in T}
<1>1. \A v \in T : v \in Int /\ v - low \in Nat
  OBVIOUS
<1>2. above \subseteq Nat /\ above # {}
  BY <1>1
<1>3. PICK x \in above : \A y \in above : x <= y
  <2> HIDE DEF above
  <2> QED
    BY <1>2, LeastNatural
<1>4. PICK v \in T : x = v - low
  OBVIOUS
<1>5. ASSUME NEW w \in T PROVE v <= w
  <2>1. w - low \in above
    OBVIOUS
  <2> QED
    BY <1>1, <1>3, <1>4, <2>1
<1> QED
  BY <1>5

\* The reported bound is below that of every open region and of the terminal ones.
LEMMA OpenBoundIs ==
  ASSUME ConicTypeOK
  PROVE  /\ OpenBound \in Int /\ OpenBound <= lower
         /\ \A r \in Elements(stack) : r.lb \in Int /\ OpenBound <= r.lb
         /\ stack = <<>> => OpenBound = lower
<1> DEFINE open == {stack[i].lb : i \in DOMAIN stack} \cup {lower}
<1>1. /\ stack \in Seq(Regions) /\ lower \in Int /\ -Inf <= lower
      /\ -Inf \in Int
  BY Points2 DEF ConicTypeOK
<1>2. \A i \in DOMAIN stack : stack[i].lb \in Int /\ -Inf <= stack[i].lb
  <2>1. \A i \in DOMAIN stack : stack[i] \in Regions
    BY <1>1, ElementOfSeq, LenProperties
  <2> QED
    BY <2>1 DEF Regions
<1>3. open \in SUBSET Int /\ open # {} /\ \A v \in open : -Inf <= v
  BY <1>1, <1>2
<1>4. OpenBound = CHOOSE v \in open : \A w \in open : v <= w
  BY DEF OpenBound
<1>5. /\ lower \in open /\ \A i \in DOMAIN stack : stack[i].lb \in open
      /\ stack = <<>> => open = {lower}
  OBVIOUS
<1> HIDE DEF open
<1>6. \E v \in open : \A w \in open : v <= w
  BY <1>1, <1>3, LeastInteger
<1>7. OpenBound \in open /\ \A w \in open : OpenBound <= w
  BY <1>4, <1>6
<1>8. OpenBound \in Int /\ OpenBound <= lower
  BY <1>3, <1>5, <1>7
<1>9. \A i \in DOMAIN stack : stack[i].lb \in Int /\ OpenBound <= stack[i].lb
  BY <1>2, <1>5, <1>7
<1>10. stack = <<>> => OpenBound = lower
  BY <1>5, <1>7
<1> QED
  BY <1>8, <1>9, <1>10 DEF Elements

\* The classification after the loop: the bound it reports is below every point.
LEMMA CloseStep ==
  ASSUME ConicInv, Close, psd' = psd, convex' = convex
  PROVE  ConicInv'
<1> DEFINE status == StatusOf(~failures /\ BoundsMeet)
<1>1. /\ pc = "close" /\ pc' = "done"
      /\ answer' = [status |-> status, obj |-> inc, lb |-> ReportedBound(status)]
      /\ UNCHANGED <<prob, search, stack, hand, inc, lower, nodes, cut, failures, expired,
                     cancelled>>
  BY DEF Close, input, clock
<1>2. ConicTypeOK /\ ConicShape
  BY DEF ConicInv
<1>3. status # "none"
  BY <1>2 DEF StatusOf, ConicTypeOK
<1> HIDE DEF status
<1>4. ConicTypeOK'
  BY <1>1, <1>2 DEF ConicTypeOK
<1>5. ConicShape' /\ ConvexFacts' /\ PointsAccounted'
  BY <1>1, <1>2, <1>3 DEF ConicShape, ConvexFacts, PointsAccounted
<1>6. Open' = Open /\ Feasible' = Feasible
  BY <1>1 DEF Open, Feasible
<1>7. InsideRoot'
  BY <1>6 DEF ConicInv, InsideRoot
<1>8. ASSUME search = "spatial", NEW p \in Feasible PROVE answer'.lb <= Value[p]
  <2>1. answer'.lb = Lesser(inc, OpenBound)
    BY <1>1, <1>8 DEF ReportedBound
  <2>2. Value[p] \in Int /\ inc \in Int /\ lower \in Int
    BY <1>2, <1>8, Points2 DEF Feasible, InBox, ConicTypeOK
  <2>3. /\ OpenBound \in Int /\ OpenBound <= lower
        /\ \A r \in Elements(stack) : r.lb \in Int /\ OpenBound <= r.lb
    BY <1>2, OpenBoundIs
  <2>4. Accounted(p) /\ Open = Elements(stack)
    BY <1>1, <1>8, OpenIs DEF ConicInv, PointsAccounted
  <2>5. OpenBound <= Value[p]
    <3>1. CASE lower <= Value[p]
      BY <2>2, <2>3, <3>1
    <3>2. CASE \E r \in Elements(stack) : r.lb <= Value[p]
      BY <2>2, <2>3, <3>2
    <3> QED
      BY <1>8, <2>4, <3>1, <3>2 DEF Accounted
  <2> QED
    BY <2>1, <2>2, <2>3, <2>5 DEF Lesser
<1>9. GapHonest'
  BY <1>1, <1>6, <1>8 DEF GapHonest
<1> QED
  BY <1>4, <1>5, <1>7, <1>9 DEF ConicInv

-----------------------------------------------------------------------------
(* The entries *)

\* An entry answers.
LEMMA AnsweredAtOnce ==
  ASSUME ConicInv, pc \in {"entry", "route"}, NEW status, NEW obj, Answered(status, obj),
         status # "none",
         \A p \in Feasible : status = "Optimal" => obj <= Value[p]
  PROVE  ConicInv'
<1>1. /\ pc' = "done"
      /\ answer' = [status |-> status, obj |-> obj,
                    lb |-> IF status = "Optimal" THEN obj ELSE -Inf]
      /\ UNCHANGED <<prob, search, stack, hand, inc, lower, nodes, cut, failures, expired,
                     cancelled, psd, convex>>
  BY DEF Answered, input, clock, routeVars
<1>2. ConicTypeOK /\ ConicShape
  BY DEF ConicInv
<1>3. ConicTypeOK'
  BY <1>1, <1>2 DEF ConicTypeOK
<1>4. ConicShape' /\ ConvexFacts' /\ PointsAccounted'
  BY <1>1, <1>2 DEF ConicShape, ConvexFacts, PointsAccounted
<1>5. Open' = Open /\ Feasible' = Feasible
  BY <1>1 DEF Open, Feasible
<1>6. InsideRoot'
  BY <1>5 DEF ConicInv, InsideRoot
<1>7. ASSUME NEW p \in Feasible PROVE answer'.lb <= Value[p]
  <2>1. Value[p] \in Int /\ Inf \in Int /\ -Inf < Value[p]
    BY <1>7, Points2 DEF Feasible, InBox
  <2>2. -Inf <= Value[p]
    BY <2>1
  <2> QED
    BY <1>1, <2>2
<1>8. GapHonest'
  BY <1>5, <1>7 DEF GapHonest
<1> QED
  BY <1>3, <1>4, <1>6, <1>8 DEF ConicInv

\* An entry launches the search: the root holds every feasible point.
LEMMA LaunchedSearch ==
  ASSUME ConicInv, pc \in {"entry", "route"}, Launched
  PROVE  ConicInv'
<1>1. /\ pc' = "pop"
      /\ UNCHANGED <<prob, search, stack, hand, inc, lower, nodes, cut, failures, expired,
                     cancelled, answer, psd, convex>>
  BY DEF Launched, input, clock, routeVars
<1>2. ConicTypeOK /\ ConicShape
  BY DEF ConicInv
<1>3. ConicTypeOK'
  BY <1>1, <1>2 DEF ConicTypeOK
<1>4. ConicShape' /\ ConvexFacts' /\ GapHonest'
  BY <1>1, <1>2 DEF ConicShape, ConvexFacts, GapHonest
<1>5. Open' = Open /\ Feasible' = Feasible
  BY <1>1 DEF Open, Feasible
<1>6. InsideRoot'
  BY <1>5 DEF ConicInv, InsideRoot
<1> DEFINE root == Region(prob.box, -Inf)
<1>7. stack = <<root>> /\ root.box = prob.box /\ root.lb = -Inf
  BY <1>2 DEF ConicShape, Region
<1> HIDE DEF root
<1>8. Open' = {root}
  BY <1>1, <1>7 DEF Open
<1>9. ASSUME NEW p \in Feasible PROVE p \in InBox(root.box) /\ root.lb <= Value[p]
  <2>1. Value[p] \in Int /\ Inf \in Int /\ -Inf < Value[p]
    BY <1>9, Points2 DEF Feasible, InBox
  <2> QED
    BY <1>7, <1>9, <2>1 DEF Feasible
<1>10. PointsAccounted'
  BY <1>5, <1>8, <1>9 DEF PointsAccounted, Accounted
<1> QED
  BY <1>3, <1>4, <1>6, <1>10 DEF ConicInv

\* What the outcomes of the convex attempt promise, the clean ones.
LEMMA OutcomeIs ==
  ASSUME ConicTypeOK, NEW o \in ConvexOutcomes
  PROVE  /\ Clean(o) /\ o.status = "Optimal" =>
              /\ \E p \in Feasible : o.obj = Value[p]
              /\ \A p \in Feasible : o.obj <= Value[p]
         /\ Clean(o) /\ o.status # "Optimal" => o.obj = Inf
         /\ Clean(o) /\ o.status = "Infeasible" => Feasible = {}
         /\ Clean(o) /\ o.status = "Unbounded" => prob.ray
<1>1. CASE o.status = "Optimal"
  <2>1. \E v \in ConvexOptima : o = [status |-> "Optimal", obj |-> v]
    BY <1>1 DEF ConvexOutcomes
  <2> QED
    BY <1>1, <2>1 DEF Clean, ConvexOptima
<1>2. CASE o.status # "Optimal"
  <2>1. o.obj = Inf
    BY <1>2 DEF ConvexOutcomes
  <2>2. /\ o.status = "Infeasible" => Feasible = {} \/ psd = "clamped"
        /\ o.status = "Unbounded" => prob.ray \/ psd = "clamped"
    BY <1>2 DEF ConvexOutcomes
  <2> QED
    BY <1>2, <2>1, <2>2 DEF Clean
<1> QED
  BY <1>1, <1>2

\* The convex attempt before the spatial search, however it ends.
LEMMA ConvexStep ==
  ASSUME ConicInv, ConvexAttempt, search = "spatial"
  PROVE  ConicInv'
<1>1. PICK o \in ConvexOutcomes : convex' = o /\ inc' = IF Clean(o) THEN o.obj ELSE Inf
  BY DEF ConvexAttempt
<1>2. /\ pc = "entry" /\ pc' = "route"
      /\ UNCHANGED <<prob, search, stack, hand, lower, nodes, cut, failures, expired,
                     cancelled, answer, psd>>
  BY DEF ConvexAttempt, input, clock
<1>3. ConicTypeOK /\ ConicShape
  BY DEF ConicInv
<1>4. /\ Clean(o) /\ o.status = "Optimal" =>
           /\ \E p \in Feasible : o.obj = Value[p]
           /\ \A p \in Feasible : o.obj <= Value[p]
      /\ Clean(o) /\ o.status # "Optimal" => o.obj = Inf
      /\ Clean(o) /\ o.status = "Infeasible" => Feasible = {}
      /\ Clean(o) /\ o.status = "Unbounded" => prob.ray
  BY <1>3, OutcomeIs
<1>5. Feasible' = Feasible /\ Open' = Open
  BY <1>2 DEF Feasible, Open
<1>6. inc' \in Int /\ inc' <= Inf
  <2>1. Inf \in Int /\ Inf <= Inf /\ \A p \in Feasible : Value[p] \in Int /\ Value[p] <= Inf
    BY Points2 DEF Feasible, InBox
  <2> QED
    BY <1>1, <1>4, <2>1
<1>7. ConicTypeOK'
  BY <1>2, <1>3, <1>6 DEF ConicTypeOK
<1>8. ConicShape' /\ GapHonest' /\ PointsAccounted'
  BY <1>2, <1>3 DEF ConicShape, GapHonest, PointsAccounted
<1>9. Clean(convex)' <=> Clean(o)
  BY <1>1, <1>2 DEF Clean
<1>10. ConvexFacts'
  BY <1>1, <1>2, <1>4, <1>5, <1>9 DEF ConvexFacts
<1>11. InsideRoot'
  BY <1>5 DEF ConicInv, InsideRoot
<1> QED
  BY <1>7, <1>8, <1>10, <1>11 DEF ConicInv

\* Every step keeps the invariant, and the kind of search the entry chose.
ConicIInv == ConicInv /\ search = SearchOf(route)

\* Every step of the searches keeps the invariant.
LEMMA SearchSteps ==
  ASSUME ConicInv, SearchStep, psd' = psd, convex' = convex
  PROVE  ConicInv'
<1>1. CASE PopStopped \/ Pop \/ Drained
  BY <1>1, PopSteps
<1>2. CASE RelaxTimedOut \/ RelaxFailed \/ RelaxEmpty
  BY <1>2, RelaxSteps
<1>3. CASE RayUnbounded
  BY <1>3, RayAnswers
<1>4. CASE RayNoInteger \/ RayBisect
  BY <1>4, RayRegions
<1>5. CASE Close
  BY <1>5, CloseStep
<1>6. ASSUME NEW b \in Bounds,
             \/ Pruned(b) \/ MisocpFractional(b) \/ MisocpLeaf(b) \/ MisocpNotRounded(b)
             \/ MisocpPanics(b) \/ SpatialFractional(b) \/ SpatialLeaf(b) \/ SpatialSplit(b)
      PROVE  ConicInv'
  <2>1. CASE Pruned(b)
    BY <2>1, PrunedStep
  <2>2. CASE MisocpFractional(b) \/ SpatialFractional(b)
    BY <2>2, FractionalSteps
  <2>3. CASE MisocpLeaf(b)
    BY <2>3, MisocpLeafStep
  <2>4. CASE MisocpNotRounded(b)
    BY <2>4, NotRoundedStep
  <2>5. CASE MisocpPanics(b)
    BY <2>5, PanicAnswers
  <2>6. CASE SpatialLeaf(b) \/ SpatialSplit(b)
    BY <2>6, SpatialSteps
  <2> QED
    BY <1>6, <2>1, <2>2, <2>3, <2>4, <2>5, <2>6
<1> QED
  BY <1>1, <1>2, <1>3, <1>4, <1>5, <1>6 DEF SearchStep

\* The search never changes its problem, nor its kind.
LEMMA InputStays ==
  ASSUME SearchStep \/ Cancel \/ Expire
  PROVE  UNCHANGED <<prob, search>>
  BY DEF SearchStep, Cancel, Expire, PopStopped, Pop, Drained, Leave, RelaxTimedOut,
         RelaxFailed, RelaxEmpty, RayUnbounded, RayNoInteger, RayBisect, Pruned,
         MisocpFractional, MisocpLeaf, MisocpNotRounded, MisocpPanics, SpatialFractional,
         SpatialLeaf, SpatialSplit, Close, NextRegion, input

\* So does every step of an entry around them.
LEMMA EntrySteps ==
  ASSUME ConicIInv, EnterMisocp \/ EnterGlobal \/ ConvexAttempt \/ ReturnConvex \/ FallBack
  PROVE  ConicIInv'
<1>1. ConicInv /\ ConicTypeOK /\ ConicShape /\ ConvexFacts /\ search = SearchOf(route)
  BY DEF ConicIInv, ConicInv
<1>2. UNCHANGED <<search, route>>
  BY DEF EnterMisocp, EnterGlobal, ConvexAttempt, ReturnConvex, FallBack, Answered, Launched,
         input, routeVars
<1>3. CASE ConvexAttempt
  <2>1. search = "spatial"
    BY <1>1, <1>3 DEF ConvexAttempt, SearchOf
  <2> QED
    BY <1>1, <1>2, <1>3, <2>1, ConvexStep DEF ConicIInv, SearchOf
<1>4. CASE (EnterMisocp \/ EnterGlobal \/ FallBack) /\ Launched
  BY <1>1, <1>2, <1>4, LaunchedSearch DEF EnterMisocp, EnterGlobal, FallBack, ConicIInv, SearchOf
<1>5. CASE (EnterMisocp \/ FallBack) /\ ~Launched
  <2>1. PICK status \in {"NotSupported", "Timeout", "NumericalError"} : Answered(status, Inf)
    BY <1>5 DEF EnterMisocp, FallBack
  <2>2. pc \in {"entry", "route"}
    BY <1>5 DEF EnterMisocp, FallBack
  <2>3. status # "none" /\ status # "Optimal"
    OBVIOUS
  <2> QED
    BY <1>1, <1>2, <2>1, <2>2, <2>3, AnsweredAtOnce DEF ConicIInv, SearchOf
<1>6. CASE ReturnConvex
  <2>1. pc = "route" /\ Clean(convex) /\ Answered(convex.status, convex.obj)
    BY <1>6 DEF ReturnConvex
  <2>2. /\ convex.status # "none"
        /\ \A p \in Feasible : convex.status = "Optimal" => convex.obj <= Value[p]
    BY <1>1, <2>1 DEF Clean, ConvexFacts
  <2> QED
    BY <1>1, <1>2, <2>1, <2>2, AnsweredAtOnce DEF ConicIInv, SearchOf
<1> QED
  BY <1>3, <1>4, <1>5, <1>6 DEF EnterGlobal

\* A clock moves, or nothing does.
LEMMA ClockSteps ==
  ASSUME ConicInv, psd' = psd, convex' = convex,
         UNCHANGED <<prob, search, pc, stack, hand, inc, lower, nodes, cut, failures, answer>>,
         expired' \in BOOLEAN, cancelled' \in BOOLEAN
  PROVE  ConicInv'
<1>1. Open' = Open /\ Feasible' = Feasible
  BY DEF Open, Feasible
<1>2. ConicTypeOK'
  BY DEF ConicInv, ConicTypeOK
<1>3. ConicShape' /\ ConvexFacts' /\ GapHonest'
  BY <1>1 DEF ConicInv, ConicShape, ConvexFacts, GapHonest, Clean
<1>4. InsideRoot' /\ PointsAccounted'
  BY <1>1 DEF ConicInv, InsideRoot, PointsAccounted, Accounted
<1> QED
  BY <1>2, <1>3, <1>4 DEF ConicInv

\* Every step keeps it.
LEMMA ConicInvStep == ConicIInv /\ [Next]_allVars => ConicIInv'
<1>1. SUFFICES ASSUME ConicIInv, [Next]_allVars PROVE ConicIInv'
  OBVIOUS
<1>2. ConicInv /\ search = SearchOf(route)
  BY <1>1 DEF ConicIInv
<1>3. CASE EnterMisocp \/ EnterGlobal \/ ConvexAttempt \/ ReturnConvex \/ FallBack
  BY <1>1, <1>3, EntrySteps
<1>4. CASE SearchStep /\ UNCHANGED routeVars
  <2>1. ConicInv'
    BY <1>2, <1>4, SearchSteps DEF routeVars
  <2> QED
    BY <1>2, <1>4, <2>1, InputStays DEF routeVars, ConicIInv, SearchOf
<1>5. CASE (Cancel \/ Expire) /\ UNCHANGED routeVars
  <2>1. /\ UNCHANGED <<prob, search, pc, stack, hand, inc, lower, nodes, cut, failures, answer>>
        /\ expired' \in BOOLEAN /\ cancelled' \in BOOLEAN
    BY <1>2, <1>5 DEF Cancel, Expire, input, ConicInv, ConicTypeOK
  <2>2. ConicInv'
    BY <1>2, <1>5, <2>1, ClockSteps DEF routeVars
  <2> QED
    BY <1>2, <1>5, <2>1, <2>2 DEF routeVars, ConicIInv, SearchOf
<1>6. CASE UNCHANGED allVars
  <2>1. /\ UNCHANGED <<prob, search, pc, stack, hand, inc, lower, nodes, cut, failures, answer>>
        /\ expired' \in BOOLEAN /\ cancelled' \in BOOLEAN /\ psd' = psd /\ convex' = convex
        /\ route' = route
    BY <1>2, <1>6 DEF allVars, ConicInv, ConicTypeOK
  <2>2. ConicInv'
    BY <1>2, <2>1, ClockSteps
  <2> QED
    BY <1>2, <2>1, <2>2 DEF ConicIInv, SearchOf
<1> QED
  BY <1>1, <1>3, <1>4, <1>5, <1>6 DEF Next, Step

\* It holds when an entry is called.
LEMMA ConicInvInit == Init => ConicIInv
<1>1. SUFFICES ASSUME Init PROVE ConicIInv
  OBVIOUS
<1>2. /\ prob \in Problems /\ search = SearchOf(route) /\ pc = "entry"
      /\ psd \in {"yes", "no", "clamped"}
      /\ stack = <<Region(prob.box, -Inf)>> /\ hand = NoRegion
      /\ inc = Inf /\ lower = Inf /\ nodes = 0 /\ cut = "no" /\ failures = FALSE
      /\ expired = FALSE /\ cancelled = FALSE
      /\ answer.status = "none"
  BY <1>1 DEF Init, SearchInit
<1> DEFINE root == Region(prob.box, -Inf)
<1>3. Inf \in Int /\ -Inf \in Int /\ -Inf <= Inf /\ -Inf <= -Inf /\ Inf <= Inf
  BY Points2
<1>4. /\ root.box = prob.box
      /\ root \in Regions /\ hand \in Regions
  BY <1>2, <1>3, Points2 DEF Region, Regions, NoRegion, Boxes
<1> HIDE DEF root
<1>5. stack = <<root>> /\ stack \in Seq(Regions)
  BY <1>2, <1>4 DEF root
<1>6. ConicTypeOK
  BY <1>2, <1>3, <1>4, <1>5 DEF ConicTypeOK, SearchOf
<1>7. ConicShape /\ ConvexFacts /\ PointsAccounted /\ GapHonest
  BY <1>2 DEF ConicShape, ConvexFacts, PointsAccounted, GapHonest
<1>8. Open = {root}
  BY <1>2, <1>5 DEF Open
<1>9. InsideRoot
  BY <1>4, <1>8 DEF InsideRoot, Feasible
<1> QED
  BY <1>2, <1>6, <1>7, <1>9 DEF ConicIInv, ConicInv

\* The inductive invariant holds of every behaviour.
LEMMA ConicInvHolds == Spec => []ConicIInv
  BY ConicInvInit, ConicInvStep, PTL DEF Spec

-----------------------------------------------------------------------------
(* The properties *)

\* Every feasible point stays in a region that is open, is remembered as given up, or
\* cannot beat the incumbent by more than the tolerance, through both searches of conic/.
THEOREM NoConicRegionLost == Spec => []RegionsCovered
<1>1. ConicIInv => RegionsCovered
  BY DEF ConicIInv, ConicInv, PointsAccounted, Accounted, RegionsCovered
<1> QED
  BY <1>1, ConicInvHolds, PTL

\* No feasible point lies below the bound that a result of the spatial search reports
\* (finish_spatial_result), however the search ended.
THEOREM GapIsHonest == Spec => []GapHonest
<1>1. ConicIInv => GapHonest
  BY DEF ConicIInv, ConicInv
<1> QED
  BY <1>1, ConicInvHolds, PTL

\* The steps that leave the answer alone.
LEMMA QuietSteps ==
  ASSUME Next
  PROVE  \/ answer' = answer
         \/ Close \/ RayUnbounded \/ \E b \in Bounds : MisocpPanics(b)
         \/ EnterMisocp \/ ReturnConvex \/ FallBack
  BY DEF Next, Step, SearchStep, Cancel, Expire, PopStopped, Pop, Drained, Leave, RelaxTimedOut,
         RelaxFailed, RelaxEmpty, RayNoInteger, RayBisect, Pruned, MisocpFractional, MisocpLeaf,
         MisocpNotRounded, SpatialFractional, SpatialLeaf, SpatialSplit, NextRegion, EnterGlobal,
         ConvexAttempt, Launched, allVars

\* No proof rests on a search, or on a ray, that was cut by a stop already seen: the
\* last look at the flag before an answer (conic::stop_requested).
LEMMA StepsYieldToStop ==
  ASSUME ConicIInv, Next, answer' # answer, pc # "route", cancelled
  PROVE  answer'.status \notin {"Optimal", "Infeasible", "Unbounded"}
<1>1. CASE Close
  <2>1. answer'.status = StatusOf(~failures /\ BoundsMeet)
    BY <1>1 DEF Close
  <2>2. cut \in {"no", "timed_out", "limited"}
    BY DEF ConicIInv, ConicInv, ConicTypeOK
  <2>3. ASSUME NEW c \in BOOLEAN PROVE StatusOf(c) \notin {"Optimal", "Infeasible", "Unbounded"}
    <3>1. CASE cut = "timed_out"
      BY <3>1 DEF StatusOf
    <3>2. CASE cut = "limited"
      BY <3>2 DEF StatusOf
    <3>3. CASE cut = "no" /\ ~c
      BY <3>3 DEF StatusOf
    <3>4. CASE cut = "no" /\ c
      BY <3>4 DEF StatusOf
    <3> QED
      BY <2>2, <3>1, <3>2, <3>3, <3>4
  <2> QED
    BY <2>1, <2>3
<1>2. CASE RayUnbounded
  BY <1>2 DEF RayUnbounded, Leave
<1>3. CASE \E b \in Bounds : MisocpPanics(b)
  BY <1>3 DEF MisocpPanics
<1>4. CASE EnterMisocp
  BY <1>4 DEF EnterMisocp, Answered, Launched
<1>5. CASE ReturnConvex \/ FallBack
  BY <1>5 DEF ReturnConvex, FallBack
<1> QED
  BY <1>1, <1>2, <1>3, <1>4, <1>5, QuietSteps

\* Once a stop was observed, nothing that rests on an exhausted search or on a ray is
\* published as a proof: the flag is raised before the answer is classified.
THEOREM NoProofAfterStop == Spec => ProofsYieldToStop
<1>1. ConicIInv /\ [Next]_allVars =>
        [answer' # answer /\ pc # "route" /\ cancelled
           => answer'.status \notin {"Optimal", "Infeasible", "Unbounded"}]_allVars
  BY StepsYieldToStop DEF allVars
<1> QED
  BY <1>1, ConicInvHolds, PTL DEF Spec, ProofsYieldToStop

-----------------------------------------------------------------------------
(* The contract of a branch and bound *)

\* What the contract asks of an answer, case by case.
LEMMA SoundAnswers ==
  ASSUME NEW a,
         \/ /\ a.status = "Optimal" /\ inc # Inf /\ a.obj = inc
            /\ \A p \in Feasible : inc - Value[p] <= GapTol
            /\ a.lb <= a.obj /\ a.obj - a.lb <= GapTol
         \/ a.status = "Infeasible" /\ Feasible = {}
         \/ a.status = "Suboptimal" /\ inc # Inf /\ a.obj = inc
         \/ a.status = "MaxIterations" /\ inc = Inf
         \/ a.status = "Timeout" /\ a.obj = inc
         \/ a.status = "Unbounded" /\ prob.ray
         \/ a.status \in {"NumericalError", "NotSupported", "panic"}
  PROVE  Contract!Sound(a)
<1>1. CASE /\ a.status = "Optimal" /\ inc # Inf /\ a.obj = inc
           /\ \A p \in Feasible : inc - Value[p] <= GapTol
           /\ a.lb <= a.obj /\ a.obj - a.lb <= GapTol
  <2>1. Contract!ProvesOptimal(inc) /\ Absolute(a.obj, a.lb)
    BY <1>1 DEF Contract!ProvesOptimal, Absolute
  <2> QED
    BY <1>1, <2>1, Zenon DEF Contract!Sound
<1>2. CASE a.status = "Infeasible" /\ Feasible = {}
  <2>1. a.status # "Optimal"
    BY <1>2
  <2> QED
    BY <1>2, <2>1, Zenon DEF Contract!Sound
<1>3. CASE a.status = "Suboptimal" /\ inc # Inf /\ a.obj = inc
  <2>1. a.status # "Optimal" /\ a.status # "Infeasible"
    BY <1>3
  <2> QED
    BY <1>3, <2>1, Zenon DEF Contract!Sound
<1>4. CASE a.status = "MaxIterations" /\ inc = Inf
  <2>1. a.status # "Optimal" /\ a.status # "Infeasible" /\ a.status # "Suboptimal"
    BY <1>4
  <2> QED
    BY <1>4, <2>1, Zenon DEF Contract!Sound
<1>5. CASE a.status = "Timeout" /\ a.obj = inc
  <2>1. /\ a.status # "Optimal" /\ a.status # "Infeasible" /\ a.status # "Suboptimal"
        /\ a.status # "MaxIterations"
    BY <1>5
  <2> QED
    BY <1>5, <2>1, Zenon DEF Contract!Sound
<1>6. CASE a.status = "Unbounded" /\ prob.ray
  <2>1. /\ a.status # "Optimal" /\ a.status # "Infeasible" /\ a.status # "Suboptimal"
        /\ a.status # "MaxIterations" /\ a.status # "Timeout"
    BY <1>6
  <2> QED
    BY <1>6, <2>1, Zenon DEF Contract!Sound
<1>7. CASE a.status \in {"NumericalError", "NotSupported", "panic"}
  <2>1. /\ a.status # "Optimal" /\ a.status # "Infeasible" /\ a.status # "Suboptimal"
        /\ a.status # "MaxIterations" /\ a.status # "Timeout" /\ a.status # "Unbounded"
        /\ a.status \in {"ResourceExhausted", "NumericalError", "NotSupported", "panic"}
    BY <1>7
  <2> QED
    BY <2>1, Zenon DEF Contract!Sound
<1> QED
  BY <1>1, <1>2, <1>3, <1>4, <1>5, <1>6, <1>7

\* The answer of a search that ran to its end, or was cut.
LEMMA ClosesSoundly ==
  ASSUME ConicInv, Close
  PROVE  Contract!Sound(answer')
<1> DEFINE status == StatusOf(~failures /\ BoundsMeet)
<1>1. /\ pc = "close"
      /\ answer' = [status |-> status, obj |-> inc, lb |-> ReportedBound(status)]
  BY DEF Close
<1>2. /\ cut \in {"no", "timed_out", "limited"} /\ search \in {"misocp", "spatial"}
      /\ inc \in Int /\ inc <= Inf /\ lower \in Int
      /\ cut = "no" => stack = <<>>
  BY <1>1 DEF ConicInv, ConicTypeOK, ConicShape
<1>3. CASE cut = "timed_out"
  <2>1. status = "Timeout"
    BY <1>3 DEF StatusOf
  <2> QED
    BY <1>1, <2>1, SoundAnswers
<1>4. CASE cut = "limited"
  <2>1. status = IF inc = Inf THEN "MaxIterations" ELSE "Suboptimal"
    BY <1>4 DEF StatusOf
  <2> QED
    BY <1>1, <2>1, SoundAnswers
<1>5. CASE cut = "no" /\ ~(~failures /\ BoundsMeet)
  <2>1. status = IF inc = Inf THEN "NumericalError" ELSE "Suboptimal"
    BY <1>5 DEF StatusOf
  <2> QED
    BY <1>1, <2>1, SoundAnswers
<1>6. CASE cut = "no" /\ ~failures /\ BoundsMeet /\ cancelled
  <2>1. status = "Timeout"
    BY <1>6 DEF StatusOf
  <2> QED
    BY <1>1, <2>1, SoundAnswers
<1>7. CASE cut = "no" /\ ~failures /\ BoundsMeet /\ ~cancelled
  <2>1. status = IF inc = Inf THEN "Infeasible" ELSE "Optimal"
    BY <1>7 DEF StatusOf
  <2>2. stack = <<>> /\ Open = {}
    BY <1>1, <1>2, <1>7 DEF Open
  <2>3. ASSUME NEW p \in Feasible
        PROVE  IF search = "spatial" THEN lower <= Value[p]
               ELSE inc # Inf /\ inc - Value[p] <= GapTol
    BY <1>1, <1>7, <2>2, <2>3 DEF ConicInv, PointsAccounted, Accounted
  <2>4. \A p \in Feasible : Value[p] \in Int /\ Value[p] < Inf
    BY Points2 DEF Feasible, InBox
  <2>5. Inf \in Int /\ GapTol \in Nat
    BY Points2
  <2>6. CASE inc = Inf
    <3>1. search = "spatial" => lower = Inf
      BY <1>7, <2>6 DEF BoundsMeet
    <3>2. Feasible = {}
      BY <2>3, <2>4, <2>5, <2>6, <3>1
    <3> QED
      BY <1>1, <2>1, <2>6, <3>2, SoundAnswers
  <2>7. CASE inc # Inf
    <3>1. search = "spatial" => inc - lower <= GapTol
      BY <1>7, <2>7 DEF BoundsMeet
    <3>2. \A p \in Feasible : inc - Value[p] <= GapTol
      BY <1>2, <2>3, <2>4, <2>5, <3>1
    <3>3. ReportedBound("Optimal") = IF search = "spatial" THEN Lesser(inc, lower) ELSE inc
      BY <2>2, OpenBoundIs DEF ReportedBound, ConicInv
    <3>4. ReportedBound("Optimal") <= inc /\ inc - ReportedBound("Optimal") <= GapTol
      BY <1>2, <2>5, <3>1, <3>3 DEF Lesser
    <3> QED
      BY <1>1, <2>1, <2>7, <3>2, <3>4, SoundAnswers
  <2> QED
    BY <2>6, <2>7
<1> QED
  BY <1>2, <1>3, <1>4, <1>5, <1>6, <1>7

\* The answer of the convex attempt, when it is clean.
LEMMA ReturnsSoundly ==
  ASSUME ConicInv, ReturnConvex
  PROVE  Contract!Sound(answer')
<1>1. /\ pc = "route" /\ Clean(convex)
      /\ answer' = [status |-> convex.status, obj |-> convex.obj,
                    lb |-> IF convex.status = "Optimal" THEN convex.obj ELSE -Inf]
  BY DEF ReturnConvex, Answered
<1>2. /\ inc = convex.obj
      /\ convex.status = "Optimal" =>
           /\ \E p \in Feasible : convex.obj = Value[p]
           /\ \A p \in Feasible : convex.obj <= Value[p]
      /\ convex.status = "Infeasible" => Feasible = {}
      /\ convex.status = "Unbounded" => prob.ray
      /\ convex.status \in {"Optimal", "Infeasible", "Unbounded", "Timeout"}
  BY <1>1 DEF ConicInv, ConvexFacts, Clean
<1>3. CASE convex.status = "Optimal"
  <2>1. \A p \in Feasible : Value[p] \in Int /\ Value[p] < Inf
    BY Points2 DEF Feasible, InBox
  <2>2. inc \in Int /\ Inf \in Int /\ GapTol \in Nat
    BY Points2 DEF ConicInv, ConicTypeOK
  <2>3. inc # Inf /\ \A p \in Feasible : inc - Value[p] <= GapTol
    BY <1>2, <1>3, <2>1, <2>2
  <2>4. inc <= inc /\ inc - inc <= GapTol
    BY <2>2
  <2> QED
    BY <1>1, <1>2, <1>3, <2>3, <2>4, SoundAnswers
<1>4. CASE convex.status # "Optimal"
  BY <1>1, <1>2, <1>4, SoundAnswers
<1> QED
  BY <1>3, <1>4

\* A step of an entry or of the search that answers is the contract's conclusion.
LEMMA AnswersConclude ==
  ASSUME ConicIInv, Next, answer' # answer
  PROVE  /\ answer.status = "none" /\ Contract!Sound(answer')
         /\ UNCHANGED <<prob, inc>>
<1>1. ConicInv /\ ConicShape
  BY DEF ConicIInv, ConicInv
<1>2. CASE Close
  BY <1>1, <1>2, ClosesSoundly DEF Close, ConicShape, input
<1>3. CASE ReturnConvex
  BY <1>1, <1>3, ReturnsSoundly DEF ReturnConvex, Answered, ConicShape, input
<1>4. CASE RayUnbounded
  <2>1. /\ answer' = [status |-> "Unbounded", obj |-> -Inf, lb |-> -Inf]
        /\ prob.ray /\ pc = "relax" /\ UNCHANGED <<prob, inc>>
    BY <1>4 DEF RayUnbounded, Relaxing, Leave, input
  <2>2. Contract!Sound(answer')
    BY <2>1, SoundAnswers
  <2> QED
    BY <1>1, <2>1, <2>2 DEF ConicShape
<1>5. CASE \E b \in Bounds : MisocpPanics(b)
  <2>1. /\ answer' = [status |-> "panic", obj |-> Inf, lb |-> -Inf]
        /\ pc = "relax" /\ UNCHANGED <<prob, inc>>
    BY <1>5 DEF MisocpPanics, Relaxed, Relaxing, input
  <2>2. Contract!Sound(answer')
    BY <2>1, SoundAnswers
  <2> QED
    BY <1>1, <2>1, <2>2 DEF ConicShape
<1>6. CASE EnterMisocp \/ FallBack
  <2>1. inc = Inf /\ pc # "done"
    BY <1>1, <1>6 DEF EnterMisocp, FallBack, ConicShape, ConicInv, ConvexFacts
  <2>2. ~Launched
    BY DEF Launched
  <2>3. PICK status \in {"NotSupported", "Timeout", "NumericalError"} : Answered(status, Inf)
    BY <1>6, <2>2 DEF EnterMisocp, FallBack
  <2>4. answer'.status = status /\ answer'.obj = Inf /\ UNCHANGED <<prob, inc>>
    BY <2>3 DEF Answered, input
  <2>5. Contract!Sound(answer')
    BY <2>1, <2>4, SoundAnswers
  <2> QED
    BY <1>1, <2>1, <2>4, <2>5 DEF ConicShape
<1> QED
  BY <1>2, <1>3, <1>4, <1>5, <1>6, QuietSteps

\* An incumbent only improves, to the objective of a feasible point.
LEMMA IncumbentsImprove ==
  ASSUME ConicIInv, Next, answer' = answer
  PROVE  /\ prob' = prob
         /\ \/ inc' = inc
            \/ /\ answer.status = "none" /\ inc' < inc
               /\ \E p \in Feasible : inc' = Value[p]
<1>1. ConicInv /\ ConicTypeOK /\ ConicShape /\ ConvexFacts
  BY DEF ConicIInv, ConicInv
<1>2. prob' = prob
  BY InputStays DEF Next, Step, EnterMisocp, EnterGlobal, ConvexAttempt, ReturnConvex, FallBack,
     Answered, Launched, input, allVars
<1>3. inc \in Int /\ inc <= Inf /\ \A p \in Points : Value[p] \in Int /\ Value[p] < Inf
  BY <1>1, Points2 DEF ConicTypeOK
<1>4. CASE ConvexAttempt
  <2>1. PICK o \in ConvexOutcomes : inc' = IF Clean(o) THEN o.obj ELSE Inf
    BY <1>4 DEF ConvexAttempt
  <2>2. inc = Inf /\ answer.status = "none"
    BY <1>1, <1>4 DEF ConvexAttempt, ConicShape
  <2>3. inc' = Inf \/ \E p \in Feasible : inc' = Value[p]
    BY <1>1, <2>1, OutcomeIs
  <2>4. \A p \in Feasible : Value[p] < Inf
    BY <1>3 DEF Feasible, InBox
  <2> QED
    BY <1>2, <2>2, <2>3, <2>4
<1>5. CASE \E b \in Bounds : MisocpLeaf(b) \/ SpatialLeaf(b) \/ SpatialSplit(b)
  <2>1. pc = "relax"
    BY <1>5 DEF MisocpLeaf, SpatialLeaf, SpatialSplit, Relaxed, Relaxing
  <2>2. inc' = inc \/ \E p \in InBox(hand.box) : inc' = Lesser(inc, Value[p])
    BY <1>5 DEF MisocpLeaf, SpatialLeaf, SpatialSplit, Accepted
  <2>3. InBox(hand.box) \subseteq Feasible
    BY <1>1, <2>1, OpenIs DEF ConicInv, InsideRoot
  <2>4. \A p \in Feasible : p \in Points
    BY DEF Feasible, InBox
  <2>5. answer.status = "none"
    BY <1>1, <2>1 DEF ConicShape
  <2> QED
    BY <1>2, <1>3, <2>2, <2>3, <2>4, <2>5 DEF Lesser
<1>6. CASE /\ ~ConvexAttempt
           /\ ~\E b \in Bounds : MisocpLeaf(b) \/ SpatialLeaf(b) \/ SpatialSplit(b)
  <2>1. inc' = inc
    BY <1>6 DEF Next, Step, SearchStep, Cancel, Expire, PopStopped, Pop, Drained, Leave,
       RelaxTimedOut, RelaxFailed, RelaxEmpty, RayUnbounded, RayNoInteger, RayBisect, Pruned,
       MisocpFractional, MisocpNotRounded, MisocpPanics, SpatialFractional, Close, EnterMisocp,
       EnterGlobal, ReturnConvex, FallBack, Answered, Launched, allVars
  <2> QED
    BY <1>2, <2>1
<1> QED
  BY <1>4, <1>5, <1>6

\* Every step of an entry or of its search is a step of the contract, or none of its.
LEMMA StepsKeepContract ==
  ConicIInv /\ [Next]_allVars => [Contract!Next]_<<Feasible, prob.ray, inc, answer>>
<1>1. SUFFICES ASSUME ConicIInv, [Next]_allVars
               PROVE  [Contract!Next]_<<Feasible, prob.ray, inc, answer>>
  OBVIOUS
<1>2. CASE UNCHANGED allVars
  BY <1>2 DEF allVars, Feasible
<1>3. CASE Next /\ answer' # answer
  <2>1. /\ answer.status = "none" /\ Contract!Sound(answer') /\ UNCHANGED <<prob, inc>>
    BY <1>1, <1>3, AnswersConclude
  <2>2. Feasible' = Feasible /\ prob'.ray = prob.ray
    BY <2>1 DEF Feasible
  <2>3. Contract!Conclude
    BY <2>1, Zenon DEF Contract!Conclude
  <2> QED
    BY <2>2, <2>3 DEF Contract!Next
<1>4. CASE Next /\ answer' = answer
  <2>1. /\ prob' = prob
        /\ \/ inc' = inc
           \/ /\ answer.status = "none" /\ inc' < inc
              /\ \E p \in Feasible : inc' = Value[p]
    BY <1>1, <1>4, IncumbentsImprove
  <2>2. Feasible' = Feasible /\ prob'.ray = prob.ray
    BY <2>1 DEF Feasible
  <2> QED
    BY <1>4, <2>1, <2>2 DEF Contract!Next, Contract!Improve, Contract!Objectives
<1> QED
  BY <1>1, <1>2, <1>3, <1>4

\* Every entry that ends in a conic branch and bound keeps the contract of one: an
\* incumbent that is a feasible point and only improves, then one answer, a proof only
\* of what is true.
THEOREM EntriesKeepContract == Spec => ImplementsContract
<1>1. Init => Contract!Init
  BY DEF Init, SearchInit, Contract!Init
<1>2. Spec => Contract!Init /\ [][Contract!Next]_<<Feasible, prob.ray, inc, answer>>
  BY <1>1, StepsKeepContract, ConicInvHolds, PTL DEF Spec
<1> QED
  BY <1>2, PTL DEF ImplementsContract, Contract!Spec

=============================================================================
