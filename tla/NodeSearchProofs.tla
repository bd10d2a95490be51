--------------------------- MODULE NodeSearchProofs ---------------------------
(***************************************************************************)
(* What one branch-and-bound node does to the state of a search, for any      *)
(* problem, any sound relaxation and any limits: the queue loses no node, and  *)
(* the node in hand is accounted for by what is left of it.  The proofs of the *)
(* serial and of the parallel search rest on these lemmas.                     *)
(***************************************************************************)
EXTENDS NodeSearch, SequenceTheorems, WellFoundedInduction, TLAPS

-----------------------------------------------------------------------------
(* The pruning test, for any gap tolerance of at most 1, and least bounds *)

\* |v|, but at least 1, is a positive integer.
LEMMA ScaleType == ASSUME NEW v \in Int PROVE Scale(v) \in Nat /\ Scale(v) >= 1
  BY DEF Scale, Greater

\* Two objectives differ by at least as much as their scales.
LEMMA ScaleLipschitz ==
  ASSUME NEW u \in Int, NEW v \in Int, u <= v
  PROVE  Scale(v) <= Scale(u) + (v - u)
  BY DEF Scale, Greater

\* A value within the gap of an incumbent is within the gap of a better one:
\* what was pruned stays pruned.  This is where gap_tol <= 1 is needed.
LEMMA GapMonotone ==
  ASSUME NEW inc1 \in Int, NEW inc2 \in Int, NEW v \in Int,
         inc2 <= inc1, IsFinite(inc2), WithinGap(inc1, v)
  PROVE  WithinGap(inc2, v)
<1> DEFINE d == inc1 - inc2
<1>1. GapNum \in Nat /\ GapDen \in Nat /\ GapNum <= GapDen
  BY GapAssumption
<1>2. Scale(inc1) \in Nat /\ Scale(inc2) \in Nat /\ d \in Nat
  BY ScaleType
<1>3. Scale(inc1) <= Scale(inc2) + d
  BY ScaleLipschitz
<1>4. (inc1 - v) * GapDen <= GapNum * Scale(inc1)
  BY DEF WithinGap
<1>5. GapNum * Scale(inc1) <= GapNum * Scale(inc2) + GapNum * d
  <2> HIDE DEF d
  <2> QED
    BY <1>1, <1>2, <1>3
<1>6. GapNum * d <= GapDen * d
  BY <1>1, <1>2
<1>7. (inc2 - v) * GapDen = (inc1 - v) * GapDen - GapDen * d
  BY <1>1
<1>8. GapNum * Scale(inc1) \in Int /\ GapNum * Scale(inc2) \in Int
      /\ GapNum * d \in Int /\ GapDen * d \in Int /\ (inc1 - v) * GapDen \in Int
  BY <1>1, <1>2
<1>9. (inc2 - v) * GapDen <= GapNum * Scale(inc2)
  <2> HIDE DEF d
  <2> QED
    BY <1>4, <1>5, <1>6, <1>7, <1>8
<1> QED
  BY <1>9 DEF WithinGap

\* A better bound than one within the gap is within the gap too.
LEMMA GapOfHigherBound ==
  ASSUME NEW inc \in Int, NEW lb \in Int, NEW v \in Int,
         WithinGap(inc, lb), lb <= v, v < Inf
  PROVE  WithinGap(inc, v)
<1>1. GapNum \in Nat /\ GapDen \in Nat \ {0} /\ Inf \in Int
  BY GapAssumption
<1>2. (inc - v) * GapDen <= (inc - lb) * GapDen
  BY <1>1
<1>3. GapNum * Scale(inc) \in Int
  BY <1>1, ScaleType
<1>4. (inc - v) * GapDen \in Int /\ (inc - lb) * GapDen \in Int
  BY <1>1
<1> QED
  BY <1>1, <1>2, <1>3, <1>4 DEF WithinGap, IsFinite

\* A value the incumbent does not exceed is within the gap.
LEMMA GapOfWorse ==
  ASSUME NEW inc \in Int, NEW v \in Int, IsFinite(inc), IsFinite(v), inc <= v
  PROVE  WithinGap(inc, v)
<1>1. GapNum \in Nat /\ GapDen \in Nat
  BY GapAssumption
<1>2. GapNum * Scale(inc) \in Nat
  BY <1>1, ScaleType
<1>3. (inc - v) * GapDen <= 0 /\ (inc - v) * GapDen \in Int
  BY <1>1
<1> QED
  BY <1>2, <1>3 DEF WithinGap

\* A set of naturals has a least one: the order is well founded.
LEMMA LeastNatural ==
  ASSUME NEW T, T \subseteq Nat, T # {}
  PROVE  \E x \in T : \A y \in T : x <= y
<1>1. PICK x \in T : \A y \in T : <<y, x>> \notin OpToRel(<, Nat)
  BY WFMin, NatLessThanWellFounded, Zenon
<1>2. \A y \in T : ~(y < x)
  BY <1>1, Zenon DEF OpToRel
<1> QED
  BY <1>2

\* So has a set of integers that is bounded from below.
LEMMA LeastInteger ==
  ASSUME NEW T \in SUBSET Int, T # {}, NEW low \in Int, \A v \in T : low <= v
  PROVE  \E x \in T : \A y \in T : x <= y
<1> DEFINE offsets == {v - low : v \in T}
<1>1. \A v \in T : v \in Int /\ v - low \in Nat
  OBVIOUS
<1>2. offsets \subseteq Nat /\ offsets # {}
  BY <1>1
<1>3. PICK x \in offsets : \A y \in offsets : x <= y
  <2> HIDE DEF offsets
  <2> QED
    BY <1>2, LeastNatural
<1>4. PICK v \in T : x = v - low
  OBVIOUS
<1>5. ASSUME NEW w \in T PROVE v <= w
  <2>1. w - low \in offsets
    OBVIOUS
  <2> QED
    BY <1>1, <1>3, <1>4, <2>1
<1> QED
  BY <1>5

-----------------------------------------------------------------------------
(* Nodes and search states *)

\* The bounds of nodes and of the regions given up.
Bounds == {v \in Int : -Inf <= v}

Nodes == [box : SUBSET Points, lb : Bounds, depth : Nat]
Queues == [heap : SUBSET Nodes, stack : Seq(Nodes), diving : BOOLEAN]
States ==
  [q : Queues, inc : Int, conflicts : SUBSET SUBSET Points,
   openLb : Bounds, hadOpen : BOOLEAN, uncertain : BOOLEAN,
   deadlineStop : BOOLEAN, maxnodesStop : BOOLEAN, unbounded : BOOLEAN,
   sinceDive : Nat, diveStart : Nat]

\* The best nodes are kept on the heap when no dive is under way, and in a dive
\* nothing is.
OneStore(q) == q.heap # {} => ~q.diving

\* A clause is a fact, a bound comes from a region that was left open.
Honest(s) ==
  /\ \A clause \in s.conflicts : clause \cap Feasible = {}
  /\ ~s.hadOpen => s.openLb = Inf
  /\ s.unbounded => "unbounded" \in Statuses

\* The point p is in a node of the queue, or in a region given up, with its bound.
Accounts(s, p) ==
  \/ \E n \in Held(s.q) : p \in n.box /\ n.lb <= Value[p]
  \/ s.openLb <= Value[p]

\* t accounts for all that n may hold.
Settles(t, n) == \A p \in Feasible : p \in n.box /\ n.lb <= Value[p] => Accounts(t, p)

\* What never happens to a search state: a node leaves its queue, a bound rises, a
\* flag is taken back.
Follows(s, t) ==
  /\ t \in States
  /\ Held(s.q) \subseteq Held(t.q)
  /\ t.openLb <= s.openLb
  /\ s.unbounded => t.unbounded
  /\ Honest(s) => Honest(t)

\* Nor does its view of the incumbent, in most steps.
Keeps(s, t) == Follows(s, t) /\ t.inc = s.inc

-----------------------------------------------------------------------------
(* Problems *)

\* The data of a problem: integers, below infinity.
LEMMA ProblemIs ==
  /\ Inf \in Int /\ Inf > 0 /\ Points \subseteq Int /\ Feasible \subseteq Points
  /\ \A p \in Feasible : Value[p] \in Int /\ -Inf < Value[p] /\ Value[p] < Inf
  /\ \A b \in Bound : b \in Int /\ -Inf < b /\ b < Inf
  /\ -Inf \in Bounds /\ Inf \in Bounds
<1>1. Inf \in Int /\ Inf > 0
  BY GapAssumption
<1>2. Points \subseteq Int /\ Feasible \subseteq Points /\ Bound \subseteq Int
  BY ProblemAssumption
<1>3. \A v \in Bound \cup {Value[p] : p \in Feasible} : -Inf < v /\ v < Inf
  BY ProblemAssumption, Zenon
<1>4. \A p \in Feasible : Value[p] \in Int
  BY ProblemAssumption
<1> QED
  BY <1>1, <1>2, <1>3, <1>4 DEF Bounds

-----------------------------------------------------------------------------
(* The queue *)

\* A queue holds nodes.
LEMMA HeldIs ==
  ASSUME NEW q \in Queues
  PROVE  Held(q) \subseteq Nodes
<1>1. \A i \in DOMAIN q.stack : q.stack[i] \in Nodes
  BY ElementOfSeq, LenProperties DEF Queues
<1> QED
  BY <1>1 DEF Held, Queues

\* An empty queue holds none.
LEMMA EmptyQueueIs ==
  /\ EmptyQueue \in Queues /\ Held(EmptyQueue) = {} /\ OneStore(EmptyQueue)
  /\ EmptyQueue.heap = {} /\ ~EmptyQueue.diving
<1> DEFINE e == <<>>
<1>1. e \in Seq(Nodes) /\ DOMAIN e = {}
  OBVIOUS
<1>2. EmptyQueue = [heap |-> {}, stack |-> e, diving |-> FALSE]
  BY DEF EmptyQueue
<1> HIDE DEF e
<1> QED
  BY <1>1, <1>2 DEF Queues, Held, OneStore

\* NodeQueue::end_dive: every node of the stack goes back to the heap.
LEMMA EndDiveIs ==
  ASSUME NEW q \in Queues
  PROVE  /\ EndDive(q) \in Queues /\ Held(EndDive(q)) = Held(q)
         /\ EndDive(q).heap = Held(q) /\ ~EndDive(q).diving /\ OneStore(EndDive(q))
<1> DEFINE e == <<>>
<1>1. e \in Seq(Nodes) /\ DOMAIN e = {}
  OBVIOUS
<1>2. EndDive(q) = [heap |-> Held(q), stack |-> e, diving |-> FALSE]
  BY DEF EndDive
<1> HIDE DEF e
<1>3. Held(EndDive(q)) = Held(q) \cup {}
  BY <1>1, <1>2 DEF Held
<1> QED
  BY <1>1, <1>2, <1>3, HeldIs DEF Queues, OneStore

\* NodeQueue::push: the node is in one of the two stores, and nothing else changes.
LEMMA PushIs ==
  ASSUME NEW q \in Queues, NEW n \in Nodes
  PROVE  /\ Push(q, n) \in Queues /\ Held(Push(q, n)) = Held(q) \cup {n}
         /\ Push(q, n).diving = q.diving
         /\ OneStore(q) => OneStore(Push(q, n))
         /\ q.diving => Push(q, n).heap = q.heap
<1>1. q.heap \subseteq Nodes /\ q.stack \in Seq(Nodes) /\ q.diving \in BOOLEAN
  BY DEF Queues
<1>2. CASE q.diving
  <2> DEFINE t == Append(q.stack, n)
  <2>1. /\ t \in Seq(Nodes) /\ Len(t) = Len(q.stack) + 1
        /\ \A i \in 1 .. Len(q.stack) : t[i] = q.stack[i]
        /\ t[Len(q.stack) + 1] = n
    BY <1>1, AppendProperties
  <2>2. /\ Len(q.stack) \in Nat /\ DOMAIN q.stack = 1 .. Len(q.stack)
        /\ DOMAIN t = 1 .. Len(q.stack) + 1
    BY <1>1, <2>1, LenProperties
  <2>3. Push(q, n) = [heap |-> q.heap, stack |-> t, diving |-> q.diving]
    BY <1>2 DEF Push, Queues
  <2> HIDE DEF t
  <2>4. {t[i] : i \in DOMAIN t} = {q.stack[i] : i \in DOMAIN q.stack} \cup {n}
    <3>1. /\ \A i \in DOMAIN q.stack : i \in DOMAIN t /\ t[i] = q.stack[i]
          /\ Len(q.stack) + 1 \in DOMAIN t
          /\ \A i \in DOMAIN t : i \in DOMAIN q.stack \/ i = Len(q.stack) + 1
      BY <2>2, <2>1
    <3> QED
      BY <2>1, <3>1
  <2> QED
    BY <1>1, <2>1, <2>3, <2>4 DEF Queues, Held, OneStore
<1>3. CASE ~q.diving
  <2>1. Push(q, n) = [heap |-> q.heap \cup {n}, stack |-> q.stack, diving |-> q.diving]
    BY <1>3 DEF Push, Queues
  <2> QED
    BY <1>1, <1>3, <2>1 DEF Queues, Held, OneStore
<1> QED
  BY <1>2, <1>3

\* NodeQueue::pop: the node taken out is the only one that leaves the queue.
LEMMA PoppedIs ==
  ASSUME NEW q \in Queues, NEW r \in Popped(q)
  PROVE  /\ r.rest \in Queues /\ r.node \in Nodes
         /\ Held(q) = Held(r.rest) \cup {r.node}
         /\ r.rest.heap \subseteq q.heap
         /\ OneStore(q) => OneStore(r.rest)
<1>1. q.heap \subseteq Nodes /\ q.stack \in Seq(Nodes) /\ q.diving \in BOOLEAN
  BY DEF Queues
<1>2. CASE FromStack(q)
  <2> DEFINE n == Len(q.stack)
             rest == SubSeq(q.stack, 1, n - 1)
  <2>1. /\ n \in Nat /\ n > 0 /\ DOMAIN q.stack = 1 .. n
        /\ \A i \in 1 .. n : q.stack[i] \in Nodes
    BY <1>1, <1>2, LenProperties, EmptySeq, ElementOfSeq DEF FromStack
  <2>2. r.node = q.stack[n] /\ r.rest = PopTop(q)
    BY <1>2 DEF Popped
  <2>3. r.rest = [heap |-> q.heap, stack |-> rest, diving |-> rest # <<>>]
    BY <2>2 DEF PopTop, Queues
  <2>4. /\ rest \in Seq(Nodes) /\ Len(rest) = n - 1
        /\ \A i \in 1 .. n - 1 : rest[i] = q.stack[i]
    <3>1. \A i \in 1 .. n - 1 : q.stack[i] \in Nodes
      BY <2>1
    <3>2. 1 \in Int /\ n - 1 \in Int
      BY <2>1
    <3> HIDE DEF n
    <3>3. /\ SubSeq(q.stack, 1, n - 1) \in Seq(Nodes)
          /\ Len(SubSeq(q.stack, 1, n - 1)) = IF 1 <= n - 1 THEN (n - 1) - 1 + 1 ELSE 0
          /\ \A i \in 1 .. (n - 1) - 1 + 1 : SubSeq(q.stack, 1, n - 1)[i] = q.stack[1 + i - 1]
      BY <1>1, <3>1, <3>2, SubSeqProperties
    <3> QED
      BY <2>1, <3>3
  <2>5. DOMAIN rest = 1 .. n - 1
    BY <2>4, LenProperties
  <2> HIDE DEF n, rest
  <2>6. /\ \A i \in 1 .. n : i \in 1 .. n - 1 \/ i = n
        /\ \A i \in 1 .. n - 1 : i \in 1 .. n
        /\ n \in 1 .. n
    BY <2>1
  <2>7. {q.stack[i] : i \in DOMAIN q.stack} = {rest[i] : i \in DOMAIN rest} \cup {q.stack[n]}
    BY <2>1, <2>4, <2>5, <2>6
  <2>8. Held(r.rest) = q.heap \cup {rest[i] : i \in DOMAIN rest}
    BY <2>3 DEF Held
  <2>9. Held(q) = q.heap \cup {q.stack[i] : i \in DOMAIN q.stack}
    BY DEF Held
  <2>10. Held(q) = Held(r.rest) \cup {r.node}
    BY <2>2, <2>7, <2>8, <2>9
  <2>11. q.diving
    BY <1>2 DEF FromStack
  <2>12. r.node \in Nodes
    BY <2>1, <2>2, <2>6
  <2>13. r.rest \in Queues /\ r.rest.heap = q.heap
    BY <1>1, <2>3, <2>4 DEF Queues
  <2> QED
    BY <2>10, <2>11, <2>12, <2>13 DEF OneStore
<1>3. CASE ~FromStack(q)
  <2>1. PICK n \in BestNodes(q.heap) : r.node = n /\ r.rest = PopBest(q, n)
    BY <1>3 DEF Popped
  <2>2. n \in q.heap
    BY DEF BestNodes
  <2>3. r.rest = [heap |-> q.heap \ {n}, stack |-> q.stack, diving |-> FALSE]
    BY <2>1 DEF PopBest, Queues
  <2> QED
    BY <1>1, <2>1, <2>2, <2>3 DEF Queues, Held, OneStore
<1> QED
  BY <1>2, <1>3

-----------------------------------------------------------------------------
(* The state of a search *)

\* A search starts with nothing given up.
LEMMA NewSearchIs ==
  ASSUME NEW v \in Int
  PROVE  /\ NewSearch(v) \in States /\ NewSearch(v).q = EmptyQueue /\ NewSearch(v).inc = v
         /\ Honest(NewSearch(v)) /\ NewSearch(v).openLb = Inf /\ ~NewSearch(v).unbounded
  BY EmptyQueueIs, ProblemIs DEF NewSearch, States, Honest

\* Two steps of a search follow on each other as one.
LEMMA FollowsTransitive ==
  ASSUME NEW s \in States, NEW t \in States, NEW u \in States, Follows(s, t), Follows(t, u)
  PROVE  Follows(s, u)
<1>1. s.openLb \in Int /\ t.openLb \in Int /\ u.openLb \in Int
  BY DEF States, Bounds
<1> QED
  BY <1>1 DEF Follows

\* And so do two that leave the view of the incumbent alone.
LEMMA KeepsTransitive ==
  ASSUME NEW s \in States, NEW t \in States, NEW u \in States, Keeps(s, t), Keeps(t, u)
  PROVE  Keeps(s, u)
  BY FollowsTransitive DEF Keeps

\* A better incumbent is seen.
LEMMA SeesIncumbent ==
  ASSUME NEW s \in States, NEW v \in Int, NEW t, t = [s EXCEPT !.inc = v]
  PROVE  /\ t \in States /\ Follows(s, t) /\ t.inc = v /\ t.q = s.q
         /\ t.conflicts = s.conflicts
<1>1. /\ t \in States /\ t.inc = v /\ t.q = s.q /\ t.conflicts = s.conflicts
      /\ t.openLb = s.openLb /\ t.hadOpen = s.hadOpen /\ t.unbounded = s.unbounded
  BY DEF States
<1>2. s.openLb \in Int
  BY DEF States, Bounds
<1> QED
  BY <1>1, <1>2 DEF Follows, Honest

\* What is accounted for stays so.
LEMMA AccountsStay ==
  ASSUME NEW s \in States, NEW t, Follows(s, t), NEW p \in Feasible, Accounts(s, p)
  PROVE  Accounts(t, p)
<1>1. s.openLb \in Int /\ t.openLb \in Int /\ Value[p] \in Int /\ t.openLb <= s.openLb
  BY ProblemIs DEF States, Bounds, Follows
<1>2. CASE s.openLb <= Value[p]
  <2>1. t.openLb <= Value[p]
    BY <1>1, <1>2
  <2> QED
    BY <2>1 DEF Accounts
<1> QED
  BY <1>2 DEF Accounts, Follows

\* The end of a dive changes where nodes are kept, and nothing else.
LEMMA EndOfDiveIs ==
  ASSUME NEW s \in States
  PROVE  /\ Keeps(s, EndOfDive(s)) /\ OneStore(EndOfDive(s).q) /\ ~EndOfDive(s).q.diving
         /\ EndOfDive(s).conflicts = s.conflicts
<1>1. /\ s.q \in Queues
      /\ EndDive(s.q) \in Queues /\ Held(EndDive(s.q)) = Held(s.q)
      /\ ~EndDive(s.q).diving /\ OneStore(EndDive(s.q))
  BY EndDiveIs DEF States
<1> DEFINE t == [s EXCEPT !.q = EndDive(s.q)]
<1>2. EndOfDive(s) = t
  BY DEF EndOfDive
<1>3. /\ t \in States /\ t.q = EndDive(s.q) /\ t.openLb = s.openLb /\ t.inc = s.inc
      /\ t.unbounded = s.unbounded /\ t.conflicts = s.conflicts /\ t.hadOpen = s.hadOpen
  BY <1>1 DEF States
<1>4. s.openLb \in Int
  BY DEF States, Bounds
<1> HIDE DEF t
<1> QED
  BY <1>1, <1>2, <1>3, <1>4 DEF Keeps, Follows, Honest

\* Folding a bound lowers the bound of what was given up.
LEMMA FoldOpenIs ==
  ASSUME NEW s \in States, NEW lb \in Bounds
  PROVE  /\ Keeps(s, FoldOpen(s, lb)) /\ FoldOpen(s, lb).openLb <= lb
         /\ FoldOpen(s, lb).q = s.q /\ FoldOpen(s, lb).conflicts = s.conflicts
<1> DEFINE t == [s EXCEPT !.openLb = Lesser(s.openLb, lb), !.hadOpen = TRUE]
<1>1. FoldOpen(s, lb) = t
  BY DEF FoldOpen
<1>2. /\ Lesser(s.openLb, lb) \in Bounds /\ Lesser(s.openLb, lb) <= lb
      /\ Lesser(s.openLb, lb) <= s.openLb
  BY DEF States, Bounds, Lesser
<1>3. /\ t \in States /\ t.q = s.q /\ t.openLb = Lesser(s.openLb, lb) /\ t.inc = s.inc
      /\ t.unbounded = s.unbounded /\ t.conflicts = s.conflicts /\ t.hadOpen
  BY <1>2 DEF States
<1> HIDE DEF t
<1> QED
  BY <1>1, <1>2, <1>3 DEF Keeps, Follows, Honest

\* A region folded into the open bound is settled.
LEMMA FoldSettles ==
  ASSUME NEW t \in States, NEW n \in Nodes, t.openLb <= n.lb
  PROVE  Settles(t, n)
<1>1. t.openLb \in Int /\ n.lb \in Int
  BY DEF States, Nodes, Bounds
<1> QED
  BY <1>1, ProblemIs DEF Settles, Accounts

\* A node without feasible points is settled by any state.
LEMMA EmptySettles ==
  ASSUME NEW t, NEW n, n.box \cap Feasible = {}
  PROVE  Settles(t, n)
  BY DEF Settles

\* Its region is given up, and the dive is over.
LEMMA FoldedAndEnded ==
  ASSUME NEW s \in States, NEW n \in Nodes
  PROVE  /\ Keeps(s, EndOfDive(FoldOpen(s, n.lb))) /\ Settles(EndOfDive(FoldOpen(s, n.lb)), n)
         /\ OneStore(EndOfDive(FoldOpen(s, n.lb)).q)
         /\ ~EndOfDive(FoldOpen(s, n.lb)).q.diving
         /\ EndOfDive(FoldOpen(s, n.lb)) \in States
         /\ EndOfDive(FoldOpen(s, n.lb)).openLb <= n.lb
<1> DEFINE u == FoldOpen(s, n.lb)
           t == EndOfDive(u)
<1>1. n.lb \in Bounds
  BY DEF Nodes
<1>2. Keeps(s, u) /\ u.openLb <= n.lb /\ u \in States
  BY <1>1, FoldOpenIs DEF Keeps, Follows
<1>3. Keeps(u, t) /\ OneStore(t.q) /\ ~t.q.diving /\ t \in States
  BY <1>2, EndOfDiveIs DEF Keeps, Follows
<1> HIDE DEF u
<1>4. t.openLb <= n.lb
  <2>1. t.openLb <= u.openLb /\ t.openLb \in Int /\ u.openLb \in Int /\ n.lb \in Int
    BY <1>1, <1>2, <1>3 DEF Keeps, Follows, States, Bounds
  <2> HIDE DEF t
  <2> QED
    BY <1>2, <2>1
<1> HIDE DEF t
<1>5. Keeps(s, t) /\ Settles(t, n)
  BY <1>2, <1>3, <1>4, KeepsTransitive, FoldSettles
<1> QED
  BY <1>3, <1>4, <1>5 DEF t, u

\* Setting a flag, or the clauses, keeps the rest.
LEMMA FlagsKeep ==
  ASSUME NEW s \in States, NEW t \in States,
         t.q = s.q, t.inc = s.inc, t.openLb = s.openLb, t.hadOpen = s.hadOpen,
         s.unbounded => t.unbounded, t.unbounded => s.unbounded \/ "unbounded" \in Statuses,
         \A c \in t.conflicts : c \in s.conflicts \/ c \cap Feasible = {}
  PROVE  Keeps(s, t)
<1>1. s.openLb \in Int
  BY DEF States, Bounds
<1> QED
  BY <1>1 DEF Keeps, Follows, Honest

\* What accounts for a node still does after more steps.
LEMMA SettlesStay ==
  ASSUME NEW s \in States, NEW t, NEW n, Keeps(s, t), Settles(s, n)
  PROVE  Settles(t, n)
  BY AccountsStay DEF Settles, Keeps

-----------------------------------------------------------------------------
(* The node body *)

\* A deadline or a node limit before the node: it is folded.
LEMMA StoppedIs ==
  ASSUME NEW s \in States, NEW n \in Nodes, NEW e \in BOOLEAN
  PROVE  /\ Stopped(s, n, e) \in States /\ Keeps(s, Stopped(s, n, e))
         /\ Settles(Stopped(s, n, e), n) /\ OneStore(Stopped(s, n, e).q)
<1> DEFINE u == EndOfDive(FoldOpen(s, n.lb))
           t == IF e THEN [u EXCEPT !.deadlineStop = TRUE] ELSE [u EXCEPT !.maxnodesStop = TRUE]
<1>1. Stopped(s, n, e) = t
  BY DEF Stopped
<1>2. Keeps(s, u) /\ Settles(u, n) /\ OneStore(u.q) /\ u \in States
  BY FoldedAndEnded
<1> HIDE DEF u
<1>3. /\ t \in States /\ t.q = u.q /\ t.inc = u.inc /\ t.openLb = u.openLb
      /\ t.hadOpen = u.hadOpen /\ t.unbounded = u.unbounded /\ t.conflicts = u.conflicts
  BY <1>2 DEF States
<1> HIDE DEF t
<1>4. Keeps(u, t)
  BY <1>2, <1>3, FlagsKeep
<1> QED
  BY <1>1, <1>2, <1>3, <1>4, KeepsTransitive, SettlesStay

\* A dive may begin: only the flag and its counters change.
LEMMA MaybeDiveIs ==
  ASSUME NEW s \in States, NEW n \in Nodes
  PROVE  /\ MaybeDive(s, n) \in States /\ Keeps(s, MaybeDive(s, n))
         /\ MaybeDive(s, n).q.heap = s.q.heap
         /\ MaybeDive(s, n).conflicts = s.conflicts
<1> DEFINE freq == IF s.inc = Inf THEN DiveFrequencyNoIncumbent ELSE DiveFrequency
           q == [s.q EXCEPT !.diving = TRUE]
           u == [s EXCEPT !.sinceDive = 0, !.diveStart = n.depth, !.q.diving = TRUE]
           v == [s EXCEPT !.sinceDive = @ + 1]
<1>1. q \in Queues /\ q.heap = s.q.heap /\ Held(q) = Held(s.q)
  BY DEF States, Queues, Held
<1>2. /\ u \in States /\ u.q = q /\ u.inc = s.inc /\ u.openLb = s.openLb
      /\ u.hadOpen = s.hadOpen /\ u.unbounded = s.unbounded /\ u.conflicts = s.conflicts
  BY <1>1 DEF States, Nodes
<1>3. /\ v \in States /\ v.q = s.q /\ v.inc = s.inc /\ v.openLb = s.openLb
      /\ v.hadOpen = s.hadOpen /\ v.unbounded = s.unbounded /\ v.conflicts = s.conflicts
  BY DEF States
<1>4. MaybeDive(s, n) = IF s.q.diving THEN s ELSE IF s.sinceDive + 1 >= freq THEN u ELSE v
  BY DEF MaybeDive
<1>5. s.openLb \in Int
  BY DEF States, Bounds
<1> HIDE DEF freq, u, v
<1>6. Keeps(s, u)
  BY <1>1, <1>2, <1>5 DEF Keeps, Follows, Honest
<1>7. Keeps(s, v) /\ Keeps(s, s)
  BY <1>3, <1>5 DEF Keeps, Follows, Honest
<1> HIDE DEF q
<1>8. \/ MaybeDive(s, n) = s \/ MaybeDive(s, n) = u \/ MaybeDive(s, n) = v
  BY <1>4
<1> QED
  BY <1>1, <1>2, <1>3, <1>6, <1>7, <1>8

\* An infeasible node needs no account; its clause is a fact.
LEMMA InfeasibleIs ==
  ASSUME NEW s \in States, NEW n \in Nodes, n.box \cap Feasible = {}
  PROVE  /\ AfterInfeasible(s, n) \in States /\ Keeps(s, AfterInfeasible(s, n))
         /\ Settles(AfterInfeasible(s, n), n) /\ OneStore(AfterInfeasible(s, n).q)
<1> DEFINE u == EndOfDive(s)
           t == [u EXCEPT !.conflicts = Learn(u.conflicts, n.box)]
<1>1. AfterInfeasible(s, n) = t
  BY DEF AfterInfeasible
<1>2. Keeps(s, u) /\ OneStore(u.q) /\ u \in States
  BY EndOfDiveIs DEF Keeps, Follows
<1> HIDE DEF u
<1>3. /\ Learn(u.conflicts, n.box) \in SUBSET SUBSET Points
      /\ \A c \in Learn(u.conflicts, n.box) : c \in u.conflicts \/ c = n.box
  BY <1>2 DEF Learn, States, Nodes
<1>4. /\ t \in States /\ t.q = u.q /\ t.inc = u.inc /\ t.openLb = u.openLb
      /\ t.hadOpen = u.hadOpen /\ t.unbounded = u.unbounded
      /\ t.conflicts = Learn(u.conflicts, n.box)
  BY <1>2, <1>3 DEF States
<1> HIDE DEF t
<1>5. Keeps(u, t)
  BY <1>2, <1>3, <1>4, FlagsKeep
<1> QED
  BY <1>1, <1>2, <1>4, <1>5, KeepsTransitive, EmptySettles

\* An unbounded relaxation raises the flag that ends every claim.
LEMMA UnboundedIs ==
  ASSUME NEW s \in States, "unbounded" \in Statuses
  PROVE  /\ AfterUnbounded(s) \in States /\ Keeps(s, AfterUnbounded(s))
         /\ OneStore(AfterUnbounded(s).q) /\ AfterUnbounded(s).unbounded
<1> DEFINE u == EndOfDive(s)
           t == [u EXCEPT !.unbounded = TRUE]
<1>1. AfterUnbounded(s) = t
  BY DEF AfterUnbounded
<1>2. Keeps(s, u) /\ OneStore(u.q) /\ u \in States
  BY EndOfDiveIs DEF Keeps, Follows
<1> HIDE DEF u
<1>3. /\ t \in States /\ t.q = u.q /\ t.inc = u.inc /\ t.openLb = u.openLb
      /\ t.hadOpen = u.hadOpen /\ t.unbounded /\ t.conflicts = u.conflicts
  BY <1>2 DEF States
<1> HIDE DEF t
<1>4. Keeps(u, t)
  BY <1>2, <1>3, FlagsKeep
<1> QED
  BY <1>1, <1>2, <1>3, <1>4, KeepsTransitive

\* A relaxation that met the deadline: the node is folded.
LEMMA TimeoutIs ==
  ASSUME NEW s \in States, NEW n \in Nodes
  PROVE  /\ AfterTimeout(s, n) \in States /\ Keeps(s, AfterTimeout(s, n))
         /\ Settles(AfterTimeout(s, n), n) /\ OneStore(AfterTimeout(s, n).q)
<1> DEFINE u == EndOfDive(FoldOpen(s, n.lb))
           t == [u EXCEPT !.deadlineStop = TRUE]
<1>1. AfterTimeout(s, n) = t
  BY DEF AfterTimeout
<1>2. Keeps(s, u) /\ Settles(u, n) /\ OneStore(u.q) /\ u \in States
  BY FoldedAndEnded
<1> HIDE DEF u
<1>3. /\ t \in States /\ t.q = u.q /\ t.inc = u.inc /\ t.openLb = u.openLb
      /\ t.hadOpen = u.hadOpen /\ t.unbounded = u.unbounded /\ t.conflicts = u.conflicts
  BY <1>2 DEF States
<1> HIDE DEF t
<1>4. Keeps(u, t)
  BY <1>2, <1>3, FlagsKeep
<1> QED
  BY <1>1, <1>2, <1>3, <1>4, KeepsTransitive, SettlesStay

\* A region that cannot be decided: the node is folded.
LEMMA GiveUpIs ==
  ASSUME NEW s \in States, NEW n \in Nodes
  PROVE  /\ GiveUp(s, n) \in States /\ Keeps(s, GiveUp(s, n))
         /\ Settles(GiveUp(s, n), n) /\ OneStore(GiveUp(s, n).q)
<1> DEFINE u == EndOfDive(FoldOpen(s, n.lb))
           t == [u EXCEPT !.uncertain = TRUE]
<1>1. GiveUp(s, n) = t
  BY DEF GiveUp
<1>2. Keeps(s, u) /\ Settles(u, n) /\ OneStore(u.q) /\ u \in States
  BY FoldedAndEnded
<1> HIDE DEF u
<1>3. /\ t \in States /\ t.q = u.q /\ t.inc = u.inc /\ t.openLb = u.openLb
      /\ t.hadOpen = u.hadOpen /\ t.unbounded = u.unbounded /\ t.conflicts = u.conflicts
  BY <1>2 DEF States
<1> HIDE DEF t
<1>4. Keeps(u, t)
  BY <1>2, <1>3, FlagsKeep
<1> QED
  BY <1>1, <1>2, <1>3, <1>4, KeepsTransitive, SettlesStay

\* A child inherits the bound of its parent.
LEMMA ChildIs ==
  ASSUME NEW n \in Nodes, NEW part \in SUBSET Points
  PROVE  Child(n, part) \in Nodes /\ Child(n, part).box = part /\ Child(n, part).lb = n.lb
  BY DEF Child, Nodes

\* Two children of the part `box` of a node, split at the threshold c.
LEMMA PushChildrenIs ==
  ASSUME NEW s \in States, NEW n \in Nodes, NEW box \in SUBSET Points, NEW c \in Cuts(box)
  PROVE  /\ PushChildren(s, n, box, c) \in States /\ Keeps(s, PushChildren(s, n, box, c))
         /\ OneStore(s.q) => OneStore(PushChildren(s, n, box, c).q)
         /\ \A p \in Feasible : p \in box /\ n.lb <= Value[p] =>
              Accounts(PushChildren(s, n, box, c), p)
<1> DEFINE u == IF n.depth >= s.diveStart + MaxDiveDepth THEN EndOfDive(s) ELSE s
           down == Child(n, DownBox(box, c))
           up == Child(n, UpBox(box, c))
           q == Push(Push(u.q, down), up)
           t == [u EXCEPT !.q = q]
<1>1. PushChildren(s, n, box, c) = t
  BY DEF PushChildren
<1>2. /\ down \in Nodes /\ down.box = DownBox(box, c) /\ down.lb = n.lb
      /\ up \in Nodes /\ up.box = UpBox(box, c) /\ up.lb = n.lb
  <2>1. DownBox(box, c) \in SUBSET Points /\ UpBox(box, c) \in SUBSET Points
    BY DEF DownBox, UpBox
  <2> QED
    BY <2>1, ChildIs
<1>3. /\ EndOfDive(s) \in States /\ Keeps(s, EndOfDive(s)) /\ OneStore(EndOfDive(s).q)
  BY EndOfDiveIs DEF Keeps, Follows
<1>4. Keeps(s, s)
  BY DEF Keeps, Follows, States, Bounds
<1>5. u \in States /\ Keeps(s, u)
  BY <1>3, <1>4
<1>6. OneStore(s.q) => OneStore(u.q)
  BY <1>3
<1> HIDE DEF u, down, up
<1>7. /\ q \in Queues /\ Held(q) = Held(u.q) \cup {down, up}
      /\ OneStore(u.q) => OneStore(q)
  <2> DEFINE q1 == Push(u.q, down)
  <2>1. u.q \in Queues
    BY <1>5 DEF States
  <2>2. /\ q1 \in Queues /\ Held(q1) = Held(u.q) \cup {down}
        /\ OneStore(u.q) => OneStore(q1)
    BY <1>2, <2>1, PushIs
  <2>3. q = Push(q1, up)
    OBVIOUS
  <2> HIDE DEF q1, q
  <2>4. /\ Push(q1, up) \in Queues /\ Held(Push(q1, up)) = Held(q1) \cup {up}
        /\ OneStore(q1) => OneStore(Push(q1, up))
    BY <1>2, <2>2, PushIs
  <2> QED
    BY <2>2, <2>3, <2>4
<1> HIDE DEF q
<1>8. /\ t \in States /\ t.q = q /\ t.inc = u.inc /\ t.openLb = u.openLb
      /\ t.hadOpen = u.hadOpen /\ t.unbounded = u.unbounded /\ t.conflicts = u.conflicts
  BY <1>5, <1>7 DEF States
<1> HIDE DEF t
<1>9. Keeps(u, t)
  BY <1>5, <1>7, <1>8 DEF Keeps, Follows, Honest, States, Bounds
<1>10. Keeps(s, t)
  BY <1>5, <1>8, <1>9, KeepsTransitive
<1>11. ASSUME NEW p \in Feasible, p \in box, n.lb <= Value[p] PROVE Accounts(t, p)
  <2>1. p \in Int /\ c \in Int
    BY <1>11, ProblemIs DEF Cuts
  <2>2. p \in down.box \/ p \in up.box
    BY <1>2, <1>11, <2>1 DEF DownBox, UpBox
  <2> QED
    BY <1>2, <1>7, <1>8, <1>11, <2>2 DEF Accounts
<1> QED
  BY <1>1, <1>6, <1>7, <1>8, <1>10, <1>11

\* A relaxation nobody can trust: the children are searched, or the node is folded.
LEMMA UntrustedIs ==
  ASSUME NEW s \in States, NEW n \in Nodes, NEW t \in AfterUntrusted(s, n)
  PROVE  /\ t \in States /\ Keeps(s, t) /\ Settles(t, n)
         /\ OneStore(s.q) => OneStore(t.q)
<1>1. n.box \in SUBSET Points
  BY DEF Nodes
<1>2. CASE t = GiveUp(s, n)
  BY <1>2, GiveUpIs
<1>3. CASE \E c \in Cuts(n.box) : t = PushChildren(s, n, n.box, c)
  <2>1. PICK c \in Cuts(n.box) : t = PushChildren(s, n, n.box, c)
    BY <1>3
  <2> QED
    BY <1>1, <2>1, PushChildrenIs DEF Settles
<1> QED
  BY <1>2, <1>3 DEF AfterUntrusted

\* A fractional node: what reduced-cost fixing removes is worse than the incumbent.
LEMMA FractionalIs ==
  ASSUME NEW s \in States, NEW n \in Nodes, NEW t \in AfterFractional(s, n)
  PROVE  /\ t \in States /\ Keeps(s, t)
         /\ OneStore(s.q) => OneStore(t.q)
         /\ \A p \in Feasible : p \in n.box /\ n.lb <= Value[p] =>
              Accounts(t, p) \/ (s.inc # Inf /\ s.inc < Value[p])
<1>1. CASE t = EndOfDive(FoldOpen(s, n.lb))
  BY <1>1, FoldedAndEnded DEF Settles
<1>2. CASE \E kept \in Fixings(n.box, s.inc) : \E c \in Cuts(kept) : t = PushChildren(s, n, kept, c)
  <2>1. PICK kept \in Fixings(n.box, s.inc) : \E c \in Cuts(kept) : t = PushChildren(s, n, kept, c)
    BY <1>2
  <2>2. PICK c \in Cuts(kept) : t = PushChildren(s, n, kept, c)
    BY <2>1
  <2>3. /\ kept \in SUBSET Points
        /\ s.inc = Inf => kept = n.box
        /\ \A p \in Feasible : p \in n.box => p \in kept \/ Value[p] > s.inc
    BY DEF Fixings, Nodes
  <2>4. /\ t \in States /\ Keeps(s, t)
        /\ OneStore(s.q) => OneStore(t.q)
        /\ \A p \in Feasible : p \in kept /\ n.lb <= Value[p] => Accounts(t, p)
    BY <2>2, <2>3, PushChildrenIs
  <2>5. s.inc \in Int
    BY DEF States
  <2>6. ASSUME NEW p \in Feasible, p \in n.box, n.lb <= Value[p]
        PROVE  Accounts(t, p) \/ (s.inc # Inf /\ s.inc < Value[p])
    <3>1. Value[p] \in Int
      BY ProblemIs
    <3> QED
      BY <2>3, <2>4, <2>5, <2>6, <3>1
  <2> QED
    BY <2>4, <2>6
<1> QED
  BY <1>1, <1>2 DEF AfterFractional

\* What a relaxation that ends says of the box.
LEMMA RelaxationIs ==
  ASSUME NEW box \in SUBSET Points, NEW r \in Relaxations(box)
  PROVE  /\ r.status \in Statuses
         /\ r.status = "infeasible" => box \cap Feasible = {}
         /\ r.status = "optimal" =>
              /\ r.obj \in Int /\ -Inf < r.obj /\ r.obj < Inf
              /\ \A p \in Feasible : p \in box => r.obj <= Value[p]
              /\ r.integral => \E p \in Feasible : r.obj = Value[p]
<1>1. r.status \in Statuses /\ (r.status = "infeasible" => box \cap Feasible = {})
  BY DEF Relaxations
<1>2. ASSUME r.status = "optimal"
      PROVE  /\ r.obj \in Int /\ -Inf < r.obj /\ r.obj < Inf
             /\ \A p \in Feasible : p \in box => r.obj <= Value[p]
             /\ r.integral => \E p \in Feasible : r.obj = Value[p]
  <2>1. r \in Optima(box)
    BY <1>2 DEF Relaxations, Outcome
  <2>2. CASE \E p \in box \cap Feasible :
               /\ \A q \in box \cap Feasible : Value[p] <= Value[q]
               /\ r = [status |-> "optimal", obj |-> Value[p], integral |-> TRUE]
    BY <2>2, ProblemIs
  <2>3. CASE \E b \in Bound :
               /\ \A q \in box \cap Feasible : b <= Value[q]
               /\ r = [status |-> "optimal", obj |-> b, integral |-> FALSE]
    BY <2>3, ProblemIs
  <2> QED
    BY <2>1, <2>2, <2>3 DEF Optima
<1> QED
  BY <1>1, <1>2

\* The bound of a fractional optimum, at least the inherited one, still holds.
LEMMA TightenedIs ==
  ASSUME NEW n \in Nodes, NEW r \in Relaxations(n.box), r.status = "optimal"
  PROVE  /\ Tightened(n, r) \in Nodes /\ Tightened(n, r).box = n.box
         /\ n.lb <= Tightened(n, r).lb
         /\ \A p \in Feasible : p \in n.box /\ n.lb <= Value[p] => Tightened(n, r).lb <= Value[p]
<1>1. n.box \in SUBSET Points /\ n.lb \in Int /\ -Inf <= n.lb
  BY DEF Nodes, Bounds
<1>2. /\ r.obj \in Int /\ -Inf < r.obj
      /\ \A p \in Feasible : p \in n.box => r.obj <= Value[p]
  BY <1>1, RelaxationIs
<1>3. /\ Greater(n.lb, r.obj) \in Bounds /\ n.lb <= Greater(n.lb, r.obj)
      /\ Greater(n.lb, r.obj) = n.lb \/ Greater(n.lb, r.obj) = r.obj
  BY <1>1, <1>2, ProblemIs DEF Greater, Bounds
<1>4. Tightened(n, r) = [n EXCEPT !.lb = Greater(n.lb, r.obj)]
  BY DEF Tightened
<1> DEFINE b == Greater(n.lb, r.obj)
           t == [n EXCEPT !.lb = b]
<1>5. b \in Bounds
  BY <1>3
<1> HIDE DEF b
<1>6. t \in Nodes /\ t.box = n.box /\ t.lb = b
  BY <1>5 DEF Nodes
<1> QED
  BY <1>2, <1>3, <1>4, <1>6 DEF b

-----------------------------------------------------------------------------
(* The result *)

\* The best bound of a heap is below every bound in it.
LEMMA BestBoundIs ==
  ASSUME NEW H \in SUBSET Nodes
  PROVE  /\ BestBound(H) \in Bounds /\ \A n \in H : BestBound(H) <= n.lb
         /\ H = {} => BestBound(H) = Inf
<1>1. CASE H = {}
  BY <1>1, ProblemIs DEF BestBound
<1>2. CASE H # {}
  <2> DEFINE T == {n.lb : n \in H}
  <2>1. \A n \in H : n.lb \in Int /\ -Inf <= n.lb
    BY DEF Nodes, Bounds
  <2>2. T \in SUBSET Int /\ T # {} /\ \A v \in T : -Inf <= v
    BY <1>2, <2>1
  <2>3. -Inf \in Int
    BY ProblemIs DEF Bounds
  <2>4. \E x \in T : \A y \in T : x <= y
    <3> HIDE DEF T
    <3> QED
      BY <2>2, <2>3, LeastInteger
  <2>5. BestNodes(H) # {}
    BY <2>4 DEF BestNodes
  <2>6. PICK m \in BestNodes(H) : BestBound(H) = m.lb
    BY <1>2, <2>5 DEF BestBound
  <2> QED
    BY <1>2, <2>1, <2>6 DEF BestNodes, Bounds
<1> QED
  BY <1>1, <1>2

\* SearchOutcome::absorb: the least bound, and every flag that was raised.
LEMMA AbsorbedIs ==
  ASSUME NEW S \in SUBSET States, S # {}, NEW out, out = Absorbed(S)
  PROVE  /\ out.openLb \in Bounds
         /\ \A s \in S : out.openLb <= s.openLb
         /\ \E s \in S : out.openLb = s.openLb
         /\ out.hadOpen <=> \E s \in S : s.hadOpen
         /\ out.unbounded <=> \E s \in S : s.unbounded
<1> DEFINE T == {s.openLb : s \in S}
<1>1. T \in SUBSET Int /\ T # {} /\ \A v \in T : -Inf <= v
  BY DEF States, Bounds
<1>2. -Inf \in Int
  BY ProblemIs DEF Bounds
<1>3. \E x \in T : \A y \in T : x <= y
  <2> HIDE DEF T
  <2> QED
    BY <1>1, <1>2, LeastInteger
<1>4. out.openLb = CHOOSE lb \in T : \A s \in S : lb <= s.openLb
  BY DEF Absorbed
<1>5. \E lb \in T : \A s \in S : lb <= s.openLb
  BY <1>3
<1>6. out.openLb \in T /\ \A s \in S : out.openLb <= s.openLb
  <2> HIDE DEF T
  <2> QED
    BY <1>4, <1>5
<1>7. out.openLb \in Bounds /\ \E s \in S : out.openLb = s.openLb
  BY <1>6 DEF States
<1>8. /\ out.hadOpen = \E s \in S : s.hadOpen
      /\ out.unbounded = \E s \in S : s.unbounded
  BY Zenon DEF Absorbed
<1> QED
  BY <1>6, <1>7, <1>8

\* finalize_mip_result.  Every point is in a node that is left, above the bound of the
\* regions given up, or within the gap of the incumbent: then the answer is true.
LEMMA FinalizeIs ==
  ASSUME NEW out, out.openLb \in Bounds, ~out.hadOpen => out.openLb = Inf,
         NEW open \in SUBSET Nodes, NEW inc \in Int, inc <= Inf,
         inc = Inf \/ IsFinite(inc),
         ~out.unbounded => \A p \in Feasible :
           \/ \E n \in open : p \in n.box /\ n.lb <= Value[p]
           \/ out.openLb <= Value[p]
           \/ WithinGap(inc, Value[p]),
         NEW a, a = Finalize(out, open, inc)
  PROVE  /\ a.status # "none"
         /\ \/ a.status = "Unbounded" /\ out.unbounded
            \/ /\ a.status = "Optimal" /\ inc # Inf /\ a.obj = inc
               /\ \A p \in Feasible : Tolerated(inc, Value[p])
               /\ a.lb <= a.obj /\ Tolerated(a.obj, a.lb)
            \/ a.status = "Infeasible" /\ Feasible = {}
            \/ a.status = "Suboptimal" /\ inc # Inf /\ a.obj = inc
            \/ a.status = "Timeout" /\ a.obj = inc
            \/ a.status = "MaxIterations" /\ inc = Inf
<1> DEFINE remaining == Lesser(out.openLb, BestBound(open))
           interrupted == out.deadlineStop \/ out.maxnodesStop
           resolved == ~interrupted /\ ~out.hadOpen /\ open = {}
           proven == ~out.uncertain /\ (resolved \/ WithinGap(inc, remaining))
<1>1. a = IF out.unbounded THEN Answer("Unbounded", Inf, -Inf)
          ELSE IF inc # Inf /\ proven THEN Answer("Optimal", inc, Lesser(remaining, inc))
          ELSE IF inc # Inf
          THEN Answer(IF out.deadlineStop THEN "Timeout" ELSE "Suboptimal", inc, -Inf)
          ELSE IF resolved THEN Answer("Infeasible", Inf, -Inf)
          ELSE Answer(IF out.deadlineStop THEN "Timeout" ELSE "MaxIterations", Inf, -Inf)
  BY DEF Finalize
<1>2. /\ BestBound(open) \in Bounds /\ \A n \in open : BestBound(open) <= n.lb
      /\ open = {} => BestBound(open) = Inf
  BY BestBoundIs
<1>3. /\ remaining \in Int /\ remaining <= out.openLb /\ remaining <= BestBound(open)
      /\ out.openLb \in Int
  BY <1>2 DEF Lesser, Bounds
<1>4. \A n \in open : n.lb \in Int
  BY DEF Nodes, Bounds
<1>5. Inf \in Int /\ GapNum \in Nat /\ GapDen \in Nat
  BY GapAssumption
<1>6. \A p \in Feasible : Value[p] \in Int /\ Value[p] < Inf /\ IsFinite(Value[p])
  BY ProblemIs DEF IsFinite
<1>7. ASSUME NEW v \in Int, WithinGap(inc, v) PROVE Tolerated(inc, v) /\ inc # Inf
  BY <1>5, <1>7 DEF WithinGap, Tolerated, IsFinite
<1>8. Tolerated(inc, inc)
  <2>1. GapNum * Scale(inc) \in Nat /\ (inc - inc) * GapDen = 0
    BY <1>5, ScaleType
  <2> QED
    BY <2>1 DEF Tolerated
<1>9. ASSUME resolved, ~out.unbounded PROVE \A p \in Feasible : WithinGap(inc, Value[p])
  BY <1>5, <1>6, <1>9
<1>10. ASSUME WithinGap(inc, remaining), ~out.unbounded
       PROVE  \A p \in Feasible : WithinGap(inc, Value[p])
  <2>1. SUFFICES ASSUME NEW p \in Feasible PROVE WithinGap(inc, Value[p])
    OBVIOUS
  <2>2. CASE remaining <= Value[p]
    <3> HIDE DEF remaining
    <3> QED
      BY <1>3, <1>6, <1>10, <2>2, GapOfHigherBound
  <2>3. CASE ~(remaining <= Value[p])
    <3> HIDE DEF remaining
    <3>1. ~(out.openLb <= Value[p])
      BY <1>3, <1>6, <2>3
    <3>2. ~\E n \in open : p \in n.box /\ n.lb <= Value[p]
      <4>1. BestBound(open) \in Int
        BY <1>2 DEF Bounds
      <4> QED
        BY <1>2, <1>3, <1>4, <1>6, <2>3, <4>1
    <3> QED
      BY <1>10, <3>1, <3>2
  <2> QED
    BY <2>2, <2>3
<1>11. CASE out.unbounded
  BY <1>1, <1>11 DEF Answer
<1>12. CASE ~out.unbounded /\ inc # Inf /\ proven
  <2>1. a = Answer("Optimal", inc, Lesser(remaining, inc))
    BY <1>1, <1>12
  <2>2. \A p \in Feasible : Tolerated(inc, Value[p])
    BY <1>6, <1>7, <1>9, <1>10, <1>12
  <2>3. Lesser(remaining, inc) <= inc /\ Tolerated(inc, Lesser(remaining, inc))
    <3>1. CASE resolved
      <4>1. remaining = Inf
        BY <1>2, <3>1 DEF Lesser
      <4>2. Lesser(remaining, inc) = inc
        BY <1>5, <4>1 DEF Lesser
      <4> QED
        BY <1>8, <4>2
    <3>2. CASE WithinGap(inc, remaining)
      <4> HIDE DEF remaining
      <4>1. Tolerated(inc, remaining)
        BY <1>3, <1>7, <3>2
      <4>2. /\ Lesser(remaining, inc) <= inc
            /\ Lesser(remaining, inc) = remaining \/ Lesser(remaining, inc) = inc
        BY <1>3 DEF Lesser
      <4> QED
        BY <1>8, <4>1, <4>2
    <3> QED
      BY <1>12, <3>1, <3>2
  <2> QED
    BY <1>12, <2>1, <2>2, <2>3 DEF Answer
<1>13. CASE ~out.unbounded /\ inc # Inf /\ ~proven
  BY <1>1, <1>13 DEF Answer
<1>14. CASE ~out.unbounded /\ inc = Inf /\ resolved
  <2>1. a = Answer("Infeasible", Inf, -Inf)
    BY <1>1, <1>14
  <2>2. Feasible = {}
    BY <1>6, <1>7, <1>9, <1>14
  <2> QED
    BY <2>1, <2>2 DEF Answer
<1>15. CASE ~out.unbounded /\ inc = Inf /\ ~resolved
  BY <1>1, <1>15 DEF Answer
<1> QED
  BY <1>11, <1>12, <1>13, <1>14, <1>15

=============================================================================
