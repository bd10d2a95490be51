----------------------------- MODULE NodeSearch -----------------------------
(***************************************************************************)
(* What one branch-and-bound node means: the private state of a search      *)
(* (SearchState), its node queue (NodeQueue) and the body run on each node   *)
(* (run_node), which the serial driver and every parallel worker share.     *)
(* Sources: otspot-core/src/mip/{mod,queue,node,branch,conflict}.rs.         *)
(* The module is free of variables: each operator                           *)
(* maps a search state and a node to the next search state.                 *)
(*                                                                         *)
(* Abstraction of the data.  An integer assignment is a member of Points    *)
(* and a box of variable bounds is the set of the assignments it contains;  *)
(* a search without an incumbent has inc = Inf.                              *)
(***************************************************************************)
EXTENDS GapTest, Sequences, FiniteSets

CONSTANTS
  Points,        \* the integer assignments inside the root box
  Feasible,      \* those some continuous completion makes feasible
  Value,         \* the least objective of such a completion
  Bound,         \* the finite objectives a relaxation may report
  Statuses,      \* the ways a relaxation may end
  MaxNodes, MaxDepth, MaxConflicts,
  DiveFrequency, DiveFrequencyNoIncumbent, MaxDiveDepth

ASSUME ProblemAssumption ==
  /\ IsFiniteSet(Points) /\ Points \subseteq Int
  /\ Feasible \subseteq Points
  /\ Value \in [Feasible -> Int]
  /\ Bound \subseteq Int
  /\ \A v \in Bound \cup {Value[p] : p \in Feasible} : -Inf < v /\ v < Inf
  /\ Statuses \subseteq {"optimal", "infeasible", "unbounded", "timeout",
                         "truncated", "untrusted", "corrupt"}

ASSUME LimitAssumption ==
  /\ MaxNodes \in Nat \ {0} /\ MaxDepth \in Nat \ {0} /\ MaxConflicts \in Nat
  /\ DiveFrequency \in Nat \ {0} /\ DiveFrequencyNoIncumbent \in Nat \ {0}
  /\ MaxDiveDepth \in Nat

-----------------------------------------------------------------------------
(* Nodes and the node queue *)

Node == [box : SUBSET Points, lb : Int, depth : Nat]

RootNode == [box |-> Points, lb |-> -Inf, depth |-> 0]

\* `None`: what a worker without a node has in hand.
NoNode == [box |-> {}, lb |-> Inf, depth |-> 0]

Child(node, part) == [box |-> part, lb |-> node.lb, depth |-> node.depth + 1]

\* The heap's order is by lower bound; equal bounds leave in insertion order in
\* the code and in any order here.
BestNodes(nodes) == {n \in nodes : \A m \in nodes : n.lb <= m.lb}

BestBound(nodes) == IF nodes = {} THEN Inf ELSE (CHOOSE n \in BestNodes(nodes) : TRUE).lb

EmptyQueue == [heap |-> {}, stack |-> <<>>, diving |-> FALSE]

Held(q) == q.heap \cup {q.stack[i] : i \in DOMAIN q.stack}

Push(q, node) ==
  IF q.diving THEN [q EXCEPT !.stack = Append(@, node)]
              ELSE [q EXCEPT !.heap = @ \cup {node}]

\* pop: in a dive the top of the stack, and popping the last one ends the dive;
\* otherwise, or when the stack is already empty, a best node of the heap.
FromStack(q) == q.diving /\ q.stack # <<>>

\* Mutant: the top is read but stays on the stack.
PeekTop(q) == q

PopTop(q) ==
  LET rest == SubSeq(q.stack, 1, Len(q.stack) - 1)
  IN  [q EXCEPT !.stack = rest, !.diving = rest # <<>>]

PopBest(q, node) == [q EXCEPT !.heap = @ \ {node}, !.diving = FALSE]

Popped(q) ==
  IF FromStack(q)
  THEN {[node |-> q.stack[Len(q.stack)], rest |-> PopTop(q)]}
  ELSE {[node |-> n, rest |-> PopBest(q, n)] : n \in BestNodes(q.heap)}

\* Mutant: the dive stack is dropped instead of flushed to the heap.
EndDiveDropping(q) == [heap |-> q.heap, stack |-> <<>>, diving |-> FALSE]

EndDive(q) == [heap |-> Held(q), stack |-> <<>>, diving |-> FALSE]

-----------------------------------------------------------------------------
(* The state of a search *)

NewSearch(incumbent) ==
  [q |-> EmptyQueue, inc |-> incumbent, conflicts |-> {},
   openLb |-> Inf, hadOpen |-> FALSE, uncertain |-> FALSE,
   deadlineStop |-> FALSE, maxnodesStop |-> FALSE, unbounded |-> FALSE,
   sinceDive |-> 0, diveStart |-> 0]

EndOfDive(s) == [s EXCEPT !.q = EndDive(@)]

\* A region is given up unexplored: its bound joins the open lower bound.
FoldOpen(s, lb) == [s EXCEPT !.openLb = Lesser(@, lb), !.hadOpen = TRUE]

\* Mutant: off by one on the node budget.
StopRequestedLate(expired, nodesDone) == expired \/ nodesDone > MaxNodes

\* check_stop_conditions: the deadline first, then the node budget.
StopRequested(expired, nodesDone) == expired \/ nodesDone >= MaxNodes

\* Mutant: the node in hand is not folded into the open bound.
StoppedForgetting(s, node, expired) ==
  LET t == EndOfDive([s EXCEPT !.hadOpen = TRUE])
  IN  IF expired THEN [t EXCEPT !.deadlineStop = TRUE]
                 ELSE [t EXCEPT !.maxnodesStop = TRUE]

Stopped(s, node, expired) ==
  LET t == EndOfDive(FoldOpen(s, node.lb))
  IN  IF expired THEN [t EXCEPT !.deadlineStop = TRUE]
                 ELSE [t EXCEPT !.maxnodesStop = TRUE]

\* Dive management at the head of run_node.
MaybeDive(s, node) ==
  LET freq == IF s.inc = Inf THEN DiveFrequencyNoIncumbent ELSE DiveFrequency
  IN  IF s.q.diving THEN s
      ELSE IF s.sinceDive + 1 >= freq
      THEN [s EXCEPT !.sinceDive = 0, !.diveStart = node.depth,
                     !.q.diving = TRUE]
      ELSE [s EXCEPT !.sinceDive = @ + 1]

\* conflict.rs: a clause is the box of a node whose relaxation was infeasible
\* (its tightenings against the root); a node inside such a box is conflicted.
Learn(clauses, box) ==
  IF Cardinality(clauses) >= MaxConflicts \/ box = Points THEN clauses
  ELSE clauses \cup {box}

Conflicted(s, node) ==
  node.depth > 0 /\ \E clause \in s.conflicts : node.box \subseteq clause

\* Bound propagation may prove a box empty, and only when it is.
MayPropagate(box) == box \cap Feasible = {}

-----------------------------------------------------------------------------
(* The relaxation of a box: an external, sound solver *)

\* An integral optimum is a feasible point no other point of the box beats; a
\* fractional one is a lower bound on the box, some integer of which is free.
Optima(box) ==
  LET here == box \cap Feasible
  IN  {[status |-> "optimal", obj |-> Value[p], integral |-> TRUE] :
          p \in {p \in here : \A r \in here : Value[p] <= Value[r]}}
      \cup
      {[status |-> "optimal", obj |-> b, integral |-> FALSE] :
          b \in {b \in Bound : Cardinality(box) > 1 /\
                               \A r \in here : b <= Value[r]}}

Outcome(status) == [status |-> status, obj |-> Inf, integral |-> FALSE]

Relaxations(box) ==
  {r \in Optima(box) \cup {Outcome(s) : s \in Statuses \ {"optimal"}} :
     /\ r.status \in Statuses
     /\ r.status = "infeasible" => box \cap Feasible = {}}

-----------------------------------------------------------------------------
(* After the relaxation *)

\* dispatch_relaxation_status.
AfterInfeasible(s, node) ==
  [EndOfDive(s) EXCEPT !.conflicts = Learn(@, node.box)]

AfterUnbounded(s) == [EndOfDive(s) EXCEPT !.unbounded = TRUE]

AfterTimeout(s, node) ==
  [EndOfDive(FoldOpen(s, node.lb)) EXCEPT !.deadlineStop = TRUE]

\* The thresholds that leave something on both sides of a box: floor(v) for a
\* fractional v strictly inside the bounds of the branching variable.
Cuts(box) == {c \in box : \E p \in box : p > c}

\* Mutant: the threshold itself is in neither child.
DownBoxStrict(box, c) == {p \in box : p < c}

DownBox(box, c) == {p \in box : p <= c}
UpBox(box, c) == {p \in box : p > c}

\* Both children are pushed after the dive is ended if it went too deep.
PushChildren(s, node, box, c) ==
  LET t == IF node.depth >= s.diveStart + MaxDiveDepth THEN EndOfDive(s) ELSE s
  IN  [t EXCEPT !.q = Push(Push(@, Child(node, DownBox(box, c))),
                           Child(node, UpBox(box, c)))]

TooDeep(node) == node.depth + 1 > MaxDepth

\* Mutant: a relaxation that is not trusted is taken for an infeasible one.
GiveUpAsInfeasible(s, node) ==
  [EndOfDive(FoldOpen(s, node.lb)) EXCEPT !.uncertain = TRUE,
                                          !.conflicts = Learn(@, node.box)]

\* A region nothing certifies: no bound, no split left (or no depth left).
GiveUp(s, node) ==
  [EndOfDive(FoldOpen(s, node.lb)) EXCEPT !.uncertain = TRUE]

\* An integral "optimum" whose objective or solution is not finite ("corrupt")
\* is neither adopted nor taken as a proof that its box is exhausted: GiveUp.
\*
\* A relaxation that ended without a trustworthy optimum ("truncated" by an
\* iteration limit, or "untrusted" for another reason): bisect the widest
\* integer interval, and give the box up when there is none.
AfterUntrusted(s, node) ==
  IF TooDeep(node) \/ Cuts(node.box) = {} THEN {GiveUp(s, node)}
  ELSE {PushChildren(s, node, node.box, c) : c \in Cuts(node.box)}

\* The bound a fractional optimum gives the node and its children.
Tightened(node, r) == [node EXCEPT !.lb = Greater(@, r.obj)]

\* reduced_cost_fixing removes part of the box, all of it worse than the
\* incumbent of this search; the branching variable stays free.
Fixings(box, inc) ==
  {kept \in SUBSET box :
     /\ Cuts(kept) # {}
     /\ inc = Inf => kept = box
     /\ \A p \in (box \ kept) \cap Feasible : Value[p] > inc}

\* The end of process_node_outcome for a fractional node.
AfterFractional(s, node) ==
  IF TooDeep(node) THEN {EndOfDive(FoldOpen(s, node.lb))}
  ELSE UNION {{PushChildren(s, node, kept, c) : c \in Cuts(kept)} :
                kept \in Fixings(node.box, s.inc)}

-----------------------------------------------------------------------------
(* finalize_mip_result *)

Answer(status, obj, lb) == [status |-> status, obj |-> obj, lb |-> lb]

NoAnswer == Answer("none", Inf, -Inf)

\* Mutant: the flag of a region left open survives only if all have one.
AbsorbedWhenAll(searches) ==
  [openLb |-> IF searches = {} THEN Inf
              ELSE CHOOSE lb \in {s.openLb : s \in searches} :
                     \A s \in searches : lb <= s.openLb,
   hadOpen |-> \A s \in searches : s.hadOpen,
   uncertain |-> \E s \in searches : s.uncertain,
   deadlineStop |-> \E s \in searches : s.deadlineStop,
   maxnodesStop |-> \E s \in searches : s.maxnodesStop,
   unbounded |-> \E s \in searches : s.unbounded]

\* The terminal flags of the given searches reduced by SearchOutcome::absorb.
Absorbed(searches) ==
  [openLb |-> IF searches = {} THEN Inf
              ELSE CHOOSE lb \in {s.openLb : s \in searches} :
                     \A s \in searches : lb <= s.openLb,
   hadOpen |-> \E s \in searches : s.hadOpen,
   uncertain |-> \E s \in searches : s.uncertain,
   deadlineStop |-> \E s \in searches : s.deadlineStop,
   maxnodesStop |-> \E s \in searches : s.maxnodesStop,
   unbounded |-> \E s \in searches : s.unbounded]

Finalize(out, open, inc) ==
  LET remaining == Lesser(out.openLb, BestBound(open))
      interrupted == out.deadlineStop \/ out.maxnodesStop
      resolved == ~interrupted /\ ~out.hadOpen /\ open = {}
      proven == ~out.uncertain /\ (resolved \/ WithinGap(inc, remaining))
  IN  IF out.unbounded THEN Answer("Unbounded", Inf, -Inf)
      ELSE IF inc # Inf /\ proven
      THEN Answer("Optimal", inc, Lesser(remaining, inc))
      ELSE IF inc # Inf
      THEN Answer(IF out.deadlineStop THEN "Timeout" ELSE "Suboptimal", inc, -Inf)
      ELSE IF resolved THEN Answer("Infeasible", Inf, -Inf)
      ELSE Answer(IF out.deadlineStop THEN "Timeout" ELSE "MaxIterations",
                  Inf, -Inf)

=============================================================================
