----------------------------- MODULE SerialProofs -----------------------------
(***************************************************************************)
(* The safety of the serial search and of the sub-MIPs it runs, for any        *)
(* problem, any sound relaxation, any limits and any iteration budget: no      *)
(* region is lost, every clause is a fact, and the answer keeps the contract   *)
(* of a branch and bound.  The inductive invariant is SerialInv.               *)
(***************************************************************************)
EXTENDS SerialBnB, NodeSearchProofs

\* Where there is a node in hand.
Working == {"run", "solve", "branch"}

Objective(v) == v \in Int /\ (v = Inf \/ IsFinite(v))

SerialTypeOK ==
  /\ pc \in {"pop", "run", "solve", "branch", "finish", "done"}
  /\ s \in States /\ Honest(s) /\ Objective(s.inc)
  /\ hand \in Nodes /\ (pc \notin Working => hand = NoNode)
  /\ expired \in BOOLEAN
  /\ pc = "done" <=> answer.status # "none"

\* The point p is in the queue of t or in the node n, or in a region given up, or no
\* better than the incumbent of t up to the gap.
Safe(t, n, p) ==
  \/ \E m \in Held(t.q) \cup {n} : p \in m.box /\ m.lb <= Value[p]
  \/ t.openLb <= Value[p]
  \/ WithinGap(t.inc, Value[p])

PointsSafe == ~s.unbounded => \A p \in Feasible : Safe(s, hand, p)

SerialInv == SerialTypeOK /\ PointsSafe

\* The dummy node of an empty hand covers no point.
LEMMA NoNodeIs == NoNode \in Nodes /\ NoNode.box = {}
  BY ProblemIs DEF NoNode, Nodes

-----------------------------------------------------------------------------
(* A step of the search *)

\* The state t, with the node n then in hand, follows the current one: the incumbent
\* only improves, and what was in hand is accounted for.
Continues(t, n) ==
  /\ t \in States /\ Follows(s, t) /\ n \in Nodes
  /\ Objective(t.inc) /\ t.inc <= s.inc
  /\ \A p \in Feasible : p \in hand.box /\ hand.lb <= Value[p] => Safe(t, n, p) \/ t.unbounded

\* The invariant is kept by a step that drops no point of what the search held.
LEMMA SearchStep ==
  ASSUME SerialInv, NEW t, NEW n, NEW to \in {"pop", "run", "solve", "branch", "finish"},
         pc # "done", s' = t, hand' = n, pc' = to, expired' = expired, answer' = answer,
         Continues(t, n), to \notin Working => n = NoNode
  PROVE  SerialInv'
<1>1. /\ t \in States /\ Held(s.q) \subseteq Held(t.q) /\ t.openLb <= s.openLb
      /\ s.unbounded => t.unbounded
      /\ Honest(t) /\ n \in Nodes /\ Objective(t.inc) /\ t.inc <= s.inc
  BY DEF Continues, Follows, SerialInv, SerialTypeOK
<1>2. SerialTypeOK'
  BY <1>1 DEF SerialInv, SerialTypeOK
<1>3. ASSUME ~t.unbounded, NEW p \in Feasible PROVE Safe(t, n, p)
  <2>1. Safe(s, hand, p)
    BY <1>1, <1>3 DEF SerialInv, PointsSafe
  <2>2. /\ t.openLb \in Int /\ s.openLb \in Int /\ Value[p] \in Int /\ s.inc \in Int
        /\ t.inc \in Int /\ Inf \in Int
    BY <1>1, ProblemIs DEF SerialInv, SerialTypeOK, States, Bounds
  <2>3. CASE \E m \in Held(s.q) : p \in m.box /\ m.lb <= Value[p]
    BY <1>1, <2>3 DEF Safe
  <2>4. CASE p \in hand.box /\ hand.lb <= Value[p]
    BY <1>3, <2>4 DEF Continues
  <2>5. CASE s.openLb <= Value[p]
    <3>1. t.openLb <= Value[p]
      BY <1>1, <2>2, <2>5
    <3> QED
      BY <3>1 DEF Safe
  <2>6. CASE WithinGap(s.inc, Value[p])
    <3>1. IsFinite(t.inc)
      BY <1>1, <2>2, <2>6 DEF WithinGap, IsFinite, Objective
    <3>2. WithinGap(t.inc, Value[p])
      BY <1>1, <2>2, <2>6, <3>1, GapMonotone
    <3> QED
      BY <3>2 DEF Safe
  <2> QED
    BY <2>1, <2>3, <2>4, <2>5, <2>6 DEF Safe
<1>4. PointsSafe'
  BY <1>3 DEF PointsSafe
<1> QED
  BY <1>2, <1>4 DEF SerialInv

\* What the invariant says of the state.
LEMMA SearchIs ==
  ASSUME SerialInv
  PROVE  /\ s \in States /\ s.q \in Queues /\ hand \in Nodes /\ hand.box \in SUBSET Points
         /\ hand.lb \in Int /\ s.inc \in Int /\ Objective(s.inc) /\ s.inc <= s.inc
         /\ Honest(s) /\ expired \in BOOLEAN /\ Follows(s, s) /\ Keeps(s, s)
<1>1. s \in States /\ Honest(s) /\ Objective(s.inc) /\ hand \in Nodes /\ expired \in BOOLEAN
  BY DEF SerialInv, SerialTypeOK
<1>2. /\ s.q \in Queues /\ s.inc \in Int /\ s.openLb \in Int
      /\ hand.box \in SUBSET Points /\ hand.lb \in Int
  BY <1>1 DEF States, Nodes, Bounds
<1>3. Keeps(s, s) /\ Follows(s, s) /\ s.inc <= s.inc
  BY <1>1, <1>2 DEF Keeps, Follows
<1> QED
  BY <1>1, <1>2, <1>3

\* A node consumed by a state that keeps the incumbent and settles it.
LEMMA SettledStep ==
  ASSUME SerialInv, pc \in Working, NEW t, NEW to \in {"pop", "finish"}, Consume(t, to),
         expired' = expired, answer' = answer,
         t \in States, Keeps(s, t),
         \/ Settles(t, hand) \/ t.unbounded
         \/ \A p \in Feasible : p \in hand.box /\ hand.lb <= Value[p] => WithinGap(s.inc, Value[p])
  PROVE  SerialInv'
<1>1. Follows(s, t) /\ t.inc = s.inc
  BY DEF Keeps
<1>2. Continues(t, NoNode)
  BY <1>1, SearchIs, NoNodeIs DEF Continues, Settles, Accounts, Safe
<1> QED
  BY <1>2, SearchStep DEF Consume, Working

\* What is pruned is within the gap.
LEMMA PrunedByGap ==
  ASSUME SerialInv, NEW lb \in Int, ShouldPrune(lb, s.inc), NEW p \in Feasible, lb <= Value[p]
  PROVE  WithinGap(s.inc, Value[p])
  BY SearchIs, ProblemIs, GapOfHigherBound DEF ShouldPrune

\* A feasible point of that objective is found.
LEMMA BetterIncumbent ==
  ASSUME SerialInv, NEW v, Objective(v), NEW t, t = [s EXCEPT !.inc = Lesser(s.inc, v)]
  PROVE  /\ t \in States /\ Follows(s, t) /\ Objective(t.inc) /\ t.inc <= s.inc /\ t.inc <= v
         /\ t.inc = Lesser(s.inc, v)
<1> DEFINE u == Lesser(s.inc, v)
<1>1. Objective(u) /\ u \in Int /\ u <= s.inc /\ u <= v
  BY SearchIs DEF Objective, Lesser
<1>2. t = [s EXCEPT !.inc = u]
  OBVIOUS
<1> HIDE DEF u
<1>3. t \in States /\ Follows(s, t) /\ t.inc = u
  BY <1>1, <1>2, SearchIs, SeesIncumbent
<1> QED
  BY <1>1, <1>3 DEF u

\* A point no better than the incumbent is within the gap of it.
LEMMA WorseIsWithinGap ==
  ASSUME NEW v, Objective(v), NEW p \in Feasible, v <= Value[p]
  PROVE  WithinGap(v, Value[p])
<1>1. Value[p] \in Int /\ IsFinite(Value[p]) /\ Value[p] < Inf /\ Inf \in Int
  BY ProblemIs DEF IsFinite
<1>2. IsFinite(v) /\ v \in Int
  BY <1>1 DEF Objective, IsFinite
<1> QED
  BY <1>1, <1>2, GapOfWorse

-----------------------------------------------------------------------------
(* The actions *)

\* The next node is taken, or the queue is empty.
LEMMA PopStep ==
  ASSUME SerialInv, PopNext
  PROVE  SerialInv'
<1>1. PICK r \in Popped(s.q) : hand' = r.node /\ s' = [s EXCEPT !.q = r.rest]
  BY DEF PopNext
<1>2. pc = "pop" /\ pc' = "run" /\ UNCHANGED <<processed, lpIters, expired, answer>>
  BY DEF PopNext
<1>3. r.rest \in Queues /\ r.node \in Nodes /\ Held(s.q) = Held(r.rest) \cup {r.node}
  BY SearchIs, PoppedIs
<1> DEFINE t == [s EXCEPT !.q = r.rest]
<1>4. /\ t \in States /\ t.q = r.rest /\ t.inc = s.inc /\ t.openLb = s.openLb
      /\ t.conflicts = s.conflicts /\ t.hadOpen = s.hadOpen /\ t.unbounded = s.unbounded
  BY <1>3, SearchIs DEF States
<1>5. s' = t
  BY <1>1
<1> HIDE DEF t
<1>6. SerialTypeOK'
  BY <1>1, <1>2, <1>3, <1>4, <1>5 DEF SerialInv, SerialTypeOK, Honest, Working
<1>7. hand.box = {}
  BY <1>2, NoNodeIs DEF SerialInv, SerialTypeOK, Working
<1>8. PointsSafe'
  BY <1>1, <1>3, <1>4, <1>5, <1>7 DEF SerialInv, PointsSafe, Safe
<1> QED
  BY <1>6, <1>8 DEF SerialInv

\* The stop conditions at the head of run_node, the iteration budget of a sub-MIP among them.
LEMMA RunStopStep ==
  ASSUME SerialInv, RunStop
  PROVE  SerialInv'
<1> DEFINE e == expired \/ processed < MaxNodes
           t == Stopped(s, hand, e)
<1>1. pc = "run" /\ Consume(t, "finish") /\ expired' = expired /\ answer' = answer
  BY DEF RunStop
<1>2. t \in States /\ Keeps(s, t) /\ Settles(t, hand)
  <2>1. e \in BOOLEAN
    OBVIOUS
  <2> HIDE DEF e
  <2> QED
    BY <2>1, SearchIs, StoppedIs
<1> HIDE DEF t
<1> QED
  BY <1>1, <1>2, SettledStep DEF Working

\* Pruning before the relaxation: by the bound, by a clause, by propagation.
LEMMA RunPruneStep ==
  ASSUME SerialInv, RunPrune
  PROVE  SerialInv'
<1> DEFINE u == MaybeDive(s, hand)
           t == EndOfDive(u)
<1>1. /\ pc = "run" /\ expired' = expired /\ answer' = answer
      /\ \/ ShouldPrune(hand.lb, u.inc) /\ Consume(t, "pop")
         \/ (Conflicted(u, hand) \/ MayPropagate(hand.box)) /\ Consume(u, "pop")
  BY DEF RunPrune
<1>2. u \in States /\ Keeps(s, u) /\ u.conflicts = s.conflicts /\ u.inc = s.inc
  BY SearchIs, MaybeDiveIs DEF Keeps
<1> HIDE DEF u
<1>3. Keeps(u, t) /\ t \in States
  BY <1>2, EndOfDiveIs DEF Keeps, Follows
<1> HIDE DEF t
<1>4. Keeps(s, t)
  BY <1>2, <1>3, SearchIs, KeepsTransitive
<1>5. CASE ShouldPrune(hand.lb, u.inc) /\ Consume(t, "pop")
  <2>1. \A p \in Feasible : hand.lb <= Value[p] => WithinGap(s.inc, Value[p])
    BY <1>2, <1>5, SearchIs, PrunedByGap
  <2> QED
    BY <1>1, <1>3, <1>4, <1>5, <2>1, SettledStep DEF Working
<1>6. CASE (Conflicted(u, hand) \/ MayPropagate(hand.box)) /\ Consume(u, "pop")
  <2>1. hand.box \cap Feasible = {}
    <3>1. \A clause \in u.conflicts : clause \cap Feasible = {}
      BY <1>2, SearchIs DEF Honest
    <3> QED
      BY <1>6, <3>1 DEF Conflicted, MayPropagate
  <2> QED
    BY <1>1, <1>2, <1>6, <2>1, EmptySettles, SettledStep DEF Working
<1> QED
  BY <1>1, <1>5, <1>6

\* The node goes to the relaxation, in a dive perhaps.
LEMMA RunSolveStep ==
  ASSUME SerialInv, RunSolve
  PROVE  SerialInv'
<1> DEFINE t == MaybeDive(s, hand)
<1>1. /\ pc = "run" /\ pc' = "solve" /\ s' = t /\ hand' = hand
      /\ expired' = expired /\ answer' = answer
  BY DEF RunSolve
<1>2. t \in States /\ Keeps(s, t)
  BY SearchIs, MaybeDiveIs
<1> HIDE DEF t
<1>3. Continues(t, hand)
  BY <1>2, SearchIs DEF Continues, Keeps, Safe
<1> QED
  BY <1>1, <1>3, SearchStep DEF Working

\* A trusted integral optimum becomes the incumbent; no point of its box beats it.
LEMMA LeafStep ==
  ASSUME SerialInv, pc = "solve", expired' = expired, answer' = answer,
         NEW r \in Relaxations(hand.box), r.status = "optimal",
         Consume(EndOfDive([s EXCEPT !.inc = Lesser(s.inc, r.obj)]), "pop")
  PROVE  SerialInv'
<1>1. /\ r.obj \in Int /\ Objective(r.obj)
      /\ \A p \in Feasible : p \in hand.box => r.obj <= Value[p]
  BY SearchIs, RelaxationIs DEF Objective, IsFinite
<1> DEFINE u == [s EXCEPT !.inc = Lesser(s.inc, r.obj)]
           t == EndOfDive(u)
<1>2. u \in States /\ Follows(s, u) /\ Objective(u.inc) /\ u.inc <= s.inc /\ u.inc <= r.obj
  BY <1>1, BetterIncumbent
<1>3. Consume(t, "pop")
  OBVIOUS
<1> HIDE DEF u
<1>4. Follows(u, t) /\ t.inc = u.inc /\ t \in States
  BY <1>2, EndOfDiveIs DEF Keeps, Follows
<1> HIDE DEF t
<1>5. Follows(s, t)
  BY <1>2, <1>4, SearchIs, FollowsTransitive
<1>6. \A p \in Feasible : p \in hand.box => WithinGap(t.inc, Value[p])
  <2>1. SUFFICES ASSUME NEW p \in Feasible, p \in hand.box PROVE t.inc <= Value[p]
    BY <1>2, <1>4, WorseIsWithinGap
  <2>2. Value[p] \in Int /\ t.inc \in Int /\ r.obj <= Value[p]
    BY <1>1, <1>2, <1>4, <2>1, ProblemIs DEF Objective
  <2> QED
    BY <1>1, <1>2, <1>4, <2>2
<1>7. Continues(t, NoNode)
  BY <1>2, <1>4, <1>5, <1>6, NoNodeIs DEF Continues, Safe
<1> QED
  BY <1>3, <1>7, SearchStep DEF Consume, Working

\* The relaxation comes back, in one of its ways.
LEMMA SolveStep ==
  ASSUME SerialInv, Solve
  PROVE  SerialInv'
<1>1. PICK r \in Relaxations(hand.box), iters \in NodeIters : Solved(r, iters)
  BY DEF Solve
<1>2. pc = "solve" /\ expired' = expired /\ answer' = answer
  BY DEF Solve
<1>3. r.status \in Statuses /\ (r.status = "infeasible" => hand.box \cap Feasible = {})
  BY SearchIs, RelaxationIs
<1>4. CASE r.status = "infeasible" /\ Consume(AfterInfeasible(s, hand), "pop")
  BY <1>2, <1>3, <1>4, SearchIs, InfeasibleIs, SettledStep DEF Working
<1>5. CASE r.status = "unbounded" /\ Consume(AfterUnbounded(s), "finish")
  BY <1>2, <1>3, <1>5, SearchIs, UnboundedIs, SettledStep DEF Working
<1>6. CASE Consume(AfterTimeout(s, hand), "finish")
  BY <1>2, <1>6, SearchIs, TimeoutIs, SettledStep DEF Working
<1>7. ASSUME NEW t \in AfterUntrusted(s, hand), Consume(t, "pop")
      PROVE  SerialInv'
  BY <1>2, <1>7, SearchIs, UntrustedIs, SettledStep DEF Working
<1>8. CASE Consume(GiveUp(s, hand), "pop")
  BY <1>2, <1>8, SearchIs, GiveUpIs, SettledStep DEF Working
<1>9. CASE /\ r.status = "optimal" /\ ShouldPrune(Tightened(hand, r).lb, s.inc)
           /\ Consume(s, "pop")
  <2>1. /\ Tightened(hand, r) \in Nodes
        /\ \A p \in Feasible : p \in hand.box /\ hand.lb <= Value[p] =>
             Tightened(hand, r).lb <= Value[p]
    BY <1>9, SearchIs, TightenedIs
  <2>2. Tightened(hand, r).lb \in Int
    BY <2>1 DEF Nodes, Bounds
  <2>3. \A p \in Feasible : p \in hand.box /\ hand.lb <= Value[p] => WithinGap(s.inc, Value[p])
    BY <1>9, <2>1, <2>2, PrunedByGap
  <2> QED
    BY <1>2, <1>9, <2>3, SearchIs, SettledStep DEF Working
<1>10. CASE /\ r.status = "optimal" /\ r.integral
            /\ Consume(EndOfDive([s EXCEPT !.inc = Lesser(@, r.obj)]), "pop")
  BY <1>2, <1>10, LeafStep
<1>11. CASE /\ r.status = "optimal" /\ hand' = Tightened(hand, r) /\ pc' = "branch" /\ s' = s
  <2>1. /\ Tightened(hand, r) \in Nodes /\ Tightened(hand, r).box = hand.box
        /\ \A p \in Feasible : p \in hand.box /\ hand.lb <= Value[p] =>
             Tightened(hand, r).lb <= Value[p]
    BY <1>11, SearchIs, TightenedIs
  <2>2. Continues(s, Tightened(hand, r))
    BY <2>1, SearchIs DEF Continues, Safe
  <2> QED
    BY <1>2, <1>11, <2>2, SearchStep DEF Working
<1> QED
  BY <1>1, <1>4, <1>5, <1>6, <1>7, <1>8, <1>9, <1>10, <1>11 DEF Solved

\* The node is split, a heuristic may improve the incumbent before.
LEMMA BranchStep ==
  ASSUME SerialInv, Branch
  PROVE  SerialInv'
<1>1. pc = "branch" /\ expired' = expired /\ answer' = answer
  BY DEF Branch
<1>2. PICK found \in {Inf} \cup {Value[p] : p \in Feasible} :
        \E t \in AfterFractional([s EXCEPT !.inc = Lesser(@, found)], hand) : Consume(t, "pop")
  BY DEF Branch
<1>3. Objective(found)
  BY <1>2, ProblemIs DEF IsFinite, Objective
<1> DEFINE u == [s EXCEPT !.inc = Lesser(s.inc, found)]
<1>4. PICK t \in AfterFractional(u, hand) : Consume(t, "pop")
  BY <1>2
<1>5. u \in States /\ Follows(s, u) /\ Objective(u.inc) /\ u.inc <= s.inc
  BY <1>3, BetterIncumbent
<1> HIDE DEF u
<1>6. /\ t \in States /\ Follows(u, t) /\ t.inc = u.inc
      /\ \A p \in Feasible : p \in hand.box /\ hand.lb <= Value[p] =>
           Accounts(t, p) \/ (u.inc # Inf /\ u.inc < Value[p])
  BY <1>4, <1>5, SearchIs, FractionalIs DEF Keeps
<1>7. Follows(s, t)
  BY <1>5, <1>6, SearchIs, FollowsTransitive
<1>8. ASSUME NEW p \in Feasible, u.inc < Value[p] PROVE WithinGap(t.inc, Value[p])
  <2>1. u.inc \in Int /\ Value[p] \in Int
    BY <1>5, ProblemIs DEF Objective
  <2>2. u.inc <= Value[p]
    BY <1>8, <2>1
  <2> QED
    BY <1>5, <1>6, <2>2, WorseIsWithinGap
<1>9. Continues(t, NoNode)
  BY <1>5, <1>6, <1>7, <1>8, NoNodeIs DEF Continues, Safe, Accounts
<1> QED
  BY <1>1, <1>4, <1>9, SearchStep DEF Consume, Working

\* The result is true of the problem.
Honoured(a) ==
  \/ a.status = "Unbounded" /\ "unbounded" \in Statuses
  \/ /\ a.status = "Optimal" /\ s.inc # Inf /\ a.obj = s.inc
     /\ \A p \in Feasible : Tolerated(s.inc, Value[p])
     /\ a.lb <= a.obj /\ Tolerated(a.obj, a.lb)
  \/ a.status = "Infeasible" /\ Feasible = {}
  \/ a.status = "Suboptimal" /\ s.inc # Inf /\ a.obj = s.inc
  \/ a.status = "Timeout" /\ a.obj = s.inc
  \/ a.status = "MaxIterations" /\ s.inc = Inf

\* The finalizer answers, and its answer holds.
LEMMA FinishIs ==
  ASSUME SerialInv, Finish
  PROVE  /\ Honoured(answer') /\ answer'.status # "none" /\ answer.status = "none"
         /\ UNCHANGED <<s, hand, expired>> /\ pc' = "done"
<1>1. /\ UNCHANGED <<s, hand, expired>> /\ pc' = "done" /\ pc \in {"finish", "pop"}
      /\ answer' = Finalize(Absorbed({s}), EndDive(s.q).heap, s.inc)
  BY DEF Finish
<1>2. hand.box = {} /\ answer.status = "none"
  BY <1>1, NoNodeIs DEF SerialInv, SerialTypeOK, Working
<1> DEFINE S == {s}
           out == Absorbed(S)
           H == EndDive(s.q).heap
<1>3. H = Held(s.q) /\ H \in SUBSET Nodes
  BY SearchIs, EndDiveIs, HeldIs
<1>4. /\ out.openLb \in Bounds /\ out.openLb = s.openLb
      /\ out.hadOpen <=> s.hadOpen
      /\ out.unbounded <=> s.unbounded
  <2>1. S \in SUBSET States /\ S # {}
    BY SearchIs
  <2>2. \A x \in S : x = s
    OBVIOUS
  <2>3. s \in S
    OBVIOUS
  <2> HIDE DEF S
  <2>4. /\ out.openLb \in Bounds /\ \E x \in S : out.openLb = x.openLb
        /\ out.hadOpen <=> \E x \in S : x.hadOpen
        /\ out.unbounded <=> \E x \in S : x.unbounded
    BY <2>1, AbsorbedIs
  <2> HIDE DEF out
  <2> QED
    BY <2>2, <2>3, <2>4
<1> HIDE DEF S, out, H
<1>5. /\ ~out.hadOpen => out.openLb = Inf
      /\ out.unbounded => "unbounded" \in Statuses
  BY <1>4, SearchIs DEF Honest
<1>6. ~out.unbounded => \A p \in Feasible :
        \/ \E n \in H : p \in n.box /\ n.lb <= Value[p]
        \/ out.openLb <= Value[p]
        \/ WithinGap(s.inc, Value[p])
  BY <1>2, <1>3, <1>4 DEF SerialInv, PointsSafe, Safe
<1>7. s.inc \in Int /\ s.inc <= Inf /\ (s.inc = Inf \/ IsFinite(s.inc))
  BY SearchIs, ProblemIs DEF Objective, IsFinite
<1>8. answer' = Finalize(out, H, s.inc)
  BY <1>1 DEF out, S, H
<1>9. /\ answer'.status # "none"
      /\ \/ answer'.status = "Unbounded" /\ out.unbounded
         \/ /\ answer'.status = "Optimal" /\ s.inc # Inf /\ answer'.obj = s.inc
            /\ \A p \in Feasible : Tolerated(s.inc, Value[p])
            /\ answer'.lb <= answer'.obj /\ Tolerated(answer'.obj, answer'.lb)
         \/ answer'.status = "Infeasible" /\ Feasible = {}
         \/ answer'.status = "Suboptimal" /\ s.inc # Inf /\ answer'.obj = s.inc
         \/ answer'.status = "Timeout" /\ answer'.obj = s.inc
         \/ answer'.status = "MaxIterations" /\ s.inc = Inf
  BY <1>3, <1>4, <1>5, <1>6, <1>7, <1>8, FinalizeIs
<1> QED
  BY <1>1, <1>2, <1>5, <1>9 DEF Honoured

\* The answer ends the search.
LEMMA FinishStep ==
  ASSUME SerialInv, Finish
  PROVE  SerialInv'
<1>1. /\ answer'.status # "none" /\ UNCHANGED <<s, hand, expired>> /\ pc' = "done"
      /\ pc \in {"finish", "pop"}
  BY FinishIs DEF Finish
<1> QED
  BY <1>1 DEF SerialInv, SerialTypeOK, PointsSafe, Safe, Working

\* The invariant holds when the search begins.
LEMMA InitHolds ==
  ASSUME Init
  PROVE  SerialInv
<1>1. PICK start \in {Inf} \cup {Value[p] : p \in Feasible} :
        s = [NewSearch(start) EXCEPT !.q = Push(EmptyQueue, RootNode)]
  BY DEF Init
<1>2. /\ pc = "pop" /\ hand = NoNode /\ expired = FALSE /\ answer = NoAnswer
  BY DEF Init
<1>3. start \in Int /\ Objective(start)
  <2>1. CASE start = Inf
    BY <2>1, ProblemIs DEF Objective
  <2>2. ASSUME NEW p \in Feasible, start = Value[p] PROVE start \in Int /\ Objective(start)
    BY <2>2, ProblemIs DEF Objective, IsFinite
  <2> QED
    BY <2>1, <2>2
<1>4. RootNode \in Nodes /\ RootNode.box = Points /\ RootNode.lb = -Inf
  BY ProblemIs DEF RootNode, Nodes
<1> DEFINE u == NewSearch(start)
           q == Push(EmptyQueue, RootNode)
<1>5. q \in Queues /\ Held(q) = {RootNode}
  BY <1>4, EmptyQueueIs, PushIs
<1>6. u \in States /\ u.inc = start /\ Honest(u)
  BY <1>3, NewSearchIs
<1>7. s = [u EXCEPT !.q = q]
  BY <1>1
<1> HIDE DEF u, q
<1>8. /\ s \in States /\ s.q = q /\ s.inc = start /\ s.conflicts = u.conflicts
      /\ s.openLb = u.openLb /\ s.hadOpen = u.hadOpen /\ s.unbounded = u.unbounded
  BY <1>5, <1>6, <1>7 DEF States
<1>9. SerialTypeOK
  BY <1>2, <1>3, <1>6, <1>8, NoNodeIs DEF SerialTypeOK, Honest, NoAnswer, Answer, Working
<1>10. PointsSafe
  <2>1. SUFFICES ASSUME NEW p \in Feasible PROVE Safe(s, hand, p)
    BY DEF PointsSafe
  <2>2. p \in RootNode.box /\ RootNode.lb <= Value[p]
    <3>1. Value[p] \in Int /\ -Inf < Value[p] /\ -Inf \in Int /\ p \in Points
      BY ProblemIs DEF Bounds
    <3> QED
      BY <1>4, <3>1
  <2> QED
    BY <1>5, <1>8, <2>2 DEF Safe
<1> QED
  BY <1>9, <1>10 DEF SerialInv

\* Every step keeps it.
LEMMA NextKeeps ==
  ASSUME SerialInv, [Next]_vars
  PROVE  SerialInv'
<1>1. CASE Expire
  <2>1. UNCHANGED <<pc, s, hand, answer>> /\ expired' \in BOOLEAN
    BY <1>1 DEF Expire
  <2> QED
    BY <2>1 DEF SerialInv, SerialTypeOK, PointsSafe, Safe
<1>2. CASE Finished \/ UNCHANGED vars
  <2>1. UNCHANGED <<pc, s, hand, answer, expired>>
    BY <1>2 DEF Finished, vars
  <2> QED
    BY <2>1 DEF SerialInv, SerialTypeOK, PointsSafe, Safe
<1>3. CASE Step
  BY <1>3, PopStep, RunStopStep, RunPruneStep, RunSolveStep, SolveStep, BranchStep, FinishStep
     DEF Step
<1> QED
  BY <1>1, <1>2, <1>3 DEF Next

\* The inductive invariant holds of every behaviour.
LEMMA SerialInvHolds == Spec => []SerialInv
<1>1. Init => SerialInv
  BY InitHolds
<1>2. SerialInv /\ [Next]_vars => SerialInv'
  BY NextKeeps
<1> QED
  BY <1>1, <1>2, PTL DEF Spec

-----------------------------------------------------------------------------
(* Safety *)

\* No region is ever lost: a feasible point is in a node of the queue or in hand, in a
\* region given up with its bound, or no better than the incumbent up to the gap.
THEOREM NoSerialRegionLost == Spec => []NothingLost
<1>1. SerialInv => NothingLost
  <2> SUFFICES ASSUME SerialInv, ~s.unbounded, NEW p \in Feasible
               PROVE  \/ \E n \in OpenNodes : p \in n.box /\ n.lb <= Value[p]
                      \/ s.openLb <= Value[p]
                      \/ WithinGap(s.inc, Value[p])
    BY DEF NothingLost
  <2>1. Safe(s, hand, p)
    BY DEF SerialInv, PointsSafe
  <2> QED
    BY <2>1, NoNodeIs DEF Safe, OpenNodes
<1> QED
  BY <1>1, SerialInvHolds, PTL

\* A learned clause never covers a feasible point.
THEOREM ClausesStayFacts == Spec => []ClausesAreFacts
<1>1. SerialInv => ClausesAreFacts
  BY DEF SerialInv, SerialTypeOK, Honest, ClausesAreFacts
<1> QED
  BY <1>1, SerialInvHolds, PTL

-----------------------------------------------------------------------------
(* The contract of a branch and bound *)

\* An answer of the finalizer that holds is what the contract allows.
LEMMA HonouredIsSound ==
  ASSUME NEW a, Honoured(a)
  PROVE  Contract!Sound(a)
<1>1. CASE /\ a.status = "Optimal" /\ s.inc # Inf /\ a.obj = s.inc
           /\ \A p \in Feasible : Tolerated(s.inc, Value[p])
           /\ a.lb <= a.obj /\ Tolerated(a.obj, a.lb)
  <2>1. Contract!ProvesOptimal(s.inc)
    BY <1>1 DEF Contract!ProvesOptimal
  <2> QED
    BY <1>1, <2>1, Zenon DEF Contract!Sound
<1>2. CASE a.status = "Infeasible" /\ Feasible = {}
  <2>1. a.status # "Optimal"
    BY <1>2
  <2> QED
    BY <1>2, <2>1, Zenon DEF Contract!Sound
<1>3. CASE a.status = "Suboptimal" /\ s.inc # Inf /\ a.obj = s.inc
  <2>1. a.status # "Optimal" /\ a.status # "Infeasible"
    BY <1>3
  <2> QED
    BY <1>3, <2>1, Zenon DEF Contract!Sound
<1>4. CASE a.status = "MaxIterations" /\ s.inc = Inf
  <2>1. a.status # "Optimal" /\ a.status # "Infeasible" /\ a.status # "Suboptimal"
    BY <1>4
  <2> QED
    BY <1>4, <2>1, Zenon DEF Contract!Sound
<1>5. CASE a.status = "Timeout" /\ a.obj = s.inc
  <2>1. /\ a.status # "Optimal" /\ a.status # "Infeasible" /\ a.status # "Suboptimal"
        /\ a.status # "MaxIterations"
    BY <1>5
  <2> QED
    BY <1>5, <2>1, Zenon DEF Contract!Sound
<1>6. CASE a.status = "Unbounded" /\ "unbounded" \in Statuses
  <2>1. /\ a.status # "Optimal" /\ a.status # "Infeasible" /\ a.status # "Suboptimal"
        /\ a.status # "MaxIterations" /\ a.status # "Timeout"
    BY <1>6
  <2> QED
    BY <1>6, <2>1, Zenon DEF Contract!Sound
<1> QED
  BY <1>1, <1>2, <1>3, <1>4, <1>5, <1>6 DEF Honoured

\* Until the answer the incumbent only improves, to the objective of a feasible point.
LEMMA IncumbentsImprove ==
  ASSUME SerialInv, Step, ~Finish
  PROVE  /\ answer' = answer /\ answer.status = "none"
         /\ s'.inc = s.inc \/ (s'.inc < s.inc /\ \E p \in Feasible : s'.inc = Value[p])
<1>1. answer' = answer /\ pc # "done" /\ answer.status = "none"
  BY DEF Step, PopNext, RunStop, RunPrune, RunSolve, Solve, Branch, SerialInv, SerialTypeOK
<1>2. ASSUME NEW t, Keeps(s, t), s' = t PROVE s'.inc = s.inc
  BY <1>2 DEF Keeps
<1>3. ASSUME NEW v, NEW p \in Feasible, v = Value[p], s'.inc = Lesser(s.inc, v)
      PROVE  s'.inc = s.inc \/ (s'.inc < s.inc /\ \E x \in Feasible : s'.inc = Value[x])
  <2>1. v \in Int /\ s.inc \in Int
    BY <1>3, ProblemIs, SearchIs
  <2> QED
    BY <1>3, <2>1 DEF Lesser
<1>4. CASE PopNext
  <2>1. PICK r \in Popped(s.q) : s' = [s EXCEPT !.q = r.rest]
    BY <1>4 DEF PopNext
  <2> QED
    BY <1>1, <2>1, SearchIs DEF States
<1>5. CASE RunStop
  <2>1. s' = Stopped(s, hand, expired \/ processed < MaxNodes)
    BY <1>5 DEF RunStop, Consume
  <2>2. (expired \/ processed < MaxNodes) \in BOOLEAN
    OBVIOUS
  <2> QED
    BY <1>1, <1>2, <2>1, <2>2, SearchIs, StoppedIs
<1>6. CASE RunPrune \/ RunSolve
  <2> DEFINE u == MaybeDive(s, hand)
  <2>1. s' = u \/ s' = EndOfDive(u)
    BY <1>6 DEF RunPrune, RunSolve, Consume
  <2>2. u \in States /\ Keeps(s, u)
    BY SearchIs, MaybeDiveIs
  <2> HIDE DEF u
  <2>3. EndOfDive(u).inc = u.inc
    BY <2>2, EndOfDiveIs DEF Keeps
  <2> QED
    BY <1>1, <2>1, <2>2, <2>3 DEF Keeps
<1>7. CASE Solve
  <2>1. PICK r \in Relaxations(hand.box), iters \in NodeIters : Solved(r, iters)
    BY <1>7 DEF Solve
  <2>2. r.status \in Statuses /\ (r.status = "infeasible" => hand.box \cap Feasible = {})
    BY SearchIs, RelaxationIs
  <2>3. CASE r.status = "infeasible" /\ s' = AfterInfeasible(s, hand)
    BY <1>1, <1>2, <2>2, <2>3, SearchIs, InfeasibleIs
  <2>4. CASE r.status = "unbounded" /\ s' = AfterUnbounded(s)
    BY <1>1, <1>2, <2>2, <2>4, SearchIs, UnboundedIs
  <2>5. CASE s' = AfterTimeout(s, hand)
    BY <1>1, <1>2, <2>5, SearchIs, TimeoutIs
  <2>6. CASE \E t \in AfterUntrusted(s, hand) : s' = t
    BY <1>1, <1>2, <2>6, SearchIs, UntrustedIs
  <2>7. CASE s' = GiveUp(s, hand)
    BY <1>1, <1>2, <2>7, SearchIs, GiveUpIs
  <2>8. CASE s' = s
    BY <1>1, <2>8
  <2>9. CASE /\ r.status = "optimal" /\ r.integral
             /\ s' = EndOfDive([s EXCEPT !.inc = Lesser(s.inc, r.obj)])
    <3> DEFINE u == [s EXCEPT !.inc = Lesser(s.inc, r.obj)]
    <3>1. Objective(r.obj) /\ \E p \in Feasible : r.obj = Value[p]
      BY <2>9, SearchIs, RelaxationIs DEF Objective, IsFinite
    <3>2. u \in States /\ u.inc = Lesser(s.inc, r.obj)
      BY <3>1, BetterIncumbent
    <3> HIDE DEF u
    <3>3. EndOfDive(u).inc = u.inc
      BY <3>2, EndOfDiveIs DEF Keeps
    <3>4. s'.inc = Lesser(s.inc, r.obj)
      BY <2>9, <3>2, <3>3 DEF u
    <3> QED
      BY <1>1, <1>3, <3>1, <3>4
  <2> QED
    BY <2>1, <2>3, <2>4, <2>5, <2>6, <2>7, <2>8, <2>9 DEF Solved, Consume
<1>8. CASE Branch
  <2>1. PICK found \in {Inf} \cup {Value[p] : p \in Feasible} :
          \E t \in AfterFractional([s EXCEPT !.inc = Lesser(s.inc, found)], hand) : s' = t
    BY <1>8 DEF Branch, Consume
  <2> DEFINE u == [s EXCEPT !.inc = Lesser(s.inc, found)]
  <2>2. Objective(found)
    BY <2>1, ProblemIs DEF IsFinite, Objective
  <2>3. u \in States /\ u.inc = Lesser(s.inc, found)
    BY <2>2, BetterIncumbent
  <2>4. s' \in AfterFractional(u, hand)
    BY <2>1
  <2> HIDE DEF u
  <2>5. s'.inc = Lesser(s.inc, found)
    BY <2>3, <2>4, SearchIs, FractionalIs DEF Keeps
  <2>6. CASE found = Inf
    <3>1. s.inc <= Inf /\ s.inc \in Int
      BY SearchIs, ProblemIs DEF Objective, IsFinite
    <3> QED
      BY <1>1, <2>5, <2>6, <3>1 DEF Lesser
  <2> QED
    BY <1>1, <1>3, <2>1, <2>5, <2>6
<1> QED
  BY <1>4, <1>5, <1>6, <1>7, <1>8 DEF Step

\* Every step is one of the contract, or none.
LEMMA StepsKeepContract ==
  ASSUME SerialInv, [Next]_vars
  PROVE  [Contract!Next]_<<Feasible, "unbounded" \in Statuses, s.inc, answer>>
<1>1. CASE Finish
  <2>1. answer.status = "none" /\ Contract!Sound(answer') /\ s' = s
    BY <1>1, FinishIs, HonouredIsSound
  <2>2. Contract!Conclude
    BY <2>1, Zenon DEF Contract!Conclude
  <2> QED
    BY <2>2 DEF Contract!Next
<1>2. CASE Step /\ ~Finish
  BY <1>2, IncumbentsImprove DEF Contract!Next, Contract!Improve, Contract!Objectives
<1>3. CASE Expire \/ Finished \/ UNCHANGED vars
  BY <1>3 DEF Expire, Finished, vars
<1> QED
  BY <1>1, <1>2, <1>3 DEF Next

\* The serial search, alone or as a sub-MIP, keeps the contract of a branch and bound.
THEOREM SerialKeepsContract == Spec => ImplementsContract
<1>1. Init => Contract!Init
  <2> SUFFICES ASSUME Init PROVE Contract!Init
    OBVIOUS
  <2>1. PICK start \in {Inf} \cup {Value[p] : p \in Feasible} :
          s = [NewSearch(start) EXCEPT !.q = Push(EmptyQueue, RootNode)]
    BY DEF Init
  <2>2. answer.status = "none"
    BY DEF Init, NoAnswer, Answer
  <2>3. s.inc = start
    BY <2>1 DEF NewSearch
  <2> QED
    BY <2>2, <2>3 DEF Contract!Init, Contract!Objectives
<1>2. SerialInv /\ [Next]_vars =>
        [Contract!Next]_<<Feasible, "unbounded" \in Statuses, s.inc, answer>>
  BY StepsKeepContract
<1>3. Spec => /\ Contract!Init
              /\ [][Contract!Next]_<<Feasible, "unbounded" \in Statuses, s.inc, answer>>
  BY <1>1, <1>2, SerialInvHolds, PTL DEF Spec
<1> QED
  BY <1>3, PTL DEF ImplementsContract, Contract!Spec

=============================================================================
