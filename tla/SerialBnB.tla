------------------------------ MODULE SerialBnB ------------------------------
(***************************************************************************)
(* The serial branch and bound (solve_mip_core in                           *)
(* otspot-core/src/mip/mod.rs): the same node body as ParallelBnB, over one  *)
(* queue that holds every open node.  It also runs the sub-MIPs of RINS,     *)
(* RENS and local branching, whose work is capped by a deterministic budget *)
(* of simplex iterations (MipConfig::max_lp_iters).                         *)
(***************************************************************************)
EXTENDS NodeSearch

CONSTANTS
  HasDeadline,  \* TRUE iff SolverOptions has a deadline
  LpBudget,     \* MipConfig::max_lp_iters, Inf for None
  NodeIters     \* the simplex iterations one relaxation may take

ASSUME BudgetAssumption ==
  /\ HasDeadline \in BOOLEAN
  /\ LpBudget \in Nat
  /\ NodeIters \subseteq Nat

VARIABLES
  pc,         \* "pop"; then "run", "solve", "branch"; "finish", "done"
  s,          \* the SearchState
  hand,       \* the node being processed
  processed,  \* MipStats::nodes_processed
  lpIters,    \* MipStats::lp_iters_total, not counted past the budget
  expired,    \* the deadline has passed
  answer      \* the SolverResult

vars == <<pc, s, hand, processed, lpIters, expired, answer>>

\* The caller may bring a feasible start.
Init ==
  /\ pc = "pop"
  /\ \E start \in {Inf} \cup {Value[p] : p \in Feasible} :
       s = [NewSearch(start) EXCEPT !.q = Push(EmptyQueue, RootNode)]
  /\ hand = NoNode
  /\ processed = 0
  /\ lpIters = 0
  /\ expired = FALSE
  /\ answer = NoAnswer

Expire ==
  /\ HasDeadline /\ ~expired
  /\ answer = NoAnswer
  /\ expired' = TRUE
  /\ UNCHANGED <<pc, s, hand, processed, lpIters, answer>>

Exhausted(iters) == LpBudget # Inf /\ iters >= LpBudget

PopNext ==
  /\ pc = "pop"
  /\ \E p \in Popped(s.q) : hand' = p.node /\ s' = [s EXCEPT !.q = p.rest]
  /\ pc' = "run"
  /\ UNCHANGED <<processed, lpIters, expired, answer>>

\* The node in hand is consumed, the search state becomes t.
Consume(t, to) ==
  /\ s' = t
  /\ hand' = NoNode
  /\ pc' = to

\* check_stop_conditions: deadline, node budget, then iteration budget, which
\* is reported like a deadline.  A stop leaves the node loop.
StopNow == StopRequested(expired, processed) \/ Exhausted(lpIters)

RunStop ==
  /\ pc = "run"
  /\ StopNow
  /\ Consume(Stopped(s, hand, expired \/ processed < MaxNodes), "finish")
  /\ UNCHANGED <<processed, lpIters, expired, answer>>

RunPrune ==
  /\ pc = "run"
  /\ ~StopNow
  /\ LET t == MaybeDive(s, hand)
     IN  \/ ShouldPrune(hand.lb, t.inc) /\ Consume(EndOfDive(t), "pop")
         \/ /\ ~ShouldPrune(hand.lb, t.inc)
            /\ Conflicted(t, hand) \/ MayPropagate(hand.box)
            /\ Consume(t, "pop")
  /\ UNCHANGED <<processed, lpIters, expired, answer>>

RunSolve ==
  /\ pc = "run"
  /\ ~StopNow
  /\ LET t == MaybeDive(s, hand)
     IN  /\ ~ShouldPrune(hand.lb, t.inc)
         /\ ~Conflicted(t, hand)
         /\ s' = t
  /\ pc' = "solve"
  /\ UNCHANGED <<hand, processed, lpIters, expired, answer>>

\* The relaxation is solved with what is left of the iteration budget.  When
\* that budget is what ended it, the search stops as on a deadline.
Solved(r, iters) ==
  /\ processed' = processed + 1
  /\ lpIters' = Lesser(LpBudget, lpIters + iters)
  /\ \/ /\ r.status = "infeasible"
        /\ Consume(AfterInfeasible(s, hand), "pop")
     \/ /\ r.status = "unbounded"
        /\ Consume(AfterUnbounded(s), "finish")
     \/ /\ r.status = "timeout" \/ (r.status = "truncated" /\ Exhausted(lpIters'))
        /\ Consume(AfterTimeout(s, hand), "finish")
     \/ /\ r.status = "untrusted" \/ (r.status = "truncated" /\ ~Exhausted(lpIters'))
        /\ \E t \in AfterUntrusted(s, hand) : Consume(t, "pop")
     \/ r.status = "corrupt" /\ Consume(GiveUp(s, hand), "pop")
     \/ /\ r.status = "optimal"
        /\ ShouldPrune(Tightened(hand, r).lb, s.inc)
        /\ Consume(s, "pop")
     \/ /\ r.status = "optimal" /\ r.integral
        /\ ~ShouldPrune(Tightened(hand, r).lb, s.inc)
        /\ Consume(EndOfDive([s EXCEPT !.inc = Lesser(@, r.obj)]), "pop")
     \/ /\ r.status = "optimal" /\ ~r.integral
        /\ ~ShouldPrune(Tightened(hand, r).lb, s.inc)
        /\ hand' = Tightened(hand, r)
        /\ pc' = "branch"
        /\ UNCHANGED s

Solve ==
  /\ pc = "solve"
  /\ \E r \in Relaxations(hand.box), iters \in NodeIters : Solved(r, iters)
  /\ UNCHANGED <<expired, answer>>

\* The heuristics may bring a feasible point, then the node is branched on.
Branch ==
  /\ pc = "branch"
  /\ \E found \in {Inf} \cup {Value[p] : p \in Feasible} :
       \E t \in AfterFractional([s EXCEPT !.inc = Lesser(@, found)], hand) :
         Consume(t, "pop")
  /\ UNCHANGED <<processed, lpIters, expired, answer>>

\* The loop ends on an empty queue or a break; finalize_mip_result first
\* flushes the dive stack.
Finish ==
  /\ pc = "finish" \/ (pc = "pop" /\ Held(s.q) = {})
  /\ answer' = Finalize(Absorbed({s}), EndDive(s.q).heap, s.inc)
  /\ pc' = "done"
  /\ UNCHANGED <<s, hand, processed, lpIters, expired>>

Finished == pc = "done" /\ UNCHANGED vars

Step == PopNext \/ RunStop \/ RunPrune \/ RunSolve \/ Solve \/ Branch \/ Finish

Next == Step \/ Expire \/ Finished

\* The calling thread runs and every relaxation ends.
Spec == Init /\ [][Next]_vars /\ WF_vars(Step)

-----------------------------------------------------------------------------
Contract == INSTANCE SolveContract WITH
  Tolerated <- Tolerated, feasible <- Feasible, ray <- "unbounded" \in Statuses,
  best <- s.inc

\* The serial driver keeps the very promises the parallel one keeps.
ImplementsContract == Contract!Spec

TypeOK ==
  /\ pc \in {"pop", "run", "solve", "branch", "finish", "done"}
  /\ Held(s.q) \subseteq Node /\ hand \in Node
  /\ s.inc \in Int /\ s.openLb \in Int
  /\ s.conflicts \subseteq SUBSET Points
  /\ processed \in Nat /\ lpIters \in 0..LpBudget /\ expired \in BOOLEAN
  /\ answer \in [status : STRING, obj : Int, lb : Int]

OpenNodes == Held(s.q) \cup (IF hand = NoNode THEN {} ELSE {hand})

\* Every feasible point is in an open node, in a region given up with a bound
\* below it, or no better than the incumbent up to the gap: dives that are cut,
\* nodes pruned in the middle of one, learned conflicts and reduced-cost fixing
\* lose nothing.
NothingLost ==
  ~s.unbounded =>
    \A p \in Feasible :
      \/ \E n \in OpenNodes : p \in n.box /\ n.lb <= Value[p]
      \/ s.openLb <= Value[p]
      \/ WithinGap(s.inc, Value[p])

\* A clause learned from an infeasible relaxation never covers a feasible
\* point, although the box it was learned from may have been narrowed by
\* reduced costs: no later node is discarded wrongly (doc of run_worker).
ClausesAreFacts == \A clause \in s.conflicts : clause \cap Feasible = {}

\* The search ends: boxes only shrink and every dive comes back to the heap.
EventuallyAnswered == <>(answer # NoAnswer)

=============================================================================
