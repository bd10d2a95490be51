---------------------------- MODULE ParallelBnB ----------------------------
(***************************************************************************)
(* The parallel branch and bound (otspot-core/src/mip/parallel.rs): workers *)
(* that run the node body of NodeSearch on nodes of the SharedPool, with a   *)
(* shared incumbent of which each keeps a possibly stale copy, a node       *)
(* budget counted search-wide, a deadline, and the final reduction.         *)
(*                                                                         *)
(* One action is what a worker does between two accesses to shared state.   *)
(* The shared incumbent is the atomic register of IncumbentRegister, which   *)
(* SharedIncumbent shows its lock-free mirror to implement.                 *)
(***************************************************************************)
EXTENDS NodeSearch, SharedPool

CONSTANTS
  HasDeadline,   \* TRUE iff SolverOptions has a deadline
  MayPanic,      \* TRUE iff the work on a node may panic
  MayRefuse      \* TRUE iff the operating system may refuse a thread

ASSUME FaultAssumption ==
  HasDeadline \in BOOLEAN /\ MayPanic \in BOOLEAN /\ MayRefuse \in BOOLEAN

VARIABLES
  mainPc,    \* where the thread that called solve_mip_parallel is
  pc,        \* where each worker is
  st,        \* the SearchState of each worker
  hand,      \* the node each worker is processing
  best,      \* SharedIncumbent, its objective
  processed, \* SharedPool::nodes_processed
  expired,   \* the deadline has passed
  answer     \* the SolverResult

searchVars == <<st, hand, best, processed>>
vars == <<heap, idle, stopped, waiting, notified,
          mainPc, pc, st, hand, best, processed, expired, answer>>

MainPc == {"spawn", "refused", "refusedBell", "join", "returned", "failed",
           "panicked"}

\* See WorkerPool.  Its "work" is four places here: "sync" refreshes the local
\* incumbent, "run" is the head of run_node, "solve" the relaxation up to the
\* leaf test, "branch" the heuristics and the branching; "count" and
\* "countHalt" add to the node counter before the loop goes on or breaks.
WorkerPc == {"unborn", "fetch", "wait", "sync", "run", "solve", "branch",
             "count", "countHalt", "publish", "publishBell", "halt",
             "haltBell", "tail", "tailBell", "guard", "guardBell", "unwind",
             "unwindBell", "exited", "dead"}

\* The caller may bring a feasible start (feasibility pump, warm start), which
\* every worker sees: it is offered before the threads are spawned.
Init ==
  /\ PoolInit(RootNode)
  /\ mainPc = "spawn"
  /\ pc = [w \in Workers |-> "unborn"]
  /\ best \in {Inf} \cup {Value[p] : p \in Feasible}
  /\ st = [w \in Workers |-> NewSearch(best)]
  /\ hand = [w \in Workers |-> NoNode]
  /\ processed = 0
  /\ expired = FALSE
  /\ answer = NoAnswer

\* The deadline passes.
Expire ==
  /\ HasDeadline /\ ~expired
  /\ answer = NoAnswer
  /\ expired' = TRUE
  /\ UNCHANGED <<poolVars, mainPc, pc, searchVars, answer>>

-----------------------------------------------------------------------------
(* The main thread *)

\* MipState::shared refreshes the incumbent as Sync does before its first use.
Spawn(w) ==
  /\ mainPc = "spawn" /\ pc[w] = "unborn"
  /\ pc' = [pc EXCEPT ![w] = "fetch"]
  /\ UNCHANGED <<poolVars, mainPc, searchVars, expired, answer>>

Refuse ==
  /\ MayRefuse
  /\ mainPc = "spawn" /\ \E w \in Workers : pc[w] = "unborn"
  /\ SetStopped
  /\ mainPc' = "refused"
  /\ UNCHANGED <<pc, searchVars, expired, answer>>

RefuseBell ==
  /\ mainPc = "refused"
  /\ NotifyAll
  /\ mainPc' = "refusedBell"
  /\ UNCHANGED <<pc, searchVars, expired, answer>>

AllSpawned ==
  /\ mainPc = "spawn" /\ \A w \in Workers : pc[w] # "unborn"
  /\ mainPc' = "join"
  /\ UNCHANGED <<poolVars, pc, searchVars, expired, answer>>

\* Every started worker is joined, then the outcomes are absorbed and the
\* result finalized over what the pool still holds.
Join ==
  /\ mainPc \in {"join", "refusedBell"}
  /\ \A w \in Workers : pc[w] \in {"unborn", "exited", "dead"}
  /\ \/ /\ \E w \in Workers : pc[w] = "dead"
        /\ mainPc' = "panicked"
        /\ answer' = Answer("panic", Inf, -Inf)
     \/ /\ \A w \in Workers : pc[w] # "dead"
        /\ mainPc = "refusedBell" /\ mainPc' = "failed"
        /\ answer' = Answer("ResourceExhausted", Inf, -Inf)
     \/ /\ \A w \in Workers : pc[w] # "dead"
        /\ mainPc = "join" /\ mainPc' = "returned"
        /\ answer' = Finalize(Absorbed({st[w] : w \in Workers}), heap, best)
  /\ UNCHANGED <<poolVars, pc, searchVars, expired>>

-----------------------------------------------------------------------------
(* A worker: getting a node *)

TakeOwn(w) ==
  /\ pc[w] = "fetch"
  /\ \E p \in Popped(st[w].q) :
       /\ hand' = [hand EXCEPT ![w] = p.node]
       /\ st' = [st EXCEPT ![w].q = p.rest]
  /\ pc' = [pc EXCEPT ![w] = "sync"]
  /\ UNCHANGED <<poolVars, mainPc, best, processed, expired, answer>>

AtPop(w) == (pc[w] = "fetch" /\ Held(st[w].q) = {}) \/ pc[w] = "wait"

\* The pop of the own queue that found nothing has left the dive mode.
OwnQueueEmpty(w) == st' = [st EXCEPT ![w].q.diving = FALSE]

TakeShared(w) ==
  /\ AtPop(w)
  /\ \E node \in BestNodes(heap) :
       /\ PopNode(w, node)
       /\ hand' = [hand EXCEPT ![w] = node]
  /\ OwnQueueEmpty(w)
  /\ pc' = [pc EXCEPT ![w] = "sync"]
  /\ UNCHANGED <<mainPc, best, processed, expired, answer>>

Sleep(w) ==
  /\ AtPop(w)
  /\ PopWait(w)
  /\ OwnQueueEmpty(w)
  /\ pc' = [pc EXCEPT ![w] = "wait"]
  /\ UNCHANGED <<mainPc, hand, best, processed, expired, answer>>

LeaveLoop(w) ==
  /\ AtPop(w)
  /\ PopStopped(w) \/ PopAllIdle(w)
  /\ OwnQueueEmpty(w)
  /\ pc' = [pc EXCEPT ![w] = "tail"]
  /\ UNCHANGED <<mainPc, hand, best, processed, expired, answer>>

-----------------------------------------------------------------------------
(* A worker: processing the node in hand *)

\* sync_shared: the local view adopts a strictly better shared incumbent, or
\* misses it, since the mirror it looks at may be read stale.
Sync(w) ==
  /\ pc[w] = "sync"
  /\ \E inc \in {best, st[w].inc} : st' = [st EXCEPT ![w].inc = Lesser(@, inc)]
  /\ pc' = [pc EXCEPT ![w] = "run"]
  /\ UNCHANGED <<poolVars, mainPc, hand, best, processed, expired, answer>>

\* The node in hand is consumed and the search state becomes s.
Consume(w, s, to) ==
  /\ st' = [st EXCEPT ![w] = s]
  /\ hand' = [hand EXCEPT ![w] = NoNode]
  /\ pc' = [pc EXCEPT ![w] = to]

\* Mutant: nodes are only published by a worker that has none for itself.
OnwardKeeping(s) == IF Held(s.q) # {} THEN "fetch" ELSE "publish"

\* Where the loop of run_worker goes after a node it did not break on.
Onward(s) == IF s.q.diving THEN "fetch" ELSE "publish"

\* check_stop_conditions, against the search-wide node count.
RunStop(w) ==
  /\ pc[w] = "run"
  /\ StopRequested(expired, processed)
  /\ Consume(w, Stopped(st[w], hand[w], expired), "halt")
  /\ UNCHANGED <<poolVars, mainPc, best, processed, expired, answer>>

\* A node pruned by its inherited bound ends the dive; one pruned by a conflict
\* clause or by propagation does not.
RunPrune(w) ==
  /\ pc[w] = "run"
  /\ ~StopRequested(expired, processed)
  /\ LET s == MaybeDive(st[w], hand[w])
     IN  \/ /\ ShouldPrune(hand[w].lb, s.inc)
            /\ Consume(w, EndOfDive(s), Onward(EndOfDive(s)))
         \/ /\ ~ShouldPrune(hand[w].lb, s.inc)
            /\ Conflicted(s, hand[w]) \/ MayPropagate(hand[w].box)
            /\ Consume(w, s, Onward(s))
  /\ UNCHANGED <<poolVars, mainPc, best, processed, expired, answer>>

RunSolve(w) ==
  /\ pc[w] = "run"
  /\ ~StopRequested(expired, processed)
  /\ LET s == MaybeDive(st[w], hand[w])
     IN  /\ ~ShouldPrune(hand[w].lb, s.inc)
         /\ ~Conflicted(s, hand[w])
         /\ st' = [st EXCEPT ![w] = s]
  /\ pc' = [pc EXCEPT ![w] = "solve"]
  /\ UNCHANGED <<poolVars, mainPc, hand, best, processed, expired, answer>>

\* The relaxation reports something else than a trusted optimum.
SolveFailed(w) ==
  /\ pc[w] = "solve"
  /\ \E r \in Relaxations(hand[w].box) :
       \/ /\ r.status = "infeasible"
          /\ Consume(w, AfterInfeasible(st[w], hand[w]), "count")
       \/ /\ r.status = "unbounded"
          /\ Consume(w, AfterUnbounded(st[w]), "countHalt")
       \/ /\ r.status = "timeout"
          /\ Consume(w, AfterTimeout(st[w], hand[w]), "countHalt")
       \/ /\ r.status \in {"truncated", "untrusted"}
          /\ \E s \in AfterUntrusted(st[w], hand[w]) : Consume(w, s, "count")
       \/ /\ r.status = "corrupt"
          /\ Consume(w, GiveUp(st[w], hand[w]), "count")
  /\ UNCHANGED <<poolVars, mainPc, best, processed, expired, answer>>

\* A trusted optimum within the gap of the local incumbent.  The dive goes on.
SolvePrune(w) ==
  /\ pc[w] = "solve"
  /\ \E r \in Relaxations(hand[w].box) :
       /\ r.status = "optimal"
       /\ ShouldPrune(Tightened(hand[w], r).lb, st[w].inc)
  /\ Consume(w, st[w], "count")
  /\ UNCHANGED <<poolVars, mainPc, best, processed, expired, answer>>

\* Mutant: the worker keeps the incumbent it found to itself.
SolveLeafLocally(w) ==
  /\ pc[w] = "solve"
  /\ \E r \in Relaxations(hand[w].box) :
       /\ r.status = "optimal" /\ r.integral
       /\ ~ShouldPrune(Tightened(hand[w], r).lb, st[w].inc)
       /\ Consume(w, EndOfDive([st[w] EXCEPT !.inc = Lesser(@, r.obj)]), "count")
  /\ UNCHANGED <<poolVars, mainPc, best, processed, expired, answer>>

\* A trusted integral optimum: SharedIncumbent::consider arbitrates it against
\* the incumbent of that moment, and the local view follows.
SolveLeaf(w) ==
  /\ pc[w] = "solve"
  /\ \E r \in Relaxations(hand[w].box) :
       /\ r.status = "optimal" /\ r.integral
       /\ ~ShouldPrune(Tightened(hand[w], r).lb, st[w].inc)
       /\ best' = Lesser(best, r.obj)
       /\ Consume(w, EndOfDive([st[w] EXCEPT !.inc = Lesser(@, best')]), "count")
  /\ UNCHANGED <<poolVars, mainPc, processed, expired, answer>>

SolveFractional(w) ==
  /\ pc[w] = "solve"
  /\ \E r \in Relaxations(hand[w].box) :
       /\ r.status = "optimal" /\ ~r.integral
       /\ ~ShouldPrune(Tightened(hand[w], r).lb, st[w].inc)
       /\ hand' = [hand EXCEPT ![w] = Tightened(@, r)]
  /\ pc' = [pc EXCEPT ![w] = "branch"]
  /\ UNCHANGED <<poolVars, mainPc, st, best, processed, expired, answer>>

\* try_rens, try_rins and try_local_branching find a feasible point or not;
\* then the node is given up for its depth, or branched on.
Branch(w) ==
  /\ pc[w] = "branch"
  /\ \E found \in {Inf} \cup {Value[p] : p \in Feasible} :
       /\ best' = Lesser(best, found)
       /\ LET s == IF found = Inf THEN st[w]
                   ELSE [st[w] EXCEPT !.inc = Lesser(@, best')]
          IN  \E t \in AfterFractional(s, hand[w]) : Consume(w, t, "count")
  /\ UNCHANGED <<poolVars, mainPc, processed, expired, answer>>

\* pool.add_nodes_processed: one node whose relaxation was solved.
Count(w) ==
  /\ pc[w] \in {"count", "countHalt"}
  /\ processed' = processed + 1
  /\ pc' = [pc EXCEPT ![w] = IF @ = "countHalt" THEN "halt" ELSE Onward(st[w])]
  /\ UNCHANGED <<poolVars, mainPc, st, hand, best, expired, answer>>

\* A panic unwinds: the private queue is dropped, then StopOnExit runs.
Panic(w) ==
  /\ MayPanic
  /\ pc[w] \in {"solve", "branch"}
  /\ Consume(w, [st[w] EXCEPT !.q = EmptyQueue], "unwind")
  /\ UNCHANGED <<poolVars, mainPc, best, processed, expired, answer>>

-----------------------------------------------------------------------------
(* A worker: publishing nodes, stopping the pool, leaving *)

\* drain_from after a node outside a dive, and after the loop once end_dive
\* has flushed what was left of one.
Publish(w) ==
  /\ pc[w] \in {"publish", "tail"}
  /\ Held(st[w].q) # {}
  /\ Deposit(Held(st[w].q))
  /\ st' = [st EXCEPT ![w].q = EmptyQueue]
  /\ pc' = [pc EXCEPT ![w] = IF @ = "tail" THEN "tailBell" ELSE "publishBell"]
  /\ UNCHANGED <<mainPc, hand, best, processed, expired, answer>>

PublishNothing(w) ==
  /\ pc[w] \in {"publish", "tail"}
  /\ Held(st[w].q) = {}
  /\ st' = [st EXCEPT ![w].q = EmptyQueue]
  /\ pc' = [pc EXCEPT ![w] = IF @ = "tail" THEN "guard" ELSE "fetch"]
  /\ UNCHANGED <<poolVars, mainPc, hand, best, processed, expired, answer>>

AfterBell ==
  [publishBell |-> "fetch", haltBell |-> "tail", tailBell |-> "guard",
   guardBell |-> "exited", unwindBell |-> "dead"]

Bell(w) ==
  /\ pc[w] \in DOMAIN AfterBell
  /\ NotifyAll
  /\ pc' = [pc EXCEPT ![w] = AfterBell[@]]
  /\ UNCHANGED <<mainPc, searchVars, expired, answer>>

BeforeBell == [halt |-> "haltBell", guard |-> "guardBell",
               unwind |-> "unwindBell"]

Stop(w) ==
  /\ pc[w] \in DOMAIN BeforeBell
  /\ SetStopped
  /\ pc' = [pc EXCEPT ![w] = BeforeBell[@]]
  /\ UNCHANGED <<mainPc, searchVars, expired, answer>>

-----------------------------------------------------------------------------
Pop(w) == TakeShared(w) \/ Sleep(w) \/ LeaveLoop(w)

Solve(w) ==
  \/ SolveFailed(w) \/ SolvePrune(w) \/ SolveLeaf(w) \/ SolveFractional(w)

Work(w) ==
  \/ TakeOwn(w) \/ Sync(w)
  \/ RunStop(w) \/ RunPrune(w) \/ RunSolve(w)
  \/ Solve(w) \/ Branch(w) \/ Count(w) \/ Panic(w)
  \/ Publish(w) \/ PublishNothing(w) \/ Bell(w) \/ Stop(w)

Over == mainPc \in {"returned", "failed", "panicked"}

Finished == Over /\ UNCHANGED vars

Next ==
  \/ Refuse \/ RefuseBell \/ AllSpawned \/ Join
  \/ \E w \in Workers : Spawn(w) \/ Pop(w) \/ Work(w)
  \/ Expire
  \/ Finished

Spec == Init /\ [][Next]_vars

-----------------------------------------------------------------------------
(* What the module implements *)

\* The threads and the pool of WorkerPool, a node being its box, which branching
\* only ever makes smaller.
Boxes(nodes) == {n.box : n \in nodes}

InHand(w) == IF hand[w] = NoNode THEN {} ELSE {hand[w]}

PoolPc(w) ==
  CASE pc[w] \in {"sync", "run", "solve", "branch"} -> "work"
    [] pc[w] = "count" -> Onward(st[w])
    [] pc[w] = "countHalt" -> "halt"
    [] OTHER -> pc[w]

WantsStop(s) == s.deadlineStop \/ s.maxnodesStop \/ s.unbounded

Pool == INSTANCE WorkerPool WITH
  heap <- Boxes(heap),
  pc <- [w \in Workers |-> PoolPc(w)],
  hold <- [w \in Workers |-> Boxes(Held(st[w].q) \cup InHand(w))],
  wantStop <- {w \in Workers : WantsStop(st[w])},
  Node <- SUBSET Points,
  Root <- Points,
  Below <- [box \in SUBSET Points |-> (SUBSET box) \ {box}]

\* Every step of the search is a step of the worker-and-pool protocol: the
\* node body never makes, moves or drops a node behind the pool's back.
ImplementsPool == Pool!Spec

Contract == INSTANCE SolveContract WITH
  Tolerated <- Tolerated, feasible <- Feasible, ray <- "unbounded" \in Statuses

\* The search keeps the promises made to the caller: "Optimal" and "Infeasible"
\* are proofs whatever the interleaving, the staleness of the incumbents, the
\* deadline, the node budget, and the regions given up.
ImplementsContract == Contract!Spec

-----------------------------------------------------------------------------
(* Properties *)

SearchState ==
  [q : [heap : SUBSET Node, stack : Seq(Node), diving : BOOLEAN],
   inc : Int, conflicts : SUBSET SUBSET Points,
   openLb : Int, hadOpen : BOOLEAN, uncertain : BOOLEAN,
   deadlineStop : BOOLEAN, maxnodesStop : BOOLEAN, unbounded : BOOLEAN,
   sinceDive : Nat, diveStart : Nat]

TypeOK ==
  /\ heap \subseteq Node
  /\ idle \in Nat /\ stopped \in BOOLEAN
  /\ waiting \subseteq Workers /\ notified \subseteq waiting
  /\ mainPc \in MainPc
  /\ pc \in [Workers -> WorkerPc]
  /\ st \in [Workers -> SearchState]
  /\ hand \in [Workers -> Node]
  /\ best \in Int /\ processed \in Nat /\ expired \in BOOLEAN
  /\ answer \in [status : STRING, obj : Int, lb : Int]

OpenNodes ==
  heap \cup UNION {Held(st[w].q) \cup InHand(w) : w \in Workers}

Panicking == \E w \in Workers : pc[w] \in {"unwind", "unwindBell", "dead"}

\* No region is ever lost: as long as no worker panics and no relaxation is
\* unbounded, a feasible point is in an open node whose bound is below it (pruned
\* or folded by its bound the node takes nothing better with it), or in a region
\* given up with a bound below it, or no better than the shared incumbent up to the gap.
NothingLost ==
  ~Panicking /\ (\A w \in Workers : ~st[w].unbounded) =>
    \A p \in Feasible :
      \/ \E n \in OpenNodes : p \in n.box /\ n.lb <= Value[p]
      \/ \E w \in Workers : st[w].openLb <= Value[p]
      \/ WithinGap(best, Value[p])

\* A worker's copy of the incumbent may be stale but only on the safe side: it
\* is never better than the shared one, so it never prunes too much.
StaleIsConservative == \A w \in Workers : best <= st[w].inc

\* Outside a dive a worker keeps no node to itself across iterations: what
\* it holds on its private heap is about to be published, so that the next node
\* any worker takes is the best of all (doc of run_worker).
OnlyDivesArePrivate ==
  \A w \in Workers :
    st[w].q.heap # {} =>
      /\ ~st[w].q.diving
      /\ pc[w] \in {"count", "countHalt", "publish", "halt", "haltBell", "tail"}

\* The node budget bounds the whole tree: each worker may be past the check
\* when the last node is counted, but only with the node it has in hand.
BudgetOvershoot == processed < MaxNodes + Cardinality(Workers)

\* "Authenticated lower bound on the global optimum at termination."
\* (problem/certificate.rs, BoundGapCertificate::lower_bound)
CertificateAuthenticated ==
  answer.status = "Optimal" => \A p \in Feasible : answer.lb <= Value[p]

=============================================================================
