----------------------------- MODULE WorkerPool -----------------------------
(***************************************************************************)
(* The life of the worker threads around the shared pool: spawning them     *)
(* (solve_mip_parallel), their loop (run_worker), the StopOnExit guard, a    *)
(* refused spawn, a panic, and the join.  What a node means is abstract: to  *)
(* process one is to consume it and to hold any other nodes instead.        *)
(* ParallelBnB gives the nodes their meaning and refines this module.        *)
(***************************************************************************)
EXTENDS SharedPool

CONSTANTS
  Node,       \* the nodes that can exist
  Root,       \* the one the search starts from
  Below,      \* the nodes that branching on a node can produce
  MayPanic,   \* TRUE iff the work on a node may panic
  MayRefuse   \* TRUE iff the operating system may refuse a thread

ASSUME NodeAssumption ==
  /\ Root \in Node
  /\ Below \in [Node -> SUBSET Node]
  /\ MayPanic \in BOOLEAN
  /\ MayRefuse \in BOOLEAN

VARIABLES
  mainPc,   \* where the thread that called solve_mip_parallel is
  pc,       \* where each worker is
  hold,     \* the open nodes each worker holds: in hand or in its own queue
  wantStop  \* the workers that asked for the end of the search

vars == <<heap, idle, stopped, waiting, notified,
          mainPc, pc, hold, wantStop>>

MainPc == {"spawn", "refused", "refusedBell", "join", "returned", "failed",
           "panicked"}

\* "work" has a node in hand; a "...Bell" state is between the unlock of a
\* critical section and the notify_all that follows it; "tail" is after the
\* loop of run_worker; "guard" is about to drop StopOnExit; "unwind" and
\* "unwindBell" are the same two steps of a panicking worker.
WorkerPc == {"unborn", "fetch", "wait", "work", "publish", "publishBell",
             "halt", "haltBell", "tail", "tailBell", "guard", "guardBell",
             "unwind", "unwindBell", "exited", "dead"}

Init ==
  /\ PoolInit(Root)
  /\ mainPc = "spawn"
  /\ pc = [w \in Workers |-> "unborn"]
  /\ hold = [w \in Workers |-> {}]
  /\ wantStop = {}

Goto(w, from, to) ==
  /\ pc[w] = from
  /\ pc' = [pc EXCEPT ![w] = to]

-----------------------------------------------------------------------------
(* The main thread *)

Spawn(w) ==
  /\ mainPc = "spawn"
  /\ Goto(w, "unborn", "fetch")
  /\ UNCHANGED <<poolVars, mainPc, hold, wantStop>>

\* spawn_scoped fails: stop the pool before joining those already started.
Refuse ==
  /\ MayRefuse
  /\ mainPc = "spawn"
  /\ \E w \in Workers : pc[w] = "unborn"
  /\ SetStopped
  /\ mainPc' = "refused"
  /\ UNCHANGED <<pc, hold, wantStop>>

RefuseBell ==
  /\ mainPc = "refused"
  /\ NotifyAll
  /\ mainPc' = "refusedBell"
  /\ UNCHANGED <<pc, hold, wantStop>>

AllSpawned ==
  /\ mainPc = "spawn"
  /\ \A w \in Workers : pc[w] # "unborn"
  /\ mainPc' = "join"
  /\ UNCHANGED <<poolVars, pc, hold, wantStop>>

\* Every started worker has ended; a panic of any of them is propagated.
Join ==
  /\ mainPc \in {"join", "refusedBell"}
  /\ \A w \in Workers : pc[w] \in {"unborn", "exited", "dead"}
  /\ mainPc' = IF \E w \in Workers : pc[w] = "dead" THEN "panicked"
               ELSE IF mainPc = "join" THEN "returned" ELSE "failed"
  /\ UNCHANGED <<poolVars, pc, hold, wantStop>>

-----------------------------------------------------------------------------
(* A worker *)

\* `s.q.pop()`: a worker whose own queue is not empty takes its node there.
TakeOwn(w) ==
  /\ hold[w] # {}
  /\ Goto(w, "fetch", "work")
  /\ UNCHANGED <<poolVars, mainPc, hold, wantStop>>

\* `pool.pop_blocking()`, entered with an empty queue or resumed after a wait.
\* std's Condvar may wake a thread nobody notified.
AtPop(w) == (pc[w] = "fetch" /\ hold[w] = {}) \/ pc[w] = "wait"

TakeShared(w) ==
  /\ AtPop(w)
  /\ \E node \in heap :
       /\ PopNode(w, node)
       /\ hold' = [hold EXCEPT ![w] = {node}]
  /\ pc' = [pc EXCEPT ![w] = "work"]
  /\ UNCHANGED <<mainPc, wantStop>>

Sleep(w) ==
  /\ AtPop(w)
  /\ PopWait(w)
  /\ pc' = [pc EXCEPT ![w] = "wait"]
  /\ UNCHANGED <<mainPc, hold, wantStop>>

LeaveLoop(w) ==
  /\ AtPop(w)
  /\ PopStopped(w) \/ PopAllIdle(w)
  /\ pc' = [pc EXCEPT ![w] = "tail"]
  /\ UNCHANGED <<mainPc, hold, wantStop>>

\* run_node: one of the nodes held is consumed and its children, if any, are
\* held instead.  Children that are still part of a dive stay private
\* ("fetch"), others are published; or the node loop breaks ("halt").
Process(w, node, children) ==
  /\ pc[w] = "work"
  /\ hold' = [hold EXCEPT ![w] = (@ \ {node}) \cup children]
  /\ \E to \in {"fetch", "publish", "halt"} :
       /\ pc' = [pc EXCEPT ![w] = to]
       /\ wantStop' = IF to = "halt" THEN wantStop \cup {w} ELSE wantStop
  /\ UNCHANGED <<poolVars, mainPc>>

\* pool.drain_from(&mut s.q) returns at once when the queue is empty.
Publish(w) ==
  /\ pc[w] \in {"publish", "tail"}
  /\ hold[w] # {}
  /\ Deposit(hold[w])
  /\ hold' = [hold EXCEPT ![w] = {}]
  /\ pc' = [pc EXCEPT ![w] = IF @ = "tail" THEN "tailBell" ELSE "publishBell"]
  /\ UNCHANGED <<mainPc, wantStop>>

\* Mutant: the nodes left when the loop breaks are not handed back.
PublishNothingAtTheEnd(w) ==
  /\ \/ pc[w] = "publish" /\ hold[w] = {}
     \/ pc[w] = "tail"
  /\ pc' = [pc EXCEPT ![w] = IF @ = "tail" THEN "guard" ELSE "fetch"]
  /\ UNCHANGED <<poolVars, mainPc, hold, wantStop>>

PublishNothing(w) ==
  /\ pc[w] \in {"publish", "tail"}
  /\ hold[w] = {}
  /\ pc' = [pc EXCEPT ![w] = IF @ = "tail" THEN "guard" ELSE "fetch"]
  /\ UNCHANGED <<poolVars, mainPc, hold, wantStop>>

AfterBell ==
  [publishBell |-> "fetch", haltBell |-> "tail", tailBell |-> "guard",
   guardBell |-> "exited", unwindBell |-> "dead"]

Bell(w) ==
  /\ pc[w] \in DOMAIN AfterBell
  /\ NotifyAll
  /\ pc' = [pc EXCEPT ![w] = AfterBell[@]]
  /\ UNCHANGED <<mainPc, hold, wantStop>>

BeforeBell == [halt |-> "haltBell", guard |-> "guardBell",
               unwind |-> "unwindBell"]

\* pool.stop(): the explicit one, and the one in Drop for StopOnExit.
Stop(w) ==
  /\ pc[w] \in DOMAIN BeforeBell
  /\ SetStopped
  /\ pc' = [pc EXCEPT ![w] = BeforeBell[@]]
  /\ UNCHANGED <<mainPc, hold, wantStop>>

\* Mutant: no StopOnExit guard.
PanicUnguarded(w) ==
  /\ MayPanic
  /\ Goto(w, "work", "dead")
  /\ hold' = [hold EXCEPT ![w] = {}]
  /\ UNCHANGED <<poolVars, mainPc, wantStop>>

\* A panic inside run_node unwinds: the worker's queue is dropped, then its
\* StopOnExit guard runs.
Panic(w) ==
  /\ MayPanic
  /\ Goto(w, "work", "unwind")
  /\ hold' = [hold EXCEPT ![w] = {}]
  /\ UNCHANGED <<poolVars, mainPc, wantStop>>

-----------------------------------------------------------------------------
Main == Refuse \/ RefuseBell \/ AllSpawned \/ Join

\* What a worker does inside pop_blocking.
Pop(w) == TakeShared(w) \/ Sleep(w) \/ LeaveLoop(w)

\* What it does outside.
Work(w) ==
  \/ TakeOwn(w)
  \/ \E node \in hold[w] : \E children \in SUBSET Below[node] :
       Process(w, node, children)
  \/ Publish(w) \/ PublishNothing(w) \/ Bell(w) \/ Stop(w)
  \/ Panic(w)

Over == mainPc \in {"returned", "failed", "panicked"}

Finished == Over /\ UNCHANGED vars

Next ==
  \/ Main
  \/ \E w \in Workers : Spawn(w) \/ Pop(w) \/ Work(w)
  \/ Finished

\* The operating system keeps running every thread.  It owes nothing to a
\* thread asleep on the condition variable until a notification reaches it.
Fairness ==
  /\ WF_vars(RefuseBell \/ AllSpawned \/ Join)
  /\ \A w \in Workers :
       /\ WF_vars(Spawn(w))
       /\ WF_vars(Work(w))
       /\ WF_vars((w \in waiting => w \in notified) /\ Pop(w))

Spec == Init /\ [][Next]_vars

FairSpec == Spec /\ Fairness

-----------------------------------------------------------------------------
(* Properties *)

TypeOK ==
  /\ heap \subseteq Node
  /\ idle \in Nat
  /\ stopped \in BOOLEAN
  /\ waiting \subseteq Workers
  /\ notified \subseteq waiting
  /\ mainPc \in MainPc
  /\ pc \in [Workers -> WorkerPc]
  /\ hold \in [Workers -> SUBSET Node]
  /\ wantStop \subseteq Workers

\* The idle counter of pop_blocking is exactly the number of threads inside
\* Condvar::wait, including those already notified that have not yet got the
\* lock back: it is neither leaked on a wakeup nor short on the last one.
IdleIsWaiting ==
  /\ waiting = {w \in Workers : pc[w] = "wait"}
  /\ idle = Cardinality(waiting)

\* Some thread is between an unlock and the notify_all that follows it.
BellPending ==
  \/ mainPc = "refused"
  \/ \E w \in Workers : pc[w] \in DOMAIN AfterBell

\* No lost wakeup: whenever there is something to wake up for (an open node, or
\* the end of the search), every sleeper has been notified or is about to be.
NoLostWakeup ==
  stopped \/ heap # {} => notified = waiting \/ BellPending

\* The pool is stopped for a reason other than everybody being idle.
Cut ==
  \/ wantStop # {}
  \/ mainPc \in {"refused", "refusedBell", "failed"}
  \/ \E w \in Workers : pc[w] \in {"unwind", "unwindBell", "dead"}

\* The end by "all idle" is never premature: when nobody cut the search short,
\* a stopped pool means that no node is open anywhere, in the pool or in the
\* hands or the dive stack of any worker, so none can appear again.
QuietTermination ==
  stopped /\ ~Cut => heap = {} /\ \A w \in Workers : hold[w] = {}

\* When solve_mip_parallel goes on to finalize_mip_result, every worker has
\* left its loop in the ordinary way and handed its private nodes back: the
\* pool's best bound covers the whole unexplored region.
HandedBack ==
  mainPc = "returned" => \A w \in Workers : pc[w] = "exited" /\ hold[w] = {}

\* Whatever happens (a refused spawn, a panic, a stop in the middle of a dive),
\* solve_mip_parallel returns: nobody is left waiting for ever.
EventuallyOver == <>Over

=============================================================================
