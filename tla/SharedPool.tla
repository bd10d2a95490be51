----------------------------- MODULE SharedPool -----------------------------
(***************************************************************************)
(* The shared pool of open nodes of the parallel branch and bound           *)
(* (otspot-core/src/mip/parallel.rs, struct SharedPool): a best-bound queue *)
(* behind a mutex, a condition variable, and the termination protocol.      *)
(*                                                                         *)
(* Every operator below is one critical section of the mutex, hence one     *)
(* atomic step; the notification that follows an unlock is a step of its    *)
(* own.  The module has no specification: WorkerPool and ParallelBnB        *)
(* compose these steps with what a worker does between them.                *)
(***************************************************************************)
EXTENDS Integers, FiniteSets

CONSTANT Workers    \* the threads of SolverOptions::threads

ASSUME WorkersAssumption == IsFiniteSet(Workers) /\ Workers # {}

VARIABLES
  heap,       \* PoolInner::queue, the open nodes nobody holds
  idle,       \* PoolInner::idle, the counter
  stopped,    \* PoolInner::stopped
  waiting,    \* the threads inside Condvar::wait
  notified    \* those of them that a notification has reached

poolVars == <<heap, idle, stopped, waiting, notified>>

PoolInit(root) ==
  /\ heap = {root}
  /\ idle = 0
  /\ stopped = FALSE
  /\ waiting = {}
  /\ notified = {}

(***************************************************************************)
(* pop_blocking.  The loop body runs either when a worker first takes the   *)
(* lock or when it comes back from Condvar::wait, which first decrements    *)
(* idle: Others is the number of idle workers it then sees.                 *)
(***************************************************************************)
Others(w) == IF w \in waiting THEN idle - 1 ELSE idle

\* Mutant: `idle -= 1` after Condvar::wait is forgotten.
LeaveWaitStillIdle(w) ==
  /\ idle' = idle
  /\ waiting' = waiting \ {w}
  /\ notified' = notified \ {w}

LeaveWait(w) ==
  /\ idle' = Others(w)
  /\ waiting' = waiting \ {w}
  /\ notified' = notified \ {w}

\* `if guard.stopped { return None }`
PopStopped(w) ==
  /\ stopped
  /\ LeaveWait(w)
  /\ UNCHANGED <<heap, stopped>>

\* `if let Some(node) = guard.queue.pop() { return Some(node) }`
PopNode(w, node) ==
  /\ ~stopped
  /\ node \in heap
  /\ heap' = heap \ {node}
  /\ LeaveWait(w)
  /\ UNCHANGED stopped

\* Mutant: the idle count is one short of the number of workers.
PopMostlyIdle(w) ==
  /\ ~stopped
  /\ heap = {}
  /\ Others(w) + 1 >= Cardinality(Workers) - 1
  /\ stopped' = TRUE
  /\ idle' = Others(w)
  /\ waiting' = waiting \ {w}
  /\ notified' = waiting \ {w}
  /\ UNCHANGED heap

\* The last worker to go idle ends the search and wakes all the others.
PopAllIdle(w) ==
  /\ ~stopped
  /\ heap = {}
  /\ Others(w) + 1 = Cardinality(Workers)
  /\ stopped' = TRUE
  /\ idle' = Others(w)
  /\ waiting' = waiting \ {w}
  /\ notified' = waiting \ {w}
  /\ UNCHANGED heap

\* Any other worker goes (back) to sleep on the condition variable.
PopWait(w) ==
  /\ ~stopped
  /\ heap = {}
  /\ Others(w) + 1 # Cardinality(Workers)
  /\ idle' = Others(w) + 1
  /\ waiting' = waiting \cup {w}
  /\ notified' = notified \ {w}
  /\ UNCHANGED <<heap, stopped>>

\* drain_from: the critical section, without the notify_all after it.
Deposit(nodes) ==
  /\ heap' = heap \cup nodes
  /\ UNCHANGED <<idle, stopped, waiting, notified>>

\* stop: the critical section, without the notify_all after it.
SetStopped ==
  /\ stopped' = TRUE
  /\ UNCHANGED <<heap, idle, waiting, notified>>

\* Mutant: notify_one instead of notify_all.
NotifyOne ==
  /\ IF waiting \ notified = {} THEN UNCHANGED notified
     ELSE \E w \in waiting \ notified : notified' = notified \cup {w}
  /\ UNCHANGED <<heap, idle, stopped, waiting>>

\* Condvar::notify_all reaches whoever is asleep at that moment.
NotifyAll ==
  /\ notified' = waiting
  /\ UNCHANGED <<heap, idle, stopped, waiting>>

=============================================================================
