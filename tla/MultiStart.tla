----------------------------- MODULE MultiStart -----------------------------
(***************************************************************************)
(* Multi-start QP solves and parallel factorizations of several threads of a  *)
(* process, over the cached solver pool.  A call is solve_qp_multistart (its   *)
(* tasks are the starts) or with_solver_pool (its tasks are what the          *)
(* factorization spawns).  A start is solved with threads = 1, so that the     *)
(* calls never nest.                                                        *)
(* Sources: otspot-core/src/qp/multistart.rs,                                *)
(* otspot-num/src/linalg/parallelism.rs.                                     *)
(***************************************************************************)
EXTENDS SolverPool, Sequences, SequencesExt

CONSTANTS
  Calls,
  Requests,   \* per call, the requests it may make: [kind, threads, tasks, timed]
  Outcomes,   \* what a start may find: [status, obj]
  Infinite

\* There is a name for one more pool than there are calls.
ASSUME CallAssumption ==
  /\ IsFiniteSet(Calls) /\ "cache" \notin Calls
  /\ Cardinality(Calls) < Cardinality(PoolIds)
  /\ \A c \in Calls : \A r \in Requests[c] :
       r.kind \in {"multistart", "factor"} /\ r.threads \in Nat /\ r.tasks \in Nat \ {0}
       /\ r.timed \in BOOLEAN

VARIABLES
  request,   \* what each call was asked
  callPc,    \* "ask", "work", "done"
  held,      \* the pool a call runs in, NoPool for inline
  mode,      \* how its tasks run: "none", "pool", "serial" or "sequential"
  task,      \* per call and task: "todo", "busy", "done" or "skipped"
  result,    \* per call and start
  expired,   \* the deadline of the call, fixed at its entry, has passed
  chosen

callVars == <<request, callPc, held, mode, task, result, expired, chosen>>
startVars == <<cached, size, owners, callVars>>

Smaller(a, b) == IF a <= b THEN a ELSE b
Larger(a, b) == IF a <= b THEN b ELSE a

-----------------------------------------------------------------------------
(* The reduction *)

\* status_rank.
Rank ==
  [Optimal |-> 0, LocallyOptimal |-> 1, Suboptimal |-> 2, FeasiblePoint |-> 3,
   MaxIterations |-> 4, Timeout |-> 5, NumericalError |-> 6, NonConvex |-> 7,
   Unbounded |-> 8, Infeasible |-> 9, NotSupported |-> 10]

\* A start ends in one of these statuses; a result without a finite objective has
\* the infinite one.
ASSUME OutcomeAssumption ==
  /\ Infinite \in Int
  /\ \A o \in Outcomes : o.status \in DOMAIN Rank /\ o.obj \in Int /\ o.obj <= Infinite

\* Mutant: of two equal results the later one is kept.
PickBetterLast(a, b) ==
  IF Rank[a.status] # Rank[b.status]
  THEN IF Rank[a.status] < Rank[b.status] THEN a ELSE b
  ELSE IF a.obj < b.obj THEN a ELSE b

\* pick_better: the status first, then the finite smaller objective.
PickBetter(a, b) ==
  IF Rank[a.status] # Rank[b.status]
  THEN IF Rank[a.status] < Rank[b.status] THEN a ELSE b
  ELSE IF a.obj <= b.obj THEN a ELSE b

Result(o, i) == [status |-> o.status, obj |-> o.obj, start |-> i]
Stub(i) == Result([status |-> "Timeout", obj |-> Infinite], i)
NoResult == Result([status |-> "none", obj |-> Infinite], 0)

\* Of the results so far and that of the next start, which may have been left out.
Combined(a, b) ==
  IF a = NoResult THEN b ELSE IF b = NoResult THEN a ELSE PickBetter(a, b)

\* The results of a call reduced in the order of the starts, if there are any.
Reduced(c) == FoldLeft(Combined, NoResult, result[c])

-----------------------------------------------------------------------------
(* The calls *)

Tasks(c) == 1 .. request[c].tasks

\* The number of threads a call may use.
Parallel(r) ==
  IF r.kind = "factor" THEN r.threads
  ELSE Smaller(Larger(r.threads, 1), r.tasks)

CallsInit ==
  /\ PoolInit
  /\ request \in [Calls -> UNION {Requests[c] : c \in Calls}]
  /\ \A c \in Calls : request[c] \in Requests[c]
  /\ callPc = [c \in Calls |-> "ask"]
  /\ held = [c \in Calls |-> NoPool]
  /\ mode = [c \in Calls |-> "none"]
  /\ task = [c \in Calls |-> [i \in Tasks(c) |-> "todo"]]
  /\ result = [c \in Calls |-> [i \in Tasks(c) |-> NoResult]]
  /\ expired = [c \in Calls |-> FALSE]
  /\ chosen = [c \in Calls |-> NoResult]

Expire(c) ==
  /\ request[c].timed /\ ~expired[c] /\ callPc[c] # "done"
  /\ expired' = [expired EXCEPT ![c] = TRUE]
  /\ UNCHANGED <<cached, size, owners, request, callPc, held, mode, task, result, chosen>>

Enter(c, pool, how) ==
  /\ callPc[c] = "ask"
  /\ callPc' = [callPc EXCEPT ![c] = "work"]
  /\ held' = [held EXCEPT ![c] = pool]
  /\ mode' = [mode EXCEPT ![c] = how]
  /\ UNCHANGED <<request, task, result, expired, chosen>>

\* One thread: no pool is asked for.
EnterSequential(c) ==
  /\ Parallel(request[c]) <= 1
  /\ Enter(c, NoPool, "sequential")
  /\ UNCHANGED poolVars

EnterPool(c) ==
  LET n == Parallel(request[c]) IN
  /\ callPc[c] = "ask" /\ n > 1
  /\ \/ Reuse(c, n) /\ Enter(c, cached, "pool")
     \/ Build(c, n, NewPool) /\ Enter(c, NewPool, "pool")

EnterRefused(c) ==
  /\ Parallel(request[c]) > 1
  /\ BuildRefused(Parallel(request[c]))
  /\ Enter(c, NoPool, "serial")

Busy(c) == {i \in Tasks(c) : task[c][i] = "busy"}
BusyIn(p) == UNION {{<<c, i>> : i \in Busy(c)} : c \in {d \in Calls : held[d] = p}}

\* A worker of the pool takes any task; without a pool the caller takes them in order.
MayBegin(c, i) ==
  /\ callPc[c] = "work" /\ task[c][i] = "todo"
  /\ IF held[c] # NoPool THEN Cardinality(BusyIn(held[c])) < size[held[c]]
     ELSE \A j \in Tasks(c) : j < i => task[c][j] \in {"done", "skipped"}

SetTask(c, i, to, r) ==
  /\ task' = [task EXCEPT ![c][i] = to]
  /\ result' = [result EXCEPT ![c][i] = r]
  /\ UNCHANGED <<cached, size, owners, request, callPc, held, mode, expired, chosen>>

\* The only start of a call with n_starts <= 1 looks at no deadline of its own.
Shortcut(c) == request[c].kind = "multistart" /\ request[c].tasks > 1 /\ expired[c]

Begin(c, i) ==
  /\ MayBegin(c, i) /\ ~Shortcut(c)
  /\ SetTask(c, i, "busy", NoResult)

\* A start that begins after the deadline answers with a stub.
BeginLate(c, i) ==
  /\ MayBegin(c, i) /\ Shortcut(c) /\ mode[c] # "sequential"
  /\ SetTask(c, i, "done", Stub(i))

\* take_while: the sequential path makes no stubs, it leaves the rest out.
LeaveOut(c) ==
  /\ callPc[c] = "work" /\ Shortcut(c) /\ mode[c] = "sequential" /\ Busy(c) = {}
  /\ \E i \in Tasks(c) : task[c][i] = "todo"
  /\ task' = [task EXCEPT ![c] =
       [i \in Tasks(c) |-> IF @[i] = "todo" THEN "skipped" ELSE @[i]]]
  /\ UNCHANGED <<cached, size, owners, request, callPc, held, mode, result, expired,
                 chosen>>

\* What solve_one may return: a solve sees the deadline too.
Answers(c, i) ==
  {Result(o, i) : o \in Outcomes} \cup (IF expired[c] THEN {Stub(i)} ELSE {})

Finish(c, i) ==
  /\ task[c][i] = "busy"
  /\ IF request[c].kind = "factor" THEN SetTask(c, i, "done", NoResult)
     ELSE \E r \in Answers(c, i) : SetTask(c, i, "done", r)

Settled(c) == \A i \in Tasks(c) : task[c][i] \in {"done", "skipped"}

\* `install` and `collect` return when every task has: the Arc is dropped and the
\* results are reduced.  Nothing at all to reduce: one cold solve.
Return(c) ==
  /\ callPc[c] = "work" /\ Settled(c)
  /\ Drop(c)
  /\ IF request[c].kind = "factor" THEN UNCHANGED chosen
     ELSE IF Reduced(c) = NoResult
          THEN \E r \in Answers(c, 1) : chosen' = [chosen EXCEPT ![c] = r]
          ELSE chosen' = [chosen EXCEPT ![c] = Reduced(c)]
  /\ held' = [held EXCEPT ![c] = NoPool]
  /\ callPc' = [callPc EXCEPT ![c] = "done"]
  /\ UNCHANGED <<request, mode, task, result, expired>>

CallStep(c) ==
  \/ EnterSequential(c) \/ EnterPool(c) \/ EnterRefused(c)
  \/ \E i \in Tasks(c) : Begin(c, i) \/ BeginLate(c, i) \/ Finish(c, i)
  \/ LeaveOut(c) \/ Return(c)

\* Until then some step is possible: a call stuck in a pool would be a deadlock.
Done == \A c \in Calls : callPc[c] = "done"

CallsNext ==
  \/ \E c \in Calls : CallStep(c) \/ Expire(c)
  \/ Done /\ UNCHANGED startVars

CallsSpec == CallsInit /\ [][CallsNext]_startVars

-----------------------------------------------------------------------------
(* Properties *)

\* Workers do not accumulate: besides the cached pool, the only ones alive are those
\* somebody is running in; nobody runs in a pool that was retired, and no call, whoever
\* it shares its pool with, has more threads at work than it asked for.
PoolsDoNotAccumulate ==
  /\ Cardinality(Alive \ {cached}) <= Cardinality({c \in Calls : held[c] # NoPool})
  /\ \A c \in Calls : held[c] # NoPool =>
       c \in owners[held[c]] /\ Cardinality(BusyIn(held[c])) <= Parallel(request[c])

\* What one start answers better than another, with ties to the earlier one.
Beats(a, b) ==
  \/ Rank[a.status] < Rank[b.status]
  \/ Rank[a.status] = Rank[b.status] /\ a.obj < b.obj
  \/ Rank[a.status] = Rank[b.status] /\ a.obj = b.obj /\ a.start < b.start

\* Neither the order in which the starts end, nor the pool, nor stubs change the
\* choice: the answer is the first of the best starts, and unless the deadline
\* passed every start had its say.
BestStartWins ==
  \A c \in Calls :
    callPc[c] = "done" /\ request[c].kind = "multistart" =>
      /\ \A i \in Tasks(c) : result[c][i] # NoResult => ~Beats(result[c][i], chosen[c])
      /\ expired[c] \/ \A i \in Tasks(c) : result[c][i].status # "none"
      /\ chosen[c].start \in Tasks(c)

=============================================================================
