# Otspot: a verification project in TLA+

Otspot is an optimisation solver written in Rust: linear programs (revised
simplex), quadratic programs (interior point, and a spatial branch and bound
when they are not convex), conic programs, and mixed-integer linear and
quadratic programs (branch and bound, serial or on several threads). Its promise
is that `Optimal` and `Infeasible` are proofs. The numerical kernels that compute
relaxations are outside the reach of a model checker; the machinery that turns
relaxations into a proof is not, and it is where threads, deadlines, budgets,
abandoned regions and faults meet. That machinery is what these modules model.

Everything is checked with TLC on small instances. The safety of the searches
(mixed-integer, parallel and serial; global QP; conic), of the protocols between
their threads and of the interior-point attempts is also proved with TLAPS, for
every number of workers, every problem and every sound relaxation.

## 1. Inventory of the system

Paths are relative to `otspot-core/src` unless a crate is named.

| component | state | operations | hard behaviour | what makes it correct |
|---|---|---|---|---|
| worker pool (`mip/parallel.rs`: `SharedPool`, `StopOnExit`, `solve_mip_parallel`, `run_worker`) | a best-bound heap, `idle`, `stopped` behind a mutex, a condition variable, `nodes_processed` | `push`, `pop_blocking`, `drain_from`, `stop`, spawn, join | lost wakeups, spurious wakeups, the last worker to go idle, refused threads, panics, nodes kept private during a dive | terminates always, never while a node is open; every node is back in the pool at the end |
| shared incumbent (`mip/parallel.rs`: `SharedIncumbent`; `mip/mod.rs`: `MipState`) | incumbent behind a mutex, two atomics mirroring its objective, a local view per worker | `consider`, `take_better_than`, `sync_shared` | unlocked reads of two atomics, check then clone, racing improvements | one register that only decreases; views are past values |
| node body (`mip/mod.rs`: `run_node` and below; `queue.rs`, `node.rs`, `conflict.rs`, `branch.rs`, `qp/global/pruning.rs`) | `SearchState`: queue with dive stack, conflict clauses, open lower bound, six terminal flags | stop checks, dives, pruning, relaxation, splitting, reduced-cost fixing | eight ways to leave a node, each of which has to account for its region | no region is lost; no bound exceeds what its box holds |
| drivers and finalizer (`solve_mip_core`, `SearchOutcome`, `finalize_mip_result`) | the reduced flags | loop, absorb, finalize | interrupted searches, uncertain regions, empty queues that prove nothing | every status is what it says |
| heuristics and effort (`mip/heuristics/`, `mip/effort.rs`) | iteration budgets | `try_rins`, `try_rens`, `try_local_branching`, feasibility pump | sub-searches under a deterministic budget | a truncated sub-search claims nothing |
| cuts (`mip/cuts*`, `mip/cut_pool.rs`) | a pool for the rounds at one node, a share of the iterations | root rounds, separate at a node, evict | cuts valid only under the bounds they were found with; a budget that grows with what it pays for | a cut removes no integer point of the box it is used in; separation keeps to its share |
| MIP presolve, symmetry (`mip/presolve.rs`, `mip/symmetry.rs`) | tightened bounds, orbits | propagation, probing, ordering rows | probes build on each other's bounds, a deadline between rounds | only infeasible points are removed, and of equivalent ones not all |
| spatial branch and bound (`qp/global/`) | best-bound tree, incumbent, `discard_lb` | local solve, bounds, split, finalize, dual recovery | deadline, discarded nodes, boxes that cannot be split | `Optimal` only when the whole box is covered |
| multistart (`qp/multistart.rs`) | starts, results | `solve_qp_multistart`, `pick_better` | shared deadline, thread-pool refusal, order of the reduction | result independent of thread timing |
| solver thread pool (`otspot-num`: `linalg/parallelism.rs`) | one cached pool behind a lock | `with_solver_pool` | concurrent solves with different budgets, failed builds | never more threads than asked |
| interior-point attempts (`qp/ipm_solver`) | best outcome, two lanes of attempts, iterations used | `solve_ipm`: ladder, extension, attempts without presolve | one deadline and one budget for all attempts, verdicts that are verified or not, lanes given up | the first evidence decides; it gives up only for a cause |
| interior point (`qp/ipm_core`), QP entry and routing (`qp/*.rs`), QP postsolve | iterate | iterations, certificates | floating point | unproven optima are downgraded |
| conic (`conic/`) | interior point, two branch and bounds | `solve_misocp`, `global_core` | as for the other searches | as for the other searches |
| simplex (`simplex/`), basis (`basis/`) | basis, factors, eta file | pivots, refactor, revert, two phases, warm start, fallback ladder | failed refactorizations, cycling, eta files that lose accuracy, stops between two phases | factors match the basis; verdicts are true, and a `Timeout` is one |
| presolve and postsolve (`presolve/`) | stack of reductions | reduce, replay | order of the replay | the lifted solution solves the original |
| problem data, options, certificates (`problem/`, `options.rs`, `lp.rs`, `sensitivity.rs`) | plain data | validation | - | - |
| kernels (`otspot-num`), modelling API (`otspot-model`), formats (`otspot-io`), tools (`otspot-dev`), Python (`otspot-py`) | - | - | - | - |

How they interact: the modelling API and the readers build a problem and call an
entry (`solve_lp_with`, `solve_qp_with`, `solve_milp`, `solve_miqp`, ...), which
presolves it and runs one driver. The mixed-integer drivers call the LP or QP
solver once per node through the `Relaxation` trait, heuristics call the serial
driver recursively on smaller problems, and a parallel search shares three things
between its threads: the pool, the incumbent and the node counter. One
`SolverOptions` value carries the deadline and the cancellation flag through all
of them.

`PROJECT.json` lists the components with their sources and the hazards at the
line where each bites.

## 2. Modules

| module | models | code |
|---|---|---|
| `SharedPool` | one operator per critical section of the pool, and the notification after it | `SharedPool` |
| `WorkerPool` | threads that spawn, work, dive, publish, panic and join over the pool; the work on a node is left open | `solve_mip_parallel`, `run_worker`, `StopOnExit` |
| `GapTest` | the pruning test and its treatment of infinite operands | `qp/global/pruning.rs` |
| `NodeSearch` | the node body as functions from a search state and a node to the next search state; the finalizer | `run_node` and what it calls |
| `ParallelBnB` | `NodeSearch` run by several workers over `SharedPool` | the parallel driver |
| `SerialBnB` | `NodeSearch` over one queue, with the iteration budget of sub-MIPs | `solve_mip_core` |
| `SharedIncumbent` | the mutex, the two atomics and the views, under release/acquire memory | `SharedIncumbent`, `MipState` |
| `IncumbentRegister` | *abstract*: a best value that only decreases and views of it | doc of `run_worker` |
| `SolveContract` | *abstract*: what each status promises | `BoundGapCertificate`, `SolveStatus` |
| `QpGlobal` | the spatial branch and bound of a non-convex QP | `solve_qp_global` and what it calls |
| `ConicBnB` | the two conic branch and bounds, over integers and over continuous cells | `conic/misocp.rs`, `conic/nonconvex.rs` |
| `ConicRoutes` | the four entries that end in one of them, with the convex attempt and the fallback | `solve_misocp`, `solve_miqcp`, `solve_global_qcqp`, `qp/qcqp_route.rs` |
| `SolverPool` | the cached thread pool: who holds it, who replaces it | `otspot-num` `linalg/parallelism.rs` |
| `MultiStart` | concurrent calls that run their tasks in that pool; the ordered reduction | `qp/multistart.rs` |
| `IpmAttempts` | one solve of a QP by the interior point: the attempts, which of their outcomes is kept, and the status | `qp/ipm_solver/attempt.rs`, `core.rs`, `outcome.rs` |
| `LpData` | a linear program, row activities, the operations reductions share, and what a program means | `presolve/transforms/state.rs`, `presolve/activity.rs` |
| `LpPresolve` | thirteen reductions in passes, with the stack they leave | `presolve/transforms/` |
| `LpSolve` | `LpPresolve`, the reduced solve, the replay of the stack, the guard and the retry | `simplex/entry.rs`, `presolve/postsolve.rs` |
| `IntegerRows` | bound propagation, probing, interchangeable binaries | `mip/presolve.rs`, `mip/symmetry.rs` |
| `Cuts` | optimal bases with exact arithmetic; every family of cuts; the pool's filter | `mip/cuts.rs`, `mip/cuts/`, `mip/cut_pool.rs` |
| `Bases` | bases of two rows with exact solutions, prices and rays; what a program means | `simplex/standard_form.rs`, `simplex/dual_common.rs`, `basis/lu.rs` |
| `RevisedSimplex` | the primal iteration and the basis manager it works through | `simplex/primal/core.rs`, `simplex/primal/ratio_test.rs`, `basis/mod.rs` |
| `TwoPhase` | both phases around it, from the first basis to the status | `simplex/primal/mod.rs`, `simplex/primal/reconcile.rs` |
| `DualSimplex` | the dual iteration over the same basis manager | `simplex/dual_advanced/core.rs`, `ratio_test.rs`, `pricing.rs` |
| `LpLadder` | the methods a program without upper bounds is tried with, one after another, and the gate after each | `simplex/entry.rs`, `simplex/dual.rs`, `simplex/dual_advanced/mod.rs`, `pipeline.rs`, `phase1.rs` |
| `MilpRoot` | the root of `solve_milp`, separation at a node and its budget, over `LpSolve` | `mip/mod.rs`, `mip/cuts.rs`, `mip/effort.rs`, `Model::solve` |
| `ThreadProofs` | theorems about `WorkerPool` and `SharedIncumbent`, the refinement of `IncumbentRegister` among them | |
| `NodeSearchProofs` | lemmas: the pruning test, and what each operator of the node body does to a search state | |
| `ParallelProofs` | theorems about `ParallelBnB` | |
| `SerialProofs` | theorems about `SerialBnB` | |
| `NonconvexQpProofs` | theorems about `QpGlobal`, `MultiStart` with `SolverPool`, and `IpmAttempts` | |
| `ConicProofs` | theorems about `ConicRoutes` and `ConicBnB` | |
| `LadderProofs` | theorems about `LpLadder` and the iterations below it | |
| `MilpProofs` | theorems about `MilpRoot`, and lemmas about `IntegerRows` and `Cuts` | |
| `MC*` | the instances TLC runs | |

How they fit together:

    SharedPool --+--> WorkerPool <===== ParallelBnB ----> SolveContract
                 |                      ^  |    ^            ^
                 +----------------------+  |    |            |
    NodeSearch --+-------------------------+    |            |
                 +--> SerialBnB ----------------|------------+
                                                |
    SharedIncumbent =====> IncumbentRegister ---+ (its view of the incumbent)
    (the implementations of both sides are checked in one instance, MCParallelBnB)

    GapTest -----> NodeSearch, QpGlobal, ConicBnB
    ConicBnB ----> ConicRoutes ----> SolveContract
    SolverPool --> MultiStart
    LpData --+---> LpPresolve -----> LpSolve --+
             +---> IntegerRows ----> Cuts -----+--> MilpRoot
    Bases -------> RevisedSimplex -> TwoPhase -----+--> LpLadder
                              +----> DualSimplex --+

`====>` and `---->` towards an abstract module are refinements that runs check
(`ImplementsPool`, `ImplementsContract`, `ImplementsRegister`). Plain arrows
between detailed modules are EXTENDS or INSTANCE.

### State and actions against the code

*The data.* An integer assignment is a member of `Points`, a box of bounds is the
set of assignments in it, an objective is an integer. A relaxation is an external
solver that is only assumed to be sound: it may report an integral optimum of the
box, a fractional one with any lower bound of the box, infeasibility of a box with
no feasible point, or any of the failures the code tells apart (`unbounded`,
`timeout`, `truncated` by an iteration limit, `untrusted` for another reason,
`corrupt` when an integral optimum is not finite). To these
modules in-tree separation is one more way to obtain such a report, since it
replaces a relaxation by a tighter sound one; that it does is what `MilpRoot` shows.

*The threads.* `pc[w]` says between which two accesses to shared state a worker
is. Everything a thread does inside one critical section is one action; the
`notify_all` after the unlock is another one (`Bell`), because a peer can run in
between. `Condvar::wait` is the set `waiting`; a thread in it may take the lock
back when `notified`, or spuriously. The private part of a search is `st[w]`, a
record with the fields of `SearchState`.

*A node.* `Sync` is `sync_shared`; `RunStop`, `RunPrune` and `RunSolve` are the
head of `run_node` (stop conditions, dive start, pruning by bound, by clause and by
propagation); `SolveFailed`, `SolvePrune`, `SolveLeaf`, `SolveFractional` are
`dispatch_relaxation_status` and `process_node_outcome` up to the leaf test;
`Branch` is the heuristics and the branching; `Count` is `add_nodes_processed`,
apart because the budget is read before the node and written after it.

*The global QP search.* It is sequential, so one action is one iteration of its
loop: `Interrupted`, `Pruned`, `ProvedEmpty`, `Abandoned`, `SolvedTooDeep`,
`SolvedLeaf` and `Branched` are the ways an iteration ends. A box is an interval
of cells, a cell being what branching cannot separate any more (all its variables
narrower than `MIN_BRANCH_BOX_WIDTH`). The local solver may return any feasible
point of the box or fail; the bounding procedures return any bound of the box, or
none. `root` is a variable only so that one run covers several problems. Note that
`split_node` hands the children the bound the parent itself inherited, and not the
tighter one computed for it: every node in the tree carries the root's bound, so
that best-bound order is the order of insertion and the bound published after an
interruption is the root's unless a region was folded. Both are sound. So is the
rule that a search that meets `max_nodes` exactly when its tree becomes empty
answers without a proof.

*The conic searches.* `solve_misocp` and `global_core` are the same loop with two
ways to treat a relaxed region. The head of an iteration (`Pop`, `PopStopped`,
`Drained`) and the way its relaxation comes out (`RelaxTimedOut`, `RelaxFailed`,
`RelaxEmpty`, `RayUnbounded`, `RayBisect`, `Relaxed`) are separate actions because
the code looks at the clock or the cancel flag at both places, and the flag may be
set between. What follows is one action per exit: `MisocpLeaf`,
`MisocpNotRounded`, `MisocpFractional`, `SpatialLeaf`, `SpatialSplit`,
`SpatialFractional`. `Close` is the classification after the loop. A region is an
interval of an integer variable, counted in halves, times an interval of cells;
whether a rounded point stays feasible is a choice of the oracle.

*The conic routes.* `ConicRoutes` is the code around the searches: validation,
the convex attempt on a QCQP, the fallback that follows an outcome which is not
clean, and the one absolute deadline of all of them.

*The solver pool.* `SolverPool` is the lock-protected cache: its critical section is one action
(`Reuse`, `Build` or `BuildRefused`), an `Arc` is the set of its `owners`, and a
pool is alive while it has one. `MultiStart` runs several calls over it: a call
enters, its tasks begin and finish in any order the pool permits, it drops its
`Arc` and reduces the results in the order of the starts. A start after the
deadline answers with a stub in the pool and is left out on the sequential path,
as in the code.

*The interior-point attempts.* `IpmAttempts` takes one step per attempt: presolve
(`PresolveQp`), an entry of the ladder (`Attempt`), the extension of one that the cap
of 500 iterations had cut (`Extend`), an attempt without presolve (`FallBack`), and
`Finalize`. What `run_ipm_with` returns is any of a few iterates, a structural
verdict, verified or not, or a numerical failure, with any way to end. An iterate is
known by its certificate score and its objective, which is all the comparisons look
at; the fingerprint of an attempt is its iterations and its iterate. `late` and
`cancelled` may be set during any step. `log` remembers for the properties what
happened and decides nothing.

*Linear programs.* `LpPresolve` takes one step per reduction that fires, in the
order of the code (`Pending`, `Rank`): thirteen scans per pass, each ascending over
rows, columns or pairs; a scan looks at the program as the reductions before left
it. What the code decides by the order of entries in a sparse row is any choice
here. An interruption inside a pass discards everything (`Interrupt`), one at the
top of a pass keeps what there is (`NextPass`). `LpSolve` solves what is left with
an oracle (any optimal vertex with any optimal duals, or a failure), undoes the
stack entry by entry (`Undo`), and guards, retries or gives up as `solve_with` does.
The arithmetic is exact: the matrices are totally unimodular, so that a quotient
by a pivot is a product and every vertex is integral.

*The primal simplex.* An action of `RevisedSimplex` is one iteration of
`revised_simplex_core`, by the way it ends: `Halt` (clock, flag or allowance),
`Conclude` (nothing enters), `Distrust` (a direction beyond belief, and fresh
factors that fail), `Unblocked`, `RejectEta`, `Pivot`. `lu` is a `LuBasis`: the
basis it factorizes, the length of its eta file and its two flags, which
`Refactored` raises and only `Factors`, a new manager, clears. Programs have two
rows, so that a solution is a quotient of 2x2 determinants and everything the code
computes is exact; what floats may do to it is one kind of fault: a new eta may
spoil the file (`lu.lost`, at most `Accidents` times), and until the next
factorization any offered column may enter, in any row, the result may be
singular, and `x_B` is no longer that of its basis (`exact = FALSE`). A singular
result goes back to `core.snapshot` and blocks the column; a basis seen before masks
one for an iteration. `TwoPhase` has an action for what `two_phase_simplex` does
between two calls of that loop (`StoppedShort`, `Verify`, `RetryStopped`, `Farkas`,
`Transition`, `Phase2Stopped`, `Phase2Optimal`); `guard_lp_optimal`, which its
caller applies, is part of the last. `stop` is who asked for the end, and since when:
a factorization looks at the deadline only, everything else also at the cancel flag,
and `Clock` lets either arrive during any action and `Tick` between two.

*The dual simplex and the ladder.* An action of `DualSimplex` is one iteration of
`dual_simplex_core_advanced`: `DualConclude`, `DeadEnd` (nobody enters: believed the
second time), `Reject`, `DualRejectEta`, `DualPivot`. `x_B` is updated and never
recomputed before the end, so `Shown` is what its signs may look like: those of the
basis, anything when `exact` is lost, and anything for a zero after the
perturbation of a cycle. `LpLadder` has an action for what happens between two
rungs; `rung` is the place in the code. The older dual iteration
(`dual_simplex_core`) needs no module of its own: both its callers enter it with
nothing negative, so that it concludes at once (`Legacy`, `LeRaised`). Costs raised
for dual feasibility are computed as the code does (`Raised`). The ladder is the
ground under the oracle of `LpSolve`; the two are not composed.

*Mixed-integer programs.* `MilpRoot` follows `solve_milp_with_stats`. A pass of
propagation is one action (`PropagateAtRoot`) and so is a round of probing
(`Probe`), because the deadline is read between them; `OrderColumns` adds the rows
of `break_symmetry`; `CutRound`, `Structural` and `HandOver` are the three parts of
`add_root_cuts`, each of which may end early because a solve fails or the deadline
for cuts is near. In the tree, `ProcessNode` picks any box that branching can
produce and decides whether separation runs; `SeparationRound` is one turn of
`separate_tree_cuts` and `EndSeparation` the bookkeeping after it. A relaxation is
answered by *any* optimal basis, with as many iterations as it is allowed or none.
With three columns a basis is three tight inequalities and the tableau consists of
quotients of determinants, so that Gomory's coefficients are exact integers over a
common denominator. Which node comes next, and the final answer of the tree, are left to
`SerialBnB` and `ParallelBnB`: here the tree is an oracle that solves the program
handed over. Once bounds are tight, a passed deadline only makes solves fail, and any
solve may fail, so `expired` is not looked at any more.

*Faults.* `Refuse` is a failed `spawn_scoped`, `Panic` an unwinding worker (its
queue is dropped, `StopOnExit` runs), `Expire` the deadline. They are switched on
by constants so that a run can ask about them one at a time.

*Abstract specifications.* `WorkerPool` is to `ParallelBnB` what a protocol is to
its user: the mapping forgets what a node means and keeps its box, whether a
worker holds it, and whether the worker asked for the end. `SolveContract` keeps
the incumbent and the answer only. `IncumbentRegister` is the only thing
`ParallelBnB` assumes of the incumbent; `SharedIncumbent` justifies it down to the
atomics.

## 3. Runs

| run | question | instance | bound and why it is enough |
|---|---|---|---|
| `worker_pool` | is the pool protocol right under every fault? | 3 workers, a tree of 5 nodes, refusals, panics, spurious wakeups, fairness | with 3 workers one can publish, one sleep and one be waking up; the tree lets a dive keep siblings private; the proofs cover every size |
| `parallel_exact` | does the search keep the protocol and the contract when `gap_tol = 0`, and is a stale incumbent harmless? | 3 workers, 3 points with the middle one infeasible | both children of the root matter, dives interleave with publication; one worker finds an incumbent and two are stale to different degrees |
| `parallel_cut` | does an interrupted or damaged search claim too much, and is a region lost? does the mirror of the incumbent behave as the one register the search assumes? | 2 workers, 3 points, all failures, deadline, panics, refusals, 2 nodes, depth 2, gap 1/4; and apart from it 3 threads that offer 3 objectives, with stale loads | the budget is hit by both workers together; every status and every fault occurs, a region may be abandoned on one worker only; of the threads one reads, one writes in its critical section, and one waits for the lock |
| `parallel_certificate` | is the certified lower bound one? (no) | gap 1/4, values 5, 3, 4 | see section 6 |
| `serial_submip` | is the serial driver right with an iteration budget, and does it end? | 4 points, all statuses, budgets of 5 nodes and 4 iterations | every exit of the node body, the budget exhausted before and inside a node |
| `nonconvex_qp` | the global search: is a region lost, and what does `gap_tol` guarantee? Multistart: do concurrent calls exceed their threads, and does the answer depend on timing? Interior point: can a later attempt replace a proof or lose a better iterate, and does it give up too soon? | global: 4 root boxes (3, 2, 1 cells, and an empty one), 4 points, gap 1/4, 5 nodes, depth 2, interruptions. Multistart: 3 threads, two calls of up to 3 starts, one factorization; 4 names for pools, 3 outcomes. Attempts: ladders of 4 and 8, budgets of 5 and of more than is used, with a deadline or a cancel flag; 3 iterates, 2 verdicts | a box with two points in one cell, limits that bite at each depth, prunes and polishes to a worse point; the cache holds two sizes in turn while the old pool is still in use, a call can reuse, replace and be refused; both lanes can die early or at the end, the budget runs out inside every stage, an iterate is better by score and worse by objective. The three share no state, so each behaviour runs one of them |
| `ipm_verdict` | does a verified verdict outrank a point that nothing proves? (no) | a scaled program, unbounded | see section 6 |
| `conic_routes` | is a region lost, is the reported gap honest, and does a stop prevent a proof? | 4 entries, 8 problems (with and without points, integers, a ray), 4 points, 6 nodes, gap 1, cancel and deadline at any time | two bisections deep, boxes that rounding breaks, every exit on both kinds of region |
| `conic_panic` | can the branch and bound hit its `expect`? (yes) | the same | see section 6 |
| `model_solve` | does presolve keep the optimum, and does postsolve bring it back? does the root of a mixed-integer solve, or a cut, lose an integer point? does separation keep to its share? | linear: 4 families of 3x3 matrices with 4 kinds of bounds and all mixtures of row kinds; 3 passes; deadline anywhere. Mixed-integer: 12 programs over 3 columns, 2 rounds of cuts at the root and 2 at a node, 2 nodes | every reduction fires, several times and in every order the code allows; three passes reach the fixpoint of all but a few. Every family of cuts is generated and used, lifted coefficients are not 0 or 1 only, probing fixes, tightens and refutes |
| `lp_ladder` | is a verdict of the simplex true whatever its factors lost and whichever method gave it, is a `Timeout` one, and does a solve that nothing disturbs decide? | 13 programs of two rows (boxes, cones, feasible, infeasible and repeated equations, surplus rows, degenerate ones), the primal, dual and automatic method, no warm basis or one of those that hold the first column, 2 etas, 2 accidents, allowances of 3 and 9 iterations, 1 retry, deadline and cancel at any time | 2 accidents suffice to block a row's worth of columns and revert again; an allowance of 3 ends inside every stage, one of 9 lets a retry, Phase II and the Big-M method finish; every rung ends in every way, but for the two that the code guards against and an exact program cannot meet (a basis that turns singular after a clean end, an artificial that carries something at the penalized optimum) |
| `lp_free_bound` | is an unbounded verdict true? (no) | one matrix with a free column | see section 6 |

`Reach = 3` bounds the points compared in `Optimum`. It covers every vertex and
every dual vertex of the families; a larger family at `Reach = 4` gave the same
results. `MaxCoefficient = 8` stands for the limit on the scale of a cut's
coefficients. With `NodeIters = {2000}` the first node has an allowance of 70 iterations: enough
for both rounds when solves are cheap, used up by one solve that is not; the second
node gets what that leaves of a doubled share. `DryLimit = 1` lets a streak end and
be lifted again within two nodes. The continuous columns of the
mixed-integer programs are those of flow covers; the others are integral.

The type invariants of `ParallelBnB`, `SerialBnB`, `QpGlobal` and `LpLadder`
(`TypeOK`) hold in their runs and are kept for proofs, and that of `WorkerPool` is
proved; the runs list the stronger properties only.

`AttemptCap = 1` and `Iterations = {1}`: an attempt of the interior point uses no
iteration or one, the extension also all that are left, so that a budget of five may
end in the ladder, in the extension, without presolve, or not at all. Fingerprints
then differ by their iterates, and by iterations only after a stop; with more counts
to differ in, lanes could only live longer.

What is capped: `Accidents`, faults of the model; `MaxRetries`, eight in the code;
`MaxNodes`, `MaxDepth`, `MaxConflicts`, the dive constants and
the budgets are settings of the code itself, given small values; the numbers of
workers and points and `Bound`, the objectives a fractional relaxation may report,
are the bounds of the instances. No action is disabled by a bound of the model.
Workers are interchangeable, hence the symmetry sets in runs without fairness.

The properties, by what they protect:

* `IdleIsWaiting`, `NoLostWakeup`, `QuietTermination`, `HandedBack`,
  `EventuallyOver` (`WorkerPool`): the termination protocol.
* `ImplementsPool`: the real search uses the protocol as intended, and the nodes a
  node leaves behind are proper parts of it.
* `ImplementsContract`: the incumbent only improves, and the answer is true:
  `Optimal` leaves no feasible point better by more than the gap, `Infeasible` is
  said only of infeasible problems. The parallel, the serial and the conic searches
  each have it.
* `NothingLost`: at any moment every feasible point is in an open node, in a
  region given up with a bound below it, or no better than the incumbent.
* `StaleIsConservative`, `ClausesAreFacts`: why pruning is safe.
* `OnlyDivesArePrivate`: the scheduling promise of `run_worker`.
* `BudgetOvershoot`: `max_nodes` is exceeded by less than the number of workers.
* `MirrorDecreases`, `BestSurvives`, `ImplementsRegister`: the incumbent.
* `RegionsCovered`, `GapKeptTwice` (`QpGlobal`): no feasible point is forgotten on
  the way to a global claim, and how far below it one may lie.
* `RegionsCovered`, `GapHonest`, `ProofsYieldToStop` (conic): every point is in an
  open region, settled by the incumbent or under a bound that was folded; the gap
  reported is one; no proof is published once a stop was observed.
* `PoolsDoNotAccumulate`, `BestStartWins`: threads, pools and the determinism of the
  answer. Deadlock is checked, so no call is stuck.
* `FirstEvidenceDecides`: a proof found by one attempt is the answer, whatever the
  others find. `KeepsBest`: the kept outcome is as good as every iterate the presolved
  program led to, or a verified verdict. `GivesUpForCause`: less than a proof is
  answered early only if the iterations are spent, or every accuracy was tried or
  cannot matter, the cut attempt was continued, and both attempts without presolve
  were made.
* `KeepsOptimum`: at every moment of presolve the reduced program has the optimum
  of the given one. `LiftedOptimal`: the lifted point is feasible and optimal.
  `DualsRecovered`: so are the duals, except where the stack remembers too little.
  `AnswersTrue`: status and objective are those of the program given.
* `VerdictsTrue`: `Optimal` is as good as every vertex, `Infeasible` has none,
  `Unbounded` has a ray; an `Infeasible` that rests on a dead end of a dual core is
  exempt when its `x_B` was no longer the basis' own, or when a pivot was made while a
  rejected column was left out (the history field `passed`; section 6). `StopHonest`: a `Timeout` was
  asked for. `DecidesUndisturbed`: without accident, stop, repeated basis or exhausted
  allowance, and with a warm basis used as promised, one of the three is the answer. `FactorsFollowBasis`: an iteration never begins on
  factors of another basis, under a raised flag, or with a singular basis to go back to.
* `KeepsPoints`: through propagation, probing, ordering rows and cuts every integer
  point of the given program is kept (of interchangeable ones, an optimal one), and
  what is done at a node keeps every point of the node's box. `SeparationBudget`:
  iterations and surcharges of separation stay within their share of all
  iterations, but for the surcharge of one last solve.

For each property of each passing run `PROJECT.json` names a mutant, a variant of
one definition with a plausible bug (marked `Mutant:` in the modules), that
violates it.

## 4. Fairness

* `WF` of the steps of a started thread outside the condition variable: the
  operating system schedules every runnable thread, and each relaxation ends
  (the solvers have iteration limits).
* `WF` of `Pop` for a sleeper only once it is notified: nothing else wakes a thread
  up, so a lost wakeup would be a counterexample.
* `WF` of the main thread's steps; of `Spawn`, since the spawn loop runs without
  waiting for anything. `Refuse`, `Panic` and `Expire` are never fair: faults may
  or may not happen.
* A step that needs a mutex is one atomic action; critical sections are short and
  end, so a weak fairness of the action stands for a mutex that is not starved for ever.

## 5. Proofs

Every theorem is a safety property of a whole specification, for every value of
the constants that its assumptions admit. TLC evaluates the assumptions and, in
the runs, the same properties.

| module | theorems | state |
|---|---|---|
| `ThreadProofs` | `TypeCorrect`, `IdleCounterExact` (`IdleIsWaiting`), `WakeupsReachSleepers` (`NoLostWakeup`), `TerminationIsQuiet` (`QuietTermination`), `NodesAreHandedBack` (`HandedBack`) | any workers, any tree, faults |
| `ThreadProofs` | `StoresInStep`, `MirrorStrictlyDecreases` (`MirrorDecreases`), `NoCandidateLost` (`BestSurvives`), `MirrorImplementsRegister` (`ImplementsRegister`) | any threads and candidates, every stale load |
| `ParallelProofs` | `NoRegionEverLost` (`NothingLost`), `StaleCopiesAreSafe` (`StaleIsConservative`), `BestNodesArePublic` (`OnlyDivesArePrivate`), `BudgetIsKept` (`BudgetOvershoot`), `ParallelKeepsContract` (`ImplementsContract`), `SearchFollowsPool` (`ImplementsPool`) | any workers, problem, sound relaxation and limits, faults |
| `SerialProofs` | `NoSerialRegionLost` (`NothingLost`), `ClausesStayFacts` (`ClausesAreFacts`), `SerialKeepsContract` (`ImplementsContract`) | the same, any iteration budget |
| `NonconvexQpProofs` | `TypesHold`, `NoRegionLost` (`RegionsCovered`), `ClaimsKeepTheGapTwice` (`GapKeptTwice`); `PoolsStayBounded` (`PoolsDoNotAccumulate`), `BestOfTheStarts` (`BestStartWins`); `NoIterateLost` (`KeepsBest`), `EvidenceDecides` (`FirstEvidenceDecides`), `GivingUpHasACause` (`GivesUpForCause`) | any problem, box and bounds; any calls and requests; any iterates, ladder and caps |
| `ConicProofs` | `NoConicRegionLost` (`RegionsCovered`), `GapIsHonest` (`GapHonest`), `NoProofAfterStop` (`ProofsYieldToStop`), `EntriesKeepContract` (`ImplementsContract`) | any problems, relaxations, tolerance and limit |
| `LadderProofs` | `TimeoutsAreRequested` (`StopHonest`), `IterationsHaveFactors` (`FactorsFollowBasis`), `ClaimsAreTrue` (`VerdictsTrue`) | any programs of two rows, any warm bases, any size of the eta file, any accidents |
| `MilpProofs` | `RootIsKept`, `NothingIsCutOff` (`KeepsPoints`), `MixedAnswersTrue` (`AnswersTrue` of the mixed-integer programs), `WithinTheBudget` (`SeparationBudget`) | any programs of three columns, with integers for data and any rows; any rounds, nodes, iterates and limits |

### The arguments

None of the properties is inductive by itself; each module has the invariant that is.

*The worker pool.* `IInv` joins the four properties with `Phases`, four facts
about where a thread is: a worker holds nodes only between taking one and handing
the rest back, it halts only if it asked for the end, whoever has left its loop knows
the pool is stopped, and the main thread joins after all workers are born and returns
after all ended. The worker that ends the search sees the heap
empty and `idle + 1` equal to the number of workers. `OthersCounted` turns the
counter into the cardinality of the other sleepers, `AllOthersWait` concludes by
finite cardinality that all the others sleep, and `HoldWhere` that sleepers hold
nothing; so nobody can make a node again, and a search that was not cut stays
empty (`QuietStep`). Wakeups are preserved because every section that gives a
reason to wake up leads to a `Bell`, and `CutStays` shows that what cut a search
short remains visible.

*The node body.* The lemmas of `NodeSearchProofs` are about values, not steps:
`PoppedIs`, `PushIs` and `EndDiveIs` say that the queue with its two stores loses
no node; `Keeps(s, t)` collects what never happens to a search state (a node leaves,
a bound rises, a flag is taken back, a clause is learned that is no fact), and
`Settles(t, n)` says that `t` accounts for every point the node `n` may hold. There
is one lemma for each of the ways to leave a node, and `FinalizeIs` for the
statuses that the flags at the end lead to.

*The parallel search.* `ParInv` is the types, what each worker may hold where
(`WorkerOK`: after the last publication nothing, on its private heap something only
between a node and its publication, an incumbent no better than the shared one),
what the main thread knows, and `PointsSafe`: each feasible point is in the pool,
in a queue or in a hand with a bound it respects, under a bound given up, or within
the gap of the shared incumbent. `WorkerStep` reduces a step of one worker to the
lemmas of the node body: the invariant is kept when the worker drops no point of what
it held. A prune by the worker's own stale incumbent is sound by
`StaleIsConservative` and `GapOfWorse`. `BudgetInv` counts a worker past the check
against the budget until its node is counted. The refinement
`ParallelKeepsContract` maps the shared incumbent and the answer; its hard step is
the join, where `JoinIs` reads off the invariant that what the reduced flags promise
is true.

*The pool's protocol.* `SearchFollowsPool` maps a node to its box, a worker's queues
and hand to what it holds, and the six places inside the node body to the one of
`WorkerPool`. A set of boxes follows a set of nodes only while no two open nodes have
the same box: otherwise taking one off the heap would take both out of the picture. Hence
`PlacesInv`: every open node is in one place (one hand, one store of one queue, once
on a stack, or the pool), and the boxes of two of them have no point in common.
`ChildrenPlaces` shows that a branching threshold leaves two proper parts
of the box, with a point in each and none in both, and `OpenStep` that a
worker which replaces one node by parts of it cannot meet anybody else's. Then
each step of the search is one of `WorkerPool` or none (`StepsArePooled`). TLC checked
`PlacesInv` on the instances of `parallel_exact` and `parallel_cut` first. As the parameters
of the mapped `WorkerPool` meet its assumptions (`BoxesAreNodes`), what `ThreadProofs`
proves of every behaviour of `WorkerPool` is true of the search: quiet
termination, no lost wakeup, nodes handed back. That last substitution is by the
meaning of the theorems and is not itself a checked step.

*The serial search.* `SerialInv` is the same for one search, with the iteration
budget of a sub-MIP as one more way to stop.

*The incumbent.* `IncumbentInv` says who may hold the lock, that the two atomics are
at most one store behind each other and the incumbent at most one in front of them
(`InStep`, `MirrorFollows`), and what each thread can have read (`KnowsWhatIs`,
`Intends`). With that every step of the mutex, the atomics and the clones is one of
the atomic register, or none.

*The global QP.* Beside `RegionsCovered` the invariant has the types, `HasIncumbent`
(from where on there is an incumbent) and the claim itself. `GapKeptTwice` is then
arithmetic: `GapMonotone` and `ScaleLipschitz` bound what a prune and the polish
after it lose, for a tolerance of at most 1.

*The pools.* `OwnersCount` says that the owners of a pool are the cache that holds it
and the calls that run in it, which makes "alive" a property of the calls; `PoolsFit`
and `BusyFits` add that a call runs in a pool of the size it asked for, and that no
pool has more tasks at work than threads.

*The starts.* `BestStartWins` compares the answer of a call with the result of every
start, and the answer is a fold over the starts (`Reduced`), so that it is a statement
by induction over them. The library has induction only with an operator as a
parameter, which no prover here can use; it is done by a least counterexample instead.
`LeastNatural` gives every nonempty set of naturals a least element;
`SubsetInduction` follows: a set of subsets that holds the empty set, and any other subset
when it holds that one without some element of it, holds the whole set. `FoldExists`
shows with it that the function which the definition of a fold chooses exists, and
`ReductionIs` that the fold is, after each start, the earliest of the best results so far
(`BestOf`). It rests on `BeatsOrders`: who does not beat a result cannot beat one that
does. `StartsInv` adds to the pools' invariant the types of the results, and that a call
is over when all its starts are and none was left out before the deadline (`StartsEnd`).

*The interior-point attempts.* `IpmInv` follows the evidence (`EvidenceKept`: a
verified verdict or a proof is in the best outcome from when it was found) and the
scores of the iterates; `CauseInv`, on top of it, follows the marks of the two lanes
(`LaneMarks`), so that where the ladder is left, `LadderTried` holds.

*The conic searches.* `ConicInv` is the types, what is known before the search
starts (`ConvexFacts`), that open regions hold feasible points only, and
`PointsAccounted`. `RoundingCovers` and `SplittingCovers` show that the children of a
region and what is folded cover it.

*The simplex ladder.* `StopInv` only needs that a stop is never taken back (`Clock`)
and that the status of an interrupted iteration is chosen by `StopStatus`.
`FactorsInv` says of every state of every rung that a running iteration works
through a manager of its own basis: without etas the basis is not singular, and no
flag is raised. An iteration that goes back to its snapshot needs a snapshot with
factors, which fails only after the deadline or on the way to `SingularBasis`
(`CoreInv`), and a set of blocked columns that is not full. For the dual
iteration the reason is `RejectsOne`: rejecting a column asks for a refactorization, so
that it rejects one column at most until the next pivot. Each step of the two
iterations is a composition of a few operators (enter a column, maintain the factors,
revert, settle); there is a lemma for each.

*The claims of the ladder.* `VerdictInv` is the types (`Typed`), what each phase may
hold (`PhaseFits`), what an iteration that has just ended saw (`EndsMean`), and what
its caller made of that (`AnswerTrue`, `ReplyTrue`). The claims rest on algebra of two
columns, proved for every integer program: Cramer's rule for the basic variables and the
prices, `PricesRefute` and `DeadRowRefutes` (prices, or one row of the inverse, that no
feasible point survives), `NoColumnBest` and `PricesLeaveNoRay` (weak duality: with
no reduced cost negative a basis is as good as every vertex, and there is no ray).
Where an answer comes out of a primal iteration, or after `guard_lp_optimal`, the check
behind it is enough. The dead end of a dual core has no check behind it: the row must not
be repairable by *any* column, while Bland's test looks only at those whose reduced
cost is not negative. So the invariant needs `DualInv`: as long as `x_B` is the
basis' own and no rejected column was passed over, no reduced cost is negative.
`PivotKeeps` says that a pivot on the winner of the ratio test keeps that. TLC checked
`VerdictInv` on the instance of `lp_ladder` before it was proved; the attempt to
prove it without the exemption for rejected columns failed for the reason that section 6
gives.

*The mixed-integer root.* Folds and sums over sets are unfolded as in the multistart: from
`SubsetInduction`, `FoldExists` and `LeftFold` follow `SumIs`,
`MaxIs`, `MinIs` and `SortedIs`, what the library's operators return.

`RootInv` has one part for each stretch of the code. While bounds are tightened
(`Sharpened`) the program has the rows of the given one and tighter bounds, and every point
is kept: `ImpliedIs` says that what a row implies of a column holds at each point that
satisfies the row, `PassTightens` carries that through a pass, and `ProbeTightens`
through the two branches of a probe, whose bounds are joined, or of which one has no
point. From then on (`Kept`) rows have been added: those that order columns, up to row
`root.plain`, and after them cuts. A property of points alone would not be inductive,
because an ordering row does remove points; so `Kept` has three facts: the points the
ordering rows admit are still there, the cuts remove none of what the bounds and the
rows before them leave, and the optimum is that of the given program. The second is
what `HandOver` needs, where the cuts are dropped again or turned into `<=` rows
(`FirstRowsIs`, `CutsAsLeIs`); the third rests on `OrderedPoint`: for each point there
is one of the same cost that the ordering rows admit (two columns out of order
are exchanged, which keeps the cost and raises a weighted sum of the values, so this comes
to an end).

Each family of cuts is shown to hold at every point: Gomory's from `VertexIs` (Cramer's
rule: three inequalities tight at the vertex determine it), `RowSum` and `GmiHolds` (the
mixed-integer rounding of an equation between slacks that are not negative); covers from
`CoverPacks` and, column by column, `LiftPacks` (a lifted coefficient is what the rest of the
row has room for); cliques from `ConflictIs` and `GrownIs`; implied bounds and flow
covers from `UpperBoundIs` and `ClosingIs`. `CoprimeIs` is the division by a common
divisor, and `SeparateIs` that the pool invents no cut. At a node the invariant asks less (`Within`): the
node's program has the points of the node's box, since a cut found there is good for
that box only.

`BudgetInv`, on top of it, is about what separation at a node may still spend
(`Paced`: what is used, and the allowance it started with, which is the share less what
was spent before) and what all of it has spent (`Settled`). `OvershootIs` and `NotTooLarge`
bound the surcharge of the last solve: a round adds at most one row for each integer
column (`GomoryCutsAre`), and there are at most `TreeRounds` rounds.

### Assumptions

All are named, stand in the module that declares the constants, and are evaluated
by TLC. The relaxations are sound (`ProblemAssumption`, `QpAssumption`,
`ConicAssumption`: bounds and values are integers below `Inf`; that a relaxation is a
lower bound is in the operators that choose it). The gap is at most 1 in relative
terms (`GapNum <= GapDen`), which the code does not enforce, but beyond which a worse
incumbent could prune more than a better one. `NoRegionLost` and `ClaimsKeepTheGapTwice` have the
hypothesis `CellsExact`: in a box too narrow to branch (`MIN_BRANCH_BOX_WIDTH`) the
local solver finds the least value. It is what the code relies on where it drops such
a box (section 6). There are more names for thread pools than concurrent calls
(`CallAssumption`), so that a new pool always has a fresh one. The programs of the
simplex have integer data, a right-hand side that is not negative, and a starting
slack that is the unit column of its row, as `build_standard_form` makes them
(`ProgramsAssumption`); a warm basis is two of the program's own columns
(`OptionsAssumption`). The outcomes of a start have a status that
`pick_better` ranks and an objective that is at most the infinite one of a stub
(`OutcomeAssumption`). A program with integer columns has
integers for coefficients and costs, any number of rows of any kind, and bounds on all of
its columns (`MixedAssumption`); without bounds `Optimum`, which looks at the points
within `Reach`, would say nothing of the program. `Cuts` is about three columns (`CutsAssumption`), for
which bases can be written out. A point is integral in every column: nothing is said of
the fractional values of a continuous one.

### What is only model-checked

* `EventuallyOver`, `EventuallyAnswered`: liveness is beyond the prover.
* `DecidesUndisturbed` (the simplex ladder): beside the algebra it needs that the
  Big-M costs outweigh every dual value, which is a fact about the size of the data that
  the assumptions leave open.
* `KeepsOptimum`, `LiftedOptimal`, `DualsRecovered`, and `AnswersTrue` of the linear
  programs (presolve). They are true of the families of the run, whose matrices are
  totally unimodular: there every vertex, of the reduced program as well, is within
  `Reach`, no bound that presolve computes comes near `Inf`, and every quotient is a product. For
  arbitrary values of the constants they are not: presolve of a program with
  no bounds leads out of any given `Reach`.

## 6. What the checks found

Disagreements with a document, a comment or an assertion, each shown by a run:

1. *The certified lower bound can exceed the optimum.* When a search resolves every
   node, `finalize_mip_result` (`mip/mod.rs:1462`) certifies the incumbent's own
   objective as the lower bound. With `gap_tol > 0`, though, nodes were pruned
   whose bound was up to the gap below the incumbent, so the optimum may lie below
   the "authenticated lower bound on the global optimum" of
   `problem/certificate.rs:99`, and the certificate reports a gap of zero. `Optimal`
   itself stays true up to the tolerance (`ImplementsContract` holds); only the
   certificate is too sharp. Run `parallel_certificate`.
2. *A MISOCP without integer variables can panic.* When the relaxation is optimal,
   nothing is fractional and the point still is not feasible, `misocp.rs:653` takes
   it for granted that rounding moved an integer variable. A problem without any is
   legal. Run `conic_panic`.
3. *Presolve may answer `Unbounded` for a bounded program.* The free-column
   substitution asks whether the column was free in the *original* program
   (`presolve/transforms/free.rs:21`), but a singleton row removed earlier lives on
   only as a tightened bound, and the substitution drops it. A verdict of presolve
   is returned at once. Run `lp_free_bound`; run `model_solve` therefore keeps free
   columns to equations, where the rest of presolve is shown correct.

4. *A verified verdict of an attempt without presolve is dropped.*
   `attempt.rs:415-420` wants verified verdicts to outrank finite iterates at all three
   places that overwrite the best outcome. `fallback_can_replace_unproven`
   (`attempt.rs:526`) also asks for an objective that is not larger, and the objective
   of a verdict is infinite: a verified `Unbounded` or `Infeasible` found there is
   lost to any finite point, and the answer is `SuboptimalSolution` or `Stalled`. Run
   `ipm_verdict`.

Observations made while modelling, without a run:

* *Global QP.* A global claim may be off by twice `gap_tol`: pruning spends it
  once and the polish may spend it again (`qp/global/mod.rs:876`), where
  `problem/mod.rs:188` promises it once; `GapKeptTwice` is the bound that holds. At
  the root the gap is tested before the polish and not after it (`mod.rs:224`). A
  box that cannot be branched leaves the tree without being folded
  (`mod.rs:340-346`), unlike an unbranchable root (`238-240`): harmless for finite
  bounds, where such a box is narrow.
* *Conic.* A node that is integral within tolerance and whose rounding stays
  infeasible once that variable is fixed reproduces itself until `max_nodes`
  (`misocp.rs:640-676`). A ray gives `Unbounded` without any feasible point. The
  spatial split drops a child that is exactly `1e-9` wide without folding it. The
  comment at `qcqp_route.rs:44-46`, that the global core ignores the cancel flag, is
  out of date. Between its phases the route looks at `options.deadline`, so that a
  relative timeout is first seen by a node of the search.
* *Multistart.* The stub of a start that came too late outranks a proven
  `Infeasible` or `Unbounded` of another start, on the pool path only.
* *Interior-point attempts.* An attempt cut by its cap is extended only if there is a
  deadline (`attempt.rs:952`); a caller without one, and with any number of iterations
  left, gets `MaxIterations`. The score prefers an iterate that misses `eps` on one
  measure to one that meets it everywhere and misses the certificate by more, so that
  a `SuboptimalSolution` may become `Stalled`.
* *LP presolve.* `Unbounded` is reported without a feasible point being known. An
  interruption at a pass boundary keeps the work done so far, which
  `otspot-num/src/pipeline.rs` documents otherwise. `is_row_nonbinding` reads a
  solution the replay has restored only partly; the wrong duals that gives are
  caught by the guard and repaired by crossover or retry. `BoundsTightened` has no
  dual recovery. The eighth scan is subsumed by the seventh except behind the
  fill guard.
* *Simplex.* Blocked and masked columns price as if they could not improve
  (`primal/core.rs:402`), so that the iteration may say `Optimal` when it is not; only
  `guard_lp_optimal` demotes the answer. The list of blocked columns is said to last
  "until the next clean refactor" (`core.rs:200`), but the refactorization of a
  direction beyond belief moves the snapshot without clearing it (`core.rs:526`). After a
  stalled Phase I the allowance of iterations is overrun by one, since the count is
  raised before it is compared. `verify_phase1_feasibility` counts artificials alone:
  after an accident a slack may be negative, is clamped (`primal/mod.rs:632`), and a
  verified ray then gives `Unbounded` for a program without any point.
* *Dual simplex and the ladder.* `dual_advanced/mod.rs:352` and `458` promise that a warm
  basis which is not dual feasible is not used. For a program without slack basis
  the next rung, `two_phase_dual_simplex` (`dual.rs:59-93`), takes it unchecked as
  long as `x_B` is not negative; its core has nothing to do and says `Optimal`, and
  the guard demotes that to `SuboptimalSolution` where a cold start would have
  found the optimum (`WarmAsPromised` exempts it). A dead end of a dual core becomes
  `Infeasible` without a certificate on a warm start and when a positive artificial is
  left (`phase1.rs:719-727`, "a sufficient condition"); the row that could not be
  repaired was chosen by an `x_B` that is only updated, and after a cycle perturbed on
  purpose, so neither is a proof then. Nor is it after a rejected pivot: the rejected
  column takes no part in the ratio test, the pivot made instead may leave it with a
  negative reduced cost, and `rejected_entering` is cleared (`core.rs:784`). Bland's test
  then leaves that column out (`core.rs:105-158`), so that a row it could repair is a dead
  end, on fresh factors as well, where the comment at `core.rs:633` says "dual unbounded =
  primal infeasible" of it. Found by an attempt to prove `VerdictsTrue`; with the
  program `(-1,-2), (1,-1)` of `MCLpLadder` TLC finds it when the exemption for
  `passed` is removed. The arm for an `Infeasible` without a ray
  (`dual_advanced/mod.rs:539-553`) is never taken: the two phases answer
  `Infeasible` with a ray or not at all.
* *Cuts.* The comment of `separate_tree_cuts` says iterations and surcharges never
  exceed the allowance; the surcharge of the last validating solve is charged
  without a check and may exceed it. A pool lives for at most four rounds, so that
  ageing and eviction (`cut_pool.rs:153`) never happen. A stored cut blocks every
  parallel one, also a stronger one and one in the opposite direction. The checks
  `flow_cover_is_valid` and `lifted_cover_is_valid` never rejected anything.

## 7. What is not modelled, and the plan

Not modelled: all floating-point numerics (the iterations and the post-processing of
the interior point, the diagonal scaling around it and the guard behind it,
tolerances, those of cuts and of
propagation included, KKT certificates, the overflow rollback of presolve), the
choice of branching variables and the pseudocosts (free in the models), statistics
and timers, file formats, bindings and tools. A *fractional* relaxation whose
objective is not finite is not among the failures modelled. `qp/lp_dispatch.rs` orchestrates
presolve a second time, in the way of `solve_with`; only the latter is modelled.
The constant of the original objective is added outside `solve_with`.
Cuts on columns without a lower bound or with an upper one only are not modelled, nor
is the feasibility pump at the root, which only supplies an incumbent, nor the root of
`solve_miqp`. Of the simplex the bounded path (finite upper bounds, bound flipping) and crossover
are not modelled, and what is modelled is over programs of two rows;
the sizes of pivots and perturbations within tolerance decide only ties, and the
plateau that ends a cycling Phase I may be reached at once.
In `model_solve` a program is either linear, and meets `LpPresolve`, or
mixed-integer, and meets `MilpRoot`; the presolve of the relaxations inside the
latter is part of their oracle.

In order:

1. The bounded simplex and crossover (`simplex/dual_advanced/dispatch.rs`,
   `bound_flip.rs`), and the composition of the ladder with `LpSolve`;
   `qp/lp_dispatch.rs`.
2. QP presolve, and its postsolve with the certificates.
3. Proofs: presolve, once infinite bounds and rational vertices have a model of their own.
