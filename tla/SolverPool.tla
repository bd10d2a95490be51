----------------------------- MODULE SolverPool -----------------------------
(***************************************************************************)
(* The process-wide thread pool the QP and conic solvers confine themselves   *)
(* to: one cached pool, replaced when a caller asks for another size, and     *)
(* kept alive by the callers that still run in it (the Arc count).           *)
(* Source: otspot-num/src/linalg/parallelism.rs.                             *)
(***************************************************************************)
EXTENDS Integers, FiniteSets

CONSTANTS
  PoolIds,   \* names of pools, as many as can be alive at once
  NoPool     \* the absence of one: run inline on the calling thread

ASSUME PoolAssumption == IsFiniteSet(PoolIds) /\ NoPool \notin PoolIds

VARIABLES
  cached,    \* SOLVER_POOL: the pool it holds, or NoPool
  size,      \* threads of a pool
  owners     \* the Arc clones of a pool: "cache" and the calls that hold one

poolVars == <<cached, size, owners>>

Alive == {p \in PoolIds : owners[p] # {}}
NewPool == CHOOSE p \in PoolIds : p \notin Alive

PoolInit ==
  /\ cached = NoPool
  /\ size = [p \in PoolIds |-> 0]
  /\ owners = [p \in PoolIds |-> {}]

Hit(threads) == cached # NoPool /\ size[cached] = threads

-----------------------------------------------------------------------------
(* solver_thread_pool: one critical section.  got is what the caller receives *)

Reuse(call, threads) ==
  /\ Hit(threads)
  /\ owners' = [owners EXCEPT ![cached] = @ \cup {call}]
  /\ UNCHANGED <<cached, size>>

\* Mutant: the replaced pool stays owned by the cache.
BuildKeepingOld(call, threads, new) ==
  /\ ~Hit(threads)
  /\ cached' = new
  /\ size' = [size EXCEPT ![new] = threads]
  /\ owners' = [owners EXCEPT ![new] = {"cache", call}]

\* The previous pool loses its owner in the cache; running calls keep theirs.
Build(call, threads, new) ==
  /\ ~Hit(threads)
  /\ cached' = new
  /\ size' = [size EXCEPT ![new] = threads]
  /\ owners' = [p \in PoolIds |-> IF p = new THEN {"cache", call}
                                  ELSE owners[p] \ {"cache"}]

\* The OS refuses the threads: the cache keeps what it had.
BuildRefused(threads) == ~Hit(threads) /\ UNCHANGED poolVars

\* A call drops its Arc; a pool nobody owns retires its workers.
Drop(call) ==
  /\ owners' = [p \in PoolIds |-> owners[p] \ {call}]
  /\ UNCHANGED <<cached, size>>

=============================================================================
