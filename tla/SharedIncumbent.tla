--------------------------- MODULE SharedIncumbent ---------------------------
(***************************************************************************)
(* The search-wide incumbent of the parallel branch and bound               *)
(* (otspot-core/src/mip/parallel.rs, struct SharedIncumbent, and the shared  *)
(* half of MipState in mip/mod.rs): the incumbent itself behind a mutex, and *)
(* a mirror of its objective in two atomics that is read without the lock.  *)
(*                                                                         *)
(* Memory model.  The two atomics are written with Release and read with     *)
(* Acquire, so a load may return any store of the modification order that   *)
(* is not older than what its thread already knows, and reading a store      *)
(* makes known everything its thread knew when it wrote it.  All stores      *)
(* happen under the lock: the n-th store of `present` (always TRUE) follows  *)
(* the n-th store of `objective_bits` and precedes the next one.             *)
(***************************************************************************)
EXTENDS Integers, Sequences

CONSTANTS
  Threads,
  Offers,       \* the objectives of the candidates the threads may find
  Infinity,     \* no incumbent
  Free          \* nobody: the value of a mutex that is not held

ASSUME OffersAssumption ==
  /\ Offers \subseteq Int
  /\ Infinity \in Int /\ \A v \in Offers : v < Infinity
  /\ Free \notin Threads

VARIABLES
  inner,      \* SharedIncumbent::inner, its objective
  lock,       \* who holds its mutex
  bits,       \* the stores of objective_bits, the oldest first
  presents,   \* the number of stores of `present`
  at,         \* where each thread is
  arg,        \* the objective each thread is offering
  local,      \* MipState::incumbent_obj of each thread
  knownBits,  \* how many stores of `bits` each thread knows of
  knownPresents,
  offered,    \* every objective ever offered, for the properties
  result      \* {} and then what the main thread finds after the join

incumbentVars == <<inner, lock, bits, presents, at, arg, local, knownBits,
                   knownPresents, offered, result>>

Least(a, b) == IF a <= b THEN a ELSE b
Most(a, b) == IF a <= b THEN b ELSE a

\* The main thread offers the caller's start, if any, and spawns the threads:
\* they know all it has stored, and their first refresh finds it.
IncumbentInit ==
  /\ inner \in Offers \cup {Infinity}
  /\ lock = Free
  /\ bits = IF inner = Infinity THEN <<>> ELSE <<inner>>
  /\ presents = Len(bits)
  /\ at = [w \in Threads |-> "idle"]
  /\ arg = [w \in Threads |-> Infinity]
  /\ local = [w \in Threads |-> inner]
  /\ knownBits = [w \in Threads |-> Len(bits)]
  /\ knownPresents = [w \in Threads |-> presents]
  /\ offered = {inner}
  /\ result = {}

Advance(w, from, to) ==
  /\ at[w] = from
  /\ at' = [at EXCEPT ![w] = to]

\* Whoever takes the lock knows what was stored under it before.
LearnAll(w) ==
  /\ knownBits' = [knownBits EXCEPT ![w] = Len(bits)]
  /\ knownPresents' = [knownPresents EXCEPT ![w] = presents]

-----------------------------------------------------------------------------
(* MipState::consider: SharedIncumbent::consider, then sync_shared *)

Offer(w, v) ==
  /\ Advance(w, "idle", "lock")
  /\ arg' = [arg EXCEPT ![w] = v]
  /\ offered' = offered \cup {v}
  /\ UNCHANGED <<inner, lock, bits, presents, local, knownBits, knownPresents,
                 result>>

\* Mutant: an equally good candidate replaces the incumbent.
BetterOrEqual(v) == v <= inner

\* Mutant: any other candidate does.
Different(v) == v # inner

\* The candidate is strictly better than the incumbent of the search.
Better(v) == v < inner

\* Mutant: the candidate is compared with the thread's own view.
AdoptUnarbitrated(w) ==
  /\ Advance(w, "lock", "storeBits")
  /\ lock = Free
  /\ arg[w] < local[w]
  /\ lock' = w
  /\ inner' = arg[w]
  /\ LearnAll(w)
  /\ UNCHANGED <<bits, presents, arg, local, offered, result>>

Adopt(w) ==
  /\ Advance(w, "lock", "storeBits")
  /\ lock = Free
  /\ Better(arg[w])
  /\ lock' = w
  /\ inner' = arg[w]
  /\ LearnAll(w)
  /\ UNCHANGED <<bits, presents, arg, local, offered, result>>

Reject(w) ==
  /\ Advance(w, "lock", "present")
  /\ lock = Free
  /\ ~Better(arg[w])
  /\ LearnAll(w)
  /\ UNCHANGED <<inner, lock, bits, presents, arg, local, offered, result>>

StoreBits(w) ==
  /\ Advance(w, "storeBits", "storePresent")
  /\ bits' = Append(bits, inner)
  /\ knownBits' = [knownBits EXCEPT ![w] = Len(bits')]
  /\ UNCHANGED <<inner, lock, presents, arg, local, knownPresents, offered,
                 result>>

StorePresent(w) ==
  /\ Advance(w, "storePresent", "present")
  /\ presents' = presents + 1
  /\ knownPresents' = [knownPresents EXCEPT ![w] = presents']
  /\ lock' = Free
  /\ UNCHANGED <<inner, bits, arg, local, knownBits, offered, result>>

-----------------------------------------------------------------------------
(* MipState::sync_shared: SharedIncumbent::take_better_than *)

Refresh(w) ==
  /\ Advance(w, "idle", "present")
  /\ UNCHANGED <<inner, lock, bits, presents, arg, local, knownBits,
                 knownPresents, offered, result>>

\* Store number j of `present` is read; 0 is the initial FALSE.
LoadPresent(w) ==
  /\ \E j \in knownPresents[w]..presents :
       /\ Advance(w, "present", IF j = 0 THEN "idle" ELSE "bits")
       /\ knownPresents' = [knownPresents EXCEPT ![w] = j]
       /\ knownBits' = [knownBits EXCEPT ![w] = Most(@, j)]
  /\ UNCHANGED <<inner, lock, bits, presents, arg, local, offered, result>>

\* Store number i of objective_bits is read, 0 being the initial infinity; the
\* thread that made it knew the i-1 earlier stores of `present`.
Mirrored(i) == IF i = 0 THEN Infinity ELSE bits[i]

LoadBits(w) ==
  /\ \E i \in knownBits[w]..Len(bits) :
       /\ Advance(w, "bits", IF local[w] = Infinity \/ Mirrored(i) < local[w]
                          THEN "clone" ELSE "idle")
       /\ knownBits' = [knownBits EXCEPT ![w] = i]
       /\ knownPresents' = [knownPresents EXCEPT ![w] = Most(@, i - 1)]
  /\ UNCHANGED <<inner, lock, bits, presents, arg, local, offered, result>>

\* The incumbent is cloned under the lock and adopted as it is.
Clone(w) ==
  /\ Advance(w, "clone", "idle")
  /\ lock = Free
  /\ local' = [local EXCEPT ![w] = inner]
  /\ LearnAll(w)
  /\ UNCHANGED <<inner, lock, bits, presents, arg, offered, result>>

-----------------------------------------------------------------------------
Leave(w) ==
  /\ Advance(w, "idle", "left")
  /\ UNCHANGED <<inner, lock, bits, presents, arg, local, knownBits,
                 knownPresents, offered, result>>

\* After the join the main thread, which knows everything, refreshes a view
\* that holds nothing.
Joined == \A w \in Threads : at[w] = "left"

JoinAll ==
  /\ Joined
  /\ result' = {IF presents = 0 THEN Infinity ELSE inner}
  /\ UNCHANGED <<inner, lock, bits, presents, at, arg, local, knownBits,
                 knownPresents, offered>>

IncumbentNext ==
  \/ \E w \in Threads :
       \/ \E v \in Offers : Offer(w, v)
       \/ Adopt(w) \/ Reject(w) \/ StoreBits(w) \/ StorePresent(w)
       \/ Refresh(w) \/ LoadPresent(w) \/ LoadBits(w) \/ Clone(w)
       \/ Leave(w)
  \/ JoinAll

IncumbentSpec == IncumbentInit /\ [][IncumbentNext]_incumbentVars

-----------------------------------------------------------------------------
(* Properties *)

Register == INSTANCE IncumbentRegister
              WITH Workers <- Threads, Inf <- Infinity, best <- inner, view <- local

\* The lock-free mirror, with every stale load the memory model allows,
\* implements the atomic register the parallel search is verified with: in
\* particular a view is only ever replaced by something strictly better.
ImplementsRegister == Register!Spec

\* The mirror strictly decreases: two threads that find the same objective
\* never both count an improvement (doc of SharedIncumbent::consider), and a
\* stale load errs on the side of keeping nodes.
MirrorDecreases ==
  \A i \in DOMAIN bits : \A j \in DOMAIN bits : i < j => bits[j] < bits[i]

\* What the main thread finalizes with is the best candidate anyone offered.
BestSurvives == \A r \in result : \A v \in offered : r <= v
=============================================================================
