-------------------------- MODULE IncumbentRegister --------------------------
(***************************************************************************)
(* What the parallel search relies on when it shares its incumbent (doc of   *)
(* run_worker in otspot-core/src/mip/parallel.rs): one best objective that   *)
(* only decreases, and for each thread a view of it that is always one of    *)
(* its past values.  A refresh catches up with the best or keeps a stale     *)
(* view; ParallelBnB makes no other assumption.                              *)
(***************************************************************************)
EXTENDS Integers

CONSTANTS
  Workers, Offers,
  Inf     \* no incumbent yet

VARIABLES
  best,   \* the objective of the search-wide incumbent
  view    \* the objective of each thread's local copy

Init ==
  /\ best \in Offers \cup {Inf}
  /\ view = [w \in Workers |-> best]

Offer(v) ==
  /\ v < best
  /\ best' = v
  /\ UNCHANGED view

Refresh(w) ==
  /\ best < view[w]
  /\ view' = [view EXCEPT ![w] = best]
  /\ UNCHANGED best

Next ==
  \/ \E v \in Offers : Offer(v)
  \/ \E w \in Workers : Refresh(w)

Spec == Init /\ [][Next]_<<best, view>>
=============================================================================
