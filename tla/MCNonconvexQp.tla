----------------------------- MODULE MCNonconvexQp -----------------------------
(* What a QP may be given to, one at a time.                                   *)
(*                                                                         *)
(* The spatial branch and bound: up to three cells and four points, two of them  *)
(* in one cell with different values, and a root box of one, two or three cells. *)
(*                                                                         *)
(* Multistart, three threads: a call with a deadline, of two starts in sequence  *)
(* or of three on two threads; another whose budget of four threads is cut to    *)
(* its two starts, so that they may share a pool, or which has only one; and a   *)
(* factorization that asks for another size.                                   *)
(*                                                                         *)
(* The interior point: a ladder of eight attempts in two lanes and one of four,  *)
(* with every iteration one could want; five iterations only, to be cancelled at *)
(* any time or with a deadline.  Its iterates are one that is proved optimal,   *)
(* one that satisfies eps without a proof, and one that does not, but has the   *)
(* better score of the two and the worse objective.                            *)
EXTENDS QpGlobal, MultiStart, IpmAttempts

CONSTANTS p1, p2, p3, p4, a, b, f, good, near, far, Routes

VARIABLE route   \* "global", "starts" or "attempts", one of Routes

MCFeasible == {p1, p2, p3, p4}
MCRootBoxes == {[lo |-> 1, hi |-> 3], [lo |-> 2, hi |-> 3], [lo |-> 3, hi |-> 3],
                [lo |-> 4, hi |-> 5]}
MCCell == (p1 :> 1) @@ (p2 :> 2) @@ (p3 :> 3) @@ (p4 :> 3)
MCValue == (p1 :> 4) @@ (p2 :> 9) @@ (p3 :> 5) @@ (p4 :> 3)
MCBound == {2, 3, 5}

MCCalls == {a, b, f}
Multi(threads, starts, timed) ==
  [kind |-> "multistart", threads |-> threads, tasks |-> starts, timed |-> timed]
MCRequests ==
  (a :> {Multi(1, 2, TRUE), Multi(2, 3, TRUE)})
    @@ (b :> {Multi(4, 2, FALSE), Multi(4, 1, FALSE)})
    @@ (f :> {[kind |-> "factor", threads |-> 3, tasks |-> 1, timed |-> FALSE]})
MCOutcomes == {[status |-> "LocallyOptimal", obj |-> 2],
               [status |-> "LocallyOptimal", obj |-> 3],
               [status |-> "Infeasible", obj |-> 100]}

MCIterates == {good, near, far}
MCScore == (good :> 0) @@ (far :> 1) @@ (near :> 2)
MCObjective == (good :> 0) @@ (near :> 1) @@ (far :> 2)
MCSatisfying == {good, near}
IpmCall(timed, maxIter, base, scaled) ==
  [timed |-> timed, cancellable |-> ~timed, maxIter |-> maxIter, base |-> base,
   scaled |-> scaled, ruiz |-> TRUE, small |-> scaled]
MCIpmCalls == {IpmCall(TRUE, 99, 1, FALSE), IpmCall(TRUE, 99, 2, TRUE),
               IpmCall(FALSE, 5, 2, TRUE), IpmCall(TRUE, 5, 0, FALSE)}

\* One that comes to the attempts without presolve.
ScaledCall == {IpmCall(TRUE, 99, 0, TRUE)}

\* What is not asked for has its first problem, and does not move.
MCInit ==
  /\ route \in Routes
  /\ Init /\ CallsInit /\ IpmInit
  /\ route # "global" => root = CHOOSE box \in RootBoxes : TRUE
  /\ route # "starts" => request = [c \in Calls |-> CHOOSE r \in Requests[c] : TRUE]
  /\ route # "attempts" => ipmCall = CHOOSE call \in IpmCalls : TRUE

MCNext ==
  \/ route = "global" /\ Next /\ UNCHANGED <<route, startVars, ipmVars>>
  \/ route = "starts" /\ CallsNext /\ UNCHANGED <<route, vars, ipmVars>>
  \/ route = "attempts" /\ IpmNext /\ UNCHANGED <<route, vars, startVars>>

MCSpec == MCInit /\ [][MCNext]_<<route, vars, startVars, ipmVars>>
=============================================================================
