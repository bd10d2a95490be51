------------------------------- MODULE TwoPhase -------------------------------
(***************************************************************************)
(* two_phase_simplex and the gate of its entry: Phase I from an artificial or   *)
(* a crash basis, its verification and retries, the Farkas certificate, the    *)
(* degenerate artificials pivoted out, Phase II, and what each of the ways an  *)
(* iteration ends is answered with.                                          *)
(*                                                                         *)
(* The iterations are those of RevisedSimplex; a step here is what happens    *)
(* between two of its calls.  The deadline and the cancel flag are read before  *)
(* a step's factorization (stop) and by it (stop').                          *)
(* Sources: otspot-core/src/simplex/primal/mod.rs, primal/reconcile.rs,      *)
(* primal/core.rs, dual_common.rs, basis/mod.rs.                             *)
(***************************************************************************)
EXTENDS RevisedSimplex

CONSTANT MaxRetries   \* MAX_PHASE1_RETRIES

ASSUME RetryAssumption == MaxRetries \in Nat

VARIABLES
  stage,     \* "start", "phase1", "verify", "retry", "farkas", "transition", "phase2", "done"
  retry,     \* Phase I calls made again
  answer,    \* the status returned
  solution   \* whether a solution comes with it

vars == <<lp, cap, stop, coreVars, stage, retry, answer, solution>>

Cold(P) == [i \in Row |-> IF P.start[i] = 0 THEN P.n + i ELSE P.start[i]]

Init ==
  /\ lp \in Programs /\ cap \in Caps
  /\ stop = "none"
  /\ basis = Cold(lp) /\ exact = TRUE
  /\ lu = Factors(basis)
  /\ core = Frame(2, basis, {})
  /\ iters = 0 /\ accidents = 0
  /\ outcome = "none"
  /\ stage = "start" /\ retry = 0 /\ answer = "none" /\ solution = FALSE

Answer(status, carries) ==
  /\ answer' = status /\ solution' = carries /\ stage' = "done"
  /\ UNCHANGED <<core, lu, iters, accidents, outcome, retry>>

Goto(s) ==
  /\ stage' = s
  /\ UNCHANGED <<core, lu, iters, accidents, outcome, answer, solution>>

\* Mutant: what did not get anywhere is taken for a matter of time.
StopStatusByOutcome(incumbent, asked) ==
  IF incumbent /\ asked = "none" THEN "SuboptimalSolution" ELSE "Timeout"

\* stop_status: a stall is a Timeout only when somebody asked for the end.
StopStatus(incumbent, asked) ==
  IF asked # "none" THEN "Timeout" ELSE IF incumbent THEN "SuboptimalSolution" ELSE "MaxIterations"

\* Why the fresh factors of reconcile_final_basis_state are missing, if they are.
Reconciled == IF Late THEN "deadline" ELSE IF Singular(lp, basis) THEN "singular" ELSE "ok"

Negative(B) == \E i \in Row : Basic(lp, B)[i] < 0

-----------------------------------------------------------------------------
(* Phase I *)

\* The bases that a crash may start from: structural columns in place of
\* artificials, in any order, less those restored because a value was negative.
Crashed ==
  {B \in Bases(lp) :
     /\ \A i \in Row : \/ B[i] = Cold(lp)[i]
                       \/ /\ Cold(lp)[i] > lp.n /\ B[i] <= lp.x
                          /\ Column(lp, B[i])[i] # 0
                          /\ lp.b[i] > 0 => Column(lp, B[i])[i] > 0
     /\ ~Singular(lp, B) /\ ~Negative(B)}

\* The equilibration, when it is asked for, gives up at the deadline.
Begin ==
  /\ stage = "start"
  /\ Clock
  /\ UNCHANGED <<lp, cap>>
  /\ \/ Late /\ Answer("Timeout", FALSE) /\ UNCHANGED <<basis, exact>>
     \/ /\ Artificial(lp) = {}
        /\ Call(2, Cold(lp), TRUE, {})
        /\ stage' = "phase2" /\ UNCHANGED <<retry, answer, solution>>
     \/ /\ Artificial(lp) # {}
        /\ \E B \in {Cold(lp)} \cup (IF Late THEN {} ELSE Crashed) : Call(1, B, TRUE, Artificial(lp))
        /\ stage' = "phase1" /\ UNCHANGED <<retry, answer, solution>>

\* The basic artificials at zero are perturbed, and may look infeasible for it.
LooksFeasible == exact => Objective(lp, 1, basis) <= 0
LooksInfeasible == exact => Objective(lp, 1, basis) > 0 \/ \E i \in Row : basis[i] > lp.n

\* A Phase I that was stopped is reconciled when it seems to have arrived.
StoppedShort ==
  /\ stage = "phase1" /\ outcome \in {"Timeout", "Stalled"}
  /\ Clock
  /\ \/ /\ LooksInfeasible
        /\ Answer(StopStatus(FALSE, stop), FALSE) /\ UNCHANGED <<basis, exact>>
     \/ /\ LooksFeasible /\ Reconciled # "ok"
        /\ Answer(StopStatus(FALSE, stop), FALSE) /\ UNCHANGED <<basis, exact>>
     \/ /\ LooksFeasible /\ Reconciled = "ok"
        /\ exact' = TRUE /\ UNCHANGED <<basis, retry>>
        /\ IF Infeasibility(lp, basis) > 0
           THEN Answer(StopStatus(FALSE, stop), FALSE)
           ELSE Goto("transition")
  /\ UNCHANGED <<lp, cap>>

\* A retry that was stopped may have arrived too.
RetryStopped ==
  /\ stage = "retry" /\ outcome \in {"Timeout", "Stalled"}
  /\ Clock
  /\ IF Reconciled = "ok" /\ Infeasibility(lp, basis) = 0
     THEN exact' = TRUE /\ Goto("transition") /\ UNCHANGED <<basis, retry>>
     ELSE Answer(StopStatus(FALSE, stop'), FALSE) /\ UNCHANGED <<basis, exact>>
  /\ UNCHANGED <<lp, cap>>

Phase1Ended ==
  /\ stage \in {"phase1", "retry"}
  /\ Clock
  /\ \/ outcome = "Optimal" /\ Goto("verify")
     \/ outcome = "Unbounded" /\ Goto("farkas")
     \/ outcome = "SingularBasis" /\ Answer("NumericalError", FALSE)
  /\ UNCHANGED <<lp, cap, basis, exact, retry>>

\* An iteration of verify_phase1_feasibility.
Verify ==
  /\ stage = "verify"
  /\ Clock
  /\ \/ /\ stop = "deadline" \/ Reconciled # "ok"
        /\ Goto("farkas") /\ UNCHANGED <<basis, exact, retry>>
     \/ /\ stop # "deadline" /\ Reconciled = "ok"
        /\ Infeasibility(lp, basis) = 0
        /\ exact' = TRUE /\ Goto("transition") /\ UNCHANGED <<basis, retry>>
     \/ /\ stop # "deadline" /\ Reconciled = "ok"
        /\ Infeasibility(lp, basis) > 0 /\ retry = MaxRetries
        /\ exact' = TRUE /\ Goto("farkas") /\ UNCHANGED <<basis, retry>>
     \/ /\ stop # "deadline" /\ Reconciled = "ok"
        /\ Infeasibility(lp, basis) > 0 /\ retry < MaxRetries
        /\ Call(1, basis, ~Negative(basis), Artificial(lp))
        /\ retry' = retry + 1 /\ stage' = "retry" /\ UNCHANGED <<answer, solution>>
  /\ UNCHANGED <<lp, cap>>

\* The weights of rows that extract_farkas_certificate tries: all the
\* artificials, the positive ones by their value, each positive one.
Weights ==
  LET x == Basic(lp, basis)
      carried == {i \in Row : basis[i] > lp.n}
      positive == {i \in carried : x[i] > 0}
      on(rows) == [i \in Row |-> IF i \in rows THEN 1 ELSE 0]
  IN  {on(carried), [i \in Row |-> IF i \in positive THEN x[i] ELSE 0]} \cup {on({i}) : i \in positive}

Proves(w) ==
  LET y == Btran(lp, basis, w)
  IN  /\ Dot(lp.b, y) > 0
      /\ \A j \in Original(lp) : Dot(y, Column(lp, j)) <= 0

Farkas ==
  /\ stage = "farkas"
  /\ Clock
  /\ Answer(IF stop' = "none" /\ ~Singular(lp, basis) /\ \E w \in Weights : Proves(w)
            THEN "Infeasible" ELSE StopStatus(FALSE, stop'), FALSE)
  /\ UNCHANGED <<lp, cap, basis, exact>>

-----------------------------------------------------------------------------
(* Phase II *)

\* Mutant: the artificials at zero stay.
PivotedOutNever == {basis}

\* pivot_out_degenerate_artificials: the artificials at zero leave for columns
\* of the program until no row of theirs has a pivot.
PivotedOut ==
  LET degenerate == {i \in Row : basis[i] > lp.n /\ Basic(lp, basis)[i] = 0}
      reached == {B \in Bases(lp) :
                    /\ ~Singular(lp, B)
                    /\ \A i \in Row : B[i] # basis[i] => i \in degenerate /\ B[i] <= lp.n}
  IN  {B \in reached :
         \A i \in degenerate, j \in Original(lp) :
           B[i] > lp.n /\ j \notin BasisSet(B) => Singular(lp, [B EXCEPT ![i] = j])}

Transition ==
  /\ stage = "transition"
  /\ Clock
  /\ \/ Late /\ Answer("Timeout", TRUE) /\ UNCHANGED <<basis, exact>>
     \/ /\ ~Late
        /\ \E B \in PivotedOut : Call(2, B, ~Negative(B), {})
        /\ stage' = "phase2" /\ UNCHANGED <<retry, answer, solution>>
  /\ UNCHANGED <<lp, cap>>

\* lp_unbounded_ray_verified
RayVerified ==
  /\ stop = "none" /\ stop' = "none" /\ ~Singular(lp, basis)
  /\ \E j \in Original(lp) \ BasisSet(basis) : Reduced(lp, core.phase, basis, j) < 0 /\ Ray(lp, basis, j)

Phase2Stopped ==
  /\ stage = "phase2"
  /\ Clock
  /\ \/ outcome \in {"Timeout", "Stalled"} /\ Answer(StopStatus(TRUE, stop'), TRUE)
     \/ outcome = "Unbounded" /\ Answer(IF RayVerified THEN "Unbounded" ELSE StopStatus(TRUE, stop'), ~RayVerified)
     \/ outcome = "SingularBasis" /\ Answer("NumericalError", FALSE)
  /\ UNCHANGED <<lp, cap, basis, exact>>

\* Mutant: the columns the iteration masked are not priced here either.
ProvenAsPriced ==
  \A j \in Original(lp) \ (BasisSet(basis) \cup core.blocked) : Reduced(lp, core.phase, basis, j) >= 0

\* prove_optimal_lp: the bounds and the signs of the duals; the rows hold.
Proven == \A j \in Original(lp) \ BasisSet(basis) : Reduced(lp, core.phase, basis, j) >= 0

\* guard_lp_optimal
Guarded == IF Proven THEN "Optimal" ELSE "SuboptimalSolution"

CarriesArtificial == \E i \in Row : basis[i] > lp.n /\ Basic(lp, basis)[i] # 0

Phase2Optimal ==
  /\ stage = "phase2" /\ outcome = "Optimal"
  /\ Clock
  /\ \/ /\ Reconciled # "ok"
        /\ \/ Reconciled = "deadline" /\ Answer("Timeout", TRUE)
           \/ Reconciled = "singular" /\ Answer("NumericalError", FALSE)
        /\ UNCHANGED exact
     \/ /\ Reconciled = "ok"
        /\ IF CarriesArtificial THEN Answer("NumericalError", FALSE)
           ELSE Answer(Guarded, TRUE)
        /\ exact' = TRUE
  /\ UNCHANGED <<lp, cap, basis>>

-----------------------------------------------------------------------------
Step ==
  \/ Begin \/ StoppedShort \/ RetryStopped \/ Phase1Ended \/ Verify \/ Farkas
  \/ Transition \/ Phase2Stopped \/ Phase2Optimal

Next ==
  \/ Iterate /\ UNCHANGED <<lp, cap, stage, retry, answer, solution>>
  \/ Step
=============================================================================
