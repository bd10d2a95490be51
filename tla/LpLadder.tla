------------------------------- MODULE LpLadder -------------------------------
(***************************************************************************)
(* The ladder of simplex methods that a linear program without upper bounds     *)
(* climbs: the method asked for, a warm basis when there is one, the cold start  *)
(* of a program with slacks only, the two phases, and the Big-M method when the  *)
(* two phases came back with nothing; and the gate at the end of each.          *)
(*                                                                         *)
(* A rung runs one of the cores (RevisedSimplex, DualSimplex) or all of        *)
(* TwoPhase; a step here is what happens between two rungs.                    *)
(* Sources: otspot-core/src/simplex/entry.rs, dual.rs, dual_advanced/mod.rs,   *)
(* dual_advanced/pipeline.rs, dual_advanced/phase1.rs, dual_common.rs.         *)
(***************************************************************************)
EXTENDS TwoPhase, DualSimplex

\* The method and the warm basis, or none, that a program may be solved with.
CONSTANT Options(_)

VARIABLES
  options,
  rung,      \* "entry", "warm", "legacy", "minted", "le", "le2", "two_phase",
             \* "bigm", "bigm1", "bigm1b", "bigm2" or "over"
  reply      \* the status replied, and by what

ladderVars == <<options, rung, reply>>
twoPhaseVars == <<stage, retry, answer, solution>>

NoBasis == <<>>

\* A warm basis is one of the program's own columns.
ASSUME OptionsAssumption ==
  \A P \in Programs : \A o \in Options(P) :
    o.warm # NoBasis => o.warm \in Bases(P) /\ BasisSet(o.warm) \subseteq Original(P)

LadderInit ==
  /\ Init
  /\ options \in Options(lp)
  /\ rung = "entry" /\ reply = [status |-> "none", by |-> "none"]

Reply(status, by) ==
  /\ reply' = [status |-> status, by |-> by] /\ rung' = "over"
  /\ UNCHANGED <<coreVars, options>>

Climb(next) == rung' = next /\ UNCHANGED <<options, reply>>

\* Between two rungs time passes; what TwoPhase left stays.
Between(at) == rung \in at /\ Clock /\ UNCHANGED <<lp, cap>>

LeOnly == Artificial(lp) = {}

\* A warm basis is looked at when it can be factorized in time.
Usable == options.warm # NoBasis /\ ~Late /\ ~Singular(lp, options.warm)
DualFeasible(B) == \A j \in Original(lp) \ BasisSet(B) : Reduced(lp, 2, B, j) >= 0

-----------------------------------------------------------------------------
(* The entry: the method, and the warm basis under Auto *)

\* solve_dual_advanced falls back to two_phase_dual_simplex where it has to.
EntryRung ==
  CASE options.method = "primal" -> "two_phase"
    [] options.method = "dual" -> "legacy"
    [] OTHER -> IF LeOnly THEN "le" ELSE "legacy"

Entry ==
  /\ Between({"entry"}) /\ UNCHANGED twoPhaseVars
  /\ \/ /\ options.method = "auto" /\ Late
        /\ Reply("Timeout", "deadline")
     \/ /\ options.method = "auto" /\ Usable /\ DualFeasible(options.warm)
        /\ DualCall(2, options.warm, TRUE, FALSE) /\ Climb("warm")
     \/ /\ options.method = "auto" => ~Late /\ ~(Usable /\ DualFeasible(options.warm))
        /\ Climb(EntryRung) /\ UNCHANGED coreVars

\* two_phase_dual_simplex: the equilibration may come too late; a warm basis that
\* is primal feasible is taken as it is, and its core concludes at once; anything
\* else starts cold.
Legacy ==
  /\ Between({"legacy"})
  /\ \/ /\ Late
        /\ answer' = "Timeout" /\ solution' = FALSE /\ stage' = "done"
        /\ Climb("two_phase") /\ UNCHANGED <<coreVars, retry>>
     \/ /\ Usable /\ ~Negative(options.warm)
        /\ basis' = options.warm /\ exact' = TRUE
        /\ core' = Frame(2, options.warm, {}) /\ lu' = Factors(options.warm)
        /\ iters' = iters + 1
        /\ outcome' = IF stop = "none" THEN "Optimal" ELSE "Timeout"
        /\ Climb("minted") /\ UNCHANGED <<accidents, twoPhaseVars>>
     \/ /\ ~Late /\ ~(Usable /\ ~Negative(options.warm))
        /\ Climb(IF LeOnly THEN "le" ELSE "two_phase") /\ UNCHANGED <<coreVars, twoPhaseVars>>

\* outcome_to_result: a dual core that is unbounded is taken for a proof.
WarmEnded ==
  /\ Between({"warm", "minted"}) /\ UNCHANGED twoPhaseVars
  /\ \/ outcome = "Optimal" /\ Reply(Guarded, rung)
     \/ outcome = "Unbounded" /\ Reply("Infeasible", "dual")
     \/ outcome \in {"Timeout", "Stalled"} /\ Reply(StopStatus(TRUE, stop'), rung)
     \/ outcome = "SingularBasis" /\ Reply("NumericalError", rung)

-----------------------------------------------------------------------------
(* A cold start from slacks *)

\* With costs raised to zero the slack basis is optimal: the dual core concludes
\* in its first iteration, unless it is stopped, or, the newer one, out of its
\* allowance.
LeRaised ==
  /\ Between({"le"}) /\ UNCHANGED twoPhaseVars
  /\ iters' = iters + 1
  /\ UNCHANGED <<basis, exact, lu, core, accidents, outcome, options>>
  /\ IF stop # "none" \/ Late \/ (options.method = "auto" /\ iters' >= cap)
     THEN /\ rung' = "over"
          /\ reply' = [status |-> StopStatus(TRUE, stop'), by |-> "le"]
     ELSE rung' = "le1" /\ UNCHANGED reply

LePrimal ==
  /\ Between({"le1"}) /\ UNCHANGED twoPhaseVars
  /\ Call(2, Cold(lp), TRUE, {}) /\ Climb("le2")

-----------------------------------------------------------------------------
(* After the two phases: the Big-M method *)

\* big_m_retry: with nothing to show for the two phases, what they left of the
\* allowance goes to the Big-M method.
TwoPhaseEnded ==
  /\ rung = "two_phase" /\ stage = "done"
  /\ UNCHANGED <<lp, cap, stop, twoPhaseVars>>
  /\ IF /\ options.method = "auto" /\ iters < cap
        /\ answer \in {"Timeout", "MaxIterations"} /\ ~solution
     THEN Climb("bigm") /\ UNCHANGED coreVars
     ELSE Reply(answer, "two_phase")

BigM ==
  /\ Between({"bigm"}) /\ UNCHANGED twoPhaseVars
  /\ \E B \in {Cold(lp)} \cup (IF Late THEN {} ELSE Crashed) : DualCall(4, B, TRUE, TRUE)
  /\ Climb("bigm1")

\* A Big-M method that ran out of time leaves the answer of the two phases.
BigMReply(status, by) == IF status = "Timeout" THEN Reply(answer, "two_phase") ELSE Reply(status, by)

ArtificialRows == {i \in Row : basis[i] > lp.n}

\* farkas_infeasibility_certified: all the artificial rows at once, or each.
Certified ==
  LET on(rows) == [i \in Row |-> IF i \in rows THEN 1 ELSE 0]
  IN  /\ stop' = "none" /\ ~Singular(lp, basis)
      /\ ArtificialRows # {}
      /\ \E rows \in {ArtificialRows} \cup {{i} : i \in ArtificialRows} : Proves(on(rows))

\* Phase I found no column to enter: a certificate, or a positive artificial on
\* fresh factors, is a proof.
BigMDeadEnd ==
  /\ Between({"bigm1"}) /\ UNCHANGED twoPhaseVars
  /\ outcome = "Unbounded"
  /\ \/ Certified /\ BigMReply("Infeasible", "certificate")
     \/ ~Certified /\ Late /\ BigMReply("Timeout", "bigm")
     \/ ~Certified /\ ~Late /\ Singular(lp, basis) /\ BigMReply("NumericalError", "bigm")
     \/ /\ ~Certified /\ ~Late /\ ~Singular(lp, basis)
        /\ IF \E i \in ArtificialRows : SignOf(i) > 0
           THEN BigMReply("Infeasible", "dual")
           ELSE BigMReply(StopStatus(TRUE, stop'), "bigm")

\* Phase I was stopped or stalled: while artificials are left it goes on from
\* where it is, with the same costs, and may not yield again.
BigMAgain ==
  /\ Between({"bigm1"}) /\ UNCHANGED twoPhaseVars
  /\ outcome \in {"Timeout", "Stalled"}
  /\ \E s \in Shown :
       LET left == \E i \in ArtificialRows : s[i] # 0
       IN  \/ ~left /\ BigMReply(StopStatus(TRUE, stop'), "bigm")
           \/ left /\ Certified /\ BigMReply("Infeasible", "certificate")
           \/ /\ left /\ ~Certified
              /\ Enter([DualFrame(4, basis, FALSE) EXCEPT
                          !.snapshot = core.snapshot, !.artificials = core.artificials,
                          !.perturbed = core.perturbed], basis, exact)
              /\ Climb("bigm1b")

BigMStopped ==
  /\ Between({"bigm1", "bigm1b"}) /\ UNCHANGED twoPhaseVars
  /\ \/ outcome = "SingularBasis" /\ BigMReply("NumericalError", "bigm")
     \/ /\ rung = "bigm1b" /\ outcome \in {"Unbounded", "Timeout", "Stalled"}
        /\ IF outcome = "Unbounded" /\ Certified
           THEN BigMReply("Infeasible", "certificate")
           ELSE BigMReply(StopStatus(TRUE, stop'), "bigm")

\* Artificials left in the basis are no proof: Phase II penalizes them.
BigMPhase2 ==
  /\ Between({"bigm1", "bigm1b"}) /\ UNCHANGED twoPhaseVars
  /\ outcome = "Optimal"
  /\ IF Certified THEN BigMReply("Infeasible", "certificate")
     ELSE Call(3, basis, ~Negative(basis), core.artificials) /\ Climb("bigm2")

\* The end of a Phase II: a ray and an optimum are proved, an artificial that
\* carries something is not an optimum.
PrimalEnded ==
  /\ Between({"le2", "bigm2"}) /\ UNCHANGED twoPhaseVars
  /\ LET settle(status, by) == IF rung = "bigm2" THEN BigMReply(status, by) ELSE Reply(status, by)
     IN  \/ /\ outcome = "Optimal" /\ CarriesArtificial
            /\ IF Certified THEN settle("Infeasible", "certificate")
               ELSE settle(StopStatus(TRUE, stop'), rung)
         \/ outcome = "Optimal" /\ ~CarriesArtificial /\ settle(Guarded, rung)
         \/ /\ outcome = "Unbounded"
            /\ settle(IF RayVerified THEN "Unbounded" ELSE StopStatus(TRUE, stop'), rung)
         \/ outcome \in {"Timeout", "Stalled"} /\ settle(StopStatus(TRUE, stop'), rung)
         \/ outcome = "SingularBasis" /\ settle("NumericalError", rung)

-----------------------------------------------------------------------------
LadderStep ==
  \/ Entry \/ Legacy \/ WarmEnded \/ LeRaised \/ LePrimal
  \/ TwoPhaseEnded \/ BigM \/ BigMDeadEnd \/ BigMAgain \/ BigMStopped \/ BigMPhase2
  \/ PrimalEnded

\* Time may also pass between two steps.
Tick ==
  /\ rung # "over"
  /\ Clock /\ stop' # stop
  /\ UNCHANGED <<lp, cap, coreVars, twoPhaseVars, ladderVars>>

LadderNext ==
  \/ LadderStep
  \/ Tick
  \/ rung = "two_phase" /\ Next /\ UNCHANGED ladderVars
  \/ rung \in {"le2", "bigm2"} /\ Iterate /\ UNCHANGED <<lp, cap, twoPhaseVars, ladderVars>>
  \/ rung \in {"warm", "bigm1", "bigm1b"} /\ DualIterate
       /\ UNCHANGED <<lp, cap, twoPhaseVars, ladderVars>>

Spec == LadderInit /\ [][LadderNext]_<<vars, ladderVars>>

-----------------------------------------------------------------------------
(* Properties *)

TypeOK ==
  /\ lp \in Programs /\ cap \in Caps /\ stop \in {"none", "deadline", "caller"}
  /\ basis \in Bases(lp) /\ core.snapshot \in Bases(lp)
  /\ core.artificials \subseteq Artificial(lp) /\ core.blocked \subseteq Priced
  /\ lu.etas \in 0..MaxEtas /\ accidents \in 0..Accidents /\ retry \in 0..MaxRetries
  /\ options \in Options(lp)

(* Whatever the eta file lost, whatever column was masked, whichever rung the    *)
(* answer comes from and whenever the clock ran out, a claim is true of the      *)
(* program: Optimal is no worse than any vertex, Infeasible has none, Unbounded  *)
(* has an improving ray (that a vertex exists besides is only known to Phase I,  *)
(* which counts artificials alone).  An Infeasible that rests on a dual core's   *)
(* dead end alone is true when x_B was the basis' own and no pivot was made       *)
(* while a rejected column was left out: the code has no certificate for it, no    *)
(* x_B but the one it updated, and no ratio test over the columns it left out.   *)
VerdictsTrue ==
  /\ reply.status = "Optimal" => Best(lp, basis)
  /\ reply.status = "Infeasible" =>
       ~Feasible(lp) \/ (reply.by = "dual" /\ (~exact \/ core.perturbed \/ core.passed))
  /\ reply.status = "Unbounded" => HasRay(lp)

(* A Timeout is somebody's request: an iteration that stalled, met its          *)
(* allowance or lost its factors is never one (stop_status), and no rung hands   *)
(* a stall to the next that comes back as one.                                *)
StopHonest == reply.status = "Timeout" => stop # "none"

\* The promise of the warm start: a basis that is not dual feasible is not used.
WarmAsPromised == reply.by = "minted" => DualFeasible(options.warm)

(* A solve that nothing disturbed ends with a verdict: without an accident, a   *)
(* request to stop, a cycle or the allowance at its end, Phase I's answer is    *)
(* verified or certified, Phase II's is proved, a warm basis leads to the        *)
(* optimum and what the two phases cannot decide the Big-M method does.  Not     *)
(* so when the two-phase dual takes a warm basis that is not dual feasible.     *)
DecidesUndisturbed ==
  rung = "over" /\ accidents = 0 /\ stop = "none" /\ iters < cap /\ ~core.cycled /\ WarmAsPromised =>
    reply.status \in {"Optimal", "Infeasible", "Unbounded"}
=============================================================================
