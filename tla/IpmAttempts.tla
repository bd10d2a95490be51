---------------------------- MODULE IpmAttempts ----------------------------
(***************************************************************************)
(* One solve of the interior-point QP solver                                *)
(* (otspot-core/src/qp/ipm_solver/attempt.rs, solve_ipm_with_runner): the    *)
(* ladder of attempts, each at another inner accuracy and with or without    *)
(* Ruiz scaling, the extension of one that was cut short, the attempts on   *)
(* the program without presolve, and the status they end in.                *)
(*                                                                         *)
(* The inner solver and its post-processing (core.rs, run_ipm_with) end an   *)
(* attempt at one of a few iterates, known by their certificate score and   *)
(* their objective, at a verdict, or at nothing.  What only reaches the     *)
(* inner solver (the accuracy, the warm start) is not told apart, and       *)
(* LocallyOptimal stands with Optimal.                                      *)
(***************************************************************************)
EXTENDS Integers, Sequences, FiniteSetsExt

CONSTANTS
  Iterates,      \* the points an attempt may end at
  NoIterate,
  Score,         \* outcome_certificate_score; 0 is what prove_optimal accepts
  Objective,
  Satisfying,    \* those of satisfies_eps, which asks less than prove_optimal
  Worst,         \* infinity, as a score and as an objective
  AttemptCap,    \* MAX_ITER_PER_ATTEMPT
  SameToStop,    \* CONSECUTIVE_IDENTICAL_ATTEMPTS_TO_BREAK
  Iterations,    \* of an attempt that ends by itself
  Verdicts,      \* of "Infeasible", "Unbounded", "NonConvex"
  IpmCalls       \* [timed, cancellable, maxIter, base, scaled, ruiz, small]: base_tighten is
                 \* 10^base, scaled what presolve did, ruiz what the caller allows

ASSUME AttemptAssumption ==
  /\ NoIterate \notin Iterates
  /\ Score \in [Iterates -> Nat] /\ Objective \in [Iterates -> Int]
  /\ \A p \in Iterates : Score[p] < Worst /\ Objective[p] < Worst
  /\ {p \in Iterates : Score[p] = 0} \subseteq Satisfying /\ Satisfying \subseteq Iterates
  /\ AttemptCap \in Nat \ {0} /\ SameToStop \in Nat \ {0} /\ Iterations \subseteq Nat
  /\ Worst \in Nat \ {0} /\ Verdicts \subseteq {"Infeasible", "Unbounded", "NonConvex"}
  /\ \A call \in IpmCalls : /\ call.maxIter \in Nat /\ call.base \in Nat
                             /\ {call.timed, call.cancellable, call.scaled, call.ruiz,
                                 call.small} \subseteq BOOLEAN

VARIABLES
  ipmCall,
  stage,      \* "presolve", "ladder", "extend", "fallback", "finalize", "answered"
  rung,       \* the entries of the ladder done with
  best,       \* the best outcome, {} at first
  progress,   \* the score of the best attempt cut by its cap, {} without one
  used,       \* iter_used
  prev,       \* prev_by_ruiz: the last fingerprint of each lane
  runLen,     \* run_len_by_ruiz
  dead,       \* lane_dead
  fallbacks,  \* the attempts made without presolve
  late,       \* the deadline has passed
  cancelled,
  reply,      \* the SolverResult: status and point
  log         \* what happened, for the properties

laneVars == <<prev, runLen, dead>>
ipmVars == <<ipmCall, stage, rung, best, progress, used, laneVars, fallbacks, late,
             cancelled, reply, log>>

-----------------------------------------------------------------------------
(* Outcomes *)

Outcome(point, verdict, verified, term) ==
  [point |-> point, verdict |-> verdict, verified |-> verified, failed |-> FALSE, term |-> term]

Iterate(p, term) == Outcome(p, "none", FALSE, term)
Failure(term) == [Outcome(NoIterate, "none", FALSE, term) EXCEPT !.failed = TRUE]
Empty == Outcome(NoIterate, "none", FALSE, "Deadline")

\* A claim about the structure of the program, verified by a ray or a Farkas
\* vector or not; NonConvex rests on neither and counts as verified.
Verdict(v, verified) == Outcome(NoIterate, v, verified \/ v = "NonConvex", "Deadline")

Ending(term) == {Iterate(p, term) : p \in Iterates} \cup {Failure(term)}

\* What run_ipm_with may end at, and after how many iterations; `stop` says whether the
\* deadline or the cancel flag was seen.
Ends(granted, stop) ==
  (({Verdict(v, c) : v \in Verdicts, c \in BOOLEAN}
      \cup {Iterate(p, "Converged") : p \in Iterates} \cup Ending("Stalled"))
     \X {i \in Iterations : i <= granted})
    \cup (Ending("IterationLimit") \X {granted})
    \cup (IF stop THEN Ending("Deadline") \X {0} ELSE {})

ScoreOf(o) == IF o.point = NoIterate THEN Worst ELSE Score[o.point]
ObjectiveOf(o) == IF o.point = NoIterate THEN Worst ELSE Objective[o.point]

\* satisfies_eps and prove_optimal.
ProvesOptimal(o) == ScoreOf(o) = 0

\* infeasibility_is_final
Final(o) == o.verdict # "none" /\ o.verified

\* Mutant: an iterate that is optimal within the tolerance replaces a verified verdict.
MintAlwaysReplaces(b) == TRUE

\* finite_mint_may_replace
MintMayReplace(b) == \A o \in b : ~Final(o)

\* Mutant: a verdict outranks an iterate, verified or not.
BetterVerdictFirst(o, inc) ==
  IF o.verdict # "none" \/ inc.verdict # "none"
  THEN o.verdict # "none" /\ inc.verdict = "none"
  ELSE ScoreOf(o) < ScoreOf(inc)

\* outcome_is_better_candidate
Better(o, inc) ==
  IF o.verdict # "none" \/ inc.verdict # "none"
  THEN /\ ~Final(inc)
       /\ o.verdict = "none" \/ Final(o)
  ELSE \/ ScoreOf(o) < ScoreOf(inc)
       \/ ScoreOf(o) = ScoreOf(inc) /\ ObjectiveOf(o) < ObjectiveOf(inc)

Candidate(o) == IF \A inc \in best : Better(o, inc) THEN {o} ELSE best

\* Mutant: an attempt is charged all it was granted.
ChargedInFull(i, granted) == granted

\* charged_iterations
Charged(i, granted) == Min({i, granted})

-----------------------------------------------------------------------------
(* The ladder of attempts *)

NoRuizOnly(call) == call.scaled \/ ~call.ruiz

\* The exponents of the tightening, in the order they are tried.
Depths(call) ==
  <<call.base, call.base + 1>>
    \o (IF NoRuizOnly(call) THEN <<>> ELSE <<call.base + 2>>)
    \o (IF call.base > 1 THEN <<call.base - 1>> ELSE <<>>)
    \o (IF call.base > 0 THEN <<0>> ELSE <<>>)

Ladder(call) ==
  LET depth == Depths(call) IN
  IF NoRuizOnly(call)
  THEN [k \in DOMAIN depth |-> [ruiz |-> FALSE, exp |-> depth[k]]]
  ELSE [k \in 1 .. 2 * Len(depth) |->
          [ruiz |-> k % 2 = 1, exp |-> depth[(k + 1) \div 2]]]

\* An entry whose lane is dead is passed over.
Pending == {k \in DOMAIN Ladder(ipmCall) : k > rung /\ ~dead[Ladder(ipmCall)[k].ruiz]}

NoMark == [exp |-> -1, iters |-> -1, point |-> NoIterate]

IpmInit ==
  /\ ipmCall \in IpmCalls
  /\ stage = "presolve" /\ rung = 0
  /\ best = {} /\ progress = {} /\ used = 0
  /\ prev = [l \in BOOLEAN |-> NoMark]
  /\ runLen = [l \in BOOLEAN |-> 0]
  /\ dead = [l \in BOOLEAN |-> FALSE]
  /\ fallbacks = 0 /\ late = FALSE /\ cancelled = FALSE
  /\ reply = [status |-> "none", point |-> NoIterate]
  /\ log = [made |-> {}, spent |-> 0, evidence |-> {}, least |-> {}, capped |-> FALSE,
            extended |-> FALSE, alike |-> [l \in BOOLEAN |-> <<NoMark, 0>>]]

\* While a step runs the deadline may pass and the caller may cancel.
Meanwhile ==
  /\ late' \in {late, late \/ ipmCall.timed}
  /\ cancelled' \in {cancelled, cancelled \/ ipmCall.cancellable}

Reply(status, point) ==
  /\ stage' = "answered"
  /\ reply' = [status |-> status, point |-> point]

\* Presolve decides by itself, or meets the deadline, or leaves a program to solve.
PresolveQp ==
  /\ stage = "presolve"
  /\ Meanwhile
  /\ \/ \E v \in {"Infeasible", "Unbounded"} : Reply(v, NoIterate)
     \/ IF late' THEN Reply("Timeout", NoIterate)
        ELSE stage' = "ladder" /\ UNCHANGED reply
  /\ UNCHANGED <<ipmCall, rung, best, progress, used, laneVars, fallbacks, log>>

Left == ipmCall.maxIter - used
MayAttempt == ~late /\ Left > 0

\* What the properties remember of an attempt on the presolved program or on the original.
Noted(where, o, i) ==
  [log EXCEPT
     !.spent = @ + i,
     !.evidence = IF @ = {} /\ (ProvesOptimal(o) \/ Final(o))
                  THEN {[where |-> where, of |-> o]} ELSE @,
     !.least = IF where = "presolved" /\ o.verdict = "none"
               THEN {Min(@ \cup {ScoreOf(o)})} ELSE @,
     !.capped = @ \/ (where = "presolved" /\ o.term = "IterationLimit")]

\* The attempts of a lane that ended alike, in a row.
NextAlike(last, o, i) ==
  IF o.term = "Converged" THEN <<NoMark, 0>>
  ELSE IF last[1].iters = i /\ last[1].point = o.point THEN <<last[1], last[2] + 1>>
  ELSE <<[exp |-> 0, iters |-> i, point |-> o.point], 1>>

NotedOnLadder(k, o, i) ==
  [Noted("presolved", o, i) EXCEPT
     !.made = @ \cup {k},
     !.alike[Ladder(ipmCall)[k].ruiz] = NextAlike(@, o, i)]

\* The fingerprint: objective and duals go with the point.
Fingerprint(cfg, o, i) == [exp |-> cfg.exp, iters |-> i, point |-> o.point]

\* Attempts of a lane that differ in the accuracy alone and end alike, bit by bit.
SameAsBefore(cfg, o, i) ==
  LET last == prev[cfg.ruiz] IN
  /\ o.term # "Converged" /\ last # NoMark
  /\ last.exp # cfg.exp /\ last.iters = i /\ last.point = o.point

Lanes(cfg, o, i) ==
  /\ prev' = [prev EXCEPT ![cfg.ruiz] = Fingerprint(cfg, o, i)]
  /\ runLen' = [runLen EXCEPT ![cfg.ruiz] =
                  IF o.term = "Converged" THEN 0
                  ELSE IF SameAsBefore(cfg, o, i) THEN @ + 1 ELSE 1]
  /\ dead' = [dead EXCEPT ![cfg.ruiz] = @ \/ runLen'[cfg.ruiz] >= SameToStop]

Attempt ==
  LET k == Min(Pending)
      cfg == Ladder(ipmCall)[k]
      granted == Min({AttemptCap, Left})
  IN /\ stage = "ladder" /\ Pending # {} /\ MayAttempt
     /\ Meanwhile
     /\ \E e \in Ends(granted, late' \/ cancelled') :
          LET o == e[1]  i == e[2] IN
          /\ rung' = k
          /\ used' = used + Charged(i, granted)
          /\ progress' = IF o.term = "IterationLimit" /\ \A s \in progress : ScoreOf(o) < s
                         THEN {ScoreOf(o)} ELSE progress
          /\ IF ProvesOptimal(o) /\ MintMayReplace(best)
             THEN best' = {o} /\ stage' = "extend" /\ UNCHANGED laneVars
             ELSE /\ best' = Candidate(o)
                  /\ Lanes(cfg, o, i)
                  /\ stage' = IF \A l \in BOOLEAN : dead'[l] THEN "extend" ELSE "ladder"
          /\ log' = NotedOnLadder(k, o, i)
     /\ UNCHANGED <<ipmCall, fallbacks, reply>>

LadderOver ==
  /\ stage = "ladder"
  /\ Pending = {} \/ ~MayAttempt
  /\ stage' = "extend"
  /\ UNCHANGED <<ipmCall, rung, best, progress, used, laneVars, fallbacks, late, cancelled,
                 reply, log>>

-----------------------------------------------------------------------------
(* The extension and the fallback *)

BestProven == \E o \in best : ProvesOptimal(o)

\* Without a deadline nothing is extended.
MayExtend == ~BestProven /\ progress # {} /\ ipmCall.timed /\ MayAttempt

\* extend_iteration_limit_attempt: once, with all the iterations left.
Extend ==
  /\ stage = "extend" /\ MayExtend
  /\ Meanwhile
  /\ \E e \in Ends(Left, late' \/ cancelled') :
       LET o == e[1]  i == e[2] IN
       /\ used' = used + Charged(i, Left)
       /\ best' = IF ProvesOptimal(o) /\ MintMayReplace(best) THEN {o} ELSE Candidate(o)
       /\ log' = [Noted("presolved", o, i) EXCEPT !.extended = TRUE]
  /\ stage' = "fallback"
  /\ UNCHANGED <<ipmCall, rung, progress, laneVars, fallbacks, reply>>

NothingToExtend ==
  /\ stage = "extend" /\ ~MayExtend
  /\ stage' = "fallback"
  /\ UNCHANGED <<ipmCall, rung, best, progress, used, laneVars, fallbacks, late, cancelled,
                 reply, log>>

\* fallback_can_replace_unproven
FallbackReplaces(o, inc) ==
  /\ ~Final(inc)
  /\ Better(o, inc) /\ ObjectiveOf(o) <= ObjectiveOf(inc)

MayFallBack ==
  /\ fallbacks > 0 \/ (~BestProven /\ ipmCall.scaled /\ ipmCall.small)
  /\ fallbacks < 2 /\ MayAttempt

\* run_no_presolve_fallback: without scaling, then with it.
FallBack ==
  LET granted == Min({AttemptCap, Left}) IN
  /\ stage = "fallback" /\ MayFallBack
  /\ Meanwhile
  /\ \E e \in Ends(granted, late' \/ cancelled') :
       LET o == e[1]  i == e[2] IN
       /\ used' = used + Charged(i, granted)
       /\ IF ProvesOptimal(o) /\ MintMayReplace(best)
          THEN best' = {o} /\ stage' = "finalize"
          ELSE /\ best' = {IF FallbackReplaces(o, inc) THEN o ELSE inc : inc \in best}
               /\ UNCHANGED stage
       /\ log' = Noted("original", o, i)
  /\ fallbacks' = fallbacks + 1
  /\ UNCHANGED <<ipmCall, rung, progress, laneVars, reply>>

NoFallBack ==
  /\ stage = "fallback" /\ ~MayFallBack
  /\ stage' = "finalize"
  /\ UNCHANGED <<ipmCall, rung, best, progress, used, laneVars, fallbacks, late, cancelled,
                 reply, log>>

-----------------------------------------------------------------------------
(* finalize_outcome *)

IpmStopped == late \/ cancelled

StatusOf(o) ==
  CASE o.verdict # "none" /\ IpmStopped -> "Timeout"
    [] Final(o) /\ ~IpmStopped -> o.verdict
    [] o.failed -> "NumericalError"
    [] ~o.failed /\ o.point = NoIterate /\ ~Final(o) ->
         IF IpmStopped THEN "Timeout" ELSE "NumericalError"
    [] o.point \in Satisfying -> IF Score[o.point] = 0 THEN "Optimal" ELSE "SuboptimalSolution"
    [] o.point \in Iterates \ Satisfying ->
         IF IpmStopped \/ o.term = "Deadline" THEN "Timeout"
         ELSE IF o.term = "IterationLimit" THEN "MaxIterations" ELSE "Stalled"

Finalize ==
  /\ stage = "finalize"
  /\ LET o == IF best = {} THEN Empty ELSE CHOOSE b \in best : TRUE
     IN Reply(StatusOf(o), o.point)
  /\ UNCHANGED <<ipmCall, rung, best, progress, used, laneVars, fallbacks, late, cancelled,
                 log>>

IpmNext ==
  \/ PresolveQp \/ Attempt \/ LadderOver \/ Extend \/ NothingToExtend
  \/ FallBack \/ NoFallBack \/ Finalize
  \/ stage = "answered" /\ UNCHANGED ipmVars

IpmSpec == IpmInit /\ [][IpmNext]_ipmVars

-----------------------------------------------------------------------------
(* Properties *)

Answered == stage = "answered"

\* The first proof decides: once an attempt has ended at a point that prove_optimal
\* accepts, or at a verified verdict on the presolved program, no later attempt, at
\* whatever accuracy, takes its place, and neither does a stop, unless it is a
\* verdict that was still to be published (finite_mint_may_replace, finalize_outcome).
FirstEvidenceDecides ==
  Answered => \A e \in log.evidence :
    /\ ProvesOptimal(e.of) => reply.status = "Optimal" /\ Score[reply.point] = 0
    /\ e.where = "presolved" /\ Final(e.of) =>
         reply.status = IF IpmStopped THEN "Timeout" ELSE e.of.verdict

\* A verified verdict outranks an iterate that nothing proves (outcome_is_better_candidate
\* and its test in attempt.rs): where one was found first, the answer is no such iterate.
VerifiedVerdictWins ==
  Answered /\ ~IpmStopped /\ (\E e \in log.evidence : Final(e.of)) =>
    reply.status \notin {"Stalled", "MaxIterations", "SuboptimalSolution"}

\* The solve gives up for a cause: before the deadline it answers with less than a proof
\* only if its iterations are really spent, or every entry of the ladder was tried or
\* follows three equal attempts of its own lane, an attempt its cap had cut was
\* continued, and so were both attempts without presolve, where they apply.
GivesUpForCause ==
  LET spent == log.spent >= ipmCall.maxIter
      ladder == Ladder(ipmCall)
  IN Answered /\ ~late
       /\ reply.status \in {"Stalled", "MaxIterations", "SuboptimalSolution", "NumericalError"} =>
       \/ spent
       \/ /\ \A k \in DOMAIN ladder \ log.made : log.alike[ladder[k].ruiz][2] >= SameToStop
          /\ log.capped /\ ipmCall.timed => log.extended
          /\ ipmCall.scaled /\ ipmCall.small => fallbacks = 2

\* No iterate is lost: the best outcome is at least as good as every iterate the presolved
\* program led to, unless it is a verified verdict; an unverified one never hides them,
\* and an attempt without presolve only replaces what it improves on.
KeepsBest ==
  log.least # {} =>
    \E o \in best : Final(o) \/ (o.verdict = "none" /\ \A s \in log.least : ScoreOf(o) <= s)
=============================================================================
