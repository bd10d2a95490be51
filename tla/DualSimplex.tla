----------------------------- MODULE DualSimplex -----------------------------
(***************************************************************************)
(* The dual simplex iteration (dual_simplex_core_advanced) over the same basis *)
(* manager as the primal one: from a warm basis, with the program's own costs,  *)
(* or as Phase I of the Big-M method, from artificials, with costs raised until *)
(* the start is dual feasible, where positive artificials leave after negative  *)
(* variables and never come back.                                            *)
(*                                                                         *)
(* x_B is updated with every pivot and recomputed only at the end.  Against   *)
(* cycles the iteration turns to Bland's rules, for good, when a basis repeats  *)
(* or when nothing improved for long; the latter also perturbs x_B, after which *)
(* a variable at zero may look positive or negative.                          *)
(* Sources: otspot-core/src/simplex/dual_advanced/core.rs, ratio_test.rs,      *)
(* phase1.rs, pricing.rs, dual_common.rs.                                     *)
(***************************************************************************)
EXTENDS RevisedSimplex

\* Phase 4 is Phase I of the Big-M method.  "passed" is a history variable: whether a
\* pivot was made while a rejected column was not offered.
DualFrame(phase, B, yields) ==
  [phase |-> phase, snapshot |-> B, artificials |-> BasisSet(B) \ Original(lp),
   yields |-> yields, blocked |-> {}, row |-> 0, bland |-> FALSE,
   perturbed |-> FALSE, refreshed |-> FALSE, cycled |-> FALSE, passed |-> FALSE]

DualCall(phase, B, own, yields) == Enter(DualFrame(phase, B, yields), B, own)

\* The costs of phase 4, times the size of the start: no column of the program
\* is cheaper than the start makes it.
Raised(j) ==
  LET start == core.snapshot
      saved == Dot(Btran(lp, start, BasicCost(lp, 3, start)), Column(lp, j))
      own == Cost(lp, 3, j) * Size(lp, start)
  IN  IF j <= lp.n /\ saved > own THEN saved ELSE own
DualReduced(j) ==
  IF core.phase = 4
  THEN ReducedFor(lp, Raised(j), <<Raised(basis[1]), Raised(basis[2])>>, basis, j)
  ELSE Reduced(lp, core.phase, basis, j)

-----------------------------------------------------------------------------
(* Who leaves, and who enters *)

Signs == {-1, 0, 1}
SignOf(i) == LET x == Basic(lp, basis)[i] IN IF x < 0 THEN -1 ELSE IF x > 0 THEN 1 ELSE 0

\* The signs that x_B may show.
Shown ==
  {s \in [Row -> Signs] :
     \A i \in Row : exact => s[i] = SignOf(i) \/ (core.perturbed /\ SignOf(i) = 0)}

\* Negative variables, or else the artificials that are left.
Infeasible(s) ==
  LET negative == {i \in Row : s[i] < 0}
  IN  IF negative # {} THEN negative ELSE {i \in Row : basis[i] > lp.n /\ s[i] > 0}

\* The columns rejected on this row of this basis are not offered again.
BlockedFor(i) == IF core.row = i THEN core.blocked ELSE {}
Eligible(i) == Original(lp) \ (BasisSet(basis) \cup BlockedFor(i))

\* Those that move the variable of row i the right way; Bland's rule takes none
\* that is not dual feasible.
Candidates(i, way) ==
  {j \in Eligible(i) : way * Taken(lp, basis, j)[i] > 0 /\ (core.bland => DualReduced(j) >= 0)}

\* A negative variable of the program is raised; an artificial goes down, unless
\* it is negative and nothing takes it down.
Way(i, sign) ==
  IF sign < 0 /\ (basis[i] <= lp.n \/ Candidates(i, 1) = {}) THEN -1 ELSE 1

\* The ratio test; with the factors lost, anything may win it, or nothing.
Cheapest(i, way) ==
  {j \in Candidates(i, way) :
     \A k \in Candidates(i, way) :
       DualReduced(j) * way * Taken(lp, basis, k)[i] <= DualReduced(k) * way * Taken(lp, basis, j)[i]}
Winners(i, sign) == IF lu.lost THEN Eligible(i) ELSE Cheapest(i, Way(i, sign))
NoWinner(i, sign) == lu.lost \/ Candidates(i, Way(i, sign)) = {}

-----------------------------------------------------------------------------
(* An iteration *)

\* The deadline passes between two of its parts, before anything is changed.
Expired ==
  /\ Proceed /\ Late
  /\ Return("Timeout")
  /\ UNCHANGED <<basis, exact, lu, core, accidents>>

\* mint_optimal_after_fresh_reverify: nobody has to leave, and x_B is recomputed.
DualConclude ==
  /\ Proceed
  /\ \E s \in Shown : Infeasible(s) = {}
  /\ lu' = Refactored(lu, basis)
  /\ exact' = (exact \/ ~lu'.failed)
  /\ Return(IF lu'.singular THEN "SingularBasis"
            ELSE IF lu'.failed THEN "Timeout"
            ELSE IF \E i \in Row : SignOf(i) < 0 THEN "Stalled" ELSE "Optimal")
  /\ core' = IF lu'.failed THEN core ELSE [core EXCEPT !.perturbed = FALSE]
  /\ UNCHANGED <<basis, accidents>>

\* Nobody enters: believed when the factors and the reduced costs are fresh, and
\* nobody was rejected.  The next look at the same basis is by Bland's rules.
DeadEnd(i, sign) ==
  /\ Proceed
  /\ NoWinner(i, sign)
  /\ \/ /\ BlockedFor(i) # {}
        /\ Return("Stalled") /\ UNCHANGED <<lu, core>>
     \/ /\ BlockedFor(i) = {} /\ core.refreshed
        /\ Return("Unbounded") /\ UNCHANGED <<lu, core>>
     \/ /\ BlockedFor(i) = {} /\ ~core.refreshed
        /\ lu' = Refactored(lu, basis)
        /\ Return(IF lu'.singular THEN "SingularBasis" ELSE IF lu'.failed THEN "Timeout" ELSE "running")
        /\ core' = [core EXCEPT !.refreshed = TRUE, !.bland = TRUE, !.row = 0, !.blocked = {}]
  /\ UNCHANGED <<basis, exact, accidents>>

\* The pivot is too small: column j is not tried again here.
Reject(i, j) ==
  /\ Proceed
  /\ lu.lost
  /\ lu' = Refactored(lu, basis)
  /\ Return(IF lu'.failed THEN "Timeout" ELSE "running")
  /\ core' = [core EXCEPT !.row = i, !.blocked = BlockedFor(i) \cup {j}, !.bland = TRUE]
  /\ UNCHANGED <<basis, exact, accidents>>

\* update refuses the pivot: nothing has changed yet.
DualRejectEta ==
  /\ Proceed
  /\ lu.lost
  /\ Return("SingularBasis")
  /\ UNCHANGED <<basis, exact, lu, core, accidents>>

\* What the progress of the last iterations leads to.
Patience(c) ==
  {[core |-> c, outcome |-> "running"],
   [core |-> [c EXCEPT !.bland = TRUE, !.cycled = TRUE], outcome |-> "running"]}
    \cup (IF c.bland
          THEN {[core |-> [c EXCEPT !.cycled = TRUE], outcome |-> "Stalled"] : y \in {c.yields} \ {FALSE}}
          ELSE {[core |-> [c EXCEPT !.bland = TRUE, !.cycled = TRUE, !.perturbed = TRUE],
                 outcome |-> "running"]})

\* Another basis: what was rejected may be tried again.
Passing(i) == core.passed \/ BlockedFor(i) # {}
Moved(i) ==
  [core EXCEPT !.row = 0, !.blocked = {}, !.refreshed = FALSE, !.passed = Passing(i)]

DualPivot(i, j) ==
  /\ Proceed
  /\ \E bad \in BOOLEAN :
       LET B == [basis EXCEPT ![i] = j]
       IN  /\ bad => ~lu.lost /\ accidents < Accidents
           /\ accidents' = IF bad THEN accidents + 1 ELSE accidents
           /\ basis' = B /\ exact' = (exact /\ ~lu.lost)
           /\ lu' = Maintained(Updated(lu, B, bad), B)
           /\ IF lu'.failed
              THEN /\ core' = Moved(i)
                   /\ Return(IF lu'.singular THEN "SingularBasis" ELSE "Timeout")
              ELSE \E after \in Patience(Moved(i)) : core' = after.core /\ Return(after.outcome)

DualIterate ==
  \/ Halt
  \/ Expired
  \/ DualConclude
  \/ \E s \in Shown : \E i \in Infeasible(s) :
       \/ DeadEnd(i, s[i])
       \/ \E j \in Winners(i, s[i]) : Reject(i, j) \/ DualRejectEta \/ DualPivot(i, j)
=============================================================================
