---------------------------- MODULE RevisedSimplex ----------------------------
(***************************************************************************)
(* The primal simplex iteration (revised_simplex_core) and the basis manager  *)
(* it works through (LuBasis): factors with an eta file, kept when a          *)
(* refactorization fails, with flags that only a new manager clears.           *)
(*                                                                         *)
(* An action is one iteration.  Floats are modelled by what they lose: at most *)
(* Accidents times the eta file goes bad (lu.lost), after which reduced costs,  *)
(* directions and pivots are arbitrary until the next factorization, and x_B  *)
(* no longer is the basis' own (exact = FALSE) until it is recomputed.  A pivot *)
(* chosen in between may leave a singular basis, which only a factorization   *)
(* notices.  Pricing weights, pivot sizes and perturbations of the size of the *)
(* tolerances decide only between columns and rows that tie: any of them.     *)
(*                                                                         *)
(* An external stop may be requested at any moment, by the deadline, which a  *)
(* factorization looks at, or by the caller, which it does not.               *)
(***************************************************************************)
EXTENDS Bases

CONSTANTS
  Programs,     \* the programs to solve
  MaxEtas,      \* pivots between two factorizations
  Accidents,    \* how often the eta file goes bad
  Caps          \* the allowances of iterations (options.max_iters)

ASSUME SimplexAssumption == MaxEtas \in Nat \ {0} /\ Accidents \in Nat /\ Caps \subseteq Nat
ASSUME ProgramsAssumption == \A P \in Programs : IsProgram(P)

VARIABLES
  lp,           \* the program
  cap,          \* options.max_iters
  stop,         \* "none", or who asked for the end: "deadline" or "caller"
  basis, exact, \* the basis, and whether x_B is its own
  lu,           \* the basis manager
  core,         \* the local variables of the iteration
  iters,        \* iterations so far, over all calls
  accidents,
  outcome       \* what the iteration returned; "running" while it iterates

coreVars == <<basis, exact, lu, core, iters, accidents, outcome>>

Outcomes == {"Optimal", "Unbounded", "Timeout", "Stalled", "SingularBasis"}

\* Time passes during a step; the deadline may pass after the caller's cancel.
Clock ==
  stop' \in (CASE stop = "none" -> {"none", "deadline", "caller"}
               [] stop = "caller" -> {"caller", "deadline"}
               [] OTHER -> {stop})
Late == stop' = "deadline"

-----------------------------------------------------------------------------
(* LuBasis *)

Factors(B) == [of |-> B, etas |-> 0, lost |-> FALSE, failed |-> FALSE, singular |-> FALSE]

\* force_refactor_timed: a failure keeps the old factors and raises a flag.
Refactored(l, B) ==
  IF Late THEN [l EXCEPT !.failed = TRUE]
  ELSE IF Singular(lp, B) THEN [l EXCEPT !.failed = TRUE, !.singular = TRUE]
  ELSE Factors(B)

\* update, and what the new eta may cost.
Updated(l, B, bad) == [l EXCEPT !.of = B, !.etas = l.etas + 1, !.lost = l.lost \/ bad]

\* refactor_if_needed_timed
Maintained(l, B) == IF l.etas >= MaxEtas THEN Refactored(l, B) ELSE l

-----------------------------------------------------------------------------
(* The call *)

\* The artificials among the columns are those of the program or of the caller.
Frame(phase, B, artificials) ==
  [phase |-> phase, snapshot |-> B, artificials |-> artificials,
   blocked |-> {}, mask |-> {}, seen |-> {}, cycled |-> FALSE]

\* A core is called on a basis, with an x_B that is its own or not.
Enter(frame, B, own) ==
  /\ basis' = B /\ exact' = own
  /\ core' = frame
  /\ lu' = Factors(B)
  /\ outcome' = IF Late THEN "Timeout" ELSE IF Singular(lp, B) THEN "SingularBasis" ELSE "running"
  /\ UNCHANGED <<iters, accidents>>

\* revised_simplex_core
Call(phase, B, own, artificials) == Enter(Frame(phase, B, artificials), B, own)

Running == outcome = "running"
Phase1 == core.phase = 1
Priced == Original(lp) \cup core.artificials

-----------------------------------------------------------------------------
(* An iteration *)

Return(o) == outcome' = o

\* The clock, the cancel flag and the allowance are looked at first.
Halt ==
  /\ Running
  /\ iters' = iters + 1
  /\ \/ stop # "none" /\ Return("Timeout")
     \/ stop = "none" /\ iters' >= cap /\ Return("Stalled")
  /\ Clock
  /\ UNCHANGED <<basis, exact, lu, core, accidents>>

Proceed ==
  /\ Running /\ stop = "none" /\ iters + 1 < cap
  /\ iters' = iters + 1
  /\ Clock

\* Columns that led back to the snapshot, or closed a cycle, are masked.
Offered == (Priced \ BasisSet(basis)) \ (core.blocked \cup core.mask)
Entering == IF lu.lost THEN Offered ELSE {j \in Offered : Reduced(lp, core.phase, basis, j) < 0}

\* No column is left to enter: x_B is recomputed from fresh factors.
Conclude ==
  /\ Proceed
  /\ lu.lost \/ Entering = {}
  /\ lu' = Refactored(lu, basis)
  /\ exact' = IF lu'.failed THEN exact ELSE TRUE
  /\ Return(IF lu'.singular THEN "SingularBasis"
            ELSE IF lu'.failed THEN "Timeout"
            ELSE IF ~Phase1 /\ \E i \in Row : Basic(lp, basis)[i] < 0 THEN "Stalled"
            ELSE "Optimal")
  /\ core' = [core EXCEPT !.mask = {}]
  /\ UNCHANGED <<basis, accidents>>

\* The factors are not those of B: time is up, or B is singular; its column is
\* then blocked and the iteration goes back to the snapshot.
Revert(l, j, B, ok, c) ==
  LET more == core.blocked \cup {j}
      fatal == Cardinality(more) > Cardinality(Row) \/ Singular(lp, c.snapshot)
  IN  IF l.singular /\ ~fatal
      THEN /\ basis' = c.snapshot /\ exact' = TRUE /\ lu' = Factors(c.snapshot)
           /\ core' = [c EXCEPT !.blocked = more]
           /\ Return("running")
      ELSE /\ basis' = B /\ exact' = ok /\ lu' = l /\ core' = c
           /\ Return(IF l.singular THEN "SingularBasis" ELSE "Timeout")

\* What the direction of column j looks like is beyond belief: refactor at once.
Distrust(j) ==
  /\ Proceed
  /\ lu.lost /\ j \in Entering
  /\ Refactored(lu, basis).failed
  /\ Revert(Refactored(lu, basis), j, basis, exact, [core EXCEPT !.mask = {}])
  /\ UNCHANGED accidents

\* Either the factors at hand are used, or, distrusted, fresh ones; those also
\* move the snapshot.
Direction(j) ==
  {[lu |-> lu, snapshot |-> core.snapshot]}
    \cup (IF lu.lost /\ ~Refactored(lu, basis).failed
          THEN {[lu |-> Refactored(lu, basis), snapshot |-> basis]} ELSE {})

\* The rows that block column j, and of those the ones that block it first.
Blocking(j) == {i \in Row : Taken(lp, basis, j)[i] > 0}
First(j) ==
  LET x == Basic(lp, basis)  d == Taken(lp, basis, j)
  IN  {i \in Blocking(j) : \A k \in Blocking(j) : x[i] * d[k] <= x[k] * d[i]}
\* Phase I lets an artificial leave when it ties.
Preferred(rows) ==
  LET artificial == {i \in rows : Phase1 /\ basis[i] > lp.n}
  IN  IF artificial = {} THEN rows ELSE artificial
Leaving(j, l) == IF l.lost THEN Row ELSE IF exact THEN Preferred(First(j)) ELSE Blocking(j)

Unblocked(j) ==
  /\ Proceed
  /\ j \in Entering
  /\ \E at \in Direction(j) :
       /\ at.lu.lost \/ Blocking(j) = {}
       /\ lu' = at.lu
       /\ core' = [core EXCEPT !.mask = {}, !.snapshot = at.snapshot]
  /\ Return("Unbounded")
  /\ UNCHANGED <<basis, exact, accidents>>

\* update finds the pivot too small: nothing has changed yet.
RejectEta(j) ==
  /\ Proceed
  /\ j \in Entering /\ lu.lost
  /\ Return("SingularBasis")
  /\ core' = [core EXCEPT !.mask = {}]
  /\ UNCHANGED <<basis, exact, lu, accidents>>

\* A basis that was seen before masks the column that led to it, for half as
\* many iterations as there are rows: one.
Noted(c, B, j) ==
  IF B \in c.seen THEN [c EXCEPT !.seen = {}, !.mask = {j}, !.cycled = TRUE]
  ELSE [c EXCEPT !.seen = c.seen \cup {B}, !.mask = {}]

Degenerate(i) == ~exact \/ lu.lost \/ Basic(lp, basis)[i] = 0

\* Mutant: only a singular basis is noticed, not a factorization out of time.
SettleUnlessSingular(l, j, i, B, ok, c) ==
  IF l.singular THEN Revert(l, j, B, ok, c)
  ELSE /\ basis' = B /\ exact' = ok /\ lu' = l
       /\ core' = IF l.etas = 0 THEN [c EXCEPT !.snapshot = B, !.blocked = {}] ELSE c
       /\ \/ Return("running")
          \/ Phase1 /\ c.cycled /\ Degenerate(i) /\ Return("Stalled")

\* The rest of a pivot: l are the factors after their maintenance at basis B.
Settle(l, j, i, B, ok, c) ==
  IF l.failed THEN Revert(l, j, B, ok, c)
  ELSE /\ basis' = B /\ exact' = ok /\ lu' = l
       /\ core' = IF l.etas = 0 THEN [c EXCEPT !.snapshot = B, !.blocked = {}] ELSE c
       /\ \/ Return("running")
          \/ Phase1 /\ c.cycled /\ Degenerate(i) /\ Return("Stalled")

\* A stable pivot appends an eta; an unstable one leaves the file alone and
\* factorizes the new basis at once.
Pivot(j, i) ==
  /\ Proceed
  /\ j \in Entering
  /\ \E at \in Direction(j), bad \in BOOLEAN, stable \in BOOLEAN :
       LET B == [basis EXCEPT ![i] = j]
           own == exact /\ ~at.lu.lost
           c == Noted([core EXCEPT !.snapshot = at.snapshot], B, j)
       IN  /\ i \in Leaving(j, at.lu)
           /\ bad => stable /\ ~at.lu.lost /\ accidents < Accidents
           /\ stable \/ at.lu.etas > 0
           /\ accidents' = IF bad THEN accidents + 1 ELSE accidents
           /\ Settle(IF stable THEN Maintained(Updated(at.lu, B, bad), B)
                     ELSE Refactored(at.lu, B), j, i, B, own, c)

Iterate ==
  \/ Halt
  \/ Conclude
  \/ \E j \in Priced : Distrust(j) \/ Unblocked(j) \/ RejectEta(j) \/ \E i \in Row : Pivot(j, i)

-----------------------------------------------------------------------------
(* Properties *)

(* Whenever an iteration begins, the factors and the eta file are those of the  *)
(* current basis and no flag of a failed refactorization is left, since         *)
(* force_refactor_timed keeps the old factors when it fails and nothing but a   *)
(* new manager lowers the flags (basis/mod.rs); and the basis to revert to has  *)
(* factors, so that going back never ends where it started, in a singular basis *)
(* (revert_to_snapshot).                                                     *)
FactorsFollowBasis ==
  Running => /\ lu.of = basis /\ ~lu.failed
             /\ ~Singular(lp, core.snapshot) /\ Cardinality(core.blocked) <= Cardinality(Row)
=============================================================================
