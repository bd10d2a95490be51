---------------------------- MODULE LadderProofs ----------------------------
(***************************************************************************)
(* The ladder of simplex methods, for any programs of two rows, any methods     *)
(* and warm bases, any allowances, and with accidents and requests to stop at    *)
(* any moment: a Timeout was asked for, an iteration works on the factors of its  *)
(* basis, and what is claimed of the program is true.                         *)
(*                                                                         *)
(* The claims rest on the algebra of two columns (Cramer, Farkas, weak duality,  *)
(* the reduced costs after a pivot), on what an iteration that ends as Optimal  *)
(* looked at, and on the dual iteration's prices.                            *)
(***************************************************************************)
EXTENDS LpLadder, FiniteSetTheorems, TLAPS

-----------------------------------------------------------------------------
(* A Timeout was asked for *)

\* Who may have asked for the end; a status that says Timeout says that someone has.
StopInv ==
  /\ stop \in {"none", "deadline", "caller"}
  /\ answer = "Timeout" => stop # "none"
  /\ reply.status = "Timeout" => stop # "none"

\* A request is never taken back, and a step that is late is one somebody stopped.
LEMMA ClockIs ==
  ASSUME Clock, stop \in {"none", "deadline", "caller"}
  PROVE  /\ stop' \in {"none", "deadline", "caller"}
         /\ stop # "none" => stop' # "none"
         /\ stop = "deadline" => stop' = "deadline"
         /\ Late => stop' # "none"
<1>1. CASE stop = "none"
  BY <1>1, Zenon DEF Clock, Late
<1>2. CASE stop = "caller"
  BY <1>2, Zenon DEF Clock, Late
<1>3. CASE stop = "deadline"
  BY <1>3, Zenon DEF Clock, Late
<1> QED
  BY <1>1, <1>2, <1>3

\* stop_status says Timeout only when somebody asked for the end.
LEMMA StopStatusIs ==
  ASSUME NEW incumbent, NEW asked, StopStatus(incumbent, asked) = "Timeout"
  PROVE  asked # "none"
  BY DEF StopStatus

\* Every iteration looks at the clock.
LEMMA IterateClock ==
  ASSUME Iterate \/ DualIterate
  PROVE  Clock
  BY DEF Iterate, DualIterate, Halt, Conclude, Distrust, Unblocked, RejectEta, Pivot, Expired,
         DualConclude, DeadEnd, Reject, DualRejectEta, DualPivot, Proceed

\* So does every step of the two phases, and what it answers was asked for.
LEMMA TwoPhaseStop ==
  ASSUME StopInv, Step
  PROVE  Clock /\ (answer' = "Timeout" => stop' # "none")
<1>1. Clock
  BY DEF Step, Begin, StoppedShort, RetryStopped, Phase1Ended, Verify, Farkas, Transition,
         Phase2Stopped, Phase2Optimal
<1>2. /\ stop # "none" => stop' # "none"
      /\ Late => stop' # "none"
  BY <1>1, ClockIs DEF StopInv
<1>3. answer = "Timeout" => stop' # "none"
  BY <1>2 DEF StopInv
<1>4. CASE Begin \/ Transition \/ Verify \/ Phase1Ended
  BY <1>2, <1>3, <1>4 DEF Begin, Transition, Verify, Phase1Ended, Answer, Goto
<1>5. CASE StoppedShort
  BY <1>2, <1>3, <1>5, StopStatusIs DEF StoppedShort, Answer, Goto
<1>6. CASE RetryStopped
  BY <1>2, <1>3, <1>6, StopStatusIs DEF RetryStopped, Answer, Goto
<1>7. CASE Farkas
  BY <1>2, <1>7, StopStatusIs DEF Farkas, Answer
<1>8. CASE Phase2Stopped
  BY <1>2, <1>8, StopStatusIs DEF Phase2Stopped, Answer
<1>9. CASE Phase2Optimal
  BY <1>2, <1>9 DEF Phase2Optimal, Answer, Guarded, Reconciled
<1> QED
  BY <1>1, <1>4, <1>5, <1>6, <1>7, <1>8, <1>9 DEF Step

\* A step between two rungs.
LEMMA LadderStop ==
  ASSUME StopInv, LadderStep
  PROVE  /\ Clock \/ stop' = stop
         /\ answer' = "Timeout" => stop' # "none"
         /\ reply'.status = "Timeout" => stop' # "none"
<1>1. Clock \/ stop' = stop
  BY DEF LadderStep, Entry, Legacy, WarmEnded, LeRaised, LePrimal, TwoPhaseEnded, BigM,
         BigMDeadEnd, BigMAgain, BigMStopped, BigMPhase2, PrimalEnded, Between
<1>2. stop # "none" => stop' # "none"
  BY <1>1, ClockIs DEF StopInv
<1>3. answer' = "Timeout" => stop' # "none"
  <2>1. CASE Legacy
    <3>1. Late => stop' # "none"
      BY <2>1, ClockIs DEF Legacy, Between, StopInv
    <3> QED
      BY <1>2, <2>1, <3>1 DEF Legacy, twoPhaseVars, StopInv
  <2>2. CASE ~Legacy
    BY <1>2, <2>2 DEF LadderStep, Entry, WarmEnded, LeRaised, LePrimal, TwoPhaseEnded, BigM,
                      BigMDeadEnd, BigMAgain, BigMStopped, BigMPhase2, PrimalEnded,
                      twoPhaseVars, StopInv
  <2> QED
    BY <2>1, <2>2
<1> SUFFICES reply'.status = "Timeout" => stop' # "none"
  BY <1>1, <1>3
<1>4. \A status, by : Reply(status, by) => reply'.status = status
  BY DEF Reply
<1>5. \A status, by : BigMReply(status, by) /\ (status = "Timeout" => stop' # "none")
                        => (reply'.status = "Timeout" => stop' # "none")
  BY <1>2, <1>4 DEF BigMReply, StopInv
<1>6. \A next : Climb(next) => (reply'.status = "Timeout" => stop' # "none")
  BY <1>2 DEF Climb, StopInv
<1>7. CASE Entry
  <2>1. Late => stop' # "none"
    BY <1>7, ClockIs DEF Entry, Between, StopInv
  <2> QED
    BY <1>4, <1>6, <1>7, <2>1 DEF Entry
<1>8. CASE Legacy \/ LePrimal \/ BigM
  BY <1>6, <1>8 DEF Legacy, LePrimal, BigM
<1>9. CASE WarmEnded
  BY <1>4, <1>9, StopStatusIs DEF WarmEnded, Guarded
<1>10. CASE LeRaised
  <2> DEFINE status == StopStatus(TRUE, stop')
  <2>1. reply' = [status |-> status, by |-> "le"] \/ reply' = reply
    BY <1>10 DEF LeRaised
  <2>2. status = "Timeout" => stop' # "none"
    BY StopStatusIs
  <2> HIDE DEF status
  <2>3. reply'.status = status \/ reply' = reply
    BY <2>1
  <2> QED
    BY <1>2, <2>2, <2>3 DEF StopInv
<1>11. CASE TwoPhaseEnded
  BY <1>2, <1>4, <1>6, <1>11 DEF TwoPhaseEnded, StopInv
<1>12. CASE BigMDeadEnd
  <2>1. Late => stop' # "none"
    BY <1>12, ClockIs DEF BigMDeadEnd, Between, StopInv
  <2> QED
    BY <1>5, <1>12, <2>1, StopStatusIs DEF BigMDeadEnd
<1>13. CASE BigMAgain
  BY <1>5, <1>6, <1>13, StopStatusIs DEF BigMAgain
<1>14. CASE BigMStopped
  BY <1>5, <1>14, StopStatusIs DEF BigMStopped
<1>15. CASE BigMPhase2
  BY <1>5, <1>6, <1>15 DEF BigMPhase2
<1>16. CASE PrimalEnded
  BY <1>4, <1>5, <1>16, StopStatusIs DEF PrimalEnded, Guarded
<1> QED
  BY <1>7, <1>8, <1>9, <1>10, <1>11, <1>12, <1>13, <1>14, <1>15, <1>16
     DEF LadderStep

\* Every step keeps it.
LEMMA StopStep == StopInv /\ [LadderNext]_<<vars, ladderVars>> => StopInv'
<1> SUFFICES ASSUME StopInv, [LadderNext]_<<vars, ladderVars>> PROVE StopInv'
  OBVIOUS
<1>1. CASE LadderStep
  BY <1>1, LadderStop, ClockIs DEF StopInv
<1>2. CASE Tick
  BY <1>2, ClockIs DEF Tick, StopInv, twoPhaseVars, ladderVars
<1>3. CASE Next /\ UNCHANGED ladderVars
  <2>1. CASE Iterate /\ UNCHANGED <<lp, cap, stage, retry, answer, solution>>
    BY <1>3, <2>1, IterateClock, ClockIs DEF StopInv, ladderVars
  <2>2. CASE Step
    BY <1>3, <2>2, TwoPhaseStop, ClockIs DEF StopInv, ladderVars
  <2> QED
    BY <1>3, <2>1, <2>2 DEF Next
<1>4. CASE (Iterate \/ DualIterate) /\ UNCHANGED <<lp, cap, twoPhaseVars, ladderVars>>
  BY <1>4, IterateClock, ClockIs DEF StopInv, twoPhaseVars, ladderVars
<1>5. CASE UNCHANGED <<vars, ladderVars>>
  BY <1>5 DEF StopInv, vars, ladderVars
<1> QED
  BY <1>1, <1>2, <1>3, <1>4, <1>5 DEF LadderNext

\* A Timeout is somebody's request: an iteration that stalled, met its allowance or lost
\* its factors is never one (stop_status), on whatever rung.
THEOREM TimeoutsAreRequested == Spec => []StopHonest
<1>1. LadderInit => StopInv
  BY DEF LadderInit, Init, StopInv
<1>2. StopInv => StopHonest
  BY DEF StopInv, StopHonest
<1> QED
  BY <1>1, <1>2, StopStep, PTL DEF Spec

-----------------------------------------------------------------------------
(* The factors follow the basis *)

\* Values that are a manager of factors, and the locals of an iteration.
Manager(l) ==
  l \in [of : {l.of}, etas : Nat, lost : {l.lost}, failed : {l.failed}, singular : {l.singular}]
Locals(c) == {"snapshot", "blocked"} \subseteq DOMAIN c /\ IsFiniteSet(c.blocked)

\* The manager l works for the basis B: its factors are those of B, unless it has an eta
\* file, and no flag is raised.
WorksFor(l, B) ==
  /\ Manager(l) /\ l.of = B /\ ~l.failed
  /\ l.etas = 0 => ~Singular(lp, B)

\* An iteration may go back to where c says.
MayGoBack(c) == ~Singular(lp, c.snapshot) /\ Cardinality(c.blocked) <= Cardinality(Row)

CoreInv ==
  /\ Manager(lu) /\ Locals(core)
  /\ Running => WorksFor(lu, basis) /\ MayGoBack(core)
  /\ Singular(lp, core.snapshot) => stop = "deadline" \/ outcome \in {"SingularBasis", "none"}

\* A dual iteration rejects one column at most between two factorizations.
RejectsOne ==
  Running => /\ lu.lost => core.blocked = {}
             /\ \E j : core.blocked \subseteq {j}

FactorsInv == CoreInv /\ (rung \in {"warm", "bigm1", "bigm1b"} => RejectsOne)

\* Two rows.
LEMMA RowIs ==
  /\ Cardinality(Row) = 2 /\ Cardinality({}) = 0 /\ IsFiniteSet({})
  /\ \A T, j : T \subseteq {j} => IsFiniteSet(T) /\ Cardinality(T) <= Cardinality(Row)
<1>1. Row = {1, 2}
  BY DEF Row
<1>2. Cardinality({1, 2}) = 2
  <2>1. IsFiniteSet({1}) /\ Cardinality({1}) = 1
    BY FS_Singleton
  <2>2. Cardinality({1} \cup {2}) = Cardinality({1}) + 1
    BY <2>1, FS_AddElement
  <2>3. {1} \cup {2} = {1, 2}
    OBVIOUS
  <2> QED
    BY <2>1, <2>2, <2>3
<1>3. Cardinality({}) = 0 /\ IsFiniteSet({})
  BY FS_EmptySet
<1>4. ASSUME NEW T, NEW j, T \subseteq {j}
      PROVE  IsFiniteSet(T) /\ Cardinality(T) <= 2
  <2>1. T = {} \/ T = {j}
    BY <1>4
  <2>2. IsFiniteSet({j}) /\ Cardinality({j}) = 1
    BY FS_Singleton
  <2> QED
    BY <1>3, <2>1, <2>2
<1> QED
  BY <1>1, <1>2, <1>3, <1>4

\* A new manager works for its basis, when it has factors.
LEMMA FactorsIs ==
  ASSUME NEW B
  PROVE  /\ Manager(Factors(B)) /\ Factors(B).of = B /\ ~Factors(B).failed /\ ~Factors(B).lost
         /\ Factors(B).etas = 0
         /\ ~Singular(lp, B) => WorksFor(Factors(B), B)
  BY DEF Factors, Manager, WorksFor

\* A refactorization that did not fail leaves a new manager.
LEMMA RefactoredIs ==
  ASSUME NEW l, Manager(l), NEW B
  PROVE  /\ Manager(Refactored(l, B))
         /\ ~Refactored(l, B).failed =>
              /\ Refactored(l, B) = Factors(B) /\ ~Singular(lp, B) /\ WorksFor(Refactored(l, B), B)
         /\ Refactored(l, B).failed /\ ~l.singular /\ ~Refactored(l, B).singular => Late
<1>1. CASE Late
  <2>1. Refactored(l, B) = [l EXCEPT !.failed = TRUE]
    BY <1>1 DEF Refactored
  <2>2. Manager([l EXCEPT !.failed = TRUE]) /\ [l EXCEPT !.failed = TRUE].failed
    BY DEF Manager
  <2> QED
    BY <1>1, <2>1, <2>2
<1>2. CASE ~Late /\ Singular(lp, B)
  <2> DEFINE k == [l EXCEPT !.failed = TRUE, !.singular = TRUE]
  <2>1. Refactored(l, B) = k
    BY <1>2 DEF Refactored
  <2>2. Manager(k) /\ k.failed /\ k.singular
    BY DEF Manager
  <2> QED
    BY <2>1, <2>2
<1>3. CASE ~Late /\ ~Singular(lp, B)
  <2>1. Refactored(l, B) = Factors(B)
    BY <1>3 DEF Refactored
  <2> QED
    BY <1>3, <2>1, FactorsIs
<1> QED
  BY <1>1, <1>2, <1>3

\* A new eta, and the factorization that may follow it.
LEMMA MaintainedIs ==
  ASSUME NEW l, Manager(l), ~l.failed, NEW B, NEW bad
  PROVE  /\ Manager(Maintained(Updated(l, B, bad), B))
         /\ ~Maintained(Updated(l, B, bad), B).failed =>
              WorksFor(Maintained(Updated(l, B, bad), B), B)
<1> DEFINE lost == l.lost \/ bad
           n == l.etas + 1
           k == [l EXCEPT !.of = B, !.etas = n, !.lost = lost]
<1>1. Updated(l, B, bad) = k
  BY DEF Updated
<1>2. Manager(k) /\ k.of = B /\ k.etas = l.etas + 1 /\ ~k.failed
  <2>1. l.etas \in Nat /\ n \in Nat
    BY DEF Manager
  <2> HIDE DEF lost
  <2>2. n = l.etas + 1
    OBVIOUS
  <2> HIDE DEF n
  <2>3. k \in [of : {B}, etas : {n}, lost : {lost}, failed : {l.failed}, singular : {l.singular}]
    BY DEF Manager
  <2> HIDE DEF k
  <2> QED
    BY <2>1, <2>2, <2>3 DEF Manager
<1>3. k.etas # 0
  BY <1>2 DEF Manager
<1>4. WorksFor(k, B)
  BY <1>2, <1>3 DEF WorksFor
<1> HIDE DEF k
<1>5. /\ Manager(Maintained(k, B))
      /\ ~Maintained(k, B).failed => WorksFor(Maintained(k, B), B)
  BY <1>2, <1>4, RefactoredIs DEF Maintained
<1> QED
  BY <1>1, <1>5

\* A core is called on fresh factors of the basis it is called on.
LEMMA EnterIs ==
  ASSUME NEW frame, NEW B, NEW own, Enter(frame, B, own), lp' = lp, Locals(frame),
         Cardinality(frame.blocked) <= Cardinality(Row),
         Singular(lp, frame.snapshot) => Late \/ frame.snapshot = B
  PROVE  CoreInv'
<1>1. lu' = Factors(B) /\ basis' = B /\ core' = frame
  BY DEF Enter
<1>2. outcome' = IF Late THEN "Timeout" ELSE IF Singular(lp, B) THEN "SingularBasis" ELSE "running"
  BY DEF Enter
<1>3. Manager(lu') /\ (~Singular(lp, B) => WorksFor(lu', basis'))
  BY <1>1, FactorsIs
<1>4. Running' => ~Late /\ ~Singular(lp, B)
  BY <1>2 DEF Running
<1>5. Running' => WorksFor(lu', basis') /\ MayGoBack(core')
  BY <1>1, <1>3, <1>4 DEF MayGoBack
<1>6. Singular(lp, core'.snapshot) => stop' = "deadline" \/ outcome' \in {"SingularBasis", "none"}
  BY <1>1, <1>2 DEF Late
<1> QED
  BY <1>1, <1>3, <1>5, <1>6 DEF CoreInv, WorksFor, MayGoBack

\* The locals of a primal and of a dual call.
LEMMA FrameIs ==
  ASSUME NEW phase, NEW B, NEW arts
  PROVE  /\ Locals(Frame(phase, B, arts)) /\ Frame(phase, B, arts).snapshot = B
         /\ Frame(phase, B, arts).blocked = {}
         /\ Cardinality(Frame(phase, B, arts).blocked) <= Cardinality(Row)
<1>1. Frame(phase, B, arts).snapshot = B /\ Frame(phase, B, arts).blocked = {}
  BY DEF Frame
<1>2. {"snapshot", "blocked"} \subseteq DOMAIN Frame(phase, B, arts)
  BY DEF Frame
<1> QED
  BY <1>1, <1>2, RowIs DEF Locals

LEMMA DualFrameIs ==
  ASSUME NEW phase, NEW B, NEW yields
  PROVE  /\ Locals(DualFrame(phase, B, yields)) /\ DualFrame(phase, B, yields).snapshot = B
         /\ DualFrame(phase, B, yields).blocked = {}
         /\ Cardinality(DualFrame(phase, B, yields).blocked) <= Cardinality(Row)
<1>1. DualFrame(phase, B, yields).snapshot = B /\ DualFrame(phase, B, yields).blocked = {}
  BY DEF DualFrame
<1>2. {"snapshot", "blocked"} \subseteq DOMAIN DualFrame(phase, B, yields)
  BY DEF DualFrame
<1> QED
  BY <1>1, <1>2, RowIs DEF Locals

\* revised_simplex_core and dual_simplex_core_advanced are called in order.
LEMMA CallIs ==
  ASSUME NEW phase, NEW B, NEW own, NEW arts, Call(phase, B, own, arts), lp' = lp
  PROVE  CoreInv'
  BY EnterIs, FrameIs DEF Call

LEMMA DualCallIs ==
  ASSUME NEW phase, NEW B, NEW own, NEW yields, DualCall(phase, B, own, yields), lp' = lp
  PROVE  CoreInv' /\ RejectsOne'
<1>1. CoreInv'
  BY EnterIs, DualFrameIs DEF DualCall
<1>2. core'.blocked = {}
  BY DualFrameIs DEF DualCall, Enter
<1> QED
  BY <1>1, <1>2 DEF RejectsOne

\* What masks a column, or notes a basis, leaves the way back alone.
LEMMA MaskedIs ==
  ASSUME NEW c, Locals(c), NEW m
  PROVE  /\ Locals([c EXCEPT !.mask = m]) /\ [c EXCEPT !.mask = m].snapshot = c.snapshot
         /\ [c EXCEPT !.mask = m].blocked = c.blocked
  BY DEF Locals

LEMMA MovedIs ==
  ASSUME NEW c, Locals(c), NEW B
  PROVE  /\ Locals([c EXCEPT !.snapshot = B]) /\ [c EXCEPT !.snapshot = B].snapshot = B
         /\ [c EXCEPT !.snapshot = B].blocked = c.blocked
  BY DEF Locals

LEMMA NotedIs ==
  ASSUME NEW c, Locals(c), NEW B, NEW j
  PROVE  /\ Locals(Noted(c, B, j)) /\ Noted(c, B, j).snapshot = c.snapshot
         /\ Noted(c, B, j).blocked = c.blocked
  BY DEF Locals, Noted

\* revert_to_snapshot: back to a basis that has factors, or an end.
LEMMA RevertIs ==
  ASSUME Locals(core), NEW l, Manager(l), NEW j, NEW B, NEW ok, NEW c, Locals(c),
         ~Singular(lp, c.snapshot), Revert(l, j, B, ok, c), lp' = lp
  PROVE  CoreInv'
<1> DEFINE more == core.blocked \cup {j}
           back == [c EXCEPT !.blocked = more]
<1>1. IsFiniteSet(more) /\ Cardinality(more) \in Nat /\ Cardinality(Row) \in Nat
  BY RowIs, FS_AddElement, FS_CardinalityType DEF Locals
<1>2. \/ /\ ~(Cardinality(more) > Cardinality(Row))
         /\ basis' = c.snapshot /\ lu' = Factors(c.snapshot) /\ core' = back
      \/ /\ lu' = l /\ core' = c
         /\ outcome' \in {"SingularBasis", "Timeout"}
  BY DEF Revert, Return
<1>3. Locals(back) /\ back.snapshot = c.snapshot /\ back.blocked = more
  <2> HIDE DEF more
  <2> QED
    BY <1>1 DEF Locals
<1>4. WorksFor(Factors(c.snapshot), c.snapshot)
  BY FactorsIs
<1> HIDE DEF back, more
<1>5. CASE /\ ~(Cardinality(more) > Cardinality(Row))
           /\ basis' = c.snapshot /\ lu' = Factors(c.snapshot) /\ core' = back
  BY <1>1, <1>3, <1>4, <1>5 DEF CoreInv, WorksFor, MayGoBack
<1>6. CASE /\ lu' = l /\ core' = c
           /\ outcome' \in {"SingularBasis", "Timeout"}
  BY <1>6 DEF CoreInv, Running
<1> QED
  BY <1>2, <1>5, <1>6

\* The factors a direction is computed with are those of the basis.
LEMMA DirectionIs ==
  ASSUME CoreInv, Running, NEW j, NEW d \in Direction(j)
  PROVE  WorksFor(d.lu, basis) /\ ~Singular(lp, d.snapshot)
<1>1. WorksFor(lu, basis) /\ ~Singular(lp, core.snapshot)
  BY DEF CoreInv, MayGoBack
<1>2. CASE d = [lu |-> lu, snapshot |-> core.snapshot]
  <2>1. d.lu = lu /\ d.snapshot = core.snapshot
    BY <1>2
  <2> QED
    BY <1>1, <2>1
<1>3. CASE /\ d = [lu |-> Refactored(lu, basis), snapshot |-> basis]
           /\ ~Refactored(lu, basis).failed
  <2>1. d.lu = Refactored(lu, basis) /\ d.snapshot = basis
    BY <1>3
  <2>2. WorksFor(Refactored(lu, basis), basis) /\ ~Singular(lp, basis)
    BY <1>3, RefactoredIs DEF CoreInv
  <2> QED
    BY <2>1, <2>2
<1> QED
  BY <1>2, <1>3 DEF Direction

\* The rest of a pivot.
LEMMA SettleIs ==
  ASSUME Locals(core), NEW l, Manager(l), NEW j, NEW i, NEW B, NEW ok, NEW c, Locals(c),
         MayGoBack(c), ~l.failed => WorksFor(l, B), Settle(l, j, i, B, ok, c), lp' = lp
  PROVE  CoreInv'
<1>1. CASE l.failed
  BY <1>1, RevertIs DEF Settle, MayGoBack
<1>2. CASE ~l.failed
  <2> DEFINE fresh == [c EXCEPT !.snapshot = B, !.blocked = {}]
  <2>1. /\ basis' = B /\ lu' = l
        /\ core' = (IF l.etas = 0 THEN fresh ELSE c)
        /\ outcome' \in {"running", "Stalled"}
    BY <1>2 DEF Settle, Return
  <2>2. Locals(fresh) /\ fresh.snapshot = B /\ fresh.blocked = {}
    BY RowIs DEF Locals
  <2>3. l.etas = 0 => MayGoBack(fresh)
    BY <1>2, <2>2, RowIs DEF MayGoBack, WorksFor
  <2> HIDE DEF fresh
  <2>4. Locals(core') /\ MayGoBack(core')
    BY <2>1, <2>2, <2>3
  <2> QED
    BY <1>2, <2>1, <2>4 DEF CoreInv, WorksFor, MayGoBack
<1> QED
  BY <1>1, <1>2

\* Every iteration of the primal simplex.
LEMMA PivotIs ==
  ASSUME CoreInv, NEW j, NEW i, Pivot(j, i), lp' = lp
  PROVE  CoreInv'
<1>1. Running /\ Locals(core) /\ MayGoBack(core)
  BY DEF CoreInv, Pivot, Proceed
<1> DEFINE B == [basis EXCEPT ![i] = j]
<1>2. PICK at \in Direction(j), bad \in BOOLEAN, stable \in BOOLEAN :
        Settle(IF stable THEN Maintained(Updated(at.lu, B, bad), B) ELSE Refactored(at.lu, B),
               j, i, B, exact /\ ~at.lu.lost, Noted([core EXCEPT !.snapshot = at.snapshot], B, j))
  BY DEF Pivot
<1> DEFINE k == IF stable THEN Maintained(Updated(at.lu, B, bad), B) ELSE Refactored(at.lu, B)
           moved == [core EXCEPT !.snapshot = at.snapshot]
           c == Noted(moved, B, j)
           own == exact /\ ~at.lu.lost
<1>3. Settle(k, j, i, B, own, c)
  BY <1>2
<1> HIDE DEF B, own
<1>4. WorksFor(at.lu, basis) /\ Manager(at.lu) /\ ~at.lu.failed /\ ~Singular(lp, at.snapshot)
  BY <1>1, DirectionIs DEF WorksFor
<1>5. Manager(k) /\ (~k.failed => WorksFor(k, B))
  BY <1>4, MaintainedIs, RefactoredIs
<1>6. Locals(moved) /\ moved.snapshot = at.snapshot /\ moved.blocked = core.blocked
  BY <1>1, MovedIs
<1> HIDE DEF moved
<1>7. Locals(c) /\ c.snapshot = at.snapshot /\ c.blocked = core.blocked
  BY <1>6, NotedIs
<1>8. MayGoBack(c)
  BY <1>1, <1>4, <1>7 DEF MayGoBack
<1> HIDE DEF c, k
<1> QED
  BY <1>1, <1>3, <1>5, <1>7, <1>8, SettleIs

LEMMA IterateIs ==
  ASSUME CoreInv, Iterate, lp' = lp, stop = "deadline" => stop' = "deadline"
  PROVE  CoreInv'
<1>1. Running /\ Manager(lu) /\ Locals(core) /\ ~Singular(lp, core.snapshot)
  BY DEF CoreInv, MayGoBack, Iterate, Halt, Conclude, Distrust, Unblocked, RejectEta, Pivot,
         Proceed
<1> DEFINE unmasked == [core EXCEPT !.mask = {}]
<1>2. Locals(unmasked) /\ unmasked.snapshot = core.snapshot
  BY <1>1, MaskedIs
<1>3. CASE Halt
  BY <1>1, <1>3 DEF Halt, Return, CoreInv, Running
<1>4. CASE Conclude
  <2>1. lu' = Refactored(lu, basis) /\ core' = unmasked
    BY <1>4 DEF Conclude
  <2>2. outcome' \in {"SingularBasis", "Timeout", "Stalled", "Optimal"}
    BY <1>4 DEF Conclude, Return
  <2>3. Manager(lu')
    BY <1>1, <2>1, RefactoredIs
  <2> HIDE DEF unmasked
  <2> QED
    BY <1>1, <1>2, <2>1, <2>2, <2>3 DEF CoreInv, Running
<1>5. ASSUME NEW j \in Priced, Distrust(j)
      PROVE  CoreInv'
  <2>1. Revert(Refactored(lu, basis), j, basis, exact, unmasked)
    BY <1>5 DEF Distrust
  <2>2. Manager(Refactored(lu, basis))
    BY <1>1, RefactoredIs
  <2> HIDE DEF unmasked
  <2> QED
    BY <1>1, <1>2, <2>1, <2>2, RevertIs
<1>6. ASSUME NEW j \in Priced, Unblocked(j)
      PROVE  CoreInv'
  <2>1. PICK at \in Direction(j) :
          lu' = at.lu /\ core' = [core EXCEPT !.mask = {}, !.snapshot = at.snapshot]
    BY <1>6 DEF Unblocked
  <2>2. WorksFor(at.lu, basis) /\ ~Singular(lp, at.snapshot)
    BY <1>1, DirectionIs
  <2>3. core' = [unmasked EXCEPT !.snapshot = at.snapshot]
    BY <2>1
  <2>4. Locals(core') /\ core'.snapshot = at.snapshot
    <3> HIDE DEF unmasked
    <3> QED
      BY <1>2, <2>3, MovedIs
  <2>5. outcome' = "Unbounded"
    BY <1>6 DEF Unblocked, Return
  <2> QED
    BY <2>1, <2>2, <2>4, <2>5 DEF CoreInv, Running, WorksFor
<1>7. ASSUME NEW j \in Priced, RejectEta(j)
      PROVE  CoreInv'
  <2>1. lu' = lu /\ core' = unmasked /\ outcome' = "SingularBasis"
    BY <1>7 DEF RejectEta, Return
  <2> HIDE DEF unmasked
  <2> QED
    BY <1>1, <1>2, <2>1 DEF CoreInv, Running
<1> QED
  BY <1>3, <1>4, <1>5, <1>6, <1>7, PivotIs DEF Iterate

\* What the progress of a dual iteration leads to leaves the way back alone.
LEMMA PatienceIs ==
  ASSUME NEW c, Locals(c), NEW after \in Patience(c)
  PROVE  /\ Locals(after.core) /\ after.core.snapshot = c.snapshot
         /\ after.core.blocked = c.blocked /\ after.outcome \in {"running", "Stalled"}
<1> DEFINE cycled == [c EXCEPT !.cycled = TRUE]
           bland == [c EXCEPT !.bland = TRUE, !.cycled = TRUE]
           shaken == [c EXCEPT !.bland = TRUE, !.cycled = TRUE, !.perturbed = TRUE]
<1>1. \A d \in {c, cycled, bland, shaken} :
        Locals(d) /\ d.snapshot = c.snapshot /\ d.blocked = c.blocked
  BY DEF Locals
<1>2. \E d \in {c, cycled, bland, shaken}, o \in {"running", "Stalled"} :
        after = [core |-> d, outcome |-> o]
  BY DEF Patience
<1> HIDE DEF cycled, bland, shaken
<1>3. after.core \in {c, cycled, bland, shaken} /\ after.outcome \in {"running", "Stalled"}
  BY <1>2
<1> QED
  BY <1>1, <1>3

\* Nobody enters: the end, or a second look on fresh factors.
LEMMA DeadEndIs ==
  ASSUME CoreInv, RejectsOne, NEW i, NEW sign, DeadEnd(i, sign), lp' = lp
  PROVE  CoreInv' /\ RejectsOne'
<1>1. Running /\ Manager(lu) /\ Locals(core) /\ ~Singular(lp, core.snapshot)
  BY DEF CoreInv, MayGoBack, DeadEnd, Proceed
<1>2. basis' = basis
  BY DEF DeadEnd
<1>3. CASE outcome' \in {"Stalled", "Unbounded"} /\ lu' = lu /\ core' = core
  BY <1>1, <1>3 DEF CoreInv, RejectsOne, Running
<1>4. CASE /\ lu' = Refactored(lu, basis)
           /\ Return(IF lu'.singular THEN "SingularBasis" ELSE IF lu'.failed THEN "Timeout" ELSE "running")
           /\ core' = [core EXCEPT !.refreshed = TRUE, !.bland = TRUE, !.row = 0, !.blocked = {}]
  <2>1. Locals(core') /\ core'.snapshot = core.snapshot /\ core'.blocked = {}
    BY <1>1, <1>4, RowIs DEF Locals
  <2>2. Manager(lu') /\ (~lu'.failed => WorksFor(lu', basis))
    BY <1>1, <1>4, RefactoredIs
  <2>3. Running' => ~lu'.failed
    BY <1>4 DEF Running, Return
  <2> QED
    BY <1>1, <1>2, <2>1, <2>2, <2>3, RowIs DEF CoreInv, RejectsOne, MayGoBack, WorksFor
<1> QED
  BY <1>3, <1>4 DEF DeadEnd, Return

\* A column is rejected: on fresh factors none was rejected before.
LEMMA RejectIs ==
  ASSUME CoreInv, RejectsOne, NEW i, NEW j, Reject(i, j), lp' = lp
  PROVE  CoreInv' /\ RejectsOne'
<1>1. Running /\ Manager(lu) /\ Locals(core) /\ ~Singular(lp, core.snapshot)
  BY DEF CoreInv, MayGoBack, Reject, Proceed
<1>2. core.blocked = {} /\ basis' = basis
  BY <1>1 DEF RejectsOne, Reject
<1> DEFINE row == BlockedFor(i) \cup {j}
<1>3. row = {j}
  BY <1>2 DEF BlockedFor
<1>4. core' = [core EXCEPT !.row = i, !.blocked = row, !.bland = TRUE]
  BY DEF Reject
<1> HIDE DEF row
<1>5. IsFiniteSet(row) /\ Cardinality(row) <= Cardinality(Row)
  BY <1>3, RowIs
<1>6. Locals(core') /\ core'.snapshot = core.snapshot /\ core'.blocked = row
  BY <1>1, <1>4, <1>5 DEF Locals
<1>7. lu' = Refactored(lu, basis) /\ (Running' => ~lu'.failed)
  BY DEF Reject, Return, Running
<1>8. Manager(lu') /\ (~lu'.failed => WorksFor(lu', basis) /\ ~lu'.lost)
  BY <1>1, <1>7, RefactoredIs, FactorsIs
<1> QED
  BY <1>1, <1>2, <1>3, <1>5, <1>6, <1>7, <1>8 DEF CoreInv, RejectsOne, MayGoBack, WorksFor

LEMMA DualPivotIs ==
  ASSUME CoreInv, RejectsOne, NEW i, NEW j, DualPivot(i, j), lp' = lp
  PROVE  CoreInv' /\ RejectsOne'
<1>1. /\ Running /\ Manager(lu) /\ ~lu.failed /\ Locals(core) /\ ~Singular(lp, core.snapshot)
  BY DEF CoreInv, MayGoBack, WorksFor, DualPivot, Proceed
<1> DEFINE B == [basis EXCEPT ![i] = j]
           moved == Moved(i)
<1>2. PICK bad \in BOOLEAN :
        /\ basis' = B /\ lu' = Maintained(Updated(lu, B, bad), B)
        /\ IF lu'.failed
           THEN /\ core' = moved
                /\ Return(IF lu'.singular THEN "SingularBasis" ELSE "Timeout")
           ELSE \E after \in Patience(moved) : core' = after.core /\ Return(after.outcome)
  BY DEF DualPivot
<1>3. Locals(moved) /\ moved.snapshot = core.snapshot /\ moved.blocked = {}
  BY <1>1, RowIs DEF Locals, Moved
<1> HIDE DEF B, moved
<1>4. Manager(lu') /\ (~lu'.failed => WorksFor(lu', B))
  BY <1>1, <1>2, MaintainedIs
<1>5. /\ Locals(core') /\ core'.snapshot = core.snapshot /\ core'.blocked = {}
      /\ outcome' \in {"running", "Stalled", "SingularBasis", "Timeout"}
      /\ Running' => ~lu'.failed
  <2>1. CASE lu'.failed
    BY <1>2, <1>3, <2>1 DEF Running, Return
  <2>2. CASE ~lu'.failed
    <3>1. PICK after \in Patience(moved) : core' = after.core /\ outcome' = after.outcome
      BY <1>2, <2>2 DEF Return
    <3> QED
      BY <1>3, <2>2, <3>1, PatienceIs
  <2> QED
    BY <2>1, <2>2
<1> QED
  BY <1>1, <1>2, <1>4, <1>5, RowIs DEF CoreInv, RejectsOne, MayGoBack, WorksFor

\* Every iteration of the dual simplex.
LEMMA DualIterateIs ==
  ASSUME CoreInv, RejectsOne, DualIterate, lp' = lp, stop = "deadline" => stop' = "deadline"
  PROVE  CoreInv' /\ RejectsOne'
<1>1. CASE Halt \/ Expired \/ DualRejectEta
  <2>1. /\ Running /\ lu' = lu /\ core' = core
        /\ outcome' \in {"Timeout", "Stalled", "SingularBasis"}
    BY <1>1 DEF Halt, Expired, DualRejectEta, Proceed, Return
  <2> QED
    BY <2>1 DEF CoreInv, RejectsOne, MayGoBack, Running
<1>2. CASE DualConclude
  <2>1. Running /\ Manager(lu) /\ Locals(core) /\ ~Singular(lp, core.snapshot)
    BY <1>2 DEF CoreInv, MayGoBack, DualConclude, Proceed
  <2>2. /\ lu' = Refactored(lu, basis)
        /\ core' = IF lu'.failed THEN core ELSE [core EXCEPT !.perturbed = FALSE]
        /\ outcome' \in {"SingularBasis", "Timeout", "Stalled", "Optimal"}
    BY <1>2 DEF DualConclude, Return
  <2>3. Locals([core EXCEPT !.perturbed = FALSE])
        /\ [core EXCEPT !.perturbed = FALSE].snapshot = core.snapshot
    BY <2>1 DEF Locals
  <2>4. Locals(core') /\ core'.snapshot = core.snapshot
    BY <2>1, <2>2, <2>3
  <2>5. Manager(lu')
    BY <2>1, <2>2, RefactoredIs
  <2> QED
    BY <2>1, <2>2, <2>4, <2>5 DEF CoreInv, RejectsOne, Running
<1> QED
  BY <1>1, <1>2, DeadEndIs, RejectIs, DualPivotIs DEF DualIterate

\* A step that leaves the iteration alone.
LEMMA QuietIs ==
  ASSUME CoreInv, UNCHANGED <<lp, basis, lu, core, outcome>>,
         stop = "deadline" => stop' = "deadline"
  PROVE  CoreInv' /\ (RejectsOne => RejectsOne')
  BY DEF CoreInv, RejectsOne, Running, MayGoBack, WorksFor

\* Between two calls the two phases leave it alone.
LEMMA TwoPhaseFactors ==
  ASSUME CoreInv, Step, stop = "deadline" => stop' = "deadline"
  PROVE  CoreInv'
<1>1. lp' = lp
  BY DEF Step, Begin, StoppedShort, RetryStopped, Phase1Ended, Verify, Farkas, Transition,
         Phase2Stopped, Phase2Optimal
<1>2. CASE StoppedShort \/ RetryStopped \/ Phase1Ended
  <2>1. UNCHANGED <<basis, lu, core, outcome>>
    BY <1>2 DEF StoppedShort, RetryStopped, Phase1Ended, Answer, Goto
  <2> QED
    BY <1>1, <2>1, QuietIs
<1>3. CASE Farkas \/ Phase2Stopped \/ Phase2Optimal
  <2>1. UNCHANGED <<basis, lu, core, outcome>>
    BY <1>3 DEF Farkas, Phase2Stopped, Phase2Optimal, Answer
  <2> QED
    BY <1>1, <2>1, QuietIs
<1>4. CASE Begin
  <2>1. CASE UNCHANGED <<basis, lu, core, outcome>>
    BY <1>1, <2>1, QuietIs
  <2>2. CASE Call(2, Cold(lp), TRUE, {})
    BY <1>1, <2>2, CallIs
  <2>3. CASE \E B \in {Cold(lp)} \cup (IF Late THEN {} ELSE Crashed) : Call(1, B, TRUE, Artificial(lp))
    BY <1>1, <2>3, CallIs
  <2> QED
    BY <1>4, <2>1, <2>2, <2>3 DEF Begin, Answer
<1>5. CASE Verify
  <2>1. CASE UNCHANGED <<basis, lu, core, outcome>>
    BY <1>1, <2>1, QuietIs
  <2>2. CASE Call(1, basis, ~Negative(basis), Artificial(lp))
    BY <1>1, <2>2, CallIs
  <2> QED
    BY <1>5, <2>1, <2>2 DEF Verify, Goto
<1>6. CASE Transition
  <2>1. CASE UNCHANGED <<basis, lu, core, outcome>>
    BY <1>1, <2>1, QuietIs
  <2>2. CASE \E B \in PivotedOut : Call(2, B, ~Negative(B), {})
    BY <1>1, <2>2, CallIs
  <2> QED
    BY <1>6, <2>1, <2>2 DEF Transition, Answer
<1> QED
  BY <1>2, <1>3, <1>4, <1>5, <1>6 DEF Step

\* A second Phase I of the Big-M method goes on with the way back of the first.
LEMMA AgainIs ==
  ASSUME CoreInv, outcome \in {"Timeout", "Stalled"}, lp' = lp,
         stop = "deadline" => stop' = "deadline",
         Enter([DualFrame(4, basis, FALSE) EXCEPT
                  !.snapshot = core.snapshot, !.artificials = core.artificials,
                  !.perturbed = core.perturbed], basis, exact)
  PROVE  CoreInv' /\ RejectsOne'
<1> DEFINE plain == DualFrame(4, basis, FALSE)
           frame == [plain EXCEPT !.snapshot = core.snapshot, !.artificials = core.artificials,
                                  !.perturbed = core.perturbed]
<1>1. Enter(frame, basis, exact)
  OBVIOUS
<1>2. Locals(plain) /\ plain.blocked = {}
  BY DualFrameIs
<1> HIDE DEF plain
<1>3. Locals(frame) /\ frame.snapshot = core.snapshot /\ frame.blocked = {}
  BY <1>2, RowIs DEF Locals
<1>4. Singular(lp, core.snapshot) => Late
  BY DEF CoreInv, Late
<1> HIDE DEF frame
<1>5. CoreInv'
  BY <1>1, <1>3, <1>4, EnterIs, RowIs
<1>6. core'.blocked = {}
  BY <1>1, <1>3 DEF Enter
<1> QED
  BY <1>5, <1>6 DEF RejectsOne

\* Between two rungs: a core is called, or the iteration is left alone.
LEMMA LadderFactors ==
  ASSUME FactorsInv, LadderStep, stop = "deadline" => stop' = "deadline"
  PROVE  FactorsInv'
<1>1. CoreInv /\ lp' = lp
  BY DEF FactorsInv, LadderStep, Entry, Legacy, WarmEnded, LeRaised, LePrimal, TwoPhaseEnded,
         BigM, BigMDeadEnd, BigMAgain, BigMStopped, BigMPhase2, PrimalEnded, Between
<1> DEFINE Duals == {"warm", "bigm1", "bigm1b"}
<1>2. ASSUME UNCHANGED <<basis, lu, core, outcome>>, rung' \notin Duals
      PROVE  FactorsInv'
  BY <1>1, <1>2, QuietIs DEF FactorsInv
<1>3. \A status, by : Reply(status, by) =>
        UNCHANGED <<basis, lu, core, outcome>> /\ rung' \notin Duals
  BY DEF Reply, coreVars
<1>4. \A status, by : BigMReply(status, by) =>
        UNCHANGED <<basis, lu, core, outcome>> /\ rung' \notin Duals
  BY <1>3 DEF BigMReply
<1>5. CASE Entry
  <2>1. CASE Reply("Timeout", "deadline")
    BY <1>2, <1>3, <2>1
  <2>2. CASE DualCall(2, options.warm, TRUE, FALSE)
    BY <1>1, <2>2, DualCallIs DEF FactorsInv
  <2>3. CASE Climb(EntryRung) /\ UNCHANGED coreVars
    <3>1. EntryRung \in {"two_phase", "legacy", "le"}
      <4>1. CASE options.method = "primal"
        BY <4>1, Zenon DEF EntryRung
      <4>2. CASE options.method = "dual"
        BY <4>2, Zenon DEF EntryRung
      <4>3. CASE options.method \notin {"primal", "dual"}
        <5>1. options.method # "primal" /\ options.method # "dual"
          BY <4>3
        <5>2. EntryRung = IF LeOnly THEN "le" ELSE "legacy"
          BY <5>1, Zenon DEF EntryRung
        <5> QED
          BY <5>2
      <4> QED
        BY <4>1, <4>2, <4>3
    <3> QED
      BY <1>2, <2>3, <3>1 DEF Climb, coreVars
  <2> QED
    BY <1>5, <2>1, <2>2, <2>3 DEF Entry
<1>6. CASE Legacy
  <2>1. CASE UNCHANGED coreVars /\ rung' \notin Duals
    BY <1>2, <2>1 DEF coreVars
  <2>2. CASE /\ Usable /\ basis' = options.warm /\ rung' = "minted"
             /\ core' = Frame(2, options.warm, {}) /\ lu' = Factors(options.warm)
             /\ outcome' = IF stop = "none" THEN "Optimal" ELSE "Timeout"
    <3>1. Manager(lu') /\ Locals(core') /\ core'.snapshot = options.warm
      BY <2>2, FactorsIs, FrameIs
    <3>2. ~Singular(lp, core'.snapshot) /\ ~Running'
      BY <2>2, <3>1 DEF Usable, Running
    <3> QED
      BY <1>1, <2>2, <3>1, <3>2 DEF FactorsInv, CoreInv
  <2> QED
    BY <1>6, <2>1, <2>2 DEF Legacy, Climb
<1>7. CASE WarmEnded
  BY <1>2, <1>3, <1>7 DEF WarmEnded
<1>8. CASE LeRaised
  BY <1>2, <1>8 DEF LeRaised
<1>9. CASE LePrimal
  BY <1>1, <1>9, CallIs DEF LePrimal, Climb, FactorsInv
<1>10. CASE TwoPhaseEnded
  BY <1>2, <1>3, <1>10 DEF TwoPhaseEnded, Climb, coreVars
<1>11. CASE BigM
  BY <1>1, <1>11, DualCallIs DEF BigM, FactorsInv
<1>12. CASE BigMDeadEnd
  BY <1>2, <1>4, <1>12 DEF BigMDeadEnd
<1>13. CASE BigMAgain
  <2>1. CASE \E status, by : BigMReply(status, by)
    BY <1>2, <1>4, <2>1
  <2>2. CASE Enter([DualFrame(4, basis, FALSE) EXCEPT
                      !.snapshot = core.snapshot, !.artificials = core.artificials,
                      !.perturbed = core.perturbed], basis, exact)
    BY <1>1, <1>13, <2>2, AgainIs DEF BigMAgain, FactorsInv
  <2> QED
    BY <1>13, <2>1, <2>2 DEF BigMAgain
<1>14. CASE BigMStopped
  BY <1>2, <1>4, <1>14 DEF BigMStopped
<1>15. CASE BigMPhase2
  <2>1. CASE BigMReply("Infeasible", "certificate")
    BY <1>2, <1>4, <2>1
  <2>2. CASE Call(3, basis, ~Negative(basis), core.artificials) /\ rung' = "bigm2"
    BY <1>1, <2>2, CallIs DEF FactorsInv
  <2> QED
    BY <1>15, <2>1, <2>2 DEF BigMPhase2, Climb
<1>16. CASE PrimalEnded
  BY <1>2, <1>3, <1>4, <1>16 DEF PrimalEnded
<1> QED
  BY <1>5, <1>6, <1>7, <1>8, <1>9, <1>10, <1>11, <1>12, <1>13, <1>14, <1>15, <1>16
     DEF LadderStep

\* Every step keeps it.
LEMMA FactorsStep ==
  ASSUME StopInv, FactorsInv, [LadderNext]_<<vars, ladderVars>>
  PROVE  FactorsInv'
<1>1. CASE LadderStep
  <2>1. stop = "deadline" => stop' = "deadline"
    BY <1>1, LadderStop, ClockIs DEF StopInv
  <2> QED
    BY <1>1, <2>1, LadderFactors
<1>2. CASE Tick
  <2>1. stop = "deadline" => stop' = "deadline"
    BY <1>2, ClockIs DEF Tick, StopInv
  <2> QED
    BY <1>2, <2>1, QuietIs DEF Tick, FactorsInv, coreVars, ladderVars
<1>3. CASE rung = "two_phase" /\ Next /\ UNCHANGED ladderVars
  <2>1. CASE Iterate /\ UNCHANGED <<lp, cap, stage, retry, answer, solution>>
    <3>1. stop = "deadline" => stop' = "deadline"
      BY <2>1, IterateClock, ClockIs DEF StopInv
    <3> QED
      BY <1>3, <2>1, <3>1, IterateIs DEF FactorsInv, ladderVars
  <2>2. CASE Step
    <3>1. stop = "deadline" => stop' = "deadline"
      BY <2>2, TwoPhaseStop, ClockIs DEF StopInv
    <3> QED
      BY <1>3, <2>2, <3>1, TwoPhaseFactors DEF FactorsInv, ladderVars
  <2> QED
    BY <1>3, <2>1, <2>2 DEF Next
<1>4. CASE /\ rung \in {"le2", "bigm2"} /\ Iterate
           /\ UNCHANGED <<lp, cap, twoPhaseVars, ladderVars>>
  <2>1. stop = "deadline" => stop' = "deadline"
    BY <1>4, IterateClock, ClockIs DEF StopInv
  <2> QED
    BY <1>4, <2>1, IterateIs DEF FactorsInv, ladderVars
<1>5. CASE /\ rung \in {"warm", "bigm1", "bigm1b"} /\ DualIterate
           /\ UNCHANGED <<lp, cap, twoPhaseVars, ladderVars>>
  <2>1. stop = "deadline" => stop' = "deadline"
    BY <1>5, IterateClock, ClockIs DEF StopInv
  <2> QED
    BY <1>5, <2>1, DualIterateIs DEF FactorsInv
<1>6. CASE UNCHANGED <<vars, ladderVars>>
  BY <1>6, QuietIs DEF FactorsInv, vars, ladderVars, coreVars
<1> QED
  BY <1>1, <1>2, <1>3, <1>4, <1>5, <1>6 DEF LadderNext

\* It holds at the start.
LEMMA FactorsInit ==
  ASSUME LadderInit
  PROVE  FactorsInv
<1>1. /\ lu = Factors(basis) /\ core = Frame(2, basis, {}) /\ outcome = "none" /\ rung = "entry"
  BY DEF LadderInit, Init
<1> QED
  BY <1>1, FactorsIs, FrameIs DEF FactorsInv, CoreInv, Running

\* Whenever an iteration begins, primal or dual, on whatever rung, its factors are those
\* of its basis and no flag of a failed refactorization is left; and the basis to revert
\* to has factors.
THEOREM IterationsHaveFactors == Spec => []FactorsFollowBasis
<1>1. LadderInit => StopInv /\ FactorsInv
  <2>1. LadderInit => StopInv
    BY DEF LadderInit, Init, StopInv
  <2> QED
    BY <2>1, FactorsInit
<1>2. StopInv /\ FactorsInv /\ [LadderNext]_<<vars, ladderVars>> => (StopInv /\ FactorsInv)'
  BY StopStep, FactorsStep
<1>3. FactorsInv => FactorsFollowBasis
  BY DEF FactorsInv, CoreInv, WorksFor, MayGoBack, FactorsFollowBasis
<1> QED
  BY <1>1, <1>2, <1>3, PTL DEF Spec

-----------------------------------------------------------------------------
(* The algebra of two columns *)

\* Cramer's rule: a combination of the columns p and q gives back det times v.
LEMMA Cramer ==
  ASSUME NEW p1 \in Int, NEW p2 \in Int, NEW q1 \in Int, NEW q2 \in Int,
         NEW v1 \in Int, NEW v2 \in Int, NEW s \in Int
  PROVE  /\ s * (p1 * q2 - p2 * q1) * v1 = (s * (v1 * q2 - v2 * q1)) * p1 + (s * (p1 * v2 - p2 * v1)) * q1
         /\ s * (p1 * q2 - p2 * q1) * v2 = (s * (v1 * q2 - v2 * q1)) * p2 + (s * (p1 * v2 - p2 * v1)) * q2
  OBVIOUS

\* Solving with the transpose on one side is solving with the matrix on the other.
LEMMA Transposed ==
  ASSUME NEW p1 \in Int, NEW p2 \in Int, NEW q1 \in Int, NEW q2 \in Int,
         NEW v1 \in Int, NEW v2 \in Int, NEW s \in Int, NEW w1 \in Int, NEW w2 \in Int
  PROVE  (s * (w1 * q2 - w2 * p2)) * v1 + (s * (w2 * p1 - w1 * q1)) * v2
           = w1 * (s * (v1 * q2 - v2 * q1)) + w2 * (s * (p1 * v2 - p2 * v1))
  OBVIOUS

\* A product grows with its other factor.
LEMMA MulMono ==
  ASSUME NEW a \in Int, a >= 0, NEW u \in Int, NEW v \in Int, u <= v
  PROVE  a * u <= a * v
  OBVIOUS

\* A product of integers is one.
LEMMA ProductIsInt ==
  ASSUME NEW a \in Int, NEW b \in Int
  PROVE  a * b \in Int
  OBVIOUS

\* The columns of a program are pairs of integers, and its own come first.
LEMMA ColumnIs ==
  ASSUME NEW P, IsProgram(P), NEW j \in Original(P) \cup Artificial(P)
  PROVE  /\ Column(P, j)[1] \in Int /\ Column(P, j)[2] \in Int
         /\ j \in Int /\ (j \in Original(P) <=> j <= P.n)
<1>1. CASE j <= P.n
  BY <1>1 DEF Column, IsProgram, Original, Artificial, Row
<1>2. CASE ~(j <= P.n)
  <2>1. Column(P, j) = Unit(j - P.n)
    BY <1>2 DEF Column
  <2>2. Unit(j - P.n)[1] \in Int /\ Unit(j - P.n)[2] \in Int
    BY DEF Unit, Row
  <2> QED
    BY <1>2, <2>1, <2>2 DEF IsProgram, Original, Artificial, Row
<1> QED
  BY <1>1, <1>2

\* The size of a basis is that of its determinant, positive when it has factors.
LEMMA BasisIs ==
  ASSUME NEW P, IsProgram(P), NEW B \in Bases(P)
  PROVE  /\ B[1] \in Original(P) \cup Artificial(P) /\ B[2] \in Original(P) \cup Artificial(P)
         /\ B[1] # B[2]
         /\ Det(P, B) \in Int /\ Size(P, B) \in Nat /\ Sign(P, B) \in {-1, 1}
         /\ Size(P, B) = Sign(P, B) * Det(P, B)
         /\ ~Singular(P, B) => Size(P, B) > 0
<1>1. B[1] \in Original(P) \cup Artificial(P) /\ B[2] \in Original(P) \cup Artificial(P) /\ B[1] # B[2]
  BY DEF Bases, Row
<1>2. Det(P, B) \in Int
  BY <1>1, ColumnIs DEF Det, Cross
<1> QED
  BY <1>1, <1>2 DEF Size, Sign, Singular

\* A pair of integers.
Pair(v) == v[1] \in Int /\ v[2] \in Int

\* FTRAN solves: the columns of the basis, so often, are the right side times its size.
LEMMA SolveIs ==
  ASSUME NEW P, IsProgram(P), NEW B \in Bases(P), NEW v, Pair(v)
  PROVE  LET z == Ftran(P, B, v)  p == Column(P, B[1])  q == Column(P, B[2]) IN
         /\ Pair(z)
         /\ Size(P, B) * v[1] = z[1] * p[1] + z[2] * q[1]
         /\ Size(P, B) * v[2] = z[1] * p[2] + z[2] * q[2]
<1> DEFINE z == Ftran(P, B, v)
           p == Column(P, B[1])
           q == Column(P, B[2])
           s == Sign(P, B)
<1>1. Pair(p) /\ Pair(q) /\ s \in Int /\ Size(P, B) = s * Det(P, B)
  BY BasisIs, ColumnIs DEF Pair
<1>2. Det(P, B) = p[1] * q[2] - p[2] * q[1]
  BY DEF Det, Cross
<1>3. z[1] = s * (v[1] * q[2] - v[2] * q[1]) /\ z[2] = s * (p[1] * v[2] - p[2] * v[1])
  BY DEF Ftran, Cross
<1> HIDE DEF z, p, q, s
<1>4. Pair(z)
  BY <1>1, <1>3 DEF Pair
<1>5. Size(P, B) = s * (p[1] * q[2] - p[2] * q[1])
  BY <1>1, <1>2
<1>6. /\ s * (p[1] * q[2] - p[2] * q[1]) * v[1]
           = (s * (v[1] * q[2] - v[2] * q[1])) * p[1] + (s * (p[1] * v[2] - p[2] * v[1])) * q[1]
      /\ s * (p[1] * q[2] - p[2] * q[1]) * v[2]
           = (s * (v[1] * q[2] - v[2] * q[1])) * p[2] + (s * (p[1] * v[2] - p[2] * v[1])) * q[2]
  BY <1>1, Cramer DEF Pair
<1>7. /\ Size(P, B) * v[1] = z[1] * p[1] + z[2] * q[1]
      /\ Size(P, B) * v[2] = z[1] * p[2] + z[2] * q[2]
  BY <1>3, <1>5, <1>6
<1> QED
  BY <1>4, <1>7 DEF z, p, q

\* BTRAN solves: what the prices w are worth to v is what v takes, paid with w.
LEMMA PricesAre ==
  ASSUME NEW P, IsProgram(P), NEW B \in Bases(P), NEW v, Pair(v), NEW w, Pair(w)
  PROVE  /\ Pair(Btran(P, B, w))
         /\ Dot(Btran(P, B, w), v) = w[1] * Ftran(P, B, v)[1] + w[2] * Ftran(P, B, v)[2]
<1> DEFINE z == Ftran(P, B, v)
           y == Btran(P, B, w)
           p == Column(P, B[1])
           q == Column(P, B[2])
           s == Sign(P, B)
<1>1. Pair(p) /\ Pair(q) /\ s \in Int
  BY BasisIs, ColumnIs DEF Pair
<1>2. z[1] = s * (v[1] * q[2] - v[2] * q[1]) /\ z[2] = s * (p[1] * v[2] - p[2] * v[1])
  BY DEF Ftran, Cross
<1>3. y[1] = s * (w[1] * q[2] - w[2] * p[2]) /\ y[2] = s * (w[2] * p[1] - w[1] * q[1])
  BY DEF Btran
<1>4. Dot(y, v) = y[1] * v[1] + y[2] * v[2]
  BY DEF Dot
<1> HIDE DEF z, y, p, q, s
<1>5. Pair(y)
  BY <1>1, <1>3 DEF Pair
<1>6. (s * (w[1] * q[2] - w[2] * p[2])) * v[1] + (s * (w[2] * p[1] - w[1] * q[1])) * v[2]
        = w[1] * (s * (v[1] * q[2] - v[2] * q[1])) + w[2] * (s * (p[1] * v[2] - p[2] * v[1]))
  BY <1>1, Transposed DEF Pair
<1>7. Dot(y, v) = w[1] * z[1] + w[2] * z[2]
  BY <1>2, <1>3, <1>4, <1>6
<1> QED
  BY <1>5, <1>7 DEF y, z

\* A column of the basis is taken from itself.
LEMMA OwnColumn ==
  ASSUME NEW P, IsProgram(P), NEW B \in Bases(P)
  PROVE  /\ Taken(P, B, B[1])[1] = Size(P, B) /\ Taken(P, B, B[1])[2] = 0
         /\ Taken(P, B, B[2])[1] = 0 /\ Taken(P, B, B[2])[2] = Size(P, B)
<1> DEFINE p == Column(P, B[1])
           q == Column(P, B[2])
           s == Sign(P, B)
<1>1. Pair(p) /\ Pair(q) /\ s \in Int /\ Size(P, B) = s * Det(P, B)
  BY BasisIs, ColumnIs DEF Pair
<1>2. Det(P, B) = p[1] * q[2] - p[2] * q[1]
  BY DEF Det, Cross
<1>3. /\ Taken(P, B, B[1])[1] = s * (p[1] * q[2] - p[2] * q[1])
      /\ Taken(P, B, B[1])[2] = s * (p[1] * p[2] - p[2] * p[1])
      /\ Taken(P, B, B[2])[1] = s * (q[1] * q[2] - q[2] * q[1])
      /\ Taken(P, B, B[2])[2] = s * (p[1] * q[2] - p[2] * q[1])
  BY DEF Taken, Ftran, Cross
<1> HIDE DEF p, q, s
<1>4. p[1] * p[2] - p[2] * p[1] = 0 /\ q[1] * q[2] - q[2] * q[1] = 0 /\ s * 0 = 0
  BY <1>1 DEF Pair
<1> QED
  BY <1>1, <1>2, <1>3, <1>4

\* The columns of a basis are the program's own or artificial.
LEMMA PlacesAre ==
  ASSUME NEW P, IsProgram(P), NEW B \in Bases(P), NEW i \in Row
  PROVE  /\ B[i] \in Original(P) \cup Artificial(P) /\ B[i] \in Int
         /\ Pair(Column(P, B[i]))
         /\ \/ B[i] \in Original(P) /\ B[i] <= P.n /\ ~(B[i] > P.n)
            \/ B[i] \notin Original(P) /\ B[i] > P.n /\ ~(B[i] <= P.n)
<1>1. B[i] \in Original(P) \cup Artificial(P)
  BY DEF Bases, Row
<1>2. Pair(Column(P, B[i])) /\ B[i] \in Int /\ (B[i] \in Original(P) <=> B[i] <= P.n)
  BY <1>1, ColumnIs DEF Pair
<1>3. P.n \in Int
  BY DEF IsProgram
<1> QED
  BY <1>1, <1>2, <1>3

\* Whatever y is, a solution of a basis accounts for what y makes of the right side.
LEMMA Combined ==
  ASSUME NEW P, IsProgram(P), NEW C \in Bases(P), NEW v, Pair(v), NEW y, Pair(y)
  PROVE  Size(P, C) * Dot(y, v) = Ftran(P, C, v)[1] * Dot(y, Column(P, C[1]))
                                  + Ftran(P, C, v)[2] * Dot(y, Column(P, C[2]))
<1> DEFINE z == Ftran(P, C, v)
           p == Column(P, C[1])
           q == Column(P, C[2])
           S == Size(P, C)
<1>1. Pair(p) /\ Pair(q) /\ S \in Int
  BY BasisIs, ColumnIs DEF Pair
<1>2. Pair(z) /\ S * v[1] = z[1] * p[1] + z[2] * q[1] /\ S * v[2] = z[1] * p[2] + z[2] * q[2]
  BY SolveIs
<1> HIDE DEF z, p, q, S
<1>3. S * Dot(y, v) = z[1] * Dot(y, p) + z[2] * Dot(y, q)
  <2>1. S * (y[1] * v[1] + y[2] * v[2]) = y[1] * (S * v[1]) + y[2] * (S * v[2])
    BY <1>1 DEF Pair
  <2>2. y[1] * (z[1] * p[1] + z[2] * q[1]) + y[2] * (z[1] * p[2] + z[2] * q[2])
          = z[1] * (y[1] * p[1] + y[2] * p[2]) + z[2] * (y[1] * q[1] + y[2] * q[2])
    BY <1>1, <1>2 DEF Pair
  <2> QED
    BY <1>2, <2>1, <2>2 DEF Dot
<1> QED
  BY <1>3 DEF z, p, q, S

\* The product of two pairs is an integer, in either order.
LEMMA DotIs ==
  ASSUME NEW y, Pair(y), NEW v, Pair(v)
  PROVE  Dot(y, v) \in Int /\ Dot(y, v) = Dot(v, y)
  BY DEF Dot, Pair

\* So is the right side a pair.
LEMMA RightSide ==
  ASSUME NEW P, IsProgram(P)
  PROVE  Pair(P.b)
  BY DEF IsProgram, Pair, Row

\* What a vertex is, by components.
LEMMA VertexIs ==
  ASSUME NEW P, IsProgram(P), NEW C \in Vertices(P)
  PROVE  /\ C \in Bases(P) /\ Size(P, C) \in Int /\ Size(P, C) > 0
         /\ Basic(P, C)[1] \in Int /\ Basic(P, C)[1] >= 0 /\ (C[1] > P.n => Basic(P, C)[1] = 0)
         /\ Basic(P, C)[2] \in Int /\ Basic(P, C)[2] >= 0 /\ (C[2] > P.n => Basic(P, C)[2] = 0)
         /\ Basic(P, C) = Ftran(P, C, P.b)
<1>1. C \in Bases(P) /\ Vertex(P, C)
  BY DEF Vertices
<1>2. Pair(Ftran(P, C, P.b))
  BY <1>1, SolveIs, RightSide
<1> QED
  BY <1>1, <1>2, BasisIs DEF Vertex, Row, Basic, Pair

\* A nonnegative amount keeps the sign of what it is taken of.
LEMMA SignRule ==
  ASSUME NEW x \in Int, x >= 0, NEW d \in Int, NEW s \in {-1, 1}, s * d <= 0
  PROVE  s * (x * d) <= 0
  OBVIOUS

\* Farkas: prices that make all columns nonpositive and the right side positive, or all
\* nonnegative and the right side negative, leave no vertex.
LEMMA PricesRefute ==
  ASSUME NEW P, IsProgram(P), NEW y, Pair(y), NEW s \in {-1, 1},
         s * Dot(y, P.b) > 0,
         \A j \in Original(P) : s * Dot(y, Column(P, j)) <= 0
  PROVE  ~Feasible(P)
<1> SUFFICES ASSUME NEW C \in Vertices(P) PROVE FALSE
  BY DEF Feasible
<1> DEFINE S == Size(P, C)
           x1 == Basic(P, C)[1]
           x2 == Basic(P, C)[2]
           d1 == Dot(y, Column(P, C[1]))
           d2 == Dot(y, Column(P, C[2]))
           d == Dot(y, P.b)
<1>1. /\ C \in Bases(P) /\ S \in Int /\ S > 0
      /\ x1 \in Int /\ x1 >= 0 /\ (C[1] > P.n => x1 = 0)
      /\ x2 \in Int /\ x2 >= 0 /\ (C[2] > P.n => x2 = 0)
  BY VertexIs
<1>2. /\ Pair(Column(P, C[1])) /\ Pair(Column(P, C[2]))
      /\ C[1] \in Original(P) \/ C[1] > P.n
      /\ C[2] \in Original(P) \/ C[2] > P.n
  <2>1. 1 \in Row /\ 2 \in Row
    BY DEF Row
  <2> QED
    BY <1>1, <2>1, PlacesAre
<1>3. d1 \in Int /\ d2 \in Int /\ d \in Int
  BY <1>2, DotIs, RightSide
<1>4. S * d = x1 * d1 + x2 * d2
  BY <1>1, Combined, RightSide, VertexIs
<1>5. s * (x1 * d1) <= 0
  <2>1. CASE C[1] \in Original(P)
    <3>1. s * d1 <= 0
      BY <1>2, <2>1
    <3> HIDE DEF x1, d1
    <3> QED
      BY <1>1, <1>3, <3>1, SignRule
  <2>2. CASE C[1] > P.n
    <3>1. x1 = 0
      BY <1>1, <2>2
    <3> HIDE DEF x1, d1
    <3> QED
      BY <1>3, <3>1
  <2> QED
    BY <1>2, <2>1, <2>2
<1>6. s * (x2 * d2) <= 0
  <2>1. CASE C[2] \in Original(P)
    <3>1. s * d2 <= 0
      BY <1>2, <2>1
    <3> HIDE DEF x2, d2
    <3> QED
      BY <1>1, <1>3, <3>1, SignRule
  <2>2. CASE C[2] > P.n
    <3>1. x2 = 0
      BY <1>1, <2>2
    <3> HIDE DEF x2, d2
    <3> QED
      BY <1>3, <3>1
  <2> QED
    BY <1>2, <2>1, <2>2
<1>7. s * d > 0
  OBVIOUS
<1> HIDE DEF S, x1, x2, d1, d2, d
<1>8. s * (S * d) = s * (x1 * d1) + s * (x2 * d2)
  <2>1. x1 * d1 \in Int /\ x2 * d2 \in Int
    BY <1>1, <1>3
  <2> QED
    BY <1>4, <2>1
<1>9. s * (S * d) = S * (s * d) /\ S * (s * d) > 0
  BY <1>1, <1>3, <1>7
<1>10. s * (x1 * d1) \in Int /\ s * (x2 * d2) \in Int
  BY <1>1, <1>3
<1> QED
  BY <1>5, <1>6, <1>8, <1>9, <1>10

\* Costs are integers, and those of the program's own columns are the program's.
LEMMA CostIs ==
  ASSUME NEW P, IsProgram(P), NEW phase \in {2, 3}, NEW j \in Original(P) \cup Artificial(P)
  PROVE  /\ Cost(P, phase, j) \in Int /\ Cost(P, 2, j) \in Int
         /\ j \in Original(P) => Cost(P, phase, j) = P.c[j] /\ P.c[j] \in Int
<1>1. CASE j \in Original(P)
  <2>1. j <= P.n /\ P.c[j] \in Int
    BY <1>1, ColumnIs DEF IsProgram, Original
  <2> QED
    BY <2>1 DEF Cost
<1>2. CASE j \notin Original(P)
  <2>1. ~(j <= P.n)
    BY <1>2, ColumnIs
  <2>2. <<1, 0, Penalty>>[2] = 0 /\ <<1, 0, Penalty>>[3] = Penalty /\ Penalty \in Int
    BY DEF Penalty
  <2> QED
    BY <1>2, <2>1, <2>2 DEF Cost
<1> QED
  BY <1>1, <1>2

\* The prices of a basis whose nonbasic columns have no negative reduced cost are below
\* the cost of every column.
LEMMA DualPrices ==
  ASSUME NEW P, IsProgram(P), NEW B \in Bases(P), NEW phase \in {2, 3},
         \A j \in Original(P) \ BasisSet(B) : Reduced(P, phase, B, j) >= 0,
         NEW j \in Original(P)
  PROVE  LET y == Btran(P, B, BasicCost(P, phase, B)) IN
           Pair(y) /\ Dot(y, Column(P, j)) <= P.c[j] * Size(P, B)
<1> DEFINE w == BasicCost(P, phase, B)
           y == Btran(P, B, w)
<1>1. 1 \in Row /\ 2 \in Row
  BY DEF Row
<1>2. Pair(w) /\ w[1] = Cost(P, phase, B[1]) /\ w[2] = Cost(P, phase, B[2])
  <2>1. Cost(P, phase, B[1]) \in Int /\ Cost(P, phase, B[2]) \in Int
    BY <1>1, PlacesAre, CostIs
  <2> QED
    BY <2>1 DEF BasicCost, Pair
<1>3. Pair(Column(P, j))
  BY ColumnIs DEF Pair
<1>4. Pair(y) /\ Dot(y, Column(P, j)) = w[1] * Taken(P, B, j)[1] + w[2] * Taken(P, B, j)[2]
  BY <1>2, <1>3, PricesAre DEF Taken
<1>5. /\ Size(P, B) \in Int /\ P.c[j] \in Int /\ Cost(P, phase, j) = P.c[j]
      /\ Dot(y, Column(P, j)) \in Int
  BY <1>3, <1>4, BasisIs, CostIs, DotIs
<1>6. CASE j \notin BasisSet(B)
  <2>1. Reduced(P, phase, B, j) = P.c[j] * Size(P, B) - Dot(y, Column(P, j))
    BY <1>5 DEF Reduced, ReducedFor
  <2>2. Reduced(P, phase, B, j) >= 0
    BY <1>6
  <2> HIDE DEF y
  <2>3. P.c[j] * Size(P, B) \in Int
    BY <1>5
  <2>4. Dot(y, Column(P, j)) <= P.c[j] * Size(P, B)
    BY <1>5, <2>1, <2>2, <2>3
  <2> QED
    BY <1>4, <2>4 DEF y
<1>7. CASE j \in BasisSet(B)
  <2>1. j = B[1] \/ j = B[2]
    BY <1>7 DEF BasisSet, Row
  <2> HIDE DEF w
  <2>2. Dot(y, Column(P, j)) = P.c[j] * Size(P, B)
    <3>1. CASE j = B[1]
      <4>1. Taken(P, B, j)[1] = Size(P, B) /\ Taken(P, B, j)[2] = 0 /\ w[1] = P.c[j]
        BY <1>2, <1>5, <3>1, OwnColumn
      <4> QED
        BY <1>2, <1>4, <1>5, <4>1 DEF Pair
    <3>2. CASE j = B[2]
      <4>1. Taken(P, B, j)[2] = Size(P, B) /\ Taken(P, B, j)[1] = 0 /\ w[2] = P.c[j]
        BY <1>2, <1>5, <3>2, OwnColumn
      <4> QED
        BY <1>2, <1>4, <1>5, <4>1 DEF Pair
    <3> QED
      BY <2>1, <3>1, <3>2
  <2> QED
    BY <1>4, <1>5, <2>2 DEF w
<1> QED
  BY <1>6, <1>7

\* What an amount is worth at prices below its cost.
LEMMA BelowCost ==
  ASSUME NEW x \in Int, NEW d \in Int, NEW c \in Int, NEW S \in Int, d <= c * S
  PROVE  /\ x >= 0 => x * d <= (c * x) * S
         /\ x <= 0 => x * d >= (c * x) * S
<1>1. c * S \in Int /\ (c * x) * S = x * (c * S)
  OBVIOUS
<1>2. ASSUME x >= 0 PROVE x * d <= x * (c * S)
  BY <1>1, <1>2, MulMono
<1>3. ASSUME x <= 0 PROVE x * d >= x * (c * S)
  <2>1. (-x) * d <= (-x) * (c * S)
    BY <1>1, <1>3, MulMono
  <2>2. (-x) * d = -(x * d) /\ (-x) * (c * S) = -(x * (c * S))
    BY <1>1
  <2>3. x * d \in Int /\ x * (c * S) \in Int
    BY <1>1
  <2> QED
    BY <2>1, <2>2, <2>3
<1> QED
  BY <1>1, <1>2, <1>3

\* Prices below all costs bound what every vertex costs.
LEMMA WeakDuality ==
  ASSUME NEW P, IsProgram(P), NEW y, Pair(y), NEW S \in Int,
         \A j \in Original(P) : Dot(y, Column(P, j)) <= P.c[j] * S,
         NEW C \in Vertices(P)
  PROVE  Size(P, C) * Dot(y, P.b) <= Objective(P, 2, C) * S /\ Objective(P, 2, C) \in Int
<1> DEFINE T == Size(P, C)
           x1 == Basic(P, C)[1]
           x2 == Basic(P, C)[2]
           d1 == Dot(y, Column(P, C[1]))
           d2 == Dot(y, Column(P, C[2]))
           c1 == Cost(P, 2, C[1])
           c2 == Cost(P, 2, C[2])
           d == Dot(y, P.b)
<1>1. /\ C \in Bases(P) /\ T \in Int /\ T > 0
      /\ x1 \in Int /\ x1 >= 0 /\ (C[1] > P.n => x1 = 0)
      /\ x2 \in Int /\ x2 >= 0 /\ (C[2] > P.n => x2 = 0)
  BY VertexIs
<1>2. /\ Pair(Column(P, C[1])) /\ Pair(Column(P, C[2]))
      /\ C[1] \in Original(P) \/ C[1] > P.n
      /\ C[2] \in Original(P) \/ C[2] > P.n
      /\ C[1] \in Original(P) \cup Artificial(P) /\ C[2] \in Original(P) \cup Artificial(P)
  <2>1. 1 \in Row /\ 2 \in Row
    BY DEF Row
  <2> QED
    BY <1>1, <2>1, PlacesAre
<1>3. d1 \in Int /\ d2 \in Int /\ d \in Int /\ c1 \in Int /\ c2 \in Int
  BY <1>2, DotIs, RightSide, CostIs
<1>4. T * d = x1 * d1 + x2 * d2
  BY <1>1, Combined, RightSide, VertexIs
<1>5. Objective(P, 2, C) = c1 * x1 + c2 * x2
  BY DEF Objective, BasicCost, Dot
<1>6. x1 * d1 <= (c1 * x1) * S
  <2>1. CASE C[1] \in Original(P)
    <3>1. d1 <= c1 * S
      BY <2>1, CostIs
    <3> HIDE DEF x1, d1, c1
    <3> QED
      BY <1>1, <1>3, <3>1, BelowCost
  <2>2. CASE C[1] > P.n
    <3>1. x1 = 0
      BY <1>1, <2>2
    <3> HIDE DEF x1, d1, c1
    <3> QED
      BY <1>3, <3>1
  <2> QED
    BY <1>2, <2>1, <2>2
<1>7. x2 * d2 <= (c2 * x2) * S
  <2>1. CASE C[2] \in Original(P)
    <3>1. d2 <= c2 * S
      BY <2>1, CostIs
    <3> HIDE DEF x2, d2, c2
    <3> QED
      BY <1>1, <1>3, <3>1, BelowCost
  <2>2. CASE C[2] > P.n
    <3>1. x2 = 0
      BY <1>1, <2>2
    <3> HIDE DEF x2, d2, c2
    <3> QED
      BY <1>3, <3>1
  <2> QED
    BY <1>2, <2>1, <2>2
<1> HIDE DEF T, x1, x2, d1, d2, c1, c2, d
<1>8. /\ c1 * x1 \in Int /\ c2 * x2 \in Int /\ x1 * d1 \in Int /\ x2 * d2 \in Int
      /\ (c1 * x1) * S \in Int /\ (c2 * x2) * S \in Int
  BY <1>1, <1>3
<1>9. (c1 * x1 + c2 * x2) * S = (c1 * x1) * S + (c2 * x2) * S
  BY <1>8
<1>10. T * d <= (c1 * x1 + c2 * x2) * S
  BY <1>4, <1>6, <1>7, <1>8, <1>9
<1> QED
  BY <1>5, <1>8, <1>10 DEF T, d

\* What a column takes of a basis, by components, and what is saved by it.
LEMMA TakenIs ==
  ASSUME NEW P, IsProgram(P), NEW B \in Bases(P), NEW phase \in {2, 3}, NEW j \in Original(P)
  PROVE  /\ Pair(Taken(P, B, j)) /\ Size(P, B) \in Int /\ P.c[j] \in Int
         /\ Cost(P, phase, B[1]) \in Int /\ Cost(P, phase, B[2]) \in Int
         /\ Reduced(P, phase, B, j)
              = P.c[j] * Size(P, B) - (Cost(P, phase, B[1]) * Taken(P, B, j)[1]
                                       + Cost(P, phase, B[2]) * Taken(P, B, j)[2])
<1> DEFINE w == BasicCost(P, phase, B)
<1>1. 1 \in Row /\ 2 \in Row
  BY DEF Row
<1>2. Cost(P, phase, B[1]) \in Int /\ Cost(P, phase, B[2]) \in Int
  BY <1>1, PlacesAre, CostIs
<1>3. Pair(w) /\ w[1] = Cost(P, phase, B[1]) /\ w[2] = Cost(P, phase, B[2])
  BY <1>2 DEF BasicCost, Pair
<1>4. Pair(Column(P, j)) /\ Size(P, B) \in Int /\ Cost(P, phase, j) = P.c[j] /\ P.c[j] \in Int
  BY ColumnIs, BasisIs, CostIs DEF Pair
<1>5. Dot(Btran(P, B, w), Column(P, j)) = w[1] * Taken(P, B, j)[1] + w[2] * Taken(P, B, j)[2]
  BY <1>3, <1>4, PricesAre DEF Taken
<1>6. Pair(Taken(P, B, j))
  BY <1>4, SolveIs DEF Taken
<1> QED
  BY <1>2, <1>3, <1>4, <1>5, <1>6 DEF Reduced, ReducedFor

\* Nor is there a ray that improves.
LEMMA PricesLeaveNoRay ==
  ASSUME NEW P, IsProgram(P), NEW y, Pair(y), NEW S \in Int, S > 0,
         \A j \in Original(P) : Dot(y, Column(P, j)) <= P.c[j] * S
  PROVE  ~HasRay(P)
<1> SUFFICES ASSUME NEW C \in Bases(P), ~Singular(P, C), NEW j \in Original(P),
                    Ray(P, C, j), Reduced(P, 2, C, j) < 0
             PROVE  FALSE
  BY DEF HasRay
<1> DEFINE T == Size(P, C)
           t1 == Taken(P, C, j)[1]
           t2 == Taken(P, C, j)[2]
           d1 == Dot(y, Column(P, C[1]))
           d2 == Dot(y, Column(P, C[2]))
           c1 == Cost(P, 2, C[1])
           c2 == Cost(P, 2, C[2])
           d == Dot(y, Column(P, j))
           c == P.c[j]
<1>1. /\ T \in Int /\ T > 0 /\ c \in Int /\ c1 \in Int /\ c2 \in Int /\ t1 \in Int /\ t2 \in Int
      /\ c * T - (c1 * t1 + c2 * t2) < 0
  BY TakenIs, BasisIs DEF Pair
<1>2. /\ Pair(Column(P, C[1])) /\ Pair(Column(P, C[2])) /\ Pair(Column(P, j))
      /\ (C[1] \in Original(P) /\ ~(C[1] > P.n)) \/ C[1] > P.n
      /\ (C[2] \in Original(P) /\ ~(C[2] > P.n)) \/ C[2] > P.n
  <2>1. 1 \in Row /\ 2 \in Row
    BY DEF Row
  <2> QED
    BY <2>1, PlacesAre, ColumnIs DEF Pair
<1>3. d1 \in Int /\ d2 \in Int /\ d \in Int
  BY <1>2, DotIs
<1>4. T * d = t1 * d1 + t2 * d2
  BY <1>2, Combined DEF Taken
<1>5. d <= c * S
  OBVIOUS
<1>6. t1 * d1 >= (c1 * t1) * S
  <2>1. CASE C[1] \in Original(P) /\ ~(C[1] > P.n)
    <3>1. d1 <= c1 * S
      BY <2>1, CostIs
    <3>2. t1 <= 0
      BY <2>1 DEF Ray, Row
    <3> HIDE DEF t1, d1, c1
    <3> QED
      BY <1>1, <1>3, <3>1, <3>2, BelowCost
  <2>2. CASE C[1] > P.n
    <3>1. t1 = 0
      BY <2>2 DEF Ray, Row
    <3> HIDE DEF t1, d1, c1
    <3> QED
      BY <1>1, <1>3, <3>1
  <2> QED
    BY <1>2, <2>1, <2>2
<1>7. t2 * d2 >= (c2 * t2) * S
  <2>1. CASE C[2] \in Original(P) /\ ~(C[2] > P.n)
    <3>1. d2 <= c2 * S
      BY <2>1, CostIs
    <3>2. t2 <= 0
      BY <2>1 DEF Ray, Row
    <3> HIDE DEF t2, d2, c2
    <3> QED
      BY <1>1, <1>3, <3>1, <3>2, BelowCost
  <2>2. CASE C[2] > P.n
    <3>1. t2 = 0
      BY <2>2 DEF Ray, Row
    <3> HIDE DEF t2, d2, c2
    <3> QED
      BY <1>1, <1>3, <3>1
  <2> QED
    BY <1>2, <2>1, <2>2
<1> HIDE DEF T, t1, t2, d1, d2, c1, c2, d, c
<1>8. /\ c1 * t1 \in Int /\ c2 * t2 \in Int /\ t1 * d1 \in Int /\ t2 * d2 \in Int
      /\ (c1 * t1) * S \in Int /\ (c2 * t2) * S \in Int /\ c * S \in Int /\ c * T \in Int
      /\ T * d \in Int /\ T * (c * S) \in Int /\ (c * T) * S \in Int
  BY <1>1, <1>3
<1>9. T * d >= (c1 * t1 + c2 * t2) * S
  <2>1. (c1 * t1 + c2 * t2) * S = (c1 * t1) * S + (c2 * t2) * S
    BY <1>8
  <2> QED
    BY <1>4, <1>6, <1>7, <1>8, <2>1
<1>10. (c1 * t1 + c2 * t2) * S > (c * T) * S
  <2>1. c1 * t1 + c2 * t2 \in Int /\ c1 * t1 + c2 * t2 >= c * T + 1
    BY <1>1, <1>8
  <2>2. S * (c1 * t1 + c2 * t2) >= S * (c * T + 1)
    BY <1>8, <2>1, MulMono
  <2>3. S * (c * T + 1) = (c * T) * S + S
    BY <1>8
  <2>4. S * (c1 * t1 + c2 * t2) = (c1 * t1 + c2 * t2) * S
    BY <2>1
  <2>5. S * (c1 * t1 + c2 * t2) \in Int
    BY <2>1
  <2> QED
    BY <1>8, <2>2, <2>3, <2>4, <2>5
<1>11. T * d <= T * (c * S)
  BY <1>1, <1>3, <1>5, <1>8, MulMono
<1>12. T * (c * S) = (c * T) * S
  BY <1>1
<1>13. (c1 * t1 + c2 * t2) * S \in Int
  BY <1>8
<1> QED
  BY <1>8, <1>9, <1>10, <1>11, <1>12, <1>13

\* A feasible basis without artificials at work and with no negative reduced cost is best.
LEMMA NoColumnBest ==
  ASSUME NEW P, IsProgram(P), NEW B \in Bases(P), NEW phase \in {2, 3}, ~Singular(P, B),
         \A i \in Row : Basic(P, B)[i] >= 0 /\ (B[i] > P.n => Basic(P, B)[i] = 0),
         \A j \in Original(P) \ BasisSet(B) : Reduced(P, phase, B, j) >= 0
  PROVE  Best(P, B)
<1> DEFINE w == BasicCost(P, phase, B)
           y == Btran(P, B, w)
           S == Size(P, B)
<1>1. 1 \in Row /\ 2 \in Row
  BY DEF Row
<1>2. /\ Cost(P, phase, B[1]) \in Int /\ Cost(P, phase, B[2]) \in Int
      /\ Cost(P, 2, B[1]) \in Int /\ Cost(P, 2, B[2]) \in Int
      /\ B[1] \in Original(P) => Cost(P, phase, B[1]) = Cost(P, 2, B[1])
      /\ B[2] \in Original(P) => Cost(P, phase, B[2]) = Cost(P, 2, B[2])
  BY <1>1, PlacesAre, CostIs
<1>3. Pair(w) /\ w[1] = Cost(P, phase, B[1]) /\ w[2] = Cost(P, phase, B[2])
  BY <1>2 DEF BasicCost, Pair
<1>4. Pair(y)
  BY <1>3, RightSide, PricesAre
<1>5. \A j \in Original(P) : Dot(y, Column(P, j)) <= P.c[j] * S
  BY DualPrices
<1>6. S \in Int /\ S > 0
  BY BasisIs
<1>7. Vertex(P, B)
  BY DEF Vertex
<1>8. Dot(y, P.b) = Objective(P, 2, B)
  <2>1. Dot(y, P.b) = w[1] * Basic(P, B)[1] + w[2] * Basic(P, B)[2]
    BY <1>3, RightSide, PricesAre DEF Basic
  <2>2. Objective(P, 2, B) = Cost(P, 2, B[1]) * Basic(P, B)[1] + Cost(P, 2, B[2]) * Basic(P, B)[2]
    BY DEF Objective, BasicCost, Dot
  <2>3. w[1] * Basic(P, B)[1] = Cost(P, 2, B[1]) * Basic(P, B)[1]
    <3>1. CASE B[1] \in Original(P)
      BY <1>2, <1>3, <3>1
    <3>2. CASE B[1] > P.n
      BY <1>1, <1>2, <1>3, <3>2
    <3> QED
      BY <1>1, <3>1, <3>2, PlacesAre
  <2>4. w[2] * Basic(P, B)[2] = Cost(P, 2, B[2]) * Basic(P, B)[2]
    <3>1. CASE B[2] \in Original(P)
      BY <1>2, <1>3, <3>1
    <3>2. CASE B[2] > P.n
      BY <1>1, <1>2, <1>3, <3>2
    <3> QED
      BY <1>1, <3>1, <3>2, PlacesAre
  <2> QED
    BY <2>1, <2>2, <2>3, <2>4
<1> HIDE DEF S, y
<1>9. ASSUME NEW C \in Vertices(P)
      PROVE  Objective(P, 2, B) * Size(P, C) <= Objective(P, 2, C) * S
  <2>1. Size(P, C) * Dot(y, P.b) <= Objective(P, 2, C) * S
    BY <1>4, <1>5, <1>6, WeakDuality
  <2>2. Size(P, C) \in Int /\ Dot(y, P.b) \in Int
    BY <1>4, VertexIs, DotIs, RightSide
  <2>3. Size(P, C) * Dot(y, P.b) = Dot(y, P.b) * Size(P, C)
    BY <2>2
  <2> QED
    BY <1>8, <2>1, <2>3
<1>10. ~HasRay(P)
  BY <1>4, <1>5, <1>6, PricesLeaveNoRay
<1> QED
  BY <1>7, <1>9, <1>10 DEF Best, S

\* A ray leaves the artificials where they are: what they cost does not matter.
LEMMA RayImproves ==
  ASSUME NEW P, IsProgram(P), NEW B \in Bases(P), NEW phase \in {2, 3}, ~Singular(P, B),
         NEW j \in Original(P) \ BasisSet(B), Reduced(P, phase, B, j) < 0, Ray(P, B, j)
  PROVE  HasRay(P)
<1> DEFINE t1 == Taken(P, B, j)[1]
           t2 == Taken(P, B, j)[2]
           e1 == Cost(P, phase, B[1])
           e2 == Cost(P, phase, B[2])
           c1 == Cost(P, 2, B[1])
           c2 == Cost(P, 2, B[2])
<1>1. /\ Reduced(P, phase, B, j) = P.c[j] * Size(P, B) - (e1 * t1 + e2 * t2)
      /\ Reduced(P, 2, B, j) = P.c[j] * Size(P, B) - (c1 * t1 + c2 * t2)
      /\ e1 \in Int /\ e2 \in Int /\ c1 \in Int /\ c2 \in Int /\ t1 \in Int /\ t2 \in Int
  BY TakenIs DEF Pair
<1>2. 1 \in Row /\ 2 \in Row
  BY DEF Row
<1>3. e1 = c1 \/ t1 = 0
  BY <1>2, PlacesAre, CostIs DEF Ray
<1>4. e2 = c2 \/ t2 = 0
  BY <1>2, PlacesAre, CostIs DEF Ray
<1>5. Reduced(P, 2, B, j) < 0
  <2> HIDE DEF t1, t2, e1, e2, c1, c2
  <2>1. e1 * t1 = c1 * t1 /\ e2 * t2 = c2 * t2
    BY <1>1, <1>3, <1>4
  <2> QED
    BY <1>1, <2>1
<1> QED
  BY <1>5 DEF HasRay

\* The prices of one row measure what that row takes.
LEMMA RowPrices ==
  ASSUME NEW P, IsProgram(P), NEW B \in Bases(P), NEW i \in Row, NEW v, Pair(v)
  PROVE  /\ Pair(Btran(P, B, Unit(i)))
         /\ Dot(Btran(P, B, Unit(i)), v) = Ftran(P, B, v)[i]
<1>1. i = 1 \/ i = 2
  BY DEF Row
<1>2. Pair(Unit(i)) /\ Unit(1)[1] = 1 /\ Unit(1)[2] = 0 /\ Unit(2)[1] = 0 /\ Unit(2)[2] = 1
  BY <1>1 DEF Unit, Row, Pair
<1>3. Pair(Ftran(P, B, v))
  BY SolveIs
<1>4. /\ Pair(Btran(P, B, Unit(i)))
      /\ Dot(Btran(P, B, Unit(i)), v)
           = Unit(i)[1] * Ftran(P, B, v)[1] + Unit(i)[2] * Ftran(P, B, v)[2]
  BY <1>2, PricesAre
<1> DEFINE z == Ftran(P, B, v)
<1> HIDE DEF z
<1>5. CASE i = 1
  <2>1. Unit(i)[1] * z[1] + Unit(i)[2] * z[2] = z[1]
    BY <1>2, <1>3, <1>5 DEF Pair, z
  <2> QED
    BY <1>4, <1>5, <2>1 DEF z
<1>6. CASE i = 2
  <2>1. Unit(i)[1] * z[1] + Unit(i)[2] * z[2] = z[2]
    BY <1>2, <1>3, <1>6 DEF Pair, z
  <2> QED
    BY <1>4, <1>6, <2>1 DEF z
<1> QED
  BY <1>1, <1>5, <1>6

\* A negative variable that no column raises, and a positive artificial that no column
\* lowers, leave no vertex.
LEMMA DeadRowRefutes ==
  ASSUME NEW P, IsProgram(P), NEW B \in Bases(P), NEW i \in Row,
         \/ /\ Basic(P, B)[i] < 0
            /\ \A j \in Original(P) \ BasisSet(B) : Taken(P, B, j)[i] >= 0
         \/ /\ Basic(P, B)[i] > 0 /\ B[i] > P.n
            /\ \A j \in Original(P) \ BasisSet(B) : Taken(P, B, j)[i] <= 0
  PROVE  ~Feasible(P)
<1> DEFINE y == Btran(P, B, Unit(i))
<1>1. Pair(y) /\ Dot(y, P.b) = Basic(P, B)[i]
  BY RowPrices, RightSide DEF Basic
<1>2. ASSUME NEW j \in Original(P)
      PROVE  Dot(y, Column(P, j)) = Taken(P, B, j)[i] /\ Taken(P, B, j)[i] \in Int
  <2>1. Pair(Column(P, j))
    BY ColumnIs DEF Pair
  <2> QED
    BY <2>1, RowPrices, SolveIs DEF Taken, Pair, Row
<1>3. Basic(P, B)[i] \in Int
  BY RightSide, SolveIs DEF Basic, Pair, Row
<1>4. i = 1 \/ i = 2
  BY DEF Row
<1>5. ASSUME NEW j \in Original(P), j \in BasisSet(B)
      PROVE  /\ Taken(P, B, j)[i] >= 0
             /\ B[i] > P.n => Taken(P, B, j)[i] = 0
  <2>1. (j = B[1] \/ j = B[2]) /\ Size(P, B) >= 0
    BY <1>5, BasisIs DEF BasisSet, Row
  <2>2. B[i] > P.n => j # B[i]
    BY <1>5, PlacesAre
  <2> QED
    BY <1>4, <2>1, <2>2, OwnColumn
<1> HIDE DEF y
<1>6. CASE /\ Basic(P, B)[i] < 0
           /\ \A j \in Original(P) \ BasisSet(B) : Taken(P, B, j)[i] >= 0
  <2>1. (-1) * Dot(y, P.b) > 0
    BY <1>1, <1>3, <1>6
  <2>2. ASSUME NEW j \in Original(P) PROVE (-1) * Dot(y, Column(P, j)) <= 0
    BY <1>2, <1>5, <1>6
  <2> QED
    BY <1>1, <2>1, <2>2, PricesRefute
<1>7. CASE /\ Basic(P, B)[i] > 0 /\ B[i] > P.n
           /\ \A j \in Original(P) \ BasisSet(B) : Taken(P, B, j)[i] <= 0
  <2>1. 1 * Dot(y, P.b) > 0
    BY <1>1, <1>3, <1>7
  <2>2. ASSUME NEW j \in Original(P) PROVE 1 * Dot(y, Column(P, j)) <= 0
    BY <1>2, <1>5, <1>7
  <2> QED
    BY <1>1, <2>1, <2>2, PricesRefute
<1> QED
  BY <1>6, <1>7

\* What a reduced cost is, by components.
LEMMA ReducedForIs ==
  ASSUME NEW P, IsProgram(P), NEW B \in Bases(P), NEW own \in Int,
         NEW w, Pair(w), NEW j \in Original(P)
  PROVE  /\ Pair(Taken(P, B, j)) /\ Size(P, B) \in Int
         /\ ReducedFor(P, own, w, B, j)
              = own * Size(P, B) - (w[1] * Taken(P, B, j)[1] + w[2] * Taken(P, B, j)[2])
         /\ ReducedFor(P, own, w, B, j) \in Int
<1>1. Pair(Column(P, j)) /\ Size(P, B) \in Int
  BY ColumnIs, BasisIs DEF Pair
<1>2. Pair(Taken(P, B, j))
  BY <1>1, SolveIs DEF Taken
<1>3. Dot(Btran(P, B, w), Column(P, j)) = w[1] * Taken(P, B, j)[1] + w[2] * Taken(P, B, j)[2]
  BY <1>1, PricesAre DEF Taken
<1>4. ReducedFor(P, own, w, B, j)
        = own * Size(P, B) - (w[1] * Taken(P, B, j)[1] + w[2] * Taken(P, B, j)[2])
  BY <1>3 DEF ReducedFor
<1>5. own * Size(P, B) - (w[1] * Taken(P, B, j)[1] + w[2] * Taken(P, B, j)[2]) \in Int
  BY <1>1, <1>2 DEF Pair
<1> QED
  BY <1>1, <1>2, <1>4, <1>5

\* The reduced costs after a pivot in the first or the second row, from those before:
\* p and q are the columns of the basis, v enters, u is any column.
LEMMA PivotFirst ==
  ASSUME NEW p1 \in Int, NEW p2 \in Int, NEW q1 \in Int, NEW q2 \in Int,
         NEW v1 \in Int, NEW v2 \in Int, NEW u1 \in Int, NEW u2 \in Int,
         NEW cp \in Int, NEW cq \in Int, NEW cv \in Int, NEW cu \in Int
  PROVE  (cu * (v1 * q2 - v2 * q1) - (cv * (u1 * q2 - u2 * q1) + cq * (v1 * u2 - v2 * u1))) * (p1 * q2 - p2 * q1)
           = (v1 * q2 - v2 * q1) * (cu * (p1 * q2 - p2 * q1) - (cp * (u1 * q2 - u2 * q1) + cq * (p1 * u2 - p2 * u1)))
             - (u1 * q2 - u2 * q1) * (cv * (p1 * q2 - p2 * q1) - (cp * (v1 * q2 - v2 * q1) + cq * (p1 * v2 - p2 * v1)))
  OBVIOUS

\* The same in the second row.
LEMMA PivotSecond ==
  ASSUME NEW p1 \in Int, NEW p2 \in Int, NEW q1 \in Int, NEW q2 \in Int,
         NEW v1 \in Int, NEW v2 \in Int, NEW u1 \in Int, NEW u2 \in Int,
         NEW cp \in Int, NEW cq \in Int, NEW cv \in Int, NEW cu \in Int
  PROVE  (cu * (p1 * v2 - p2 * v1) - (cp * (u1 * v2 - u2 * v1) + cv * (p1 * u2 - p2 * u1))) * (p1 * q2 - p2 * q1)
           = (p1 * v2 - p2 * v1) * (cu * (p1 * q2 - p2 * q1) - (cp * (u1 * q2 - u2 * q1) + cq * (p1 * u2 - p2 * u1)))
             - (p1 * u2 - p2 * u1) * (cv * (p1 * q2 - p2 * q1) - (cp * (v1 * q2 - v2 * q1) + cq * (p1 * v2 - p2 * v1)))
  OBVIOUS

\* The same with the signs of the two determinants.
LEMMA PivotSigns ==
  ASSUME NEW s \in {-1, 1}, NEW t \in {-1, 1}, NEW E \in Int, NEW D \in Int, NEW X \in Int,
         NEW Y \in Int, NEW F \in Int, NEW G \in Int, E * D = X * F - Y * G
  PROVE  (t * E) * (s * D) = (t * s) * ((s * X) * (s * F) - (s * Y) * (s * G))
<1>1. (s * X) * (s * F) = X * F /\ (s * Y) * (s * G) = Y * G
  OBVIOUS
<1>2. (t * E) * (s * D) = (t * s) * (E * D)
  OBVIOUS
<1> QED
  BY <1>1, <1>2

\* The ratio test keeps a reduced cost nonnegative.
LEMMA RatioKeeps ==
  ASSUME NEW S \in Int, S > 0, NEW way \in {-1, 1}, NEW a \in Int, way * a > 0, NEW e \in Int,
         NEW r \in Int, r >= 0, NEW q \in Int, q >= 0, NEW n \in Int,
         way * e > 0 => r * way * e <= q * way * a,
         n * S = way * (a * q - e * r)
  PROVE  n >= 0
<1>1. way * (a * q - e * r) >= 0
  <2>1. way * (a * q - e * r) = (way * a) * q - (way * e) * r
    OBVIOUS
  <2>2. (way * a) * q \in Int /\ (way * e) * r \in Int
    OBVIOUS
  <2>3. CASE way * e > 0
    <3>1. (way * e) * r = r * way * e /\ (way * a) * q = q * way * a
      OBVIOUS
    <3> QED
      BY <2>1, <2>2, <2>3, <3>1
  <2>4. CASE ~(way * e > 0)
    <3>1. (way * a) * q >= 0
      BY MulMono
    <3>2. (-(way * e)) * r >= 0
      BY <2>4
    <3>3. (-(way * e)) * r = -((way * e) * r)
      OBVIOUS
    <3> QED
      BY <2>1, <2>2, <3>1, <3>2, <3>3
  <2> QED
    BY <2>3, <2>4
<1> SUFFICES ASSUME n < 0 PROVE FALSE
  OBVIOUS
<1>2. n * S < 0
  OBVIOUS
<1> QED
  BY <1>1, <1>2

\* A pivot a moves the leaving variable the right way.
Moves(way, a) == way \in {-1, 1} /\ way * a > 0

\* How the reduced cost q of a column becomes n: r is that of the entering column, and a and
\* e are what the two take from the row, in a basis of size S.
Updates(way, S, a, e, q, r, n) == n * S = way * (a * q - e * r)

\* What the ratio test has seen of the same numbers.
Tested(way, a, e, q, r) ==
  q >= 0 /\ r >= 0 /\ (way * e > 0 => r * way * e <= q * way * a)

\* x is w with c in place of its entry i.
Replaced(w, i, c, x) ==
  /\ Pair(x)
  /\ i = 1 => x[1] = c /\ x[2] = w[2]
  /\ i = 2 => x[1] = w[1] /\ x[2] = c

\* A pivot that moves the right way fixes the sign of the next determinant.
LEMMA SignsMeet ==
  ASSUME NEW s \in {-1, 1}, NEW t \in {-1, 1}, NEW way \in {-1, 1}, NEW X \in Int,
         t * X >= 0, way * (s * X) > 0
  PROVE  t * s = way /\ X # 0
  OBVIOUS

\* The reduced costs after a pivot that moves the leaving variable the right way;
\* in the first row.
LEMMA PivotedFirst ==
  ASSUME NEW P, IsProgram(P), NEW B \in Bases(P), ~Singular(P, B), NEW j \in Original(P), NEW C \in Bases(P),
         C = [B EXCEPT ![1] = j], NEW way, Moves(way, Taken(P, B, j)[1]),
         NEW k \in Original(P),
         NEW cj \in Int, NEW ck \in Int, NEW w, Pair(w), NEW x, Replaced(w, 1, cj, x)
  PROVE  /\ ~Singular(P, C)
         /\ Updates(way, Size(P, B), Taken(P, B, j)[1], Taken(P, B, k)[1],
                    ReducedFor(P, ck, w, B, k), ReducedFor(P, cj, w, B, j), ReducedFor(P, ck, x, C, k))
<1>0. /\ ReducedFor(P, ck, w, B, k)
            = ck * Size(P, B) - (w[1] * Taken(P, B, k)[1] + w[2] * Taken(P, B, k)[2])
      /\ ReducedFor(P, cj, w, B, j)
            = cj * Size(P, B) - (w[1] * Taken(P, B, j)[1] + w[2] * Taken(P, B, j)[2])
      /\ ReducedFor(P, ck, x, C, k)
            = ck * Size(P, C) - (x[1] * Taken(P, C, k)[1] + x[2] * Taken(P, C, k)[2])
      /\ Pair(w) /\ w[1] \in Int /\ w[2] \in Int
  <2>1. Pair(x) /\ w[1] \in Int /\ w[2] \in Int
    BY DEF Pair, Replaced
  <2>2. ReducedFor(P, ck, w, B, k)
          = ck * Size(P, B) - (w[1] * Taken(P, B, k)[1] + w[2] * Taken(P, B, k)[2])
    BY ReducedForIs
  <2>3. ReducedFor(P, cj, w, B, j)
          = cj * Size(P, B) - (w[1] * Taken(P, B, j)[1] + w[2] * Taken(P, B, j)[2])
    BY ReducedForIs
  <2>4. ReducedFor(P, ck, x, C, k)
          = ck * Size(P, C) - (x[1] * Taken(P, C, k)[1] + x[2] * Taken(P, C, k)[2])
    <3>1. ASSUME NEW z, Pair(z)
          PROVE  ReducedFor(P, ck, z, C, k)
                   = ck * Size(P, C) - (z[1] * Taken(P, C, k)[1] + z[2] * Taken(P, C, k)[2])
      BY <3>1, ReducedForIs
    <3> QED
      BY <2>1, <3>1
  <2> QED
    BY <2>1, <2>2, <2>3, <2>4, Zenon
<1>r. x[1] = cj /\ x[2] = w[2] /\ C[1] = j /\ C[2] = B[2]
  BY DEF Replaced, Bases, Row
<1> DEFINE c1 == w[1]
           c2 == w[2]
           p == Column(P, B[1])
           q == Column(P, B[2])
           v == Column(P, j)
           u == Column(P, k)
           s == Sign(P, B)
           t == Sign(P, C)
           D == p[1] * q[2] - p[2] * q[1]
           X == v[1] * q[2] - v[2] * q[1]
           Y == u[1] * q[2] - u[2] * q[1]
           pv == p[1] * v[2] - p[2] * v[1]
           pu == p[1] * u[2] - p[2] * u[1]
           vu == v[1] * u[2] - v[2] * u[1]
           E == ck * X - (cj * Y + c2 * vu)
           F == ck * D - (c1 * Y + c2 * pu)
           G == cj * D - (c1 * X + c2 * pv)
<1>w. way \in {-1, 1} /\ way * Taken(P, B, j)[1] > 0
  BY DEF Moves
<1>1. /\ Pair(p) /\ Pair(q) /\ Pair(v) /\ Pair(u) /\ s \in {-1, 1} /\ t \in {-1, 1}
      /\ c1 \in Int /\ c2 \in Int
  BY BasisIs, ColumnIs DEF Pair
<1>2. /\ D \in Int /\ X \in Int /\ Y \in Int /\ pv \in Int /\ pu \in Int /\ vu \in Int
      /\ E \in Int /\ F \in Int /\ G \in Int
  <2>1. D \in Int /\ X \in Int /\ Y \in Int /\ pv \in Int /\ pu \in Int /\ vu \in Int
    BY <1>1 DEF Pair
  <2> HIDE DEF D, X, Y, pv, pu, vu, c1, c2
  <2> QED
    BY <1>1, <2>1
<1>3. /\ Size(P, B) = s * D /\ Size(P, B) > 0 /\ Size(P, C) = t * X /\ Size(P, C) >= 0
      /\ Singular(P, C) <=> X = 0
  <2>1. Size(P, B) = s * Det(P, B) /\ Size(P, B) > 0
    BY BasisIs
  <2>2. Size(P, C) = t * Det(P, C) /\ Size(P, C) >= 0
    BY BasisIs
  <2>3. Det(P, B) = D /\ Det(P, C) = X
    BY <1>r DEF Det, Cross
  <2> QED
    BY <2>1, <2>2, <2>3 DEF Singular
<1>4. /\ Taken(P, B, j)[1] = s * X /\ Taken(P, B, j)[2] = s * pv
      /\ Taken(P, B, k)[1] = s * Y /\ Taken(P, B, k)[2] = s * pu
      /\ Taken(P, C, k)[1] = t * Y /\ Taken(P, C, k)[2] = t * vu
  BY <1>r DEF Taken, Ftran, Cross
<1>5. /\ ReducedFor(P, ck, w, B, k) = ck * (s * D) - (c1 * (s * Y) + c2 * (s * pu))
      /\ ReducedFor(P, cj, w, B, j) = cj * (s * D) - (c1 * (s * X) + c2 * (s * pv))
      /\ ReducedFor(P, ck, x, C, k) = ck * (t * X) - (cj * (t * Y) + c2 * (t * vu))
  <2> HIDE DEF D, X, Y, pv, pu, vu, s, t
  <2> QED
    BY <1>0, <1>r, <1>3, <1>4
<1>6. E * D = X * F - Y * G
  BY <1>1, PivotFirst DEF Pair
<1> HIDE DEF c1, c2, p, q, v, u, s, t, D, X, Y, pv, pu, vu
<1>7. /\ ReducedFor(P, ck, w, B, k) = s * F
      /\ ReducedFor(P, cj, w, B, j) = s * G
      /\ ReducedFor(P, ck, x, C, k) = t * E
  BY <1>1, <1>2, <1>5
<1> HIDE DEF E, F, G
<1>8. t * s = way /\ X # 0
  BY <1>w, <1>1, <1>2, <1>3, <1>4, SignsMeet
<1>9. (t * E) * (s * D) = way * ((s * X) * (s * F) - (s * Y) * (s * G))
  BY <1>1, <1>2, <1>6, <1>8, PivotSigns
<1> QED
  BY <1>3, <1>4, <1>7, <1>8, <1>9 DEF Updates

\* The reduced costs after a pivot that moves the leaving variable the right way;
\* in the second row.
LEMMA PivotedSecond ==
  ASSUME NEW P, IsProgram(P), NEW B \in Bases(P), ~Singular(P, B), NEW j \in Original(P), NEW C \in Bases(P),
         C = [B EXCEPT ![2] = j], NEW way, Moves(way, Taken(P, B, j)[2]),
         NEW k \in Original(P),
         NEW cj \in Int, NEW ck \in Int, NEW w, Pair(w), NEW x, Replaced(w, 2, cj, x)
  PROVE  /\ ~Singular(P, C)
         /\ Updates(way, Size(P, B), Taken(P, B, j)[2], Taken(P, B, k)[2],
                    ReducedFor(P, ck, w, B, k), ReducedFor(P, cj, w, B, j), ReducedFor(P, ck, x, C, k))
<1>0. /\ ReducedFor(P, ck, w, B, k)
            = ck * Size(P, B) - (w[1] * Taken(P, B, k)[1] + w[2] * Taken(P, B, k)[2])
      /\ ReducedFor(P, cj, w, B, j)
            = cj * Size(P, B) - (w[1] * Taken(P, B, j)[1] + w[2] * Taken(P, B, j)[2])
      /\ ReducedFor(P, ck, x, C, k)
            = ck * Size(P, C) - (x[1] * Taken(P, C, k)[1] + x[2] * Taken(P, C, k)[2])
      /\ Pair(w) /\ w[1] \in Int /\ w[2] \in Int
  <2>1. Pair(x) /\ w[1] \in Int /\ w[2] \in Int
    BY DEF Pair, Replaced
  <2>2. ReducedFor(P, ck, w, B, k)
          = ck * Size(P, B) - (w[1] * Taken(P, B, k)[1] + w[2] * Taken(P, B, k)[2])
    BY ReducedForIs
  <2>3. ReducedFor(P, cj, w, B, j)
          = cj * Size(P, B) - (w[1] * Taken(P, B, j)[1] + w[2] * Taken(P, B, j)[2])
    BY ReducedForIs
  <2>4. ReducedFor(P, ck, x, C, k)
          = ck * Size(P, C) - (x[1] * Taken(P, C, k)[1] + x[2] * Taken(P, C, k)[2])
    <3>1. ASSUME NEW z, Pair(z)
          PROVE  ReducedFor(P, ck, z, C, k)
                   = ck * Size(P, C) - (z[1] * Taken(P, C, k)[1] + z[2] * Taken(P, C, k)[2])
      BY <3>1, ReducedForIs
    <3> QED
      BY <2>1, <3>1
  <2> QED
    BY <2>1, <2>2, <2>3, <2>4, Zenon
<1>r. x[1] = w[1] /\ x[2] = cj /\ C[1] = B[1] /\ C[2] = j
  BY DEF Replaced, Bases, Row
<1> DEFINE c1 == w[1]
           c2 == w[2]
           p == Column(P, B[1])
           q == Column(P, B[2])
           v == Column(P, j)
           u == Column(P, k)
           s == Sign(P, B)
           t == Sign(P, C)
           D == p[1] * q[2] - p[2] * q[1]
           X == p[1] * v[2] - p[2] * v[1]
           Y == p[1] * u[2] - p[2] * u[1]
           vq == v[1] * q[2] - v[2] * q[1]
           uq == u[1] * q[2] - u[2] * q[1]
           uv == u[1] * v[2] - u[2] * v[1]
           E == ck * X - (c1 * uv + cj * Y)
           F == ck * D - (c1 * uq + c2 * Y)
           G == cj * D - (c1 * vq + c2 * X)
<1>w. way \in {-1, 1} /\ way * Taken(P, B, j)[2] > 0
  BY DEF Moves
<1>1. /\ Pair(p) /\ Pair(q) /\ Pair(v) /\ Pair(u) /\ s \in {-1, 1} /\ t \in {-1, 1}
      /\ c1 \in Int /\ c2 \in Int
  BY BasisIs, ColumnIs DEF Pair
<1>2. /\ D \in Int /\ X \in Int /\ Y \in Int /\ vq \in Int /\ uq \in Int /\ uv \in Int
      /\ E \in Int /\ F \in Int /\ G \in Int
  <2>1. D \in Int /\ X \in Int /\ Y \in Int /\ vq \in Int /\ uq \in Int /\ uv \in Int
    BY <1>1 DEF Pair
  <2> HIDE DEF D, X, Y, vq, uq, uv, c1, c2
  <2> QED
    BY <1>1, <2>1
<1>3. /\ Size(P, B) = s * D /\ Size(P, B) > 0 /\ Size(P, C) = t * X /\ Size(P, C) >= 0
      /\ Singular(P, C) <=> X = 0
  <2>1. Size(P, B) = s * Det(P, B) /\ Size(P, B) > 0
    BY BasisIs
  <2>2. Size(P, C) = t * Det(P, C) /\ Size(P, C) >= 0
    BY BasisIs
  <2>3. Det(P, B) = D /\ Det(P, C) = X
    BY <1>r DEF Det, Cross
  <2> QED
    BY <2>1, <2>2, <2>3 DEF Singular
<1>4. /\ Taken(P, B, j)[2] = s * X /\ Taken(P, B, j)[1] = s * vq
      /\ Taken(P, B, k)[2] = s * Y /\ Taken(P, B, k)[1] = s * uq
      /\ Taken(P, C, k)[2] = t * Y /\ Taken(P, C, k)[1] = t * uv
  BY <1>r DEF Taken, Ftran, Cross
<1>5. /\ ReducedFor(P, ck, w, B, k) = ck * (s * D) - (c1 * (s * uq) + c2 * (s * Y))
      /\ ReducedFor(P, cj, w, B, j) = cj * (s * D) - (c1 * (s * vq) + c2 * (s * X))
      /\ ReducedFor(P, ck, x, C, k) = ck * (t * X) - (c1 * (t * uv) + cj * (t * Y))
  <2> HIDE DEF D, X, Y, vq, uq, uv, s, t
  <2> QED
    BY <1>0, <1>r, <1>3, <1>4
<1>6. E * D = X * F - Y * G
  BY <1>1, PivotSecond DEF Pair
<1> HIDE DEF c1, c2, p, q, v, u, s, t, D, X, Y, vq, uq, uv
<1>7. /\ ReducedFor(P, ck, w, B, k) = s * F
      /\ ReducedFor(P, cj, w, B, j) = s * G
      /\ ReducedFor(P, ck, x, C, k) = t * E
  BY <1>1, <1>2, <1>5
<1> HIDE DEF E, F, G
<1>8. t * s = way /\ X # 0
  BY <1>w, <1>1, <1>2, <1>3, <1>4, SignsMeet
<1>9. (t * E) * (s * D) = way * ((s * X) * (s * F) - (s * Y) * (s * G))
  BY <1>1, <1>2, <1>6, <1>8, PivotSigns
<1> QED
  BY <1>3, <1>4, <1>7, <1>8, <1>9 DEF Updates

\* A pivot the ratio test allows leads to a basis that is not singular, and keeps every
\* reduced cost nonnegative.
LEMMA PivotKeeps ==
  ASSUME NEW P, IsProgram(P), NEW B \in Bases(P), ~Singular(P, B), NEW i \in Row,
         NEW j \in Original(P), NEW C \in Bases(P), C = [B EXCEPT ![i] = j],
         NEW way, Moves(way, Taken(P, B, j)[i]),
         NEW k \in Original(P), NEW cj \in Int, NEW ck \in Int, NEW w, Pair(w), NEW x, Replaced(w, i, cj, x)
  PROVE  /\ ~Singular(P, C)
         /\ Tested(way, Taken(P, B, j)[i], Taken(P, B, k)[i],
                   ReducedFor(P, ck, w, B, k), ReducedFor(P, cj, w, B, j))
              => ReducedFor(P, ck, x, C, k) >= 0
<1>1. (i = 1 \/ i = 2) /\ 1 \in Row /\ 2 \in Row /\ B \in [Row -> Original(P) \cup Artificial(P)]
  BY DEF Row, Bases
<1>3. Pair(x)
  BY DEF Replaced
<1> DEFINE S == Size(P, B)
           a == Taken(P, B, j)[i]
           e == Taken(P, B, k)[i]
           q == ReducedFor(P, ck, w, B, k)
           r == ReducedFor(P, cj, w, B, j)
           n == ReducedFor(P, ck, x, C, k)
<1>4. ~Singular(P, C) /\ Updates(way, S, a, e, q, r, n)
  <2>1. CASE i = 1
    <3>1. C = [B EXCEPT ![1] = j] /\ Replaced(w, 1, cj, x) /\ Moves(way, Taken(P, B, j)[1])
      BY <2>1
    <3>2. /\ ~Singular(P, C)
          /\ Updates(way, Size(P, B), Taken(P, B, j)[1], Taken(P, B, k)[1],
                     ReducedFor(P, ck, w, B, k), ReducedFor(P, cj, w, B, j), ReducedFor(P, ck, x, C, k))
      BY <3>1, PivotedFirst
    <3> QED
      BY <2>1, <3>2
  <2>2. CASE i = 2
    <3>1. C = [B EXCEPT ![2] = j] /\ Replaced(w, 2, cj, x) /\ Moves(way, Taken(P, B, j)[2])
      BY <2>2
    <3>2. /\ ~Singular(P, C)
          /\ Updates(way, Size(P, B), Taken(P, B, j)[2], Taken(P, B, k)[2],
                     ReducedFor(P, ck, w, B, k), ReducedFor(P, cj, w, B, j), ReducedFor(P, ck, x, C, k))
      BY <3>1, PivotedSecond
    <3> QED
      BY <2>2, <3>2
  <2> QED
    BY <1>1, <2>1, <2>2
<1>5. q \in Int /\ r \in Int /\ S \in Int /\ S > 0
  <2>1. S \in Int /\ S > 0
    BY BasisIs
  <2>2. q \in Int
    BY ReducedForIs
  <2>3. r \in Int
    BY ReducedForIs
  <2> QED
    BY <2>1, <2>2, <2>3
<1>6. n \in Int
  <2>1. ASSUME NEW z, Pair(z) PROVE ReducedFor(P, ck, z, C, k) \in Int
    BY <2>1, ReducedForIs
  <2> QED
    BY <1>3, <2>1
<1>7. a \in Int /\ e \in Int
  <2>1. Pair(Taken(P, B, j)) /\ Pair(Taken(P, B, k))
    BY ReducedForIs
  <2> QED
    BY <1>1, <2>1 DEF Pair
<1>8. way \in {-1, 1} /\ way * a > 0
  BY DEF Moves
<1> HIDE DEF S, a, e, q, r, n
<1>9. ASSUME Tested(way, a, e, q, r)
      PROVE  n >= 0
  BY <1>4, <1>5, <1>6, <1>7, <1>8, <1>9, RatioKeeps DEF Updates, Tested
<1> QED
  BY <1>4, <1>9 DEF S, a, e, q, r, n

-----------------------------------------------------------------------------
(* Bases and frames *)

\* Locals of an iteration on the program P.
Framed(P, c) ==
  /\ {"phase", "artificials", "snapshot"} \subseteq DOMAIN c
  /\ c.snapshot \in Bases(P) /\ c.artificials \subseteq Artificial(P)

\* Nothing but the snapshot, and what the verdicts do not depend on, differs.
Alike(P, c, d) == Framed(P, d) /\ d.phase = c.phase /\ d.artificials = c.artificials

\* A column that is not basic in place of one that is makes a basis.
LEMMA EnteringIsBasis ==
  ASSUME NEW P, NEW B \in Bases(P), NEW i \in Row,
         NEW j \in (Original(P) \cup Artificial(P)) \ BasisSet(B)
  PROVE  [B EXCEPT ![i] = j] \in Bases(P)
<1> DEFINE C == [B EXCEPT ![i] = j]
<1>1. B \in [Row -> Original(P) \cup Artificial(P)] /\ B[1] # B[2]
  BY DEF Bases
<1>2. j # B[1] /\ j # B[2]
  BY DEF BasisSet, Row
<1>3. C \in [Row -> Original(P) \cup Artificial(P)]
  BY <1>1
<1>4. C[1] # C[2]
  BY <1>1, <1>2 DEF Row
<1> QED
  BY <1>3, <1>4 DEF Bases

\* What a primal and a dual call start from.
LEMMA FramesAreFramed ==
  ASSUME NEW P, NEW B \in Bases(P), NEW phase, NEW artificials \in SUBSET Artificial(P), NEW yields
  PROVE  /\ Framed(P, Frame(phase, B, artificials)) /\ Frame(phase, B, artificials).phase = phase
  BY DEF Framed, Frame

\* The artificials of a dual call are those of its start.
LEMMA DualFramesAreFramed ==
  ASSUME lp \in Programs, NEW B \in Bases(lp), NEW phase, NEW yields
  PROVE  /\ Framed(lp, DualFrame(phase, B, yields)) /\ DualFrame(phase, B, yields).phase = phase
<1>1. BasisSet(B) \ Original(lp) \subseteq Artificial(lp)
  BY DEF BasisSet, Bases, Row
<1> QED
  BY <1>1 DEF Framed, DualFrame

\* A new frame after some of its fields changed.
LEMMA MaskedAlike ==
  ASSUME NEW P, NEW c, Framed(P, c), NEW B \in Bases(P), NEW T
  PROVE  /\ Alike(P, c, c)
         /\ Alike(P, c, [c EXCEPT !.mask = T])
         /\ Alike(P, c, [c EXCEPT !.blocked = T])
         /\ Alike(P, c, [c EXCEPT !.snapshot = B])
         /\ Alike(P, c, [c EXCEPT !.mask = T, !.snapshot = B])
         /\ Alike(P, c, [c EXCEPT !.snapshot = B, !.blocked = T])
  BY DEF Alike, Framed

\* Noting a basis leaves the call as it is.
LEMMA NotedAlike ==
  ASSUME NEW P, NEW c, Framed(P, c), NEW B, NEW j
  PROVE  Alike(P, c, Noted(c, B, j))
<1>1. CASE B \in c.seen
  BY <1>1 DEF Noted, Alike, Framed
<1>2. CASE B \notin c.seen
  BY <1>2 DEF Noted, Alike, Framed
<1> QED
  BY <1>1, <1>2

\* Two such changes are one.
LEMMA AlikeTwice ==
  ASSUME NEW P, NEW b, NEW c, NEW d, Alike(P, b, c), Alike(P, c, d)
  PROVE  Alike(P, b, d)
  BY DEF Alike

-----------------------------------------------------------------------------
(* The primal iteration *)

\* What it keeps, and what its end as Optimal means.
PrimalKeeps ==
  /\ basis' \in Bases(lp) /\ Alike(lp, core, core')
  /\ outcome' = "Optimal" /\ core.phase # 1 =>
       ~Singular(lp, basis') /\ \A i \in Row : Basic(lp, basis')[i] >= 0
  /\ Running

\* revert_to_snapshot goes back to a basis, and claims nothing.
LEMMA RevertKeeps ==
  ASSUME basis \in Bases(lp), Running, NEW l, NEW j, NEW B \in Bases(lp), NEW ok, NEW c, Alike(lp, core, c),
         Revert(l, j, B, ok, c)
  PROVE  PrimalKeeps
<1>1. outcome' \in {"running", "SingularBasis", "Timeout"}
  BY DEF Revert, Return
<1>2. Framed(lp, c)
  BY DEF Alike
<1>3. \/ basis' = c.snapshot /\ \E T : core' = [c EXCEPT !.blocked = T]
      \/ basis' = B /\ core' = c
  BY DEF Revert
<1>4. basis' \in Bases(lp)
  BY <1>2, <1>3 DEF Framed
<1>5. Alike(lp, c, core')
  <2>1. c.snapshot \in Bases(lp)
    BY <1>2 DEF Framed
  <2>2. CASE \E T : core' = [c EXCEPT !.blocked = T]
    <3>1. PICK T : core' = [c EXCEPT !.blocked = T]
      BY <2>2
    <3>2. Alike(lp, c, [c EXCEPT !.blocked = T])
      BY <1>2, <2>1, MaskedAlike
    <3> QED
      BY <3>1, <3>2
  <2>3. CASE core' = c
    <3>1. Alike(lp, c, c)
      BY <1>2, <2>1, MaskedAlike
    <3> QED
      BY <2>3, <3>1
  <2> QED
    BY <1>3, <2>2, <2>3
<1> QED
  BY <1>1, <1>4, <1>5, AlikeTwice DEF PrimalKeeps

\* Nor does a pivot claim anything.
LEMMA SettleKeeps ==
  ASSUME basis \in Bases(lp), Running, NEW l, NEW j, NEW i, NEW B \in Bases(lp), NEW ok, NEW c, Alike(lp, core, c),
         Settle(l, j, i, B, ok, c)
  PROVE  PrimalKeeps
<1>1. CASE l.failed
  BY <1>1, RevertKeeps DEF Settle
<1>2. CASE ~l.failed
  <2>1. outcome' \in {"running", "Stalled"}
    BY <1>2 DEF Settle, Return
  <2>2. Framed(lp, c)
    BY DEF Alike
  <2>3. basis' = B /\ (core' = [c EXCEPT !.snapshot = B, !.blocked = {}] \/ core' = c)
    BY <1>2 DEF Settle
  <2>4. Alike(lp, c, core')
    <3>1. Alike(lp, c, [c EXCEPT !.snapshot = B, !.blocked = {}]) /\ Alike(lp, c, c)
      BY <2>2, MaskedAlike
    <3> QED
      BY <2>3, <3>1
  <2> QED
    BY <2>1, <2>3, <2>4, AlikeTwice DEF PrimalKeeps
<1> QED
  BY <1>1, <1>2

\* Every iteration of the primal simplex goes from basis to basis; its Optimal was looked
\* at on fresh factors.
LEMMA IterateKeeps ==
  ASSUME lp \in Programs, basis \in Bases(lp), Framed(lp, core), Manager(lu), Iterate, lp' = lp
  PROVE  PrimalKeeps
<1>0. Alike(lp, core, core)
  BY MaskedAlike
<1>1. CASE Halt
  <2>1. basis' = basis /\ core' = core /\ outcome' \in {"Timeout", "Stalled"} /\ Running
    BY <1>1 DEF Halt, Return
  <2> QED
    BY <1>0, <2>1 DEF PrimalKeeps
<1>2. CASE Conclude
  <2>1. basis' = basis /\ core' = [core EXCEPT !.mask = {}] /\ lu' = Refactored(lu, basis) /\ Running
    BY <1>2 DEF Conclude, Proceed
  <2>2. outcome' = "Optimal" =>
          /\ ~lu'.failed
          /\ core.phase # 1 => ~\E i \in Row : Basic(lp, basis)[i] < 0
    BY <1>2 DEF Conclude, Return, Phase1
  <2>3. outcome' = "Optimal" => ~Singular(lp, basis)
    <3>1. Refactored(lu, basis).failed \/ ~Singular(lp, basis)
      BY RefactoredIs
    <3> QED
      BY <2>1, <2>2, <3>1
  <2>4. ASSUME NEW i \in Row PROVE Basic(lp, basis)[i] \in Int
    <3>1. IsProgram(lp)
      BY ProgramsAssumption
    <3> QED
      BY <3>1, RightSide, SolveIs DEF Basic, Pair, Row
  <2>5. Alike(lp, core, core')
    BY <2>1, MaskedAlike
  <2> QED
    BY <2>1, <2>2, <2>3, <2>4, <2>5 DEF PrimalKeeps
<1>3. CASE \E j \in Priced : Distrust(j) \/ Unblocked(j) \/ RejectEta(j) \/ \E i \in Row : Pivot(j, i)
  <2>1. PICK j \in Priced : Distrust(j) \/ Unblocked(j) \/ RejectEta(j) \/ \E i \in Row : Pivot(j, i)
    BY <1>3
  <2>2. CASE Distrust(j)
    <3>1. Running /\ Revert(Refactored(lu, basis), j, basis, exact, [core EXCEPT !.mask = {}])
      BY <2>2 DEF Distrust, Proceed
    <3>2. Alike(lp, core, [core EXCEPT !.mask = {}])
      BY MaskedAlike
    <3> QED
      BY <3>1, <3>2, RevertKeeps
  <2>3. CASE Unblocked(j)
    <3>1. PICK at \in Direction(j) : core' = [core EXCEPT !.mask = {}, !.snapshot = at.snapshot]
      BY <2>3 DEF Unblocked
    <3>2. at.snapshot \in Bases(lp)
      BY <3>1 DEF Direction, Framed
    <3>3. basis' = basis /\ outcome' = "Unbounded" /\ Running
      BY <2>3 DEF Unblocked, Return, Proceed
    <3>4. Alike(lp, core, core')
      BY <3>1, <3>2, MaskedAlike
    <3> QED
      BY <3>3, <3>4 DEF PrimalKeeps
  <2>4. CASE RejectEta(j)
    <3>1. /\ basis' = basis /\ outcome' = "SingularBasis" /\ core' = [core EXCEPT !.mask = {}]
          /\ Running
      BY <2>4 DEF RejectEta, Return, Proceed
    <3> QED
      BY <3>1, MaskedAlike DEF PrimalKeeps
  <2>5. CASE \E i \in Row : Pivot(j, i)
    <3>1. PICK i \in Row : Pivot(j, i)
      BY <2>5
    <3> DEFINE B == [basis EXCEPT ![i] = j]
    <3>2. PICK at \in Direction(j), bad \in BOOLEAN, stable \in BOOLEAN :
            Settle(IF stable THEN Maintained(Updated(at.lu, B, bad), B) ELSE Refactored(at.lu, B),
                   j, i, B, exact /\ ~at.lu.lost, Noted([core EXCEPT !.snapshot = at.snapshot], B, j))
      BY <3>1 DEF Pivot
    <3>3. B \in Bases(lp)
      <4>1. j \in (Original(lp) \cup Artificial(lp)) \ BasisSet(basis)
        BY <3>1 DEF Pivot, Entering, Offered, Priced, Framed
      <4> QED
        BY <4>1, EnteringIsBasis
    <3>4. at.snapshot \in Bases(lp)
      BY <3>2 DEF Direction, Framed
    <3> DEFINE d == [core EXCEPT !.snapshot = at.snapshot]
    <3>5. Alike(lp, core, d)
      BY <3>4, MaskedAlike
    <3> HIDE DEF B, d
    <3>6. Alike(lp, core, Noted(d, B, j))
      BY <3>5, NotedAlike, AlikeTwice DEF Alike
    <3>7. Running
      BY <3>1 DEF Pivot, Proceed
    <3> QED
      BY <3>2, <3>3, <3>6, <3>7, SettleKeeps DEF d
  <2> QED
    BY <2>1, <2>2, <2>3, <2>4, <2>5
<1> QED
  BY <1>1, <1>2, <1>3 DEF Iterate

-----------------------------------------------------------------------------
(* The prices of a dual iteration *)

\* What a column costs a dual iteration.
DualPrice(j) == IF core.phase = 4 THEN Raised(j) ELSE Cost(lp, core.phase, j)
DualCosts == <<DualPrice(basis[1]), DualPrice(basis[2])>>

\* The program and the locals that a dual iteration starts from.
DualFramed ==
  lp \in Programs /\ basis \in Bases(lp) /\ Framed(lp, core) /\ core.phase \in {2, 4}

\* Prices are integers.
LEMMA DualPriceIs ==
  ASSUME lp \in Programs, Framed(lp, core), core.phase \in {2, 4},
         NEW j \in Original(lp) \cup Artificial(lp)
  PROVE  DualPrice(j) \in Int
<1>1. IsProgram(lp)
  BY ProgramsAssumption
<1>2. Cost(lp, 2, j) \in Int /\ Cost(lp, 3, j) \in Int
  BY <1>1, CostIs
<1>3. ASSUME core.phase = 4 PROVE Raised(j) \in Int
  <2> DEFINE start == core.snapshot
             y == Btran(lp, start, BasicCost(lp, 3, start))
  <2>1. start \in Bases(lp)
    BY DEF Framed
  <2>2. Size(lp, start) \in Int
    BY <1>1, <2>1, BasisIs
  <2>3. Pair(BasicCost(lp, 3, start))
    <3>1. Cost(lp, 3, start[1]) \in Int /\ Cost(lp, 3, start[2]) \in Int
      BY <1>1, <2>1, BasisIs, CostIs
    <3> QED
      BY <3>1 DEF BasicCost, Pair
  <2>4. Pair(Column(lp, j))
    BY <1>1, ColumnIs DEF Pair
  <2>5. Pair(y)
    BY <1>1, <2>1, <2>3, <2>4, PricesAre
  <2>6. Dot(y, Column(lp, j)) \in Int
    BY <2>4, <2>5, DotIs
  <2>7. Cost(lp, 3, j) * Size(lp, start) \in Int
    BY <1>2, <2>2, ProductIsInt
  <2>8. Raised(j) \in {Dot(y, Column(lp, j)), Cost(lp, 3, j) * Size(lp, start)}
    BY DEF Raised
  <2> HIDE DEF y, start
  <2> QED
    BY <2>6, <2>7, <2>8
<1> QED
  BY <1>2, <1>3 DEF DualPrice

\* Reduced costs are those of the prices.
LEMMA DualCostsAre ==
  ASSUME DualFramed
  PROVE  /\ Pair(DualCosts) /\ IsProgram(lp)
         /\ \A k : DualReduced(k) = ReducedFor(lp, DualPrice(k), DualCosts, basis, k)
<1>1. IsProgram(lp)
  BY ProgramsAssumption DEF DualFramed
<1>2. DualPrice(basis[1]) \in Int /\ DualPrice(basis[2]) \in Int
  BY <1>1, BasisIs, DualPriceIs DEF DualFramed
<1>3. ASSUME NEW k PROVE DualReduced(k) = ReducedFor(lp, DualPrice(k), DualCosts, basis, k)
  BY DEF DualReduced, DualPrice, DualCosts, Reduced, BasicCost
<1> QED
  BY <1>1, <1>2, <1>3 DEF DualCosts, Pair

\* What a basic column costs is what it saves.
LEMMA BasicSaves ==
  ASSUME NEW P, IsProgram(P), NEW B \in Bases(P), NEW w, Pair(w), NEW i \in Row, B[i] \in Original(P)
  PROVE  ReducedFor(P, w[i], w, B, B[i]) = 0
<1>1. w[1] \in Int /\ w[2] \in Int /\ Size(P, B) \in Int
  BY BasisIs DEF Pair
<1>2. (i = 1 \/ i = 2) /\ w[i] \in Int
  BY <1>1 DEF Row
<1>3. ReducedFor(P, w[i], w, B, B[i])
        = w[i] * Size(P, B) - (w[1] * Taken(P, B, B[i])[1] + w[2] * Taken(P, B, B[i])[2])
  BY <1>2, ReducedForIs
<1> DEFINE S == Size(P, B)
<1>4. CASE i = 1
  <2>1. Taken(P, B, B[i])[1] = S /\ Taken(P, B, B[i])[2] = 0
    BY <1>4, OwnColumn
  <2> HIDE DEF S
  <2>2. w[1] * S - (w[1] * S + w[2] * 0) = 0
    BY <1>1 DEF S
  <2> QED
    BY <1>3, <1>4, <2>1, <2>2 DEF S
<1>5. CASE i = 2
  <2>1. Taken(P, B, B[i])[1] = 0 /\ Taken(P, B, B[i])[2] = S
    BY <1>5, OwnColumn
  <2> HIDE DEF S
  <2>2. w[2] * S - (w[1] * 0 + w[2] * S) = 0
    BY <1>1 DEF S
  <2> QED
    BY <1>3, <1>5, <2>1, <2>2 DEF S
<1> QED
  BY <1>2, <1>4, <1>5

-----------------------------------------------------------------------------
(* The dual iteration *)

\* The fields of the locals of a dual iteration.
DualFields(c) ==
  {"phase", "snapshot", "artificials", "bland", "blocked", "cycled", "passed", "perturbed",
   "refreshed", "row", "yields"} \subseteq DOMAIN c

\* d differs from c in what the prices do not depend on.
SamePrices(c, d) ==
  DualFields(d) /\ d.phase = c.phase /\ d.snapshot = c.snapshot /\ d.artificials = c.artificials

\* A step that leaves the program and what the prices depend on leaves the prices.
LEMMA PricesStay ==
  ASSUME lp' = lp, SamePrices(core, core')
  PROVE  /\ \A k : DualPrice(k)' = DualPrice(k)
         /\ DualCosts' = <<DualPrice(basis'[1]), DualPrice(basis'[2])>>
         /\ basis' = basis => \A k : DualReduced(k)' = DualReduced(k)
<1>1. core'.phase = core.phase /\ core'.snapshot = core.snapshot
  BY DEF SamePrices
<1>2. ASSUME NEW k PROVE DualPrice(k)' = DualPrice(k)
  BY <1>1 DEF DualPrice, Raised
<1>3. DualCosts' = <<DualPrice(basis'[1]), DualPrice(basis'[2])>>
  BY <1>1 DEF DualCosts, DualPrice, Raised
<1>4. ASSUME NEW k, basis' = basis PROVE DualReduced(k)' = DualReduced(k)
  BY <1>1, <1>4 DEF DualReduced, Raised
<1> QED
  BY <1>2, <1>3, <1>4

\* A variable of the program leaves because it is negative.
LEMMA WaysAre ==
  ASSUME DualFramed, NEW s \in Shown, NEW i \in Infeasible(s)
  PROVE  /\ i \in Row /\ Way(i, s[i]) \in {-1, 1}
         /\ basis[i] <= lp.n => Way(i, s[i]) = -1
         /\ s[i] < 0 \/ (basis[i] > lp.n /\ s[i] > 0)
<1>1. i \in Row /\ (s[i] < 0 \/ (basis[i] > lp.n /\ s[i] > 0))
  BY DEF Infeasible
<1>2. basis[i] <= lp.n => ~(basis[i] > lp.n)
  BY <1>1, ProgramsAssumption, PlacesAre DEF DualFramed
<1> QED
  BY <1>1, <1>2 DEF Way

\* Who wins the ratio test on accurate factors passed it against everybody.
LEMMA WinnersTested ==
  ASSUME DualFramed, DualFields(core), Running, exact, ~lu.lost,
         ~core.passed => \A k \in Original(lp) : DualReduced(k) >= 0,
         NEW s \in Shown, NEW i \in Infeasible(s), NEW j \in Winners(i, s[i])
  PROVE  LET way == Way(i, s[i]) IN
         /\ j \in Original(lp) /\ j \notin BasisSet(basis)
         /\ Moves(way, Taken(lp, basis, j)[i])
         /\ ~Passing(i) => \A k \in Original(lp) :
              Tested(way, Taken(lp, basis, j)[i], Taken(lp, basis, k)[i], DualReduced(k), DualReduced(j))
<1> DEFINE way == Way(i, s[i])
<1>1. i \in Row /\ way \in {-1, 1} /\ (basis[i] <= lp.n => way = -1)
  BY WaysAre
<1>2. j \in Cheapest(i, way)
  BY DEF Winners
<1>3. j \in Candidates(i, way)
  BY <1>2 DEF Cheapest
<1>4. j \in Original(lp) /\ j \notin BasisSet(basis) /\ way * Taken(lp, basis, j)[i] > 0
  BY <1>3 DEF Candidates, Eligible
<1>5. ASSUME ~Passing(i), NEW k \in Original(lp)
      PROVE  Tested(way, Taken(lp, basis, j)[i], Taken(lp, basis, k)[i], DualReduced(k), DualReduced(j))
  <2>1. BlockedFor(i) = {} /\ ~core.passed
    BY <1>5 DEF Passing
  <2>2. DualReduced(k) >= 0 /\ DualReduced(j) >= 0
    BY <1>4, <2>1
  <2>3. ASSUME way * Taken(lp, basis, k)[i] > 0
        PROVE  DualReduced(j) * way * Taken(lp, basis, k)[i] <= DualReduced(k) * way * Taken(lp, basis, j)[i]
    <3>1. CASE k \notin BasisSet(basis)
      <4>1. k \in Eligible(i)
        BY <2>1, <3>1 DEF Eligible
      <4>2. k \in Candidates(i, way)
        BY <2>2, <2>3, <4>1 DEF Candidates
      <4> HIDE DEF way
      <4> QED
        BY <1>2, <4>2 DEF Cheapest
    <3>2. CASE k \in BasisSet(basis)
      <4>1. IsProgram(lp) /\ basis \in Bases(lp) /\ lp.n \in Nat
        BY ProgramsAssumption DEF DualFramed, IsProgram
      <4>2. Taken(lp, basis, basis[1])[2] = 0 /\ Taken(lp, basis, basis[2])[1] = 0
        BY <4>1, OwnColumn
      <4>3. Taken(lp, basis, basis[i])[i] = Size(lp, basis) /\ Size(lp, basis) \in Nat
        BY <1>1, <4>1, OwnColumn, BasisIs DEF Row
      <4>4. CASE k = basis[i]
        <5>1. way = -1
          BY <1>1, <4>1, <4>4 DEF Original
        <5> QED
          BY <2>3, <4>3, <4>4, <5>1
      <4>5. CASE k # basis[i]
        <5>1. Taken(lp, basis, k)[i] = 0
          BY <1>1, <3>2, <4>2, <4>5 DEF BasisSet, Row
        <5> QED
          BY <1>1, <2>3, <5>1
      <4> QED
        BY <4>4, <4>5
    <3> QED
      BY <3>1, <3>2
  <2> QED
    BY <2>2, <2>3 DEF Tested
<1> QED
  BY <1>1, <1>4, <1>5 DEF Moves

\* The dual iteration prices no column below zero, as long as x_B is the basis' own and
\* every pivot was offered every column: then nobody to enter means no vertex.
DualInv ==
  /\ Running /\ exact => ~Singular(lp, basis)
  /\ Running /\ exact /\ ~core.passed => \A k \in Original(lp) : DualReduced(k) >= 0
  /\ Running /\ core.refreshed => core.bland /\ ~lu.lost
  /\ outcome = "Unbounded" /\ exact /\ ~core.perturbed /\ ~core.passed => ~Feasible(lp)

\* The basis of an iteration that ended as Optimal.
Settled(B) == ~Singular(lp, B) /\ \A i \in Row : Basic(lp, B)[i] >= 0

\* What every dual iteration keeps.
DualKeeps ==
  /\ basis' \in Bases(lp) /\ SamePrices(core, core')
  /\ BasisSet(basis') \subseteq BasisSet(basis) \cup Original(lp)
  /\ outcome' = "Optimal" => Settled(basis')

\* What the bookkeeping of a pivot leaves alone.
LEMMA MovedSame ==
  ASSUME DualFields(core), NEW i
  PROVE  /\ SamePrices(core, Moved(i)) /\ Moved(i).passed = Passing(i) /\ ~Moved(i).refreshed
  BY DEF DualFields, SamePrices, Moved

\* Neither does what the progress of the last iterations leads to.
LEMMA PatienceSame ==
  ASSUME NEW c, DualFields(c), NEW after \in Patience(c)
  PROVE  /\ SamePrices(c, after.core) /\ after.core.passed = c.passed
         /\ after.core.refreshed = c.refreshed /\ after.outcome \in {"running", "Stalled"}
<1> DEFINE cycled == [c EXCEPT !.cycled = TRUE]
           bland == [c EXCEPT !.bland = TRUE, !.cycled = TRUE]
           shaken == [c EXCEPT !.bland = TRUE, !.cycled = TRUE, !.perturbed = TRUE]
<1>1. \A d \in {c, cycled, bland, shaken} :
        SamePrices(c, d) /\ d.passed = c.passed /\ d.refreshed = c.refreshed
  BY DEF DualFields, SamePrices
<1>2. \E d \in {c, cycled, bland, shaken}, o \in {"running", "Stalled"} :
        after = [core |-> d, outcome |-> o]
  BY DEF Patience
<1> HIDE DEF cycled, bland, shaken
<1>3. after.core \in {c, cycled, bland, shaken} /\ after.outcome \in {"running", "Stalled"}
  BY <1>2
<1> QED
  BY <1>1, <1>3

\* Two such changes are one.
LEMMA SameTwice ==
  ASSUME NEW b, NEW c, NEW d, SamePrices(b, c), SamePrices(c, d)
  PROVE  SamePrices(b, d)
  BY DEF SamePrices

\* After a pivot.
LEMMA PivotShape ==
  ASSUME DualFramed, DualFields(core), NEW s \in Shown, NEW i \in Infeasible(s),
         NEW j \in Winners(i, s[i]), DualPivot(i, j)
  PROVE  /\ DualKeeps /\ basis' = [basis EXCEPT ![i] = j] /\ j \in Original(lp)
         /\ exact' = (exact /\ ~lu.lost) /\ Running
         /\ core'.passed = Passing(i) /\ ~core'.refreshed
         /\ outcome' \notin {"Optimal", "Unbounded"}
<1>1. i \in Row /\ j \in Original(lp) /\ j \notin BasisSet(basis)
  <2>1. j \in Eligible(i)
    BY DEF Winners, Cheapest, Candidates
  <2> QED
    BY <2>1, WaysAre DEF Eligible
<1>2. basis' = [basis EXCEPT ![i] = j] /\ exact' = (exact /\ ~lu.lost) /\ Running
  BY DEF DualPivot, Proceed
<1>3. basis' \in Bases(lp)
  BY <1>1, <1>2, EnteringIsBasis DEF DualFramed
<1>4. BasisSet(basis') \subseteq BasisSet(basis) \cup Original(lp)
  <2>1. basis \in [Row -> Original(lp) \cup Artificial(lp)]
    BY DEF DualFramed, Bases
  <2> QED
    BY <1>1, <1>2, <2>1 DEF BasisSet
<1>5. /\ SamePrices(core, Moved(i)) /\ Moved(i).passed = Passing(i) /\ ~Moved(i).refreshed
  BY MovedSame
<1>6. \/ core' = Moved(i) /\ outcome' \in {"SingularBasis", "Timeout"}
      \/ \E after \in Patience(Moved(i)) : core' = after.core /\ outcome' = after.outcome
  BY DEF DualPivot, Return
<1>7. /\ SamePrices(core, core') /\ core'.passed = Passing(i) /\ ~core'.refreshed
      /\ outcome' \in {"SingularBasis", "Timeout", "running", "Stalled"}
  <2>1. CASE core' = Moved(i) /\ outcome' \in {"SingularBasis", "Timeout"}
    BY <1>5, <2>1
  <2>2. CASE \E after \in Patience(Moved(i)) : core' = after.core /\ outcome' = after.outcome
    <3>1. PICK after \in Patience(Moved(i)) : core' = after.core /\ outcome' = after.outcome
      BY <2>2
    <3>2. DualFields(Moved(i))
      BY <1>5 DEF SamePrices
    <3> QED
      BY <1>5, <3>1, <3>2, PatienceSame, SameTwice
  <2> QED
    BY <1>6, <2>1, <2>2
<1> QED
  BY <1>1, <1>2, <1>3, <1>4, <1>7 DEF DualKeeps

\* After a pivot on accurate factors no column is priced below zero: the ratio test saw
\* every column that could be, unless a rejected one was passed.
LEMMA PivotDual ==
  ASSUME DualFramed, DualFields(core), DualInv, NEW s \in Shown, NEW i \in Infeasible(s),
         NEW j \in Winners(i, s[i]), DualPivot(i, j), lp' = lp
  PROVE  DualInv'
<1>1. /\ basis' = [basis EXCEPT ![i] = j] /\ exact' = (exact /\ ~lu.lost) /\ Running
      /\ core'.passed = Passing(i) /\ ~core'.refreshed /\ outcome' # "Unbounded"
      /\ SamePrices(core, core') /\ basis' \in Bases(lp) /\ j \in Original(lp)
  BY PivotShape DEF DualKeeps
<1> DEFINE way == Way(i, s[i])
<1>2. SUFFICES ASSUME exact, ~lu.lost
               PROVE  /\ ~Singular(lp, basis')
                      /\ ~Passing(i) => \A k \in Original(lp) : DualReduced(k)' >= 0
  BY <1>1 DEF DualInv
<1>3. /\ j \in Original(lp)
      /\ Moves(way, Taken(lp, basis, j)[i])
      /\ ~Passing(i) => \A k \in Original(lp) :
           Tested(way, Taken(lp, basis, j)[i], Taken(lp, basis, k)[i], DualReduced(k), DualReduced(j))
  BY <1>1, <1>2, WinnersTested DEF DualInv
<1>4. IsProgram(lp) /\ basis \in Bases(lp) /\ ~Singular(lp, basis) /\ i \in Row
  BY <1>1, <1>2, DualCostsAre, WaysAre DEF DualFramed, DualInv
<1> DEFINE w == DualCosts
           x == <<DualPrice(basis'[1]), DualPrice(basis'[2])>>
           C == basis'
<1>5. /\ Pair(w)
      /\ \A k : DualReduced(k) = ReducedFor(lp, DualPrice(k), w, basis, k)
  BY DualCostsAre
<1>6. \A k \in Original(lp) : DualPrice(k) \in Int
  BY DualPriceIs DEF DualFramed
<1>7. Replaced(w, i, DualPrice(j), x)
  <2>1. Pair(x)
    <3>1. C[1] \in Original(lp) \cup Artificial(lp) /\ C[2] \in Original(lp) \cup Artificial(lp)
      BY <1>1, <1>4, BasisIs
    <3> QED
      BY <3>1, DualPriceIs DEF DualFramed, Pair
  <2>2. basis \in [Row -> Original(lp) \cup Artificial(lp)] /\ 1 \in Row /\ 2 \in Row
    BY <1>4 DEF Bases, Row
  <2>3. i = 1 => C[1] = j /\ C[2] = basis[2]
    BY <1>1, <2>2
  <2>4. i = 2 => C[1] = basis[1] /\ C[2] = j
    BY <1>1, <2>2
  <2>5. /\ x[1] = DualPrice(C[1]) /\ x[2] = DualPrice(C[2])
        /\ w[1] = DualPrice(basis[1]) /\ w[2] = DualPrice(basis[2])
    BY DEF DualCosts
  <2> HIDE DEF x, w
  <2>6. i = 1 => x[1] = DualPrice(j) /\ x[2] = w[2]
    BY <2>3, <2>5
  <2>7. i = 2 => x[1] = w[1] /\ x[2] = DualPrice(j)
    BY <2>4, <2>5
  <2> QED
    BY <2>1, <2>6, <2>7 DEF Replaced
<1>8. \A k \in Original(lp) : DualReduced(k)' = ReducedFor(lp, DualPrice(k), x, C, k)
  <2>1. \A k : DualReduced(k)' = ReducedFor(lp', DualPrice(k)', DualCosts', basis', k)
    BY DEF DualReduced, DualPrice, DualCosts, Reduced, BasicCost
  <2>2. /\ \A k : DualPrice(k)' = DualPrice(k)
        /\ DualCosts' = <<DualPrice(basis'[1]), DualPrice(basis'[2])>>
    BY <1>1, PricesStay
  <2> QED
    BY <2>1, <2>2
<1> HIDE DEF w, x, way, C
<1>9. C \in Bases(lp) /\ C = [basis EXCEPT ![i] = j]
  BY <1>1 DEF C
<1>10. ASSUME NEW k \in Original(lp)
       PROVE  /\ ~Singular(lp, C)
              /\ Tested(way, Taken(lp, basis, j)[i], Taken(lp, basis, k)[i],
                        ReducedFor(lp, DualPrice(k), w, basis, k), ReducedFor(lp, DualPrice(j), w, basis, j))
                   => ReducedFor(lp, DualPrice(k), x, C, k) >= 0
  BY <1>3, <1>4, <1>5, <1>6, <1>7, <1>9, PivotKeeps
<1>11. ~Singular(lp, C)
  BY <1>3, <1>10
<1>12. ASSUME ~Passing(i), NEW k \in Original(lp) PROVE DualReduced(k)' >= 0
  BY <1>3, <1>5, <1>8, <1>10, <1>12
<1> QED
  BY <1>11, <1>12 DEF C

\* The signs of x_B are its own when nothing disturbed it.
LEMMA ShownIs ==
  ASSUME NEW s \in Shown, NEW i \in Row, exact, ~core.perturbed
  PROVE  s[i] = SignOf(i)
  BY DEF Shown

\* What the sign of a basic variable says.
LEMMA SignIs ==
  ASSUME DualFramed, NEW i \in Row
  PROVE  /\ Basic(lp, basis)[i] \in Int
         /\ SignOf(i) < 0 => Basic(lp, basis)[i] < 0
         /\ SignOf(i) > 0 => Basic(lp, basis)[i] > 0
         /\ ~(SignOf(i) < 0) => Basic(lp, basis)[i] >= 0
<1>1. Basic(lp, basis)[i] \in Int
  <2>1. IsProgram(lp)
    BY ProgramsAssumption DEF DualFramed
  <2> QED
    BY <2>1, RightSide, SolveIs DEF Basic, Pair, Row, DualFramed
<1> QED
  BY <1>1 DEF SignOf

\* Nobody enters, on fresh factors and with everybody offered: the row proves it.
LEMMA NobodyEnters ==
  ASSUME DualFramed, DualInv, Running, exact, ~core.perturbed, ~core.passed, core.refreshed,
         NEW s \in Shown, NEW i \in Infeasible(s), BlockedFor(i) = {}, NoWinner(i, s[i])
  PROVE  ~Feasible(lp)
<1> DEFINE way == Way(i, s[i])
<1>1. /\ IsProgram(lp) /\ basis \in Bases(lp) /\ i \in Row /\ way \in {-1, 1}
      /\ s[i] < 0 \/ (basis[i] > lp.n /\ s[i] > 0)
  BY WaysAre, ProgramsAssumption DEF DualFramed
<1>2. ~lu.lost /\ Candidates(i, way) = {}
  BY DEF DualInv, NoWinner
<1>3. ASSUME NEW j \in Original(lp) \ BasisSet(basis)
      PROVE  ~(way * Taken(lp, basis, j)[i] > 0) /\ Taken(lp, basis, j)[i] \in Int
  <2>1. j \in Eligible(i)
    BY DEF Eligible
  <2>2. DualReduced(j) >= 0
    BY DEF DualInv
  <2>3. Taken(lp, basis, j)[i] \in Int
    BY <1>1, TakenIs DEF Pair, Row
  <2> HIDE DEF way
  <2> QED
    BY <1>2, <2>1, <2>2, <2>3 DEF Candidates
<1>4. s[i] = SignOf(i)
  BY <1>1, ShownIs
<1>5. CASE s[i] < 0
  <2>1. way = -1
    BY <1>2, <1>5 DEF Way
  <2>2. \A j \in Original(lp) \ BasisSet(basis) : Taken(lp, basis, j)[i] >= 0
    BY <1>3, <2>1
  <2>3. Basic(lp, basis)[i] < 0
    BY <1>1, <1>4, <1>5, SignIs
  <2> QED
    BY <1>1, <2>2, <2>3, DeadRowRefutes
<1>6. CASE ~(s[i] < 0)
  <2>1. way = 1
    BY <1>6 DEF Way
  <2>2. \A j \in Original(lp) \ BasisSet(basis) : Taken(lp, basis, j)[i] <= 0
    BY <1>3, <2>1
  <2>3. Basic(lp, basis)[i] > 0 /\ basis[i] > lp.n
    BY <1>1, <1>4, <1>6, SignIs
  <2> QED
    BY <1>1, <2>2, <2>3, DeadRowRefutes
<1> QED
  BY <1>5, <1>6

\* A step that leaves the basis, x_B and its history keeps what the prices say.
LEMMA StillDual ==
  ASSUME DualFields(core), DualInv, lp' = lp, basis' = basis, exact' = exact, SamePrices(core, core'),
         core'.passed = core.passed, Running, outcome' # "Unbounded",
         outcome' = "running" /\ core'.refreshed => core'.bland /\ ~lu'.lost
  PROVE  DualInv'
<1>1. \A k : DualReduced(k)' = DualReduced(k)
  BY PricesStay
<1> QED
  BY <1>1 DEF DualInv, Running

\* A step that leaves the basis.
LEMMA ShapeStays ==
  ASSUME DualFramed, basis' = basis, SamePrices(core, core'), outcome' # "Optimal"
  PROVE  DualKeeps
  BY DEF DualKeeps, DualFramed

\* Nobody enters: a second look on fresh factors, or a proof.
LEMMA DeadEndDual ==
  ASSUME DualFramed, DualFields(core), Manager(lu), NEW s \in Shown, NEW i \in Infeasible(s),
         DeadEnd(i, s[i]), lp' = lp
  PROVE  DualKeeps /\ (DualInv => DualInv')
<1>1. Running /\ basis' = basis /\ exact' = exact /\ NoWinner(i, s[i])
  BY DEF DeadEnd, Proceed
<1>2. CASE outcome' = "Stalled" /\ lu' = lu /\ core' = core
  <2>1. SamePrices(core, core')
    BY <1>2 DEF SamePrices
  <2> QED
    BY <1>1, <1>2, <2>1, StillDual, ShapeStays
<1>3. CASE /\ BlockedFor(i) = {} /\ core.refreshed
           /\ outcome' = "Unbounded" /\ lu' = lu /\ core' = core
  <2>1. SamePrices(core, core')
    BY <1>3 DEF SamePrices
  <2>2. ASSUME DualInv PROVE DualInv'
    <3>1. exact /\ ~core.perturbed /\ ~core.passed => ~Feasible(lp)
      BY <1>1, <1>3, <2>2, NobodyEnters
    <3> QED
      BY <1>1, <1>3, <3>1 DEF DualInv, Running
  <2> QED
    BY <1>1, <1>3, <2>1, <2>2, ShapeStays
<1>4. CASE /\ lu' = Refactored(lu, basis)
           /\ Return(IF lu'.singular THEN "SingularBasis" ELSE IF lu'.failed THEN "Timeout" ELSE "running")
           /\ core' = [core EXCEPT !.refreshed = TRUE, !.bland = TRUE, !.row = 0, !.blocked = {}]
  <2>1. SamePrices(core, core') /\ core'.passed = core.passed /\ core'.bland
    BY <1>4 DEF SamePrices, DualFields
  <2>2. outcome' \in {"SingularBasis", "Timeout", "running"} /\ (outcome' = "running" => ~lu'.failed)
    BY <1>4 DEF Return
  <2>3. ~lu'.failed => ~lu'.lost
    BY <1>4, RefactoredIs, FactorsIs
  <2> QED
    BY <1>1, <2>1, <2>2, <2>3, StillDual, ShapeStays
<1> QED
  BY <1>2, <1>3, <1>4 DEF DeadEnd, Return

\* A column is rejected: nothing has moved, and no refresh stands.
LEMMA RejectDual ==
  ASSUME DualFramed, DualFields(core), Manager(lu), NEW i, NEW j, Reject(i, j), lp' = lp
  PROVE  DualKeeps /\ (DualInv => DualInv')
<1> DEFINE row == BlockedFor(i) \cup {j}
<1>1. /\ Running /\ basis' = basis /\ exact' = exact /\ lu.lost
      /\ core' = [core EXCEPT !.row = i, !.blocked = row, !.bland = TRUE]
      /\ outcome' \in {"Timeout", "running"}
  BY DEF Reject, Proceed, Return
<1> HIDE DEF row
<1>2. SamePrices(core, core') /\ core'.passed = core.passed /\ core'.refreshed = core.refreshed
  BY <1>1 DEF SamePrices, DualFields
<1>3. DualInv => ~core.refreshed
  BY <1>1 DEF DualInv
<1> QED
  BY <1>1, <1>2, <1>3, StillDual, ShapeStays

\* Nobody has to leave, on fresh factors.
LEMMA ConcludeDual ==
  ASSUME DualFramed, DualFields(core), Manager(lu), DualConclude, lp' = lp
  PROVE  DualKeeps /\ (DualInv => DualInv')
<1>1. /\ Running /\ basis' = basis /\ lu' = Refactored(lu, basis)
      /\ outcome' \in {"SingularBasis", "Timeout", "Stalled", "Optimal"}
      /\ outcome' = "Optimal" => ~lu'.failed /\ \A i \in Row : ~(SignOf(i) < 0)
      /\ core' = IF lu'.failed THEN core ELSE [core EXCEPT !.perturbed = FALSE]
  BY DEF DualConclude, Proceed, Return
<1>2. SamePrices(core, core')
  <2>1. SamePrices(core, core) /\ SamePrices(core, [core EXCEPT !.perturbed = FALSE])
    BY DEF SamePrices, DualFields
  <2> QED
    BY <1>1, <2>1
<1>3. outcome' = "Optimal" => Settled(basis)
  BY <1>1, RefactoredIs, SignIs DEF Settled
<1> QED
  BY <1>1, <1>2, <1>3 DEF DualKeeps, DualInv, DualFramed, Running

\* Every iteration.
LEMMA DualIterateKeeps ==
  ASSUME DualFramed, DualFields(core), Manager(lu), DualIterate, lp' = lp
  PROVE  DualKeeps /\ (DualInv => DualInv')
<1>1. CASE Halt \/ Expired \/ DualRejectEta
  <2>1. /\ Running /\ basis' = basis /\ exact' = exact /\ core' = core
        /\ outcome' \in {"Timeout", "Stalled", "SingularBasis"}
    BY <1>1 DEF Halt, Expired, DualRejectEta, Proceed, Return
  <2>2. SamePrices(core, core')
    BY <2>1 DEF SamePrices
  <2> QED
    BY <2>1, <2>2, StillDual, ShapeStays
<1>2. CASE DualConclude
  BY <1>2, ConcludeDual
<1>3. CASE \E s \in Shown : \E i \in Infeasible(s) :
             \/ DeadEnd(i, s[i])
             \/ \E j \in Winners(i, s[i]) : Reject(i, j) \/ DualPivot(i, j)
  <2>1. PICK s \in Shown : \E i \in Infeasible(s) :
               \/ DeadEnd(i, s[i])
               \/ \E j \in Winners(i, s[i]) : Reject(i, j) \/ DualPivot(i, j)
    BY <1>3
  <2>2. PICK i \in Infeasible(s) :
               \/ DeadEnd(i, s[i])
               \/ \E j \in Winners(i, s[i]) : Reject(i, j) \/ DualPivot(i, j)
    BY <2>1
  <2> QED
    BY <2>2, DeadEndDual, RejectDual, PivotShape, PivotDual
<1> QED
  BY <1>1, <1>2, <1>3 DEF DualIterate

-----------------------------------------------------------------------------
(* How a dual iteration starts *)

\* The fields a call starts with.
LEMMA DualFrameFields ==
  ASSUME NEW phase, NEW B, NEW yields
  PROVE  LET c == DualFrame(phase, B, yields) IN
         /\ DualFields(c) /\ c.phase = phase /\ c.snapshot = B
         /\ ~c.passed /\ ~c.perturbed /\ ~c.refreshed
  BY DEF DualFrame, DualFields

\* What calling the core sets.
LEMMA DualCallSets ==
  ASSUME lp \in Programs, NEW B \in Bases(lp), NEW phase, NEW own, NEW yields,
         DualCall(phase, B, own, yields)
  PROVE  /\ basis' = B /\ core'.phase = phase /\ core'.snapshot = B /\ DualFields(core')
         /\ Framed(lp, core') /\ ~core'.refreshed
         /\ outcome' \in {"Timeout", "SingularBasis", "running"}
         /\ outcome' = "running" => ~Singular(lp, B)
<1>1. /\ basis' = B /\ core' = DualFrame(phase, B, yields)
      /\ outcome' = IF Late THEN "Timeout" ELSE IF Singular(lp, B) THEN "SingularBasis" ELSE "running"
  BY DEF DualCall, Enter
<1>2. DualFields(core') /\ core'.phase = phase /\ core'.snapshot = B /\ ~core'.refreshed
  BY <1>1, DualFrameFields
<1>3. Framed(lp, core')
  BY <1>1, DualFramesAreFramed
<1> QED
  BY <1>1, <1>2, <1>3

\* A call on a basis that is dual feasible.
LEMMA PriceStart ==
  ASSUME DualFields(core'), outcome' # "Unbounded", ~core'.refreshed,
         Running' => ~Singular(lp', basis') /\ \A k \in Original(lp') : DualReduced(k)' >= 0
  PROVE  DualInv'
  BY DEF DualInv

\* With the program's own costs: the warm basis is dual feasible.
LEMMA WarmStart ==
  ASSUME lp \in Programs, NEW B \in Bases(lp), NEW own, NEW yields, DualFeasible(B),
         DualCall(2, B, own, yields), lp' = lp
  PROVE  DualInv'
<1>1. IsProgram(lp)
  BY ProgramsAssumption
<1>2. /\ basis' = B /\ core'.phase = 2 /\ DualFields(core') /\ ~core'.refreshed
      /\ outcome' \in {"Timeout", "SingularBasis", "running"}
      /\ outcome' = "running" => ~Singular(lp, B)
  BY DualCallSets
<1>3. ASSUME NEW k \in Original(lp) PROVE DualReduced(k)' >= 0
  <2>1. DualReduced(k)' = Reduced(lp, 2, B, k)
    BY <1>2 DEF DualReduced
  <2>2. CASE k \in Original(lp) \ BasisSet(B)
    BY <2>1, <2>2 DEF DualFeasible
  <2>3. CASE k \in BasisSet(B)
    <3>1. PICK i \in Row : k = B[i]
      BY <2>3 DEF BasisSet
    <3> DEFINE w == BasicCost(lp, 2, B)
    <3>2. Pair(w) /\ w[i] = Cost(lp, 2, B[i])
      <4>1. Cost(lp, 2, B[1]) \in Int /\ Cost(lp, 2, B[2]) \in Int
        BY <1>1, BasisIs, CostIs
      <4> QED
        BY <4>1 DEF BasicCost, Pair, Row
    <3>3. Reduced(lp, 2, B, k) = ReducedFor(lp, w[i], w, B, B[i])
      BY <3>1, <3>2 DEF Reduced
    <3> HIDE DEF w
    <3>4. ReducedFor(lp, w[i], w, B, B[i]) = 0
      BY <1>1, <1>3, <3>1, <3>2, BasicSaves
    <3> QED
      BY <2>1, <3>3, <3>4
  <2> QED
    BY <2>2, <2>3
<1> QED
  BY <1>2, <1>3, PriceStart DEF Running

\* The raised cost of a column, for a start B.
RaisedAt(P, B, j) ==
  LET saved == Dot(Btran(P, B, BasicCost(P, 3, B)), Column(P, j))
      own == Cost(P, 3, j) * Size(P, B)
  IN  IF j <= P.n /\ saved > own THEN saved ELSE own

\* A column with raised costs is not cheaper than the start makes it; a basic one costs
\* what it did.
LEMMA RaisedIs ==
  ASSUME NEW P, IsProgram(P), NEW B \in Bases(P), NEW j \in Original(P)
  PROVE  LET saved == Cost(P, 3, B[1]) * Taken(P, B, j)[1] + Cost(P, 3, B[2]) * Taken(P, B, j)[2]
         IN  /\ RaisedAt(P, B, j) \in Int /\ RaisedAt(P, B, j) >= saved
             /\ Pair(Taken(P, B, j)) /\ saved \in Int
<1> DEFINE w == BasicCost(P, 3, B)
           t == Taken(P, B, j)
           saved == Cost(P, 3, B[1]) * t[1] + Cost(P, 3, B[2]) * t[2]
           s == Dot(Btran(P, B, w), Column(P, j))
           own == Cost(P, 3, j) * Size(P, B)
<1>1. Cost(P, 3, B[1]) \in Int /\ Cost(P, 3, B[2]) \in Int /\ Cost(P, 3, j) \in Int
  BY BasisIs, CostIs
<1>2. Pair(w) /\ w[1] = Cost(P, 3, B[1]) /\ w[2] = Cost(P, 3, B[2])
  BY <1>1 DEF BasicCost, Pair
<1>3. Pair(Column(P, j)) /\ j <= P.n
  BY ColumnIs DEF Pair
<1>4. Pair(t) /\ Size(P, B) \in Int
  BY TakenIs
<1>5. s = saved
  <2> HIDE DEF w
  <2> QED
    BY <1>2, <1>3, PricesAre DEF Taken
<1>6. saved \in Int
  <2>1. t[1] \in Int /\ t[2] \in Int
    BY <1>4 DEF Pair
  <2> HIDE DEF t
  <2> QED
    BY <1>1, <2>1
<1>7. own \in Int
  BY <1>1, <1>4, ProductIsInt
<1>8. RaisedAt(P, B, j) = IF s > own THEN s ELSE own
  BY <1>3 DEF RaisedAt
<1> HIDE DEF s, own, saved, t
<1>9. RaisedAt(P, B, j) \in Int /\ RaisedAt(P, B, j) >= saved
  BY <1>5, <1>6, <1>7, <1>8
<1> QED
  BY <1>4, <1>6, <1>9 DEF saved, t

\* A basic column costs what it did, times the size of the basis.
LEMMA RaisedBasic ==
  ASSUME NEW P, IsProgram(P), NEW B \in Bases(P), NEW i \in Row
  PROVE  RaisedAt(P, B, B[i]) = Cost(P, 3, B[i]) * Size(P, B)
<1>1. CASE ~(B[i] <= P.n)
  BY <1>1 DEF RaisedAt
<1>2. CASE B[i] <= P.n
  <2> DEFINE c1 == Cost(P, 3, B[1])
             c2 == Cost(P, 3, B[2])
             w == BasicCost(P, 3, B)
             S == Size(P, B)
  <2>1. c1 \in Int /\ c2 \in Int /\ S \in Int
    BY BasisIs, CostIs
  <2>2. Pair(w) /\ w[1] = c1 /\ w[2] = c2
    BY <2>1 DEF BasicCost, Pair
  <2>3. Dot(Btran(P, B, w), Column(P, B[i])) = c1 * Taken(P, B, B[i])[1] + c2 * Taken(P, B, B[i])[2]
    <3>1. Pair(Column(P, B[i]))
      BY PlacesAre
    <3> HIDE DEF w
    <3> QED
      BY <2>2, <3>1, PricesAre DEF Taken
  <2>4. c1 * Taken(P, B, B[i])[1] + c2 * Taken(P, B, B[i])[2] = Cost(P, 3, B[i]) * S
    <3>1. CASE i = 1
      <4>1. Taken(P, B, B[i])[1] = S /\ Taken(P, B, B[i])[2] = 0
        BY <3>1, OwnColumn
      <4> HIDE DEF S, c2
      <4>2. c1 * S + c2 * 0 = c1 * S
        <5> HIDE DEF c1
        <5> QED
          BY <2>1
      <4> QED
        BY <3>1, <4>1, <4>2
    <3>2. CASE i = 2
      <4>1. Taken(P, B, B[i])[1] = 0 /\ Taken(P, B, B[i])[2] = S
        BY <3>2, OwnColumn
      <4> HIDE DEF S, c1
      <4>2. c1 * 0 + c2 * S = c2 * S
        <5> HIDE DEF c2
        <5> QED
          BY <2>1
      <4> QED
        BY <3>2, <4>1, <4>2
    <3> QED
      BY <3>1, <3>2 DEF Row
  <2> HIDE DEF w, c1, c2
  <2> QED
    BY <1>2, <2>3, <2>4 DEF RaisedAt, w
<1> QED
  BY <1>1, <1>2

\* A scaled inequality.
LEMMA Scaled ==
  ASSUME NEW S \in Int, S >= 0, NEW c1 \in Int, NEW c2 \in Int, NEW t1 \in Int, NEW t2 \in Int,
         NEW r \in Int, r >= c1 * t1 + c2 * t2
  PROVE  r * S - ((c1 * S) * t1 + (c2 * S) * t2) >= 0
<1>1. c1 * t1 + c2 * t2 \in Int
  BY ProductIsInt
<1> DEFINE v == c1 * t1 + c2 * t2
<1>2. (c1 * S) * t1 + (c2 * S) * t2 = v * S
  OBVIOUS
<1> HIDE DEF v
<1>3. r * S - v * S = (r - v) * S
  BY <1>1 DEF v
<1>4. (r - v) * S >= 0
  <2>1. r - v \in Int /\ r - v >= 0
    BY <1>1 DEF v
  <2> DEFINE u == r - v
  <2> HIDE DEF u
  <2>2. u * S >= 0
    BY <2>1 DEF u
  <2> QED
    BY <2>2 DEF u
<1> QED
  BY <1>2, <1>3, <1>4

\* With raised costs every start is dual feasible.
LEMMA RaisedDual ==
  ASSUME NEW P, IsProgram(P), NEW B \in Bases(P), NEW k \in Original(P)
  PROVE  ReducedFor(P, RaisedAt(P, B, k), <<RaisedAt(P, B, B[1]), RaisedAt(P, B, B[2])>>, B, k) >= 0
<1> DEFINE c1 == Cost(P, 3, B[1])
           c2 == Cost(P, 3, B[2])
           w == <<RaisedAt(P, B, B[1]), RaisedAt(P, B, B[2])>>
           t == Taken(P, B, k)
           S == Size(P, B)
           r == RaisedAt(P, B, k)
<1>1. c1 \in Int /\ c2 \in Int /\ S \in Int /\ S >= 0
  BY BasisIs, CostIs
<1>2. w[1] = c1 * S /\ w[2] = c2 * S
  BY RaisedBasic DEF Row
<1>3. r \in Int /\ r >= c1 * t[1] + c2 * t[2] /\ Pair(t)
  BY RaisedIs
<1>4. Pair(w)
  <2>1. c1 * S \in Int /\ c2 * S \in Int
    BY <1>1, ProductIsInt
  <2> HIDE DEF w, c1, c2, S
  <2> QED
    BY <1>2, <2>1 DEF Pair
<1>5. ReducedFor(P, r, w, B, k) = r * S - (w[1] * t[1] + w[2] * t[2])
  <2> HIDE DEF r, w
  <2> QED
    BY <1>3, <1>4, ReducedForIs
<1>6. t[1] \in Int /\ t[2] \in Int
  BY <1>3 DEF Pair
<1> HIDE DEF c1, c2, t, S, r, w
<1>7. r * S - ((c1 * S) * t[1] + (c2 * S) * t[2]) >= 0
  BY <1>1, <1>3, <1>6, Scaled
<1> QED
  BY <1>2, <1>5, <1>7 DEF r, w

\* Phase I of the Big-M method starts dual feasible, from any basis.
LEMMA RaisedStart ==
  ASSUME lp \in Programs, NEW B \in Bases(lp), NEW own, NEW yields,
         DualCall(4, B, own, yields), lp' = lp
  PROVE  DualInv'
<1>1. IsProgram(lp)
  BY ProgramsAssumption
<1>2. /\ basis' = B /\ core'.phase = 4 /\ core'.snapshot = B /\ DualFields(core') /\ ~core'.refreshed
      /\ outcome' \in {"Timeout", "SingularBasis", "running"}
      /\ outcome' = "running" => ~Singular(lp, B)
  BY DualCallSets
<1>3. \A j : Raised(j)' = RaisedAt(lp, B, j)
  BY <1>2 DEF Raised, RaisedAt
<1>4. Raised(basis[1])' = RaisedAt(lp, B, B[1]) /\ Raised(basis[2])' = RaisedAt(lp, B, B[2])
  BY <1>2 DEF Raised, RaisedAt
<1>5. ASSUME NEW k \in Original(lp) PROVE DualReduced(k)' >= 0
  <2>1. DualReduced(k)' = ReducedFor(lp', Raised(k)', <<Raised(basis[1])', Raised(basis[2])'>>, basis', k)
    BY <1>2 DEF DualReduced
  <2> QED
    BY <1>1, <1>2, <1>3, <1>4, <1>5, <2>1, RaisedDual
<1> QED
  BY <1>2, <1>5, PriceStart DEF Running

-----------------------------------------------------------------------------
(* What is replied is true *)

\* The rungs of the Big-M method.
BigMs == {"bigm", "bigm1", "bigm1b", "bigm2"}
Duals == {"warm", "bigm1", "bigm1b"}
Verdicts == {"Optimal", "Infeasible", "Unbounded"}

Typed == lp \in Programs /\ options \in Options(lp) /\ basis \in Bases(lp) /\ Framed(lp, core)

\* The phase that each rung runs.
PhaseFits ==
  /\ rung \in {"entry", "legacy", "two_phase"} /\ stage = "phase2" => core.phase = 2
  /\ rung \in {"le2", "warm", "minted"} => core.phase = 2
  /\ rung \in {"bigm1", "bigm1b"} => core.phase = 4
  /\ rung = "bigm2" => core.phase = 3

\* What the end of an iteration means.
EndsMean ==
  /\ outcome = "Optimal" /\ core.phase # 1 => Settled(basis)
  /\ rung \in {"warm", "minted"} => BasisSet(basis) \subseteq Original(lp)
  /\ rung = "minted" => outcome # "Unbounded"
  /\ rung \in Duals => DualFields(core)
  /\ rung \in {"warm", "bigm1"} => DualInv

\* What the two phases answered, and what was replied.
AnswerTrue ==
  /\ answer = "Optimal" => /\ rung \in {"two_phase", "over"} /\ stage = "done"
                           /\ outcome = "Optimal" /\ Best(lp, basis)
  /\ answer = "Infeasible" => ~Feasible(lp)
  /\ answer = "Unbounded" => HasRay(lp)
  /\ rung \in BigMs => answer \in {"Timeout", "MaxIterations"}
ReplyTrue == (reply.status \in Verdicts => rung = "over") /\ VerdictsTrue

VerdictInv == Typed /\ PhaseFits /\ EndsMean /\ AnswerTrue /\ ReplyTrue

\* The cold start is a basis.
LEMMA ColdIs ==
  ASSUME lp \in Programs
  PROVE  Cold(lp) \in Bases(lp)
<1>1. IsProgram(lp)
  BY ProgramsAssumption
<1> DEFINE P == lp
<1>2. /\ P.n \in Nat /\ P.start \in [Row -> 0..P.n]
      /\ \A i \in Row : P.start[i] # 0 => P.a[P.start[i]] = Unit(i)
  BY <1>1 DEF IsProgram
<1>3. 1 \in Row /\ 2 \in Row /\ P.start[1] \in 0..P.n /\ P.start[2] \in 0..P.n
  BY <1>2 DEF Row
<1>4. Cold(P) \in [Row -> Original(P) \cup Artificial(P)]
  <2>1. ASSUME NEW i \in Row
        PROVE  (IF P.start[i] = 0 THEN P.n + i ELSE P.start[i]) \in Original(P) \cup Artificial(P)
    <3>1. CASE P.start[i] = 0
      BY <3>1 DEF Artificial
    <3>2. CASE P.start[i] # 0
      BY <1>2, <3>2 DEF Original
    <3> QED
      BY <3>1, <3>2
  <2> QED
    BY <2>1 DEF Cold
<1>5. Unit(1) # Unit(2)
  <2>1. Unit(1)[1] = 1 /\ Unit(2)[1] = 0
    BY <1>3 DEF Unit
  <2> QED
    BY <2>1
<1>6. Cold(P)[1] # Cold(P)[2]
  <2>1. /\ Cold(P)[1] = IF P.start[1] = 0 THEN P.n + 1 ELSE P.start[1]
        /\ Cold(P)[2] = IF P.start[2] = 0 THEN P.n + 2 ELSE P.start[2]
    BY <1>3 DEF Cold
  <2>2. P.start[1] # 0 /\ P.start[2] # 0 => P.start[1] # P.start[2]
    BY <1>2, <1>3, <1>5
  <2> QED
    BY <1>2, <1>3, <2>1, <2>2
<1> QED
  BY <1>4, <1>6 DEF Bases

\* What calling the primal core sets.
LEMMA CallSets ==
  ASSUME NEW B \in Bases(lp), NEW phase, NEW own, NEW arts \in SUBSET Artificial(lp),
         Call(phase, B, own, arts)
  PROVE  /\ basis' = B /\ core'.phase = phase /\ Framed(lp, core')
         /\ outcome' \in {"Timeout", "SingularBasis", "running"}
<1>1. /\ basis' = B /\ core' = Frame(phase, B, arts)
      /\ outcome' = IF Late THEN "Timeout" ELSE IF Singular(lp, B) THEN "SingularBasis" ELSE "running"
  BY DEF Call, Enter
<1> QED
  BY <1>1, FramesAreFramed

\* guard_lp_optimal: an optimum that is proved is the best vertex.
LEMMA OptimumTrue ==
  ASSUME Typed, core.phase \in {2, 3}, Settled(basis), ~CarriesArtificial, Proven
  PROVE  Best(lp, basis)
<1>1. IsProgram(lp) /\ basis \in Bases(lp)
  BY ProgramsAssumption DEF Typed
<1>2. \A i \in Row : Basic(lp, basis)[i] >= 0 /\ (basis[i] > lp.n => Basic(lp, basis)[i] = 0)
  BY DEF Settled, CarriesArtificial
<1>3. ~Singular(lp, basis) /\ \A j \in Original(lp) \ BasisSet(basis) : Reduced(lp, core.phase, basis, j) >= 0
  BY DEF Settled, Proven
<1> QED
  BY <1>1, <1>2, <1>3, NoColumnBest

\* lp_unbounded_ray_verified
LEMMA RayTrue ==
  ASSUME Typed, core.phase \in {2, 3}, RayVerified
  PROVE  HasRay(lp)
<1>1. IsProgram(lp) /\ basis \in Bases(lp)
  BY ProgramsAssumption DEF Typed
<1> QED
  BY <1>1, RayImproves DEF RayVerified

\* Farkas' multipliers are a proof, whatever rows they come from.
LEMMA MultipliersTrue ==
  ASSUME Typed, NEW w, Pair(w), Proves(w)
  PROVE  ~Feasible(lp)
<1> DEFINE y == Btran(lp, basis, w)
<1>1. IsProgram(lp) /\ basis \in Bases(lp) /\ Pair(lp.b)
  BY ProgramsAssumption, RightSide DEF Typed
<1>2. Pair(y)
  BY <1>1, PricesAre
<1>3. Dot(lp.b, y) > 0 /\ \A j \in Original(lp) : Dot(y, Column(lp, j)) <= 0
  BY DEF Proves
<1>4. Dot(y, lp.b) = Dot(lp.b, y) /\ Dot(y, lp.b) \in Int
  BY <1>1, <1>2, DotIs
<1>5. \A j \in Original(lp) : Dot(y, Column(lp, j)) \in Int
  <2>1. \A j \in Original(lp) : Pair(Column(lp, j))
    BY <1>1, ColumnIs DEF Pair
  <2> QED
    BY <1>2, <2>1, DotIs
<1> HIDE DEF y
<1>6. 1 * Dot(y, lp.b) > 0 /\ \A j \in Original(lp) : 1 * Dot(y, Column(lp, j)) <= 0
  BY <1>3, <1>4, <1>5 DEF y
<1> QED
  BY <1>1, <1>2, <1>6, PricesRefute

\* farkas_infeasibility_certified
LEMMA CertifiedTrue ==
  ASSUME Typed, Certified
  PROVE  ~Feasible(lp)
<1>1. PICK rows : Proves([i \in Row |-> IF i \in rows THEN 1 ELSE 0])
  BY DEF Certified
<1>2. Pair([i \in Row |-> IF i \in rows THEN 1 ELSE 0])
  BY DEF Pair, Row
<1> QED
  BY <1>1, <1>2, MultipliersTrue

\* extract_farkas_certificate
LEMMA WeightsTrue ==
  ASSUME Typed, NEW w \in Weights, Proves(w)
  PROVE  ~Feasible(lp)
<1>1. Pair(w)
  <2> DEFINE x == Basic(lp, basis)
             carried == {i \in Row : basis[i] > lp.n}
             positive == {i \in carried : x[i] > 0}
             on(rows) == [i \in Row |-> IF i \in rows THEN 1 ELSE 0]
  <2>1. \A rows : Pair(on(rows))
    BY DEF Pair, Row
  <2>2. Pair([i \in Row |-> IF i \in positive THEN x[i] ELSE 0])
    <3>1. Pair(x)
      BY ProgramsAssumption, RightSide, SolveIs DEF Typed, Basic
    <3> HIDE DEF x, positive
    <3> QED
      BY <3>1 DEF Pair, Row
  <2>3. \/ \E rows : w = on(rows)
        \/ w = [i \in Row |-> IF i \in positive THEN x[i] ELSE 0]
    BY DEF Weights
  <2> HIDE DEF on, positive, x
  <2> QED
    BY <2>1, <2>2, <2>3
<1> QED
  BY <1>1, MultipliersTrue

\* A step that leaves the program and the iteration alone.
Idle == UNCHANGED <<lp, options, basis, exact, lu, core, outcome>>

\* It leaves what is true.
LEMMA IdleKeeps ==
  ASSUME Idle
  PROVE  /\ Typed => Typed'
         /\ DualInv => DualInv'
         /\ Settled(basis) => Settled(basis)'
         /\ VerdictsTrue /\ reply' = reply => VerdictsTrue'
<1>1. /\ lp' = lp /\ options' = options /\ basis' = basis /\ exact' = exact /\ lu' = lu
      /\ core' = core /\ outcome' = outcome
  BY DEF Idle
<1>2. DualInv => DualInv'
  <2>1. \A k : DualReduced(k)' = DualReduced(k)
    BY <1>1 DEF DualReduced, Raised
  <2> QED
    BY <1>1, <2>1 DEF DualInv, Running
<1>3. Settled(basis) => Settled(basis)'
  BY <1>1 DEF Settled
<1>4. VerdictsTrue /\ reply' = reply => VerdictsTrue'
  BY <1>1 DEF VerdictsTrue
<1>5. Typed => Typed'
  BY <1>1 DEF Typed
<1> QED
  BY <1>2, <1>3, <1>4, <1>5

\* A reply that is true ends the ladder.
LEMMA ReplyKeeps ==
  ASSUME VerdictInv, NEW status, NEW by, Reply(status, by), UNCHANGED <<lp, twoPhaseVars>>,
         status = "Optimal" => Best(lp, basis),
         status = "Infeasible" =>
           ~Feasible(lp) \/ (by = "dual" /\ (~exact \/ core.perturbed \/ core.passed)),
         status = "Unbounded" => HasRay(lp)
  PROVE  VerdictInv'
<1>1. /\ Idle /\ rung' = "over" /\ reply'.status = status /\ reply'.by = by
      /\ stage' = stage /\ answer' = answer
  BY DEF Reply, Idle, coreVars, twoPhaseVars
<1>2. /\ lp' = lp /\ basis' = basis /\ exact' = exact /\ core' = core /\ outcome' = outcome
  BY <1>1 DEF Idle
<1>3. Typed'
  BY <1>1, IdleKeeps DEF VerdictInv
<1>4. PhaseFits'
  BY <1>1 DEF PhaseFits
<1>5. EndsMean'
  BY <1>1, <1>2, IdleKeeps DEF VerdictInv, EndsMean, Duals
<1>6. AnswerTrue'
  BY <1>1, <1>2 DEF VerdictInv, AnswerTrue, BigMs
<1>7. ReplyTrue'
  BY <1>1, <1>2 DEF ReplyTrue, VerdictsTrue
<1> QED
  BY <1>3, <1>4, <1>5, <1>6, <1>7 DEF VerdictInv

\* So does a reply of the Big-M method, or the one it leaves to the two phases.
LEMMA BigMReplyKeeps ==
  ASSUME VerdictInv, rung \in BigMs, NEW status, NEW by, BigMReply(status, by),
         UNCHANGED <<lp, twoPhaseVars>>,
         status = "Optimal" => Best(lp, basis),
         status = "Infeasible" =>
           ~Feasible(lp) \/ (by = "dual" /\ (~exact \/ core.perturbed \/ core.passed)),
         status = "Unbounded" => HasRay(lp)
  PROVE  VerdictInv'
<1>1. CASE Reply(status, by)
  BY <1>1, ReplyKeeps
<1>2. CASE Reply(answer, "two_phase")
  <2>1. answer \in {"Timeout", "MaxIterations"}
    BY DEF VerdictInv, AnswerTrue
  <2>2. answer # "Optimal" /\ answer # "Infeasible" /\ answer # "Unbounded"
    BY <2>1
  <2> QED
    BY <1>2, <2>2, ReplyKeeps
<1> QED
  BY <1>1, <1>2 DEF BigMReply

\* The verdict of a step that does not reply depends on the two phases alone.
LEMMA ClimbKeeps ==
  ASSUME VerdictInv, rung # "over", rung' \notin {"two_phase", "over"},
         lp' = lp, reply' = reply, UNCHANGED <<twoPhaseVars>>,
         rung' \in BigMs => rung \in BigMs \/ answer \in {"Timeout", "MaxIterations"},
         rung = "two_phase" => answer # "Optimal"
  PROVE  AnswerTrue' /\ ReplyTrue'
<1>1. stage' = stage /\ answer' = answer
  BY DEF twoPhaseVars
<1>2. AnswerTrue'
  BY <1>1 DEF VerdictInv, AnswerTrue
<1>3. ReplyTrue'
  BY DEF VerdictInv, ReplyTrue, VerdictsTrue, Verdicts
<1> QED
  BY <1>2, <1>3

\* Another rung, the iteration as it is.
LEMMA RungKeeps ==
  ASSUME VerdictInv, rung # "over", Idle, reply' = reply, UNCHANGED <<twoPhaseVars>>,
         rung' \in {"legacy", "le", "le1", "bigm"},
         rung' = "legacy" => rung = "entry",
         rung' = "bigm" => answer \in {"Timeout", "MaxIterations"},
         rung = "two_phase" => answer # "Optimal"
  PROVE  VerdictInv'
<1>1. /\ lp' = lp /\ basis' = basis /\ core' = core /\ outcome' = outcome /\ stage' = stage
  BY DEF Idle, twoPhaseVars
<1>2. Typed'
  BY IdleKeeps DEF VerdictInv
<1>3. PhaseFits'
  BY <1>1 DEF VerdictInv, PhaseFits
<1>4. EndsMean'
  BY <1>1, IdleKeeps DEF VerdictInv, EndsMean, Duals
<1>5. rung' \in BigMs => answer \in {"Timeout", "MaxIterations"}
  BY DEF BigMs
<1>6. rung' \notin {"two_phase", "over"}
  OBVIOUS
<1>7. AnswerTrue' /\ ReplyTrue'
  BY <1>1, <1>5, <1>6, ClimbKeeps
<1> QED
  BY <1>2, <1>3, <1>4, <1>7 DEF VerdictInv

\* The two phases begin with whatever came before.
LEMMA TwoPhaseRung ==
  ASSUME VerdictInv, rung \in {"entry", "legacy"}, Idle, reply' = reply, rung' = "two_phase",
         answer' \in {answer, "Timeout"}, stage' \in {stage, "done"}
  PROVE  VerdictInv'
<1>1. /\ lp' = lp /\ basis' = basis /\ core' = core /\ outcome' = outcome
  BY DEF Idle
<1>2. Typed'
  BY IdleKeeps DEF VerdictInv
<1>3. PhaseFits'
  BY <1>1 DEF VerdictInv, PhaseFits
<1>4. EndsMean'
  BY <1>1, IdleKeeps DEF VerdictInv, EndsMean, Duals
<1>5. AnswerTrue'
  BY <1>1 DEF VerdictInv, AnswerTrue, BigMs
<1>6. ReplyTrue'
  BY DEF VerdictInv, ReplyTrue, VerdictsTrue, Verdicts
<1> QED
  BY <1>2, <1>3, <1>4, <1>5, <1>6 DEF VerdictInv

\* A core that was called has not ended with a claim.
LEMMA CalledKeeps ==
  ASSUME VerdictInv, rung # "over", rung' \notin {"two_phase", "over"},
         lp' = lp, options' = options, reply' = reply, UNCHANGED <<twoPhaseVars>>,
         rung' \in BigMs => rung \in BigMs \/ answer \in {"Timeout", "MaxIterations"},
         rung = "two_phase" => answer # "Optimal",
         basis' \in Bases(lp), Framed(lp, core'), outcome' \in {"Timeout", "SingularBasis", "running"},
         PhaseFits', rung' \in {"warm", "minted"} => BasisSet(basis') \subseteq Original(lp),
         rung' \in Duals => DualFields(core'),
         rung' \in {"warm", "bigm1"} => DualInv'
  PROVE  VerdictInv'
<1>1. Typed'
  BY DEF VerdictInv, Typed
<1>2. EndsMean'
  BY DEF EndsMean
<1>3. AnswerTrue' /\ ReplyTrue'
  BY ClimbKeeps
<1> QED
  BY <1>1, <1>2, <1>3 DEF VerdictInv

\* A warm basis that is looked at is one of the program's own columns.
LEMMA UsableIs ==
  ASSUME VerdictInv, Usable
  PROVE  /\ options.warm \in Bases(lp) /\ BasisSet(options.warm) \subseteq Original(lp)
         /\ ~Singular(lp, options.warm)
  BY OptionsAssumption DEF Usable, VerdictInv, Typed

\* The entry: a warm basis is used when it is dual feasible.
LEMMA EntryTrue ==
  ASSUME VerdictInv, Entry
  PROVE  VerdictInv'
<1>1. rung = "entry" /\ lp' = lp /\ UNCHANGED twoPhaseVars
  BY DEF Entry, Between
<1>2. CASE Reply("Timeout", "deadline")
  BY <1>1, <1>2, ReplyKeeps
<1>3. CASE /\ Usable /\ DualFeasible(options.warm)
           /\ DualCall(2, options.warm, TRUE, FALSE) /\ Climb("warm")
  <2>1. options.warm \in Bases(lp) /\ BasisSet(options.warm) \subseteq Original(lp)
    BY <1>3, UsableIs
  <2>2. lp \in Programs
    BY DEF VerdictInv, Typed
  <2>3. DualInv'
    BY <1>1, <1>3, <2>1, <2>2, WarmStart
  <2>4. /\ basis' = options.warm /\ core'.phase = 2 /\ DualFields(core') /\ Framed(lp, core')
        /\ outcome' \in {"Timeout", "SingularBasis", "running"}
    BY <1>3, <2>1, <2>2, DualCallSets
  <2>5. rung' = "warm" /\ options' = options /\ reply' = reply
    BY <1>3 DEF Climb
  <2>6. PhaseFits' /\ rung' \notin BigMs
    BY <2>4, <2>5 DEF PhaseFits, BigMs
  <2> QED
    BY <1>1, <2>1, <2>3, <2>4, <2>5, <2>6, CalledKeeps
<1>4. CASE Climb(EntryRung) /\ UNCHANGED coreVars
  <2>1. EntryRung \in {"two_phase", "legacy", "le"}
    <3>1. CASE options.method = "primal"
      BY <3>1, Zenon DEF EntryRung
    <3>2. CASE options.method = "dual"
      BY <3>2, Zenon DEF EntryRung
    <3>3. CASE options.method \notin {"primal", "dual"}
      <4>1. options.method # "primal" /\ options.method # "dual"
        BY <3>3
      <4>2. EntryRung = IF LeOnly THEN "le" ELSE "legacy"
        BY <4>1, Zenon DEF EntryRung
      <4> QED
        BY <4>2
    <3> QED
      BY <3>1, <3>2, <3>3
  <2>2. Idle /\ reply' = reply /\ rung' = EntryRung
    BY <1>1, <1>4 DEF Climb, Idle, coreVars
  <2>3. CASE rung' = "two_phase"
    BY <1>1, <2>2, <2>3, TwoPhaseRung DEF twoPhaseVars
  <2>4. CASE rung' \in {"legacy", "le"}
    BY <1>1, <2>2, <2>4, RungKeeps
  <2> QED
    BY <2>1, <2>2, <2>3, <2>4
<1> QED
  BY <1>2, <1>3, <1>4 DEF Entry

\* A warm basis is concluded with at once.
LEMMA MintedTrue ==
  ASSUME VerdictInv, rung = "legacy", Usable, ~Negative(options.warm), lp' = lp,
         basis' = options.warm, core' = Frame(2, options.warm, {}),
         outcome' \in {"Optimal", "Timeout"}, Climb("minted"), UNCHANGED twoPhaseVars
  PROVE  VerdictInv'
<1>1. /\ options.warm \in Bases(lp) /\ BasisSet(options.warm) \subseteq Original(lp)
      /\ ~Singular(lp, options.warm)
  BY UsableIs
<1>2. Framed(lp, core') /\ core'.phase = 2
  BY <1>1, FramesAreFramed
<1>3. rung' = "minted" /\ options' = options /\ reply' = reply
  BY DEF Climb
<1>4. Typed'
  BY <1>1, <1>2, <1>3 DEF VerdictInv, Typed
<1>5. PhaseFits'
  BY <1>2, <1>3 DEF PhaseFits
<1>6. Settled(basis)'
  <2>1. IsProgram(lp)
    BY ProgramsAssumption DEF VerdictInv, Typed
  <2>2. \A i \in Row : Basic(lp, options.warm)[i] \in Int
    BY <1>1, <2>1, RightSide, SolveIs DEF Basic, Pair, Row
  <2> QED
    BY <1>1, <2>2 DEF Settled, Negative
<1>7. EndsMean'
  BY <1>1, <1>3, <1>6 DEF EndsMean, Duals
<1>8. AnswerTrue' /\ ReplyTrue'
  BY <1>3, ClimbKeeps DEF BigMs
<1> QED
  BY <1>4, <1>5, <1>7, <1>8 DEF VerdictInv

\* two_phase_dual_simplex: a warm basis, the cold start from slacks, or the two phases.
LEMMA LegacyTrue ==
  ASSUME VerdictInv, Legacy
  PROVE  VerdictInv'
<1>1. rung = "legacy" /\ lp' = lp
  BY DEF Legacy, Between
<1>2. CASE /\ answer' = "Timeout" /\ solution' = FALSE /\ stage' = "done"
           /\ Climb("two_phase") /\ UNCHANGED <<coreVars, retry>>
  BY <1>1, <1>2, TwoPhaseRung DEF Climb, Idle, coreVars
<1>3. CASE /\ Usable /\ ~Negative(options.warm)
           /\ basis' = options.warm /\ core' = Frame(2, options.warm, {})
           /\ outcome' = IF stop = "none" THEN "Optimal" ELSE "Timeout"
           /\ Climb("minted") /\ UNCHANGED twoPhaseVars
  BY <1>1, <1>3, MintedTrue
<1>4. CASE /\ Climb(IF LeOnly THEN "le" ELSE "two_phase") /\ UNCHANGED <<coreVars, twoPhaseVars>>
  <2>1. Idle /\ reply' = reply /\ rung' \in {"le", "two_phase"}
    BY <1>1, <1>4 DEF Climb, Idle, coreVars
  <2> QED
    BY <1>1, <1>4, <2>1, TwoPhaseRung, RungKeeps DEF twoPhaseVars
<1> QED
  BY <1>2, <1>3, <1>4 DEF Legacy

\* stop_status is no claim.
LEMMA StopStatusNoVerdict ==
  ASSUME NEW incumbent, NEW asked
  PROVE  StopStatus(incumbent, asked) \notin {"Optimal", "Infeasible", "Unbounded"}
  BY DEF StopStatus

\* The end of a warm start, with a proof of optimality or the dual core's dead end.
LEMMA WarmEndedTrue ==
  ASSUME VerdictInv, WarmEnded
  PROVE  VerdictInv'
<1>1. rung \in {"warm", "minted"} /\ lp' = lp /\ UNCHANGED twoPhaseVars
  BY DEF WarmEnded, Between
<1>2. CASE outcome = "Optimal" /\ Reply(Guarded, rung)
  <2>1. ASSUME Proven PROVE Best(lp, basis)
    <3>1. Typed /\ core.phase = 2 /\ Settled(basis) /\ BasisSet(basis) \subseteq Original(lp)
      BY <1>1, <1>2 DEF VerdictInv, PhaseFits, EndsMean
    <3>2. ~CarriesArtificial
      <4>1. \A i \in Row : ~(basis[i] > lp.n)
        BY <3>1, ProgramsAssumption, PlacesAre DEF Typed, BasisSet
      <4> QED
        BY <4>1 DEF CarriesArtificial
    <3> QED
      BY <2>1, <3>1, <3>2, OptimumTrue
  <2>2. Guarded = "Optimal" => Proven
    BY DEF Guarded
  <2>3. Guarded \in {"Optimal", "SuboptimalSolution"}
    BY DEF Guarded
  <2> QED
    BY <1>1, <1>2, <2>1, <2>2, <2>3, ReplyKeeps
<1>3. CASE outcome = "Unbounded" /\ Reply("Infeasible", "dual")
  <2>1. rung = "warm" /\ DualInv
    BY <1>1, <1>3 DEF VerdictInv, EndsMean
  <2>2. ~Feasible(lp) \/ ~exact \/ core.perturbed \/ core.passed
    BY <1>3, <2>1 DEF DualInv
  <2> QED
    BY <1>1, <1>3, <2>2, ReplyKeeps
<1>4. CASE Reply(StopStatus(TRUE, stop'), rung)
  BY <1>1, <1>4, StopStatusNoVerdict, ReplyKeeps
<1>5. CASE Reply("NumericalError", rung)
  BY <1>1, <1>5, ReplyKeeps
<1> QED
  BY <1>2, <1>3, <1>4, <1>5 DEF WarmEnded

\* The cold start from slacks.
LEMMA LeTrue ==
  ASSUME VerdictInv, LeRaised \/ LePrimal
  PROVE  VerdictInv'
<1>1. CASE LeRaised
  <2>1. /\ rung = "le" /\ lp' = lp /\ UNCHANGED twoPhaseVars
        /\ Idle
    BY <1>1 DEF LeRaised, Between, Idle
  <2>2. CASE rung' = "le1" /\ UNCHANGED reply
    BY <2>1, <2>2, RungKeeps
  <2>3. CASE rung' = "over" /\ reply' = [status |-> StopStatus(TRUE, stop'), by |-> "le"]
    <3> DEFINE status == StopStatus(TRUE, stop')
    <3>1. status \notin Verdicts
      BY StopStatusNoVerdict DEF Verdicts
    <3> HIDE DEF status
    <3>2. reply'.status = status
      BY <2>3 DEF status
    <3>3. lp' = lp /\ basis' = basis /\ outcome' = outcome /\ stage' = stage /\ answer' = answer
      BY <2>1 DEF Idle, twoPhaseVars
    <3>4. Typed' /\ PhaseFits'
      BY <2>1, <2>3, IdleKeeps DEF VerdictInv, PhaseFits
    <3>5. EndsMean'
      BY <2>1, <2>3, <3>3, IdleKeeps DEF VerdictInv, EndsMean, Duals, Idle
    <3>6. AnswerTrue'
      BY <2>1, <2>3, <3>3 DEF VerdictInv, AnswerTrue, BigMs
    <3>7. ReplyTrue'
      BY <3>1, <3>2 DEF ReplyTrue, VerdictsTrue, Verdicts
    <3> QED
      BY <3>4, <3>5, <3>6, <3>7 DEF VerdictInv
  <2> QED
    BY <1>1, <2>2, <2>3 DEF LeRaised
<1>2. CASE LePrimal
  <2>1. /\ rung = "le1" /\ lp' = lp /\ UNCHANGED twoPhaseVars /\ rung' = "le2"
        /\ options' = options /\ reply' = reply /\ Call(2, Cold(lp), TRUE, {})
    BY <1>2 DEF LePrimal, Between, Climb
  <2>2. Cold(lp) \in Bases(lp)
    BY ColdIs DEF VerdictInv, Typed
  <2>3. /\ basis' = Cold(lp) /\ core'.phase = 2 /\ Framed(lp, core')
        /\ outcome' \in {"Timeout", "SingularBasis", "running"}
    <3>1. {} \in SUBSET Artificial(lp)
      OBVIOUS
    <3> QED
      BY <2>1, <2>2, <3>1, CallSets
  <2>4. PhaseFits' /\ rung' \notin BigMs /\ rung' \notin Duals
    BY <2>1, <2>3 DEF PhaseFits, BigMs, Duals
  <2> QED
    BY <2>1, <2>2, <2>3, <2>4, CalledKeeps
<1> QED
  BY <1>1, <1>2

\* The answer of the two phases is passed on, or the Big-M method has a try.
LEMMA TwoPhaseEndedTrue ==
  ASSUME VerdictInv, TwoPhaseEnded
  PROVE  VerdictInv'
<1>1. rung = "two_phase" /\ lp' = lp /\ UNCHANGED twoPhaseVars
  BY DEF TwoPhaseEnded
<1>2. CASE answer \in {"Timeout", "MaxIterations"} /\ Climb("bigm") /\ UNCHANGED coreVars
  <2>1. Idle /\ reply' = reply /\ rung' = "bigm" /\ answer # "Optimal"
    BY <1>1, <1>2 DEF Climb, Idle, coreVars
  <2> QED
    BY <1>1, <1>2, <2>1, RungKeeps
<1>3. CASE Reply(answer, "two_phase")
  BY <1>1, <1>3, ReplyKeeps DEF VerdictInv, AnswerTrue
<1> QED
  BY <1>2, <1>3 DEF TwoPhaseEnded

\* Its Phase I starts with raised costs.
LEMMA BigMTrue ==
  ASSUME VerdictInv, BigM
  PROVE  VerdictInv'
<1>1. /\ rung = "bigm" /\ lp' = lp /\ UNCHANGED twoPhaseVars /\ rung' = "bigm1"
      /\ options' = options /\ reply' = reply
  BY DEF BigM, Between, Climb
<1>2. PICK B \in {Cold(lp)} \cup (IF Late THEN {} ELSE Crashed) : DualCall(4, B, TRUE, TRUE)
  BY DEF BigM
<1>3. lp \in Programs /\ B \in Bases(lp)
  BY <1>2, ColdIs DEF VerdictInv, Typed, Crashed
<1>4. DualInv'
  BY <1>1, <1>2, <1>3, RaisedStart
<1>5. /\ basis' = B /\ core'.phase = 4 /\ DualFields(core') /\ Framed(lp, core')
      /\ outcome' \in {"Timeout", "SingularBasis", "running"}
  BY <1>2, <1>3, DualCallSets
<1>6. PhaseFits' /\ rung \in BigMs
  BY <1>1, <1>5 DEF PhaseFits, BigMs
<1> QED
  BY <1>1, <1>3, <1>4, <1>5, <1>6, CalledKeeps

\* Its dead end is certified, or the dual core's.
LEMMA BigMDeadEndTrue ==
  ASSUME VerdictInv, BigMDeadEnd
  PROVE  VerdictInv'
<1>1. /\ rung = "bigm1" /\ lp' = lp /\ UNCHANGED twoPhaseVars /\ rung \in BigMs
      /\ outcome = "Unbounded" /\ Typed
  BY DEF BigMDeadEnd, Between, BigMs, VerdictInv
<1>2. CASE Certified /\ BigMReply("Infeasible", "certificate")
  BY <1>1, <1>2, CertifiedTrue, BigMReplyKeeps
<1>3. CASE BigMReply("Timeout", "bigm") \/ BigMReply("NumericalError", "bigm")
  BY <1>1, <1>3, BigMReplyKeeps
<1>4. CASE BigMReply("Infeasible", "dual")
  <2>1. ~Feasible(lp) \/ ~exact \/ core.perturbed \/ core.passed
    BY <1>1 DEF VerdictInv, EndsMean, DualInv
  <2> QED
    BY <1>1, <1>4, <2>1, BigMReplyKeeps
<1>5. CASE BigMReply(StopStatus(TRUE, stop'), "bigm")
  BY <1>1, <1>5, StopStatusNoVerdict, BigMReplyKeeps
<1> QED
  BY <1>2, <1>3, <1>4, <1>5 DEF BigMDeadEnd

\* It goes on with what is left.
LEMMA BigMAgainTrue ==
  ASSUME VerdictInv, BigMAgain
  PROVE  VerdictInv'
<1>1. rung = "bigm1" /\ lp' = lp /\ UNCHANGED twoPhaseVars /\ rung \in BigMs /\ Typed
  BY DEF BigMAgain, Between, BigMs, VerdictInv
<1>2. CASE BigMReply(StopStatus(TRUE, stop'), "bigm")
  BY <1>1, <1>2, StopStatusNoVerdict, BigMReplyKeeps
<1>3. CASE Certified /\ BigMReply("Infeasible", "certificate")
  BY <1>1, <1>3, CertifiedTrue, BigMReplyKeeps
<1>4. CASE /\ Enter([DualFrame(4, basis, FALSE) EXCEPT
                       !.snapshot = core.snapshot, !.artificials = core.artificials,
                       !.perturbed = core.perturbed], basis, exact)
           /\ Climb("bigm1b")
  <2> DEFINE plain == DualFrame(4, basis, FALSE)
             frame == [plain EXCEPT !.snapshot = core.snapshot, !.artificials = core.artificials,
                                    !.perturbed = core.perturbed]
  <2>1. /\ basis' = basis /\ core' = frame
        /\ outcome' \in {"Timeout", "SingularBasis", "running"}
        /\ rung' = "bigm1b" /\ options' = options /\ reply' = reply
    BY <1>4 DEF Enter, Climb
  <2>2. DualFields(plain) /\ plain.phase = 4
    BY DEF DualFrame, DualFields
  <2> HIDE DEF plain
  <2>3. /\ DualFields(frame) /\ frame.phase = 4
        /\ frame.snapshot = core.snapshot /\ frame.artificials = core.artificials
    BY <2>2 DEF DualFields
  <2> HIDE DEF frame
  <2>4. Framed(lp, core')
    BY <1>1, <2>1, <2>3 DEF Typed, Framed, DualFields
  <2>5. PhaseFits'
    BY <2>1, <2>3 DEF PhaseFits
  <2>6. basis' \in Bases(lp) /\ rung # "over" /\ rung # "two_phase"
        /\ rung' \notin {"warm", "minted", "bigm1", "over", "two_phase"}
    BY <1>1, <2>1 DEF Typed
  <2> QED
    BY <1>1, <2>1, <2>3, <2>4, <2>5, <2>6, CalledKeeps
<1> QED
  BY <1>2, <1>3, <1>4 DEF BigMAgain

\* It ends without a claim, unless there is a certificate.
LEMMA BigMStoppedTrue ==
  ASSUME VerdictInv, BigMStopped
  PROVE  VerdictInv'
<1>1. lp' = lp /\ UNCHANGED twoPhaseVars /\ rung \in BigMs /\ Typed
  BY DEF BigMStopped, Between, BigMs, VerdictInv
<1>2. CASE BigMReply("NumericalError", "bigm")
  BY <1>1, <1>2, BigMReplyKeeps
<1>3. CASE Certified /\ BigMReply("Infeasible", "certificate")
  BY <1>1, <1>3, CertifiedTrue, BigMReplyKeeps
<1>4. CASE BigMReply(StopStatus(TRUE, stop'), "bigm")
  BY <1>1, <1>4, StopStatusNoVerdict, BigMReplyKeeps
<1> QED
  BY <1>2, <1>3, <1>4 DEF BigMStopped

\* Its Phase II starts where Phase I ended.
LEMMA BigMPhase2True ==
  ASSUME VerdictInv, BigMPhase2
  PROVE  VerdictInv'
<1>1. /\ rung \in {"bigm1", "bigm1b"} /\ lp' = lp /\ UNCHANGED twoPhaseVars /\ rung \in BigMs
      /\ Typed
  BY DEF BigMPhase2, Between, BigMs, VerdictInv
<1>2. CASE Certified /\ BigMReply("Infeasible", "certificate")
  BY <1>1, <1>2, CertifiedTrue, BigMReplyKeeps
<1>3. CASE Call(3, basis, ~Negative(basis), core.artificials) /\ Climb("bigm2")
  <2>1. rung' = "bigm2" /\ options' = options /\ reply' = reply
    BY <1>3 DEF Climb
  <2>2. basis \in Bases(lp) /\ core.artificials \in SUBSET Artificial(lp)
    BY <1>1 DEF Typed, Framed
  <2>3. /\ basis' = basis /\ core'.phase = 3 /\ Framed(lp, core')
        /\ outcome' \in {"Timeout", "SingularBasis", "running"}
    BY <1>3, <2>2, CallSets
  <2>4. PhaseFits' /\ rung' \notin Duals /\ rung # "over" /\ rung # "two_phase"
    BY <1>1, <2>1, <2>3 DEF PhaseFits, Duals
  <2>5. rung' \notin {"warm", "minted", "bigm1", "over", "two_phase"}
    BY <2>1
  <2> QED
    BY <1>1, <2>1, <2>2, <2>3, <2>4, <2>5, CalledKeeps
<1> QED
  BY <1>2, <1>3 DEF BigMPhase2

\* The end of a Phase II is answered through Reply or, after Big-M, BigMReply.
Ended(status, by) == IF rung = "bigm2" THEN BigMReply(status, by) ELSE Reply(status, by)

\* Either way it ends the ladder.
LEMMA EndedKeeps ==
  ASSUME VerdictInv, NEW status, NEW by, Ended(status, by), UNCHANGED <<lp, twoPhaseVars>>,
         status = "Optimal" => Best(lp, basis),
         status = "Infeasible" => ~Feasible(lp),
         status = "Unbounded" => HasRay(lp)
  PROVE  VerdictInv'
<1>1. CASE rung = "bigm2" /\ BigMReply(status, by)
  BY <1>1, BigMReplyKeeps DEF BigMs
<1>2. CASE Reply(status, by)
  BY <1>2, ReplyKeeps
<1> QED
  BY <1>1, <1>2 DEF Ended

\* The end of a Phase II.
LEMMA PrimalEndedTrue ==
  ASSUME VerdictInv, PrimalEnded
  PROVE  VerdictInv'
<1>1. /\ rung \in {"le2", "bigm2"} /\ lp' = lp /\ UNCHANGED twoPhaseVars
      /\ Typed /\ core.phase \in {2, 3}
  BY DEF PrimalEnded, Between, VerdictInv, PhaseFits
<1>2. \/ outcome = "Optimal" /\ CarriesArtificial
           /\ IF Certified THEN Ended("Infeasible", "certificate")
              ELSE Ended(StopStatus(TRUE, stop'), rung)
      \/ outcome = "Optimal" /\ ~CarriesArtificial /\ Ended(Guarded, rung)
      \/ Ended(IF RayVerified THEN "Unbounded" ELSE StopStatus(TRUE, stop'), rung)
      \/ Ended(StopStatus(TRUE, stop'), rung)
      \/ Ended("NumericalError", rung)
  BY DEF PrimalEnded, Ended
<1>3. CASE Certified /\ Ended("Infeasible", "certificate")
  BY <1>1, <1>3, CertifiedTrue, EndedKeeps
<1>4. CASE Ended(StopStatus(TRUE, stop'), rung)
  BY <1>1, <1>4, StopStatusNoVerdict, EndedKeeps
<1>5. CASE Ended("NumericalError", rung)
  BY <1>1, <1>5, EndedKeeps
<1>6. CASE outcome = "Optimal" /\ ~CarriesArtificial /\ Ended(Guarded, rung)
  <2>1. Guarded = "Optimal" => Best(lp, basis)
    <3>1. Settled(basis)
      BY <1>1, <1>6 DEF VerdictInv, EndsMean
    <3>2. Guarded = "Optimal" => Proven
      BY DEF Guarded
    <3> QED
      BY <1>1, <1>6, <3>1, <3>2, OptimumTrue
  <2>2. Guarded \in {"Optimal", "SuboptimalSolution"}
    BY DEF Guarded
  <2> QED
    BY <1>1, <1>6, <2>1, <2>2, EndedKeeps
<1>7. CASE Ended(IF RayVerified THEN "Unbounded" ELSE StopStatus(TRUE, stop'), rung)
  <2>1. CASE RayVerified
    <3>1. HasRay(lp)
      BY <1>1, <2>1, RayTrue
    <3>2. Ended("Unbounded", rung)
      BY <1>7, <2>1
    <3> QED
      BY <1>1, <3>1, <3>2, EndedKeeps
  <2>2. CASE ~RayVerified
    <3>1. Ended(StopStatus(TRUE, stop'), rung)
      BY <1>7, <2>2
    <3> QED
      BY <1>4, <3>1
  <2> QED
    BY <2>1, <2>2
<1> QED
  BY <1>2, <1>3, <1>4, <1>5, <1>6, <1>7

\* Every step between two rungs.
LEMMA LadderTrue ==
  ASSUME VerdictInv, LadderStep
  PROVE  VerdictInv'
  BY EntryTrue, LegacyTrue, WarmEndedTrue, LeTrue, TwoPhaseEndedTrue, BigMTrue, BigMDeadEndTrue,
     BigMAgainTrue, BigMStoppedTrue, BigMPhase2True, PrimalEndedTrue DEF LadderStep

-----------------------------------------------------------------------------
(* The two phases *)

\* An answer of the two phases.
LEMMA AnswerKeeps ==
  ASSUME VerdictInv, rung = "two_phase", NEW status, NEW carries, Answer(status, carries),
         UNCHANGED <<lp, basis>>, UNCHANGED ladderVars,
         status = "Optimal" => outcome = "Optimal" /\ Best(lp, basis),
         status = "Infeasible" => ~Feasible(lp),
         status = "Unbounded" => HasRay(lp)
  PROVE  VerdictInv'
<1>1. /\ answer' = status /\ stage' = "done" /\ core' = core /\ outcome' = outcome
      /\ lp' = lp /\ basis' = basis /\ rung' = rung /\ reply' = reply /\ options' = options
  BY DEF Answer, ladderVars
<1>2. Typed'
  BY <1>1 DEF VerdictInv, Typed
<1>3. PhaseFits'
  BY <1>1 DEF PhaseFits
<1>4. EndsMean'
  BY <1>1 DEF VerdictInv, EndsMean, Duals, Settled
<1>5. AnswerTrue'
  BY <1>1 DEF AnswerTrue, BigMs
<1>6. ReplyTrue'
  BY <1>1 DEF VerdictInv, ReplyTrue, VerdictsTrue, Verdicts
<1> QED
  BY <1>2, <1>3, <1>4, <1>5, <1>6 DEF VerdictInv

\* Another stage, with the iteration as it is.
LEMMA GotoKeeps ==
  ASSUME VerdictInv, rung = "two_phase", NEW s, s \notin {"phase2", "done"}, Goto(s),
         UNCHANGED <<lp, basis>>, UNCHANGED ladderVars, stage # "done"
  PROVE  VerdictInv'
<1>1. /\ answer' = answer /\ stage' = s /\ core' = core /\ outcome' = outcome
      /\ lp' = lp /\ basis' = basis /\ rung' = rung /\ reply' = reply /\ options' = options
  BY DEF Goto, ladderVars
<1>2. Typed'
  BY <1>1 DEF VerdictInv, Typed
<1>3. PhaseFits'
  BY <1>1 DEF PhaseFits
<1>4. EndsMean'
  BY <1>1 DEF VerdictInv, EndsMean, Duals, Settled
<1>5. AnswerTrue'
  BY <1>1 DEF VerdictInv, AnswerTrue, BigMs
<1>6. ReplyTrue'
  BY <1>1 DEF VerdictInv, ReplyTrue, VerdictsTrue, Verdicts
<1> QED
  BY <1>2, <1>3, <1>4, <1>5, <1>6 DEF VerdictInv

\* Another stage, with the primal core called.
LEMMA TwoPhaseCall ==
  ASSUME VerdictInv, rung = "two_phase", NEW phase, NEW B \in Bases(lp), NEW own,
         NEW arts \in SUBSET Artificial(lp), Call(phase, B, own, arts), lp' = lp,
         UNCHANGED ladderVars, answer' = answer, stage # "done",
         stage' = "phase2" => phase = 2
  PROVE  VerdictInv'
<1>1. /\ basis' = B /\ core'.phase = phase /\ Framed(lp, core')
      /\ outcome' \in {"Timeout", "SingularBasis", "running"}
  BY CallSets
<1>2. lp' = lp /\ rung' = rung /\ reply' = reply /\ options' = options
  BY DEF ladderVars
<1>3. Typed'
  BY <1>1, <1>2 DEF VerdictInv, Typed
<1>4. PhaseFits'
  BY <1>1, <1>2 DEF PhaseFits
<1>5. EndsMean'
  BY <1>1, <1>2 DEF EndsMean, Duals
<1>6. AnswerTrue'
  BY <1>2 DEF VerdictInv, AnswerTrue, BigMs
<1>7. ReplyTrue'
  BY <1>2 DEF VerdictInv, ReplyTrue, VerdictsTrue, Verdicts
<1> QED
  BY <1>3, <1>4, <1>5, <1>6, <1>7 DEF VerdictInv

\* Every step of the two phases.
LEMMA StepTrue ==
  ASSUME VerdictInv, rung = "two_phase", Step, UNCHANGED ladderVars
  PROVE  VerdictInv'
<1>1. /\ lp' = lp /\ stage # "done" /\ Typed /\ lp \in Programs /\ basis \in Bases(lp)
      /\ {} \in SUBSET Artificial(lp) /\ Artificial(lp) \in SUBSET Artificial(lp)
  BY DEF Step, Begin, StoppedShort, RetryStopped, Phase1Ended, Verify, Farkas, Transition,
         Phase2Stopped, Phase2Optimal, VerdictInv, Typed
<1>2. ASSUME NEW status, NEW carries, Answer(status, carries), basis' = basis,
             status = "Optimal" => outcome = "Optimal" /\ Best(lp, basis),
             status = "Infeasible" => ~Feasible(lp),
             status = "Unbounded" => HasRay(lp)
      PROVE  VerdictInv'
  BY <1>1, <1>2, AnswerKeeps
<1>3. ASSUME NEW s, s \notin {"phase2", "done"}, Goto(s), basis' = basis
      PROVE  VerdictInv'
  BY <1>1, <1>3, GotoKeeps
<1>4. CASE Begin
  <2>1. CASE Answer("Timeout", FALSE) /\ basis' = basis
    BY <1>2, <2>1
  <2>2. CASE Call(2, Cold(lp), TRUE, {}) /\ answer' = answer
    <3>1. Cold(lp) \in Bases(lp)
      BY <1>1, ColdIs
    <3> QED
      BY <1>1, <2>2, <3>1, TwoPhaseCall
  <2>3. CASE /\ \E B \in {Cold(lp)} \cup (IF Late THEN {} ELSE Crashed) : Call(1, B, TRUE, Artificial(lp))
             /\ stage' = "phase1" /\ answer' = answer
    <3>1. PICK B \in {Cold(lp)} \cup (IF Late THEN {} ELSE Crashed) : Call(1, B, TRUE, Artificial(lp))
      BY <2>3
    <3>2. B \in Bases(lp)
      BY <1>1, <3>1, ColdIs DEF Crashed
    <3> QED
      BY <1>1, <2>3, <3>1, <3>2, TwoPhaseCall
  <2> QED
    BY <1>4, <2>1, <2>2, <2>3 DEF Begin
<1>5. CASE StoppedShort
  <2>1. CASE Answer(StopStatus(FALSE, stop), FALSE) /\ basis' = basis
    BY <1>2, <2>1, StopStatusNoVerdict
  <2>2. CASE Goto("transition") /\ basis' = basis
    BY <1>3, <2>2
  <2> QED
    BY <1>5, <2>1, <2>2 DEF StoppedShort
<1>6. CASE RetryStopped
  <2>1. CASE Answer(StopStatus(FALSE, stop'), FALSE) /\ basis' = basis
    BY <1>2, <2>1, StopStatusNoVerdict
  <2>2. CASE Goto("transition") /\ basis' = basis
    BY <1>3, <2>2
  <2> QED
    BY <1>6, <2>1, <2>2 DEF RetryStopped
<1>7. CASE Phase1Ended
  BY <1>2, <1>3, <1>7 DEF Phase1Ended
<1>8. CASE Verify
  <2>1. CASE (Goto("farkas") \/ Goto("transition")) /\ basis' = basis
    BY <1>3, <2>1
  <2>2. CASE Call(1, basis, ~Negative(basis), Artificial(lp)) /\ stage' = "retry" /\ answer' = answer
    BY <1>1, <2>2, TwoPhaseCall
  <2> QED
    BY <1>8, <2>1, <2>2 DEF Verify
<1>9. CASE Farkas
  <2>1. CASE (\E w \in Weights : Proves(w)) /\ Answer("Infeasible", FALSE) /\ basis' = basis
    <3>1. ~Feasible(lp)
      BY <1>1, <2>1, WeightsTrue
    <3> QED
      BY <1>2, <2>1, <3>1
  <2>2. CASE Answer(StopStatus(FALSE, stop'), FALSE) /\ basis' = basis
    BY <1>2, <2>2, StopStatusNoVerdict
  <2> QED
    BY <1>9, <2>1, <2>2 DEF Farkas
<1>10. CASE Transition
  <2>1. CASE Answer("Timeout", TRUE) /\ basis' = basis
    BY <1>2, <2>1
  <2>2. CASE (\E B \in PivotedOut : Call(2, B, ~Negative(B), {})) /\ answer' = answer
    <3>1. PICK B \in PivotedOut : Call(2, B, ~Negative(B), {})
      BY <2>2
    <3>2. B \in Bases(lp)
      BY <3>1 DEF PivotedOut
    <3> QED
      BY <1>1, <2>2, <3>1, <3>2, TwoPhaseCall
  <2> QED
    BY <1>10, <2>1, <2>2 DEF Transition
<1>11. CASE Phase2Stopped
  <2>1. core.phase = 2
    BY <1>11 DEF Phase2Stopped, VerdictInv, PhaseFits
  <2>2. CASE Answer(StopStatus(TRUE, stop'), TRUE) /\ basis' = basis
    BY <1>2, <2>2, StopStatusNoVerdict
  <2>3. CASE Answer(IF RayVerified THEN "Unbounded" ELSE StopStatus(TRUE, stop'), ~RayVerified)
             /\ basis' = basis
    <3>1. CASE RayVerified
      <4>1. HasRay(lp)
        BY <1>1, <2>1, <3>1, RayTrue
      <4>2. Answer("Unbounded", FALSE)
        BY <2>3, <3>1
      <4> QED
        BY <1>2, <2>3, <4>1, <4>2
    <3>2. CASE ~RayVerified
      <4>1. Answer(StopStatus(TRUE, stop'), TRUE)
        BY <2>3, <3>2
      <4> QED
        BY <1>2, <2>3, <4>1, StopStatusNoVerdict
    <3> QED
      BY <3>1, <3>2
  <2>4. CASE Answer("NumericalError", FALSE) /\ basis' = basis
    BY <1>2, <2>4
  <2> QED
    BY <1>11, <2>2, <2>3, <2>4 DEF Phase2Stopped
<1>12. CASE Phase2Optimal
  <2>1. core.phase = 2 /\ outcome = "Optimal"
    BY <1>12 DEF Phase2Optimal, VerdictInv, PhaseFits
  <2>2. CASE (Answer("Timeout", TRUE) \/ Answer("NumericalError", FALSE)) /\ basis' = basis
    BY <1>2, <2>2
  <2>3. CASE ~CarriesArtificial /\ Answer(Guarded, TRUE) /\ basis' = basis
    <3>1. Guarded = "Optimal" => Best(lp, basis)
      <4>1. Settled(basis)
        BY <2>1 DEF VerdictInv, EndsMean
      <4>2. Guarded = "Optimal" => Proven
        BY DEF Guarded
      <4> QED
        BY <1>1, <2>1, <2>3, <4>1, <4>2, OptimumTrue
    <3>2. Guarded \in {"Optimal", "SuboptimalSolution"}
      BY DEF Guarded
    <3> QED
      BY <1>2, <2>1, <2>3, <3>1, <3>2
  <2> QED
    BY <1>12, <2>2, <2>3 DEF Phase2Optimal
<1> QED
  BY <1>4, <1>5, <1>6, <1>7, <1>8, <1>9, <1>10, <1>11, <1>12 DEF Step

\* A primal iteration, on whatever rung.
LEMMA PrimalTrue ==
  ASSUME VerdictInv, Manager(lu), rung \in {"two_phase", "le2", "bigm2"}, Iterate,
         UNCHANGED <<lp, twoPhaseVars, ladderVars>>
  PROVE  VerdictInv'
<1>1. /\ lp' = lp /\ rung' = rung /\ reply' = reply /\ options' = options /\ stage' = stage
      /\ answer' = answer
  BY DEF ladderVars, twoPhaseVars
<1>2. PrimalKeeps
  BY <1>1, IterateKeeps DEF VerdictInv, Typed
<1>3. /\ basis' \in Bases(lp) /\ Framed(lp, core') /\ core'.phase = core.phase
      /\ outcome' = "Optimal" /\ core.phase # 1 => Settled(basis')
      /\ outcome # "Optimal"
  BY <1>2 DEF PrimalKeeps, Alike, Settled, Running
<1>4. Typed'
  BY <1>1, <1>3 DEF VerdictInv, Typed
<1>5. PhaseFits'
  BY <1>1, <1>3 DEF VerdictInv, PhaseFits
<1>6. EndsMean'
  BY <1>1, <1>3 DEF EndsMean, Duals, Settled
<1>7. AnswerTrue'
  BY <1>1, <1>3 DEF VerdictInv, AnswerTrue, BigMs
<1>8. ReplyTrue'
  BY <1>1 DEF VerdictInv, ReplyTrue, VerdictsTrue, Verdicts
<1> QED
  BY <1>4, <1>5, <1>6, <1>7, <1>8 DEF VerdictInv

\* A dual iteration.
LEMMA DualTrue ==
  ASSUME VerdictInv, Manager(lu), rung \in Duals, DualIterate,
         UNCHANGED <<lp, twoPhaseVars, ladderVars>>
  PROVE  VerdictInv'
<1>1. /\ lp' = lp /\ rung' = rung /\ reply' = reply /\ options' = options /\ stage' = stage
      /\ answer' = answer
  BY DEF ladderVars, twoPhaseVars
<1>2. DualFramed /\ DualFields(core)
  BY DEF VerdictInv, Typed, PhaseFits, EndsMean, DualFramed, Duals
<1>3. DualKeeps /\ (DualInv => DualInv')
  BY <1>1, <1>2, DualIterateKeeps DEF VerdictInv, EndsMean
<1>4. /\ basis' \in Bases(lp) /\ DualFields(core') /\ core'.phase = core.phase
      /\ core'.snapshot = core.snapshot /\ core'.artificials = core.artificials
      /\ BasisSet(basis') \subseteq BasisSet(basis) \cup Original(lp)
      /\ outcome' = "Optimal" => Settled(basis')
  BY <1>3 DEF DualKeeps, SamePrices
<1>5. Typed'
  BY <1>1, <1>4 DEF VerdictInv, Typed, Framed, DualFields
<1>6. PhaseFits'
  BY <1>1, <1>4 DEF VerdictInv, PhaseFits
<1>7. EndsMean'
  <2>1. (outcome = "Optimal" /\ core.phase # 1 => Settled(basis))'
    BY <1>1, <1>4 DEF Settled
  <2>2. rung # "minted"
    BY DEF Duals
  <2>3. rung = "warm" => BasisSet(basis') \subseteq Original(lp)
    BY <1>4 DEF VerdictInv, EndsMean
  <2>4. rung \in {"warm", "bigm1"} => DualInv'
    BY <1>3 DEF VerdictInv, EndsMean
  <2> QED
    BY <1>1, <1>4, <2>1, <2>2, <2>3, <2>4 DEF EndsMean
<1>8. AnswerTrue'
  BY <1>1 DEF VerdictInv, AnswerTrue, BigMs, Duals
<1>9. ReplyTrue'
  BY <1>1 DEF VerdictInv, ReplyTrue, VerdictsTrue, Verdicts, Duals
<1> QED
  BY <1>5, <1>6, <1>7, <1>8, <1>9 DEF VerdictInv

\* A step that leaves everything but the clock alone.
LEMMA IdleTrue ==
  ASSUME VerdictInv, UNCHANGED <<lp, coreVars, twoPhaseVars, ladderVars>>
  PROVE  VerdictInv'
<1>1. /\ lp' = lp /\ rung' = rung /\ reply' = reply /\ options' = options /\ stage' = stage
      /\ answer' = answer /\ basis' = basis /\ core' = core /\ outcome' = outcome
  BY DEF ladderVars, twoPhaseVars, coreVars
<1>2. Idle
  BY DEF Idle, coreVars, ladderVars
<1>3. Typed'
  BY <1>2, IdleKeeps DEF VerdictInv
<1>4. PhaseFits'
  BY <1>1 DEF VerdictInv, PhaseFits
<1>5. EndsMean'
  BY <1>1, <1>2, IdleKeeps DEF VerdictInv, EndsMean, Duals
<1>6. AnswerTrue'
  BY <1>1 DEF VerdictInv, AnswerTrue, BigMs
<1>7. ReplyTrue'
  BY <1>1, <1>2, IdleKeeps DEF VerdictInv, ReplyTrue
<1> QED
  BY <1>3, <1>4, <1>5, <1>6, <1>7 DEF VerdictInv

\* Every step keeps it.
LEMMA VerdictStep ==
  ASSUME VerdictInv, FactorsInv, [LadderNext]_<<vars, ladderVars>>
  PROVE  VerdictInv'
<1>1. Manager(lu)
  BY DEF FactorsInv, CoreInv
<1>2. CASE LadderStep
  BY <1>2, LadderTrue
<1>3. CASE Tick
  BY <1>3, IdleTrue DEF Tick
<1>4. CASE rung = "two_phase" /\ Next /\ UNCHANGED ladderVars
  <2>1. CASE Iterate /\ UNCHANGED <<lp, cap, stage, retry, answer, solution>>
    BY <1>1, <1>4, <2>1, PrimalTrue DEF twoPhaseVars
  <2>2. CASE Step
    BY <1>4, <2>2, StepTrue
  <2> QED
    BY <1>4, <2>1, <2>2 DEF Next
<1>5. CASE /\ rung \in {"le2", "bigm2"} /\ Iterate
           /\ UNCHANGED <<lp, cap, twoPhaseVars, ladderVars>>
  BY <1>1, <1>5, PrimalTrue
<1>6. CASE /\ rung \in {"warm", "bigm1", "bigm1b"} /\ DualIterate
           /\ UNCHANGED <<lp, cap, twoPhaseVars, ladderVars>>
  BY <1>1, <1>6, DualTrue DEF Duals
<1>7. CASE UNCHANGED <<vars, ladderVars>>
  BY <1>7, IdleTrue DEF vars, twoPhaseVars
<1> QED
  BY <1>2, <1>3, <1>4, <1>5, <1>6, <1>7 DEF LadderNext

\* It holds at the start.
LEMMA VerdictInit ==
  ASSUME LadderInit
  PROVE  VerdictInv
<1>1. /\ lp \in Programs /\ options \in Options(lp) /\ basis = Cold(lp)
      /\ core = Frame(2, basis, {}) /\ outcome = "none" /\ stage = "start" /\ answer = "none"
      /\ rung = "entry" /\ reply = [status |-> "none", by |-> "none"]
  BY DEF LadderInit, Init
<1>2. basis \in Bases(lp)
  BY <1>1, ColdIs
<1>3. Framed(lp, core)
  <2>1. {} \in SUBSET Artificial(lp)
    OBVIOUS
  <2> QED
    BY <1>1, <1>2, <2>1, FramesAreFramed
<1> QED
  BY <1>1, <1>2, <1>3 DEF VerdictInv, Typed, PhaseFits, EndsMean, AnswerTrue, ReplyTrue,
                          VerdictsTrue, Verdicts, BigMs, Duals

\* Whatever the eta file lost, whatever column was masked, whichever rung the answer comes
\* from and whenever the clock ran out, a claim is true of the program (guard_lp_optimal,
\* lp_unbounded_ray_verified, extract_farkas_certificate, and the dual core's dead end when
\* nothing disturbed it).
THEOREM ClaimsAreTrue == Spec => []VerdictsTrue
<1>1. LadderInit => StopInv /\ FactorsInv /\ VerdictInv
  <2>1. LadderInit => StopInv
    BY DEF LadderInit, Init, StopInv
  <2> QED
    BY <2>1, FactorsInit, VerdictInit
<1>2. StopInv /\ FactorsInv /\ VerdictInv /\ [LadderNext]_<<vars, ladderVars>>
        => (StopInv /\ FactorsInv /\ VerdictInv)'
  BY StopStep, FactorsStep, VerdictStep
<1>3. VerdictInv => VerdictsTrue
  BY DEF VerdictInv, ReplyTrue
<1> QED
  BY <1>1, <1>2, <1>3, PTL DEF Spec
=============================================================================
