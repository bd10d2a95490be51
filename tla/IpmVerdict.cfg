SPECIFICATION MCSpec
CONSTANTS
  p1 = p1
  p2 = p2
  p3 = p3
  p4 = p4
  Feasible <- MCFeasible
  RootBoxes <- MCRootBoxes
  Cell <- MCCell
  Value <- MCValue
  Bound <- MCBound
  Inf = 100
  GapNum = 1
  GapDen = 4
  CellsExact = TRUE
  CanStop = TRUE
  MaxNodes = 5
  MaxDepth = 2
  a = a
  b = b
  f = f
  PoolIds = {1, 2, 3, 4}
  NoPool = 0
  Infinite = 100
  Calls <- MCCalls
  Requests <- MCRequests
  Outcomes <- MCOutcomes
  Routes = {"attempts"}
  good = good
  near = near
  far = far
  Iterates <- MCIterates
  NoIterate = none
  Score <- MCScore
  Objective <- MCObjective
  Satisfying <- MCSatisfying
  Worst = 100
  AttemptCap = 1
  SameToStop = 3
  Iterations = {1}
  Verdicts = {"Unbounded", "NonConvex"}
  IpmCalls <- ScaledCall
INVARIANTS VerifiedVerdictWins
