SPECIFICATION Spec
CONSTANTS
  Points <- FourPoints
  Feasible <- FourFeasible
  Value <- ValueFour
  Inf = 100
  Bound = {2, 4}
  Statuses = {"optimal", "infeasible", "unbounded", "timeout", "truncated", "untrusted", "corrupt"}
  GapNum = 1  GapDen = 4
  MaxNodes = 5  MaxDepth = 2  MaxConflicts = 2
  DiveFrequency = 2  DiveFrequencyNoIncumbent = 1  MaxDiveDepth = 1
  HasDeadline = TRUE
  LpBudget = 4
  NodeIters = {0, 2}
INVARIANTS NothingLost ClausesAreFacts
PROPERTIES ImplementsContract EventuallyAnswered
