SPECIFICATION MCSpec
CONSTANTS
  Parts = {"search", "incumbent"}
  Threads = {t1, t2, t3}
  Offers = {1, 2, 3}
  Infinity = 100
  Free = free
  Workers = {w1, w2}
  Points <- ThreePoints
  Feasible <- ThreePoints
  Value <- ValueValley
  Inf = 100
  Bound = {2, 4}
  Statuses = {"optimal", "infeasible", "unbounded", "timeout", "untrusted", "corrupt"}
  GapNum = 1
  GapDen = 4
  MaxNodes = 2
  MaxDepth = 2
  MaxConflicts = 2
  DiveFrequency = 2
  DiveFrequencyNoIncumbent = 1
  MaxDiveDepth = 1
  HasDeadline = TRUE
  MayPanic = TRUE
  MayRefuse = TRUE
SYMMETRY Symmetry
INVARIANTS NothingLost OnlyDivesArePrivate BudgetOvershoot MirrorDecreases BestSurvives
PROPERTIES ImplementsRegister ImplementsContract
