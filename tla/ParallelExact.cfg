SPECIFICATION MCSpec
CONSTANTS
  Parts = {"search"}
  Threads = {t1, t2, t3}
  Offers = {1}
  Infinity = 100
  Free = free
  Workers = {w1, w2, w3}
  Points <- ThreePoints
  Feasible <- OuterPoints
  Value <- ValueOuter
  Inf = 100
  Bound = {3}
  Statuses = {"optimal", "infeasible"}
  GapNum = 0
  GapDen = 1
  MaxNodes = 10
  MaxDepth = 3
  MaxConflicts = 2
  DiveFrequency = 2
  DiveFrequencyNoIncumbent = 1
  MaxDiveDepth = 1
  HasDeadline = FALSE
  MayPanic = FALSE
  MayRefuse = FALSE
SYMMETRY Symmetry
INVARIANTS StaleIsConservative
PROPERTIES ImplementsPool ImplementsContract
