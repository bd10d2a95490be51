SPECIFICATION MCSpec
CONSTANTS
  Parts = {"search"}
  Threads = {t1, t2, t3}
  Offers = {1}
  Infinity = 100
  Free = free
  Workers = {w1, w2}
  Points <- ThreePoints
  Feasible <- ThreePoints
  Value <- ValueValley
  Inf = 100
  Bound = {2, 4}
  Statuses = {"optimal", "infeasible"}
  GapNum = 1
  GapDen = 4
  MaxNodes = 10
  MaxDepth = 3
  MaxConflicts = 2
  DiveFrequency = 2
  DiveFrequencyNoIncumbent = 1
  MaxDiveDepth = 1
  HasDeadline = FALSE
  MayPanic = FALSE
  MayRefuse = FALSE
SYMMETRY Symmetry
INVARIANTS CertificateAuthenticated
