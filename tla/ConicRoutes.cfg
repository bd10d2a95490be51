SPECIFICATION Spec
CONSTANTS
  p0 = p0
  p1 = p1
  p2 = p2
  p3 = p3
  Problems <- MCProblems
  Points <- MCPoints
  Twice <- MCTwice
  Cell <- MCCell
  Value <- MCValue
  Bounds <- MCBounds
  Inf = 100
  GapTol = 1
  MaxNodes = 6
INVARIANTS RegionsCovered GapHonest
PROPERTIES ProofsYieldToStop ImplementsContract
