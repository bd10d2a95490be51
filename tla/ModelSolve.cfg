CONSTANTS
  Rows = {1, 2, 3}
  Cols = {1, 2, 3}
  Inf = 99
  Reach = 3
  Problems <- MCModels
  MaxPass = 3
  MaxCutRounds = 2
  MaxCoefficient = 8
  TreeRounds = 2
  DryLimit = 1
  MaxNodes = 2
  NodeIters = {2000}
SPECIFICATION ModelSpec
INVARIANTS KeepsOptimum LiftedOptimal DualsRecovered AnswersTrue KeepsPoints SeparationBudget
CHECK_DEADLOCK FALSE
