CONSTANTS
  Rows = {1, 2, 3}
  Cols = {1, 2, 3}
  Inf = 99
  Reach = 3
  Problems <- FreeBounded
  MaxPass = 3
SPECIFICATION Spec
INVARIANTS AnswersTrue
CHECK_DEADLOCK FALSE
