CONSTANTS
  Programs <- MCPrograms
  MaxEtas = 2
  Accidents = 2
  Caps = {3, 9}
  MaxRetries = 1
  Options <- MCOptions
SPECIFICATION Spec
INVARIANTS VerdictsTrue StopHonest DecidesUndisturbed FactorsFollowBasis
CHECK_DEADLOCK FALSE
