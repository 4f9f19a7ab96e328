SPECIFICATION Spec
CONSTANTS
  MaxTurns = 3
  MCLiberties = {}
  MCSteps = 2
INVARIANTS
  OptimizedRunsAlike
  OnePassSuffices
CHECK_DEADLOCK FALSE
