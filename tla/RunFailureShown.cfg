CONSTANTS
  MaxRuns = 2
  MaxVersion = 3
SPECIFICATION Spec
INVARIANT FailureIsShown
CHECK_DEADLOCK FALSE
