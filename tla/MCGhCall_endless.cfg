\* A descendant writes to the pipe it inherited for ever.
SPECIFICATION GhSpec
CONSTANTS
  Plans <- MCPlans
  Holds <- MCHolds
  Attempts = 1
  RetryBudget = 0
  MaxCalls = 1
  PipeCap = 1
  ChanCap = 2
  MaxMutters = 2
  Endless = TRUE
PROPERTIES CallEnds
CHECK_DEADLOCK FALSE
