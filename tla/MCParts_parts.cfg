\* Every part on its own small instance; see the module.
SPECIFICATION PartsSpec
CONSTANTS
  Plans <- MCPlans
  Holds <- MCHolds
  Attempts = 2
  RetryBudget = 1
  MaxCalls = 2
  PipeCap = 1
  ChanCap = 1
  MaxMutters = 1
  Endless = FALSE
  Sends = {"garbled", "invalid", "note", "call", "badcall"}
  MaxFrames = 3
  Hung = {1}
  Procs = {"p", "q"}
  Places = {"ok", "symlink", "writable parent"}
  Found <- MCFound
  MaxKills = 1
  MaxOpens = 4
  TermLists <- MCTermLists
  Began = 1
  PageSize = 2
  SearchCap = 3
  PagesLimit = 3
  MaxBumps = 1
  MaxBroken = 1
  Owner <- MCOwner
  MaxEdits = 1
  ThreadPage = 1
  NestedFirst = 1
  Nested = 2
  MaxLag = 0
  MaxTroubles = 1
  PrRows = {1, 2, 3}
  OpenPeriod = 1
  ClosedPeriod = 2
  Hash <- MCHash
  TierCap = 2
  MaxOutgrown = 1
  MaxSetbacks = 1
  Starts <- MCStarts
  Spans <- MCSpans
INVARIANTS CallsAreSound AnswersAreTrue NeverBetweenVersions RefusalsAreEarned CompleteMissesNothing ThreadRowsAreTrue QuietThreadsAreExact CalendarIsExact
PROPERTIES CallEnds RequestsAreAnswered EveryRowComesUp PendingRowsAdvance
CHECK_DEADLOCK FALSE
