\* A run that backfills a new person is killed.
SPECIFICATION StreamSpec
CONSTANTS
  pr1 = pr1  pr2 = pr2  me = me  pat = pat  bot = bot
  Login <- MCLogin
  Involves <- PeopleInvolves
  Author <- MCAuthor
  Items = {pr1, pr2}
  Configs <- PeopleConfigs
  Forced = {TRUE, FALSE}
  Cap = 2
  Lag = 0
  Overlap = 0
  Lookback = 9
  MinWindow = 2
  PageBatch = 2
  DrainAttempts = 2
  BackoffBase = 1
  BackoffCap = 2
  ReverifyCap = 0
  MaxClock = 4
  MaxGone = 0
  MaxTrouble = 1
  MaxSpurious = 0
  StarvedBound = 0
INVARIANTS ResumesBehindData
