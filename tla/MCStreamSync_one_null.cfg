\* One node:null for an item that still exists: a replica that lags.
SPECIFICATION StreamSpec
CONSTANTS
  pr1 = pr1  pr2 = pr2  me = me  pat = pat  bot = bot
  Login <- MCLogin
  Involves <- MCInvolves
  Author <- MCAuthor
  Items = {pr2}
  Configs <- FilterConfigs
  Forced = {TRUE, FALSE}
  Cap = 1
  Lag = 0
  Overlap = 1
  Lookback = 9
  MinWindow = 2
  PageBatch = 2
  DrainAttempts = 3
  BackoffBase = 1
  BackoffCap = 2
  ReverifyCap = 1
  MaxClock = 3
  MaxGone = 1
  MaxTrouble = 3
  MaxSpurious = 1
  StarvedBound = 1
INVARIANTS DrainedIsGone
