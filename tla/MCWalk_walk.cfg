\* The operator adds and lifts an author filter; windows split; one kill, deferral
\* or failure anywhere.  Comments come and go, with one fault, until GitHub is quiet.
SPECIFICATION WalkSpec
CONSTANTS
  pr1 = pr1  pr2 = pr2  me = me  pat = pat  bot = bot
  Login <- MCLogin
  Involves <- MCInvolves
  Author <- MCAuthor
  Items = {pr1, pr2}
  Configs <- FilterConfigs
  Forced = {FALSE}
  Cap = 1
  Lag = 0
  Overlap = 0
  Lookback = 3
  MinWindow = 2
  PageBatch = 2
  DrainAttempts = 2
  BackoffBase = 1
  BackoffCap = 2
  ReverifyCap = 0
  MaxClock = 4
  MaxGone = 0
  MaxTrouble = 1
  MaxSpurious = 0
  StarvedBound = 0
  MaxId = 5
  PageSize = 2
  MaxPages = 1
  TailK = 1
  WalkBack = 2
  Depth = 0
  MaxFaults = 1
INVARIANTS WatermarkNeverLeadsData CheckedMeansSeen NothingMissed QuietIsExact
PROPERTIES KeepsThePromise ReplayWritesNothing KeepsTheArchive Heals
