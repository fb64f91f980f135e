\* The operator adds and lifts an author filter, a person joins `people` and leaves
\* it; the index shows an update late; no run is interrupted and no window is capped.
\* The threads of one run after another share a channel and the floor.
SPECIFICATION RunsSpec
CONSTANTS
  pr1 = pr1  pr2 = pr2  me = me  pat = pat  bot = bot
  Login <- MCLogin
  Involves <- EditedInvolves
  Author <- EditedAuthor
  Items = {pr1, pr2}
  Configs <- EditedConfigs
  Forced = {FALSE}
  Cap = 2
  Lag = 2
  Overlap = 1
  Lookback = 3
  MinWindow = 2
  PageBatch = 2
  DrainAttempts = 2
  BackoffBase = 1
  BackoffCap = 2
  ReverifyCap = 0
  MaxClock = 4
  MaxGone = 0
  MaxTrouble = 0
  MaxSpurious = 0
  StarvedBound = 0
  Repos = {r1, r2}
  Workers = {w1, w2}
  ChanCap = 1
  Budget = 2
  Floor = 2
  Projects = {r1}
  MaxCalls = 2
  MaxStarved = 1
  MaxUntyped = 1
INVARIANTS ResumesBehindData TypeOK EveryRepoAccounted CountsRuns FloorHolds
PROPERTIES WatermarkMonotone RunEnds
