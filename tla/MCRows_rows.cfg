\* Every kind of row on its own small instance; see the module.
SPECIFICATION RowsSpec
CONSTANTS
  Viewer = me
  Others = {ann, ghost, bot}
  Ghosts = {ghost}
  Bots = {bot}
  ReplyBots = {}
  People = {ann}
  TriageScope = TRUE
  Margin = 2
  Skews = {0}
  ReviewPage = 2
  MaxAge = 2
  MaxClock = 2
  MaxPushes = 2
  MaxReviews = 3
  MaxSpeech = 2
  MaxEvents = 3
  Own = own
  Other = other
  MaxVersion = 4
  MaxBundles = 4
  Beginnings <- MCBeginnings
  Tokens <- MCTokens
  MaxAdded = 4
INVARIANTS ReadyNeverLies ChangeRequestsStand VerdictsAreCurrent DemandsSurface ScanMatchesGrammar
PROPERTIES RequestsNeedAWitness StreamRowsNeverRegress ProvenTriage MarksNeedAWitness
CHECK_DEADLOCK FALSE
