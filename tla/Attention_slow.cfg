\* A run as long as the margin reaches a head that was pushed meanwhile.
SPECIFICATION Spec
CONSTANTS
  Viewer = me
  Others = {ann}
  Ghosts = {}
  Bots = {}
  ReplyBots = {}
  People = {ann}
  TriageScope = FALSE
  Margin = 1
  Skews = {0}
  ReviewPage = 1
  MaxAge = 2
  MaxClock = 2
  MaxPushes = 2
  MaxReviews = 1
  MaxSpeech = 0
  MaxEvents = 2
INVARIANTS ApprovalsPostdateThePush
CHECK_DEADLOCK FALSE
