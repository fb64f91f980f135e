SPECIFICATION Spec
CONSTANTS
  Viewer = me
  Others = {ann, bob}
  Ghosts = {}
  Bots = {}
  ReplyBots = {}
  People = {ann}
  TriageScope = TRUE
  Margin = 2
  Skews = {0}
  ReviewPage = 2
  MaxAge = 0
  MaxClock = 2
  MaxPushes = 2
  MaxReviews = 2
  MaxSpeech = 1
  MaxEvents = 3
INVARIANTS NoApprovalOverAChangeRequest
CHECK_DEADLOCK FALSE
