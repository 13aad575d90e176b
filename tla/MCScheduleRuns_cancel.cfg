SPECIFICATION Spec
CONSTANTS
  s1 = s1
  s2 = s2
  r1 = r1
  Id <- OneSchedule
  Request <- NoRequest
  MaxRuns = 2
  ModeOf <- Modes
  OnlyModes <- Mode
  AllowDo = FALSE
  Attended <- Nobody
  UserCancels = TRUE
  CanLose = FALSE
  MarkMayFail = FALSE
INVARIANTS PollerLives
CHECK_DEADLOCK FALSE
