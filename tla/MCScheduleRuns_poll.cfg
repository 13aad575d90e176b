SPECIFICATION FairSpec
CONSTANTS
  s1 = s1
  s2 = s2
  r1 = r1
  Id <- Schedules
  Request <- OneRequest
  MaxRuns = 3
  ModeOf <- Modes
  OnlyModes <- Mode
  AllowDo = FALSE
  Attended <- OneSchedule
  UserCancels = TRUE
  CanLose = TRUE
  MarkMayFail = TRUE
INVARIANTS TypeOK OverlapNeedsNewThread
PROPERTIES DueRuns
CHECK_DEADLOCK FALSE
