SPECIFICATION WatchSpec
CONSTANTS
  page = page
  runLog = runLog
  otherProcess = otherProcess
  LoopClient <- Pages
  ThreadClient <- Threads
  OtherClient <- Others
  Company <- Either
  MaxEvents = 2
  MaxCrashes = 1
  MaxCancels = 1
  PageLimit = 1
INVARIANTS WatchTypeOK EndIsLogged WatcherMisses
PROPERTIES LivesOnce OrphansEnd CancelEnds
CHECK_DEADLOCK FALSE
