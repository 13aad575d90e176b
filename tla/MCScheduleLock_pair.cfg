SPECIFICATION FairSpec
CONSTANTS
  api = api
  cli = cli
  Runner <- ApiAndCli
  Waits <- OnlyApi
  Poll <- MixedPoll
  StaleBeats = 2
  MaxMissed = 1
  CanCrash <- ApiAndCli
  CanStall <- OnlyApi
INVARIANTS TypeOK BoundedOverlap LiveHolderReadsLive
PROPERTIES WaiterTakesOver
CHECK_DEADLOCK FALSE
