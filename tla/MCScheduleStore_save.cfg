SPECIFICATION FairSpec
CONSTANTS
  route = route
  runner = runner
  cli = cli
  apiProcess = apiProcess
  cliProcess = cliProcess
  old = old
  new = new
  Id <- Ids
  Stored <- OldOnly
  ProcessOf <- Places
  Writer <- Everyone
  Process <- Both
  MaxOps = 2
  CanCrash <- Api
  CanStall <- Cli
  ReadMayFail = {"load"}
  UnlinkMayFail = TRUE
INVARIANTS TypeOK AddsKept RaceNeedsDelay
PROPERTIES WholeChanges SaveEnds
CHECK_DEADLOCK FALSE
