SPECIFICATION Spec
CONSTANTS
  route = route
  runner = runner
  cli = cli
  apiProcess = apiProcess
  cliProcess = cliProcess
  old = old
  new = new
  Id <- Ids
  Stored <- OldOnly
  ProcessOf <- Places
  Writer <- RunnerCli
  Process <- Both
  MaxOps = 2
  CanCrash <- None
  CanStall <- None
  ReadMayFail = {}
  UnlinkMayFail = FALSE
INVARIANTS EditsKept
CHECK_DEADLOCK FALSE
