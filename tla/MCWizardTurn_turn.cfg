SPECIFICATION Spec
CONSTANTS
  look = look
  install = install
  save = save
  which = which
  why = why
  odd = odd
  repair = repair
  other = other
  Call <- Calls
  Class <- Classes
  Token <- Tokens
  Whitelist <- NoRepair
  Roster <- LookOnly
  Reply <- Replies
  Costs = {1}
  Ceilings <- NoOrLow
  MaxIterations = 3
  MaxRestarts = 1
  ConsumedMax = 1
INVARIANTS TypeOK QuestionIsLast NothingLost LedgerCovers CeilingHolds UnattendedAsksNobody
PROPERTIES ActsOnce
CHECK_DEADLOCK FALSE
