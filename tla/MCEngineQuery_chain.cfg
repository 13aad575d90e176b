SPECIFICATION FairSpec
CONSTANTS
  groq = groq
  ollama = ollama
  q1 = q1
  q2 = q2
  Order <- Chain
  Flaky = {groq}
  Default = ollama
  Limit = 1
  RetryFor = 1
  Threshold = 2
  Window = 2
  Cooldown = 1
  MaxCooldown = 2
  Query <- TwoQueries
  Costs = {1}
  Named = TRUE
  Streamers = {q1}
  Judged = {q2}
INVARIANTS TypeOK ClosedIsFresh OverspendBounded
CHECK_DEADLOCK FALSE
PROPERTIES Recovers
