SPECIFICATION FairSpec
CONSTANTS
  groq = groq
  groqAgain = groqAgain
  openai = openai
  Member <- Three
  Label <- TwinLabels
  Quorum = 2
  Strategies <- All
  Attempts = 3
  Limit = 1
  MaxOthers = 1
INVARIANTS TypeOK EachMemberOnce SilenceIsTimeout CostsAccounted ScreenIsTrue
PROPERTIES ClientTold
CHECK_DEADLOCK FALSE
