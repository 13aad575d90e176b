SPECIFICATION Spec
CONSTANTS
  groq = groq
  groqAgain = groqAgain
  openai = openai
  Member <- Two
  Label <- OwnLabels
  Quorum = 2
  Strategies <- All
  Attempts = 1
  Limit = 2
  MaxOthers = 0
INVARIANTS SynthesisKeepsCap
CHECK_DEADLOCK FALSE
