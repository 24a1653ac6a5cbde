CONSTANTS
  chA = chA
  chB = chB
  Chars = {chA, chB}
  Answers <- MCAnswers
  Null = Null
  Foreign = Foreign
  Unsent = Unsent
  MaxLen = 2
  MaxKeys = 3
  MaxFaults = 1
SPECIFICATION FairSpec
INVARIANTS TypeOK GhostSettles
PROPERTIES ForeignKept AcceptsWhatIsShown AnswerArrives
CHECK_DEADLOCK FALSE
