SPECIFICATION FairSpec
CONSTANTS
  Texts <- AnyTexts
  MostEnds = 2
INVARIANTS
  TypeOK
  ReportsShown
  LongestMatch
PROPERTIES
  TokensInOrder
  Ends
CHECK_DEADLOCK FALSE
