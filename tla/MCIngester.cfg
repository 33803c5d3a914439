SPECIFICATION FairSpec
CONSTANTS
  a = a
  b = b
  m = m
  None = None
  Paths <- MCPaths
  Texts <- MCTexts
  Models <- MCModels
  MaxEdits = 2
  MaxFaults = 2
PROPERTIES OnlyGoneIsForgotten ChangeIsIndexed
CHECK_DEADLOCK FALSE
