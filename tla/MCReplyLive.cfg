SPECIFICATION FairSpec
CONSTANTS
  Replies <- MCReplies
  MaxSentences = 2
  MaxInFlight = 2
  NextWaitsForFade = FALSE
INVARIANTS FadeIsAccountedFor
PROPERTIES EveryAnswerSettles
CHECK_DEADLOCK FALSE
