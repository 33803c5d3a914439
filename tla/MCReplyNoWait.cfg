SPECIFICATION Spec
CONSTANTS
  Replies <- MCReplies
  MaxSentences = 2
  MaxInFlight = 2
  NextWaitsForFade = FALSE
INVARIANTS CompleteWasPlayed
CHECK_DEADLOCK FALSE
