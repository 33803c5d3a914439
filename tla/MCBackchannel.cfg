SPECIFICATION ClipSpec
CONSTANTS
  Replies <- MCReplies
  MaxSentences = 2
  MaxInFlight = 2
  NextWaitsForFade = TRUE
  Overlap = "duck"
  MaxClips = 1
INVARIANTS NothingImagined GainHasAReason InterruptIsObeyed
PROPERTIES KeepsSpokenReply
CHECK_DEADLOCK FALSE
