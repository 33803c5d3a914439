SPECIFICATION Spec
CONSTANTS
  Hangover = 3
  Gaps <- MCGaps
  MaxNow = 5
  MaxAnswers = 3
  BargeInFrames = 2
  ReleaseFrames = 2
INVARIANTS NothingTakenBack OneVoice SilentAfterHangUp   WordsBeforeVoice
PROPERTIES DrivesReplies
CHECK_DEADLOCK FALSE
