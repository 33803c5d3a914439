SPECIFICATION Spec
CONSTANTS
  Hangover = 3
  Gaps <- MCGaps
  MaxNow = 7
  MaxAnswers = 3
  BargeInFrames = 2
  ReleaseFrames = 2
INVARIANTS AnsweredTurnIsTranscribed
CHECK_DEADLOCK FALSE
