SPECIFICATION Spec
CONSTANTS
  CandidateAfter = 1
  Hangover = 3
  Preroll = 2
  Gaps <- MCGaps
  MaxNow = 9
INVARIANTS TypeOK NoFrameLost TurnNeverShrinks EndsWhereSpeechEnded BackstopHolds
PROPERTIES KeepsBoundaries
