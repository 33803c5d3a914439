SPECIFICATION FairSpec
CONSTANTS
  Machines <- MCMachines
  MaxAnswers = 2
  MaxOutside = 3
INVARIANTS TimersMatchState OneLineEach WordsInTheirPlace 
PROPERTIES FadeIsHeardOut InterruptionEnds
CHECK_DEADLOCK FALSE
