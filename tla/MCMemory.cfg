SPECIFICATION Spec
CONSTANTS
  Family <- MCFamily
  Plain <- MCPlain
  SingleValued = {"lives_in"}
  FollowUp = "follow_up"
  ForgetBelow = 2
  ForgetAfter = 0
  Tables <- MCTables
  Sayings <- MCSayings
  Wordings = {"Halifax"}
  RestAfter = 1
  Certain = 9
  MaxNow = 2
  MaxJobs = 2
  MaxFaults = 1
INVARIANTS CacheInStep DeletedStaysDeleted SleptMeansSorted
PROPERTIES ClosesFirst MergedLivesOn
CHECK_DEADLOCK FALSE
