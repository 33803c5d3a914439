SPECIFICATION FairSpec
CONSTANTS
  LateGrace = 1
  RunAllLimit = 2
  Ids <- MCIds
  Jobs <- MCJobs
  MaxNow = 3
  MaxRuns = 3
  MaxUpsets = 1
INVARIANTS RunsOnce ToldOnce RememberedFirst
PROPERTIES WaitsToBeTold EveryRunIsTold
CHECK_DEADLOCK FALSE
