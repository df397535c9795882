SPECIFICATION Spec
CONSTANTS
  NumBatch = 1
  NumIPC = 1
  CheckEvery = 2
  InitHead = 8
  MaxHead = 10
  MaxRuns = 1
  MaxFailures = 0
  MaxCrashes = 0
INVARIANT LastBlockIsLatest
CHECK_DEADLOCK FALSE
