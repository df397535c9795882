SPECIFICATION FairSpec
CONSTANTS
  NumBatch = 2
  NumIPC = 2
  CheckEvery = 1
  InitHead = 3
  MaxHead = 3
  MaxRuns = 2
  MaxFailures = 1
  MaxCrashes = 0
PROPERTY StopEndsBatch
CHECK_DEADLOCK FALSE
