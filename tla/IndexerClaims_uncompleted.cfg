SPECIFICATION Spec
CONSTANTS
  NumBatch = 2
  NumIPC = 1
  CheckEvery = 2
  InitHead = 2
  MaxHead = 2
  MaxRuns = 2
  MaxFailures = 0
  MaxCrashes = 1
INVARIANT UncompletedBatchesRun
CHECK_DEADLOCK FALSE
