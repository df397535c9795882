SPECIFICATION Spec
CONSTANTS
  NumBatch = 2
  NumIPC = 2
  CheckEvery = 2
  InitHead = 1
  MaxHead = 3
  MaxRuns = 3
  MaxFailures = 1
  MaxCrashes = 1
INVARIANTS TypeOK ProgressSound DoneBatchCovered BlockRecordBacked RecordsResumed
PROPERTY KeepsPromise
CHECK_DEADLOCK FALSE
