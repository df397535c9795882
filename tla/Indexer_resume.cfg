SPECIFICATION FairSpec
CONSTANTS
  NumBatch = 2
  NumIPC = 1
  CheckEvery = 2
  InitHead = 4
  MaxHead = 4
  MaxRuns = 4
  MaxFailures = 1
  MaxCrashes = 2
PROPERTIES SyncResumes CurrentAdvances
CHECK_DEADLOCK FALSE
