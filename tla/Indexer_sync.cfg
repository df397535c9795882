SPECIFICATION FairSpec
CONSTANTS
  NumBatch = 2
  NumIPC = 2
  CheckEvery = 2
  InitHead = 0
  MaxHead = 3
  MaxRuns = 2
  MaxFailures = 0
  MaxCrashes = 0
PROPERTIES BatchesComplete HeadIndexed
CHECK_DEADLOCK FALSE
