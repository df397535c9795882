SPECIFICATION FairSpec
CONSTANTS
  MaxRuns = 3
  MaxFaults = 2
INVARIANTS TypeOK OldFetchEnds ClosedOnce
PROPERTIES ListensAgain WatchedAgain
CONSTRAINT NoOverlap
CHECK_DEADLOCK FALSE
