\* One run and one stop of the process after it is exhausted.
CONSTANTS
  MaxRuns = 2
  MaxGeneration = 6
  MaxFaults = 1
SPECIFICATION FairSpec
PROPERTY CapacityReachedEnds
CHECK_DEADLOCK FALSE
