CONSTANTS
  Jobs = {j1, j2}
  Workers = {w1, w2}
  NoJob = NoJob
  MaxRetries = 3
  MaxFaults = 0
  MaxSignals = 0
  MaxCrashes = 0
  MaxDuplicates = 1
SPECIFICATION FairSpec
INVARIANTS RowsWellFormed NoStranded
PROPERTIES EventuallySettled
CHECK_DEADLOCK FALSE
