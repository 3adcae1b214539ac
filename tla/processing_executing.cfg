CONSTANTS
  Jobs = {j1}
  Workers = {w1, w2}
  NoJob = NoJob
  MaxRetries = 1
  MaxFaults = 0
  MaxSignals = 1
  MaxCrashes = 0
  MaxDuplicates = 0
SPECIFICATION Spec
INVARIANT ProcessingIsExecuting
CHECK_DEADLOCK FALSE
