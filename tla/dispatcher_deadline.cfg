CONSTANTS
  Jobs = {j1}
  Workers = {w1, w2}
  NoJob = NoJob
  MaxRetries = 1
  MaxFaults = 1
  MaxSignals = 0
  MaxCrashes = 0
  MaxDuplicates = 0
SPECIFICATION Spec
INVARIANT DispatcherStopsOnlyWhenCancelled
CHECK_DEADLOCK FALSE
