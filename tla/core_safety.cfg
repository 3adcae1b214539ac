CONSTANTS
  Jobs = {j1, j2}
  Workers = {w1, w2}
  NoJob = NoJob
  MaxRetries = 2
  MaxFaults = 2
  MaxSignals = 1
  MaxCrashes = 1
  MaxDuplicates = 0
  MaxFailures = 1
SPECIFICATION HostSpec
SYMMETRY Symmetry
INVARIANTS OneHolder ListedIsStored RetryAccounting OutcomeMatchesPayload
PROPERTIES ImplementsLifecycle
CHECK_DEADLOCK FALSE
