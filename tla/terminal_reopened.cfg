CONSTANTS
  Jobs = {j1}
  Workers = {w1, w2}
  NoJob = NoJob
  MaxRetries = 1
  MaxFaults = 0
  MaxSignals = 0
  MaxCrashes = 0
  MaxDuplicates = 1
SPECIFICATION FairSpec
PROPERTY TerminalIsFinal
CHECK_DEADLOCK FALSE
