CONSTANTS
  Jobs = {j1, j2}
  Workers = {w1, w2}
  NoJob = NoJob
  MaxRetries = 1
  MaxFaults = 1
  MaxSignals = 1
  MaxCrashes = 1
  MaxDuplicates = 0
SPECIFICATION FairSpec
INVARIANTS HolderKnowsRow
PROPERTIES ImplementsDelivery ShutdownCompletes SettleOrStrand StrandedForGood
           StrandedOnlyByFailure
CHECK_DEADLOCK FALSE
