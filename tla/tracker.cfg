CONSTANTS
  Jobs = {j1, j2}
  NoJob = NoJob
  MaxRetries = 1
  MaxTracks = 2
  MaxBadAnswers = 1
SPECIFICATION Spec
INVARIANTS ShownIsTracked PollingIsAlive EndsWithTheFinalState
PROPERTIES NeverGoesBack PollingEnds
CHECK_DEADLOCK FALSE
