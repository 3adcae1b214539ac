CONSTANTS
  Hosts = {h1, h2}
  ApiHost = h1
  MaxRetries = 1
  Offsets <- SmallOffsets
  Epoch = 2000
  Quantum = 300
  CallTime = 400
  MaxTime = 6000
  MaxSettings = 1
SPECIFICATION Spec
INVARIANTS TimesOrdered RowLoadable RefusedOnlyBehind
PROPERTIES UpdatesAdvance
CHECK_DEADLOCK FALSE
