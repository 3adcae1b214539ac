CONSTANTS
    Environments <- OneMistake
    MaxOutages = 2
    MaxKills = 1
SPECIFICATION Spec
INVARIANTS EndedIsClosed ServesMigrated ConfigIsComplete
PROPERTIES ServesInTheEnd
CHECK_DEADLOCK FALSE
