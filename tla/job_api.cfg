CONSTANTS
    Requests = {r1, r2, r3}
    Ids = {i1, i2}
    NoId = NoId
    NoRequest = NoRequest
    MaxFaults = 2
SPECIFICATION Spec
INVARIANTS PushedIsOwn RefusedLeavesNothing AnswerTellsTheOutcome KnownIsFound
SYMMETRY Symmetry
CHECK_DEADLOCK FALSE
