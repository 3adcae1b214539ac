CONSTANTS
  Requests = {r1, r2, r3}
SPECIFICATION Spec
INVARIANTS NilMeansAllAnswered ListenErrorIsReported NeverWaitsInVain
PROPERTIES SignalEndsTheServer
CHECK_DEADLOCK FALSE
