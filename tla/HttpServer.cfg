\* Two connections of two requests, two signals.
CONSTANTS
  c1 = c1 c2 = c2
  Conns = {c1, c2}
  MaxRequests = 2
  MaxSignals = 2
SPECIFICATION Spec
INVARIANTS
  GracefulMeansAnswered
PROPERTIES
  EveryRequestEnds
  SignalStops
CHECK_DEADLOCK FALSE
