\* Two addresses; a bucket of two, forgotten after three units of silence.
CONSTANTS
  a1 = a1 a2 = a2
  Addrs = {a1, a2}
  Burst = 2
  Idle = 2
  Pause = 1
  Slack = 1
  MaxTime = 5
  MaxAsks = 2
SPECIFICATION Spec
INVARIANTS
  RateBound
  RefusedOnlyInExcess
  ForgottenWhenIdle
SYMMETRY Symmetry
CHECK_DEADLOCK FALSE
