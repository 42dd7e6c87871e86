\* Two logins; three rounds of the loop; the sweep may be late.
CONSTANTS
  k1 = k1 k2 = k2
  Keys = {k1, k2}
  Retries = 3
  Period = 2
  Interval = 1
  Slack = 2
  MaxTime = 6
SPECIFICATION AppSpec
INVARIANTS
  KeptWhileFresh
  ForgottenInTime
  OneConnectionPerLogin
  ConnectedIsHeard
PROPERTIES
  ConnectsEnd
CHECK_DEADLOCK FALSE
