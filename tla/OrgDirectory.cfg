\* Two listings of either page and their fills; a key lives one tick.
CONSTANTS
  q1 = q1 q2 = q2 q3 = q3
  NumOrgs = 2
  Filters <- All
  PageSize = 1
  MaxPage = 2
  Requests = {q1, q2}
  MaxActive = 2
  Expiry = 1
  Timeout = 1
  MaxTime = 4
  MaxVersion = 1
  MayBreak = TRUE
SPECIFICATION Spec
INVARIANTS
  StaleAtMost
  DropsExpired
SYMMETRY Symmetry
CHECK_DEADLOCK FALSE
