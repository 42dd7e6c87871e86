\* Two listings one after the other; nothing fails and no time passes.
CONSTANTS
  q1 = q1 q2 = q2 q3 = q3
  NumOrgs = 2
  Filters <- All
  PageSize = 2
  MaxPage = 1
  Requests = {q1, q2}
  MaxActive = 2
  Expiry = 1
  Timeout = 1
  MaxTime = 0
  MaxVersion = 0
  MayBreak = FALSE
SPECIFICATION Spec
INVARIANT ListingsAnswered
CHECK_DEADLOCK FALSE
