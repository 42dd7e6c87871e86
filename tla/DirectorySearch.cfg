\* Two listings of two searches and either page; nothing fails and no time passes.
CONSTANTS
  q1 = q1 q2 = q2 q3 = q3
  NumOrgs = 2
  Filters <- AllOrFirst
  PageSize = 1
  MaxPage = 2
  Requests = {q1, q2}
  MaxActive = 2
  Expiry = 1
  Timeout = 1
  MaxTime = 0
  MaxVersion = 0
  MayBreak = FALSE
SPECIFICATION Spec
INVARIANT AnswersWhatWasAsked
CHECK_DEADLOCK FALSE
