\* Three requests of two accounts, two in flight at a time; the clock passes two weeks.
CONSTANTS
  ann = ann org = org q1 = q1 q2 = q2 q3 = q3 q4 = q4
  Accounts = {ann, org}
  Requests = {q1, q2, q3}
  Week = 1
  MaxTime = 3
  MaxActive = 2
  MayBreak = TRUE
SPECIFICATION Spec
INVARIANTS
  RevokedForGood
  LostOnlyByRenewal
  RenewedForItsOwner
  AccountsAreComplete
  RenewedWithinAWeek
SYMMETRY Symmetry
CHECK_DEADLOCK FALSE
