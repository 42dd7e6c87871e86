\* Two saves of one device, one after the other; nothing fails.
CONSTANTS
  i1 = i1 i2 = i2 i3 = i3 d1 = d1 d2 = d2 s1 = s1 s2 = s2 s3 = s3
  None = None
  Interests = {i1}
  InitInterests = {}
  Devices = {d1}
  Saves = {s1, s2}
  MaxActive = 1
  MayBreak = FALSE
SPECIFICATION Spec
INVARIANT SavedAsShown
CHECK_DEADLOCK FALSE
