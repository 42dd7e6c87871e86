\* One save of one device, nothing fails: two interests are there at first.
CONSTANTS
  i1 = i1 i2 = i2 i3 = i3 d1 = d1 d2 = d2 s1 = s1 s2 = s2 s3 = s3
  None = None
  Interests = {i1, i2}
  InitInterests = {i1, i2}
  Devices = {d1}
  Saves = {s1}
  MaxActive = 1
  MayBreak = FALSE
SPECIFICATION Spec
INVARIANT SavedAsShown
CHECK_DEADLOCK FALSE
