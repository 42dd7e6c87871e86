\* Two saves, overlapping or not, from two devices; anything may fail.
CONSTANTS
  i1 = i1 i2 = i2 i3 = i3 d1 = d1 d2 = d2 s1 = s1 s2 = s2 s3 = s3
  None = None
  Interests = {i1, i2, i3}
  InitInterests = {i1}
  Devices = {d1, d2}
  Saves = {s1, s2}
  MaxActive = 2
  MayBreak = TRUE
SPECIFICATION Spec
INVARIANTS
  PictureIsWhole
  SavedStays
PROPERTIES
  EditsAreAtomic
SYMMETRY Symmetry
CHECK_DEADLOCK FALSE
