\* Two requests in flight, three in all, on one job or a new one, with two organizations
\* and two volunteers, one of whom has applied.
CONSTANTS
  j1 = j1 j2 = j2 ann = ann bob = bob org = org other = other r1 = r1 r2 = r2 r3 = r3 q1 = q1 q2 = q2 q3 = q3
  NoJob = NoJob
  NoRoom = NoRoom
  Jobs = {j1, j2}
  Volunteers = {ann, bob}
  Orgs = {org, other}
  Rooms = {r1, r2, r3}
  Requests = {q1, q2, q3}
  MaxActive = 2
  MayLose = TRUE
  InitJobs = {j1}
  Owner <- Owners
  Updates <- AskedUpdates
  InitApplied <- AnnApplied
SPECIFICATION Spec
INVARIANTS
  MembersWereAccepted
  NothingOutlivesItsJob
  AdminUnlessInterrupted
  CongratulatedCanChat
  OrgToldOncePerApplicant
  SplitOnlyByOverlap
PROPERTIES
  MatchingHolds
SYMMETRY Symmetry
CHECK_DEADLOCK FALSE
