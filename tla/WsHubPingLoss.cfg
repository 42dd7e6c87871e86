\* Two open sessions: a ping to one of them fails while the other broadcasts.
CONSTANTS
  c1 = c1 c2 = c2 c3 = c3 c4 = c4 m1 = m1 m2 = m2 ann = ann bob = bob cleo = cleo a = a
  Nobody = Nobody
  Conns = {c1, c2}
  Users = {ann, bob}
  Rooms = {a}
  Msgs = {m1}
  UserOf <- OneEach
  RoomOf <- OneRoom
  InitMember <- AllMembers
  Established = {c1, c2}
  Leavers = {c2}
  MayRestart = FALSE
SPECIFICATION FairSpec
PROPERTIES
  PingLossRemovesClient
CHECK_DEADLOCK FALSE
