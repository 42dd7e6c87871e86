\* A session connects, is announced and leaves next to an open one, with a message, under fairness.
CONSTANTS
  c1 = c1 c2 = c2 c3 = c3 c4 = c4 m1 = m1 m2 = m2 ann = ann bob = bob cleo = cleo a = a
  Nobody = Nobody
  Conns = {c1, c2}
  Users = {ann, bob}
  Rooms = {a}
  Msgs = {m1}
  UserOf <- OneEach
  RoomOf <- OneRoom
  InitMember <- AllMembers
  Established = {c1}
  Leavers = {c2}
  MayRestart = FALSE
SPECIFICATION FairSpec
PROPERTIES
  BroadcastsEnd
  DeparturesEnd
  ChatHolds
CHECK_DEADLOCK FALSE
