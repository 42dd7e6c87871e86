\* Four open sessions, one of a user who joins the room late, two messages, a session that fails, restarts.
CONSTANTS
  c1 = c1 c2 = c2 c3 = c3 c4 = c4 m1 = m1 m2 = m2 ann = ann bob = bob cleo = cleo a = a
  Nobody = Nobody
  Conns = {c1, c2, c3, c4}
  Users = {ann, bob, cleo}
  Rooms = {a}
  Msgs = {m1, m2}
  UserOf <- OneEach
  RoomOf <- OneRoom
  InitMember <- CleoLater
  Established = {c1, c2, c3, c4}
  Leavers = {c2}
  MayRestart = TRUE
SPECIFICATION Spec
INVARIANTS
  StoredWasHanded
  SenderOrder
PROPERTIES
  OfflineIsLast
  AbandonedForGood
  HandedWhileRegistered
SYMMETRY Symmetry
CHECK_DEADLOCK FALSE
