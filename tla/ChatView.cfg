\* Two messages in two rooms, two logins, two pages.
CONSTANTS
  m1 = m1 m2 = m2 r1 = r1 r2 = r2
  Messages = {m1, m2}
  Rooms = {r1, r2}
  RoomOf <- MCRoomOf
  MaxLogins = 2
  MaxPages = 2
SPECIFICATION ChatSpec
INVARIANTS
  ViewIsListingPlusLive
  LiveInOrder
PROPERTIES
  LoadingEnds
  EachIsTakenUp
CHECK_DEADLOCK FALSE
