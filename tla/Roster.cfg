SPECIFICATION FairSpec
CONSTANTS
  p1 = p1
  p2 = p2
  Peers = {p1, p2}
  Rooms = {r1, r2}
  NoRoom = NoRoom
  Clients = {p1}
  QueueDepth = 2
\* Every client may have disconnected.
CHECK_DEADLOCK FALSE
INVARIANTS
  RosterIsExact
  EveryMemberIsNamed
PROPERTIES
  DeadSessionIsForgotten
