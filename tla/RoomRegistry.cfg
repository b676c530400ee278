SPECIFICATION FairSpec
CONSTANTS
  p1 = p1
  p2 = p2
  r1 = r1
  r2 = r2
  Spellings = {"Jam", "JAM", "Trio"}
  Keys = {"jam", "trio"}
  Lower <- MCLower
  Peers = {p1, p2}
  Rooms = {r1, r2}
  Protected = {r2}
  NoKey = NoKey
  NoRoom = NoRoom
  MaxRooms = 2
  MaxPeers = 1
  GenBound = 2
\* Clients may all disconnect, after which nothing remains to be done.
CHECK_DEADLOCK FALSE
INVARIANTS
  NoOrphanedMember
  EmptyRoomWillExpire
  MembershipAgrees
PROPERTIES
  ImplementsPromise
  DrainsAfterLastDisconnect
