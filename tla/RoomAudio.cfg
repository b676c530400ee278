SPECIFICATION FairSpec
CONSTANTS
  p1 = p1
  p2 = p2
  Peers = {p1, p2}
  Subscriptions = {{}, {p1, p2}}
  NoJob = NoJob
  NoPeer = NoPeer
  Depth = 2
  FrameBound = 2
INVARIANTS
  DoneMeansNoLongerNeeded
  StopsAtOnce
  OnlyStaleFramesAreStranded
PROPERTIES
  CloseReturns
