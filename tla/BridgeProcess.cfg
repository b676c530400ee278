SPECIFICATION ProcessFairSpec
CONSTANTS
  Bridges = {b1, b2}
  Others = {o}
  Pids = {1, 2}
  Probes = 1
  NoProc = NoProc
  NoPid = NoPid
\* All processes may have ended.
CHECK_DEADLOCK FALSE
INVARIANTS
  OnlyConfirmedHolderDies
  ReturnReleasesAddress
PROPERTIES
  EveryBridgeServesOrEnds
