SPECIFICATION FairSpec
CONSTANTS
  p1 = p1
  p2 = p2
  p3 = p3
  a1 = a1
  a2 = a2
  f1 = f1
  Peers = {p1, p2, p3}
  Addrs = {a1, a2}
  Forwarders = {f1}
  NoPeer = NoPeer
  NoAddr = NoAddr
  IdleTimeout = 2
  LagBound = 1
INVARIANTS
  RoutesMatchPeers
  InFlightIsOwn
PROPERTIES
  SpentTokenStaysSpent
  SilentRouteExpires
