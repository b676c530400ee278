SPECIFICATION PersistentSpec
CONSTANTS
  l1 = l1
  l2 = l2
  l3 = l3
  Locals = {l1, l2, l3}
  PluginAddrs = {l1, l2}
  NoAddr = NoAddr
\* A closed session stays as it is.
CHECK_DEADLOCK FALSE
INVARIANTS
  OneWelcomedSource
  OfferedUdpIsProxied
  NothingOutlivesSession
PROPERTIES
  SessionTearsDown
  PersistentPluginIsBound
