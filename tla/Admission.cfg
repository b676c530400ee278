SPECIFICATION FairSpec
CONSTANTS
  s1 = s1
  s2 = s2
  s3 = s3
  Sessions <- MCSessions
  MaxConnections = 2
  PasswordChecks = 1
\* Every session may have ended.
CHECK_DEADLOCK FALSE
INVARIANTS
  ConnectionsWithinCap
  OnlyCheckedAreServed
  CountersAreExact
  PromisedTokensAreGood
PROPERTIES
  HandshakeEnds
