SPECIFICATION MCSpec
CONSTANTS
  c1 = c1
  c2 = c2
  p1 = p1
  p2 = p2
  ip = ip
  hello = hello
  Callers <- MCCallers
  Requests <- MCRequests
  MaxEntries = 3
  CleanupEvery = 2
  LagBound = 1
  ClockBound = 4
  Texts <- MCTexts
  Canonical <- MCCanonical
  Zoned <- MCZoned
  Trusted <- MCTrusted
  PrefixBound = 2
  HopBound = 2
  Bad = Bad
SYMMETRY CallersAlike
INVARIANTS
  BudgetHolds
  CountsAreAdmissions
  KeyedByClient
