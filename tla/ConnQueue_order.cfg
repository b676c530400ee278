SPECIFICATION MCSpec
CONSTANTS
  s1 = s1
  s2 = s2
  f1 = f1
  Sessions = {s1, s2}
  Forwarders = {f1}
  Depth = 2
  SendBound = 2
  AudioBound = 2
  Nobody = Nobody
INVARIANT
  ControlInOrder
