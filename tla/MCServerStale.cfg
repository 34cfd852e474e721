CONSTANTS
  s0 = s0
  s1 = s1
  s2 = s2
  a = a
  b = b
  Sessions <- MCSessions
  Keys = {1}
  Values <- MCValues
  Lines <- MCData
  MaxLines = 2
  Leavers = {}
  Signals = {}
  MaxSignals = 0
  Threads = 3
  Stored <- MCEmpty
SPECIFICATION Spec
INVARIANTS StateIsShared
CHECK_DEADLOCK FALSE
