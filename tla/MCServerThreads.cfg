CONSTANTS
  s0 = s0
  s1 = s1
  s2 = s2
  a = a
  b = b
  Sessions <- MCSessionsAfter
  Keys = {1, 2}
  Values = {a}
  Lines <- MCNoData
  MaxLines = 0
  Leavers = {}
  Signals = {}
  MaxSignals = 0
  Threads = 2
  Stored <- MCStored
SPECIFICATION FairSpec
PROPERTIES PairsSent
CHECK_DEADLOCK FALSE
