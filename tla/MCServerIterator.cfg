CONSTANTS
  s0 = s0
  s1 = s1
  s2 = s2
  a = a
  b = b
  Sessions <- MCSessions
  Keys = {1}
  Values <- MCValues
  Lines <- MCData
  MaxLines = 1
  Leavers = {}
  Signals = {"USR2"}
  MaxSignals = 1
  Threads = 4
  Stored <- MCEmpty
SPECIFICATION Spec
INVARIANTS IteratorsValid
CHECK_DEADLOCK FALSE
