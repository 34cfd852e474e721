CONSTANTS
  s0 = s0
  s1 = s1
  s2 = s2
  a = a
  b = b
  Sessions <- MCOneAfter
  Keys = {1, 2}
  Values = {a}
  Lines <- MCNoData
  MaxLines = 1
  Leavers <- MCLeaver
  Signals = {"INT", "USR1", "USR2"}
  MaxSignals = 2
  Threads = 2
  Stored <- MCStored
SPECIFICATION FairSpec
PROPERTIES SyncEnds SignalHandled StoppedDestroyed
CHECK_DEADLOCK FALSE
