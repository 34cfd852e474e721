CONSTANTS
  s0 = s0
  s1 = s1
  s2 = s2
  a = a
  b = b
  Sessions <- MCSessionsAfter
  Keys = {1, 2}
  Values <- MCValues
  Lines <- MCNewValue
  MaxLines = 2
  Leavers = {}
  Signals = {}
  MaxSignals = 0
  Threads = 3
  Stored <- MCLastKey
SPECIFICATION FairSpec
INVARIANTS TypeOK FeedExact NothingMissed
PROPERTIES ImplementsFeed
CHECK_DEADLOCK FALSE
