CONSTANTS
  s1 = s1
  s2 = s2
  a = a
  b = b
  Sessions <- MCSessions
  Keys = {1, 2}
  Values <- MCValues
  MaxUpdates = 2
  MaxResets = 1
SPECIFICATION FairSpec
INVARIANTS TypeOK ViewsOwned LatestWins ScanCovers OneRequest
PROPERTIES ScanAscends UpdateAnnounced ScanEnds
CHECK_DEADLOCK FALSE
