CONSTANTS
  MaxLines = 2
  MaxPings = 2
  MaxReads = 2
SPECIFICATION FairSpec
INVARIANTS TypeOK InOrder OneWrite NothingStuck OnePing
PROPERTIES LinesLeave
CHECK_DEADLOCK FALSE
