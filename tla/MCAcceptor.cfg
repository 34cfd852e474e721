CONSTANTS
  Signals = {"INT", "USR1", "USR2"}
  MaxSignals = 3
  MaxConns = 3
  MaxErrors = 1
SPECIFICATION FairSpec
INVARIANTS TypeOK NeverOpenTwice StillListening
PROPERTIES ResetReopens
CHECK_DEADLOCK FALSE
