CONSTANTS
  Conns = {c1, c2}
  Cells = {m1, m2}
  Inputs = {"data", "ping", "bad"}
  MaxLines = 1
  Leavers = {c1}
  Synced = {c1}
  Far = {c2}
SPECIFICATION FairSpec
PROPERTIES DeadDropped
CHECK_DEADLOCK FALSE
