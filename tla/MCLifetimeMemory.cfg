CONSTANTS
  Conns = {c1, c2}
  Cells = {m1, m2}
  Inputs = {"data", "ping", "bad"}
  MaxLines = 1
  Leavers = {c1}
  Synced = {c1}
  Far = {c2}
SPECIFICATION Spec
INVARIANTS MemoryIntact
CHECK_DEADLOCK FALSE
