SPECIFICATION FairSpec
CONSTANTS
  r1 = r1
  r2 = r2
  w1 = w1
  w2 = w2
  u1 = u1
  u2 = u2
  Reader = {r1, r2}
  Writer = {w1, w2}
  NULL = NULL
  INTQ_BUFSIZE = 3
  StrLen = 2
  MaxIn = 3
  MaxIntr = 1
  Mapped = {30}
  ShiftKey = {42}
  User = {u1, u2}
  Sector = {1, 2}
  Value = {1, 2}
  NONE = NONE
  MaxOps = 1
  MaxStray = 1
INVARIANTS TerminalOrderly 
PROPERTIES PrintGoesOn KeysAreTaken DiskReturns
CHECK_DEADLOCK FALSE
