SPECIFICATION FairSpec
CONSTANTS
  MaxPid = 3
  ExitStatus = {0}
  PGSIZE = 4
  PHYS_BASE = 24
  W = 5
  MaxFile = 8
  ArgLengths = {1, 2, 3, 4}
  p1 = p1
  p2 = p2
  Proc = {p1, p2}
  nobody = nobody
  Page = {1, 2}
  Kind <- MCKind
  top = 1
  Buffer = {2}
  Frames = 2
  Slots = 2
  MaxWrites <- MCMaxWrites
INVARIANTS  ProgramsLaidOut StorageOwnedOnce ContentsKept
PROPERTIES CallsReturn 
CHECK_DEADLOCK FALSE
