SPECIFICATION FairSpec
CONSTANTS
  DISK_SIZE = 16
  DISK_SECTOR_SIZE = 2
  DIRECT_CNT = 1
  INDIRECT_CNT = 2
  InitialSize = {0, 5}
  Offset = {0, 3, 6}
  Size = {1, 3, 7}
  MaxFiles = 2
  MaxWrites = 3
  Name = {"a", "b"}
  Path <- MCPath
  MaxSector = 3
  Proc = {"main", "p1"}
  main = "main"
  MaxBoots = 2
  MaxOpen = 1
  Caller = {c1, c2, c3}
  Target = {1}
  first = c1
  nobody = nobody
  MaxFd = 2
  MaxVersion = 1
INVARIANTS ReadsWhatWasWritten SectorsAccounted   ProgramNotWritten
PROPERTIES NamesAreKept LockIsReleased
CHECK_DEADLOCK FALSE
