CONSTANTS
  u1 = u1  s1 = s1  s2 = s2  s3 = s3  e1 = e1  e2 = e2  e3 = e3  b1 = b1  b2 = b2  v0 = v0  v1 = v1
  User <- UserDef
  wb = wb  ra = ra
  Sector <- SectorDef
  Byte <- ByteDef
  Value <- ValueDef
  Garbage = Garbage
  Entry <- EntryDef
  CACHE_MAX_SECTOR_NO = 2
  NULL = NULL
SPECIFICATION Spec
SYMMETRY Symmetry
CHECK_DEADLOCK FALSE
INVARIANTS OneEntryPerSector
PROPERTIES IsSectorStore
