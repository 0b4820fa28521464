CONSTANTS
  u1 = u1  u2 = u2  s1 = s1  s2 = s2  e1 = e1  e2 = e2  b1 = b1  v0 = v0  v1 = v1
  User <- UserDef
  wb = wb  ra = ra
  Sector <- SectorDef
  Byte <- ByteDef
  Value <- ValueDef
  Garbage = Garbage
  Entry <- EntryDef
  CACHE_MAX_SECTOR_NO = 1
  NULL = NULL
  MaxAhead = 1
SPECIFICATION ReadAheadSpec
INVARIANT EntryStillCached
CHECK_DEADLOCK FALSE
