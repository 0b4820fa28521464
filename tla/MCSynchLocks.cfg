CONSTANTS
  m = m  t1 = t1  t2 = t2  la = la  lb = lb  s = s
  Thread <- ThreadDef
  initial_thread = m
  idle_thread = idle
  NULL = NULL
  PRI_MIN = 1  PRI_DEFAULT = 1  PRI_MAX = 2
  TIME_SLICE = 1
  Semaphore <- NoSemaphore
  Lock <- LockDef
  Address <- AddressDef
  MaxValue = 1
SPECIFICATION Spec
INVARIANTS ElemOnOneList LockFreeOrOwned DonorsWaitForOwner DonationEndsWithOwnership
 
