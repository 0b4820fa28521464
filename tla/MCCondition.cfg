CONSTANTS
  m = m  t1 = t1  t2 = t2  la = la
  Thread <- ThreadDef
  initial_thread = m
  idle_thread = idle
  NULL = NULL
  PRI_MIN = 1  PRI_DEFAULT = 1  PRI_MAX = 2
  TIME_SLICE = 1
  Semaphore <- ThreadDef
  Lock <- LockDef
  Address <- AddressDef
  MaxValue = 1
  CondLock = la
SPECIFICATION CondSpec
INVARIANTS SignalledOnce
CHECK_DEADLOCK FALSE
