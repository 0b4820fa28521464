CONSTANTS
  m = m  t1 = t1  t2 = t2
  Thread <- ThreadDef
  initial_thread = m
  idle_thread = idle
  NULL = NULL
  PRI_MIN = 1  PRI_DEFAULT = 1  PRI_MAX = 2
  TIME_SLICE = 2
  SleepTicks <- SleepTicksDef
  MaxTick = 2
SPECIFICATION FairSpec
CHECK_DEADLOCK FALSE
INVARIANTS SleepersListed NoEarlyWakeup
PROPERTIES NoOversleep SleeperRuns
