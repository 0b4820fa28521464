------------------------------ MODULE MCTimer ------------------------------
EXTENDS Timer

CONSTANTS m, t1, t2

ThreadDef == {m, t1, t2}
SleepTicksDef == {0, 2}
=============================================================================
