------------------------------ MODULE MCSynch ------------------------------
EXTENDS Synch

CONSTANTS m, t1, t2, la, lb, s

ThreadDef == {m, t1, t2}
LockDef == {la, lb}
OneLock == {la}
SemaphoreDef == {s}
NoSemaphore == {}
AddressDef == [l \in Lock |-> IF l = la THEN -1 ELSE -2]
=============================================================================
