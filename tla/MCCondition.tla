---------------------------- MODULE MCCondition ----------------------------
EXTENDS Condition

CONSTANTS m, t1, t2, la

ThreadDef == {m, t1, t2}
LockDef == {la}
AddressDef == [l \in Lock |-> -1]
=============================================================================
