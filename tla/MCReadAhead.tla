---------------------------- MODULE MCReadAhead ----------------------------
EXTENDS ReadAhead, TLC
CONSTANTS u1, u2, s1, s2, e1, e2, b1, v0, v1
UserDef == {u1, u2}
SectorDef == {s1, s2}
EntryDef == {e1, e2}
ByteDef == {b1}
ValueDef == {v0, v1}
Symmetry == Permutations(UserDef) \cup Permutations(SectorDef) \cup Permutations(EntryDef)
              \cup Permutations(ValueDef)
=============================================================================
