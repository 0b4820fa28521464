------------------------------ MODULE MCCache ------------------------------
EXTENDS Cache, TLC

CONSTANTS u1, s1, s2, s3, e1, e2, e3, b1, b2, v0, v1

UserDef == {u1}
SectorDef == {s1, s2, s3}
EntryDef == {e1, e2, e3}
ByteDef == {b1, b2}
ValueDef == {v0, v1}
Symmetry == Permutations(SectorDef) \cup Permutations(EntryDef)
              \cup Permutations(ByteDef) \cup Permutations(ValueDef)
=============================================================================
