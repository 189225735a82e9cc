--------------------------- MODULE MCMigrateAdmin ---------------------------
EXTENDS MigrateAdmin

CONSTANTS i1, i2, r1, r2, r3

\* Two calls for the first instance and one for the second.
TwoAndOne == [r \in Call |-> IF r = r3 THEN i2 ELSE i1]

\* All of the slots in the first instance, one slot in the second.
AllAndOne == [i \in Instance |-> IF i = i1 THEN {<<0, MaxSlot>>} ELSE {<<0, 0>>}]
=============================================================================
