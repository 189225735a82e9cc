--------------------------- MODULE MCSlotMigration ---------------------------
EXTENDS SlotMigration, TLC

CONSTANTS c1, c2, g1, g2, g3

\* The first owner of the slots is any group, so the groups are alike.
Symmetry == Permutations(Client) \cup Permutations(Gid)
=============================================================================
