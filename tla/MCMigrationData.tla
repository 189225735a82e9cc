--------------------------- MODULE MCMigrationData ---------------------------
EXTENDS MigrationData, TLC

CONSTANTS c1, c2, g1, g2, k1, k2, v1, v2

\* Every key is in slot 0.
OneSlot == [k \in Key |-> 0]

\* The first owner of the slots is any group, so the groups are alike.
Symmetry == Permutations(Client) \cup Permutations(Value) \cup Permutations(Gid)
=============================================================================
