--------------------------- MODULE MCTwoListeners ---------------------------
EXTENDS TwoListeners

CONSTANTS c1, g1, g2

\* The groups are alike, and TLC's symmetry is not sound for liveness: the
\* first owner is g1.
FirstIsG1 == TwiceInit /\ \A s \in SlotId : zkSlot[s] = Online(g1)

TwiceFairSpecG1 == FirstIsG1 /\ [][TwiceNext]_twiceVars /\ TwiceFairness
=============================================================================
