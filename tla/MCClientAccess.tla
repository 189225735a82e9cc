--------------------------- MODULE MCClientAccess ---------------------------
EXTENDS ClientAccess

CONSTANTS t1, t2, g1, g2
=============================================================================
