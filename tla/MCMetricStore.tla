--------------------------- MODULE MCMetricStore ---------------------------
EXTENDS MetricStore, TLC
CONSTANTS w1, w2, w3
Symmetry == Permutations(Worker)
=============================================================================
