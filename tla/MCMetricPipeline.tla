-------------------------- MODULE MCMetricPipeline --------------------------
EXTENDS MetricPipeline

CONSTANTS p1, p2
=============================================================================
