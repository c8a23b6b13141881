-------------------------- MODULE MCMetricPublish --------------------------
(* MetricPublish with few metrics, values and threads.                     *)
EXTENDS MetricPublish, TLC

CONSTANTS m1, m2, a, b, w1, w2, worker, app

\* Metrics, writers and publishers are interchangeable.
Symmetry ==
  Permutations(Metrics) \cup Permutations(Writers) \cup Permutations(Publishers)
=============================================================================
