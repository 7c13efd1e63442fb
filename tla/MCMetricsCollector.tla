------------------------- MODULE MCMetricsCollector -------------------------
(* Instances of MetricsCollector for TLC.                                  *)
EXTENDS MetricsCollector, TLC

\* Nothing tells threads apart, nor tenants.
Symm == Permutations(Threads) \cup Permutations(Tenants)
=============================================================================
