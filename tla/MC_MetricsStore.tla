-------------------------- MODULE MC_MetricsStore --------------------------
(* Instance of MetricsStore for TLC.                                       *)
EXTENDS MetricsStore, TLC

Symmetry == Permutations(Viewers)
=============================================================================
