--------------------------- MODULE MC_CpuSamples ---------------------------
(* Instance of CpuSamples for TLC.                                         *)
EXTENDS CpuSamples, TLC

Symmetry == Permutations(Readers)
=============================================================================
