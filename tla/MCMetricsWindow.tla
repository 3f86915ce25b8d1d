-------------------------- MODULE MCMetricsWindow --------------------------
(* Instances of MetricsWindow for TLC.                                     *)
EXTENDS MetricsWindow, TLC

CONSTANTS e1, e2, e3, undated, null, job_reader, i1, i2

Symmetry == Permutations(Events \ (Undated \cup Null)) \cup Permutations(Intervals)

=============================================================================
