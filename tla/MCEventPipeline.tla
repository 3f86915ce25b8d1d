-------------------------- MODULE MCEventPipeline --------------------------
(* Instances of EventPipeline for TLC, and its refinement of EventLedger.  *)
EXTENDS EventPipeline, TLC

CONSTANTS e1, e2, bad, null

WellFormed == {e1, e2}
Symmetry == Permutations(WellFormed)

=============================================================================
