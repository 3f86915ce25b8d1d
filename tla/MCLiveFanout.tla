---------------------------- MODULE MCLiveFanout ----------------------------
(* Instances of LiveFanout for TLC.                                        *)
EXTENDS LiveFanout, TLC

CONSTANTS o1, o2, e1, e2, e3, bad, c1, c2, all

\* e1, e2 and bad belong to o1, e3 to o2.
Owned == [e \in Events |-> IF e = e3 THEN o2 ELSE o1]

Symmetry == Permutations(Sockets)

=============================================================================
