------------------------ MODULE MCEmailVerification ------------------------
(* Instances of EmailVerification for TLC.                                 *)
EXTENDS EmailVerification, TLC

CONSTANTS q1, q2, q3, s1, s2, none

Symmetry == Permutations(Requests) \cup Permutations(SignUps)

=============================================================================
