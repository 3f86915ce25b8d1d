-------------------------- MODULE MCRefreshTokens --------------------------
(* Instances of RefreshTokens for TLC.                                     *)
EXTENDS RefreshTokens, TLC

CONSTANTS c1, c2, q1, q2, q3

Symmetry == Permutations(Clients) \cup Permutations(Requests)

=============================================================================
