--------------------------- MODULE MCApiKeyUsage ---------------------------
(* Instances of ApiKeyUsage for TLC.                                       *)
EXTENDS ApiKeyUsage, TLC

CONSTANTS s1, s2, s3

Symmetry == Permutations(Streams)

=============================================================================
