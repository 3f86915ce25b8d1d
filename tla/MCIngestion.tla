----------------------------- MODULE MCIngestion -----------------------------
(* Instances of Ingestion for TLC.                                         *)
EXTENDS Ingestion

CONSTANTS e1, e2, s1

=============================================================================
