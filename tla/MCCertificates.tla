--------------------------- MODULE MCCertificates ---------------------------
(* Instances of Certificates for TLC.                                      *)
EXTENDS Certificates, TLC

\* Requests differ only in the call they make, companies in nothing.
Symmetry == Permutations(Ops) \cup Permutations(Old) \cup Permutations(Companies)
=============================================================================
