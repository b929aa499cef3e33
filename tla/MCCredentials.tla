--------------------------- MODULE MCCredentials ---------------------------
(* Instances of Credentials for TLC.                                       *)
EXTENDS Credentials, TLC

\* The members of each set are interchangeable.
Symmetry == Permutations(Ops) \cup Permutations(Users) \cup Permutations(Emails)
=============================================================================
