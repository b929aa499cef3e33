--------------------------- MODULE MCRegistration ---------------------------
(* Instances of Registration for TLC.                                      *)
EXTENDS Registration, TLC

\* Requests, addresses, names and codes are interchangeable among themselves:
\* every initial assignment of forms is possible.  Used for safety runs only.
Symmetry == Permutations(Requests) \cup Permutations(Emails)
              \cup Permutations(CompanyNames)
              \cup Permutations(RegistrationNumbers)
=============================================================================
