-------------------------- MODULE MCCompanyRecords --------------------------
(* Instances of CompanyRecords for TLC.                                    *)
EXTENDS CompanyRecords, TLC

CONSTANTS c1, c2, u1

TwoCompanies == {c1, c2}
NoReads == [o \in {} |-> c1]
OneUser == u1 :> c1

\* Requests to come differ only in the call they make.
Symmetry == Permutations(Ops \ Past)
=============================================================================
