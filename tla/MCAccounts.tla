----------------------------- MODULE MCAccounts -----------------------------
(* Instances of Accounts for TLC.                                          *)
EXTENDS Accounts, TLC

CONSTANTS c1, c2, a1, a2, e1, e2

OneCompany == {c1}
TwoCompanies == {c1, c2}
OneAdmin == {a1}
TwoAdmins == {a1, a2}
OneAdminOf == a1 :> c1
TwoAdminsOf == a1 :> c1 @@ a2 :> c2
OneAdminEmail == a1 :> e1
TwoAdminEmails == a1 :> e1 @@ a2 :> e2

\* Requests differ only in the call they make.
Symmetry == Permutations(Ops)
=============================================================================
