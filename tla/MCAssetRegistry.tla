--------------------------- MODULE MCAssetRegistry ---------------------------
(* Instances of AssetRegistry for TLC.                                     *)
EXTENDS AssetRegistry, TLC

CONSTANTS c1, c2, u1, u2

TwoCompanies == {c1, c2}
TwoUrns == {u1, u2}
OwnUrns == c1 :> {u1} @@ c2 :> {u2}

\* Requests differ only in the call they make.
Symmetry == Permutations(Ops)
=============================================================================
