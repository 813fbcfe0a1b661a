-------------------------- MODULE MCProvisioning --------------------------
(***************************************************************************)
(* Provisioning with two runs of init, and a creation and an import that   *)
(* may want one slug in one tenant, or each its own.                       *)
(***************************************************************************)
EXTENDS Provisioning, TLC

CONSTANTS r1, r2, n1, c1, i1, m1, carsten, eve, george, anna, privat, firm

TwoSeeds == {r1, r2}
OneTenancy == {n1}
OneCreate == {c1}
OneImport == {i1}
OneMint == {m1}
TwoEmails == {carsten, eve}
TwoSlugs == {george, anna}
TwoNames == {privat, firm}

Alike == Permutations(TwoSeeds)

=============================================================================
