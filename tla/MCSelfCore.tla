---------------------------- MODULE MCSelfCore ----------------------------
(***************************************************************************)
(* Instances of SelfCore: a save of each kind, or two web saves, of a soul *)
(* without a Self Core, or imported with up to two archived versions.      *)
(***************************************************************************)
EXTENDS SelfCore

CONSTANTS w1, w2, e1, i1, m1

NoRequests == {}

OneWeb == {w1}

TwoWebs == {w1, w2}

OneEdit == {e1}

OneImport == {i1}

OneMerge == {m1}

ImportedVersions == {1, 2}

=============================================================================
