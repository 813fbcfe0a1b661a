--------------------------- MODULE MCSoulBundle ---------------------------
(***************************************************************************)
(* SoulBundle with an export and a view of a soul that is saved twice and  *)
(* whose adaptation is superseded twice meanwhile, and three imports: one  *)
(* that makes the copy and two merges, which may be repetitions and may    *)
(* overlap.                                                                *)
(***************************************************************************)
EXTENDS SoulBundle, TLC

CONSTANTS x1, w1, i1, i2, i3, p1, p2, humour, fact1, talk, george, twin

OneExport == {x1}
OneView == {w1}
ThreeImports == {i1, i2, i3}
TwoSupersedes == {p1, p2}
OneLine == {humour}
OneEntry == {fact1}
OneMemory == {talk}

Alike == Permutations(ThreeImports) \cup Permutations(TwoSupersedes)

=============================================================================
