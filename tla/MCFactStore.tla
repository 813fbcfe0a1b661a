---------------------------- MODULE MCFactStore ----------------------------
(***************************************************************************)
(* An instance of FactStore: lists that take the same entries in opposite  *)
(* orders, with a forgotten fact in one of them.                           *)
(***************************************************************************)
EXTENDS FactStore, TLC

CONSTANTS r1, r2, i1, i2, f1, p1, old, new

OneSet == {r1}
OneForget == {r2}
TwoImports == {i1, i2}
OneFact == {f1}
OneProperty == {p1}
TwoValues == {old, new}

Item(k, status) == [key |-> k, row |-> [value |-> new, status |-> status]]

BothOrders == {<<Item(f1, "active"), Item(p1, "active")>>,
               <<Item(p1, "active"), Item(f1, "deleted")>>}

ImportsAlike == Permutations(TwoImports)

=============================================================================
