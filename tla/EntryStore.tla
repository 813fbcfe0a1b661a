---------------------------- MODULE EntryStore ----------------------------
(***************************************************************************)
(* What the facts and properties of a soul promise those who write them:   *)
(* every request changes its entries in one step, and one that skips       *)
(* conflicts leaves every fact there has ever been as it is.               *)
(***************************************************************************)
EXTENDS Sequences, Naturals

CONSTANTS Facts,        \* the (category, key) pairs of facts
          Properties,   \* property types
          Values,
          Bundles,      \* what a request may bring: a list of entries
          NoRow         \* an entry that has never been written

VARIABLE rows           \* the committed row of each entry

Keys == Facts \cup Properties

Row == [value : Values, status : {"active", "deleted"}]

Active(v) == [value |-> v, status |-> "active"]

Deleted(row) == [row EXCEPT !.status = "deleted"]

\* The rows that a bundle has for an entry.
Offers(b, k) == {b[i].row : i \in {j \in 1..Len(b) : b[j].key = k}}

Init == rows \in [Keys -> Row \cup {NoRow}]

Overwrite(b) ==
  \A k \in Keys : IF Offers(b, k) = {} THEN rows'[k] = rows[k] ELSE rows'[k] \in Offers(b, k)

Skip(b) ==
  /\ \A k \in Facts : IF rows[k] # NoRow \/ Offers(b, k) = {}
                      THEN rows'[k] = rows[k] ELSE rows'[k] \in Offers(b, k)
  /\ \A k \in Properties : rows'[k] \in {rows[k]} \cup Offers(b, k)

Forget(k) ==
  /\ rows[k] # NoRow
  /\ rows' = [rows EXCEPT ![k] = Deleted(@)]

Next == /\ rows' \in [Keys -> Row \cup {NoRow}]
        /\ \/ \E b \in Bundles : Overwrite(b) \/ Skip(b)
           \/ \E k \in Keys : Forget(k)

Spec == Init /\ [][Next]_rows

=============================================================================
