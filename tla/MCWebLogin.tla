---------------------------- MODULE MCWebLogin ----------------------------
(***************************************************************************)
(* WebLogin with one admin, whom a restart may take off the list, and one  *)
(* who is never on it; a link may be tried twice, and a throttle of one    *)
(* token an hour must refuse the second.                                   *)
(***************************************************************************)
EXTENDS WebLogin

CONSTANTS l1, l2, v1, v2, b1, k1, k2, ann, bob

TwoLogins == {l1, l2}
TwoVerifies == {v1, v2}
OneBrowser == {b1}
TwoKeys == {k1, k2}
TwoEmails == {ann, bob}
EmailOfKey == [k \in TwoKeys |-> IF k = k1 THEN ann ELSE bob]

\* ann is an admin or not on the list.
AnnsRole == {[e \in {ann} |-> "admin"], [e \in {} |-> "viewer"]}

=============================================================================
