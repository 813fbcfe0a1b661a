---------------------------- MODULE MCToolCall ----------------------------
(***************************************************************************)
(* Instances of ToolCall: two calls, a revocation from the web UI and one  *)
(* from soulctl, a token that may write and one of another soul that may   *)
(* not, and a pool of one connection or of two.                            *)
(***************************************************************************)
EXTENDS ToolCall, TLC

CONSTANTS c1, c2, v1, v2, t1, t2, s1, s2, k1, k2

NoRequests == {}

TwoCalls == {c1, c2}

OneWebRevoke == {v1}

OneCliRevoke == {v2}

TwoTokens == {t1, t2}

OneReadOnly == {t2}

TwoSouls == {s1, s2}

SoulOfToken == [t \in TwoTokens |-> IF t = t1 THEN s1 ELSE s2]

OneConn == {k1}

TwoConns == {k1, k2}

CallsAndConns == Permutations(TwoCalls) \cup Permutations(TwoConns)

=============================================================================
