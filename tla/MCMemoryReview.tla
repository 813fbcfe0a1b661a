-------------------------- MODULE MCMemoryReview --------------------------
(***************************************************************************)
(* Instances of MemoryReview: two memories, so that two recalls can lock   *)
(* them in opposite orders while they are decided and forgotten.           *)
(***************************************************************************)
EXTENDS MemoryReview

CONSTANTS a, b, d1, d2, f1, r1, r2

TwoMemories == {a, b}

OneMemory == {a}

OneDecide == {d1}

TwoDecides == {d1, d2}

OneForget == {f1}

TwoRecalls == {r1, r2}

OneRecall == {r1}

=============================================================================
