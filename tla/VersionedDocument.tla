------------------------- MODULE VersionedDocument -------------------------
(***************************************************************************)
(* What the Self Core promises its writers, whatever their number and      *)
(* timing: one document, replaced as a whole, whose every replaced content *)
(* is kept.  It promises nothing about the numbers the contents carry.     *)
(***************************************************************************)
CONSTANTS Contents,     \* everything a writer may store
          NoContent     \* the document before its first save

VARIABLES doc,          \* the live content
          kept          \* the contents that were replaced

Init == /\ doc \in Contents \cup {NoContent}
        /\ kept \in SUBSET Contents

\* The first content may bring a past of its own.
Start(c) == /\ doc = NoContent
            /\ doc' = c
            /\ \E past \in SUBSET Contents : kept' = kept \cup past

Save(c) == /\ doc # NoContent
           /\ doc' = c
           /\ kept' = kept \cup {doc}

Next == \E c \in Contents : Start(c) \/ Save(c)

Spec == Init /\ [][Next]_<<doc, kept>>

=============================================================================
