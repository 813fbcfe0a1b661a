---------------------------- MODULE MemoryBook ----------------------------
(***************************************************************************)
(* What the memories of a soul promise those who review and recall them:   *)
(* every request takes effect in one step or not at all.  A decide is of a *)
(* memory that was held for review, a recall counts each memory of its     *)
(* answer once, and none of them that was held and never approved.         *)
(***************************************************************************)
EXTENDS Naturals

CONSTANTS Memories,    \* rows that may come to exist
          Limit        \* the most memories an answer has

VARIABLES status,      \* the status of each memory
          held,        \* the memories that were stored for review
          approved,    \* those of them that a decide has confirmed
          recallCount  \* how often each memory was recalled

book == <<status, held, approved, recallCount>>

Statuses == {"pending", "confirmed", "rejected", "forgotten"}

Init ==
  /\ status = [m \in Memories |-> "absent"]
  /\ held = {}
  /\ approved = {}
  /\ recallCount = [m \in Memories |-> 0]

Store(m, st) ==
  /\ status[m] = "absent"
  /\ status' = [status EXCEPT ![m] = st]
  /\ held' = IF st = "pending" THEN held \cup {m} ELSE held
  /\ UNCHANGED <<approved, recallCount>>

\* A verdict may overtake another verdict, or a forget.
Decide(m, v) ==
  /\ m \in held
  /\ status' = [status EXCEPT ![m] = v]
  /\ approved' = IF v = "confirmed" THEN approved \cup {m} ELSE approved
  /\ UNCHANGED <<held, recallCount>>

Forget(m) ==
  /\ status[m] # "absent"
  /\ status' = [status EXCEPT ![m] = "forgotten"]
  /\ UNCHANGED <<held, approved, recallCount>>

\* An answer names each of its memories once.
Answers ==
  {s \in UNION {[1..n -> Memories] : n \in 1..Limit} :
     \A i, j \in DOMAIN s : s[i] = s[j] => i = j}

\* None of them waits for review, and those that did have been approved.
Recall(s) ==
  LET ms == {s[i] : i \in DOMAIN s}
  IN  /\ \A m \in ms : status[m] \notin {"absent", "pending"}
      /\ ms \cap held \subseteq approved
      /\ recallCount' = [m \in Memories |-> recallCount[m] + (IF m \in ms THEN 1 ELSE 0)]
      /\ UNCHANGED <<status, held, approved>>

Next ==
  \/ \E m \in Memories, st \in Statuses : Store(m, st)
  \/ \E m \in Memories, v \in {"confirmed", "rejected"} : Decide(m, v)
  \/ \E m \in Memories : Forget(m)
  \/ \E s \in Answers : Recall(s)

Spec == Init /\ [][Next]_book

=============================================================================
