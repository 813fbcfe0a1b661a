--------------------------- MODULE MemoryReview ---------------------------
(***************************************************************************)
(* The memories of one soul: stored by remember_this or an import, decided *)
(* by the MCP tool, the web page or soulctl, forgotten by the web page or  *)
(* soulctl, and read and counted by recall.                                *)
(*                                                                         *)
(* Each request is one READ COMMITTED transaction.  An UPDATE locks its    *)
(* row until the transaction ends, waits for the lock of another, and then *)
(* applies to the row as committed.  The database breaks a cycle of        *)
(* waiting transactions by aborting one of them.                           *)
(***************************************************************************)
EXTENDS Naturals, Sequences, FiniteSets

CONSTANTS Memories,   \* rows that may come to exist
          Decides,    \* calls of decide_proposal and soulctl proposals decide
          Forgets,    \* calls of forget_memory_web and soulctl memory forget
          Recalls,    \* calls of recall
          Limit,      \* the k of recall
          Nobody,     \* no owner of a row lock
          NoMemory    \* a request that has no row yet

Requests == Decides \cup Forgets \cup Recalls

ASSUME ConstantsAssumption ==
  /\ IsFiniteSet(Memories)
  /\ Limit \in Nat
  /\ Nobody \notin Requests
  /\ NoMemory \notin Memories
  /\ Decides \cap Forgets = {}
  /\ (Decides \cup Forgets) \cap Recalls = {}

VARIABLES status,       \* the committed status of each row
          held,         \* the rows that were stored as pending
          recallCount,  \* the committed recall_count of each row
          lock,         \* the transaction that has updated the row, or Nobody
          pc,           \* where each request stands
          target,       \* the row a decide or forget works on
          verdict,      \* the status it will write
          listed,       \* the rows a recall selected, nearest first
          counted       \* how many of them it has updated

vars == <<status, held, recallCount, lock, pc, target, verdict, listed, counted>>

Statuses == {"pending", "confirmed", "rejected", "forgotten"}

Init ==
  /\ status = [m \in Memories |-> "absent"]
  /\ held = {}
  /\ recallCount = [m \in Memories |-> 0]
  /\ lock = [m \in Memories |-> Nobody]
  /\ pc = [r \in Requests |-> "idle"]
  /\ target = [r \in Requests |-> NoMemory]
  /\ verdict = [r \in Requests |-> "none"]
  /\ listed = [r \in Requests |-> <<>>]
  /\ counted = [r \in Requests |-> 0]

---------------------------------------------------------------------------

Goto(r, label) == pc' = [pc EXCEPT ![r] = label]

Release(r) == lock' = [m \in Memories |-> IF lock[m] = r THEN Nobody ELSE lock[m]]

Ranks(s) == {s[i] : i \in DOMAIN s}

\* The row whose lock r must take next, once its checks are done.
Needs(r) == CASE pc[r] = "checked"  -> target[r]
              [] pc[r] = "counting" -> listed[r][counted[r] + 1]

Waiting(r) ==
  /\ pc[r] \in {"checked", "counting"}
  /\ lock[Needs(r)] \notin {Nobody, r}

Store(m, st) ==
  /\ status[m] = "absent"
  /\ status' = [status EXCEPT ![m] = st]
  /\ held' = IF st = "pending" THEN held \cup {m} ELSE held
  /\ UNCHANGED <<recallCount, lock, pc, target, verdict, listed, counted>>

\* Content that matches an injection pattern is held for review.
RememberThis(m) == \E st \in {"pending", "confirmed"} : Store(m, st)

\* A bundle's memories come with the status they were exported with.
ImportMemory(m) == \E st \in Statuses : Store(m, st)

---------------------------------------------------------------------------
(* decide and forget: a SELECT that locks nothing, then an UPDATE by id.   *)

Decidable(m) == status[m] = "pending"

Forgettable(m) == status[m] \in {"confirmed", "pending"}

\* Mutant: the status test of decide is left out.
DecidesAnything(r) ==
  /\ r \in Decides
  /\ pc[r] = "idle"
  /\ \E m \in Memories, v \in {"confirmed", "rejected"} :
       /\ status[m] # "absent"
       /\ target' = [target EXCEPT ![r] = m]
       /\ verdict' = [verdict EXCEPT ![r] = v]
       /\ Goto(r, "checked")
  /\ UNCHANGED <<status, held, recallCount, lock, listed, counted>>

CheckDecide(r) ==
  /\ r \in Decides
  /\ pc[r] = "idle"
  /\ \E m \in Memories, v \in {"confirmed", "rejected"} :
       /\ target' = [target EXCEPT ![r] = m]
       /\ verdict' = [verdict EXCEPT ![r] = v]
       /\ Goto(r, IF Decidable(m) THEN "checked" ELSE "refused")
  /\ UNCHANGED <<status, held, recallCount, lock, listed, counted>>

\* Mutant: the new status is not among the UPDATE's parameters.
ForgetsWithoutStatus(r) ==
  /\ r \in Forgets
  /\ pc[r] = "idle"
  /\ \E m \in Memories :
       /\ target' = [target EXCEPT ![r] = m]
       /\ Goto(r, IF Forgettable(m) THEN "checked" ELSE "refused")
  /\ UNCHANGED <<status, held, recallCount, lock, verdict, listed, counted>>

CheckForget(r) ==
  /\ r \in Forgets
  /\ pc[r] = "idle"
  /\ \E m \in Memories :
       /\ target' = [target EXCEPT ![r] = m]
       /\ verdict' = [verdict EXCEPT ![r] = "forgotten"]
       /\ Goto(r, IF Forgettable(m) THEN "checked" ELSE "refused")
  /\ UNCHANGED <<status, held, recallCount, lock, listed, counted>>

UpdateStatus(r) ==
  /\ pc[r] = "checked"
  /\ lock[target[r]] = Nobody
  /\ lock' = [lock EXCEPT ![target[r]] = r]
  /\ Goto(r, "written")
  /\ UNCHANGED <<status, held, recallCount, target, verdict, listed, counted>>

\* Mutant: the transaction is left open when the status has been written.
CommitStatusAndStay(r) ==
  /\ pc[r] = "written"
  /\ status' = [status EXCEPT ![target[r]] = verdict[r]]
  /\ Goto(r, "done")
  /\ UNCHANGED <<held, recallCount, lock, target, verdict, listed, counted>>

CommitStatus(r) ==
  /\ pc[r] = "written"
  /\ status' = [status EXCEPT ![target[r]] = verdict[r]]
  /\ Release(r)
  /\ Goto(r, "done")
  /\ UNCHANGED <<held, recallCount, target, verdict, listed, counted>>

---------------------------------------------------------------------------
(* recall: a SELECT of the nearest confirmed rows, then one UPDATE each.   *)

\* The answers to a query over the rows ms: the nearest first, Limit at most.
Nearest(ms) ==
  LET n == IF Cardinality(ms) < Limit THEN Cardinality(ms) ELSE Limit
  IN  {s \in [1..n -> ms] : \A i, j \in 1..n : s[i] = s[j] => i = j}

\* Mutant: the search forgets to ask for confirmed rows.
SearchableOrHeld(m) == status[m] \in {"pending", "confirmed"}

Searchable(m) == status[m] = "confirmed"

Select(r) ==
  /\ r \in Recalls
  /\ pc[r] = "idle"
  /\ \E s \in Nearest({m \in Memories : Searchable(m)}) :
       /\ listed' = [listed EXCEPT ![r] = s]
       /\ Goto(r, IF s = <<>> THEN "refused" ELSE "counting")
  /\ UNCHANGED <<status, held, recallCount, lock, target, verdict, counted>>

CountNext(r) ==
  /\ pc[r] = "counting"
  /\ lock[Needs(r)] = Nobody
  /\ lock' = [lock EXCEPT ![Needs(r)] = r]
  /\ counted' = [counted EXCEPT ![r] = @ + 1]
  /\ Goto(r, IF counted[r] + 1 = Len(listed[r]) THEN "counted" ELSE "counting")
  /\ UNCHANGED <<status, held, recallCount, target, verdict, listed>>

\* Mutant: the loop over the answer starts at its second row.
CountsOneTooFew(r) ==
  /\ pc[r] = "counted"
  /\ recallCount' = [m \in Memories |->
                       recallCount[m] + (IF m \in Ranks(Tail(listed[r])) THEN 1 ELSE 0)]
  /\ Release(r)
  /\ Goto(r, "done")
  /\ UNCHANGED <<status, held, target, verdict, listed, counted>>

CommitCounts(r) ==
  /\ pc[r] = "counted"
  /\ recallCount' = [m \in Memories |->
                       recallCount[m] + (IF m \in Ranks(listed[r]) THEN 1 ELSE 0)]
  /\ Release(r)
  /\ Goto(r, "done")
  /\ UNCHANGED <<status, held, target, verdict, listed, counted>>

---------------------------------------------------------------------------
(* Failures: a lost connection or a crash, and the database's own abort.   *)

Open(r) == pc[r] \in {"checked", "written", "counting", "counted"}

Abort(r) ==
  /\ Release(r)
  /\ Goto(r, "failed")
  /\ UNCHANGED <<status, held, recallCount, target, verdict, listed, counted>>

Fail(r) == Open(r) /\ Abort(r)

\* The requests that wait for one another in a cycle.
Deadlocked ==
  UNION {S \in SUBSET {r \in Requests : Waiting(r)} :
           S = {lock[Needs(r)] : r \in S}}

BreakDeadlock(r) == r \in Deadlocked /\ Abort(r)

---------------------------------------------------------------------------

Proceed(r) ==
  \/ UpdateStatus(r)
  \/ CommitStatus(r)
  \/ CountNext(r)
  \/ CommitCounts(r)

Start(r) == CheckDecide(r) \/ CheckForget(r) \/ Select(r)

Next ==
  \/ \E m \in Memories : RememberThis(m) \/ ImportMemory(m)
  \/ \E r \in Requests : Start(r) \/ Proceed(r) \/ Fail(r) \/ BreakDeadlock(r)

Spec == Init /\ [][Next]_vars

\* An open transaction is carried on, and a deadlock is detected.
FairSpec == /\ Spec
            /\ \A r \in Requests : WF_vars(Proceed(r))
            /\ WF_vars(\E r \in Requests : BreakDeadlock(r))

---------------------------------------------------------------------------

Labels == {"idle", "checked", "written", "counting", "counted", "done", "refused", "failed"}

\* Statuses, locks and places are those the schema and the code know.
TypeOK ==
  /\ status \in [Memories -> Statuses \cup {"absent"}]
  /\ held \in SUBSET Memories
  /\ recallCount \in [Memories -> Nat]
  /\ lock \in [Memories -> Requests \cup {Nobody}]
  /\ pc \in [Requests -> Labels]
  /\ target \in [Requests -> Memories \cup {NoMemory}]
  /\ verdict \in [Requests -> Statuses \cup {"none"}]
  /\ listed \in [Requests -> Seq(Memories)]
  /\ counted \in [Requests -> Nat]

---------------------------------------------------------------------------
(* The invariant that carries the proofs.                                  *)

Confirmed(m) == \E d \in Decides : pc[d] = "done" /\ target[d] = m /\ verdict[d] = "confirmed"

\* A row waits for review, or was once in review, only if it was held.
ReviewIsOfHeld ==
  /\ \A m \in Memories : status[m] = "pending" => m \in held
  /\ \A m \in held : status[m] # "absent"
  /\ \A d \in Decides : pc[d] \in {"checked", "written"} => target[d] \in held

\* Who writes which status: decide never forgets, forget never confirms.
VerdictsByKind ==
  \A r \in Requests : pc[r] \in {"checked", "written"} =>
    /\ r \in Decides => verdict[r] \in {"confirmed", "rejected"}
    /\ r \in Forgets => verdict[r] = "forgotten"
    /\ r \in Decides \cup Forgets
    /\ target[r] \in Memories
    /\ status[target[r]] # "absent"

\* A held row that is confirmed, or was listed, has been confirmed by a decide.
ConfirmedByDecide ==
  /\ \A m \in held : status[m] = "confirmed" => Confirmed(m)
  /\ \A r \in Requests : \A m \in Ranks(listed[r]) :
       m \in Memories /\ status[m] # "absent" /\ (m \in held => Confirmed(m))

Returned(m) == {r \in Recalls : pc[r] = "done" /\ m \in Ranks(listed[r])}

\* Only a recall counts, and only so many have ended that they can be counted.
CountsByRecall ==
  /\ \A r \in Requests : pc[r] \in {"counting", "counted"} => r \in Recalls
  /\ \A m \in Memories : IsFiniteSet(Returned(m))

ReviewInv == TypeOK /\ ReviewIsOfHeld /\ VerdictsByKind /\ ConfirmedByDecide

\* An answer is short, names no row twice and none that waits for review.
AnswersOK ==
  \A r \in Requests :
    /\ Len(listed[r]) <= Limit
    /\ \A i, j \in 1..Len(listed[r]) : listed[r][i] = listed[r][j] => i = j
    /\ \A m \in Ranks(listed[r]) : status[m] # "pending"

\* A recall counts while rows of its answer are left.
CountingOK ==
  \A r \in Requests :
    /\ pc[r] \in {"idle", "checked", "written"} => counted[r] = 0
    /\ pc[r] = "counting" => counted[r] < Len(listed[r])
    /\ pc[r] = "counted" => listed[r] # <<>>

\* The rows that r has updated and not yet committed.
Updated(r) == CASE pc[r] = "written" -> {target[r]}
                [] pc[r] \in {"counting", "counted"} -> {listed[r][i] : i \in 1..counted[r]}
                [] OTHER -> {}

\* A request has the locks of the rows it has updated, and no other.
LocksOfUpdates == \A r \in Requests : {m \in Memories : lock[m] = r} = Updated(r)

WaitInv == ReviewInv /\ CountsByRecall /\ AnswersOK /\ CountingOK /\ LocksOfUpdates

---------------------------------------------------------------------------

\* recall_count is the number of recalls that returned the memory: none is
\* lost to a race of two recalls, none counted for a recall that failed.
RecallCountExact == \A m \in Memories : recallCount[m] = Cardinality(Returned(m))

\* A memory held for review is never recalled before someone confirmed it.
HeldUntilConfirmed ==
  \A r \in Recalls : \A m \in held \cap Ranks(listed[r]) : Confirmed(m)

\* Every request takes effect in one step, its commit, or not at all: a decide
\* gives its verdict only on a memory once held for review, a recall counts each
\* memory of its answer once and returns none held that no decide has confirmed.
\* Not said is that a decide would still be let in at its commit: it may overtake
\* a forget, or another decide (see RevocationSticks).
Book == INSTANCE MemoryBook WITH approved <- {m \in Memories : Confirmed(m)}

ActsAtOnce == Book!Spec

\* A memory that was never held for review stays forgotten: the race that
\* undoes a forget needs a decide, and a decide needs a pending memory.
CleanForgetIsFinal ==
  [][ \A m \in Memories \ held : status[m] = "forgotten" => status'[m] = "forgotten" ]_vars

\* Every request that has begun ends, though recalls lock the rows of
\* their answer in the order of the query and so may wait in a cycle.
EveryRequestEnds ==
  \A r \in Requests : Open(r) ~> pc[r] \in {"done", "failed"}

\* What r is about to do is not held up by a lock, its own included.
CanProceed(r) ==
  \/ pc[r] \in {"written", "counted"}
  \/ pc[r] \in {"checked", "counting"} /\ lock[Needs(r)] = Nobody

\* Whoever cannot proceed waits for another request, which is open too; and
\* requests that wait only for one another have a cycle among them, which the
\* database ends.  So some open request can always move on.
NobodyStuck ==
  /\ \A r \in Requests : Open(r) /\ ~CanProceed(r) =>
       lock[Needs(r)] \in Requests \ {r} /\ Open(lock[Needs(r)])
  /\ \A S \in SUBSET {r \in Requests : Open(r) /\ ~CanProceed(r)} :
       S # {} /\ {lock[Needs(r)] : r \in S} \subseteq S => S \cap Deadlocked # {}

\* The steps r has still to take, its commit included.
StepsLeft(r) == CASE pc[r] = "checked"  -> 2
                  [] pc[r] = "counting" -> Len(listed[r]) - counted[r] + 1
                  [] pc[r] \in {"written", "counted"} -> 1
                  [] OTHER -> 0

\* No step of another request adds to what r has to do, and each of its own
\* takes something away: a request's end is a bounded number of steps ahead.
EachStepCounts ==
  [][ \A r \in Requests : Open(r) =>
        /\ StepsLeft(r) \in Nat \ {0}
        /\ StepsLeft(r)' < StepsLeft(r)
           \/ UNCHANGED <<pc[r], target[r], verdict[r], listed[r], counted[r]>> ]_vars

\* The README's claim, any memory can be revoked afterwards in the Web UI: no
\* recall that begins after a memory was forgotten returns it.
RevocationSticks ==
  [][ \A r \in Recalls : \A m \in Memories :
        listed'[r] # listed[r] /\ m \in Ranks(listed'[r]) =>
          ~\E f \in Forgets : pc[f] = "done" /\ target[f] = m ]_vars

=============================================================================
