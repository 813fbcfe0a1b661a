------------------------ MODULE MemoryReviewProofs ------------------------
(***************************************************************************)
(* Proofs about MemoryReview for every set of requests and memories.       *)
(***************************************************************************)
EXTENDS MemoryReview, FiniteSetTheorems, TLAPS

\* An answer is a sequence of the rows it was asked from.
LEMMA NearestType ==
  ASSUME NEW ms \in SUBSET Memories, NEW s \in Nearest(ms)
  PROVE  s \in Seq(Memories) /\ Ranks(s) \subseteq ms
<1> DEFINE n == IF Cardinality(ms) < Limit THEN Cardinality(ms) ELSE Limit
<1>1. n \in Nat
  BY ConstantsAssumption, FS_Subset, FS_CardinalityType
<1>2. s \in [1..n -> ms]
  BY DEF Nearest
<1>3. s \in Seq(ms)
  BY <1>1, <1>2
<1> QED
  BY <1>2, <1>3 DEF Ranks

\* Every initial state satisfies the invariant.
LEMMA InitReviewInv == Init => ReviewInv
<1> SUFFICES ASSUME Init PROVE ReviewInv
  OBVIOUS
<1>1. TypeOK
  BY DEF Init, TypeOK, Labels, Statuses
<1>2. ReviewIsOfHeld /\ VerdictsByKind
  BY ConstantsAssumption DEF Init, ReviewIsOfHeld, VerdictsByKind, Requests
<1>3. \A r \in Requests : Ranks(listed[r]) = {}
  BY DEF Init, Ranks
<1>4. ConfirmedByDecide
  BY <1>3 DEF Init, ConfirmedByDecide
<1> QED
  BY <1>1, <1>2, <1>4 DEF ReviewInv

\* Storing a memory touches no request, and no row that anyone has read.
LEMMA StoreReviewInv ==
  ASSUME ReviewInv, NEW m \in Memories, NEW st \in Statuses, Store(m, st)
  PROVE  ReviewInv'
<1> USE DEF ReviewInv
<1>1. UNCHANGED <<recallCount, lock, pc, target, verdict, listed, counted>>
  BY DEF Store
<1>2. /\ status[m] = "absent"
      /\ status'[m] \in Statuses
      /\ \A x \in Memories \ {m} : status'[x] = status[x]
      /\ held' \in {held, held \cup {m}}
      /\ status'[m] = "pending" => m \in held'
      /\ m \in held' => status'[m] = "pending"
  BY DEF Store, TypeOK, ReviewIsOfHeld
<1>3. TypeOK'
  BY <1>1 DEF Store, TypeOK, Statuses
<1>4. ReviewIsOfHeld'
  BY <1>1, <1>2 DEF ReviewIsOfHeld, TypeOK
<1>5. VerdictsByKind'
  BY <1>1, <1>2 DEF VerdictsByKind
<1>6. \A x : Confirmed(x)' <=> Confirmed(x)
  BY <1>1 DEF Confirmed
<1>7. \A r \in Requests : Ranks(listed[r])' = Ranks(listed[r])
  BY <1>1 DEF Ranks
<1>8. ConfirmedByDecide'
  <2>1. \A x \in held' : status'[x] = "confirmed" => Confirmed(x)
    BY <1>2 DEF ConfirmedByDecide, TypeOK
  <2>2. \A r \in Requests : \A x \in Ranks(listed[r]) :
          x \in Memories /\ status'[x] # "absent" /\ (x \in held' => Confirmed(x))
    BY <1>2 DEF ConfirmedByDecide
  <2> QED
    BY <1>6, <1>7, <2>1, <2>2 DEF ConfirmedByDecide
<1> QED
  BY <1>3, <1>4, <1>5, <1>8

\* What every request's step but the commit of a status leaves alone.
LEMMA RequestFrame ==
  ASSUME ReviewInv, NEW r \in Requests, Start(r) \/ Proceed(r) \/ Fail(r) \/ BreakDeadlock(r)
  PROVE  /\ TypeOK'
         /\ held' = held
         /\ \A s \in Requests \ {r} : /\ pc'[s] = pc[s]
                                      /\ target'[s] = target[s]
                                      /\ verdict'[s] = verdict[s]
                                      /\ listed'[s] = listed[s]
         /\ CommitStatus(r) \/ status' = status
         /\ pc[r] # "done"
<1> USE DEF ReviewInv, Goto
<1>0. CASE CheckDecide(r)
  <2>1. PICK m \in Memories, v \in {"confirmed", "rejected"} :
           /\ target' = [target EXCEPT ![r] = m]
           /\ verdict' = [verdict EXCEPT ![r] = v]
           /\ pc' = [pc EXCEPT ![r] = IF Decidable(m) THEN "checked" ELSE "refused"]
    BY <1>0 DEF CheckDecide
  <2> QED
    BY <1>0, <2>1 DEF CheckDecide, TypeOK, Labels, Statuses
<1>1. CASE CheckForget(r)
  <2>1. PICK m \in Memories :
           /\ target' = [target EXCEPT ![r] = m]
           /\ verdict' = [verdict EXCEPT ![r] = "forgotten"]
           /\ pc' = [pc EXCEPT ![r] = IF Forgettable(m) THEN "checked" ELSE "refused"]
    BY <1>1 DEF CheckForget
  <2> QED
    BY <1>1, <2>1 DEF CheckForget, TypeOK, Labels, Statuses
<1>2. CASE Select(r)
  <2>1. PICK s \in Nearest({m \in Memories : Searchable(m)}) :
           listed' = [listed EXCEPT ![r] = s]
    BY <1>2 DEF Select
  <2>2. s \in Seq(Memories)
    BY NearestType
  <2> QED
    BY <1>2, <2>1, <2>2 DEF Select, TypeOK, Labels
<1>3. CASE UpdateStatus(r)
  BY <1>3 DEF UpdateStatus, TypeOK, Labels
<1>4. CASE CommitStatus(r)
  <2>1. verdict[r] \in Statuses
    BY <1>4 DEF CommitStatus, VerdictsByKind, Requests, Statuses
  <2> QED
    BY <1>4, <2>1 DEF CommitStatus, Release, TypeOK, Labels
<1>5. CASE CountNext(r)
  <2>1. pc' \in [Requests -> Labels] /\ pc[r] # "done"
    BY <1>5 DEF CountNext, TypeOK, Labels
  <2>2. lock' \in [Memories -> Requests \cup {Nobody}]
    BY <1>5 DEF CountNext, TypeOK
  <2>3. counted' \in [Requests -> Nat]
    BY <1>5 DEF CountNext, TypeOK
  <2> QED
    BY <1>5, <2>1, <2>2, <2>3 DEF CountNext, TypeOK
<1>6. CASE CommitCounts(r)
  BY <1>6 DEF CommitCounts, Release, TypeOK, Labels
<1>7. CASE Fail(r) \/ BreakDeadlock(r)
  <2>1. pc[r] # "done"
    BY <1>7 DEF Fail, Open, BreakDeadlock, Deadlocked, Waiting
  <2> QED
    BY <1>7, <2>1 DEF Fail, BreakDeadlock, Abort, Release, TypeOK, Labels
<1> QED
  BY <1>0, <1>1, <1>2, <1>3, <1>4, <1>5, <1>6, <1>7 DEF Start, Proceed

\* A request that is not yet done takes nothing away from a confirmation.
LEMMA ConfirmedStays ==
  ASSUME ReviewInv, NEW r \in Requests, Start(r) \/ Proceed(r) \/ Fail(r) \/ BreakDeadlock(r),
         NEW m, Confirmed(m)
  PROVE  Confirmed(m)'
<1>1. PICK d \in Decides : pc[d] = "done" /\ target[d] = m /\ verdict[d] = "confirmed"
  BY DEF Confirmed
<1>2. d \in Requests /\ d # r
  BY <1>1, RequestFrame DEF Requests
<1> QED
  BY <1>1, <1>2, RequestFrame DEF Confirmed

\* The steps that commit no status.
LEMMA NoStatusReviewInv ==
  ASSUME ReviewInv, NEW r \in Requests, Start(r) \/ Proceed(r) \/ Fail(r) \/ BreakDeadlock(r),
         ~CommitStatus(r)
  PROVE  ReviewInv'
<1> USE DEF ReviewInv
<1>1. TypeOK' /\ held' = held /\ status' = status
  BY RequestFrame
<1>2. \/ CheckDecide(r) \/ CheckForget(r)
      \/ /\ pc'[r] \in {"checked", "written"} => pc[r] = "checked"
         /\ target' = target /\ verdict' = verdict
  BY DEF Start, Proceed, Select, UpdateStatus, CountNext, CommitCounts, Fail, BreakDeadlock,
         Abort, Goto, TypeOK
<1>3. ReviewIsOfHeld'
  <2>1. r \in Decides /\ pc'[r] \in {"checked", "written"} => target'[r] \in held
    <3>1. CASE CheckDecide(r)
      BY <3>1 DEF CheckDecide, Decidable, ReviewIsOfHeld, Goto, TypeOK
    <3>2. CASE CheckForget(r)
      BY <3>2, ConstantsAssumption DEF CheckForget
    <3> QED
      BY <1>2, <3>1, <3>2 DEF ReviewIsOfHeld
  <2> QED
    BY <1>1, <2>1, RequestFrame DEF ReviewIsOfHeld, Requests
<1>4. VerdictsByKind'
  <2> DEFINE Fits(s) == /\ s \in Decides => verdict'[s] \in {"confirmed", "rejected"}
                        /\ s \in Forgets => verdict'[s] = "forgotten"
                        /\ s \in Decides \cup Forgets
                        /\ target'[s] \in Memories
                        /\ status[target'[s]] # "absent"
  <2>1. pc'[r] \in {"checked", "written"} => Fits(r)
    <3>1. CASE CheckDecide(r)
      BY <3>1, ConstantsAssumption DEF CheckDecide, Decidable, Goto, TypeOK
    <3>2. CASE CheckForget(r)
      BY <3>2, ConstantsAssumption DEF CheckForget, Forgettable, Goto, TypeOK
    <3> QED
      BY <1>2, <3>1, <3>2 DEF VerdictsByKind
  <2>2. \A s \in Requests \ {r} : pc'[s] \in {"checked", "written"} => Fits(s)
    BY RequestFrame DEF VerdictsByKind
  <2> QED
    BY <1>1, <2>1, <2>2 DEF VerdictsByKind
<1>5. ConfirmedByDecide'
  <2>1. \A m \in Ranks(listed'[r]) :
          m \in Memories /\ status[m] # "absent" /\ (m \in held => Confirmed(m))
    <3>1. CASE Select(r)
      <4>1. PICK s \in Nearest({m \in Memories : Searchable(m)}) :
               listed' = [listed EXCEPT ![r] = s]
        BY <3>1 DEF Select
      <4>2. listed'[r] = s
        BY <4>1 DEF TypeOK
      <4> QED
        BY <4>2, NearestType DEF Searchable, ConfirmedByDecide
    <3>2. CASE ~Select(r)
      <4>1. listed' = listed
        BY <3>2 DEF Start, Proceed, CheckDecide, CheckForget, UpdateStatus, CountNext,
                    CommitCounts, Fail, BreakDeadlock, Abort
      <4> QED
        BY <4>1 DEF ConfirmedByDecide
    <3> QED
      BY <3>1, <3>2
  <2>2. \A s \in Requests : \A m \in Ranks(listed'[s]) :
          m \in Memories /\ status[m] # "absent" /\ (m \in held => Confirmed(m))
    BY <2>1, RequestFrame DEF ConfirmedByDecide
  <2>3. \A m : Confirmed(m) => Confirmed(m)'
    BY ConfirmedStays
  <2>4. \A s \in Requests : Ranks(listed'[s]) = Ranks(listed[s])'
    BY DEF Ranks
  <2> QED
    BY <1>1, <2>2, <2>3, <2>4 DEF ConfirmedByDecide
<1> QED
  BY <1>1, <1>3, <1>4, <1>5

\* What the commit of a status does, by the kind of the request.
LEMMA CommitStatusEffect ==
  ASSUME ReviewInv, NEW r \in Requests, CommitStatus(r)
  PROVE  /\ target[r] \in Memories
         /\ status' = [status EXCEPT ![target[r]] = verdict[r]]
         /\ status[target[r]] # "absent"
         /\ \/ /\ r \in Decides
               /\ target[r] \in held
               /\ verdict[r] \in {"confirmed", "rejected"}
            \/ /\ r \in Forgets
               /\ verdict[r] = "forgotten"
         /\ pc'[r] = "done"
         /\ UNCHANGED <<held, target, verdict, listed>>
  BY DEF CommitStatus, Goto, ReviewInv, ReviewIsOfHeld, VerdictsByKind, TypeOK

\* A commit confirms held rows by a decide only, and makes no row pending.
LEMMA CommitStatusReviewInv ==
  ASSUME ReviewInv, NEW r \in Requests, CommitStatus(r)
  PROVE  ReviewInv'
<1> USE CommitStatusEffect
<1>1. Proceed(r)
  BY DEF Proceed
<1>2. TypeOK' /\ \A s \in Requests \ {r} : pc'[s] = pc[s]
  BY <1>1, RequestFrame
<1>3. /\ \A m \in Memories : status'[m] \in {status[m], "confirmed", "rejected", "forgotten"}
      /\ \A m \in Memories : status[m] # "absent" => status'[m] # "absent"
  BY DEF ReviewInv, TypeOK
<1>4. ReviewIsOfHeld'
  BY <1>2, <1>3 DEF ReviewInv, ReviewIsOfHeld, Requests, TypeOK
<1>5. VerdictsByKind'
  BY <1>2, <1>3 DEF ReviewInv, VerdictsByKind
<1>6. \A m : Confirmed(m) => Confirmed(m)'
  BY <1>1, ConfirmedStays
<1>7. ASSUME NEW m \in held, status'[m] = "confirmed"
      PROVE  Confirmed(m)'
  <2>1. CASE m = target[r]
    <3>1. r \in Decides /\ verdict[r] = "confirmed"
      BY <1>7, <2>1 DEF ReviewInv, TypeOK
    <3> QED
      BY <2>1, <3>1 DEF Confirmed
  <2>2. CASE m # target[r]
    BY <1>6, <1>7, <2>2 DEF ReviewInv, ConfirmedByDecide, TypeOK
  <2> QED
    BY <2>1, <2>2
<1>8. \A s \in Requests : Ranks(listed[s])' = Ranks(listed[s])
  BY DEF Ranks
<1>9. ConfirmedByDecide'
  BY <1>3, <1>6, <1>7, <1>8 DEF ReviewInv, ConfirmedByDecide
<1> QED
  BY <1>2, <1>4, <1>5, <1>9 DEF ReviewInv

\* The invariant is inductive.
LEMMA NextReviewInv == ReviewInv /\ [Next]_vars => ReviewInv'
<1> SUFFICES ASSUME ReviewInv, [Next]_vars PROVE ReviewInv'
  OBVIOUS
<1>1. CASE UNCHANGED vars
  <2>1. \A r \in Requests : Ranks(listed[r])' = Ranks(listed[r])
    BY <1>1 DEF vars, Ranks
  <2>2. \A m : Confirmed(m)' <=> Confirmed(m)
    BY <1>1 DEF vars, Confirmed
  <2>3. ConfirmedByDecide'
    BY <1>1, <2>1, <2>2 DEF vars, ReviewInv, ConfirmedByDecide
  <2> QED
    BY <1>1, <2>3 DEF vars, ReviewInv, TypeOK, ReviewIsOfHeld, VerdictsByKind
<1>2. ASSUME NEW m \in Memories, RememberThis(m) \/ ImportMemory(m) PROVE ReviewInv'
  BY <1>2, StoreReviewInv DEF RememberThis, ImportMemory, Statuses
<1>3. ASSUME NEW r \in Requests, Start(r) \/ Proceed(r) \/ Fail(r) \/ BreakDeadlock(r)
      PROVE  ReviewInv'
  BY <1>3, NoStatusReviewInv, CommitStatusReviewInv
<1> QED
  BY <1>1, <1>2, <1>3 DEF Next

\* For every set of memories and requests: who held, decided, forgot and
\* listed what fits together in every reachable state.
THEOREM ReviewInvariant == Spec => []ReviewInv
<1> QED
  BY InitReviewInv, NextReviewInv, PTL DEF Spec

\* Rows, decisions under way and answers have their types in every reachable
\* state: only decide and forget move a status, and never out of its domain.
THEOREM TypeCorrect == Spec => []TypeOK
<1>1. ReviewInv => TypeOK
  BY DEF ReviewInv
<1> QED
  BY <1>1, ReviewInvariant, PTL

\* A memory held for review reaches no recall before a decide confirmed it.
THEOREM HeldStaysHidden == Spec => []HeldUntilConfirmed
<1>1. ReviewInv => HeldUntilConfirmed
  BY DEF ReviewInv, ConfirmedByDecide, HeldUntilConfirmed, Requests
<1> QED
  BY <1>1, ReviewInvariant, PTL

\* No race brings back a forgotten memory that never waited for review.
THEOREM CleanForgetStays == Spec => CleanForgetIsFinal
<1>1. ReviewInv /\ [Next]_vars =>
        [ \A m \in Memories \ held :
            status[m] = "forgotten" => status'[m] = "forgotten" ]_vars
  <2> SUFFICES ASSUME ReviewInv, Next,
                      NEW m \in Memories \ held, status[m] = "forgotten"
               PROVE  status'[m] = "forgotten"
    OBVIOUS
  <2>1. ASSUME NEW x \in Memories, RememberThis(x) \/ ImportMemory(x)
        PROVE  status'[m] = "forgotten"
    BY <2>1 DEF RememberThis, ImportMemory, Store, ReviewInv, TypeOK
  <2>2. ASSUME NEW r \in Requests, Start(r) \/ Proceed(r) \/ Fail(r) \/ BreakDeadlock(r)
        PROVE  status'[m] = "forgotten"
    <3>1. CASE CommitStatus(r)
      BY <3>1, CommitStatusEffect DEF ReviewInv, TypeOK
    <3>2. CASE ~CommitStatus(r)
      BY <2>2, <3>2, RequestFrame
    <3> QED
      BY <3>1, <3>2
  <2> QED
    BY <2>1, <2>2 DEF Next
<1> QED
  BY <1>1, ReviewInvariant, PTL DEF Spec, CleanForgetIsFinal

\* A step of a request counts the memories it returns if it ends a recall, and
\* no other step touches a recall that has ended.
LEMMA ReturnedChanges ==
  ASSUME ReviewInv, CountsByRecall, NEW m \in Memories, NEW r \in Requests,
         Start(r) \/ Proceed(r) \/ Fail(r) \/ BreakDeadlock(r)
  PROVE  IF CommitCounts(r) /\ m \in Ranks(listed[r])
         THEN Returned(m)' = Returned(m) \cup {r} /\ r \notin Returned(m)
         ELSE Returned(m)' = Returned(m)
<1>1. /\ pc[r] # "done"
      /\ \A s \in Requests \ {r} : pc'[s] = pc[s] /\ listed'[s] = listed[s]
  BY RequestFrame
<1>2. \A s : Ranks(listed[s])' = Ranks(listed'[s])
  BY DEF Ranks
<1>3. \A s \in Recalls \ {r} : s \in Returned(m)' <=> s \in Returned(m)
  BY <1>1, <1>2 DEF Returned, Requests
<1>4. r \notin Returned(m)
  BY <1>1 DEF Returned
<1>5. CASE CommitCounts(r)
  <2>1. r \in Recalls /\ pc'[r] = "done" /\ listed' = listed
    BY <1>5 DEF CommitCounts, CountsByRecall, Goto, ReviewInv, TypeOK
  <2>2. r \in Returned(m)' <=> m \in Ranks(listed[r])
    BY <1>2, <2>1 DEF Returned
  <2> QED
    BY <1>3, <1>4, <1>5, <2>2 DEF Returned
<1>6. CASE ~CommitCounts(r)
  <2>1. r \in Recalls => pc'[r] # "done"
    <3>1. CASE CommitStatus(r)
      BY <3>1, ConstantsAssumption DEF CommitStatus, ReviewInv, VerdictsByKind
    <3>2. CASE ~CommitStatus(r)
      BY <1>1, <1>6, <3>2 DEF Start, Proceed, CheckDecide, CheckForget, Select, UpdateStatus,
         CountNext, Fail, BreakDeadlock, Abort, Goto, ReviewInv, TypeOK
    <3> QED
      BY <3>1, <3>2
  <2> QED
    BY <1>3, <1>4, <1>6, <2>1 DEF Returned
<1> QED
  BY <1>5, <1>6

\* One recall that ends adds one to each memory it returns.
LEMMA RequestCounts ==
  ASSUME ReviewInv, CountsByRecall, RecallCountExact, NEW r \in Requests,
         Start(r) \/ Proceed(r) \/ Fail(r) \/ BreakDeadlock(r)
  PROVE  CountsByRecall' /\ RecallCountExact'
<1>1. \A s \in Requests : pc'[s] \in {"counting", "counted"} => s \in Recalls
  <2>1. \A s \in Requests \ {r} : pc'[s] = pc[s]
    BY RequestFrame
  <2>2. pc'[r] \in {"counting", "counted"} => pc[r] = "counting" \/ r \in Recalls
    BY DEF Start, Proceed, CheckDecide, CheckForget, Select, UpdateStatus, CommitStatus,
       CountNext, CommitCounts, Fail, BreakDeadlock, Abort, Goto, ReviewInv, TypeOK
  <2> QED
    BY <2>1, <2>2 DEF CountsByRecall
<1>2. ASSUME NEW m \in Memories
      PROVE  IsFiniteSet(Returned(m)') /\ recallCount'[m] = Cardinality(Returned(m)')
  <2>1. IsFiniteSet(Returned(m)) /\ recallCount[m] = Cardinality(Returned(m))
    BY DEF CountsByRecall, RecallCountExact
  <2>2. CASE CommitCounts(r) /\ m \in Ranks(listed[r])
    <3>1. recallCount'[m] = recallCount[m] + 1
      BY <2>2 DEF CommitCounts
    <3>2. Returned(m)' = Returned(m) \cup {r} /\ r \notin Returned(m)
      BY <2>2, ReturnedChanges
    <3> QED
      BY <2>1, <3>1, <3>2, FS_AddElement
  <2>3. CASE ~(CommitCounts(r) /\ m \in Ranks(listed[r]))
    <3>1. recallCount'[m] = recallCount[m]
      <4>1. CASE CommitCounts(r)
        BY <2>3, <4>1 DEF CommitCounts, ReviewInv, TypeOK
      <4>2. CASE ~CommitCounts(r)
        BY <4>2 DEF Start, Proceed, CheckDecide, CheckForget, Select, UpdateStatus,
           CommitStatus, CountNext, Fail, BreakDeadlock, Abort
      <4> QED
        BY <4>1, <4>2
    <3>2. Returned(m)' = Returned(m)
      BY <2>3, ReturnedChanges
    <3> QED
      BY <2>1, <3>1, <3>2
  <2> QED
    BY <2>2, <2>3
<1> QED
  BY <1>1, <1>2 DEF CountsByRecall, RecallCountExact

\* However recalls race for the rows of their answers, and whichever of them
\* fail, each memory's count is the number of those that returned it.
THEOREM RecallsAreCounted == Spec => []RecallCountExact
<1> DEFINE Inv == ReviewInv /\ CountsByRecall /\ RecallCountExact
<1>1. Init => CountsByRecall /\ RecallCountExact
  <2> SUFFICES ASSUME Init PROVE CountsByRecall /\ RecallCountExact
    OBVIOUS
  <2>1. \A m \in Memories : Returned(m) = {}
    BY DEF Init, Returned, Requests
  <2> QED
    BY <2>1, FS_EmptySet DEF Init, CountsByRecall, RecallCountExact
<1>2. Inv /\ [Next]_vars => Inv'
  <2> SUFFICES ASSUME Inv, [Next]_vars PROVE CountsByRecall' /\ RecallCountExact'
    BY NextReviewInv
  <2>1. ASSUME UNCHANGED <<pc, listed, recallCount>>
        PROVE  CountsByRecall' /\ RecallCountExact'
    <3>1. \A m : Returned(m)' = Returned(m)
      BY <2>1 DEF Returned, Ranks
    <3> QED
      BY <2>1, <3>1 DEF CountsByRecall, RecallCountExact
  <2>2. ASSUME NEW m \in Memories, RememberThis(m) \/ ImportMemory(m)
        PROVE  UNCHANGED <<pc, listed, recallCount>>
    BY <2>2 DEF RememberThis, ImportMemory, Store
  <2>3. ASSUME NEW r \in Requests, Start(r) \/ Proceed(r) \/ Fail(r) \/ BreakDeadlock(r)
        PROVE  CountsByRecall' /\ RecallCountExact'
    BY <2>3, RequestCounts
  <2> QED
    BY <2>1, <2>2, <2>3 DEF Next, vars
<1>3. Inv => RecallCountExact
  OBVIOUS
<1> HIDE DEF Inv
<1>4. Spec => []Inv
  BY <1>1, <1>2, InitReviewInv, PTL DEF Spec, Inv
<1> QED
  BY <1>3, <1>4, PTL

---------------------------------------------------------------------------
(* Locks: who waits, waits for a request that can move, or in a cycle.     *)

\* An answer has at most Limit rows, each once.
LEMMA NearestIsShort ==
  ASSUME NEW ms \in SUBSET Memories, NEW s \in Nearest(ms)
  PROVE  /\ Len(s) <= Limit
         /\ \A i, j \in 1..Len(s) : s[i] = s[j] => i = j
<1> DEFINE n == IF Cardinality(ms) < Limit THEN Cardinality(ms) ELSE Limit
<1>1. n \in Nat /\ n <= Limit
  BY ConstantsAssumption, FS_Subset, FS_CardinalityType
<1>2. s \in [1..n -> ms] /\ \A i, j \in 1..n : s[i] = s[j] => i = j
  BY DEF Nearest
<1> HIDE DEF n
<1>3. Len(s) = n
  BY <1>1, <1>2
<1> QED
  BY <1>1, <1>2, <1>3

\* What a request's step leaves to the others, locks included.
LEMMA LockFrame ==
  ASSUME ReviewInv, NEW r \in Requests, Start(r) \/ Proceed(r) \/ Fail(r) \/ BreakDeadlock(r)
  PROVE  /\ \A s \in Requests \ {r} : counted'[s] = counted[s]
         /\ \A m \in Memories : lock'[m] # lock[m] => {lock[m], lock'[m]} = {r, Nobody}
<1> USE DEF ReviewInv, TypeOK
<1>1. CASE Start(r)
  BY <1>1 DEF Start, CheckDecide, CheckForget, Select
<1>2. CASE UpdateStatus(r) \/ CountNext(r)
  <2>1. /\ \A s \in Requests \ {r} : counted'[s] = counted[s]
        /\ \E n : lock[n] = Nobody /\ lock' = [lock EXCEPT ![n] = r]
    BY <1>2 DEF UpdateStatus, CountNext
  <2> QED
    BY <2>1
<1>3. CASE CommitStatus(r) \/ CommitCounts(r) \/ Fail(r) \/ BreakDeadlock(r)
  BY <1>3 DEF CommitStatus, CommitCounts, Fail, BreakDeadlock, Abort, Release
<1> QED
  BY <1>1, <1>2, <1>3 DEF Proceed

\* The rows a request has updated depend on its own variables only.
LEMMA UpdatedFrame ==
  ASSUME ReviewInv, NEW r \in Requests, Start(r) \/ Proceed(r) \/ Fail(r) \/ BreakDeadlock(r),
         NEW s \in Requests \ {r}, {m \in Memories : lock[m] = s} = Updated(s)
  PROVE  {m \in Memories : lock'[m] = s} = Updated(s)'
<1>1. /\ pc'[s] = pc[s] /\ target'[s] = target[s] /\ listed'[s] = listed[s]
      /\ counted'[s] = counted[s]
  BY RequestFrame, LockFrame
<1>2. Updated(s)' = Updated(s)
  BY <1>1 DEF Updated
<1>3. s # Nobody
  BY ConstantsAssumption
<1>4. \A m \in Memories : lock'[m] = s <=> lock[m] = s
  BY <1>3, LockFrame
<1> QED
  BY <1>2, <1>4

\* A request's own step leaves it the locks of what it has updated by then.
LEMMA StepLocksUpdates ==
  ASSUME WaitInv, NEW r \in Requests, Start(r) \/ Proceed(r) \/ Fail(r) \/ BreakDeadlock(r)
  PROVE  {m \in Memories : lock'[m] = r} = Updated(r)'
<1> USE DEF Goto
<1>1. /\ {m \in Memories : lock[m] = r} = Updated(r)
      /\ TypeOK /\ VerdictsByKind
      /\ pc[r] = "counting" => counted[r] \in Nat /\ counted[r] < Len(listed[r])
      /\ listed[r] \in Seq(Memories)
      /\ r # Nobody
  BY ConstantsAssumption DEF WaitInv, LocksOfUpdates, ReviewInv, CountingOK, TypeOK
<1>2. ASSUME Release(r), pc'[r] \in {"done", "failed"}
      PROVE  {m \in Memories : lock'[m] = r} = Updated(r)'
  BY <1>1, <1>2 DEF Release, Updated
<1>3. CASE CheckDecide(r) \/ CheckForget(r)
  <2>1. pc[r] = "idle" /\ pc'[r] \in {"checked", "refused"} /\ lock' = lock
    BY <1>1, <1>3 DEF CheckDecide, CheckForget, TypeOK
  <2> QED
    BY <1>1, <2>1 DEF Updated
<1>4. CASE Select(r)
  <2>1. /\ pc[r] = "idle" /\ pc'[r] \in {"counting", "refused"} /\ lock' = lock
        /\ counted'[r] = counted[r] /\ counted[r] = 0
    BY <1>1, <1>4 DEF Select, TypeOK, WaitInv, CountingOK
  <2> QED
    BY <1>1, <2>1 DEF Updated
<1>5. CASE UpdateStatus(r)
  <2>1. /\ pc[r] = "checked" /\ pc'[r] = "written" /\ target' = target
        /\ target[r] \in Memories /\ lock' = [lock EXCEPT ![target[r]] = r]
    BY <1>1, <1>5 DEF UpdateStatus, TypeOK, VerdictsByKind
  <2>2. Updated(r) = {} /\ Updated(r)' = {target[r]}
    BY <2>1 DEF Updated
  <2> QED
    BY <1>1, <2>1, <2>2 DEF TypeOK
<1>6. CASE CountNext(r)
  <2> DEFINE n == counted[r]
             m == listed[r][n + 1]
  <2>1. /\ pc[r] = "counting" /\ pc'[r] \in {"counting", "counted"} /\ n \in Nat
        /\ listed' = listed /\ counted'[r] = n + 1
        /\ m \in Memories /\ lock' = [lock EXCEPT ![m] = r]
    BY <1>1, <1>6 DEF CountNext, Needs, TypeOK
  <2>2. Updated(r) = {listed[r][i] : i \in 1..n} /\ Updated(r)' = {listed[r][i] : i \in 1..(n + 1)}
    BY <2>1 DEF Updated
  <2>3. {listed[r][i] : i \in 1..(n + 1)} = {listed[r][i] : i \in 1..n} \cup {m}
    <3>1. 1..(n + 1) = (1..n) \cup {n + 1}
      BY <2>1
    <3> QED
      BY <3>1
  <2> HIDE DEF m, n
  <2>4. {x \in Memories : lock'[x] = r} = {x \in Memories : lock[x] = r} \cup {m}
    BY <1>1, <2>1 DEF TypeOK
  <2> QED
    BY <1>1, <2>2, <2>3, <2>4
<1>7. CASE CommitStatus(r)
  BY <1>1, <1>2, <1>7 DEF CommitStatus, TypeOK
<1>8. CASE CommitCounts(r)
  BY <1>1, <1>2, <1>8 DEF CommitCounts, TypeOK
<1>9. CASE Fail(r) \/ BreakDeadlock(r)
  BY <1>1, <1>2, <1>9 DEF Fail, BreakDeadlock, Abort, TypeOK
<1> QED
  BY <1>3, <1>4, <1>5, <1>6, <1>7, <1>8, <1>9 DEF Start, Proceed

\* A row that has an answer keeps out of review.
LEMMA StepAnswers ==
  ASSUME WaitInv, NEW r \in Requests, Start(r) \/ Proceed(r) \/ Fail(r) \/ BreakDeadlock(r)
  PROVE  AnswersOK' /\ CountingOK'
<1> USE DEF Goto
<1>1. ReviewInv /\ TypeOK /\ AnswersOK /\ CountingOK
  BY DEF WaitInv, ReviewInv
<1>2. \A m \in Memories : status'[m] = "pending" => status[m] = "pending"
  <2>1. CASE CommitStatus(r)
    BY <1>1, <2>1, CommitStatusEffect DEF TypeOK
  <2>2. CASE ~CommitStatus(r)
    BY <1>1, <2>2, RequestFrame
  <2> QED
    BY <2>1, <2>2
<1>3. /\ Len(listed'[r]) <= Limit
      /\ \A i, j \in 1..Len(listed'[r]) : listed'[r][i] = listed'[r][j] => i = j
      /\ \A m \in Ranks(listed'[r]) : status[m] # "pending"
  <2>1. CASE Select(r)
    <3>1. PICK s \in Nearest({m \in Memories : Searchable(m)}) :
             listed' = [listed EXCEPT ![r] = s]
      BY <2>1 DEF Select
    <3>2. listed'[r] = s
      BY <1>1, <3>1 DEF TypeOK
    <3>3. \A m \in Ranks(s) : status[m] # "pending"
      BY NearestType DEF Searchable
    <3> QED
      BY <3>2, <3>3, NearestIsShort
  <2>2. CASE ~Select(r)
    <3>1. listed' = listed
      BY <2>2 DEF Start, Proceed, CheckDecide, CheckForget, UpdateStatus, CommitStatus,
         CountNext, CommitCounts, Fail, BreakDeadlock, Abort
    <3> QED
      BY <1>1, <3>1 DEF AnswersOK
  <2> QED
    BY <2>1, <2>2
<1>4. AnswersOK'
  <2>1. ASSUME NEW s \in Requests
        PROVE  /\ Len(listed'[s]) <= Limit
               /\ \A i, j \in 1..Len(listed'[s]) : listed'[s][i] = listed'[s][j] => i = j
               /\ \A m \in Ranks(listed'[s]) : m \in Memories /\ status[m] # "pending"
    <3>1. CASE s = r
      <4>1. TypeOK'
        BY <1>1, RequestFrame
      <4>2. \A m \in Ranks(listed'[r]) : m \in Memories
        BY <4>1 DEF TypeOK, Ranks
      <4> QED
        BY <1>3, <3>1, <4>2
    <3>2. CASE s # r
      <4>1. listed'[s] = listed[s]
        BY <1>1, <3>2, RequestFrame
      <4> QED
        BY <1>1, <4>1 DEF AnswersOK, ReviewInv, ConfirmedByDecide
    <3> QED
      BY <3>1, <3>2
  <2>2. \A s \in Requests : Ranks(listed[s])' = Ranks(listed'[s])
    BY DEF Ranks
  <2> QED
    BY <1>2, <2>1, <2>2 DEF AnswersOK
<1>5. /\ pc'[r] \in {"idle", "checked", "written"} => counted'[r] = 0
      /\ pc'[r] = "counting" => counted'[r] < Len(listed'[r])
      /\ pc'[r] = "counted" => listed'[r] # <<>>
  <2>1. CASE CheckDecide(r) \/ CheckForget(r)
    BY <1>1, <2>1 DEF CheckDecide, CheckForget, CountingOK, TypeOK
  <2>2. CASE Select(r)
    <3>1. PICK s \in Nearest({m \in Memories : Searchable(m)}) :
             /\ listed' = [listed EXCEPT ![r] = s]
             /\ pc' = [pc EXCEPT ![r] = IF s = <<>> THEN "refused" ELSE "counting"]
      BY <2>2 DEF Select
    <3>2. /\ listed'[r] = s /\ counted'[r] = 0 /\ s \in Seq(Memories)
          /\ pc'[r] = IF s = <<>> THEN "refused" ELSE "counting"
      BY <1>1, <2>2, <3>1, NearestType DEF TypeOK, CountingOK, Select
    <3>3. s # <<>> => 0 < Len(s)
      BY <3>2
    <3> QED
      BY <3>2, <3>3
  <2>3. CASE UpdateStatus(r)
    BY <1>1, <2>3 DEF UpdateStatus, CountingOK, TypeOK
  <2>4. CASE CountNext(r)
    <3>1. /\ counted'[r] = counted[r] + 1 /\ listed' = listed /\ counted[r] \in Nat
          /\ pc[r] = "counting" /\ counted[r] < Len(listed[r]) /\ Len(listed[r]) \in Nat
          /\ pc'[r] = IF counted[r] + 1 = Len(listed[r]) THEN "counted" ELSE "counting"
      BY <1>1, <2>4 DEF CountNext, CountingOK, TypeOK
    <3>2. listed[r] # <<>>
      BY <3>1
    <3> QED
      BY <3>1, <3>2
  <2>5. CASE CommitStatus(r) \/ CommitCounts(r) \/ Fail(r) \/ BreakDeadlock(r)
    <3>1. pc'[r] \in {"done", "failed"}
      BY <1>1, <2>5 DEF CommitStatus, CommitCounts, Fail, BreakDeadlock, Abort, TypeOK
    <3> QED
      BY <3>1
  <2> QED
    BY <2>1, <2>2, <2>3, <2>4, <2>5 DEF Start, Proceed
<1>6. CountingOK'
  BY <1>1, <1>5, RequestFrame, LockFrame DEF CountingOK
<1> QED
  BY <1>4, <1>6

\* Nothing is locked and no answer given at the start.
LEMMA InitWaitInv == Init => WaitInv
<1> SUFFICES ASSUME Init PROVE WaitInv
  OBVIOUS
<1>1. \A r \in Requests : /\ pc[r] = "idle" /\ counted[r] = 0 /\ listed[r] = <<>>
                          /\ Len(listed[r]) = 0 /\ Ranks(listed[r]) = {}
                          /\ Updated(r) = {}
  BY DEF Init, Ranks, Updated
<1>2. \A m \in Memories : Returned(m) = {}
  BY DEF Init, Returned, Requests
<1>3. CountsByRecall
  BY <1>1, <1>2, FS_EmptySet DEF CountsByRecall
<1>4. AnswersOK /\ CountingOK
  BY <1>1, ConstantsAssumption DEF AnswersOK, CountingOK
<1>5. LocksOfUpdates
  BY <1>1, ConstantsAssumption DEF Init, LocksOfUpdates
<1> QED
  BY <1>3, <1>4, <1>5, InitReviewInv DEF WaitInv

\* A memory that is stored is in no answer yet.
LEMMA StoreWaitInv ==
  ASSUME WaitInv, NEW m \in Memories, NEW st \in Statuses, Store(m, st)
  PROVE  WaitInv'
<1>1. UNCHANGED <<recallCount, lock, pc, target, verdict, listed, counted>>
  BY DEF Store
<1>2. ReviewInv'
  BY StoreReviewInv DEF WaitInv
<1>3. \A r \in Requests : Ranks(listed[r])' = Ranks(listed[r]) /\ Updated(r)' = Updated(r)
  BY <1>1 DEF Ranks, Updated
<1>4. \A x : Returned(x)' = Returned(x)
  BY <1>1 DEF Returned, Ranks
<1>5. \A r \in Requests : \A x \in Ranks(listed[r]) : status'[x] = status[x]
  BY DEF Store, WaitInv, ReviewInv, ConfirmedByDecide, TypeOK
<1>6. AnswersOK'
  BY <1>1, <1>3, <1>5 DEF WaitInv, AnswersOK
<1>7. CountsByRecall' /\ CountingOK' /\ LocksOfUpdates'
  BY <1>1, <1>3, <1>4 DEF WaitInv, CountsByRecall, CountingOK, LocksOfUpdates
<1> QED
  BY <1>2, <1>6, <1>7 DEF WaitInv

\* A step of a request keeps track of who counts what.
LEMMA StepCounting ==
  ASSUME ReviewInv, CountsByRecall, NEW r \in Requests,
         Start(r) \/ Proceed(r) \/ Fail(r) \/ BreakDeadlock(r)
  PROVE  CountsByRecall'
<1>1. \A s \in Requests \ {r} : pc'[s] = pc[s]
  BY RequestFrame
<1>2. pc'[r] \in {"counting", "counted"} => pc[r] = "counting" \/ r \in Recalls
  BY DEF Start, Proceed, CheckDecide, CheckForget, Select, UpdateStatus, CommitStatus,
     CountNext, CommitCounts, Fail, BreakDeadlock, Abort, Goto, ReviewInv, TypeOK
<1>3. \A m \in Memories : IsFiniteSet(Returned(m)')
  BY ReturnedChanges, FS_AddElement DEF CountsByRecall
<1> QED
  BY <1>1, <1>2, <1>3 DEF CountsByRecall

\* The invariant of locks and answers is inductive.
LEMMA NextWaitInv == WaitInv /\ [Next]_vars => WaitInv'
<1> SUFFICES ASSUME WaitInv, [Next]_vars PROVE WaitInv'
  OBVIOUS
<1>1. CASE UNCHANGED vars
  <2>1. \A r : Ranks(listed[r])' = Ranks(listed[r]) /\ Updated(r)' = Updated(r)
    BY <1>1 DEF vars, Ranks, Updated
  <2>2. \A m : Returned(m)' = Returned(m)
    BY <1>1 DEF vars, Returned, Ranks
  <2>3. ReviewInv'
    BY <1>1, NextReviewInv DEF WaitInv
  <2>4. AnswersOK' /\ CountingOK' /\ LocksOfUpdates' /\ CountsByRecall'
    BY <1>1, <2>1, <2>2
    DEF vars, WaitInv, AnswersOK, CountingOK, LocksOfUpdates, CountsByRecall
  <2> QED
    BY <2>3, <2>4 DEF WaitInv
<1>2. ASSUME NEW m \in Memories, RememberThis(m) \/ ImportMemory(m) PROVE WaitInv'
  BY <1>2, StoreWaitInv DEF RememberThis, ImportMemory, Statuses
<1>3. ASSUME NEW r \in Requests, Start(r) \/ Proceed(r) \/ Fail(r) \/ BreakDeadlock(r)
      PROVE  WaitInv'
  <2>1. ReviewInv'
    BY NextReviewInv DEF WaitInv
  <2>2. CountsByRecall'
    BY <1>3, StepCounting DEF WaitInv
  <2>3. AnswersOK' /\ CountingOK'
    BY <1>3, StepAnswers
  <2>4. LocksOfUpdates'
    <3>1. \A s \in Requests : {m \in Memories : lock'[m] = s} = Updated(s)'
      BY <1>3, StepLocksUpdates, UpdatedFrame DEF WaitInv, LocksOfUpdates
    <3> QED
      BY <3>1 DEF LocksOfUpdates
  <2> QED
    BY <2>1, <2>2, <2>3, <2>4 DEF WaitInv
<1> QED
  BY <1>1, <1>2, <1>3 DEF Next

\* For every set of requests and memories: a request has the locks of exactly
\* the rows it has updated, and answers are short, distinct and out of review.
THEOREM WaitInvariant == Spec => []WaitInv
  BY InitWaitInv, NextWaitInv, PTL DEF Spec

\* The image of a finite set is finite.
LEMMA FiniteImage ==
  ASSUME NEW S, IsFiniteSet(S), NEW f
  PROVE  IsFiniteSet({f[x] : x \in S})
<1> DEFINE g == [x \in S |-> f[x]]
           T == {f[x] : x \in S}
<1>1. g \in Surjection(S, T)
  BY DEF Surjection
<1> QED
  BY <1>1, FS_Surjection

\* Those that the members of S point at.
PointedAt(f, S) == {f[x] : x \in S}

\* Where everyone of a set points into the set, and only finitely many are
\* pointed at, some of them are exactly those they point at.
LEMMA ClosedHasCycle ==
  ASSUME NEW S, NEW f, S # {}, PointedAt(f, S) \subseteq S, IsFiniteSet(PointedAt(f, S))
  PROVE  \E C \in SUBSET S : C # {} /\ C = PointedAt(f, C)
<1> DEFINE I == PointedAt(f, S)
           R == StrictSubsetOrdering(I)
           T == {C \in SUBSET I : C # {} /\ PointedAt(f, C) \subseteq C}
<1>1. I \in T
  BY DEF PointedAt
<1>2. T \subseteq FiniteSubsetsOf(I)
  BY FS_Subset DEF FiniteSubsetsOf
<1>3. IsWellFoundedOn(R, FiniteSubsetsOf(I))
  BY FS_StrictSubsetOrderingWellFounded
<1>4. PICK C \in T : \A D \in T : <<D, C>> \notin R
  <2> HIDE DEF R, T, I
  <2> QED
    BY <1>1, <1>2, <1>3, WFMin
<1> DEFINE D == PointedAt(f, C)
<1>5. C \in SUBSET I /\ C # {} /\ D \subseteq C
  OBVIOUS
<1>6. D \in T
  BY <1>5 DEF PointedAt
<1>7. D = C
  <2>1. D \in SUBSET I /\ C \in SUBSET I
    BY <1>5, <1>6
  <2> HIDE DEF D, I, T
  <2>2. CASE D # C
    BY <1>4, <1>5, <1>6, <2>1, <2>2 DEF StrictSubsetOrdering
  <2> QED
    BY <2>2
<1> QED
  BY <1>5, <1>7

\* Whoever cannot proceed needs a row of another open request.
LEMMA OwnerIsOpen ==
  ASSUME WaitInv, NEW r \in Requests, Open(r), ~CanProceed(r)
  PROVE  /\ Waiting(r)
         /\ Needs(r) \in Memories
         /\ lock[Needs(r)] \in Requests \ {r}
         /\ Open(lock[Needs(r)])
<1>1. pc[r] \in {"checked", "counting"} /\ lock[Needs(r)] # Nobody
  BY DEF Open, CanProceed
<1>2. ReviewInv /\ TypeOK /\ {m \in Memories : lock[m] = r} = Updated(r)
  BY DEF WaitInv, ReviewInv, LocksOfUpdates
<1>3. Needs(r) \in Memories /\ lock[Needs(r)] # r
  <2>1. CASE pc[r] = "checked"
    <3>1. Needs(r) = target[r] /\ target[r] \in Memories
      BY <1>2, <2>1 DEF Needs, ReviewInv, VerdictsByKind
    <3>2. Updated(r) = {}
      BY <2>1 DEF Updated
    <3> QED
      BY <1>2, <3>1, <3>2
  <2>2. CASE pc[r] = "counting"
    <3> DEFINE n == counted[r]
    <3>1. /\ n \in Nat /\ n + 1 \in 1..Len(listed[r]) /\ listed[r] \in Seq(Memories)
          /\ \A i, j \in 1..Len(listed[r]) : listed[r][i] = listed[r][j] => i = j
      BY <1>2, <2>2 DEF TypeOK, WaitInv, CountingOK, AnswersOK
    <3>2. Needs(r) = listed[r][n + 1]
      BY <2>2 DEF Needs
    <3>3. Updated(r) = {listed[r][i] : i \in 1..n}
      BY <2>2 DEF Updated
    <3> HIDE DEF n
    <3>4. listed[r][n + 1] \in Memories /\ listed[r][n + 1] \notin Updated(r)
      BY <3>1, <3>3
    <3> QED
      BY <1>2, <3>2, <3>4
  <2> QED
    BY <1>1, <2>1, <2>2
<1>4. lock[Needs(r)] \in Requests
  BY <1>1, <1>2, <1>3 DEF TypeOK
<1>5. Open(lock[Needs(r)])
  <2>1. Needs(r) \in Updated(lock[Needs(r)])
    BY <1>3, <1>4 DEF WaitInv, LocksOfUpdates
  <2> QED
    BY <2>1 DEF Updated, Open
<1> QED
  BY <1>1, <1>3, <1>4, <1>5 DEF Waiting

\* For every number of requests and memories: whoever waits, waits for a
\* request that is open, and a set of requests that wait for each other
\* contains a cycle, which the database finds and ends.
THEOREM NoneIsStuck == Spec => []NobodyStuck
<1>1. WaitInv => NobodyStuck
  <2> SUFFICES ASSUME WaitInv,
                      NEW S \in SUBSET {r \in Requests : Open(r) /\ ~CanProceed(r)},
                      S # {}, {lock[Needs(r)] : r \in S} \subseteq S
               PROVE  S \cap Deadlocked # {}
    BY OwnerIsOpen DEF NobodyStuck
  <2> DEFINE f == [r \in Requests |-> lock[Needs(r)]]
  <2>0. \A C \in SUBSET S : PointedAt(f, C) = {lock[Needs(r)] : r \in C}
    BY DEF PointedAt
  <2>1. S # {} /\ PointedAt(f, S) \subseteq S
    BY <2>0
  <2>2. IsFiniteSet(PointedAt(f, S))
    <3>1. PointedAt(f, S) \subseteq {lock[m] : m \in Memories}
      BY <2>0, OwnerIsOpen
    <3>2. IsFiniteSet({lock[m] : m \in Memories})
      BY ConstantsAssumption, FiniteImage
    <3> QED
      BY <3>1, <3>2, FS_Subset
  <2>3. PICK C \in SUBSET S : C # {} /\ C = PointedAt(f, C)
    <3> HIDE DEF f
    <3> QED
      BY <2>1, <2>2, ClosedHasCycle
  <2>4. C = {lock[Needs(r)] : r \in C}
    BY <2>0, <2>3
  <2>5. C \in SUBSET {r \in Requests : Waiting(r)}
    BY <2>3, OwnerIsOpen
  <2>6. C \subseteq Deadlocked
    BY <2>4, <2>5 DEF Deadlocked
  <2> QED
    BY <2>3, <2>6
<1> QED
  BY <1>1, WaitInvariant, PTL

\* A request's own steps bring it nearer to its end, and those of others do
\* not touch it.
LEMMA StepCounts ==
  ASSUME WaitInv, [Next]_vars, NEW r \in Requests, Open(r)
  PROVE  /\ StepsLeft(r) \in Nat \ {0}
         /\ StepsLeft(r)' < StepsLeft(r)
            \/ UNCHANGED <<pc[r], target[r], verdict[r], listed[r], counted[r]>>
<1>1. /\ ReviewInv /\ TypeOK
      /\ pc[r] = "counting" => /\ counted[r] \in Nat /\ Len(listed[r]) \in Nat
                               /\ counted[r] < Len(listed[r])
  BY DEF WaitInv, ReviewInv, TypeOK, CountingOK
<1>2. StepsLeft(r) \in Nat \ {0}
  BY <1>1 DEF StepsLeft, Open
<1>3. ASSUME pc'[r] \in {"done", "failed"}
      PROVE  StepsLeft(r)' < StepsLeft(r)
  BY <1>2, <1>3 DEF StepsLeft
<1>4. ASSUME Proceed(r) \/ Fail(r) \/ BreakDeadlock(r)
      PROVE  StepsLeft(r)' < StepsLeft(r)
  <2>1. CASE UpdateStatus(r)
    BY <1>1, <2>1 DEF UpdateStatus, Goto, TypeOK, StepsLeft
  <2>2. CASE CountNext(r)
    <3>1. /\ pc[r] = "counting" /\ counted'[r] = counted[r] + 1 /\ listed'[r] = listed[r]
          /\ pc'[r] = IF counted[r] + 1 = Len(listed[r]) THEN "counted" ELSE "counting"
      BY <1>1, <2>2 DEF CountNext, Goto, TypeOK
    <3> QED
      BY <1>1, <3>1 DEF StepsLeft
  <2>3. CASE CommitStatus(r) \/ CommitCounts(r) \/ Fail(r) \/ BreakDeadlock(r)
    <3>1. pc'[r] \in {"done", "failed"}
      BY <1>1, <2>3 DEF CommitStatus, CommitCounts, Fail, BreakDeadlock, Abort, Goto, TypeOK
    <3> QED
      BY <1>3, <3>1
  <2> QED
    BY <1>4, <2>1, <2>2, <2>3 DEF Proceed
<1>5. ASSUME NEW s \in Requests, s # r, Start(s) \/ Proceed(s) \/ Fail(s) \/ BreakDeadlock(s)
      PROVE  UNCHANGED <<pc[r], target[r], verdict[r], listed[r], counted[r]>>
  <2>1. r \in Requests \ {s}
    BY <1>5
  <2> QED
    BY <1>1, <1>5, <2>1, RequestFrame, LockFrame
<1>6. ~Start(r)
  BY DEF Start, CheckDecide, CheckForget, Select, Open
<1>7. ASSUME NEW m \in Memories, RememberThis(m) \/ ImportMemory(m)
      PROVE  UNCHANGED <<pc[r], target[r], verdict[r], listed[r], counted[r]>>
  BY <1>7 DEF RememberThis, ImportMemory, Store
<1>8. CASE UNCHANGED vars
  BY <1>2, <1>8 DEF vars
<1> QED
  BY <1>2, <1>4, <1>5, <1>6, <1>7, <1>8 DEF Next

\* For every number of requests and memories: no request loops, and none is
\* set back by another, so that its end is a bounded number of its steps away.
THEOREM StepsCount == Spec => EachStepCounts
<1>1. WaitInv /\ [Next]_vars =>
        [ \A r \in Requests : Open(r) =>
            /\ StepsLeft(r) \in Nat \ {0}
            /\ StepsLeft(r)' < StepsLeft(r)
               \/ UNCHANGED <<pc[r], target[r], verdict[r], listed[r], counted[r]>> ]_vars
  BY StepCounts
<1> QED
  BY <1>1, WaitInvariant, PTL DEF Spec, EachStepCounts

---------------------------------------------------------------------------
(* The refinement of MemoryBook.                                           *)

\* A step of a request approves what it commits as confirmed, nothing else.
LEMMA ApprovedChanges ==
  ASSUME ReviewInv, CountsByRecall, NEW r \in Requests,
         Start(r) \/ Proceed(r) \/ Fail(r) \/ BreakDeadlock(r), NEW m
  PROVE  Confirmed(m)' <=> \/ Confirmed(m)
                           \/ /\ CommitStatus(r) /\ r \in Decides
                              /\ m = target[r] /\ verdict[r] = "confirmed"
<1>1. CASE CommitStatus(r)
  <2>1. pc'[r] = "done" /\ pc[r] = "written" /\ target' = target /\ verdict' = verdict
    BY <1>1, CommitStatusEffect DEF CommitStatus
  <2>2. \A s \in Requests \ {r} : pc'[s] = pc[s]
    BY RequestFrame
  <2> QED
    BY <1>1, <2>1, <2>2 DEF Confirmed, Requests
<1>2. CASE ~CommitStatus(r)
  <2>1. r \in Decides => pc'[r] # "done"
    <3>1. CASE CommitCounts(r)
      BY <3>1, ConstantsAssumption DEF CommitCounts, CountsByRecall
    <3>2. CASE ~CommitCounts(r)
      BY <1>2, <3>2, RequestFrame DEF Start, Proceed, CheckDecide, CheckForget, Select,
         UpdateStatus, CountNext, Fail, BreakDeadlock, Abort, Goto, ReviewInv, TypeOK
    <3> QED
      BY <3>1, <3>2
  <2>2. /\ pc[r] # "done"
        /\ \A s \in Requests \ {r} :
             pc'[s] = pc[s] /\ target'[s] = target[s] /\ verdict'[s] = verdict[s]
    BY RequestFrame
  <2> QED
    BY <1>2, <2>1, <2>2 DEF Confirmed, Requests
<1> QED
  BY <1>1, <1>2

\* The commit of a decide or a forget is the abstract one.
LEMMA CommitStatusActs ==
  ASSUME WaitInv, NEW r \in Requests, CommitStatus(r)
  PROVE  Book!Next
<1> DEFINE m == target[r]
           v == verdict[r]
<1>1. ReviewInv /\ CountsByRecall /\ Proceed(r)
  BY DEF WaitInv, Proceed
<1>2. \A x : Confirmed(x)' <=> \/ Confirmed(x)
                               \/ r \in Decides /\ x = m /\ v = "confirmed"
  BY <1>1, ApprovedChanges
<1>3. /\ m \in Memories
      /\ status' = [status EXCEPT ![m] = v]
      /\ status[m] # "absent"
      /\ \/ r \in Decides /\ m \in held /\ v \in {"confirmed", "rejected"}
         \/ r \in Forgets /\ v = "forgotten"
      /\ held' = held
  BY <1>1, CommitStatusEffect
<1>4. recallCount' = recallCount
  BY DEF CommitStatus
<1> HIDE DEF m, v
<1>5. CASE r \in Decides
  <2>1. m \in held /\ v \in {"confirmed", "rejected"}
    BY <1>3, <1>5, ConstantsAssumption
  <2>2. {x \in Memories : Confirmed(x)'}
          = IF v = "confirmed" THEN {x \in Memories : Confirmed(x)} \cup {m}
            ELSE {x \in Memories : Confirmed(x)}
    BY <1>2, <1>3, <1>5
  <2>3. Book!Decide(m, v)
    BY <1>3, <1>4, <2>1, <2>2 DEF Book!Decide
  <2> QED
    BY <1>3, <2>1, <2>3 DEF Book!Next
<1>6. CASE r \notin Decides
  <2>1. {x \in Memories : Confirmed(x)'} = {x \in Memories : Confirmed(x)}
    BY <1>2, <1>6
  <2>2. Book!Forget(m)
    BY <1>3, <1>4, <1>6, <2>1 DEF Book!Forget
  <2> QED
    BY <1>3, <2>2 DEF Book!Next
<1> QED
  BY <1>5, <1>6

\* The commit of a recall counts its whole answer at once.
LEMMA CommitCountsActs ==
  ASSUME WaitInv, NEW r \in Requests, CommitCounts(r)
  PROVE  Book!Next
<1> DEFINE s == listed[r]
           ms == Ranks(s)
<1>1. ReviewInv /\ CountsByRecall /\ Proceed(r) /\ TypeOK
  BY DEF WaitInv, Proceed, ReviewInv
<1>2. pc[r] = "counted" /\ UNCHANGED <<status, held>>
  BY DEF CommitCounts
<1>3. s \in Seq(Memories) /\ s # <<>> /\ Len(s) <= Limit
  BY <1>1, <1>2 DEF TypeOK, WaitInv, CountingOK, AnswersOK
<1>4. /\ ms \in SUBSET Memories
      /\ \A m \in ms : status[m] \notin {"absent", "pending"} /\ (m \in held => Confirmed(m))
  BY <1>1 DEF WaitInv, AnswersOK, ReviewInv, ConfirmedByDecide
<1>5. s \in Book!Answers
  <2> DEFINE n == Len(s)
  <2>1. n \in 1..Limit /\ s \in [1..n -> Memories] /\ DOMAIN s = 1..n
    BY <1>3, ConstantsAssumption
  <2>2. \A i, j \in DOMAIN s : s[i] = s[j] => i = j
    BY <2>1 DEF WaitInv, AnswersOK
  <2> HIDE DEF s, n
  <2> QED
    BY <2>1, <2>2 DEF Book!Answers
<1>6. \A x : Confirmed(x)' <=> Confirmed(x)
  <2>1. ~CommitStatus(r)
    BY <1>2 DEF CommitStatus
  <2> QED
    BY <1>1, <2>1, ApprovedChanges
<1>7. recallCount' = [m \in Memories |-> recallCount[m] + (IF m \in ms THEN 1 ELSE 0)]
  BY DEF CommitCounts
<1>8. ms = {s[i] : i \in DOMAIN s}
  BY DEF Ranks
<1> HIDE DEF ms, s
<1>9. Book!Recall(s)
  BY <1>2, <1>4, <1>6, <1>7, <1>8 DEF Book!Recall
<1> QED
  BY <1>5, <1>9 DEF Book!Next

\* A step of the service is one of the abstract book, or leaves it alone.
LEMMA StepActs == WaitInv /\ [Next]_vars => [Book!Next]_(Book!book)
<1> SUFFICES ASSUME WaitInv, [Next]_vars
             PROVE  Book!Next \/ UNCHANGED Book!book
  OBVIOUS
<1>0. ReviewInv /\ CountsByRecall /\ TypeOK
  BY DEF WaitInv, ReviewInv
<1>1. CASE UNCHANGED vars
  <2>1. \A x : Confirmed(x)' <=> Confirmed(x)
    BY <1>1 DEF vars, Confirmed
  <2> QED
    BY <1>1, <2>1 DEF vars, Book!book
<1>2. ASSUME NEW m \in Memories, NEW st \in Statuses, Store(m, st)
      PROVE  Book!Next
  <2>1. \A x : Confirmed(x)' <=> Confirmed(x)
    BY <1>2 DEF Store, Confirmed
  <2>2. Book!Store(m, st)
    BY <1>2, <2>1 DEF Store, Book!Store
  <2> QED
    BY <2>2 DEF Book!Next, Statuses, Book!Statuses
<1>3. ASSUME NEW r \in Requests, Start(r) \/ Proceed(r) \/ Fail(r) \/ BreakDeadlock(r),
             ~CommitStatus(r), ~CommitCounts(r)
      PROVE  UNCHANGED Book!book
  <2>1. \A x : Confirmed(x)' <=> Confirmed(x)
    BY <1>0, <1>3, ApprovedChanges
  <2>2. UNCHANGED <<status, held>>
    BY <1>0, <1>3, RequestFrame
  <2>3. UNCHANGED recallCount
    BY <1>3 DEF Start, Proceed, CheckDecide, CheckForget, Select, UpdateStatus, CountNext,
       Fail, BreakDeadlock, Abort
  <2> QED
    BY <2>1, <2>2, <2>3 DEF Book!book
<1> QED
  BY <1>1, <1>2, <1>3, CommitStatusActs, CommitCountsActs
  DEF Next, RememberThis, ImportMemory, Statuses

\* For every number of requests and memories: however their statements
\* interleave, each request takes effect at once, when it commits.
THEOREM ReviewsActAtOnce == Spec => ActsAtOnce
<1>1. Init => Book!Init
  BY DEF Init, Book!Init, Confirmed, Requests
<1> QED
  BY <1>1, StepActs, WaitInvariant, PTL DEF Spec, ActsAtOnce, Book!Spec

=============================================================================
