-------------------------- MODULE FactStoreProofs --------------------------
(***************************************************************************)
(* Proofs about FactStore for every set of entries, of requests and of     *)
(* lists that imports bring, whatever the order in which they lock.        *)
(***************************************************************************)
EXTENDS FactStore, TLAPS

\* The invariant, of one request.
Holds(r) == StageOK(r) /\ ForgetHolds(r) /\ DraftsOffered(r) /\ MergedSoFar(r) /\ SkipsSettled(r)

\* What a step of r leaves to the other requests.
Frame(r) ==
  /\ target' = target
  /\ \A q \in Requests \ {r} : /\ pc'[q] = pc[q]
                               /\ bundle'[q] = bundle[q]
                               /\ at'[q] = at[q]
                               /\ skip'[q] = skip[q]
  /\ \A k \in Keys : /\ lock[k] \notin {r, Nobody} => lock'[k] = lock[k] /\ draft'[k] = draft[k]
                     /\ lock'[k] = lock[k] \/ lock'[k] \in {r, Nobody}
                     /\ rows'[k] = rows[k] \/ (lock[k] = r /\ rows'[k] # NoRow)
  /\ \A q \in Imports \ {r} :
       /\ fresh[q] \subseteq fresh'[q]
       /\ \A k \in Keys : Writing(q) /\ Live(rows'[k]) /\ ~Live(rows[k]) => k \in fresh'[q]

\* A member of a sequence is one of its set.
LEMMA MemberType ==
  ASSUME NEW S, NEW s \in Seq(S), NEW i \in 1..Len(s)
  PROVE  s[i] \in S
  BY SMT

\* Every list is one of entries with rows.
LEMMA ListsOfRows ==
  ASSUME NEW b \in Bundles \cup {<<>>}
  PROVE  b \in Seq([key : Keys, row : Row])
<1>1. CASE b \in Manifests
  BY <1>1, ConstantsAssumption, Zenon
<1>2. CASE b = <<>>
  BY <1>2
<1>3. CASE \E k \in Keys, v \in Values : b = Single(k, v)
  <2>1. PICK k \in Keys, v \in Values : b = Single(k, v)
    BY <1>3
  <2> DEFINE e == [key |-> k, row |-> Active(v)]
  <2>2. e \in [key : Keys, row : Row]
    BY DEF Active, Row
  <2> HIDE DEF e
  <2>3. <<e>> \in Seq([key : Keys, row : Row])
    BY <2>2
  <2> QED
    BY <2>1, <2>3, Zenon DEF Single, e
<1> QED
  BY <1>1, <1>2, <1>3 DEF Bundles

\* The next entry of a list is an entry, with a row.
LEMMA EntryType ==
  ASSUME TypeOK, NEW r \in Requests, HasNext(r)
  PROVE  Entry(r).key \in Keys /\ Entry(r).row \in Row
<1>1. bundle[r] \in Bundles \cup {<<>>} /\ at[r] \in 1..Len(bundle[r])
  BY DEF TypeOK, HasNext
<1>2. bundle[r][at[r]] \in [key : Keys, row : Row]
  BY <1>1, ListsOfRows, MemberType
<1> QED
  BY <1>2 DEF Entry

\* A write takes the lock of its row and drafts it.
LEMMA WriteFacts ==
  ASSUME TypeOK, NEW r \in Requests, NEW k \in Keys, NEW row \in Row, Write(r, k, row)
  PROVE  /\ lock[k] \in {Nobody, r} /\ lock'[k] = r /\ draft'[k] = row
         /\ \A x \in Keys \ {k} : lock'[x] = lock[x] /\ draft'[x] = draft[x]
         /\ lock' \in [Keys -> Requests \cup {Nobody}]
         /\ draft' \in [Keys -> Row \cup {NoRow}]
  BY DEF Write, TypeOK

\* The end of a transaction frees its rows and no others.
LEMMA ReleaseFacts ==
  ASSUME TypeOK, NEW r \in Requests, Release(r)
  PROVE  /\ \A x \in Keys : IF lock[x] = r THEN lock'[x] = Nobody /\ draft'[x] = NoRow
                            ELSE lock'[x] = lock[x] /\ draft'[x] = draft[x]
         /\ lock' \in [Keys -> Requests \cup {Nobody}]
         /\ draft' \in [Keys -> Row \cup {NoRow}]
  BY DEF Release, TypeOK

\* A row that is written is none that was never written.
LEMMA RowIsSome ==
  ASSUME NEW row \in Row
  PROVE  row # NoRow
  BY ConstantsAssumption

\* What holds of a request survives the steps of the others.
LEMMA FrameKeeps ==
  ASSUME StoreInv, NEW r \in Requests, Frame(r), NEW q \in Requests \ {r}
  PROVE  Holds(q)'
<1>1. /\ pc'[q] = pc[q] /\ bundle'[q] = bundle[q] /\ at'[q] = at[q] /\ skip'[q] = skip[q]
      /\ target' = target
      /\ q # Nobody /\ lock \in [Keys -> Requests \cup {Nobody}]
  BY ConstantsAssumption DEF Frame, StoreInv, TypeOK
<1>2. Mine(q)' = Mine(q) /\ \A k \in Mine(q) : draft'[k] = draft[k] /\ rows'[k] = rows[k]
  BY <1>1 DEF Frame, Mine
<1>3. Entry(q)' = Entry(q) /\ Writing(q)' = Writing(q)
  BY <1>1 DEF Entry, Writing
<1>4. /\ StageOK(q) /\ ForgetHolds(q) /\ DraftsOffered(q) /\ MergedSoFar(q) /\ SkipsSettled(q)
  BY DEF StoreInv
<1>5. StageOK(q)'
  BY <1>1, <1>3, <1>4 DEF StageOK
<1>6. ForgetHolds(q)'
  <2>1. q \notin Forgets => pc[q] \notin {"found", "written"}
    BY <1>4 DEF StageOK
  <2>2. q \in Forgets => target[q] \in Keys
    BY DEF StoreInv, TypeOK
  <2>3. CASE pc[q] = "found"
    <3>1. rows'[target[q]] # NoRow
      BY <1>4, <2>1, <2>2, <2>3 DEF ForgetHolds, Frame
    <3> QED
      BY <1>1, <1>2, <1>4, <2>3, <3>1 DEF ForgetHolds
  <2>4. CASE pc[q] # "found"
    BY <1>1, <1>2, <1>4, <2>4 DEF ForgetHolds
  <2> QED
    BY <2>3, <2>4
<1>7. DraftsOffered(q)'
  BY <1>1, <1>2, <1>4 DEF DraftsOffered, Store!Offers
<1>8. MergedSoFar(q)'
  <2> SUFFICES ASSUME q \notin Forgets, Writing(q), NEW i \in 1..(at[q] - 1)
               PROVE  LET k == bundle[q][i].key
                      IN  \/ k \in Mine(q)
                          \/ skip[q] /\ (k \in Properties \/ rows'[k] # NoRow)
    BY <1>1, <1>2, <1>3 DEF MergedSoFar
  <2> DEFINE k == bundle[q][i].key
  <2>1. k \in Mine(q) \/ (skip[q] /\ (k \in Properties \/ rows[k] # NoRow))
    BY <1>4 DEF MergedSoFar
  <2>2. k \in Keys
    <3>1. bundle[q] \in Seq([key : Keys, row : Row])
      BY ListsOfRows DEF StoreInv, TypeOK
    <3>2. at[q] \in 1..(Len(bundle[q]) + 1) /\ Len(bundle[q]) \in Nat
      BY <3>1 DEF StoreInv, TypeOK
    <3>3. i \in 1..Len(bundle[q])
      BY <3>2
    <3>4. bundle[q][i] \in [key : Keys, row : Row]
      BY <3>1, <3>3, MemberType
    <3> QED
      BY <3>4
  <2> HIDE DEF k
  <2>3. rows[k] # NoRow => rows'[k] # NoRow
    BY <2>2 DEF Frame
  <2> QED
    BY <2>1, <2>3 DEF k
<1>9. SkipsSettled(q)'
  <2> SUFFICES ASSUME skip[q]
               PROVE  SkipsSettled(q)'
    BY <1>1 DEF SkipsSettled
  <2>1. q \in Imports /\ fresh[q] \subseteq fresh'[q]
    BY <1>4 DEF StageOK, Frame
  <2>2. \A k \in Facts \cap Mine(q) : rows'[k] = NoRow
    BY <1>2, <1>4 DEF SkipsSettled
  <2>3. \A k \in Properties \cap Mine(q) : Live(rows'[k]) => k \in fresh'[q]
    BY <1>2, <1>4, <2>1 DEF SkipsSettled
  <2>4. ASSUME pc[q] = "absent", Live(rows'[Entry(q).key])
        PROVE  Entry(q).key \in fresh'[q]
    <3>1. Entry(q).key \in Keys
      BY <1>4, <2>4 DEF StageOK, Keys
    <3>2. CASE Live(rows[Entry(q).key])
      BY <1>4, <2>1, <2>4, <3>2 DEF SkipsSettled
    <3>3. CASE ~Live(rows[Entry(q).key])
      BY <2>1, <2>4, <3>1, <3>3 DEF Frame, Writing
    <3> QED
      BY <3>2, <3>3
  <2> QED
    BY <1>1, <1>2, <1>3, <2>2, <2>3, <2>4 DEF SkipsSettled, Live
<1> QED
  BY <1>5, <1>6, <1>7, <1>8, <1>9 DEF Holds

\* A request begins with a list, before its first entry.
LEMMA StartKeeps ==
  ASSUME StoreInv, NEW r \in Requests, StartSet(r) \/ StartImport(r)
  PROVE  TypeOK' /\ Frame(r) /\ Holds(r)'
<1>1. /\ pc[r] = "idle" /\ r \notin Forgets /\ at[r] = 1
      /\ pc' = [pc EXCEPT ![r] = "merging"]
      /\ UNCHANGED <<rows, draft, lock, at, target, fresh>>
  BY ConstantsAssumption DEF StartSet, StartImport, Goto, StoreInv, StageOK
<1>2. PICK b \in Bundles, mode \in BOOLEAN :
        /\ bundle' = [bundle EXCEPT ![r] = b]
        /\ skip' = [skip EXCEPT ![r] = mode]
        /\ mode => r \in Imports
  <2>1. CASE StartSet(r)
    <3>1. PICK k \in Keys, v \in Values : bundle' = [bundle EXCEPT ![r] = Single(k, v)]
      BY <2>1 DEF StartSet
    <3>2. Single(k, v) \in Bundles
      BY DEF Bundles
    <3>3. skip' = [skip EXCEPT ![r] = skip[r]] /\ skip[r] \in BOOLEAN
      BY <2>1 DEF StartSet, StoreInv, TypeOK
    <3>4. skip[r] => r \in Imports
      BY DEF StoreInv, StageOK
    <3> QED
      BY <3>1, <3>2, <3>3, <3>4
  <2>2. CASE StartImport(r)
    <3>1. PICK b \in Manifests : bundle' = [bundle EXCEPT ![r] = b]
      BY <2>2 DEF StartImport
    <3>2. PICK mode \in BOOLEAN : skip' = [skip EXCEPT ![r] = mode]
      BY <2>2 DEF StartImport
    <3>3. r \in Imports /\ b \in Bundles
      BY <2>2 DEF StartImport, Bundles
    <3> QED
      BY <3>1, <3>2, <3>3, Zenon
  <2> QED
    BY <2>1, <2>2
<1>3. Mine(r) = {}
  BY <1>1, ConstantsAssumption DEF StoreInv, TypeOK, LocksHeld, Mine, Writing
<1>4. TypeOK'
  <2>1. LocksHeld'
    BY <1>1 DEF StoreInv, TypeOK, LocksHeld, Writing
  <2>2. Len(b) \in Nat
    <3>1. b \in Seq([key : Keys, row : Row])
      BY ListsOfRows
    <3> QED
      BY <3>1
  <2>3. \A q \in Requests : at'[q] \in 1..(Len(bundle'[q]) + 1)
    <3> SUFFICES ASSUME NEW q \in Requests
                 PROVE  at'[q] \in 1..(Len(bundle'[q]) + 1)
      OBVIOUS
    <3>1. CASE q = r
      BY <1>1, <1>2, <2>2, <3>1 DEF StoreInv, TypeOK
    <3>2. CASE q # r
      BY <1>1, <1>2, <3>2 DEF StoreInv, TypeOK
    <3> QED
      BY <3>1, <3>2
  <2>4. bundle' \in [Requests -> Bundles \cup {<<>>}] /\ skip' \in [Requests -> BOOLEAN]
    BY <1>2 DEF StoreInv, TypeOK
  <2> QED
    BY <1>1, <2>1, <2>3, <2>4 DEF StoreInv, TypeOK
<1>5. Frame(r)
  BY <1>1, <1>2 DEF Frame, StoreInv, TypeOK
<1>6. pc'[r] = "merging" /\ at'[r] = 1 /\ bundle'[r] = b /\ skip'[r] = mode /\ Mine(r)' = {}
  BY <1>1, <1>2, <1>3 DEF StoreInv, TypeOK, Mine
<1>7. StageOK(r)' /\ ForgetHolds(r)' /\ DraftsOffered(r)'
  BY <1>1, <1>2, <1>6 DEF StageOK, ForgetHolds, DraftsOffered
<1>8. MergedSoFar(r)' /\ SkipsSettled(r)'
  BY <1>6 DEF MergedSoFar, SkipsSettled
<1> QED
  BY <1>4, <1>5, <1>7, <1>8 DEF Holds

\* An entry written, or passed over, extends what a merge has been through.
LEMMA EntryKeeps ==
  ASSUME StoreInv, NEW r \in Requests, HasNext(r), Advance(r),
         UNCHANGED <<rows, input, target, fresh>>,
         \/ /\ Write(r, Entry(r).key, Entry(r).row)
            /\ skip[r] => IF Entry(r).key \in Facts THEN rows[Entry(r).key] = NoRow
                          ELSE Live(rows[Entry(r).key]) => Entry(r).key \in fresh[r]
         \/ /\ UNCHANGED <<draft, lock>>
            /\ skip[r]
            /\ Entry(r).key \in Mine(r) \cup Properties \/ rows[Entry(r).key] # NoRow
  PROVE  TypeOK' /\ Frame(r) /\ Holds(r)'
<1> DEFINE k == Entry(r).key
           row == Entry(r).row
<1>1. k \in Keys /\ row \in Row /\ row # NoRow
  BY EntryType, RowIsSome DEF StoreInv
<1>2. /\ pc[r] \in {"merging", "absent"} /\ r \notin Forgets /\ r # Nobody
      /\ bundle[r] \in Bundles /\ at[r] \in 1..Len(bundle[r]) /\ Len(bundle[r]) \in Nat
      /\ pc' = [pc EXCEPT ![r] = "merging"] /\ at' = [at EXCEPT ![r] = @ + 1]
      /\ bundle' = bundle /\ skip' = skip
  <2>1. pc[r] \in {"merging", "absent"} /\ r \notin Forgets /\ r # Nobody
    BY ConstantsAssumption DEF HasNext, StoreInv, StageOK
  <2>2. bundle[r] \in Bundles
    BY <2>1 DEF StoreInv, StageOK, Writing
  <2>3. Len(bundle[r]) \in Nat
    BY <2>2, ListsOfRows
  <2> QED
    BY <2>1, <2>2, <2>3 DEF HasNext, StoreInv, TypeOK, Advance, Goto, input
<1>3. /\ lock' \in [Keys -> Requests \cup {Nobody}] /\ draft' \in [Keys -> Row \cup {NoRow}]
      /\ \A x \in Keys : \/ lock'[x] = lock[x] /\ draft'[x] = draft[x]
                         \/ /\ x = k /\ lock[k] \in {Nobody, r} /\ lock'[k] = r
                            /\ draft'[k] = row
  BY <1>1, WriteFacts DEF StoreInv, TypeOK
<1>4. /\ k \in Mine(r)' \/ (skip[r] /\ (k \in Properties \/ rows[k] # NoRow))
      /\ \A x \in Mine(r)' \ Mine(r) :
           /\ x = k
           /\ skip[r] => IF k \in Facts THEN rows[k] = NoRow
                         ELSE Live(rows[k]) => k \in fresh[r]
  BY <1>1, WriteFacts DEF StoreInv, Mine
<1>5. Mine(r) \subseteq Mine(r)'
  BY <1>3 DEF Mine
<1> HIDE DEF k, row
<1>6. TypeOK'
  <2>1. LocksHeld'
    BY <1>1, <1>2, <1>3 DEF StoreInv, TypeOK, LocksHeld, Writing
  <2>2. \A q \in Requests : at'[q] \in 1..(Len(bundle'[q]) + 1)
    BY <1>2 DEF StoreInv, TypeOK
  <2> QED
    BY <1>2, <1>3, <2>1, <2>2 DEF StoreInv, TypeOK
<1>7. Frame(r)
  BY <1>2, <1>3 DEF Frame, StoreInv, TypeOK
<1>8. pc'[r] = "merging" /\ at'[r] = at[r] + 1
  BY <1>2 DEF StoreInv, TypeOK
<1>9. StageOK(r)' /\ ForgetHolds(r)'
  BY <1>2, <1>8 DEF StageOK, ForgetHolds, StoreInv
<1>10. DraftsOffered(r)'
  <2> SUFFICES ASSUME NEW x \in Mine(r)'
               PROVE  draft'[x] \in Store!Offers(bundle[r], x)
    BY <1>2 DEF DraftsOffered
  <2>1. CASE draft'[x] = draft[x] /\ x \in Mine(r)
    BY <1>2, <2>1 DEF StoreInv, DraftsOffered
  <2>2. CASE x = k /\ draft'[x] = row
    BY <1>2, <2>2 DEF Store!Offers, Entry, k, row
  <2> QED
    BY <1>3, <2>1, <2>2 DEF Mine
<1>11. MergedSoFar(r)'
  <2> SUFFICES ASSUME NEW i \in 1..at[r]
               PROVE  LET x == bundle[r][i].key
                      IN  \/ x \in Mine(r)'
                          \/ skip[r] /\ (x \in Properties \/ rows[x] # NoRow)
    BY <1>2, <1>8 DEF MergedSoFar
  <2>1. CASE i = at[r]
    BY <1>4, <2>1 DEF Entry, k
  <2>2. CASE i # at[r]
    <3>1. i \in 1..(at[r] - 1)
      BY <1>2, <2>2
    <3> QED
      BY <1>2, <1>5, <3>1 DEF StoreInv, MergedSoFar, Writing
  <2> QED
    BY <2>1, <2>2
<1>12. SkipsSettled(r)'
  <2> SUFFICES ASSUME skip[r]
               PROVE  /\ \A x \in Facts \cap Mine(r)' : rows[x] = NoRow
                      /\ \A x \in Properties \cap Mine(r)' : Live(rows[x]) => x \in fresh[r]
    BY <1>2, <1>8 DEF SkipsSettled, Live
  <2> QED
    BY <1>4, ConstantsAssumption DEF StoreInv, SkipsSettled
<1> QED
  BY <1>6, <1>7, <1>9, <1>10, <1>11, <1>12 DEF Holds

\* The three ways to take the next entry, and the check before the third.
LEMMA MergeKeeps ==
  ASSUME StoreInv, NEW r \in Requests, Upsert(r) \/ InsertFact(r) \/ CheckProperty(r)
  PROVE  TypeOK' /\ Frame(r) /\ Holds(r)'
<1> DEFINE k == Entry(r).key
<1>1. HasNext(r) /\ UNCHANGED <<rows, input, target, fresh>>
  BY DEF Upsert, InsertFact, CheckProperty
<1>2. k \in Keys
  BY <1>1, EntryType DEF StoreInv
<1>3. draft[k] # NoRow <=> lock[k] # Nobody
  BY <1>2 DEF StoreInv, TypeOK, LocksHeld
<1>4. SkipsSettled(r) /\ r # Nobody
  BY ConstantsAssumption DEF StoreInv
<1>5. CASE Upsert(r)
  <2>1. Advance(r) /\ Write(r, k, Entry(r).row) /\ (~skip[r] \/ pc[r] = "absent")
    BY <1>5 DEF Upsert
  <2>2. skip[r] => IF k \in Facts THEN rows[k] = NoRow ELSE Live(rows[k]) => k \in fresh[r]
    BY <1>4, <2>1, ConstantsAssumption DEF SkipsSettled, StoreInv, StageOK
  <2> QED
    BY <1>1, <2>1, <2>2, EntryKeeps
<1>6. CASE InsertFact(r)
  <2>1. Advance(r) /\ skip[r] /\ k \in Facts
    BY <1>6 DEF InsertFact
  <2>2. CASE Seen(r, k) = NoRow
    <3>1. Write(r, k, Entry(r).row)
      BY <1>6, <2>2 DEF InsertFact
    <3>2. rows[k] = NoRow
      BY <1>3, <1>4, <2>2 DEF Seen
    <3> QED
      BY <1>1, <2>1, <3>1, <3>2, EntryKeeps
  <2>3. CASE Seen(r, k) # NoRow
    <3>1. UNCHANGED <<draft, lock>>
      BY <1>6, <2>3 DEF InsertFact
    <3>2. k \in Mine(r) \/ rows[k] # NoRow
      BY <1>2, <2>3 DEF Seen, Mine
    <3> QED
      BY <1>1, <2>1, <3>1, <3>2, EntryKeeps
  <2> QED
    BY <2>2, <2>3
<1>7. CASE CheckProperty(r) /\ Live(Seen(r, k))
  <2>1. Advance(r) /\ UNCHANGED <<draft, lock>> /\ skip[r] /\ k \in Properties
    BY <1>7 DEF CheckProperty
  <2> QED
    BY <1>1, <2>1, EntryKeeps
<1>8. CASE CheckProperty(r) /\ ~Live(Seen(r, k))
  <2>1. /\ pc[r] = "merging" /\ pc' = [pc EXCEPT ![r] = "absent"]
        /\ skip[r] /\ k \in Properties
        /\ UNCHANGED <<rows, draft, lock, bundle, skip, at, target, fresh>>
    BY <1>8 DEF CheckProperty, Goto, input
  <2>2. TypeOK'
    <3>1. LocksHeld'
      BY <2>1 DEF StoreInv, TypeOK, LocksHeld, Writing
    <3> QED
      BY <2>1, <3>1 DEF StoreInv, TypeOK
  <2>3. Frame(r)
    BY <2>1 DEF Frame, StoreInv, TypeOK
  <2>4. Live(rows[k]) => k \in fresh[r]
    <3>1. CASE lock[k] = r
      BY <1>2, <1>4, <2>1, <3>1 DEF SkipsSettled, Mine
    <3>2. CASE lock[k] # r
      BY <1>8, <3>2 DEF Seen
    <3> QED
      BY <3>1, <3>2
  <2>5. pc'[r] = "absent" /\ Mine(r)' = Mine(r) /\ Entry(r)' = Entry(r)
    BY <2>1 DEF StoreInv, TypeOK, Mine, Entry
  <2>6. StageOK(r)' /\ ForgetHolds(r)' /\ DraftsOffered(r)' /\ MergedSoFar(r)'
    BY <1>1, <2>1, <2>5 DEF StoreInv, StageOK, ForgetHolds, DraftsOffered, MergedSoFar,
       Writing, HasNext
  <2>7. SkipsSettled(r)'
    BY <1>4, <2>1, <2>4, <2>5 DEF SkipsSettled, Live
  <2> QED
    BY <2>2, <2>3, <2>6, <2>7 DEF Holds
<1> QED
  BY <1>5, <1>6, <1>7, <1>8

\* A forget finds an active row, or none.
LEMMA CheckActiveKeeps ==
  ASSUME StoreInv, NEW r \in Requests, CheckActive(r)
  PROVE  TypeOK' /\ Frame(r) /\ Holds(r)'
<1>1. /\ r \in Forgets /\ pc[r] = "idle" /\ r # Nobody /\ ~skip[r]
      /\ UNCHANGED <<rows, draft, lock, bundle, skip, at, target, fresh>>
  BY ConstantsAssumption DEF CheckActive, input, StoreInv, StageOK
<1>2. PICK label \in {"found", "missing"} :
        /\ pc' = [pc EXCEPT ![r] = label]
        /\ label = "found" => Live(rows[target[r]])
  BY DEF CheckActive, Goto
<1>3. Mine(r) = {} /\ Mine(r)' = {}
  BY <1>1, ConstantsAssumption DEF StoreInv, TypeOK, LocksHeld, Mine, Writing
<1>4. TypeOK'
  <2>1. LocksHeld'
    BY <1>1, <1>2, <1>3 DEF StoreInv, TypeOK, LocksHeld, Writing
  <2> QED
    BY <1>1, <1>2, <2>1 DEF StoreInv, TypeOK
<1>5. Frame(r)
  BY <1>1, <1>2 DEF Frame, StoreInv, TypeOK
<1>6. pc'[r] = label
  BY <1>2 DEF StoreInv, TypeOK
<1> QED
  BY <1>1, <1>2, <1>3, <1>4, <1>5, <1>6 DEF Holds, StageOK, ForgetHolds, DraftsOffered,
     MergedSoFar, SkipsSettled, Live

\* A forget writes the row that is there, even if it is not the one it found.
LEMMA DeleteKeeps ==
  ASSUME StoreInv, NEW r \in Requests, Delete(r)
  PROVE  TypeOK' /\ Frame(r) /\ Holds(r)'
<1> DEFINE k == target[r]
           row == [rows[k] EXCEPT !.status = "deleted"]
<1>1. /\ r \in Forgets /\ pc[r] = "found" /\ ~skip[r] /\ Mine(r) = {} /\ r # Nobody
      /\ k \in Keys /\ rows[k] # NoRow
      /\ pc' = [pc EXCEPT ![r] = "written"]
      /\ UNCHANGED <<rows, bundle, skip, at, target, fresh>>
  BY ConstantsAssumption DEF Delete, Goto, input, StoreInv, TypeOK, StageOK, ForgetHolds
<1>2. row \in Row
  <2>1. rows[k] \in Row
    BY <1>1 DEF StoreInv, TypeOK
  <2> QED
    BY <2>1 DEF Row
<1>3. row = Store!Deleted(rows[k]) /\ row # NoRow
  BY <1>2, RowIsSome DEF Store!Deleted
<1>4. Write(r, k, row)
  BY DEF Delete
<1> HIDE DEF k, row
<1>5. /\ lock[k] \in {Nobody, r} /\ lock'[k] = r /\ draft'[k] = row
      /\ \A x \in Keys \ {k} : lock'[x] = lock[x] /\ draft'[x] = draft[x]
      /\ lock' \in [Keys -> Requests \cup {Nobody}]
      /\ draft' \in [Keys -> Row \cup {NoRow}]
  BY <1>1, <1>2, <1>4, WriteFacts DEF StoreInv
<1>6. pc'[r] = "written" /\ Mine(r)' = {k}
  BY <1>1, <1>5 DEF StoreInv, TypeOK, Mine
<1>7. TypeOK'
  <2>1. LocksHeld'
    BY <1>1, <1>3, <1>5 DEF StoreInv, TypeOK, LocksHeld, Writing
  <2> QED
    BY <1>1, <1>5, <2>1 DEF StoreInv, TypeOK
<1>8. Frame(r)
  BY <1>1, <1>5 DEF Frame, StoreInv, TypeOK
<1>9. StageOK(r)' /\ DraftsOffered(r)' /\ MergedSoFar(r)' /\ SkipsSettled(r)'
  BY <1>1, <1>6 DEF StageOK, DraftsOffered, MergedSoFar, SkipsSettled
<1>10. ForgetHolds(r)'
  BY <1>1, <1>3, <1>5, <1>6 DEF ForgetHolds, Store!Deleted, k
<1> QED
  BY <1>7, <1>8, <1>9, <1>10 DEF Holds

\* A request that has ended holds no row, whatever it had written.
LEMMA EndKeeps ==
  ASSUME StoreInv, NEW r \in Requests, Commit(r) \/ Fail(r)
  PROVE  TypeOK' /\ Frame(r) /\ Holds(r)'
<1>1. Writing(r) /\ r # Nobody /\ Release(r) /\ UNCHANGED <<bundle, skip, at, target>>
  BY ConstantsAssumption DEF Commit, Fail, Finished, Writing, input
<1>2. /\ lock' \in [Keys -> Requests \cup {Nobody}] /\ draft' \in [Keys -> Row \cup {NoRow}]
      /\ \A x \in Keys : IF lock[x] = r THEN lock'[x] = Nobody /\ draft'[x] = NoRow
                         ELSE lock'[x] = lock[x] /\ draft'[x] = draft[x]
  BY <1>1, ReleaseFacts DEF StoreInv
<1>3. PICK label \in {"done", "failed"} : pc' = [pc EXCEPT ![r] = label]
  BY DEF Commit, Fail, Goto
<1>4. /\ rows' \in [Keys -> Row \cup {NoRow}]
      /\ \A x \in Keys : rows'[x] = rows[x] \/ (lock[x] = r /\ rows'[x] # NoRow)
      /\ fresh' \in [Imports -> SUBSET Keys]
      /\ \A q \in Imports : fresh[q] \subseteq fresh'[q]
      /\ \A q \in Imports, x \in Keys :
           Writing(q) /\ Live(rows'[x]) /\ ~Live(rows[x]) => x \in fresh'[q]
  <2>1. CASE Commit(r)
    <3>1. /\ rows' = [x \in Keys |-> Seen(r, x)]
          /\ fresh' = [q \in Imports |-> fresh[q] \cup (IF Writing(q) THEN Activates(r) ELSE {})]
      BY <2>1 DEF Commit
    <3>2. \A x \in Keys : rows'[x] = IF lock[x] = r THEN draft[x] ELSE rows[x]
      BY <3>1 DEF Seen
    <3>3. \A x \in Keys : lock[x] = r => draft[x] # NoRow
      BY <1>1 DEF StoreInv, TypeOK, LocksHeld
    <3>4. rows' \in [Keys -> Row \cup {NoRow}]
      BY <3>1, <3>2 DEF StoreInv, TypeOK
    <3>5. Activates(r) \subseteq Keys
      BY DEF Activates, Mine
    <3>6. fresh' \in [Imports -> SUBSET Keys]
      BY <3>1, <3>5 DEF StoreInv, TypeOK
    <3>7. \A x \in Keys : Live(rows'[x]) /\ ~Live(rows[x]) => x \in Activates(r)
      BY <3>2 DEF Activates, Mine
    <3> QED
      BY <3>1, <3>2, <3>3, <3>4, <3>6, <3>7
  <2>2. CASE Fail(r)
    <3>1. UNCHANGED <<rows, fresh>>
      BY <2>2 DEF Fail
    <3> QED
      BY <3>1 DEF StoreInv, TypeOK, Live
  <2> QED
    BY <2>1, <2>2
<1>5. TypeOK'
  <2>1. LocksHeld'
    BY <1>1, <1>2, <1>3 DEF StoreInv, TypeOK, LocksHeld, Writing
  <2> QED
    BY <1>1, <1>2, <1>3, <1>4, <2>1 DEF StoreInv, TypeOK
<1>6. Frame(r)
  BY <1>1, <1>2, <1>3, <1>4 DEF Frame, StoreInv, TypeOK
<1>7. pc'[r] = label /\ Mine(r)' = {}
  BY <1>1, <1>2, <1>3 DEF StoreInv, TypeOK, Mine
<1> QED
  BY <1>1, <1>5, <1>6, <1>7 DEF Holds, StoreInv, StageOK, ForgetHolds, DraftsOffered,
     MergedSoFar, SkipsSettled, Writing

\* In the beginning no request holds a row.
LEMMA InitKeeps == Init => StoreInv
<1> SUFFICES ASSUME Init PROVE StoreInv
  OBVIOUS
<1>1. \A r \in Requests : pc[r] = "idle" /\ at[r] = 1 /\ ~skip[r] /\ Mine(r) = {}
  BY ConstantsAssumption DEF Init, Mine
<1>2. TypeOK
  <2>1. \A r \in Requests : at[r] \in 1..(Len(bundle[r]) + 1)
    <3>1. Len(<<>>) = 0
      OBVIOUS
    <3> QED
      BY <3>1 DEF Init
  <2> QED
    BY <2>1 DEF Init, TypeOK, LocksHeld
<1> QED
  BY <1>1, <1>2 DEF StoreInv, StageOK, ForgetHolds, DraftsOffered, MergedSoFar, SkipsSettled,
     Writing

\* Every step keeps the invariant, of its request and of the others.
LEMMA StepKeeps == StoreInv /\ [Next]_vars => StoreInv'
<1>1. ASSUME StoreInv, NEW r \in Requests, TypeOK', Frame(r), Holds(r)'
      PROVE  StoreInv'
  <2>1. \A q \in Requests : Holds(q)'
    BY <1>1, FrameKeeps
  <2> QED
    BY <1>1, <2>1 DEF StoreInv, Holds
<1>2. ASSUME StoreInv, Next
      PROVE  StoreInv'
  <2>1. PICK r \in Requests :
          Merge(r) \/ CheckActive(r) \/ Delete(r) \/ Commit(r) \/ Fail(r)
    BY <1>2 DEF Next
  <2>2. CASE StartSet(r) \/ StartImport(r)
    BY <1>1, <1>2, <2>2, StartKeeps
  <2>3. CASE Upsert(r) \/ InsertFact(r) \/ CheckProperty(r)
    BY <1>1, <1>2, <2>3, MergeKeeps
  <2>4. CASE CheckActive(r)
    BY <1>1, <1>2, <2>4, CheckActiveKeeps
  <2>5. CASE Delete(r)
    BY <1>1, <1>2, <2>5, DeleteKeeps
  <2>6. CASE Commit(r) \/ Fail(r)
    BY <1>1, <1>2, <2>6, EndKeeps
  <2> QED
    BY <2>1, <2>2, <2>3, <2>4, <2>5, <2>6 DEF Merge
<1>3. StoreInv /\ UNCHANGED vars => StoreInv'
  BY DEF vars, input, StoreInv, TypeOK, LocksHeld, StageOK, ForgetHolds, DraftsOffered,
     MergedSoFar, SkipsSettled, Writing, Mine, Entry, Live, Store!Offers, Store!Deleted
<1> QED
  BY <1>2, <1>3

\* Whatever requests run together, each row's uncommitted state is one its
\* writer was asked for, and its writer holds the lock until it ends.
THEOREM StoreInvariant == Spec => []StoreInv
  BY InitKeeps, StepKeeps, PTL DEF Spec

\* Every locked row has a draft and a writer that has not ended.
THEOREM TypeCorrect == Spec => []TypeOK
<1>1. StoreInv => TypeOK
  BY DEF StoreInv
<1> QED
  BY <1>1, StoreInvariant, PTL

\* If every request that is writing waits for another one, which is writing too
\* since it has a lock, they are deadlocked.
THEOREM NoneIsStuck == Spec => []NobodyStuck
<1>1. StoreInv => NobodyStuck
  <2> SUFFICES ASSUME StoreInv, NEW r \in Requests, Writing(r),
                      \A q \in Requests : Writing(q) => Blocked(q)
               PROVE  Deadlocked(r)
    BY DEF NobodyStuck
  <2> DEFINE S == {q \in Requests : Writing(q)}
  <2>1. ASSUME NEW q \in S
        PROVE  \E k \in Awaits(q) : lock[k] \in S \ {q}
    <3>1. q \in Requests /\ Writing(q)
      OBVIOUS
    <3>2. PICK k \in Awaits(q) : lock[k] \notin {Nobody, q}
      BY <3>1 DEF Blocked
    <3>3. k \in Keys
      <4>1. CASE pc[q] = "found"
        BY <3>1, <4>1 DEF Awaits, StoreInv, StageOK, TypeOK
      <4>2. CASE pc[q] # "found"
        BY <3>1, <4>2, EntryType DEF Awaits, StoreInv
      <4> QED
        BY <4>1, <4>2
    <3>4. lock[k] \in Requests /\ Writing(lock[k])
      BY <3>2, <3>3 DEF StoreInv, TypeOK, LocksHeld
    <3> QED
      BY <3>2, <3>4
  <2>2. S \in SUBSET Requests /\ r \in S
    OBVIOUS
  <2> HIDE DEF S
  <2> QED
    BY <2>1, <2>2, Zenon DEF Deadlocked
<1> QED
  BY <1>1, StoreInvariant, PTL


---------------------------------------------------------------------------

\* What a commit makes of each row.
LEMMA CommitFacts ==
  ASSUME StoreInv, NEW r \in Requests, Commit(r)
  PROVE  /\ rows' \in [Keys -> Row \cup {NoRow}]
         /\ \A k \in Keys : rows'[k] = IF k \in Mine(r) THEN draft[k] ELSE rows[k]
<1>1. rows' = [k \in Keys |-> Seen(r, k)]
  BY DEF Commit
<1> QED
  BY <1>1 DEF Seen, Mine, StoreInv, TypeOK

\* The commit of a set, or of an import, is the whole of its list.
LEMMA ListActs ==
  ASSUME StoreInv, NEW r \in Requests \ Forgets, Commit(r)
  PROVE  \E b \in Bundles : Store!Overwrite(b) \/ Store!Skip(b)
<1> DEFINE b == bundle[r]
<1>1. /\ pc[r] = "merging" /\ at[r] > Len(b) /\ b \in Bundles
      /\ DraftsOffered(r) /\ MergedSoFar(r) /\ SkipsSettled(r)
  BY DEF Commit, Finished, StoreInv, StageOK, Writing
<1>2. \A k \in Mine(r) : draft[k] \in Store!Offers(b, k)
  BY <1>1 DEF DraftsOffered
<1>3. ASSUME NEW k \in Keys, Store!Offers(b, k) # {}
      PROVE  k \in Mine(r) \/ (skip[r] /\ (k \in Properties \/ rows[k] # NoRow))
  <2>1. PICK i \in 1..Len(b) : b[i].key = k
    BY <1>3 DEF Store!Offers
  <2>2. i \in 1..(at[r] - 1)
    <3>1. Len(b) \in Nat
      <4>1. b \in Seq([key : Keys, row : Row])
        BY <1>1, ListsOfRows
      <4> QED
        BY <4>1
    <3>2. at[r] \in Nat
      BY DEF StoreInv, TypeOK
    <3> QED
      BY <1>1, <3>1, <3>2
  <2> QED
    BY <1>1, <2>1, <2>2 DEF MergedSoFar, Writing
<1>4. \A k \in Keys : rows'[k] = IF k \in Mine(r) THEN draft[k] ELSE rows[k]
  BY CommitFacts
<1> HIDE DEF b
<1>5. CASE ~skip[r]
  <2>1. ASSUME NEW k \in Keys
        PROVE  IF Store!Offers(b, k) = {} THEN rows'[k] = rows[k]
               ELSE rows'[k] \in Store!Offers(b, k)
    BY <1>2, <1>3, <1>4, <1>5
  <2>2. Store!Overwrite(b)
    BY <2>1 DEF Store!Overwrite, Store!Keys, Keys
  <2> QED
    BY <1>1, <2>2
<1>6. CASE skip[r]
  <2>1. ASSUME NEW k \in Facts
        PROVE  IF rows[k] # NoRow \/ Store!Offers(b, k) = {} THEN rows'[k] = rows[k]
               ELSE rows'[k] \in Store!Offers(b, k)
    <3>1. k \in Keys /\ k \notin Properties
      BY ConstantsAssumption DEF Keys
    <3>2. k \in Mine(r) => rows[k] = NoRow
      BY <1>1, <1>6 DEF SkipsSettled
    <3> QED
      BY <1>2, <1>3, <1>4, <3>1, <3>2
  <2>2. ASSUME NEW k \in Properties
        PROVE  rows'[k] \in {rows[k]} \cup Store!Offers(b, k)
    BY <1>2, <1>4 DEF Keys
  <2>3. Store!Skip(b)
    BY <2>1, <2>2 DEF Store!Skip
  <2> QED
    BY <1>1, <2>3
<1> QED
  BY <1>5, <1>6

\* The commit of a forget deletes one row, as it is then.
LEMMA ForgetActs ==
  ASSUME StoreInv, NEW r \in Forgets, Commit(r)
  PROVE  \E k \in Keys : Store!Forget(k)
<1> DEFINE k == target[r]
<1>1. r \in Requests /\ k \in Keys
  BY DEF Requests, StoreInv, TypeOK
<1>2. pc[r] = "written"
  BY <1>1 DEF Commit, Finished, StoreInv, StageOK
<1>3. Mine(r) = {k} /\ rows[k] # NoRow /\ draft[k] = Store!Deleted(rows[k])
  BY <1>1, <1>2 DEF StoreInv, ForgetHolds
<1>4. /\ rows \in [Keys -> Row \cup {NoRow}]
      /\ rows' \in [Keys -> Row \cup {NoRow}]
      /\ \A x \in Keys : rows'[x] = IF x \in Mine(r) THEN draft[x] ELSE rows[x]
  BY <1>1, CommitFacts DEF StoreInv, TypeOK
<1> HIDE DEF k
<1>5. rows' = [rows EXCEPT ![k] = Store!Deleted(@)]
  BY <1>1, <1>3, <1>4
<1> QED
  BY <1>1, <1>3, <1>5 DEF Store!Forget

\* A step of the store is one of the abstract store, or leaves every row.
LEMMA StepActs == StoreInv /\ [Next]_vars => [Store!Next]_rows
<1> SUFFICES ASSUME StoreInv, [Next]_vars, rows' # rows
             PROVE  Store!Next
  OBVIOUS
<1>1. PICK r \in Requests : Commit(r)
  BY DEF Next, Merge, StartSet, StartImport, Upsert, InsertFact, CheckProperty, CheckActive,
     Delete, Fail, vars
<1>2. rows' \in [Keys -> Row \cup {NoRow}]
  BY <1>1, CommitFacts
<1>3. (\E b \in Bundles : Store!Overwrite(b) \/ Store!Skip(b)) \/ \E k \in Keys : Store!Forget(k)
  BY <1>1, ListActs, ForgetActs
<1> QED
  BY <1>2, <1>3 DEF Store!Next, Store!Keys, Store!Row, Keys, Row

\* Every request acts at once: the store implements its abstract one.
THEOREM EntriesActAtOnce == Spec => ActsAtOnce
<1>1. Init => Store!Init
  BY DEF Init, Store!Init, Store!Keys, Store!Row, Keys, Row
<1> QED
  BY <1>1, StepActs, StoreInvariant, PTL DEF Spec, ActsAtOnce, Store!Spec

\* An import that skips conflicts replaces no fact, and an active property only
\* where someone else made it active meanwhile.
THEOREM SettledAreKept == Spec => SkipKeepsSettled
<1>1. ASSUME StoreInv, [Next]_vars, NEW r \in Imports, NEW k \in Keys,
             skip[r], Finished(r), pc'[r] = "done", rows[k] # NoRow, rows'[k] # rows[k]
      PROVE  k \in Properties /\ (Live(rows[k]) => k \in fresh[r])
  <2>1. PICK q \in Requests : Commit(q)
    BY <1>1 DEF Next, Merge, StartSet, StartImport, Upsert, InsertFact, CheckProperty,
       CheckActive, Delete, Fail, vars
  <2>2. r \in Requests /\ pc[r] # "done" /\ pc \in [Requests -> {"idle", "merging", "absent",
          "found", "written", "done", "missing", "failed"}]
    BY <1>1 DEF Requests, Finished, StoreInv, TypeOK
  <2>3. q = r
    BY <1>1, <2>1, <2>2 DEF Commit, Goto
  <2>4. k \in Mine(r)
    BY <1>1, <2>1, <2>3, CommitFacts
  <2>5. SkipsSettled(r)
    BY <1>1, <2>2 DEF StoreInv
  <2> QED
    BY <1>1, <2>4, <2>5 DEF SkipsSettled, Live, Keys
<1>2. StoreInv /\ [Next]_vars =>
        [ \A r \in Imports, k \in Keys :
            skip[r] /\ Finished(r) /\ pc'[r] = "done" /\ rows[k] # NoRow /\ rows'[k] # rows[k]
              => k \in Properties /\ (Live(rows[k]) => k \in fresh[r]) ]_vars
  BY <1>1
<1> QED
  BY <1>2, StoreInvariant, PTL DEF Spec, SkipKeepsSettled

=============================================================================
