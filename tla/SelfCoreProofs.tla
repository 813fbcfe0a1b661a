-------------------------- MODULE SelfCoreProofs --------------------------
(***************************************************************************)
(* Proofs about SelfCore for every set of requests.                        *)
(***************************************************************************)
EXTENDS SelfCore, TLAPS

---------------------------------------------------------------------------
(* Type correctness.                                                       *)

\* What an import creates is a row, with older rows in the archive.
LEMMA CreatedRows ==
  ASSUME NEW content \in Contents, NEW row, NEW rows, Creates(content, row, rows)
  PROVE  /\ row \in Row
         /\ row.content = content
         /\ rows \in SUBSET Row
         /\ \A h \in rows : h.content = Imported /\ h.version < row.version
<1>1. PICK src \in InitVersions, versions \in SUBSET InitVersions :
         \E v \in InitVersions \cup {n + 1 : n \in InitVersions} :
           /\ IsImportedVersion(v, src, versions)
           /\ row = [version |-> v, content |-> content]
           /\ rows = {[version |-> n, content |-> Imported] : n \in versions}
  BY DEF Creates
<1>2. PICK v : /\ IsImportedVersion(v, src, versions)
               /\ row = [version |-> v, content |-> content]
               /\ rows = {[version |-> n, content |-> Imported] : n \in versions}
  BY <1>1
<1>3. v \in Nat \ {0} /\ \A n \in versions : n \in Nat \ {0} /\ n < v
  BY <1>1, <1>2, ConstantsAssumption DEF IsImportedVersion
<1> QED
  BY <1>2, <1>3 DEF Row, Contents

\* Every initial state is well typed.
LEMMA InitTypeOK == Init => TypeOK
<1> SUFFICES ASSUME Init PROVE TypeOK
  OBVIOUS
<1>1. current \in Row \cup {NoRow} /\ history \in SUBSET Row
  BY CreatedRows DEF Init, InitCore, Contents
<1>2. pc \in [Requests -> Labels]
  BY DEF Init, Labels
<1>3. /\ seen \in [Requests -> Row \cup {NoRow}]
      /\ snap \in [Requests -> Row \cup {NoRow}]
      /\ stale \in BOOLEAN
  BY DEF Init
<1> QED
  BY <1>1, <1>2, <1>3 DEF TypeOK

\* A first row or an archived row is inserted only where no other open
\* transaction has written.
LEMMA InsertAlone ==
  ASSUME SaveInv, NEW r \in Requests, NEW s \in Requests, r # s,
         InsertFirst(r) \/ Archive(r), pc'[r] \in {"archived", "written"}
  PROVE  pc[s] \notin {"archived", "written"}
<1> USE DEF SaveInv, TypeOK, WriterOwnsLiveRow
<1>1. CASE InsertFirst(r)
  <2>1. current = NoRow
    BY <1>1 DEF InsertFirst, Goto
  <2>2. pc[s] = "written" => seen[s] # NoRow
    BY <1>1 DEF InsertFirst, Creating
  <2> QED
    BY <2>1, <2>2
<1>2. CASE Archive(r)
  <2>1. snap[r] = current /\ current # NoRow /\ ~Archived(snap[r].version)
    BY <1>2 DEF Archive, Goto, SnapshotLiveOrArchived, SeenStays
  <2>2. pc[s] \in {"archived", "written"} => seen[s] # NoRow
    BY <2>1
  <2>3. pc[s] \in {"archived", "written"} => snap[s].version # snap[r].version
    BY <1>2, <2>2 DEF Archive, Archiving
  <2> QED
    BY <2>1, <2>2, <2>3
<1> QED
  BY <1>1, <1>2

\* The initial states satisfy the invariant: no request has read anything.
LEMMA InitSaveInv == Init => SaveInv
<1> SUFFICES ASSUME Init PROVE SaveInv
  OBVIOUS
<1>1. TypeOK
  BY InitTypeOK
<1> QED
  BY <1>1 DEF Init, SaveInv, SeenStays, SnapshotLiveOrArchived, WriterOwnsLiveRow,
              OneWriterAtATime

\* A step that changes neither the committed rows nor the set of writers
\* only has to look at the request that takes it.
LEMMA ReadStepSaveInv ==
  ASSUME SaveInv, NEW r \in Requests,
         Request(r) \/ Reload(r) \/ SelectLive(r) \/ Update(r) \/ Rollback(r)
  PROVE  SaveInv'
<1> USE DEF SaveInv, Labels, InTransaction
<1>1. UNCHANGED <<current, history, stale>>
  BY DEF Request, LoadForm, Submit, OpenEditor, CloseEditor, ReadVersion, Reload,
         SelectLive, Update, Rollback
<1>2. \A s \in Requests \ {r} : pc'[s] = pc[s] /\ seen'[s] = seen[s] /\ snap'[s] = snap[s]
  BY DEF Request, LoadForm, Submit, OpenEditor, CloseEditor, ReadVersion, Reload,
         SelectLive, Update, Rollback, Read, Goto, TypeOK
<1>3. TypeOK'
  BY DEF Request, LoadForm, Submit, OpenEditor, CloseEditor, ReadVersion, Reload,
         SelectLive, Update, Rollback, Read, Goto, TypeOK
<1>4. seen'[r] = seen[r] \/ seen'[r] = current
  BY DEF Request, LoadForm, Submit, OpenEditor, CloseEditor, ReadVersion, Reload,
         SelectLive, Update, Rollback, Read, Goto, TypeOK
<1>5. pc'[r] = "archiving" => seen'[r] # NoRow /\ snap'[r] = current
  BY DEF Request, LoadForm, Submit, OpenEditor, CloseEditor, ReadVersion, Reload,
         SelectLive, Update, Rollback, Read, Goto, TypeOK
<1>6. pc'[r] \in {"archived", "written"} =>
        /\ pc[r] = "archived"
        /\ pc'[r] = "written"
        /\ seen'[r] = seen[r]
        /\ snap'[r] = snap[r]
  BY DEF Request, LoadForm, Submit, OpenEditor, CloseEditor, ReadVersion, Reload,
         SelectLive, Update, Rollback, Read, Goto, TypeOK
<1>7. SeenStays'
  BY <1>1, <1>2, <1>4 DEF SeenStays
<1>8. SnapshotLiveOrArchived'
  BY <1>1, <1>2, <1>5, <1>7 DEF SnapshotLiveOrArchived, SeenStays, Archived
<1>9. WriterOwnsLiveRow'
  BY <1>1, <1>2, <1>6 DEF WriterOwnsLiveRow, Archived
<1>10. OneWriterAtATime'
  BY <1>2, <1>6 DEF OneWriterAtATime
<1> QED
  BY <1>3, <1>7, <1>8, <1>9, <1>10

\* An insert into the archive or of the first row makes a writer.
LEMMA InsertStepSaveInv ==
  ASSUME SaveInv, NEW r \in Requests, InsertFirst(r) \/ Archive(r)
  PROVE  SaveInv'
<1> USE DEF SaveInv
<1>1. UNCHANGED <<current, history, seen, snap, stale>>
  BY DEF InsertFirst, Archive
<1>2. \A s \in Requests \ {r} : pc'[s] = pc[s]
  BY DEF InsertFirst, Archive, Goto, TypeOK
<1>3. TypeOK'
  BY DEF InsertFirst, Archive, Goto, TypeOK, Labels, InTransaction
<1>4. SeenStays'
  BY <1>1 DEF SeenStays
<1>5. SnapshotLiveOrArchived'
  BY <1>1, <1>2 DEF SnapshotLiveOrArchived, Archived, InsertFirst, Archive, Goto, TypeOK
<1>6. pc'[r] \in {"archived", "written"} =>
        /\ pc'[r] = "archived" => seen[r] # NoRow
        /\ IF seen[r] = NoRow THEN current = NoRow
           ELSE snap[r] = current /\ current # NoRow /\ ~Archived(current.version)
  BY DEF InsertFirst, Archive, Goto, TypeOK, SnapshotLiveOrArchived, SeenStays
<1>7. WriterOwnsLiveRow'
  BY <1>1, <1>2, <1>6 DEF WriterOwnsLiveRow, Archived
<1>8. OneWriterAtATime'
  BY <1>2, InsertAlone DEF OneWriterAtATime
<1> QED
  BY <1>3, <1>4, <1>5, <1>7, <1>8

\* What a commit does to the rows, given the invariant.
LEMMA CommitEffect ==
  ASSUME SaveInv, NEW r \in Requests, Commit(r)
  PROVE  /\ Saved(r)
         /\ current' \in Row
         /\ current'.content = r
         /\ history' \in SUBSET Row
         /\ history \subseteq history'
         /\ current # NoRow => /\ history' = history \cup {current}
                               /\ ~Archived(current.version)
                               /\ current'.version = seen[r].version + 1
         /\ current = NoRow => \A h \in history' \ history : h.version < current'.version
<1> USE DEF SaveInv
<1>1. Saved(r)
  BY DEF Commit, CommitFirst, CommitBundle, CommitNext
<1>2. IF seen[r] = NoRow THEN current = NoRow
      ELSE snap[r] = current /\ current # NoRow /\ ~Archived(current.version)
  BY <1>1 DEF Saved, WriterOwnsLiveRow
<1>3. r \in Contents /\ current \in Row \cup {NoRow} /\ history \in SUBSET Row
  BY DEF Contents, TypeOK
<1>4. CASE CommitFirst(r)
  BY <1>1, <1>2, <1>3, <1>4 DEF CommitFirst, Row
<1>5. CASE CommitBundle(r)
  <2>1. PICK rows : Creates(r, current', rows) /\ history' = history \cup rows
    BY <1>5 DEF CommitBundle
  <2>2. seen[r] = NoRow
    BY <1>5 DEF CommitBundle
  <2>3. /\ current' \in Row
        /\ current'.content = r
        /\ rows \in SUBSET Row
        /\ \A h \in rows : h.version < current'.version
    BY <1>3, <2>1, CreatedRows
  <2> QED
    BY <1>1, <1>2, <1>3, <2>1, <2>2, <2>3
<1>6. CASE CommitNext(r)
  <2>1. seen[r].version + 1 \in Nat \ {0}
    BY DEF TypeOK, Row, NoRow
  <2> QED
    BY <1>1, <1>2, <1>3, <1>6, <2>1 DEF CommitNext, Row
<1> QED
  BY <1>4, <1>5, <1>6 DEF Commit

\* A commit ends the only writer and leaves its row archived.
LEMMA CommitSaveInv ==
  ASSUME SaveInv, NEW r \in Requests, Commit(r)
  PROVE  SaveInv'
<1> USE DEF SaveInv
<1>1. /\ current' \in Row
      /\ history' \in SUBSET Row
      /\ history \subseteq history'
      /\ current # NoRow => history' = history \cup {current}
  BY CommitEffect
<1>2. /\ pc' = [pc EXCEPT ![r] = "saved"]
      /\ UNCHANGED <<seen, snap>>
      /\ pc[r] = "written"
      /\ stale' \in BOOLEAN
  BY CommitEffect DEF Saved, Goto, TypeOK
<1>3. \A s \in Requests : pc'[s] \notin {"archived", "written"}
  BY <1>2 DEF OneWriterAtATime, TypeOK
<1>4. current' # NoRow
  BY <1>1 DEF Row, NoRow
<1>5. TypeOK'
  <2>1. pc' \in [Requests -> Labels]
    BY <1>2 DEF TypeOK, Labels
  <2> QED
    BY <1>1, <1>2, <2>1 DEF TypeOK
<1>6. SeenStays'
  BY <1>4 DEF SeenStays
<1>7. SnapshotLiveOrArchived'
  <2> SUFFICES ASSUME NEW s \in Requests, pc'[s] = "archiving"
               PROVE  seen[s] # NoRow /\ snap[s] # NoRow
                      /\ (\E h \in history' : h.version = snap[s].version)
    BY <1>2 DEF SnapshotLiveOrArchived, Archived
  <2>1. pc[s] = "archiving"
    BY <1>2 DEF TypeOK
  <2>2. seen[s] # NoRow /\ snap[s] # NoRow
    BY <2>1 DEF SnapshotLiveOrArchived
  <2>3. CASE snap[s] = current
    BY <1>1, <2>2, <2>3
  <2>4. CASE Archived(snap[s].version)
    BY <1>1, <2>2, <2>4 DEF Archived
  <2> QED
    BY <2>1, <2>2, <2>3, <2>4 DEF SnapshotLiveOrArchived
<1>8. WriterOwnsLiveRow' /\ OneWriterAtATime'
  BY <1>3 DEF WriterOwnsLiveRow, OneWriterAtATime
<1> QED
  BY <1>5, <1>6, <1>7, <1>8

\* The invariant is inductive.
LEMMA NextSaveInv == SaveInv /\ [Next]_vars => SaveInv'
<1> SUFFICES ASSUME SaveInv, [Next]_vars PROVE SaveInv'
  OBVIOUS
<1>1. CASE UNCHANGED vars
  BY <1>1 DEF vars, SaveInv, TypeOK, SeenStays, SnapshotLiveOrArchived, Archived,
              WriterOwnsLiveRow, OneWriterAtATime
<1>2. ASSUME NEW r \in Requests, Request(r) \/ Proceed(r) \/ Rollback(r) PROVE SaveInv'
  BY <1>2, ReadStepSaveInv, InsertStepSaveInv, CommitSaveInv DEF Proceed
<1> QED
  BY <1>1, <1>2 DEF Next

---------------------------------------------------------------------------
(* The theorems.                                                           *)

\* In every behaviour, for any number of requests of each kind, an open
\* writer's row is the live one and there is one open writer at most.
THEOREM SaveInvariant == Spec => []SaveInv
<1> QED
  BY InitSaveInv, NextSaveInv, PTL DEF Spec

\* Rows, versions and places stay within their types in every behaviour.
THEOREM TypeCorrect == Spec => []TypeOK
<1>1. SaveInv => TypeOK
  BY DEF SaveInv
<1> QED
  BY <1>1, SaveInvariant, PTL

\* The archive's unique key alone excludes two open writers at a time.
THEOREM WritersExclude == Spec => []OneWriterAtATime
<1>1. SaveInv => OneWriterAtATime
  BY DEF SaveInv
<1> QED
  BY <1>1, SaveInvariant, PTL

\* Only a commit changes the committed rows, the note of a stale save or
\* the set of requests reported as saved.
LEMMA OthersKeepRows ==
  ASSUME TypeOK, NEW r \in Requests, Request(r) \/ Proceed(r) \/ Rollback(r), ~Commit(r)
  PROVE  /\ UNCHANGED <<current, history, stale>>
         /\ \A s \in Requests : pc'[s] = "saved" => pc[s] = "saved"
<1> USE DEF TypeOK, Goto, InTransaction
<1>1. CASE Request(r)
  BY <1>1 DEF Request, LoadForm, Submit, OpenEditor, CloseEditor, ReadVersion
<1>2. CASE Proceed(r)
  BY <1>2 DEF Proceed, Reload, InsertFirst, SelectLive, Archive, Update
<1>3. CASE Rollback(r)
  BY <1>3 DEF Rollback
<1> QED
  BY <1>1, <1>2, <1>3

\* Every commit adds to the archive exactly the row it takes away.
THEOREM ReplacedRowIsArchived == Spec => ArchivesWhatItReplaces
<1>1. SaveInv /\ [Next]_vars =>
        [ current # NoRow /\ ~UNCHANGED <<current, history>> =>
            history' = history \cup {current} ]_vars
  <2> SUFFICES ASSUME SaveInv, Next, current # NoRow, ~UNCHANGED <<current, history>>
               PROVE  history' = history \cup {current}
    OBVIOUS
  <2>1. PICK r \in Requests : Request(r) \/ Proceed(r) \/ Rollback(r)
    BY DEF Next
  <2>2. Commit(r)
    BY <2>1, OthersKeepRows DEF SaveInv
  <2> QED
    BY <2>2, CommitEffect
<1> QED
  BY <1>1, SaveInvariant, PTL DEF Spec, ArchivesWhatItReplaces

\* Once the archive holds the live version, no save is ever committed.
THEOREM CollisionFreezes == Spec => FrozenAfterCollision
<1>1. SaveInv /\ [Next]_vars => [Archived(current.version) => UNCHANGED current]_vars
  <2> SUFFICES ASSUME SaveInv, Next, Archived(current.version)
               PROVE  UNCHANGED current
    OBVIOUS
  <2>1. PICK r \in Requests : Request(r) \/ Proceed(r) \/ Rollback(r)
    BY DEF Next
  <2>2. ASSUME Commit(r) PROVE FALSE
    <3>1. current # NoRow
      BY DEF SaveInv, TypeOK, Archived, Row, NoRow
    <3> QED
      BY <2>2, <3>1, CommitEffect
  <2> QED
    BY <2>1, <2>2, OthersKeepRows DEF SaveInv
<1> QED
  BY <1>1, SaveInvariant, PTL DEF Spec, FrozenAfterCollision

\* A save reported as done stays readable: live, or in the archive.
THEOREM SavedStaysReadable == Spec => []NoSavedContentLost
<1>1. Init => NoSavedContentLost
  BY DEF Init, NoSavedContentLost
<1>2. SaveInv /\ NoSavedContentLost /\ [Next]_vars => NoSavedContentLost'
  <2> SUFFICES ASSUME SaveInv, NoSavedContentLost, [Next]_vars PROVE NoSavedContentLost'
    OBVIOUS
  <2>1. CASE UNCHANGED vars
    BY <2>1 DEF vars, NoSavedContentLost
  <2>2. ASSUME NEW r \in Requests, Request(r) \/ Proceed(r) \/ Rollback(r), ~Commit(r)
        PROVE  NoSavedContentLost'
    BY <2>2, OthersKeepRows DEF SaveInv, NoSavedContentLost
  <2>3. ASSUME NEW r \in Requests, Commit(r)
        PROVE  NoSavedContentLost'
    <3> SUFFICES ASSUME NEW s \in Requests, pc'[s] = "saved"
                 PROVE  \/ current'.content = s
                        \/ \E h \in history' : h.content = s
      BY DEF NoSavedContentLost
    <3>1. CASE s = r
      BY <2>3, <3>1, CommitEffect
    <3>2. CASE s # r
      <4>1. pc[s] = "saved"
        BY <2>3, <3>2, CommitEffect DEF Saved, Goto, SaveInv, TypeOK
      <4>2. CASE current.content = s
        <5>1. current # NoRow
          BY <4>2, ConstantsAssumption DEF NoRow
        <5> QED
          BY <2>3, <4>2, <5>1, CommitEffect
      <4>3. CASE \E h \in history : h.content = s
        BY <2>3, <4>3, CommitEffect
      <4> QED
        BY <4>1, <4>2, <4>3 DEF NoSavedContentLost
    <3> QED
      BY <3>1, <3>2
  <2> QED
    BY <2>1, <2>2, <2>3 DEF Next
<1> QED
  BY <1>1, <1>2, SaveInvariant, PTL DEF Spec

\* Saves that replace the row they read keep the live version above every
\* archived one, an imported soul's included.
THEOREM FreshSavesNeverCollide == Spec => []CollisionNeedsStaleSave
<1>1. Init => CollisionNeedsStaleSave
  BY CreatedRows DEF Init, InitCore, Contents, CollisionNeedsStaleSave
<1>2. SaveInv /\ CollisionNeedsStaleSave /\ [Next]_vars => CollisionNeedsStaleSave'
  <2> SUFFICES ASSUME SaveInv, CollisionNeedsStaleSave, [Next]_vars
               PROVE  CollisionNeedsStaleSave'
    OBVIOUS
  <2>1. CASE UNCHANGED vars
    BY <2>1 DEF vars, CollisionNeedsStaleSave
  <2>2. ASSUME NEW r \in Requests, Request(r) \/ Proceed(r) \/ Rollback(r), ~Commit(r)
        PROVE  CollisionNeedsStaleSave'
    BY <2>2, OthersKeepRows DEF SaveInv, CollisionNeedsStaleSave
  <2>3. ASSUME NEW r \in Requests, Commit(r)
        PROVE  CollisionNeedsStaleSave'
    <3> SUFFICES ASSUME ~stale', NEW h \in history' PROVE h.version < current'.version
      BY DEF CollisionNeedsStaleSave
    <3>1. ~stale /\ seen[r] = current
      BY <2>3, CommitEffect DEF Saved
    <3>2. \A g \in history : g.version \in Nat \ {0} /\ g.version < current.version
      BY <3>1 DEF CollisionNeedsStaleSave, SaveInv, TypeOK, Row
    <3>3. CASE current = NoRow
      <4>1. history = {}
        BY <3>2, <3>3 DEF NoRow
      <4> QED
        BY <2>3, <3>3, <4>1, CommitEffect
    <3>4. CASE current # NoRow
      <4>1. current.version \in Nat /\ current'.version = current.version + 1
        BY <2>3, <3>1, <3>4, CommitEffect DEF SaveInv, TypeOK, Row
      <4>2. h = current \/ h \in history
        BY <2>3, <3>4, CommitEffect
      <4> QED
        BY <3>2, <4>1, <4>2
    <3> QED
      BY <3>3, <3>4
  <2> QED
    BY <2>1, <2>2, <2>3 DEF Next
<1> QED
  BY <1>1, <1>2, SaveInvariant, PTL DEF Spec

\* The Self Core implements the document that forgets nothing.
THEOREM ImplementsDocument == Spec => ForgetsNothing
<1>1. Init => Document!Init
  BY InitTypeOK DEF TypeOK, Document!Init, Row, NoRow
<1>2. SaveInv /\ [Next]_vars => [Document!Next]_<<current.content, {h.content : h \in history}>>
  <2> SUFFICES ASSUME SaveInv, [Next]_vars
               PROVE  \/ Document!Next
                      \/ UNCHANGED <<current.content, {h.content : h \in history}>>
    OBVIOUS
  <2>1. CASE UNCHANGED vars
    BY <2>1 DEF vars
  <2>2. ASSUME NEW r \in Requests, Request(r) \/ Proceed(r) \/ Rollback(r), ~Commit(r)
        PROVE  UNCHANGED <<current.content, {h.content : h \in history}>>
    BY <2>2, OthersKeepRows DEF SaveInv
  <2>3. ASSUME NEW r \in Requests, Commit(r)
        PROVE  Document!Next
    <3>1. /\ current'.content = r
          /\ history \subseteq history'
          /\ history' \in SUBSET Row
          /\ current # NoRow => history' = history \cup {current}
      BY <2>3, CommitEffect
    <3>2. CASE current = NoRow
      <4>1. {h.content : h \in history'} =
              {h.content : h \in history} \cup {h.content : h \in history'}
        BY <3>1
      <4>2. {h.content : h \in history'} \in SUBSET Contents
        BY <3>1 DEF Row
      <4>3. Document!Start(r)
        BY <3>1, <3>2, <4>1, <4>2 DEF Document!Start, NoRow
      <4> QED
        BY <4>3 DEF Document!Next, Contents
    <3>3. CASE current # NoRow
      <4>1. current.content # NoContent
        BY <3>3, ConstantsAssumption DEF SaveInv, TypeOK, Row, Contents
      <4>2. {h.content : h \in history'} = {h.content : h \in history} \cup {current.content}
        BY <3>1, <3>3
      <4>3. Document!Save(r)
        BY <3>1, <4>1, <4>2 DEF Document!Save
      <4> QED
        BY <4>3 DEF Document!Next, Contents
    <3> QED
      BY <3>2, <3>3
  <2> QED
    BY <2>1, <2>2, <2>3 DEF Next
<1> QED
  BY <1>1, <1>2, SaveInvariant, PTL DEF Spec, ForgetsNothing, Document!Spec

---------------------------------------------------------------------------
(* What stands between two steps of a request.                             *)

\* Only the one writer is waited for, and the writer waits for nobody.
THEOREM NoneIsStuck == Spec => []NobodyStuck
<1>1. OneWriterAtATime => NobodyStuck
  <2> SUFFICES ASSUME OneWriterAtATime, NEW r \in Requests
               PROVE  /\ \A q \in WaitsFor(r) :
                           pc[q] \in {"archived", "written"} /\ WaitsFor(q) = {}
                      /\ pc[r] = "archived" => Updating = {}
    BY DEF NobodyStuck
  <2>1. \A q \in Requests : pc[q] = "archived" => Updating = {}
    BY DEF OneWriterAtATime, Updating
  <2>2. ASSUME NEW q \in WaitsFor(r) PROVE q \in Requests /\ pc[q] \in {"archived", "written"}
    BY DEF WaitsFor, Creating, Archiving, Updating
  <2>3. ASSUME NEW q \in WaitsFor(r) PROVE WaitsFor(q) = {}
    <3>1. q \in Requests /\ pc[q] \in {"archived", "written"}
      BY <2>2
    <3> QED
      BY <2>1, <3>1 DEF WaitsFor
  <2> QED
    BY <2>1, <2>2, <2>3
<1> QED
  BY <1>1, WritersExclude, PTL

\* A transaction is over after four of its own steps, whatever the others do.
THEOREM StepsCount == Spec => EachStepCounts
<1>1. TypeOK /\ [Next]_vars =>
        \A r \in Requests : pc[r] \in InTransaction =>
          \/ StepsLeft(r)' < StepsLeft(r)
          \/ UNCHANGED <<pc[r], seen[r], snap[r]>>
  <2> SUFFICES ASSUME TypeOK, [Next]_vars, NEW r \in Requests, pc[r] \in InTransaction
               PROVE  StepsLeft(r)' < StepsLeft(r) \/ UNCHANGED <<pc[r], seen[r], snap[r]>>
    OBVIOUS
  <2> DEFINE Kept == UNCHANGED <<pc[r], seen[r], snap[r]>>
  <2> USE DEF TypeOK, Goto, Read
  <2>1. ASSUME UNCHANGED vars PROVE Kept
    BY <2>1 DEF vars
  <2>2. ASSUME NEW s \in Requests, Request(s) \/ Proceed(s) \/ Rollback(s), s # r
        PROVE  Kept
    BY <2>2 DEF Request, LoadForm, Submit, OpenEditor, CloseEditor, ReadVersion, Proceed, Reload,
                InsertFirst, SelectLive, Archive, Update, Commit, CommitFirst, CommitBundle,
                CommitNext, Saved, Rollback
  <2>3. ASSUME Request(r) \/ Proceed(r) \/ Rollback(r)
        PROVE  StepsLeft(r)' < StepsLeft(r)
    BY <2>3 DEF Request, LoadForm, Submit, OpenEditor, CloseEditor, ReadVersion, Proceed, Reload,
                InsertFirst, SelectLive, Archive, Update, Commit, CommitFirst, CommitBundle,
                CommitNext, Saved, Rollback, StepsLeft, InTransaction
  <2>4. (Request(r) \/ Proceed(r) \/ Rollback(r)) \/ Kept
    <3> HIDE DEF Kept
    <3> QED
      BY ONLY [Next]_vars, <2>1, <2>2 DEF Next
  <2> QED
    BY ONLY <2>3, <2>4
<1> QED
  BY <1>1, TypeCorrect, PTL DEF Spec, EachStepCounts

=============================================================================
