------------------------- MODULE SoulBundleProofs -------------------------
(***************************************************************************)
(* Proofs about SoulBundle for every set of exports, views, imports and    *)
(* supersedes, and every number of versions.                               *)
(***************************************************************************)
EXTENDS SoulBundle, TLAPS

---------------------------------------------------------------------------
(* Lemmas about rows, texts and the sections of a bundle.                  *)

\* The sections of a reader, each with its place.
LEMMA OrderFacts ==
  ASSUME NEW r
  PROVE  /\ r \in Exports => /\ Len(Order(r)) = 5
                             /\ Order(r)[1] = "core" /\ Order(r)[2] = "archive"
                             /\ Order(r)[3] = "entries" /\ Order(r)[4] = "adapts"
                             /\ Order(r)[5] = "memories"
         /\ r \notin Exports => /\ Len(Order(r)) = 2
                                /\ Order(r)[1] = "core" /\ Order(r)[2] = "adapts"
<1>1. CASE r \in Exports
  BY <1>1 DEF Order
<1>2. CASE r \notin Exports
  BY <1>2 DEF Order
<1> QED
  BY <1>1, <1>2

\* A statement that reads a section comes when the ones before it have run.
LEMMA PlaceOf ==
  ASSUME NEW r, NEW k \in Nat, k < Len(Order(r))
  PROVE  /\ Len(Order(r)) = IF r \in Exports THEN 5 ELSE 2
         /\ Order(r)[k + 1] = "core" => k = 0
         /\ Order(r)[k + 1] = "archive" => k = 1 /\ r \in Exports
         /\ Order(r)[k + 1] = "entries" => k = 2 /\ r \in Exports
         /\ Order(r)[k + 1] = "adapts" => k = IF r \in Exports THEN 3 ELSE 1
         /\ Order(r)[k + 1] = "memories" => k = 4 /\ r \in Exports
<1>1. CASE r \in Exports
  <2>1. /\ Len(Order(r)) = 5
        /\ Order(r)[1] = "core" /\ Order(r)[2] = "archive" /\ Order(r)[3] = "entries"
        /\ Order(r)[4] = "adapts" /\ Order(r)[5] = "memories"
    BY <1>1, OrderFacts, Zenon
  <2>2. k = 0 \/ k = 1 \/ k = 2 \/ k = 3 \/ k = 4
    BY <2>1
  <2> QED
    BY <1>1, <2>1, <2>2
<1>2. CASE r \notin Exports
  <2>1. Len(Order(r)) = 2 /\ Order(r)[1] = "core" /\ Order(r)[2] = "adapts"
    BY <1>2, OrderFacts, Zenon
  <2>2. k = 0 \/ k = 1
    BY <2>1
  <2> QED
    BY <1>2, <2>1, <2>2
<1> QED
  BY <1>1, <1>2

\* The highest version of a history from 1 to n.
LEMMA HighestOfHistory ==
  ASSUME NEW n \in Nat
  PROVE  Highest({Saved(v) : v \in 1..n}) = n
<1> DEFINE S == {0} \cup {d.version : d \in {Saved(v) : v \in 1..n}}
<1>1. S = 0..n
  <2>1. \A v \in 1..n : Saved(v).version = v
    BY DEF Saved
  <2>2. {d.version : d \in {Saved(v) : v \in 1..n}} = 1..n
    BY <2>1, Zenon
  <2> QED
    BY <2>2
<1> HIDE DEF S
<1>2. n \in S /\ \A y \in S : n >= y
  BY <1>1
<1>3. \A x \in S : (\A y \in S : x >= y) => x = n
  BY <1>1
<1>4. Max(S) = n
  BY <1>2, <1>3 DEF Max
<1> QED
  BY <1>4 DEF Highest, S

\* The number of the live version.
LEMMA Versions ==
  /\ \A n \in Nat : /\ Live(n) \in Document \cup {NoCore} /\ Version(Live(n)) = n
                    /\ Live(n) = NoCore <=> n = 0
  /\ \A n \in Nat : Saved(n) \in Document /\ Saved(n).version = n /\ Saved(n).text = n
  /\ \A doc \in Document : /\ doc # NoCore /\ Version(doc) = doc.version
                            /\ doc.version \in Nat /\ doc.text \in Nat
  /\ Version(NoCore) = 0
<1>1. \A n \in Nat : Saved(n) \in Document /\ Saved(n).version = n /\ Saved(n).text = n
  BY DEF Saved, Document
<1>2. \A doc \in Document : doc # NoCore /\ doc.version \in Nat /\ doc.text \in Nat
  BY ConstantsAssumption DEF Document
<1>3. \A n \in Nat \ {0} : Live(n) = Saved(n)
  BY DEF Live
<1>4. Live(0) = NoCore /\ Version(NoCore) = 0
  BY DEF Live, Version
<1>5. \A doc \in Document : Version(doc) = doc.version
  BY <1>2 DEF Version
<1>6. ASSUME NEW n \in Nat
      PROVE  /\ Live(n) \in Document \cup {NoCore} /\ Version(Live(n)) = n
             /\ Live(n) = NoCore <=> n = 0
  BY <1>1, <1>2, <1>3, <1>4, <1>5
<1> QED
  BY <1>1, <1>2, <1>4, <1>5, <1>6

LEMMA VersionOf ==
  ASSUME TypeOK
  PROVE  /\ Version(core[Source]) \in Nat /\ Version(core[Copy]) \in Nat
         /\ core[Source] \in Document \cup {NoCore} /\ core[Copy] \in Document \cup {NoCore}
<1>1. core[Source] \in Document \cup {NoCore} /\ core[Copy] \in Document \cup {NoCore}
  BY DEF TypeOK, Souls
<1> QED
  BY <1>1, Versions

\* The texts of a soul that has been saved as 1 to c, and of one that is at c
\* with a history from 1 to m - 1.
LEMMA TextsOfHistory ==
  ASSUME NEW c \in Nat, NEW m \in Nat, c <= m
  PROVE  LET texts == TextsIn(Live(c), {Saved(v) : v \in 1..(m - 1)})
         IN  1..c \subseteq texts /\ (c = m => texts \subseteq 1..c)
<1> DEFINE old == {Saved(v) : v \in 1..(m - 1)}
           docs == ({Live(c)} \ {NoCore}) \cup old
<1>1. \A v \in 1..(m - 1) : v \in Nat /\ Saved(v) \in old /\ Saved(v).text = v
  BY Versions
<1>2. \A d \in old : \E v \in 1..(m - 1) : d.text = v
  BY <1>1
<1>3. c # 0 => /\ Live(c) \in docs /\ Live(c).text = c
               /\ \A d \in docs : d = Live(c) \/ d \in old
  BY Versions DEF Live
<1>4. c = 0 => docs = old
  BY Versions
<1>5. TextsIn(Live(c), old) = {d.text : d \in docs}
  BY DEF TextsIn
<1>6. ASSUME NEW v \in 1..c PROVE \E d \in docs : d.text = v
  <2>1. CASE v = c
    BY <1>3, <2>1
  <2>2. CASE v # c
    <3>1. v \in 1..(m - 1)
      BY <2>2
    <3>2. Saved(v) \in docs /\ Saved(v).text = v
      BY <1>1, <3>1
    <3> QED
      BY <3>2
  <2> QED
    BY <2>1, <2>2
<1>7. ASSUME c = m, NEW d \in docs PROVE d.text \in 1..c
  BY <1>2, <1>3, <1>4, <1>7
<1> QED
  BY <1>5, <1>6, <1>7

\* More rows are about more lines.
LEMMA LinesGrow ==
  ASSUME NEW A, NEW B, A \subseteq B
  PROVE  LinesIn(A) \subseteq LinesIn(B)
  BY DEF LinesIn

\* Rows that differ in nothing but ids and heirs are about the same lines.
LEMMA SameLines ==
  ASSUME NEW A, NEW B,
         \A x \in A : \E y \in B : y.line = x.line /\ y.status = x.status,
         \A y \in B : \E x \in A : y.line = x.line /\ y.status = x.status
  PROVE  LinesIn(A) = LinesIn(B)
<1>1. ASSUME NEW l \in LinesIn(A) PROVE l \in LinesIn(B)
  <2>1. PICK x \in A : x.status = "active" /\ l = x.line
    BY <1>1 DEF LinesIn, IsActive
  <2>2. PICK y \in B : y.line = x.line /\ y.status = x.status
    BY <2>1
  <2> QED
    BY <2>1, <2>2 DEF LinesIn, IsActive
<1>2. ASSUME NEW l \in LinesIn(B) PROVE l \in LinesIn(A)
  <2>1. PICK y \in B : y.status = "active" /\ l = y.line
    BY <1>2 DEF LinesIn, IsActive
  <2>2. PICK x \in A : y.line = x.line /\ y.status = x.status
    BY <2>1
  <2> QED
    BY <2>1, <2>2 DEF LinesIn, IsActive
<1> QED
  BY <1>1, <1>2

\* What an export leaves out of a row does not change its line.
LEMMA ExportedLines ==
  ASSUME NEW A \in SUBSET Row
  PROVE  LinesIn(Exported(A)) = LinesIn(A) /\ Exported(A) \subseteq Row
<1>1. \A row \in A : /\ [row EXCEPT !.heir = Nobody] \in Row
                     /\ [row EXCEPT !.heir = Nobody].line = row.line
                     /\ [row EXCEPT !.heir = Nobody].status = row.status
  BY DEF Row, RowWith
<1>2. Exported(A) \subseteq Row
  BY <1>1 DEF Exported
<1>3. \A x \in A : \E y \in Exported(A) : y.line = x.line /\ y.status = x.status
  BY <1>1 DEF Exported
<1>4. \A y \in Exported(A) : \E x \in A : y.line = x.line /\ y.status = x.status
  BY <1>1 DEF Exported
<1>5. LinesIn(A) = LinesIn(Exported(A))
  BY <1>3, <1>4, SameLines
<1> QED
  BY <1>2, <1>5

\* Nor does leaving out the rows that are superseded.
LEMMA ActiveLines ==
  ASSUME NEW A
  PROVE  LinesIn({row \in A : IsActive(row)}) = LinesIn(A)
BY DEF LinesIn

\* An import gives every row it brings an id of its own, and changes no line.
LEMMA ImportedLines ==
  ASSUME NEW i \in Imports, Bundle(i).adapts \subseteq Row
  PROVE  LinesIn(AdaptationsOf(i)) = LinesIn(Bundle(i).adapts)
<1> DEFINE B == Bundle(i).adapts
<1>1. \A row \in B : /\ [row EXCEPT !.id = <<i, row.id>>].line = row.line
                     /\ [row EXCEPT !.id = <<i, row.id>>].status = row.status
  BY DEF Row, RowWith
<1>2. \A x \in B : \E y \in AdaptationsOf(i) : y.line = x.line /\ y.status = x.status
  BY <1>1 DEF AdaptationsOf
<1>3. \A y \in AdaptationsOf(i) : \E x \in B : y.line = x.line /\ y.status = x.status
  BY <1>1 DEF AdaptationsOf
<1>4. LinesIn(B) = LinesIn(AdaptationsOf(i))
  <2> HIDE DEF B
  <2> QED
    BY <1>2, <1>3, SameLines
<1> QED
  BY <1>4

---------------------------------------------------------------------------
(* What does not touch a part of the invariant keeps it.                   *)

LEMMA HeirsKept ==
  ASSUME HeirsOK, adapts'[Source] = adapts[Source], UNCHANGED <<target, earlier>>,
         \A p \in Supersedes : pc'[p] = pc[p],
         \A row \in adapts[Source] : row.id \in Supersedes => pc'[row.id] = pc[row.id]
  PROVE  HeirsOK'
BY DEF HeirsOK, Done, IsActive

LEMMA CopyStands ==
  ASSUME CopyOK, UNCHANGED <<souls, into, from>>,
         core'[Copy] = core[Copy], archive'[Copy] = archive[Copy],
         adapts'[Copy] = adapts[Copy],
         \A i \in Imports : /\ Done(i)' <=> Done(i)
                            /\ pc'[i] \notin {"idle", "failed"} => ReadAll(from[i])
                            /\ pc'[i] \in {"merging", "archived"} => Copy \in souls
                            /\ pc'[i] = "creating" => Copy \notin souls,
         \A i \in Imports : ReadAll(from[i]) =>
           reads'[from[i]] = reads[from[i]] /\ since'[from[i]] = since[from[i]]
  PROVE  CopyOK'
<1>1. \A i \in Imports : ReadAll(from[i]) => ReadAll(from[i])'
  BY DEF ReadAll, Order
<1>2. \A i \in Imports : /\ pc'[i] \notin {"idle", "failed"} => ReadAll(from[i])'
                         /\ into'[i] = IF Done(i)' THEN Copy ELSE NoSoul
  BY <1>1 DEF CopyOK
<1>3. core'[Copy] = NoCore => archive'[Copy] = {}
  BY DEF CopyOK
<1>4. Copy \notin souls' =>
        /\ core'[Copy] = NoCore
        /\ \A i \in Imports : pc'[i] \notin {"merging", "archived", "done"}
  BY DEF CopyOK, Done
<1>5. ASSUME Copy \in souls
      PROVE  \E i \in Imports :
               /\ Done(i)'
               /\ since'[from[i]].texts \subseteq TextsIn(core[Copy], archive[Copy])'
               /\ since'[from[i]].lines \subseteq LinesIn(adapts[Copy])'
  <2>1. PICK i \in Imports :
               /\ Done(i)
               /\ since[from[i]].texts \subseteq TextsIn(core[Copy], archive[Copy])
               /\ since[from[i]].lines \subseteq LinesIn(adapts[Copy])
    BY <1>5 DEF CopyOK
  <2>2. ReadAll(from[i])
    BY <2>1 DEF CopyOK, Done
  <2>3. since'[from[i]] = since[from[i]]
    BY <2>2
  <2>4. LinesIn(adapts[Copy])' = LinesIn(adapts[Copy])
    BY DEF LinesIn, IsActive
  <2>5. TextsIn(core[Copy], archive[Copy])' = TextsIn(core[Copy], archive[Copy])
    BY DEF TextsIn
  <2> QED
    BY <2>1, <2>3, <2>4, <2>5
<1> QED
  BY <1>2, <1>3, <1>4, <1>5 DEF CopyOK

LEMMA AuthorsKept ==
  ASSUME UNCHANGED from,
         \A i \in Imports : Done(i)' <=> Done(i),
         \A i \in Imports : Done(i) => bundle'[from[i]] = bundle[from[i]]
  PROVE  Authors' = Authors
<1>1. \A i \in Imports : Done(i) => Bundle(i)' = Bundle(i)
  BY DEF Bundle
<1> QED
  BY <1>1 DEF Authors

LEMMA CollisionsKept ==
  ASSUME CollisionsOverlap, Authors' = Authors, \A i \in Authors : prior'[i] = prior[i],
         core'[Copy] = core[Copy], archive'[Copy] = archive[Copy]
  PROVE  CollisionsOverlap'
BY DEF CollisionsOverlap, InTurn

\* A merge that does not move, or that ends, while nobody writes the self core.
LEMMA MergeKept ==
  ASSUME NEW i \in Imports, MergeOK(i), core'[Copy] = core[Copy],
         pc'[i] = pc[i] \/ pc'[i] \notin {"merging", "archived"},
         seen'[i] = seen[i], prior'[i] = prior[i], Authors' = Authors,
         \A j \in Imports : Done(j) => Done(j)', prior[i] \subseteq Imports,
         pc'[i] = "archived" => Bundle(i)' = Bundle(i)
  PROVE  MergeOK(i)'
<1>1. Version(core[Copy])' = Version(core[Copy])
  BY DEF Version
<1> QED
  BY <1>1 DEF MergeOK

\* The copy and the merges under a step of somebody else.
LEMMA CopyKept ==
  ASSUME CopyOK, \A i \in Imports : MergeOK(i), CollisionsOverlap, TypeOK,
         UNCHANGED <<souls, into, from, seen, prior>>,
         core'[Copy] = core[Copy], archive'[Copy] = archive[Copy],
         adapts'[Copy] = adapts[Copy],
         \A i \in Imports : pc'[i] = pc[i],
         \A i \in Imports : ReadAll(from[i]) =>
           /\ reads'[from[i]] = reads[from[i]] /\ since'[from[i]] = since[from[i]]
           /\ bundle'[from[i]] = bundle[from[i]]
  PROVE  CopyOK' /\ (\A i \in Imports : MergeOK(i)') /\ CollisionsOverlap'
<1>1. \A i \in Imports : Done(i)' <=> Done(i)
  BY DEF Done
<1>2. \A i \in Imports : pc[i] \notin {"idle", "failed"} => ReadAll(from[i])
  BY DEF CopyOK
<1>3. CopyOK'
  <2>1. \A i \in Imports : /\ pc[i] \in {"merging", "archived"} => Copy \in souls
                           /\ pc[i] = "creating" => Copy \notin souls
    BY DEF CopyOK
  <2> QED
    BY <1>1, <1>2, <2>1, CopyStands
<1>4. Authors' = Authors
  <2>1. \A i \in Imports : Done(i) => bundle'[from[i]] = bundle[from[i]]
    BY <1>2 DEF Done
  <2> QED
    BY <1>1, <2>1, AuthorsKept
<1>5. ASSUME NEW i \in Imports PROVE MergeOK(i)'
  <2>1. pc'[i] = "archived" => Bundle(i)' = Bundle(i)
    BY <1>2 DEF Bundle
  <2>2. prior[i] \subseteq Imports
    BY DEF TypeOK
  <2> QED
    BY <1>1, <1>4, <2>1, <2>2, MergeKept
<1>6. CollisionsOverlap'
  BY <1>4, CollisionsKept
<1> QED
  BY <1>3, <1>5, <1>6

LEMMA AddUpKept ==
  ASSUME CopiesAddUp, UNCHANGED <<into, from>>,
         memories'[Copy] = memories[Copy], adapts'[Copy] = adapts[Copy],
         entries'[Copy] = entries[Copy],
         \A i \in Imports : into[i] = Copy => bundle'[from[i]] = bundle[from[i]]
  PROVE  CopiesAddUp'
<1> DEFINE imported == {i \in Imports : into[i] = Copy}
<1>1. \A i \in imported : Bundle(i)' = Bundle(i)
  BY DEF Bundle
<1>2. \A i \in imported : /\ MemoriesOf(i)' = MemoriesOf(i)
                          /\ AdaptationsOf(i)' = AdaptationsOf(i)
  BY <1>1 DEF MemoriesOf, AdaptationsOf
<1>3. imported' = imported
  OBVIOUS
<1>4. /\ memories[Copy] = UNION {MemoriesOf(i) : i \in imported}
      /\ adapts[Copy] = UNION {AdaptationsOf(i) : i \in imported}
      /\ entries[Copy] = UNION {Bundle(i).entries : i \in imported}
  BY DEF CopiesAddUp
<1>5. /\ UNION {MemoriesOf(i) : i \in imported} = UNION {MemoriesOf(i)' : i \in imported}
      /\ UNION {AdaptationsOf(i) : i \in imported} = UNION {AdaptationsOf(i)' : i \in imported}
      /\ UNION {Bundle(i).entries : i \in imported} = UNION {Bundle(i)'.entries : i \in imported}
  <2> HIDE DEF imported
  <2> QED
    BY <1>1, <1>2
<1> QED
  BY <1>3, <1>4, <1>5 DEF CopiesAddUp

LEMMA ReadersKept ==
  ASSUME NEW r \in Readers, ReaderOK(r), reads'[r] = reads[r], bundle'[r] = bundle[r],
         since'[r] = since[r],
         Version(core[Source]) \in Nat, Version(core[Source])' \in Nat,
         Version(core[Source])' >= Version(core[Source]),
         LinesIn(adapts[Source]) \subseteq LinesIn(adapts[Source])'
  PROVE  ReaderOK(r)'
<1> DEFINE n == Version(core[Source])
<1>1. reads'[r] <= Len(Order(r))'
  BY DEF ReaderOK, Order
<1>2. ASSUME reads[r] >= 1
      PROVE  /\ since'[r].lines \subseteq LinesIn(adapts[Source])'
             /\ \E c \in 0..n' : bundle'[r].core = Live(c) /\ since'[r].texts \subseteq 1..c
  <2>1. PICK c \in 0..n : bundle[r].core = Live(c) /\ since[r].texts \subseteq 1..c
    BY <1>2 DEF ReaderOK
  <2>2. c \in 0..n'
    OBVIOUS
  <2> QED
    BY <1>2, <2>1, <2>2 DEF ReaderOK
<1>3. ASSUME r \in Exports, reads[r] >= 2
      PROVE  \E m \in Version(bundle[r].core)'..n' :
               bundle'[r].archive = {Saved(v) : v \in 1..(m - 1)}
  <2>1. PICK m \in Version(bundle[r].core)..n :
               bundle[r].archive = {Saved(v) : v \in 1..(m - 1)}
    BY <1>3 DEF ReaderOK
  <2>2. Version(bundle[r].core)' = Version(bundle[r].core)
    BY DEF Version
  <2>3. m \in Version(bundle[r].core)'..n'
    BY <2>2
  <2> QED
    BY <2>1, <2>3
<1>4. ASSUME reads[r] >= (IF r \in Exports THEN 4 ELSE 2)
      PROVE  since'[r].lines \subseteq LinesIn(bundle[r].adapts)'
  <2>1. LinesIn(bundle[r].adapts)' = LinesIn(bundle[r].adapts)
    BY DEF LinesIn, IsActive
  <2> QED
    BY <1>4, <2>1 DEF ReaderOK
<1> QED
  BY <1>1, <1>2, <1>3, <1>4 DEF ReaderOK

---------------------------------------------------------------------------
(* The initial states, and the writers of the source.                      *)

LEMMA InitOK ==
  ASSUME Init
  PROVE  BundleInv
<1> USE ConstantsAssumption
<1>1. core[Source] = NoCore /\ Version(NoCore) = 0 /\ Live(0) = NoCore
  BY Versions DEF Init, Souls
<1>2. TypeOK
  <2>1. bundle \in [Readers -> [core : Document \cup {NoCore}, archive : SUBSET Document,
                                adapts : SUBSET Row, entries : SUBSET Entries,
                                memories : SUBSET Memories]]
    BY DEF Init, Empty
  <2>2. since \in [Readers -> [texts : SUBSET Nat, lines : SUBSET Lines]]
    BY DEF Init
  <2>3. core \in [Souls -> Document \cup {NoCore}]
    BY <1>1 DEF Init, Souls
  <2>4. /\ \A i \in Imports : pc[i] \in {"creating", "archived"} <=> holder = i
        /\ seen \in [Imports -> Nat] /\ prior \in [Imports -> SUBSET Imports]
    BY DEF Init
  <2>5. /\ adapts \in [Souls -> SUBSET (Row \cup Brought)] /\ adapts[Source] \subseteq Row
        /\ memories \in [Souls -> SUBSET (Memories \cup (Imports \X Memories))]
        /\ memories[Source] \subseteq Memories
    BY DEF Init, Souls
  <2> QED
    BY <1>1, <2>1, <2>2, <2>3, <2>4, <2>5 DEF Init, TypeOK, Souls, Labels
<1>3. SourceOK
  <2>1. archive[Source] = {} /\ {Saved(v) : v \in 1..(0 - 1)} = {}
    BY DEF Init, Souls
  <2> QED
    BY <1>1, <2>1 DEF SourceOK
<1>4. HeirsOK
  BY DEF Init, HeirsOK, Done, Souls
<1>5. CopyOK
  BY DEF Init, CopyOK, Done, Souls
<1>6. CopiesAddUp
  <2>1. {i \in Imports : into[i] = Copy} = {}
    BY DEF Init, Souls
  <2>2. memories[Copy] = {} /\ adapts[Copy] = {} /\ entries[Copy] = {}
    BY DEF Init, Souls
  <2> QED
    BY <2>1, <2>2 DEF CopiesAddUp
<1>7. ASSUME NEW r \in Readers PROVE ReaderOK(r)
  <2>1. reads[r] = 0
    BY DEF Init
  <2> QED
    BY <2>1, OrderFacts DEF ReaderOK
<1>8. CollisionsOverlap
  BY DEF Init, CollisionsOverlap, Souls
<1>9. ASSUME NEW i \in Imports PROVE MergeOK(i)
  BY DEF Init, MergeOK
<1> QED
  BY <1>2, <1>3, <1>4, <1>5, <1>6, <1>7, <1>8, <1>9 DEF BundleInv

LEMMA SaveOK ==
  ASSUME BundleInv, Save
  PROVE  BundleInv'
<1> USE ConstantsAssumption DEF BundleInv
<1> DEFINE n == Version(core[Source])
<1>1. core[Source] = Live(n) /\ n \in Nat
  BY VersionOf DEF SourceOK
<1>2. /\ core'[Source] = Saved(n + 1) /\ Saved(n + 1) = Live(n + 1)
      /\ Version(core[Source])' = n + 1 /\ Saved(n + 1) \in Document
  <2>1. core'[Source] = Saved(n + 1)
    BY DEF Save, TypeOK, Souls
  <2>2. Saved(n + 1) \in Document /\ Saved(n + 1).version = n + 1
    BY <1>1, Versions
  <2>3. Version(core'[Source]) = n + 1
    BY <2>1, <2>2, Versions
  <2>4. Version(core'[Source]) = Version(core[Source])'
    BY DEF Version
  <2> HIDE DEF n
  <2> QED
    BY <1>1, <2>1, <2>2, <2>3, <2>4 DEF Live
<1>3. /\ core'[Copy] = core[Copy] /\ archive'[Copy] = archive[Copy]
      /\ archive'[Source] = archive[Source] \cup ({core[Source]} \ {NoCore})
  BY DEF Save, TypeOK, Souls
<1>4. UNCHANGED <<adapts, entries, memories, pc, reading, importing, superseding>>
  BY DEF Save
<1>5. TypeOK'
  <2>1. core' \in [Souls -> Document \cup {NoCore}]
    BY <1>2 DEF Save, TypeOK
  <2>2. archive' \in [Souls -> SUBSET Document]
    <3>1. {core[Source]} \ {NoCore} \in SUBSET Document
      BY DEF TypeOK, Souls
    <3> QED
      BY <3>1 DEF Save, TypeOK, Souls
  <2> QED
    BY <1>4, <2>1, <2>2 DEF TypeOK, reading, importing, superseding
<1>6. SourceOK'
  <2>1. {core[Source]} \ {NoCore} = IF n = 0 THEN {} ELSE {Saved(n)}
    <3> HIDE DEF n
    <3> QED
      BY <1>1, Versions DEF Live
  <2>2. archive[Source] = {Saved(v) : v \in 1..(n - 1)}
    BY DEF SourceOK
  <2>3. archive'[Source] = {Saved(v) : v \in 1..n}
    <3> HIDE DEF n
    <3>1. CASE n = 0
      BY <1>3, <2>1, <2>2, <3>1
    <3>2. CASE n # 0
      <4>1. 1..n = 1..(n - 1) \cup {n}
        BY <1>1, <3>2
      <4>2. {Saved(v) : v \in 1..(n - 1)} \cup {Saved(n)} = {Saved(v) : v \in 1..n}
        BY <4>1, Zenon
      <4> QED
        BY <1>3, <2>1, <2>2, <3>2, <4>2
    <3> QED
      BY <3>1, <3>2
  <2> DEFINE k == Version(core'[Source])
  <2>4. k = n + 1 /\ k - 1 = n
    BY <1>1, <1>2
  <2>5. core'[Source] = Live(k)
    BY <1>2, <2>4
  <2> HIDE DEF n, k
  <2>6. archive'[Source] = {Saved(v) : v \in 1..(k - 1)}
    BY <2>3, <2>4
  <2> QED
    BY <2>5, <2>6 DEF SourceOK, k
<1>7. HeirsOK'
  BY <1>4, HeirsKept DEF superseding
<1>8. CopyOK' /\ (\A i \in Imports : MergeOK(i)') /\ CollisionsOverlap'
  BY <1>3, <1>4, CopyKept DEF importing, reading
<1>9. CopiesAddUp'
  BY <1>4, AddUpKept DEF importing, reading
<1>10. ASSUME NEW r \in Readers PROVE ReaderOK(r)'
  <2>1. LinesIn(adapts[Source])' = LinesIn(adapts[Source])
    BY <1>4 DEF LinesIn, IsActive
  <2>2. n \in Nat /\ Version(core[Source])' \in Nat /\ Version(core[Source])' >= n
    BY <1>1, <1>2
  <2> QED
    BY <1>4, <2>1, <2>2, ReadersKept DEF reading
<1> QED
  BY <1>5, <1>6, <1>7, <1>8, <1>9, <1>10

\* Facts, properties and memories of the source say nothing of its core and
\* its adaptations.
LEMMA EnterOrRememberOK ==
  ASSUME BundleInv,
         \/ \E e \in Entries : Enter(e)
         \/ \E m \in Memories : Remember(m)
  PROVE  BundleInv'
<1> USE ConstantsAssumption DEF BundleInv
<1>1. /\ UNCHANGED <<core, archive, adapts, pc, reading, importing, superseding>>
      /\ entries'[Copy] = entries[Copy] /\ memories'[Copy] = memories[Copy]
      /\ entries' \in [Souls -> SUBSET Entries]
      /\ memories' \in [Souls -> SUBSET (Memories \cup (Imports \X Memories))]
      /\ memories'[Source] \subseteq Memories
  <2>1. CASE \E e \in Entries : Enter(e)
    <3>1. PICK e \in Entries : Enter(e)
      BY <2>1
    <3> QED
      BY <3>1 DEF Enter, TypeOK, Souls
  <2>2. CASE \E m \in Memories : Remember(m)
    <3>1. PICK m \in Memories : Remember(m)
      BY <2>2
    <3> QED
      BY <3>1 DEF Remember, TypeOK, Souls
  <2> QED
    BY <2>1, <2>2
<1>2. TypeOK'
  BY <1>1 DEF TypeOK, reading, importing, superseding
<1>3. SourceOK'
  BY <1>1 DEF SourceOK, Version, Live
<1>4. HeirsOK'
  BY <1>1, HeirsKept DEF superseding
<1>5. CopyOK' /\ (\A i \in Imports : MergeOK(i)') /\ CollisionsOverlap'
  BY <1>1, CopyKept DEF importing, reading
<1>6. CopiesAddUp'
  BY <1>1, AddUpKept DEF importing, reading
<1>7. ASSUME NEW r \in Readers PROVE ReaderOK(r)'
  <2>1. LinesIn(adapts[Source])' = LinesIn(adapts[Source])
    BY <1>1 DEF LinesIn, IsActive
  <2>2. Version(core[Source]) \in Nat /\ Version(core[Source])' = Version(core[Source])
    BY <1>1, VersionOf DEF Version
  <2> QED
    BY <1>1, <2>1, <2>2, ReadersKept DEF reading
<1> QED
  BY <1>2, <1>3, <1>4, <1>5, <1>6, <1>7

---------------------------------------------------------------------------
(* soulctl adaptation add and supersede.                                   *)

\* What writes only adaptations of the source and takes no line away keeps the
\* invariant if it keeps the types and what is said of heirs.
LEMMA AdaptsWritten ==
  ASSUME BundleInv, UNCHANGED <<core, archive, entries, memories, reading, importing>>,
         TypeOK', HeirsOK', adapts'[Copy] = adapts[Copy],
         \A i \in Imports : pc'[i] = pc[i],
         LinesIn(adapts[Source]) \subseteq LinesIn(adapts'[Source])
  PROVE  BundleInv'
<1> USE DEF BundleInv
<1>1. SourceOK'
  BY DEF SourceOK, Version, Live
<1>2. CopyOK' /\ (\A i \in Imports : MergeOK(i)') /\ CollisionsOverlap'
  BY CopyKept DEF importing, reading
<1>3. CopiesAddUp'
  BY AddUpKept DEF importing, reading
<1>4. ASSUME NEW r \in Readers PROVE ReaderOK(r)'
  <2>1. LinesIn(adapts'[Source]) = LinesIn(adapts[Source])'
    BY DEF LinesIn, IsActive
  <2>2. Version(core[Source]) \in Nat /\ Version(core[Source])' = Version(core[Source])
    BY VersionOf DEF Version
  <2> QED
    BY <2>1, <2>2, ReadersKept DEF reading
<1> QED
  BY <1>1, <1>2, <1>3, <1>4

LEMMA AddAdaptationOK ==
  ASSUME BundleInv, NEW l \in Lines, AddAdaptation(l)
  PROVE  BundleInv'
<1> USE ConstantsAssumption DEF BundleInv
<1> DEFINE A == adapts[Source]
           new == New(l, l)
<1>1. /\ UNCHANGED <<core, archive, entries, memories, pc, reading, importing, superseding>>
      /\ \A row \in A : row.id # l
  BY DEF AddAdaptation
<1>2. new \in Row /\ new.id = l /\ new.line = l
  BY DEF New, Row, RowWith, Origins
<1>3. adapts'[Source] = A \cup {new} /\ adapts'[Copy] = adapts[Copy]
  BY DEF AddAdaptation, TypeOK, Souls
<1>4. TypeOK'
  <2>1. adapts' \in [Souls -> SUBSET (Row \cup Brought)]
    BY <1>2 DEF AddAdaptation, TypeOK, Souls
  <2>2. adapts'[Source] \subseteq Row
    BY <1>2, <1>3 DEF TypeOK
  <2> QED
    BY <1>1, <2>1, <2>2 DEF TypeOK, reading, importing, superseding
<1>5. HeirsOK'
  <2> HIDE DEF new
  <2>1. \A p \in Supersedes : pc[p] # "idle" => target[p].id # l
    BY <1>1 DEF HeirsOK
  <2>2. l \notin Supersedes
    OBVIOUS
  <2>3. /\ \A a, b \in adapts'[Source] : a.id = b.id => a = b
        /\ \A row \in adapts'[Source] : row.id \in Supersedes => Done(row.id)'
    BY <1>1, <1>2, <1>3, <2>2 DEF HeirsOK, Done
  <2>4. ASSUME NEW p \in Supersedes, pc[p] # "idle"
        PROVE  /\ target[p] # NoRow
               /\ earlier[p] = {}
               /\ \E x \in adapts'[Source] : x.id = target[p].id
               /\ \A x \in adapts'[Source] : x.id = target[p].id =>
                    x.line = target[p].line /\ (Done(p) => ~IsActive(x))
    BY <1>2, <1>3, <2>1, <2>4 DEF HeirsOK
  <2> QED
    BY <1>1, <2>3, <2>4 DEF HeirsOK, Done, superseding, IsActive
<1>6. LinesIn(A) \subseteq LinesIn(adapts'[Source])
  BY <1>3, LinesGrow
<1> QED
  BY <1>1, <1>3, <1>4, <1>5, <1>6, AdaptsWritten

\* Whoever superseded the row before would have left it inactive.
LEMMA FindActiveOK ==
  ASSUME BundleInv, NEW p \in Supersedes, FindActive(p)
  PROVE  BundleInv'
<1> USE ConstantsAssumption DEF BundleInv
<1>1. PICK row \in adapts[Source] :
        /\ IsActive(row)
        /\ target' = [target EXCEPT ![p] = row]
        /\ earlier' = [earlier EXCEPT ![p] = Replacing(row.id)]
  BY DEF FindActive
<1>2. /\ UNCHANGED <<data, reading, importing>> /\ pc[p] = "idle"
      /\ pc' = [pc EXCEPT ![p] = "found"]
  BY DEF FindActive, Goto
<1>3. Replacing(row.id) = {}
  BY <1>1 DEF Replacing, HeirsOK, Done
<1>4. row \in Row /\ row # NoRow
  BY DEF TypeOK
<1>5. /\ pc' \in [Imports \cup Supersedes -> Labels]
      /\ pc'[p] = "found"
      /\ \A i \in Imports : pc'[i] = pc[i]
      /\ \A q \in Supersedes \ {p} : pc'[q] = pc[q]
  BY <1>2 DEF TypeOK, Labels
<1>6. /\ target' \in [Supersedes -> Row \cup {NoRow}] /\ target'[p] = row
      /\ \A q \in Supersedes \ {p} : target'[q] = target[q]
  BY <1>1, <1>4 DEF TypeOK
<1>7. /\ earlier' \in [Supersedes -> SUBSET Supersedes] /\ earlier'[p] = {}
      /\ \A q \in Supersedes \ {p} : earlier'[q] = earlier[q]
  BY <1>1, <1>3 DEF TypeOK
<1>8. TypeOK'
  BY <1>2, <1>5, <1>6, <1>7 DEF TypeOK, data, reading, importing
<1>9. HeirsOK'
  <2>1. adapts' = adapts
    BY <1>2 DEF data
  <2>2. \A q \in Supersedes : Done(q)' <=> Done(q)
    BY <1>2, <1>5 DEF Done
  <2>3. ASSUME NEW q \in Supersedes, pc'[q] # "idle"
        PROVE  /\ target'[q] # NoRow
               /\ earlier'[q] = {}
               /\ \E x \in adapts'[Source] : x.id = target'[q].id
               /\ \A x \in adapts'[Source] : x.id = target'[q].id =>
                    x.line = target'[q].line /\ (Done(q)' => ~IsActive(x))
    <3>1. CASE q = p
      <4>1. ~Done(p)'
        BY <1>5 DEF Done
      <4> QED
        BY <1>4, <1>6, <1>7, <2>1, <3>1, <4>1 DEF HeirsOK
    <3>2. CASE q # p
      BY <1>5, <1>6, <1>7, <2>1, <2>2, <2>3, <3>2 DEF HeirsOK
    <3> QED
      BY <3>1, <3>2
  <2> QED
    BY <2>1, <2>2, <2>3 DEF HeirsOK, IsActive
<1> QED
  BY <1>2, <1>5, <1>8, <1>9, AdaptsWritten DEF data

\* The row that is replaced and its successor are about the same line, so that
\* no line is ever without an active row again.
LEMMA ReplaceOK ==
  ASSUME BundleInv, NEW p \in Supersedes, Replace(p)
  PROVE  BundleInv'
<1> USE ConstantsAssumption DEF BundleInv
<1> DEFINE A == adapts[Source]
           id == target[p].id
           out(row) == [row EXCEPT !.status = "superseded", !.heir = p]
           new == New(p, target[p].line)
<1>1. /\ pc[p] = "found" /\ pc' = [pc EXCEPT ![p] = "done"]
      /\ UNCHANGED <<core, archive, entries, memories, reading, importing, superseding>>
  BY DEF Replace, Goto
<1>2. /\ pc' \in [Imports \cup Supersedes -> Labels]
      /\ Done(p)' /\ ~Done(p)
      /\ \A i \in Imports : pc'[i] = pc[i]
      /\ \A q \in Supersedes \ {p} : pc'[q] = pc[q]
  BY <1>1 DEF TypeOK, Done, Labels
<1>3. /\ adapts'[Source] = Marked(A, id, p) \cup {new}
      /\ adapts'[Copy] = adapts[Copy]
  BY DEF Replace, TypeOK, Souls
<1>4. target[p] \in Row /\ \E row \in A : row.id = id
  BY <1>1 DEF TypeOK, HeirsOK
<1>5. /\ new \in Row /\ new.id = p /\ new.line = target[p].line
      /\ new.status = "active"
  BY <1>4 DEF New, Row, RowWith, Origins
<1>6. \A row \in A : /\ out(row) \in Row /\ out(row).id = row.id
                     /\ out(row).line = row.line /\ out(row).status = "superseded"
  <2>1. \A row \in A : row \in Row
    BY DEF TypeOK
  <2> QED
    BY <2>1 DEF Row, RowWith
<1>7. \A x \in Marked(A, id, p) :
        \E row \in A : x = IF row.id = id THEN out(row) ELSE row
  BY DEF Marked
<1>8. \A row \in A : (IF row.id = id THEN out(row) ELSE row) \in Marked(A, id, p)
  BY DEF Marked
<1>9. ASSUME NEW x \in Marked(A, id, p)
      PROVE  /\ x \in Row
             /\ x.id = id => x.status = "superseded"
             /\ \E row \in A : /\ x.id = row.id /\ x.line = row.line
                               /\ x = IF row.id = id THEN out(row) ELSE row
                               /\ x.status = "active" => row.status = "active"
  <2>1. PICK row \in A : x = IF row.id = id THEN out(row) ELSE row
    BY <1>7
  <2>2. row \in Row
    BY DEF TypeOK
  <2> HIDE DEF out, A, id
  <2>3. x.id = row.id /\ x.line = row.line /\ x \in Row
    BY <1>6, <2>1, <2>2
  <2>4. x.id = id => x.status = "superseded"
    BY <1>6, <2>1, <2>3
  <2>5. x.status = "active" => row.status = "active"
    BY <1>6, <2>1
  <2> QED
    BY <2>1, <2>3, <2>4, <2>5
<1> HIDE DEF out, new, A, id
<1>10. adapts'[Source] \subseteq Row
  BY <1>3, <1>5, <1>9
<1>11. TypeOK'
  <2>1. adapts' \in [Souls -> SUBSET (Row \cup Brought)]
    <3>1. adapts' = [adapts EXCEPT ![Source] = adapts'[Source]]
      BY <1>3 DEF Replace, TypeOK, Souls
    <3> QED
      BY <1>10, <3>1 DEF TypeOK
  <2> QED
    BY <1>1, <1>2, <1>10, <2>1 DEF TypeOK, reading, importing, superseding
<1>12. \A row \in A : row.id # p
  BY <1>2 DEF HeirsOK, A
<1>13. HeirsOK'
  <2>1. \A q \in Supersedes : pc[q] # "idle" => target[q].id # p
    BY <1>12 DEF HeirsOK, A
  <2>2. \A a, b \in adapts'[Source] : a.id = b.id => a = b
    <3>1. \A a, b \in Marked(A, id, p) : a.id = b.id => a = b
      BY <1>9 DEF HeirsOK, A
    <3>2. \A x \in Marked(A, id, p) : x.id # p
      BY <1>9, <1>12
    <3> QED
      BY <1>3, <1>5, <3>1, <3>2
  <2>3. \A row \in adapts'[Source] : row.id \in Supersedes => Done(row.id)'
    BY <1>2, <1>3, <1>5, <1>9 DEF HeirsOK, A, Done
  <2>4. ASSUME NEW q \in Supersedes, pc'[q] # "idle"
        PROVE  /\ target[q] # NoRow
               /\ earlier[q] = {}
               /\ \E x \in adapts'[Source] : x.id = target[q].id
               /\ \A x \in adapts'[Source] : x.id = target[q].id =>
                    x.line = target[q].line /\ (Done(q)' => ~IsActive(x))
    <3>1. pc[q] # "idle"
      BY <1>1, <1>2, <2>4
    <3>2. target[q] # NoRow /\ earlier[q] = {}
      BY <3>1 DEF HeirsOK
    <3>3. PICK row \in A : row.id = target[q].id
      BY <3>1 DEF HeirsOK, A
    <3>4. \E x \in adapts'[Source] : x.id = target[q].id
      BY <1>3, <1>6, <1>8, <3>3
    <3>5. ASSUME NEW x \in adapts'[Source], x.id = target[q].id
          PROVE  x.line = target[q].line /\ (Done(q)' => ~IsActive(x))
      <4>1. x \in Marked(A, id, p)
        BY <1>3, <1>5, <2>1, <3>1, <3>5
      <4>2. PICK y \in A : /\ x.id = y.id /\ x.line = y.line
                           /\ x.status = "active" => y.status = "active"
        BY <1>9, <4>1
      <4>3. y.line = target[q].line /\ (Done(q) => ~IsActive(y))
        BY <3>1, <3>5, <4>2 DEF HeirsOK, A
      <4>4. CASE q = p
        BY <1>9, <3>5, <4>1, <4>2, <4>3, <4>4 DEF id, IsActive
      <4>5. CASE q # p
        BY <1>2, <4>2, <4>3, <4>5 DEF IsActive, Done
      <4> QED
        BY <4>4, <4>5
    <3> QED
      BY <3>2, <3>4, <3>5
  <2> QED
    BY <1>1, <2>2, <2>3, <2>4 DEF HeirsOK, superseding, Done, IsActive
<1>14. LinesIn(A) \subseteq LinesIn(adapts'[Source])
  <2>1. ASSUME NEW l \in LinesIn(A) PROVE l \in LinesIn(adapts'[Source])
    <3>1. PICK row \in A : row.status = "active" /\ l = row.line
      BY <2>1 DEF LinesIn, IsActive
    <3>2. CASE row.id = id
      <4>1. row.line = target[p].line
        BY <1>1, <3>1, <3>2 DEF HeirsOK, A, id
      <4> QED
        BY <1>3, <1>5, <3>1, <4>1 DEF LinesIn, IsActive
    <3>3. CASE row.id # id
      <4>1. row \in adapts'[Source]
        BY <1>3, <1>8, <3>1, <3>3
      <4> QED
        BY <3>1, <4>1 DEF LinesIn, IsActive
    <3> QED
      BY <3>2, <3>3
  <2> QED
    BY <2>1
<1> QED
  BY <1>1, <1>2, <1>3, <1>11, <1>13, <1>14, AdaptsWritten DEF A

---------------------------------------------------------------------------
(* The readers.                                                            *)

Sections == [core : Document \cup {NoCore}, archive : SUBSET Document, adapts : SUBSET Row,
             entries : SUBSET Entries, memories : SUBSET Memories]

\* A statement of a reader disturbs nobody else; the exports that an import
\* brings have read everything before.
LEMMA SelectOK ==
  ASSUME BundleInv, NEW r \in Readers, NEW section, Select(r, section),
         NEW b \in Sections, bundle' = [bundle EXCEPT ![r] = b], ReaderOK(r)'
  PROVE  BundleInv'
<1> USE ConstantsAssumption DEF BundleInv
<1>1. /\ UNCHANGED <<data, pc, whole, importing, superseding>>
      /\ reads' = [reads EXCEPT ![r] = @ + 1] /\ reads[r] < Len(Order(r))
      /\ since' = IF reads[r] > 0 THEN since
                  ELSE [since EXCEPT ![r] = [texts |-> TextsIn(core[Source], archive[Source]),
                                             lines |-> LinesIn(adapts[Source])]]
  BY DEF Select
<1>2. \A q \in Readers \ {r} :
        reads'[q] = reads[q] /\ bundle'[q] = bundle[q] /\ since'[q] = since[q]
  BY <1>1 DEF TypeOK
<1>3. TypeOK'
  <2>1. TextsIn(core[Source], archive[Source]) \in SUBSET Nat
    <3>1. \A d \in ({core[Source]} \ {NoCore}) \cup archive[Source] : d.text \in Nat
      BY DEF TypeOK, Souls, Document
    <3> QED
      BY <3>1 DEF TextsIn
  <2>2. LinesIn(adapts[Source]) \in SUBSET Lines
    BY DEF TypeOK, LinesIn, Row, RowWith
  <2>3. since' \in [Readers -> [texts : SUBSET Nat, lines : SUBSET Lines]]
    BY <1>1, <2>1, <2>2 DEF TypeOK
  <2>4. reads' \in [Readers -> Nat]
    BY <1>1 DEF TypeOK
  <2>5. bundle' \in [Readers -> Sections]
    BY DEF TypeOK, Sections
  <2> QED
    BY <1>1, <2>3, <2>4, <2>5 DEF TypeOK, Sections, data, importing, superseding
<1>4. SourceOK'
  BY <1>1 DEF SourceOK, data, Version, Live
<1>5. HeirsOK'
  BY <1>1, HeirsKept DEF data, superseding
<1>6. \A i \in Imports : ReadAll(from[i]) => from[i] \in Readers \ {r}
  BY <1>1 DEF ReadAll, TypeOK, Readers
<1>7. CopyOK' /\ (\A i \in Imports : MergeOK(i)') /\ CollisionsOverlap'
  BY <1>1, <1>2, <1>6, CopyKept DEF data, importing
<1>8. CopiesAddUp'
  <2>1. \A i \in Imports : into[i] = Copy => ReadAll(from[i])
    BY DEF CopyOK, Souls, Done
  <2> QED
    BY <1>1, <1>2, <1>6, <2>1, AddUpKept DEF data, importing
<1>9. ASSUME NEW q \in Readers PROVE ReaderOK(q)'
  <2>1. CASE q = r
    BY <2>1
  <2>2. CASE q # r
    <3>1. LinesIn(adapts[Source])' = LinesIn(adapts[Source])
      BY <1>1 DEF LinesIn, IsActive, data
    <3>2. Version(core[Source]) \in Nat /\ Version(core[Source])' = Version(core[Source])
      BY <1>1, VersionOf DEF Version, data
    <3> QED
      BY <1>1, <1>2, <2>2, <3>1, <3>2, ReadersKept DEF data
  <2> QED
    BY <2>1, <2>2
<1> QED
  BY <1>3, <1>4, <1>5, <1>7, <1>8, <1>9

\* What every statement of a reader leaves as it is.
LEMMA SelectKeeps ==
  ASSUME BundleInv, NEW r \in Readers, NEW section, Select(r, section)
  PROVE  /\ reads[r] \in Nat /\ reads'[r] = reads[r] + 1 /\ reads[r] < Len(Order(r))
         /\ core' = core /\ adapts' = adapts /\ Order(r)' = Order(r)
         /\ LinesIn(adapts[Source])' = LinesIn(adapts[Source])
         /\ Order(r)[reads[r] + 1] = section
         /\ reads[r] > 0 => since'[r] = since[r]
         /\ bundle[r] \in Sections /\ Version(core[Source]) \in Nat
         /\ Version(core[Source])' = Version(core[Source])
<1>1. Order(r)' = Order(r)
  BY DEF Order
<1>2. UNCHANGED adapts
  BY DEF Select, data
<1>3. LinesIn(adapts[Source])' = LinesIn(adapts[Source])
  BY <1>2 DEF LinesIn, IsActive
<1>4. Version(core[Source]) \in Nat /\ Version(core[Source])' = Version(core[Source])
  BY VersionOf DEF BundleInv, Select, data, Version
<1> QED
  BY <1>1, <1>2, <1>3, <1>4 DEF Select, data, BundleInv, TypeOK, Sections

\* The first statement of every reader.
LEMMA ReadCoreOK ==
  ASSUME BundleInv, NEW r \in Readers, ReadCore(r)
  PROVE  BundleInv'
<1> USE ConstantsAssumption
<1> DEFINE n == Version(core[Source])
           b == [bundle[r] EXCEPT !.core = core[Source]]
<1>1. Select(r, "core") /\ bundle' = [bundle EXCEPT ![r] = b]
  BY DEF ReadCore
<1>2. /\ reads[r] \in Nat /\ reads'[r] = reads[r] + 1 /\ reads[r] < Len(Order(r))
      /\ core' = core /\ Order(r)' = Order(r)
      /\ LinesIn(adapts[Source])' = LinesIn(adapts[Source])
      /\ Order(r)[reads[r] + 1] = "core"
      /\ bundle[r] \in Sections /\ n \in Nat /\ n' = n
  BY <1>1, SelectKeeps
<1>3. b \in Sections /\ b.core = core[Source]
  BY <1>2 DEF Sections, BundleInv, TypeOK, Souls
<1>4. reads[r] = 0 /\ Len(Order(r)) >= 1
  BY <1>2, PlaceOf
<1>5. /\ bundle'[r] = b
      /\ since'[r] = [texts |-> TextsIn(core[Source], archive[Source]),
                      lines |-> LinesIn(adapts[Source])]
  BY <1>1, <1>4 DEF BundleInv, TypeOK, Select
<1>6. TextsIn(core[Source], archive[Source]) \subseteq 1..n /\ core[Source] = Live(n)
  <2>1. core[Source] = Live(n) /\ archive[Source] = {Saved(v) : v \in 1..(n - 1)}
    BY DEF BundleInv, SourceOK
  <2> HIDE DEF n
  <2> QED
    BY <1>2, <2>1, TextsOfHistory
<1>7. ReaderOK(r)'
  <2>1. since'[r].lines \subseteq LinesIn(adapts[Source])'
    BY <1>2, <1>5
  <2>2. \E c \in 0..n' : bundle'[r].core = Live(c) /\ since'[r].texts \subseteq 1..c
    <3>1. n' = n /\ n \in 0..n
      BY <1>2, <1>6
    <3>2. bundle'[r].core = Live(n)
      BY <1>3, <1>5, <1>6
    <3>3. since'[r].texts \subseteq 1..n
      BY <1>5, <1>6
    <3> HIDE DEF n
    <3> QED
      BY <3>1, <3>2, <3>3
  <2>3. reads'[r] = 1 /\ reads'[r] <= Len(Order(r))'
    BY <1>2, <1>4
  <2> QED
    BY <2>1, <2>2, <2>3 DEF ReaderOK
<1> QED
  BY <1>1, <1>3, <1>7, SelectOK

\* Every later one, if the history and the adaptations it leaves in the bundle
\* are as they should be.
LEMMA ReadOnOK ==
  ASSUME BundleInv, NEW r \in Readers, NEW section, Select(r, section), section # "core",
         NEW b \in Sections, bundle' = [bundle EXCEPT ![r] = b], b.core = bundle[r].core,
         r \in Exports => \E m \in Version(b.core)..Version(core[Source]) :
                            b.archive = {Saved(v) : v \in 1..(m - 1)},
         reads[r] + 1 >= (IF r \in Exports THEN 4 ELSE 2) =>
           since[r].lines \subseteq LinesIn(b.adapts)
  PROVE  BundleInv'
<1> USE ConstantsAssumption
<1> DEFINE n == Version(core[Source])
<1>1. /\ reads[r] \in Nat /\ reads'[r] = reads[r] + 1 /\ reads[r] < Len(Order(r))
      /\ core' = core /\ Order(r)' = Order(r)
      /\ LinesIn(adapts[Source])' = LinesIn(adapts[Source])
      /\ Order(r)[reads[r] + 1] = section
      /\ reads[r] > 0 => since'[r] = since[r]
      /\ n' = n
  BY SelectKeeps
<1>2. Order(r)[1] = "core"
  BY OrderFacts
<1>3. reads[r] >= 1 /\ since'[r] = since[r]
  BY <1>1, <1>2
<1>4. bundle'[r] = b
  BY DEF BundleInv, TypeOK
<1>5. ReaderOK(r)
  BY DEF BundleInv
<1>6. /\ since'[r].lines \subseteq LinesIn(adapts[Source])'
      /\ \E c \in 0..n' : bundle'[r].core = Live(c) /\ since'[r].texts \subseteq 1..c
  <2>1. PICK c \in 0..n : bundle[r].core = Live(c) /\ since[r].texts \subseteq 1..c
    BY <1>3, <1>5 DEF ReaderOK
  <2>2. since[r].lines \subseteq LinesIn(adapts[Source])
    BY <1>3, <1>5 DEF ReaderOK
  <2>3. n' = n
    BY <1>1
  <2> HIDE DEF n
  <2> QED
    BY <1>1, <1>3, <1>4, <2>1, <2>2, <2>3
<1>7. reads'[r] <= Len(Order(r))'
  BY <1>1, PlaceOf
<1>8. r \in Exports /\ reads'[r] >= 2 =>
        \E m \in Version(bundle[r].core)'..n' :
          bundle'[r].archive = {Saved(v) : v \in 1..(m - 1)}
  <2>1. Version(bundle[r].core)' = Version(b.core)
    BY <1>4 DEF Version
  <2> HIDE DEF n
  <2> QED
    BY <1>1, <1>4, <2>1 DEF n
<1>9. ASSUME reads'[r] >= (IF r \in Exports THEN 4 ELSE 2)
      PROVE  since'[r].lines \subseteq LinesIn(bundle[r].adapts)'
  <2>1. LinesIn(bundle[r].adapts)' = LinesIn(b.adapts)
    BY <1>4 DEF LinesIn, IsActive
  <2> QED
    BY <1>1, <1>3, <1>9, <2>1
<1>10. ReaderOK(r)'
  BY <1>6, <1>7, <1>8, <1>9 DEF ReaderOK
<1> QED
  BY <1>10, SelectOK

\* The history is read after the version that it does not hold yet.
LEMMA ReadHistoryOK ==
  ASSUME BundleInv, NEW r \in Readers, ReadHistory(r)
  PROVE  BundleInv'
<1> USE ConstantsAssumption
<1> DEFINE n == Version(core[Source])
           b == [bundle[r] EXCEPT !.archive = archive[Source]]
<1>1. Select(r, "archive") /\ bundle' = [bundle EXCEPT ![r] = b]
  BY DEF ReadHistory
<1>2. /\ reads[r] \in Nat /\ reads[r] < Len(Order(r)) /\ Order(r)[reads[r] + 1] = "archive"
      /\ bundle[r] \in Sections /\ n \in Nat
  BY <1>1, SelectKeeps
<1>3. reads[r] = 1 /\ r \in Exports
  BY <1>2, PlaceOf
<1>4. b \in Sections /\ b.core = bundle[r].core /\ b.archive = archive[Source]
  BY <1>2 DEF Sections, BundleInv, TypeOK, Souls
<1>5. Version(b.core) \in Nat /\ Version(b.core) <= n
  <2>1. PICK c \in 0..n : bundle[r].core = Live(c)
    BY <1>3 DEF BundleInv, ReaderOK
  <2>2. Version(b.core) = c
    BY <1>2, <1>4, <2>1, Versions
  <2> QED
    BY <1>2, <2>2
<1>6. \E m \in Version(b.core)..n : b.archive = {Saved(v) : v \in 1..(m - 1)}
  <2>1. archive[Source] = {Saved(v) : v \in 1..(n - 1)}
    BY DEF BundleInv, SourceOK
  <2>2. n \in Version(b.core)..n
    BY <1>2, <1>5
  <2> QED
    BY <1>4, <2>1, <2>2
<1>7. ~(reads[r] + 1 >= (IF r \in Exports THEN 4 ELSE 2))
  BY <1>3
<1>8. "archive" # "core"
  OBVIOUS
<1> HIDE DEF b
<1> QED
  BY <1>1, <1>3, <1>4, <1>6, <1>7, <1>8, ReadOnOK

\* What a reader has of the history, once it has read it.
LEMMA HistoryRead ==
  ASSUME BundleInv, NEW r \in Exports, reads[r] >= 2
  PROVE  \E m \in Version(bundle[r].core)..Version(core[Source]) :
           bundle[r].archive = {Saved(v) : v \in 1..(m - 1)}
BY DEF BundleInv, ReaderOK, Readers

LEMMA ReadEntriesOK ==
  ASSUME BundleInv, NEW r \in Readers, ReadEntries(r)
  PROVE  BundleInv'
<1> DEFINE b == [bundle[r] EXCEPT !.entries = entries[Source]]
<1>1. Select(r, "entries") /\ bundle' = [bundle EXCEPT ![r] = b]
  BY DEF ReadEntries
<1>2. /\ reads[r] \in Nat /\ reads[r] < Len(Order(r)) /\ Order(r)[reads[r] + 1] = "entries"
      /\ bundle[r] \in Sections
  BY <1>1, SelectKeeps
<1>3. reads[r] = 2 /\ r \in Exports
  BY <1>2, PlaceOf
<1>4. b \in Sections /\ b.core = bundle[r].core /\ b.archive = bundle[r].archive
  BY <1>2 DEF Sections, BundleInv, TypeOK, Souls
<1>5. \E m \in Version(b.core)..Version(core[Source]) :
        b.archive = {Saved(v) : v \in 1..(m - 1)}
  BY <1>3, <1>4, HistoryRead
<1>6. ~(reads[r] + 1 >= (IF r \in Exports THEN 4 ELSE 2))
  BY <1>3
<1>7. "entries" # "core"
  OBVIOUS
<1> HIDE DEF b
<1> QED
  BY <1>1, <1>3, <1>4, <1>5, <1>6, <1>7, ReadOnOK

LEMMA ReadMemoriesOK ==
  ASSUME BundleInv, NEW r \in Readers, ReadMemories(r)
  PROVE  BundleInv'
<1> DEFINE b == [bundle[r] EXCEPT !.memories = memories[Source]]
<1>1. Select(r, "memories") /\ bundle' = [bundle EXCEPT ![r] = b]
  BY DEF ReadMemories
<1>2. /\ reads[r] \in Nat /\ reads[r] < Len(Order(r)) /\ Order(r)[reads[r] + 1] = "memories"
      /\ bundle[r] \in Sections
  BY <1>1, SelectKeeps
<1>3. reads[r] = 4 /\ r \in Exports
  BY <1>2, PlaceOf
<1>4. /\ b \in Sections /\ b.core = bundle[r].core /\ b.archive = bundle[r].archive
      /\ b.adapts = bundle[r].adapts
  BY <1>2 DEF Sections, BundleInv, TypeOK, Souls
<1>5. \E m \in Version(b.core)..Version(core[Source]) :
        b.archive = {Saved(v) : v \in 1..(m - 1)}
  BY <1>3, <1>4, HistoryRead
<1>6. since[r].lines \subseteq LinesIn(b.adapts)
  BY <1>3, <1>4 DEF BundleInv, ReaderOK
<1> HIDE DEF b
<1> QED
  BY <1>1, <1>3, <1>4, <1>5, <1>6, ReadOnOK

\* No line that was there when the reader began has gone since.
LEMMA ReadAdaptationsOK ==
  ASSUME BundleInv, NEW r \in Readers, ReadAdaptations(r)
  PROVE  BundleInv'
<1> DEFINE rows == IF r \in Exports /\ whole[r] THEN adapts[Source]
                   ELSE {row \in adapts[Source] : IsActive(row)}
           b == [bundle[r] EXCEPT !.adapts = Exported(rows)]
<1>1. Select(r, "adapts") /\ bundle' = [bundle EXCEPT ![r] = b]
  BY DEF ReadAdaptations
<1>2. /\ reads[r] \in Nat /\ reads[r] < Len(Order(r)) /\ Order(r)[reads[r] + 1] = "adapts"
      /\ bundle[r] \in Sections
  BY <1>1, SelectKeeps
<1>3. reads[r] = IF r \in Exports THEN 3 ELSE 1
  BY <1>2, PlaceOf
<1>4. rows \in SUBSET Row /\ LinesIn(rows) = LinesIn(adapts[Source])
  BY ActiveLines DEF BundleInv, TypeOK
<1>5. Exported(rows) \in SUBSET Row /\ LinesIn(Exported(rows)) = LinesIn(adapts[Source])
  <2> HIDE DEF rows
  <2> QED
    BY <1>4, ExportedLines
<1> HIDE DEF rows
<1>6. /\ b \in Sections /\ b.core = bundle[r].core /\ b.archive = bundle[r].archive
      /\ b.adapts = Exported(rows)
  BY <1>2, <1>5 DEF Sections
<1>7. r \in Exports => \E m \in Version(b.core)..Version(core[Source]) :
                         b.archive = {Saved(v) : v \in 1..(m - 1)}
  BY <1>3, <1>6, HistoryRead
<1>8. since[r].lines \subseteq LinesIn(b.adapts)
  <2>1. reads[r] >= 1
    BY <1>3
  <2> QED
    BY <1>5, <1>6, <2>1 DEF BundleInv, ReaderOK
<1> HIDE DEF b
<1> QED
  BY <1>1, <1>6, <1>7, <1>8, ReadOnOK

---------------------------------------------------------------------------
(* The imports.                                                            *)

\* An import leaves the source and its readers alone.
LEMMA ImportKeeps ==
  ASSUME BundleInv, UNCHANGED <<reading, superseding>>,
         core'[Source] = core[Source], archive'[Source] = archive[Source],
         adapts'[Source] = adapts[Source], \A p \in Supersedes : pc'[p] = pc[p]
  PROVE  /\ SourceOK' /\ HeirsOK'
         /\ \A r \in Readers : ReaderOK(r)'
<1> USE DEF BundleInv
<1>1. SourceOK'
  BY DEF SourceOK, Version, Live
<1>2. HeirsOK'
  BY HeirsKept DEF superseding
<1>3. ASSUME NEW r \in Readers PROVE ReaderOK(r)'
  <2>1. LinesIn(adapts[Source])' = LinesIn(adapts[Source])
    BY DEF LinesIn, IsActive
  <2>2. Version(core[Source]) \in Nat /\ Version(core[Source])' = Version(core[Source])
    BY VersionOf DEF Version
  <2> QED
    BY <2>1, <2>2, ReadersKept DEF reading
<1> QED
  BY <1>1, <1>2, <1>3

\* An import that moves without a commit has written nothing.
LEMMA MovesOK ==
  ASSUME BundleInv, NEW i \in Imports, ~Done(i),
         UNCHANGED <<data, reading, souls, from, into, superseding>>,
         NEW label \in {"creating", "merging", "archived", "failed"}, Goto(i, label),
         label # "failed" => ReadAll(from[i]),
         label \in {"merging", "archived"} => Copy \in souls,
         label = "creating" => Copy \notin souls,
         holder' \in Imports \cup {Nobody},
         \A j \in Imports : pc'[j] \in {"creating", "archived"} <=> holder' = j,
         seen' \in [Imports -> Nat], prior' \in [Imports -> SUBSET Imports],
         \A j \in Imports \ {i} : seen'[j] = seen[j] /\ prior'[j] = prior[j],
         MergeOK(i)'
  PROVE  BundleInv'
<1> USE ConstantsAssumption DEF BundleInv
<1>1. /\ pc' \in [Imports \cup Supersedes -> Labels] /\ pc'[i] = label
      /\ \A j \in Imports \ {i} : pc'[j] = pc[j]
      /\ \A p \in Supersedes : pc'[p] = pc[p]
  BY DEF TypeOK, Goto, Labels
<1>2. TypeOK'
  BY <1>1 DEF TypeOK, data, reading, superseding
<1>3. \A j \in Imports : Done(j)' <=> Done(j)
  BY <1>1 DEF Done
<1>4. CopyOK'
  <2>1. \A j \in Imports : /\ pc[j] \notin {"idle", "failed"} => ReadAll(from[j])
                           /\ pc[j] \in {"merging", "archived"} => Copy \in souls
                           /\ pc[j] = "creating" => Copy \notin souls
    BY DEF CopyOK
  <2>2. \A j \in Imports : /\ pc'[j] \notin {"idle", "failed"} => ReadAll(from[j])
                           /\ pc'[j] \in {"merging", "archived"} => Copy \in souls
                           /\ pc'[j] = "creating" => Copy \notin souls
    BY <1>1, <2>1
  <2> QED
    BY <1>3, <2>2, CopyStands DEF data, reading
<1>5. Authors' = Authors
  BY <1>3, AuthorsKept DEF reading
<1>6. ASSUME NEW j \in Imports PROVE MergeOK(j)'
  <2>1. CASE j = i
    BY <2>1
  <2>2. CASE j # i
    <3>1. Bundle(j)' = Bundle(j) /\ prior[j] \subseteq Imports
      BY DEF Bundle, reading, TypeOK
    <3> QED
      BY <1>1, <1>3, <1>5, <2>2, <3>1, MergeKept DEF data
  <2> QED
    BY <2>1, <2>2
<1>7. CollisionsOverlap'
  <2>1. i \notin Authors /\ Authors \subseteq Imports
    BY DEF Authors
  <2> QED
    BY <1>5, <2>1, CollisionsKept DEF data
<1>8. CopiesAddUp'
  BY AddUpKept DEF data, reading
<1>9. SourceOK' /\ HeirsOK' /\ \A r \in Readers : ReaderOK(r)'
  BY <1>1, ImportKeeps DEF data
<1> QED
  BY <1>2, <1>4, <1>6, <1>7, <1>8, <1>9

LEMMA BeginNewOK ==
  ASSUME BundleInv, NEW i \in Imports, BeginNew(i)
  PROVE  BundleInv'
<1> USE ConstantsAssumption
<1>1. /\ pc[i] = "idle" /\ ReadAll(from[i])
      /\ Copy \in souls \/ holder = Nobody
      /\ UNCHANGED <<data, reading, souls, from, into, seen, prior, superseding>>
      /\ ~Done(i) /\ TypeOK /\ MergeOK(i)
  BY DEF BeginNew, Done, BundleInv
<1>2. UNCHANGED <<seen, prior>> /\ seen' \in [Imports -> Nat]
      /\ prior' \in [Imports -> SUBSET Imports]
  BY <1>1 DEF TypeOK
<1>3. PICK label \in {"creating", "failed"} :
        /\ Goto(i, label)
        /\ label = "creating" => Copy \notin souls /\ holder' = i
        /\ label = "failed" => holder' = holder
  BY DEF BeginNew
<1>4. /\ pc'[i] = label
      /\ \A j \in Imports \ {i} : pc'[j] = pc[j]
  BY <1>1, <1>3 DEF Goto, TypeOK
<1>5. /\ holder' \in Imports \cup {Nobody}
      /\ \A j \in Imports : pc'[j] \in {"creating", "archived"} <=> holder' = j
  BY <1>1, <1>3, <1>4 DEF TypeOK
<1>6. MergeOK(i)'
  <2>1. \A j \in prior[i] : Done(j)'
    BY <1>1, <1>4 DEF MergeOK, Done, TypeOK
  <2> QED
    BY <1>2, <1>4, <2>1 DEF MergeOK
<1>7. label \in {"creating", "merging", "archived", "failed"}
  OBVIOUS
<1>8. \A j \in Imports \ {i} : seen'[j] = seen[j] /\ prior'[j] = prior[j]
  BY <1>2
<1>9. /\ label \in {"merging", "archived"} => Copy \in souls
      /\ label = "creating" => Copy \notin souls
  BY <1>3
<1> QED
  BY <1>1, <1>2, <1>3, <1>5, <1>6, <1>7, <1>8, <1>9, MovesOK

\* What a merge reads is so when it reads it.
LEMMA BeginMergeOK ==
  ASSUME BundleInv, NEW i \in Imports, BeginMerge(i)
  PROVE  BundleInv'
<1> USE ConstantsAssumption
<1>1. /\ pc[i] = "idle" /\ ReadAll(from[i]) /\ Copy \in souls
      /\ UNCHANGED <<data, reading, souls, from, into, holder, superseding>>
      /\ ~Done(i) /\ TypeOK /\ Goto(i, "merging")
      /\ seen' = [seen EXCEPT ![i] = Version(core[Copy])]
      /\ prior' = [prior EXCEPT ![i] = {j \in Imports : Done(j)}]
  BY DEF BeginMerge, Done, BundleInv
<1>2. Version(core[Copy]) \in Nat
  BY <1>1, VersionOf
<1>3. /\ seen' \in [Imports -> Nat] /\ prior' \in [Imports -> SUBSET Imports]
      /\ \A j \in Imports \ {i} : seen'[j] = seen[j] /\ prior'[j] = prior[j]
      /\ seen'[i] = Version(core[Copy]) /\ prior'[i] = {j \in Imports : Done(j)}
  BY <1>1, <1>2 DEF TypeOK
<1>4. /\ pc'[i] = "merging"
      /\ \A j \in Imports \ {i} : pc'[j] = pc[j]
  BY <1>1 DEF Goto, TypeOK
<1>5. /\ holder' \in Imports \cup {Nobody}
      /\ \A j \in Imports : pc'[j] \in {"creating", "archived"} <=> holder' = j
  BY <1>1, <1>4 DEF TypeOK
<1>6. MergeOK(i)'
  <2>1. \A j \in Imports : Done(j) => Done(j)'
    BY <1>1, <1>4 DEF Done
  <2>2. Version(core[Copy])' = Version(core[Copy]) /\ core'[Copy] = core[Copy]
    BY <1>1 DEF Version, data
  <2>3. core[Copy] = NoCore => Version(core[Copy]) = 0
    BY DEF Version
  <2> QED
    BY <1>3, <1>4, <2>1, <2>2, <2>3 DEF MergeOK
<1> QED
  BY <1>1, <1>3, <1>5, <1>6, MovesOK

LEMMA ArchiveLiveOK ==
  ASSUME BundleInv, NEW i \in Imports, ArchiveLive(i)
  PROVE  BundleInv'
<1> USE ConstantsAssumption
<1>1. /\ pc[i] = "merging" /\ Bundle(i).core # NoCore /\ holder = Nobody /\ holder' = i
      /\ UNCHANGED <<data, reading, souls, from, into, seen, prior, superseding>>
      /\ ~Done(i) /\ TypeOK /\ MergeOK(i) /\ Goto(i, "archived")
      /\ seen[i] = 0 => core[Copy] = NoCore
  BY DEF ArchiveLive, Done, BundleInv
<1>2. UNCHANGED <<seen, prior>> /\ seen' \in [Imports -> Nat]
      /\ prior' \in [Imports -> SUBSET Imports]
  BY <1>1 DEF TypeOK
<1>3. ReadAll(from[i]) /\ Copy \in souls
  BY <1>1 DEF BundleInv, CopyOK
<1>4. /\ pc'[i] = "archived"
      /\ \A j \in Imports \ {i} : pc'[j] = pc[j]
  BY <1>1 DEF Goto, TypeOK
<1>5. \A j \in Imports : pc'[j] \in {"creating", "archived"} <=> holder' = j
  BY <1>1, <1>4 DEF TypeOK
<1>6. MergeOK(i)'
  <2>1. \A j \in Imports : Done(j)' <=> Done(j)
    BY <1>1, <1>4 DEF Done
  <2>2. Authors' = Authors
    BY <1>1, <2>1, AuthorsKept DEF reading
  <2>3. Version(core[Copy])' = Version(core[Copy]) /\ core'[Copy] = core[Copy]
        /\ Bundle(i)' = Bundle(i)
    BY <1>1 DEF Version, data, Bundle, reading
  <2>4. prior[i] \subseteq Imports
    BY <1>1 DEF TypeOK
  <2> QED
    BY <1>1, <1>2, <1>4, <2>1, <2>2, <2>3, <2>4 DEF MergeOK
<1> QED
  BY <1>1, <1>2, <1>3, <1>5, <1>6, MovesOK

LEMMA FailOK ==
  ASSUME BundleInv, NEW i \in Imports, Fail(i)
  PROVE  BundleInv'
<1> USE ConstantsAssumption
<1>1. /\ pc[i] \in {"creating", "merging", "archived"} /\ holder' = Released(i)
      /\ UNCHANGED <<data, reading, souls, from, into, seen, prior, superseding>>
      /\ ~Done(i) /\ TypeOK /\ MergeOK(i) /\ Goto(i, "failed")
  BY DEF Fail, Done, BundleInv
<1>2. UNCHANGED <<seen, prior>> /\ seen' \in [Imports -> Nat]
      /\ prior' \in [Imports -> SUBSET Imports]
  BY <1>1 DEF TypeOK
<1>3. /\ pc'[i] = "failed"
      /\ \A j \in Imports \ {i} : pc'[j] = pc[j]
  BY <1>1 DEF Goto, TypeOK
<1>4. /\ holder' \in Imports \cup {Nobody}
      /\ \A j \in Imports : pc'[j] \in {"creating", "archived"} <=> holder' = j
  BY <1>1, <1>3 DEF TypeOK, Released
<1>5. MergeOK(i)'
  <2>1. \A j \in prior[i] : Done(j)'
    BY <1>1, <1>3 DEF MergeOK, Done, TypeOK
  <2> QED
    BY <1>2, <1>3, <2>1 DEF MergeOK
<1> QED
  BY <1>1, <1>2, <1>4, <1>5, MovesOK

\* What an export that is complete has brought.
LEMMA WholeBundle ==
  ASSUME BundleInv, NEW i \in Imports, ReadAll(from[i])
  PROVE  /\ Bundle(i) \in Sections
         /\ MemoriesOf(i) \subseteq Imports \X Memories
         /\ AdaptationsOf(i) \subseteq Brought
         /\ since[from[i]].lines \subseteq LinesIn(AdaptationsOf(i))
         /\ \E c, m \in Nat : /\ c <= m
                              /\ Bundle(i).core = Live(c)
                              /\ Bundle(i).archive = {Saved(v) : v \in 1..(m - 1)}
                              /\ since[from[i]].texts \subseteq 1..c
<1> USE ConstantsAssumption
<1> DEFINE r == from[i]
<1>1. r \in Exports /\ r \in Readers /\ Bundle(i) = bundle[r]
  BY DEF BundleInv, TypeOK, Readers, Bundle
<1>2. bundle[r] \in Sections
  BY <1>1 DEF BundleInv, TypeOK, Sections
<1>3. reads[r] = 5
  BY <1>1, OrderFacts DEF ReadAll
<1>4. ReaderOK(r)
  BY <1>1 DEF BundleInv
<1> HIDE DEF r
<1>5. MemoriesOf(i) \subseteq Imports \X Memories
  BY <1>1, <1>2 DEF MemoriesOf, Sections
<1>6. AdaptationsOf(i) \subseteq Brought
  <2>1. \A row \in Bundle(i).adapts : [row EXCEPT !.id = <<i, row.id>>] \in Brought
    <3>1. \A row \in Bundle(i).adapts : row \in Row
      BY <1>1, <1>2 DEF Sections
    <3> QED
      BY <3>1 DEF Row, RowWith, Brought
  <2> QED
    BY <2>1 DEF AdaptationsOf
<1>7. since[r].lines \subseteq LinesIn(AdaptationsOf(i))
  <2>1. since[r].lines \subseteq LinesIn(bundle[r].adapts)
    BY <1>1, <1>3, <1>4 DEF ReaderOK
  <2>2. Bundle(i).adapts \subseteq Row
    BY <1>1, <1>2 DEF Sections
  <2> QED
    BY <1>1, <2>1, <2>2, ImportedLines
<1>8. \E c, m \in Nat : /\ c <= m
                        /\ bundle[r].core = Live(c)
                        /\ bundle[r].archive = {Saved(v) : v \in 1..(m - 1)}
                        /\ since[r].texts \subseteq 1..c
  <2> DEFINE n == Version(core[Source])
  <2>1. n \in Nat
    BY VersionOf DEF BundleInv
  <2>2. PICK c \in 0..n : bundle[r].core = Live(c) /\ since[r].texts \subseteq 1..c
    BY <1>3, <1>4 DEF ReaderOK
  <2>3. PICK m \in Version(bundle[r].core)..n :
          bundle[r].archive = {Saved(v) : v \in 1..(m - 1)}
    BY <1>1, <1>3, <1>4 DEF ReaderOK
  <2> HIDE DEF n
  <2>4. c \in Nat
    BY <2>1
  <2>5. Version(bundle[r].core) = c
    BY <2>2, <2>4, Versions
  <2>6. m \in Nat /\ c <= m
    BY <2>1, <2>3, <2>4, <2>5
  <2> QED
    BY <2>2, <2>3, <2>4, <2>6
<1> QED
  BY <1>1, <1>2, <1>5, <1>6, <1>7, <1>8 DEF r

\* One more import in the copy.
LEMMA OneMore ==
  ASSUME CopiesAddUp, NEW i \in Imports, into \in [Imports -> Souls \cup {NoSoul}],
         into' = [into EXCEPT ![i] = Copy], UNCHANGED <<bundle, from>>,
         memories'[Copy] = memories[Copy] \cup MemoriesOf(i),
         adapts'[Copy] = adapts[Copy] \cup AdaptationsOf(i),
         entries'[Copy] = entries[Copy] \cup Bundle(i).entries
  PROVE  CopiesAddUp'
<1> DEFINE imported == {j \in Imports : into[j] = Copy}
<1>1. imported' = imported \cup {i}
  OBVIOUS
<1>2. \A j \in Imports : /\ Bundle(j)' = Bundle(j)
                         /\ MemoriesOf(j)' = MemoriesOf(j)
                         /\ AdaptationsOf(j)' = AdaptationsOf(j)
  BY DEF Bundle, MemoriesOf, AdaptationsOf
<1>3. /\ memories[Copy] = UNION {MemoriesOf(j) : j \in imported}
      /\ adapts[Copy] = UNION {AdaptationsOf(j) : j \in imported}
      /\ entries[Copy] = UNION {Bundle(j).entries : j \in imported}
  BY DEF CopiesAddUp
<1>4. imported \cup {i} \subseteq Imports
  OBVIOUS
<1> HIDE DEF imported
<1>5. memories'[Copy] = UNION {MemoriesOf(j)' : j \in imported \cup {i}}
  BY <1>2, <1>3, <1>4
<1>6. adapts'[Copy] = UNION {AdaptationsOf(j)' : j \in imported \cup {i}}
  BY <1>2, <1>3, <1>4
<1>7. entries'[Copy] = UNION {Bundle(j)'.entries : j \in imported \cup {i}}
  BY <1>2, <1>3, <1>4
<1> QED
  BY <1>1, <1>5, <1>6, <1>7 DEF CopiesAddUp, imported

\* An import that commits, into the new soul or into the one that is there.
LEMMA CommitOK ==
  ASSUME BundleInv, NEW i \in Imports, ReadAll(from[i]), Copy \in souls \/ holder = i,
         InsertRest(Copy, i), into' = [into EXCEPT ![i] = Copy], Goto(i, "done"),
         UNCHANGED <<reading, from, seen, prior, superseding>>,
         souls' = Souls, holder' = Released(i),
         NEW doc \in Document \cup {NoCore}, core' = [core EXCEPT ![Copy] = doc],
         NEW old \in SUBSET Document, archive' = [archive EXCEPT ![Copy] = old],
         doc = NoCore => old = {},
         NEW j \in Imports, i = j \/ Done(j),
         since[from[j]].texts \subseteq TextsIn(doc, old),
         since[from[j]].lines \subseteq LinesIn(adapts'[Copy]),
         CollisionsOverlap', \A k \in Imports \ {i} : MergeOK(k)'
  PROVE  BundleInv'
<1> USE ConstantsAssumption DEF BundleInv
<1>1. /\ core'[Copy] = doc /\ archive'[Copy] = old
      /\ core'[Source] = core[Source] /\ archive'[Source] = archive[Source]
  BY DEF TypeOK, Souls
<1>2. /\ pc' \in [Imports \cup Supersedes -> Labels]
      /\ pc'[i] = "done"
      /\ \A k \in Imports \ {i} : pc'[k] = pc[k]
      /\ \A p \in Supersedes : pc'[p] = pc[p]
  BY DEF TypeOK, Goto, Labels
<1>3. /\ adapts'[Copy] = adapts[Copy] \cup AdaptationsOf(i)
      /\ memories'[Copy] = memories[Copy] \cup MemoriesOf(i)
      /\ entries'[Copy] = entries[Copy] \cup Bundle(i).entries
      /\ adapts'[Source] = adapts[Source] /\ memories'[Source] = memories[Source]
  BY DEF TypeOK, Souls, InsertRest
<1>4. /\ Bundle(i) \in Sections
      /\ MemoriesOf(i) \subseteq Imports \X Memories
      /\ AdaptationsOf(i) \subseteq Brought
  BY WholeBundle, Zenon
<1>5. TypeOK'
  <2>1. /\ core' \in [Souls -> Document \cup {NoCore}]
        /\ archive' \in [Souls -> SUBSET Document]
    BY <1>1 DEF TypeOK
  <2>2. adapts' \in [Souls -> SUBSET (Row \cup Brought)] /\ adapts'[Source] \subseteq Row
    <3>1. adapts[Copy] \cup AdaptationsOf(i) \in SUBSET (Row \cup Brought)
      BY <1>4 DEF TypeOK, Souls
    <3> QED
      BY <1>3, <3>1 DEF TypeOK, InsertRest
  <2>3. entries' \in [Souls -> SUBSET Entries]
    <3>1. entries[Copy] \cup Bundle(i).entries \in SUBSET Entries
      BY <1>4 DEF TypeOK, Souls, Sections
    <3> QED
      BY <3>1 DEF TypeOK, InsertRest
  <2>4. /\ memories' \in [Souls -> SUBSET (Memories \cup (Imports \X Memories))]
        /\ memories'[Source] \subseteq Memories
    <3>1. memories[Copy] \cup MemoriesOf(i) \in SUBSET (Memories \cup (Imports \X Memories))
      BY <1>4 DEF TypeOK, Souls
    <3> QED
      BY <1>3, <3>1 DEF TypeOK, InsertRest
  <2>5. into' \in [Imports -> Souls \cup {NoSoul}]
    BY DEF TypeOK, Souls
  <2>6. /\ holder' \in Imports \cup {Nobody}
        /\ \A k \in Imports : pc'[k] \in {"creating", "archived"} <=> holder' = k
    BY <1>2 DEF TypeOK, Released
  <2>7. souls' \in {{Source}, Souls}
    OBVIOUS
  <2> QED
    BY <1>2, <2>1, <2>2, <2>3, <2>4, <2>5, <2>6, <2>7 DEF TypeOK, reading, superseding
<1>6. \A k \in Imports : /\ Done(k)' <=> Done(k) \/ k = i
                         /\ ReadAll(from[k])' <=> ReadAll(from[k])
  BY <1>2 DEF Done, ReadAll, Order, reading
<1>7. CopyOK'
  <2>1. \A k \in Imports : pc'[k] \notin {"idle", "failed"} => ReadAll(from[k])'
    BY <1>2, <1>6 DEF CopyOK
  <2>2. \A k \in Imports : into'[k] = IF Done(k)' THEN Copy ELSE NoSoul
    BY <1>6 DEF CopyOK, TypeOK
  <2>3. TextsIn(core[Copy], archive[Copy])' = TextsIn(doc, old)
    BY <1>1 DEF TextsIn
  <2>4. LinesIn(adapts[Copy])' = LinesIn(adapts'[Copy])
    BY DEF LinesIn, IsActive
  <2>5. /\ Done(j)'
        /\ since'[from'[j]].texts \subseteq TextsIn(core[Copy], archive[Copy])'
        /\ since'[from'[j]].lines \subseteq LinesIn(adapts[Copy])'
    BY <1>6, <2>3, <2>4 DEF reading
  <2>6. Copy \in souls'
    BY DEF Souls
  <2>7. \A k \in Imports : pc'[k] # "creating"
    BY <1>2 DEF CopyOK, TypeOK
  <2> QED
    BY <1>1, <2>1, <2>2, <2>5, <2>6, <2>7 DEF CopyOK
<1>8. MergeOK(i)'
  <2>1. prior[i] \subseteq Imports
    BY DEF TypeOK
  <2>2. MergeOK(i)
    OBVIOUS
  <2> QED
    BY <1>2, <1>6, <2>1, <2>2 DEF MergeOK
<1>9. CopiesAddUp'
  BY <1>3, OneMore DEF TypeOK, reading
<1>10. SourceOK' /\ HeirsOK' /\ \A r \in Readers : ReaderOK(r)'
  BY <1>1, <1>2, <1>3, ImportKeeps
<1> QED
  BY <1>5, <1>7, <1>8, <1>9, <1>10

\* One that writes the self core of the copy: whoever else has read the version
\* had not seen it done, and if each author has seen all before it, what this one
\* has read is still so.
LEMMA AuthorOK ==
  ASSUME BundleInv, NEW i \in Imports, ~Done(i), Bundle(i).core # NoCore, holder = i,
         Goto(i, "done"), UNCHANGED <<reading, from, seen, prior>>,
         core'[Copy] \in Document,
         InTurn /\ Authors \subseteq prior[i] =>
           \A d \in archive'[Copy] : d.version < core'[Copy].version
  PROVE  CollisionsOverlap' /\ \A k \in Imports \ {i} : MergeOK(k)'
<1> USE ConstantsAssumption DEF BundleInv
<1>1. /\ pc'[i] = "done" /\ \A k \in Imports \ {i} : pc'[k] = pc[k]
      /\ \A k \in Imports \ {i} : pc[k] # "archived"
      /\ \A k \in Imports : prior[k] \subseteq Imports
  BY DEF TypeOK, Goto
<1>2. \A k \in Imports : Done(k)' <=> Done(k) \/ k = i
  BY <1>1 DEF Done
<1>3. Authors' = Authors \cup {i}
  BY <1>2 DEF Authors, Bundle, reading
<1>4. \A k \in Imports : i \notin prior[k]
  BY DEF MergeOK
<1>5. core'[Copy] # NoCore
  BY Versions
<1>6. ASSUME NEW k \in Imports \ {i} PROVE MergeOK(k)'
  <2>1. MergeOK(k)
    OBVIOUS
  <2>2. ~(Authors' \subseteq prior'[k])
    BY <1>3, <1>4
  <2> QED
    BY <1>1, <1>2, <1>5, <2>1, <2>2 DEF MergeOK
<1>7. ASSUME InTurn' PROVE \A d \in archive'[Copy] : d.version < core'[Copy].version
  <2>1. \A a, b \in Authors \cup {i} : a = b \/ a \in prior[b] \/ b \in prior[a]
    BY <1>3, <1>7 DEF InTurn
  <2>2. i \notin Authors /\ Authors \subseteq Imports
    BY DEF Authors
  <2>3. Authors \subseteq prior[i]
    BY <1>4, <2>1, <2>2
  <2>4. InTurn
    BY <2>1 DEF InTurn
  <2> QED
    BY <2>3, <2>4
<1> QED
  BY <1>5, <1>6, <1>7 DEF CollisionsOverlap

\* One that brings no self core.
LEMMA BystanderOK ==
  ASSUME BundleInv, NEW i \in Imports, ~Done(i), Bundle(i).core = NoCore,
         Goto(i, "done"), UNCHANGED <<reading, from, seen, prior>>,
         core'[Copy] = core[Copy], archive'[Copy] = archive[Copy]
  PROVE  CollisionsOverlap' /\ \A k \in Imports \ {i} : MergeOK(k)'
<1> USE ConstantsAssumption DEF BundleInv
<1>1. /\ pc'[i] = "done" /\ \A k \in Imports \ {i} : pc'[k] = pc[k]
      /\ \A k \in Imports : prior[k] \subseteq Imports
  BY DEF TypeOK, Goto
<1>2. \A k \in Imports : Done(k)' <=> Done(k) \/ k = i
  BY <1>1 DEF Done
<1>3. Authors' = Authors
  BY <1>2 DEF Authors, Bundle, reading
<1>4. ASSUME NEW k \in Imports \ {i} PROVE MergeOK(k)'
  <2>1. Bundle(k)' = Bundle(k)
    BY DEF Bundle, reading
  <2> QED
    BY <1>1, <1>2, <1>3, <2>1, MergeKept
<1>5. CollisionsOverlap'
  BY <1>3, CollisionsKept
<1> QED
  BY <1>4, <1>5

\* The first self core of the copy: its version is one above the highest archived
\* one, or the one that the export read.
LEMMA FirstCore ==
  ASSUME BundleInv, NEW i \in Imports, ReadAll(from[i]), core[Copy] = NoCore,
         InsertCore(Copy, Bundle(i))
  PROVE  \E doc \in Document \cup {NoCore}, old \in SUBSET Document :
           /\ core' = [core EXCEPT ![Copy] = doc] /\ archive' = [archive EXCEPT ![Copy] = old]
           /\ doc = NoCore <=> Bundle(i).core = NoCore
           /\ doc = NoCore => old = {}
           /\ \A d \in old : d.version < doc.version
           /\ since[from[i]].texts \subseteq TextsIn(doc, old)
<1> USE ConstantsAssumption
<1>1. archive[Copy] = {}
  BY DEF BundleInv, CopyOK
<1>2. PICK c, m \in Nat : /\ c <= m
                          /\ Bundle(i).core = Live(c)
                          /\ Bundle(i).archive = {Saved(v) : v \in 1..(m - 1)}
                          /\ since[from[i]].texts \subseteq 1..c
  BY WholeBundle
<1>3. CASE Bundle(i).core = NoCore
  <2>1. c = 0
    BY <1>2, <1>3, Versions
  <2>2. since[from[i]].texts = {}
    BY <1>2, <2>1
  <2>3. core' = [core EXCEPT ![Copy] = NoCore] /\ archive' = [archive EXCEPT ![Copy] = {}]
    BY <1>1, <1>3 DEF InsertCore, BundleInv, TypeOK, Souls
  <2> QED
    BY <1>3, <2>2, <2>3
<1>4. CASE Bundle(i).core # NoCore
  <2> DEFINE doc == [version |-> FirstVersion(Bundle(i)), text |-> Bundle(i).core.text]
             old == Bundle(i).archive
  <2>1. c # 0 /\ Bundle(i).core = Saved(c)
    BY <1>2, <1>4, Versions DEF Live
  <2>2. FirstVersion(Bundle(i)) = m /\ Bundle(i).core.text = c
    <3>1. m - 1 \in Nat
      BY <1>2, <2>1
    <3>2. Highest(Bundle(i).archive) = m - 1
      BY <1>2, <3>1, HighestOfHistory
    <3>3. Bundle(i).core.version = c /\ Bundle(i).core.text = c
      BY <2>1, Versions
    <3> QED
      BY <1>2, <3>2, <3>3 DEF FirstVersion, Larger
  <2>3. doc \in Document /\ doc.version = m /\ doc.text = c
    BY <2>2 DEF Document
  <2>4. \A v \in 1..(m - 1) : Saved(v) \in Document /\ Saved(v).version = v /\ Saved(v).text = v
    BY Versions
  <2>5. old \in SUBSET Document /\ \A d \in old : d.version < doc.version
    BY <1>2, <2>3, <2>4
  <2>6. core' = [core EXCEPT ![Copy] = doc] /\ archive' = [archive EXCEPT ![Copy] = old]
    BY <1>1, <1>4 DEF InsertCore, BundleInv, TypeOK, Souls
  <2>7. since[from[i]].texts \subseteq TextsIn(doc, old)
    <3>1. 1..c \subseteq {c} \cup 1..(m - 1)
      BY <1>2
    <3>2. TextsIn(doc, old) = {d.text : d \in {doc} \cup old}
      BY <2>3, Versions DEF TextsIn
    <3>3. \A v \in 1..(m - 1) : Saved(v) \in old
      BY <1>2
    <3>4. {c} \cup 1..(m - 1) \subseteq TextsIn(doc, old)
      <4> HIDE DEF doc, old
      <4> QED
        BY <2>3, <2>4, <3>2, <3>3
    <3> QED
      BY <1>2, <3>1, <3>4
  <2>8. doc # NoCore
    BY <2>3, Versions
  <2> HIDE DEF doc, old
  <2> QED
    BY <1>4, <2>3, <2>5, <2>6, <2>7, <2>8
<1> QED
  BY <1>3, <1>4

LEMMA CommitNewOK ==
  ASSUME BundleInv, NEW i \in Imports, CommitNew(i)
  PROVE  BundleInv'
<1> USE ConstantsAssumption
<1>1. /\ pc[i] = "creating" /\ InsertCore(Copy, Bundle(i)) /\ InsertRest(Copy, i)
      /\ souls' = souls \cup {Copy} /\ into' = [into EXCEPT ![i] = Copy]
      /\ holder' = Nobody /\ Goto(i, "done")
      /\ UNCHANGED <<reading, from, seen, prior, superseding>>
  BY DEF CommitNew
<1>2. ReadAll(from[i]) /\ holder = i /\ ~Done(i) /\ holder' = Released(i)
  BY <1>1 DEF BundleInv, CopyOK, TypeOK, Done, Released
<1>3. Copy \notin souls /\ core[Copy] = NoCore
  BY <1>1 DEF BundleInv, CopyOK
<1>4. souls' = Souls
  BY <1>1, <1>3 DEF BundleInv, TypeOK, Souls
<1>5. PICK doc \in Document \cup {NoCore}, old \in SUBSET Document :
           /\ core' = [core EXCEPT ![Copy] = doc] /\ archive' = [archive EXCEPT ![Copy] = old]
           /\ doc = NoCore <=> Bundle(i).core = NoCore
           /\ doc = NoCore => old = {}
           /\ \A d \in old : d.version < doc.version
           /\ since[from[i]].texts \subseteq TextsIn(doc, old)
  BY <1>1, <1>2, <1>3, FirstCore
<1>6. core'[Copy] = doc /\ archive'[Copy] = old
  BY <1>5 DEF BundleInv, TypeOK, Souls
<1>7. since[from[i]].lines \subseteq LinesIn(adapts'[Copy])
  <2>1. adapts'[Copy] = adapts[Copy] \cup AdaptationsOf(i)
    BY <1>1 DEF InsertRest, BundleInv, TypeOK, Souls
  <2>2. LinesIn(AdaptationsOf(i)) \subseteq LinesIn(adapts'[Copy])
    BY <2>1, LinesGrow
  <2> QED
    BY <1>2, <2>2, WholeBundle
<1>8. CollisionsOverlap' /\ \A k \in Imports \ {i} : MergeOK(k)'
  <2>1. CASE doc = NoCore
    <3>1. core'[Copy] = core[Copy] /\ archive'[Copy] = archive[Copy]
      BY <1>3, <1>5, <1>6, <2>1 DEF BundleInv, CopyOK
    <3> QED
      BY <1>1, <1>2, <1>5, <2>1, <3>1, BystanderOK
  <2>2. CASE doc # NoCore
    BY <1>1, <1>2, <1>5, <1>6, <2>2, AuthorOK
  <2> QED
    BY <2>1, <2>2
<1> QED
  BY <1>1, <1>2, <1>4, <1>5, <1>7, <1>8, CommitOK

\* The sections of a merge: one that archives what is live, and one that finds
\* nothing live or brings no self core.
LEMMA CommitMergeOK ==
  ASSUME BundleInv, NEW i \in Imports, CommitMerge(i)
  PROVE  BundleInv'
<1> USE ConstantsAssumption
<1>1. /\ pc[i] = IF Bundle(i).core = NoCore THEN "merging" ELSE "archived"
      /\ InsertRest(Copy, i) /\ into' = [into EXCEPT ![i] = Copy]
      /\ holder' = Released(i) /\ Goto(i, "done")
      /\ UNCHANGED <<reading, souls, from, seen, prior, superseding>>
  BY DEF CommitMerge
<1>2. /\ ReadAll(from[i]) /\ Copy \in souls /\ ~Done(i) /\ MergeOK(i)
      /\ Bundle(i).core # NoCore => holder = i
  BY <1>1 DEF BundleInv, CopyOK, TypeOK, Done
<1>3. souls' = Souls
  BY <1>1, <1>2 DEF BundleInv, TypeOK, Souls
<1>4. PICK j \in Imports :
         /\ Done(j)
         /\ since[from[j]].texts \subseteq TextsIn(core[Copy], archive[Copy])
         /\ since[from[j]].lines \subseteq LinesIn(adapts[Copy])
  BY <1>2 DEF BundleInv, CopyOK
<1>5. /\ LinesIn(adapts[Copy]) \subseteq LinesIn(adapts'[Copy])
      /\ LinesIn(AdaptationsOf(i)) \subseteq LinesIn(adapts'[Copy])
  <2>1. adapts'[Copy] = adapts[Copy] \cup AdaptationsOf(i)
    BY <1>1 DEF InsertRest, BundleInv, TypeOK, Souls
  <2> QED
    BY <2>1, LinesGrow
<1>6. /\ core[Copy] \in Document \cup {NoCore} /\ archive[Copy] \in SUBSET Document
      /\ core[Copy] = NoCore => archive[Copy] = {}
  BY DEF BundleInv, TypeOK, CopyOK, Souls
<1>7. CASE Bundle(i).core = NoCore
  <2>1. UNCHANGED <<core, archive>>
    BY <1>7 DEF CommitMerge, InsertCore
  <2>2. /\ core' = [core EXCEPT ![Copy] = core[Copy]]
        /\ archive' = [archive EXCEPT ![Copy] = archive[Copy]]
    BY <2>1 DEF BundleInv, TypeOK
  <2>3. CollisionsOverlap' /\ \A k \in Imports \ {i} : MergeOK(k)'
    BY <1>1, <1>2, <1>7, <2>1, BystanderOK
  <2> QED
    BY <1>1, <1>2, <1>3, <1>4, <1>5, <1>6, <2>2, <2>3, CommitOK
<1>8. CASE Bundle(i).core # NoCore /\ seen[i] = 0
  <2>1. pc[i] = "archived" /\ core[Copy] = NoCore /\ InsertCore(Copy, Bundle(i))
    BY <1>1, <1>2, <1>8 DEF MergeOK, CommitMerge
  <2>2. PICK doc \in Document \cup {NoCore}, old \in SUBSET Document :
           /\ core' = [core EXCEPT ![Copy] = doc] /\ archive' = [archive EXCEPT ![Copy] = old]
           /\ doc = NoCore <=> Bundle(i).core = NoCore
           /\ doc = NoCore => old = {}
           /\ \A d \in old : d.version < doc.version
           /\ since[from[i]].texts \subseteq TextsIn(doc, old)
    BY <1>2, <2>1, FirstCore
  <2>3. core'[Copy] = doc /\ archive'[Copy] = old
    BY <2>2 DEF BundleInv, TypeOK, Souls
  <2>4. CollisionsOverlap' /\ \A k \in Imports \ {i} : MergeOK(k)'
    BY <1>1, <1>2, <1>8, <2>2, <2>3, AuthorOK
  <2>5. since[from[i]].lines \subseteq LinesIn(adapts'[Copy])
    BY <1>2, <1>5, WholeBundle
  <2> QED
    BY <1>1, <1>2, <1>3, <2>2, <2>4, <2>5, CommitOK
<1>9. CASE Bundle(i).core # NoCore /\ seen[i] # 0
  <2> DEFINE doc == [version |-> seen[i] + 1, text |-> Bundle(i).core.text]
             old == archive[Copy] \cup {core[Copy]}
  <2>1. pc[i] = "archived" /\ core[Copy] # NoCore /\ MergeCore(Copy, Bundle(i), seen[i])
    BY <1>1, <1>2, <1>9 DEF MergeOK, CommitMerge
  <2>2. Bundle(i) \in Sections /\ Bundle(i).core \in Document /\ seen[i] \in Nat
    BY <1>2, <1>9, WholeBundle DEF BundleInv, TypeOK, Sections
  <2>3. doc \in Document /\ doc.version = seen[i] + 1 /\ doc # NoCore
    BY <2>2, Versions DEF Document
  <2>4. old \in SUBSET Document
    BY <1>6, <2>1
  <2>5. core' = [core EXCEPT ![Copy] = doc] /\ archive' = [archive EXCEPT ![Copy] = old]
    BY <2>1 DEF MergeCore
  <2>6. core'[Copy] = doc /\ archive'[Copy] = old
    BY <2>5 DEF BundleInv, TypeOK, Souls
  <2>7. ASSUME InTurn, Authors \subseteq prior[i]
        PROVE  \A d \in archive'[Copy] : d.version < core'[Copy].version
    <3>1. seen[i] = core[Copy].version /\ core[Copy] \in Document
      BY <1>2, <1>6, <2>1, <2>7, Versions DEF MergeOK
    <3>2. \A d \in archive[Copy] : d.version < core[Copy].version
      BY <2>7 DEF BundleInv, CollisionsOverlap
    <3>3. \A d \in old : d.version < seen[i] + 1
      BY <1>6, <2>2, <3>1, <3>2, Versions
    <3> QED
      BY <2>3, <2>6, <3>3
  <2>8. TextsIn(core[Copy], archive[Copy]) \subseteq TextsIn(doc, old)
    <3>1. TextsIn(core[Copy], archive[Copy]) = {d.text : d \in old}
      BY <2>1 DEF TextsIn
    <3>2. TextsIn(doc, old) = {d.text : d \in {doc} \cup old}
      BY <2>3 DEF TextsIn
    <3> HIDE DEF doc, old
    <3> QED
      BY <3>1, <3>2
  <2> HIDE DEF doc, old
  <2>9. CollisionsOverlap' /\ \A k \in Imports \ {i} : MergeOK(k)'
    BY <1>1, <1>2, <1>9, <2>3, <2>6, <2>7, AuthorOK
  <2>10. /\ since[from[j]].texts \subseteq TextsIn(doc, old)
         /\ since[from[j]].lines \subseteq LinesIn(adapts'[Copy])
    BY <1>4, <1>5, <2>8
  <2> QED
    BY <1>1, <1>2, <1>3, <1>4, <2>3, <2>4, <2>5, <2>9, <2>10, CommitOK
<1> QED
  BY <1>7, <1>8, <1>9

LEMMA StutterOK ==
  ASSUME BundleInv, UNCHANGED vars
  PROVE  BundleInv'
<1> USE DEF BundleInv
<1>1. UNCHANGED <<data, pc, reading, importing, superseding>>
  BY DEF vars
<1>2. TypeOK'
  BY <1>1 DEF TypeOK, data, reading, importing, superseding
<1>3. SourceOK' /\ HeirsOK' /\ \A r \in Readers : ReaderOK(r)'
  BY <1>1, ImportKeeps DEF data
<1>4. CopyOK' /\ (\A i \in Imports : MergeOK(i)') /\ CollisionsOverlap'
  BY <1>1, CopyKept DEF data, reading, importing
<1>5. CopiesAddUp'
  BY <1>1, AddUpKept DEF data, reading, importing
<1> QED
  BY <1>2, <1>3, <1>4, <1>5

---------------------------------------------------------------------------
(* The theorems.                                                           *)

\* The invariant that carries them: what a source, a reader and a copy are at
\* every moment of export_soul, import_soul and adaptation supersede.
THEOREM BundleInvariant == Spec => []BundleInv
<1>1. Init => BundleInv
  BY InitOK
<1>2. BundleInv /\ [Next]_vars => BundleInv'
  <2> SUFFICES ASSUME BundleInv, [Next]_vars PROVE BundleInv'
    OBVIOUS
  <2>1. CASE Write
    BY <2>1, SaveOK, EnterOrRememberOK, AddAdaptationOK DEF Write
  <2>2. CASE \E p \in Supersedes : Supersede(p)
    BY <2>2, FindActiveOK, ReplaceOK DEF Supersede
  <2>3. CASE \E r \in Readers : Export(r)
    BY <2>3, ReadCoreOK, ReadHistoryOK, ReadEntriesOK, ReadAdaptationsOK, ReadMemoriesOK
       DEF Export
  <2>4. CASE \E i \in Imports : Import(i)
    BY <2>4, BeginNewOK, CommitNewOK, BeginMergeOK, ArchiveLiveOK, CommitMergeOK, FailOK
       DEF Import
  <2>5. CASE UNCHANGED vars
    BY <2>5, StutterOK
  <2> QED
    BY <2>1, <2>2, <2>3, <2>4, <2>5 DEF Next
<1> QED
  BY <1>1, <1>2, PTL DEF Spec

\* The state of export_soul, import_soul and the adaptations keeps its types.
THEOREM TypeCorrect == Spec => []TypeOK
<1>1. BundleInv => TypeOK
  BY DEF BundleInv
<1> QED
  BY <1>1, BundleInvariant, PTL

\* The statements of export_soul, get_self_core and import_soul lose nothing
\* that the soul held when the first of them ran.
THEOREM BundlesAreWhole == Spec => []NothingIsMissing
<1> USE ConstantsAssumption
<1>1. ASSUME BundleInv PROVE NothingIsMissing
  <2>1. ASSUME NEW r \in Exports, ReadAll(r)
        PROVE  since[r].texts \subseteq TextsIn(bundle[r].core, bundle[r].archive)
    <3>1. r \in Readers /\ reads[r] = 5
      BY <2>1, OrderFacts DEF Readers, ReadAll
    <3>2. ReaderOK(r) /\ Version(core[Source]) \in Nat
      BY <1>1, <3>1, VersionOf DEF BundleInv
    <3>3. PICK c \in 0..Version(core[Source]) :
            bundle[r].core = Live(c) /\ since[r].texts \subseteq 1..c
      BY <3>1, <3>2 DEF ReaderOK
    <3>4. c \in Nat /\ Version(bundle[r].core) = c
      BY <3>2, <3>3, Versions
    <3>5. PICK m \in c..Version(core[Source]) :
            bundle[r].archive = {Saved(v) : v \in 1..(m - 1)}
      BY <1>1, <3>1, <3>4, HistoryRead
    <3>6. m \in Nat /\ c <= m
      BY <3>2, <3>4
    <3>7. 1..c \subseteq TextsIn(Live(c), {Saved(v) : v \in 1..(m - 1)})
      BY <3>4, <3>6, TextsOfHistory
    <3> QED
      BY <3>3, <3>5, <3>7
  <2>2. ASSUME NEW r \in Readers, ReadAll(r)
        PROVE  since[r].lines \subseteq LinesIn(bundle[r].adapts)
    <3>1. reads[r] >= (IF r \in Exports THEN 4 ELSE 2)
      BY <2>2, OrderFacts DEF ReadAll
    <3> QED
      BY <1>1, <3>1 DEF BundleInv, ReaderOK
  <2>3. Copy \in souls => \E i \in Imports :
          /\ Done(i)
          /\ since[from[i]].texts \subseteq TextsIn(core[Copy], archive[Copy])
          /\ since[from[i]].lines \subseteq LinesIn(adapts[Copy])
    BY <1>1 DEF BundleInv, CopyOK
  <2> QED
    BY <2>1, <2>2, <2>3 DEF NothingIsMissing
<1> QED
  BY <1>1, BundleInvariant, PTL

\* The version that import_soul gives a new soul is above its archive, and no
\* merge brings it into the archive unless two of them overlap.
THEOREM CollidingMergesOverlap == Spec => []CollisionsOverlap
<1>1. BundleInv => CollisionsOverlap
  BY DEF BundleInv
<1> QED
  BY <1>1, BundleInvariant, PTL

\* Two runs of adaptation supersede leave two successors only if they overlap.
THEOREM HeirsOverlap == Spec => []TwoHeirsOverlap
<1>1. BundleInv => TwoHeirsOverlap
  BY DEF BundleInv, HeirsOK, TwoHeirsOverlap, Done
<1> QED
  BY <1>1, BundleInvariant, PTL

\* import_soul inserts memories and adaptations as often as it is repeated, and
\* facts and properties once.
THEOREM RepeatsAddUp == Spec => []CopiesAddUp
<1>1. BundleInv => CopiesAddUp
  BY DEF BundleInv
<1> QED
  BY <1>1, BundleInvariant, PTL

=============================================================================
