---------------------------- MODULE SoulBundle ----------------------------
(***************************************************************************)
(* Soul bundles and the adaptations of a soul.  export_soul reads a soul   *)
(* in one statement per section, get_self_core in two, while the soul is   *)
(* written; import_soul makes a new soul of a bundle or merges it into one *)
(* that is there.  soulctl adaptation add and supersede write the rows     *)
(* that have no key to keep two of them apart.                             *)
(*                                                                         *)
(* Writers of the source's self core take turns here, and so do writers of *)
(* one fact or property: how they race is the subject of SelfCore and of   *)
(* FactStore.  A text of a self core is named by the version it was saved  *)
(* as in the soul that is exported, an adaptation by what has inserted it. *)
(***************************************************************************)
EXTENDS Naturals, Sequences, FiniteSetsExt

CONSTANTS Exports,      \* runs of export_soul
          Views,        \* runs of get_self_core
          Imports,      \* runs of import_soul
          Supersedes,   \* runs of soulctl adaptation supersede
          Lines,        \* what an adaptation and those that supersede it are about
          Entries,      \* the facts and properties
          Memories,     \* what the source may be told to remember
          Source, Copy, \* the soul that is exported, and a slug that is free
          MaxVersion,   \* bound: versions of the source's self core
          NoCore, NoSoul, NoRow, Nobody

Readers == Exports \cup Views

Souls == {Source, Copy}

Document == [version : Nat, text : Nat]

\* A row of the source has the id of the line it began or of the supersede
\* that inserted it; a row that is imported gets an id of its own.
Origins == Lines \cup Supersedes

RowWith(ids) == [id     : ids,
                 line   : Lines,
                 status : {"active", "superseded"},
                 heir   : Supersedes \cup {Nobody}]

Row == RowWith(Origins)

Brought == RowWith(Imports \X Origins)

ASSUME ConstantsAssumption ==
  /\ Exports \cap Views = {} /\ Exports \cap Imports = {} /\ Exports \cap Supersedes = {}
  /\ Views \cap Imports = {} /\ Views \cap Supersedes = {} /\ Imports \cap Supersedes = {}
  /\ Source # Copy /\ NoSoul \notin Souls
  /\ MaxVersion \in Nat
  /\ NoCore \notin Document /\ NoRow \notin Row
  /\ Nobody \notin Imports \cup Supersedes
  /\ Lines \cap Supersedes = {} /\ Origins \cap (Imports \X Origins) = {}

VARIABLES souls,    \* the rows of souls
          core,     \* the self core of each soul
          archive,  \* its history
          adapts,   \* its adaptations
          entries,  \* its active facts and properties
          memories, \* its memories
          pc,       \* where each request stands
          whole,    \* whether an export was asked for all statuses
          reads,    \* how many sections each reader has read
          bundle,   \* what it has read
          from,     \* the export that an import brings
          into,     \* the soul it went to
          holder,   \* the import whose uncommitted row of the copy others wait for
          seen,     \* the version of the copy that a merge has read
          target,   \* the row that a supersede has found
          since,    \* auxiliary: what the soul held when a reader began
          earlier,  \* auxiliary: who had superseded a row when another looked
          prior     \* auxiliary: which imports were done when a merge looked

data == <<core, archive, adapts, entries, memories>>
reading == <<whole, reads, bundle, since>>
importing == <<souls, from, into, holder, seen, prior>>
superseding == <<target, earlier>>
vars == <<data, pc, reading, importing, superseding>>

Empty == [core |-> NoCore, archive |-> {}, adapts |-> {}, entries |-> {}, memories |-> {}]

Saved(v) == [version |-> v, text |-> v]

Version(doc) == IF doc = NoCore THEN 0 ELSE doc.version

Init ==
  /\ souls = {Source}
  /\ core = [s \in Souls |-> NoCore]
  /\ archive = [s \in Souls |-> {}]
  /\ adapts = [s \in Souls |-> {}]
  /\ entries = [s \in Souls |-> {}]
  /\ memories = [s \in Souls |-> {}]
  /\ pc = [r \in Imports \cup Supersedes |-> "idle"]
  /\ whole \in [Exports -> BOOLEAN]
  /\ reads = [r \in Readers |-> 0]
  /\ bundle = [r \in Readers |-> Empty]
  /\ from \in [Imports -> Exports]
  /\ into = [i \in Imports |-> NoSoul]
  /\ holder = Nobody
  /\ seen = [i \in Imports |-> 0]
  /\ target = [p \in Supersedes |-> NoRow]
  /\ since = [r \in Readers |-> [texts |-> {}, lines |-> {}]]
  /\ earlier = [p \in Supersedes |-> {}]
  /\ prior = [i \in Imports |-> {}]

Goto(r, label) == pc' = [pc EXCEPT ![r] = label]

---------------------------------------------------------------------------
(* The soul's writers.                                                     *)

\* The live version, if there is one, goes into the archive under its number.
Save ==
  /\ Version(core[Source]) < MaxVersion
  /\ archive' = [archive EXCEPT ![Source] = @ \cup ({core[Source]} \ {NoCore})]
  /\ core' = [core EXCEPT ![Source] = Saved(Version(@) + 1)]
  /\ UNCHANGED <<adapts, entries, memories, pc, reading, importing, superseding>>

Enter(e) ==
  /\ e \notin entries[Source]
  /\ entries' = [entries EXCEPT ![Source] = @ \cup {e}]
  /\ UNCHANGED <<core, archive, adapts, memories, pc, reading, importing, superseding>>

Remember(m) ==
  /\ m \notin memories[Source]
  /\ memories' = [memories EXCEPT ![Source] = @ \cup {m}]
  /\ UNCHANGED <<core, archive, adapts, entries, pc, reading, importing, superseding>>

New(id, l) == [id |-> id, line |-> l, status |-> "active", heir |-> Nobody]

IsActive(row) == row.status = "active"

LinesIn(rows) == {row.line : row \in {x \in rows : IsActive(x)}}

\* soulctl adaptation add, once for each line.
AddAdaptation(l) ==
  /\ \A row \in adapts[Source] : row.id # l
  /\ adapts' = [adapts EXCEPT ![Source] = @ \cup {New(l, l)}]
  /\ UNCHANGED <<core, archive, entries, memories, pc, reading, importing, superseding>>

---------------------------------------------------------------------------
(* soulctl adaptation supersede: a SELECT of the active row, and later, in *)
(* one transaction, the INSERT of its successor and an UPDATE by id.       *)

Done(r) == pc[r] = "done"

Replacing(id) == {q \in Supersedes : Done(q) /\ target[q].id = id}

\* Mutant: the SELECT does not ask for an active row.
FindAny(p) ==
  /\ p \in Supersedes
  /\ pc[p] = "idle"
  /\ \E row \in adapts[Source] :
       /\ target' = [target EXCEPT ![p] = row]
       /\ earlier' = [earlier EXCEPT ![p] = Replacing(row.id)]
  /\ Goto(p, "found")
  /\ UNCHANGED <<data, reading, importing>>

FindActive(p) ==
  /\ p \in Supersedes
  /\ pc[p] = "idle"
  /\ \E row \in adapts[Source] :
       /\ IsActive(row)
       /\ target' = [target EXCEPT ![p] = row]
       /\ earlier' = [earlier EXCEPT ![p] = Replacing(row.id)]
  /\ Goto(p, "found")
  /\ UNCHANGED <<data, reading, importing>>

\* The UPDATE does not ask whether the row is still active.
Marked(rows, id, heir) ==
  {IF row.id = id THEN [row EXCEPT !.status = "superseded", !.heir = heir] ELSE row : row \in rows}

\* Nobody else writes the new row, and who waits for the old one writes it in
\* the same way afterwards.
Replace(p) ==
  /\ p \in Supersedes
  /\ pc[p] = "found"
  /\ adapts' = [adapts EXCEPT ![Source] =
                  Marked(@, target[p].id, p) \cup {New(p, target[p].line)}]
  /\ Goto(p, "done")
  /\ UNCHANGED <<core, archive, entries, memories, reading, importing, superseding>>

---------------------------------------------------------------------------
(* Reading a soul, statement by statement.                                 *)

TextsIn(doc, old) == {d.text : d \in ({doc} \ {NoCore}) \cup old}

\* Mutant: an export reads the history before the live version.
HistoryFirst(r) ==
  IF r \in Exports THEN <<"archive", "core", "entries", "adapts", "memories">>
  ELSE <<"core", "adapts">>

Order(r) ==
  IF r \in Exports THEN <<"core", "archive", "entries", "adapts", "memories">>
  ELSE <<"core", "adapts">>

\* Each statement sees what is committed when it runs.
Select(r, section) ==
  /\ reads[r] < Len(Order(r))
  /\ Order(r)[reads[r] + 1] = section
  /\ since' = IF reads[r] > 0 THEN since
              ELSE [since EXCEPT ![r] = [texts |-> TextsIn(core[Source], archive[Source]),
                                         lines |-> LinesIn(adapts[Source])]]
  /\ reads' = [reads EXCEPT ![r] = @ + 1]
  /\ UNCHANGED <<data, pc, whole, importing, superseding>>

ReadCore(r) ==
  Select(r, "core") /\ bundle' = [bundle EXCEPT ![r].core = core[Source]]

ReadHistory(r) ==
  Select(r, "archive") /\ bundle' = [bundle EXCEPT ![r].archive = archive[Source]]

ReadEntries(r) ==
  Select(r, "entries") /\ bundle' = [bundle EXCEPT ![r].entries = entries[Source]]

\* superseded_by is not exported.
Exported(rows) == {[row EXCEPT !.heir = Nobody] : row \in rows}

ReadAdaptations(r) ==
  /\ Select(r, "adapts")
  /\ LET rows == IF r \in Exports /\ whole[r] THEN adapts[Source]
                 ELSE {row \in adapts[Source] : IsActive(row)}
     IN  bundle' = [bundle EXCEPT ![r].adapts = Exported(rows)]

ReadMemories(r) ==
  Select(r, "memories") /\ bundle' = [bundle EXCEPT ![r].memories = memories[Source]]

ReadAll(r) == reads[r] = Len(Order(r))

---------------------------------------------------------------------------
(* Importing.                                                              *)

Bundle(i) == bundle[from[i]]

Highest(docs) == Max({0} \cup {d.version : d \in docs})

Larger(a, b) == IF a >= b THEN a ELSE b

\* Mutant: the exported version is taken as it is.
SourceVersion(b) == b.core.version

\* Above any archived version, whatever the bundle says.
FirstVersion(b) == Larger(b.core.version, Highest(b.archive) + 1)

\* A bundle without a self core leaves its history out as well.
InsertCore(s, b) ==
  IF b.core = NoCore THEN UNCHANGED <<core, archive>>
  ELSE /\ core' = [core EXCEPT ![s] = [version |-> FirstVersion(b), text |-> b.core.text]]
       /\ archive' = [archive EXCEPT ![s] = @ \cup b.archive]

\* A merge archives the live version, counts on from the one it has read, and
\* leaves the bundle's history out.
MergeCore(s, b, read) ==
  /\ archive' = [archive EXCEPT ![s] = @ \cup {core[s]}]
  /\ core' = [core EXCEPT ![s] = [version |-> read + 1, text |-> b.core.text]]

MemoriesOf(i) == {<<i, m>> : m \in Bundle(i).memories}

AdaptationsOf(i) == {[row EXCEPT !.id = <<i, row.id>>] : row \in Bundle(i).adapts}

\* Mutant: the memories of the soul are replaced.
Overlay(s, i) ==
  /\ entries' = [entries EXCEPT ![s] = @ \cup Bundle(i).entries]
  /\ adapts' = [adapts EXCEPT ![s] = @ \cup AdaptationsOf(i)]
  /\ memories' = [memories EXCEPT ![s] = MemoriesOf(i)]

\* Facts and properties have a key; adaptations and memories are inserted.
InsertRest(s, i) ==
  /\ entries' = [entries EXCEPT ![s] = @ \cup Bundle(i).entries]
  /\ adapts' = [adapts EXCEPT ![s] = @ \cup AdaptationsOf(i)]
  /\ memories' = [memories EXCEPT ![s] = @ \cup MemoriesOf(i)]

\* The row of souls: the free slug is taken until the transaction ends, who
\* wants it too waits, and who finds it committed fails.
BeginNew(i) ==
  /\ i \in Imports
  /\ pc[i] = "idle"
  /\ ReadAll(from[i])
  /\ Copy \in souls \/ holder = Nobody
  /\ IF Copy \in souls THEN Goto(i, "failed") /\ UNCHANGED holder
     ELSE Goto(i, "creating") /\ holder' = i
  /\ UNCHANGED <<data, reading, souls, from, into, seen, prior, superseding>>

\* Mutant: the slug stays taken.
CommitAndHold(i) ==
  /\ pc[i] = "creating"
  /\ InsertCore(Copy, Bundle(i))
  /\ InsertRest(Copy, i)
  /\ souls' = souls \cup {Copy}
  /\ into' = [into EXCEPT ![i] = Copy]
  /\ Goto(i, "done")
  /\ UNCHANGED <<reading, from, holder, seen, prior, superseding>>

\* No one sees the new soul before the commit.
CommitNew(i) ==
  /\ pc[i] = "creating"
  /\ InsertCore(Copy, Bundle(i))
  /\ InsertRest(Copy, i)
  /\ souls' = souls \cup {Copy}
  /\ into' = [into EXCEPT ![i] = Copy]
  /\ holder' = Nobody
  /\ Goto(i, "done")
  /\ UNCHANGED <<reading, from, seen, prior, superseding>>

\* A merge into the copy, again and again if its answer is lost, begins with a
\* SELECT of the version.
BeginMerge(i) ==
  /\ i \in Imports
  /\ pc[i] = "idle"
  /\ ReadAll(from[i])
  /\ Copy \in souls
  /\ seen' = [seen EXCEPT ![i] = Version(core[Copy])]
  /\ prior' = [prior EXCEPT ![i] = {j \in Imports : Done(j)}]
  /\ Goto(i, "merging")
  /\ UNCHANGED <<data, reading, souls, from, into, holder, superseding>>

\* UNIQUE (soul_id, version).
Collides(s) == core[s] # NoCore /\ \E d \in archive[s] : d.version = core[s].version

\* The INSERT ... SELECT copies the version that is live now, whatever the merge
\* has read; where there was none, the INSERT is of the first one.  Either waits
\* for the row of a merge that is not committed, and fails beside a committed one.
ArchiveLive(i) ==
  /\ pc[i] = "merging"
  /\ Bundle(i).core # NoCore
  /\ holder = Nobody
  /\ IF seen[i] = 0 THEN core[Copy] = NoCore ELSE ~Collides(Copy)
  /\ holder' = i
  /\ Goto(i, "archived")
  /\ UNCHANGED <<data, reading, souls, from, into, seen, prior, superseding>>

Released(i) == IF holder = i THEN Nobody ELSE holder

\* The UPDATE, the sections that follow, and the commit.
CommitMerge(i) ==
  /\ pc[i] = IF Bundle(i).core = NoCore THEN "merging" ELSE "archived"
  /\ IF Bundle(i).core = NoCore \/ seen[i] = 0 THEN InsertCore(Copy, Bundle(i))
     ELSE MergeCore(Copy, Bundle(i), seen[i])
  /\ InsertRest(Copy, i)
  /\ into' = [into EXCEPT ![i] = Copy]
  /\ holder' = Released(i)
  /\ Goto(i, "done")
  /\ UNCHANGED <<reading, souls, from, seen, prior, superseding>>

\* A statement fails, and the transaction with it.
Fail(i) ==
  /\ pc[i] \in {"creating", "merging", "archived"}
  /\ holder' = Released(i)
  /\ Goto(i, "failed")
  /\ UNCHANGED <<data, reading, souls, from, into, seen, prior, superseding>>

---------------------------------------------------------------------------

Write == \/ Save
         \/ \E m \in Memories : Remember(m)
         \/ \E e \in Entries : Enter(e)
         \/ \E l \in Lines : AddAdaptation(l)

Supersede(p) == FindActive(p) \/ Replace(p)

Export(r) ==
  ReadCore(r) \/ ReadHistory(r) \/ ReadEntries(r) \/ ReadAdaptations(r) \/ ReadMemories(r)

Import(i) ==
  BeginNew(i) \/ CommitNew(i) \/ BeginMerge(i) \/ ArchiveLive(i) \/ CommitMerge(i) \/ Fail(i)

Next == \/ Write
        \/ \E p \in Supersedes : Supersede(p)
        \/ \E r \in Readers : Export(r)
        \/ \E i \in Imports : Import(i)

Spec == Init /\ [][Next]_vars

---------------------------------------------------------------------------

Labels == {"idle", "found", "creating", "merging", "archived", "done", "failed"}

\* The copy is there once an import has created it, and who waits waits for an
\* import that is under way.
TypeOK ==
  /\ souls \in {{Source}, Souls}
  /\ core \in [Souls -> Document \cup {NoCore}]
  /\ archive \in [Souls -> SUBSET Document]
  /\ adapts \in [Souls -> SUBSET (Row \cup Brought)]
  /\ adapts[Source] \subseteq Row
  /\ entries \in [Souls -> SUBSET Entries]
  /\ memories \in [Souls -> SUBSET (Memories \cup (Imports \X Memories))]
  /\ memories[Source] \subseteq Memories
  /\ pc \in [Imports \cup Supersedes -> Labels]
  /\ whole \in [Exports -> BOOLEAN]
  /\ reads \in [Readers -> Nat]
  /\ bundle \in [Readers -> [core : Document \cup {NoCore}, archive : SUBSET Document,
                             adapts : SUBSET Row, entries : SUBSET Entries,
                             memories : SUBSET Memories]]
  /\ from \in [Imports -> Exports]
  /\ into \in [Imports -> Souls \cup {NoSoul}]
  /\ holder \in Imports \cup {Nobody}
  /\ \A i \in Imports : pc[i] \in {"creating", "archived"} <=> holder = i
  /\ seen \in [Imports -> Nat]
  /\ target \in [Supersedes -> Row \cup {NoRow}]
  /\ since \in [Readers -> [texts : SUBSET Nat, lines : SUBSET Lines]]
  /\ earlier \in [Supersedes -> SUBSET Supersedes]
  /\ prior \in [Imports -> SUBSET Imports]

---------------------------------------------------------------------------
(* The invariant that carries the proofs.                                  *)

\* What is live after so many saves.
Live(n) == IF n = 0 THEN NoCore ELSE Saved(n)

\* The source is saved as one version after the other.
SourceOK ==
  LET n == Version(core[Source])
  IN  core[Source] = Live(n) /\ archive[Source] = {Saved(v) : v \in 1..(n - 1)}

\* A row that is superseded once never becomes active again.
HeirsOK ==
  /\ \A a, b \in adapts[Source] : a.id = b.id => a = b
  /\ \A row \in adapts[Source] : row.id \in Supersedes => Done(row.id)
  /\ \A p \in Supersedes : pc[p] # "idle" =>
       /\ target[p] # NoRow
       /\ earlier[p] = {}
       /\ \E row \in adapts[Source] : row.id = target[p].id
       /\ \A row \in adapts[Source] : row.id = target[p].id =>
            row.line = target[p].line /\ (Done(p) => ~IsActive(row))

\* What a reader has of each section is of the moment of its statement.
ReaderOK(r) ==
  LET n == Version(core[Source])
  IN  /\ reads[r] <= Len(Order(r))
      /\ reads[r] >= 1 => /\ since[r].lines \subseteq LinesIn(adapts[Source])
                         /\ \E c \in 0..n : bundle[r].core = Live(c)
                                           /\ since[r].texts \subseteq 1..c
      /\ r \in Exports /\ reads[r] >= 2 =>
           \E m \in Version(bundle[r].core)..n :
             bundle[r].archive = {Saved(v) : v \in 1..(m - 1)}
      /\ reads[r] >= (IF r \in Exports THEN 4 ELSE 2) =>
           since[r].lines \subseteq LinesIn(bundle[r].adapts)

\* The copy is what the imports that are done have made of it.
CopyOK ==
  /\ \A i \in Imports : /\ pc[i] \notin {"idle", "failed"} => ReadAll(from[i])
                        /\ into[i] = IF Done(i) THEN Copy ELSE NoSoul
  /\ core[Copy] = NoCore => archive[Copy] = {}
  /\ Copy \notin souls => /\ core[Copy] = NoCore
                          /\ \A i \in Imports : pc[i] \notin {"merging", "archived", "done"}
  /\ Copy \in souls =>
       /\ \A i \in Imports : pc[i] # "creating"
       /\ \E i \in Imports :
            /\ Done(i)
            /\ since[from[i]].texts \subseteq TextsIn(core[Copy], archive[Copy])
            /\ since[from[i]].lines \subseteq LinesIn(adapts[Copy])

\* The imports that have written the self core of the copy.
Authors == {i \in Imports : Done(i) /\ Bundle(i).core # NoCore}

\* Each of them had the other one behind it when it read the version.
InTurn == \A i, j \in Authors : i = j \/ i \in prior[j] \/ j \in prior[i]

\* What a merge has read is still so if nobody has committed since.
MergeOK(i) ==
  /\ \A j \in prior[i] : Done(j)
  /\ pc[i] \in {"merging", "archived"} =>
       /\ Authors \subseteq prior[i] => seen[i] = Version(core[Copy])
       /\ seen[i] # 0 => core[Copy] # NoCore
  /\ pc[i] = "archived" => /\ Bundle(i).core # NoCore
                           /\ seen[i] = 0 => core[Copy] = NoCore

---------------------------------------------------------------------------

\* The sections of a bundle are of different moments, and yet nothing that the
\* soul held when the export began is missing from the bundle or from the new
\* soul that is made of it: no text of the self core, and no adaptation, if
\* not in the words of one that superseded it; nor does get_self_core miss one.
NothingIsMissing ==
  /\ \A r \in Exports :
       ReadAll(r) => since[r].texts \subseteq TextsIn(bundle[r].core, bundle[r].archive)
  /\ \A r \in Readers : ReadAll(r) => since[r].lines \subseteq LinesIn(bundle[r].adapts)
  /\ Copy \in souls => \E i \in Imports :
       /\ Done(i)
       /\ since[from[i]].texts \subseteq TextsIn(core[Copy], archive[Copy])
       /\ since[from[i]].lines \subseteq LinesIn(adapts[Copy])

\* Whatever moments a bundle mixes, the version a new soul gets is above all it
\* has archived, and a merge keeps it there: the version of the copy is in its own
\* archive, where every further merge fails on it, only if two merges overlapped,
\* each having read the version before the other was committed.
CollisionsOverlap ==
  InTurn => \A d \in archive[Copy] : core[Copy] # NoCore /\ d.version < core[Copy].version

\* Two supersedes of one adaptation leave it two successors only if neither
\* had been committed when the other one looked.
TwoHeirsOverlap ==
  \A p, q \in Supersedes :
    Done(p) /\ Done(q) /\ target[p].id = target[q].id => p \notin earlier[q]

\* An import that is repeated, because its answer was lost, adds its memories
\* and adaptations once more: the copy has them as often as they have been
\* imported, and its facts and properties once.
CopiesAddUp ==
  LET imported == {i \in Imports : into[i] = Copy}
  IN  /\ memories[Copy] = UNION {MemoriesOf(i) : i \in imported}
      /\ adapts[Copy] = UNION {AdaptationsOf(i) : i \in imported}
      /\ entries[Copy] = UNION {Bundle(i).entries : i \in imported}

BundleInv ==
  /\ TypeOK /\ SourceOK /\ HeirsOK /\ CopyOK /\ CollisionsOverlap /\ CopiesAddUp
  /\ \A i \in Imports : MergeOK(i)
  /\ \A r \in Readers : ReaderOK(r)

=============================================================================
