----------------------------- MODULE SelfCore -----------------------------
(***************************************************************************)
(* The Self Core of one soul: a live row in soul_self_cores and its        *)
(* archive soul_self_core_history, written by the web editor, by           *)
(* `soulctl self-core edit`, by `soulctl self-core import` and by a merge  *)
(* import, all as READ COMMITTED transactions.                             *)
(*                                                                         *)
(* One request is one attempt to save; its ciphertext is identified with   *)
(* the request.  An INSERT or UPDATE of an open transaction is seen by no  *)
(* other one, but the row's index entry or lock makes the others wait.     *)
(* Ending a transaction without COMMIT (an exception, a lost connection, a *)
(* crashed process, a later step of the merge that fails) undoes it.       *)
(***************************************************************************)
EXTENDS Naturals

CONSTANTS WebSaves,     \* saves from the web editor
          CliEdits,     \* runs of soulctl self-core edit
          CliImports,   \* runs of soulctl self-core import
          Merges,       \* imports merged into this soul
          Original,     \* the content an imported soul starts with
          Imported,     \* the content of the versions archived with it
          NoContent,    \* a soul without a Self Core
          InitVersions  \* bound: versions an imported soul may start with

Requests == WebSaves \cup CliEdits \cup CliImports \cup Merges

ASSUME ConstantsAssumption ==
  /\ InitVersions \subseteq Nat \ {0}
  /\ Original \notin Requests
  /\ Imported \notin Requests
  /\ NoContent \notin Requests \cup {Original, Imported}

Contents == Requests \cup {Original, Imported}

NoRow == [version |-> 0, content |-> NoContent]

Row == [version : Nat \ {0}, content : Contents]

VARIABLES current,      \* the committed row of soul_self_cores, or NoRow
          history,      \* the committed rows of soul_self_core_history
          pc,           \* where each request stands
          seen,         \* the row each request read (in the form, the editor)
          snap,         \* the row each archiving INSERT ... SELECT selected
          stale         \* auxiliary: a save has replaced a row it never read

vars == <<current, history, pc, seen, snap, stale>>

---------------------------------------------------------------------------
(* The archive's unique key and the live row's primary key.                *)

Archived(v) == \E h \in history : h.version = v

\* Requests whose open transaction has inserted into the archive.
Archiving == {r \in Requests : pc[r] \in {"archived", "written"} /\ seen[r] # NoRow}

\* Requests whose open transaction has inserted the first live row.
Creating == {r \in Requests : pc[r] = "written" /\ seen[r] = NoRow}

\* Requests whose open transaction has updated the live row, and locks it.
Updating == {r \in Requests : pc[r] = "written" /\ seen[r] # NoRow}

---------------------------------------------------------------------------
(* A new soul's live version is the least one above 0, the exported        *)
(* version and every archived version + 1.                                 *)

\* Mutant: the exported version is taken as it is.
TrustsExportedVersion(v, src, versions) == v = src

IsImportedVersion(v, src, versions) ==
  LET candidates == {src, 1} \cup {h + 1 : h \in versions}
  IN  v \in candidates /\ \A c \in candidates : c <= v

\* import_soul finds no live row: it creates one, and the bundle's archive.
Creates(content, row, rows) ==
  \E src \in InitVersions, versions \in SUBSET InitVersions :
    \E v \in InitVersions \cup {n + 1 : n \in InitVersions} :
      /\ IsImportedVersion(v, src, versions)
      /\ row = [version |-> v, content |-> content]
      /\ rows = {[version |-> n, content |-> Imported] : n \in versions}

InitCore ==
  \/ current = NoRow /\ history = {}
  \/ Creates(Original, current, history)

Init ==
  /\ InitCore
  /\ pc = [r \in Requests |-> "idle"]
  /\ seen = [r \in Requests |-> NoRow]
  /\ snap = [r \in Requests |-> NoRow]
  /\ stale = FALSE

---------------------------------------------------------------------------
(* Reading: what each kind of request knows of the row it will replace.    *)

Goto(r, label) == pc' = [pc EXCEPT ![r] = label]

Read(r) == seen' = [seen EXCEPT ![r] = current]

\* GET of the editor page: the form carries content and version.
LoadForm(r) ==
  /\ r \in WebSaves
  /\ pc[r] = "idle"
  /\ Read(r)
  /\ Goto(r, "editing")
  /\ UNCHANGED <<current, history, snap, stale>>

\* POST of the form: the version check that raises 409 or lets it through.
Submit(r) ==
  /\ r \in WebSaves
  /\ pc[r] = "editing"
  /\ Goto(r, IF seen[r].version = current.version THEN "checked" ELSE "conflict")
  /\ UNCHANGED <<current, history, seen, snap, stale>>

\* After a 409 the page is rendered again from the row now stored.
Reload(r) ==
  /\ pc[r] = "conflict"
  /\ Read(r)
  /\ Goto(r, "editing")
  /\ UNCHANGED <<current, history, snap, stale>>

\* soulctl self-core edit opens $EDITOR on the row inside its transaction.
OpenEditor(r) ==
  /\ r \in CliEdits
  /\ pc[r] = "idle"
  /\ Read(r)
  /\ Goto(r, "editing")
  /\ UNCHANGED <<current, history, snap, stale>>

\* The editor returns: a changed, valid document goes on, any other ends it.
CloseEditor(r) ==
  /\ r \in CliEdits
  /\ pc[r] = "editing"
  /\ \E outcome \in {"checked", "unsaved"} : Goto(r, outcome)
  /\ UNCHANGED <<current, history, seen, snap, stale>>

\* soulctl self-core import and a merge read the version and go on.
ReadVersion(r) ==
  /\ r \in CliImports \cup Merges
  /\ pc[r] = "idle"
  /\ Read(r)
  /\ Goto(r, "checked")
  /\ UNCHANGED <<current, history, snap, stale>>

---------------------------------------------------------------------------
(* Writing, the same two statements for every kind of request.             *)

\* Mutant: ON CONFLICT (soul_id) DO UPDATE.
UpsertFirst(r) ==
  /\ pc[r] = "checked"
  /\ seen[r] = NoRow
  /\ Creating = {}
  /\ Goto(r, "written")
  /\ UNCHANGED <<current, history, seen, snap, stale>>

\* INSERT of the first row; it waits for another open INSERT of it.
InsertFirst(r) ==
  /\ pc[r] = "checked"
  /\ seen[r] = NoRow
  /\ Creating = {}
  /\ Goto(r, IF current = NoRow THEN "written" ELSE "unsaved")
  /\ UNCHANGED <<current, history, seen, snap, stale>>

\* The archiving INSERT ... SELECT takes its snapshot of the live row.
SelectLive(r) ==
  /\ pc[r] = "checked"
  /\ seen[r] # NoRow
  /\ snap' = [snap EXCEPT ![r] = current]
  /\ Goto(r, "archiving")
  /\ UNCHANGED <<current, history, seen, stale>>

\* Mutant: the archive has no unique key.
ArchiveUnchecked(r) ==
  /\ pc[r] = "archiving"
  /\ Goto(r, "archived")
  /\ UNCHANGED <<current, history, seen, snap, stale>>

\* Mutant: a violation of the unique key is answered by trying again.
ArchiveRetries(r) ==
  /\ pc[r] = "archiving"
  /\ \A s \in Archiving : snap[s].version # snap[r].version
  /\ Goto(r, IF Archived(snap[r].version) THEN "archiving" ELSE "archived")
  /\ UNCHANGED <<current, history, seen, snap, stale>>

\* ... and inserts it, waiting for an open INSERT of the same version.  A
\* committed one raises the violation of UNIQUE (soul_id, version).
Archive(r) ==
  /\ pc[r] = "archiving"
  /\ \A s \in Archiving : snap[s].version # snap[r].version
  /\ Goto(r, IF Archived(snap[r].version) THEN "unsaved" ELSE "archived")
  /\ UNCHANGED <<current, history, seen, snap, stale>>

\* UPDATE of the live row; it waits for another open UPDATE of it.
Update(r) ==
  /\ pc[r] = "archived"
  /\ Updating = {}
  /\ Goto(r, "written")
  /\ UNCHANGED <<current, history, seen, snap, stale>>

(* COMMIT, after a first row, a first row with a bundle's archive, or an    *)
(* archived one.                                                           *)

Saved(r) ==
  /\ pc[r] = "written"
  /\ stale' = (stale \/ seen[r] # current)
  /\ Goto(r, "saved")
  /\ UNCHANGED <<seen, snap>>

\* Mutant: the version read is written as it is.
CommitVersionZero(r) ==
  /\ Saved(r)
  /\ seen[r] = NoRow
  /\ r \notin Merges
  /\ current' = [version |-> seen[r].version, content |-> r]
  /\ UNCHANGED history

CommitFirst(r) ==
  /\ Saved(r)
  /\ seen[r] = NoRow
  /\ r \notin Merges
  /\ current' = [version |-> 1, content |-> r]
  /\ UNCHANGED history

CommitBundle(r) ==
  /\ Saved(r)
  /\ seen[r] = NoRow
  /\ r \in Merges
  /\ \E rows \in SUBSET [version : InitVersions, content : {Imported}] :
       /\ Creates(r, current', rows)
       /\ history' = history \cup rows

\* The live row becomes the version read, plus one.
CommitNext(r) ==
  /\ Saved(r)
  /\ seen[r] # NoRow
  /\ current' = [version |-> seen[r].version + 1, content |-> r]
  /\ history' = history \cup {snap[r]}

Commit(r) == CommitFirst(r) \/ CommitBundle(r) \/ CommitNext(r)

InTransaction == {"checked", "archiving", "archived", "written"}

Rollback(r) ==
  /\ pc[r] \in InTransaction
  /\ Goto(r, "unsaved")
  /\ UNCHANGED <<current, history, seen, snap, stale>>

---------------------------------------------------------------------------

\* The steps the program takes by itself once a request is under way.
Proceed(r) ==
  \/ Reload(r)
  \/ InsertFirst(r)
  \/ SelectLive(r)
  \/ Archive(r)
  \/ Update(r)
  \/ Commit(r)

\* The steps a user starts.
Request(r) == LoadForm(r) \/ Submit(r) \/ OpenEditor(r) \/ CloseEditor(r) \/ ReadVersion(r)

Next == \E r \in Requests : Request(r) \/ Proceed(r) \/ Rollback(r)

Spec == Init /\ [][Next]_vars

\* The server and the CLI run on; users and failures owe nothing.
FairSpec == Spec /\ \A r \in Requests : WF_vars(Proceed(r))

---------------------------------------------------------------------------
(* Types.                                                                  *)

Labels == {"idle", "editing", "conflict", "saved", "unsaved"} \cup InTransaction

\* Every variable holds what the program can put there: rows that carry a
\* version from 1 on, an archive of such rows, a known place per request.
TypeOK ==
  /\ current \in Row \cup {NoRow}
  /\ history \in SUBSET Row
  /\ pc \in [Requests -> Labels]
  /\ seen \in [Requests -> Row \cup {NoRow}]
  /\ snap \in [Requests -> Row \cup {NoRow}]
  /\ stale \in BOOLEAN

---------------------------------------------------------------------------
(* The invariant that carries the proofs: what a request has read or       *)
(* selected, against what is committed.                                    *)

\* A request that has seen a row knows that the row exists for good.
SeenStays == \A r \in Requests : seen[r] # NoRow => current # NoRow

\* A selected row is the live one, until a commit has archived its version.
SnapshotLiveOrArchived ==
  \A r \in Requests :
    pc[r] = "archiving" =>
      seen[r] # NoRow /\ snap[r] # NoRow /\ (snap[r] = current \/ Archived(snap[r].version))

\* What an open transaction has archived is the live row, archived by no one
\* else; what an open transaction has created does not exist yet.
WriterOwnsLiveRow ==
  \A r \in Requests :
    pc[r] \in {"archived", "written"} =>
      /\ pc[r] = "archived" => seen[r] # NoRow
      /\ IF seen[r] = NoRow THEN current = NoRow
         ELSE snap[r] = current /\ current # NoRow /\ ~Archived(current.version)

---------------------------------------------------------------------------
(* Safety.                                                                 *)

\* The archive's unique key serialises the writers although none of them
\* locks the row it reads: at most one transaction at a time is past its
\* first insert, whichever kinds of request are under way.
OneWriterAtATime ==
  \A r, s \in Requests :
    pc[r] \in {"archived", "written"} /\ pc[s] \in {"archived", "written"} => r = s

\* No content whose save was reported as done is ever lost: it is live, or
\* archived, even where a save has overwritten an edit it never saw.
NoSavedContentLost ==
  \A r \in Requests :
    pc[r] = "saved" => \/ current.content = r
                       \/ \E h \in history : h.content = r

\* The inductive invariant.
SaveInv ==
  /\ TypeOK
  /\ SeenStays
  /\ SnapshotLiveOrArchived
  /\ WriterOwnsLiveRow
  /\ OneWriterAtATime

\* Nobody but a save that replaced a row it never read can bring the live
\* version down to an archived one.
CollisionNeedsStaleSave == ~stale => \A h \in history : h.version < current.version

\* A live version that the archive already holds is the end of the
\* document: no later save of any kind is ever committed.
FrozenAfterCollision == [][Archived(current.version) => UNCHANGED current]_vars

\* Once there is a Self Core, whatever changes it adds to the archive exactly
\* the row taken away, though the version written comes from an older read.
ArchivesWhatItReplaces ==
  [][ current # NoRow /\ ~UNCHANGED <<current, history>> =>
        history' = history \cup {current} ]_vars

\* Seen through its contents alone, the Self Core is a document that
\* forgets nothing.
Document == INSTANCE VersionedDocument
              WITH doc <- current.content, kept <- {h.content : h \in history}

ForgetsNothing == Document!Spec

\* The claim of save_self_core's docstring: a concurrent edit is never
\* overwritten silently, so a web save replaces the row its form showed.
NoSilentOverwrite ==
  [][ \A r \in WebSaves : pc[r] = "written" /\ pc'[r] = "saved" => current = seen[r] ]_vars

\* The claim of import_soul's comment: the live version stays above the
\* archived ones, so that a later archiving of it cannot collide.
CurrentAboveArchive == \A h \in history : h.version < current.version

---------------------------------------------------------------------------
(* Liveness.                                                               *)

\* Whom r's next statement waits for: an open INSERT of the first row, one of
\* the same archived version, or an open UPDATE of the live row.
WaitsFor(r) ==
  {q \in Requests :
     \/ pc[r] = "checked" /\ seen[r] = NoRow /\ q \in Creating
     \/ pc[r] = "archiving" /\ q \in Archiving /\ snap[q].version = snap[r].version
     \/ pc[r] = "archived" /\ q \in Updating}

\* Whoever waits, waits for an open transaction that waits for nobody; and
\* once a transaction has archived, nothing more holds it up.
NobodyStuck ==
  \A r \in Requests :
    /\ \A q \in WaitsFor(r) : pc[q] \in {"archived", "written"} /\ WaitsFor(q) = {}
    /\ pc[r] = "archived" => Updating = {}

\* The most statements r's transaction has still to execute, its COMMIT
\* included.
StepsLeft(r) == CASE pc[r] = "checked"   -> 4
                  [] pc[r] = "archiving" -> 3
                  [] pc[r] = "archived"  -> 2
                  [] pc[r] = "written"   -> 1
                  [] OTHER -> 0

\* No other request adds to what an open transaction has to do, and each of
\* its own steps takes something away: it is over after four.
EachStepCounts ==
  [][ \A r \in Requests : pc[r] \in InTransaction =>
        \/ StepsLeft(r)' < StepsLeft(r)
        \/ UNCHANGED <<pc[r], seen[r], snap[r]>> ]_vars

\* A transaction that has begun to save ends: no set of writers, and no
\* editor left open, makes one wait for ever.
EverySaveEnds ==
  \A r \in Requests : pc[r] \in InTransaction ~> pc[r] \in {"saved", "unsaved"}

=============================================================================
