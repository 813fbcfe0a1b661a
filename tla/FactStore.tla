----------------------------- MODULE FactStore -----------------------------
(***************************************************************************)
(* The facts and the properties of one soul: learn_fact, set_property,     *)
(* their web and soulctl twins, the forgetting of either, and the part of  *)
(* import_soul that merges a bundle's entries.  Every request is one READ  *)
(* COMMITTED transaction whose statements interleave with the others'.     *)
(***************************************************************************)
EXTENDS Sequences, Naturals

CONSTANTS Sets,         \* requests that set one entry
          Forgets,      \* requests that forget one
          Imports,      \* imports into this soul
          Facts,        \* the (category, key) pairs of facts
          Properties,   \* the property types of the registry
          Values,
          Manifests,    \* the lists of entries that imports bring
          NoRow,        \* an entry that has never been written
          Nobody        \* an entry that no transaction has locked

Requests == Sets \cup Forgets \cup Imports

Keys == Facts \cup Properties

Row == [value : Values, status : {"active", "deleted"}]

Active(v) == [value |-> v, status |-> "active"]

\* A set is a list of one entry.
Single(k, v) == <<[key |-> k, row |-> Active(v)]>>

Bundles == Manifests \cup {Single(k, v) : k \in Keys, v \in Values}

ASSUME ConstantsAssumption ==
  /\ NoRow \notin Row
  /\ Nobody \notin Requests
  /\ Facts \cap Properties = {}
  /\ Sets \cap Forgets = {} /\ Sets \cap Imports = {} /\ Forgets \cap Imports = {}
  /\ Manifests \subseteq Seq([key : Keys, row : Row])
  /\ \A b \in Manifests : \A i \in 1..Len(b) :
       b[i].key \in Properties => b[i].row.status = "active"

VARIABLES rows,     \* the committed row of each entry
          draft,    \* its uncommitted one, by the transaction that has the lock
          lock,     \* who that is
          pc,       \* where each request stands
          bundle,   \* the list a request works through
          at,       \* the place in it of the next entry
          skip,     \* whether it leaves conflicting entries alone
          target,   \* the entry a forget has found active
          fresh     \* auxiliary: what others activated since an import began

input == <<bundle, skip>>
vars == <<rows, draft, lock, pc, input, at, target, fresh>>

Live(row) == row # NoRow /\ row.status = "active"

\* Any entry may have been set, or set and forgotten, before.
Init ==
  /\ rows \in [Keys -> Row \cup {NoRow}]
  /\ draft = [k \in Keys |-> NoRow]
  /\ lock = [k \in Keys |-> Nobody]
  /\ pc = [r \in Requests |-> "idle"]
  /\ bundle = [r \in Requests |-> <<>>]
  /\ at = [r \in Requests |-> 1]
  /\ skip = [r \in Requests |-> FALSE]
  /\ target \in [Forgets -> Keys]
  /\ fresh = [r \in Imports |-> {}]

---------------------------------------------------------------------------
(* Row locks.                                                              *)

Goto(r, label) == pc' = [pc EXCEPT ![r] = label]

Mine(r) == {k \in Keys : lock[k] = r}

Seen(r, k) == IF lock[k] = r THEN draft[k] ELSE rows[k]

Write(r, k, row) ==
  /\ lock[k] \in {Nobody, r}
  /\ lock' = [lock EXCEPT ![k] = r]
  /\ draft' = [draft EXCEPT ![k] = row]

Release(r) ==
  /\ lock' = [k \in Keys |-> IF lock[k] = r THEN Nobody ELSE lock[k]]
  /\ draft' = [k \in Keys |-> IF lock[k] = r THEN NoRow ELSE draft[k]]

---------------------------------------------------------------------------
(* Setting an entry, and merging a list of them.                           *)

StartSet(r) ==
  /\ r \in Sets
  /\ pc[r] = "idle"
  /\ \E k \in Keys, v \in Values : bundle' = [bundle EXCEPT ![r] = Single(k, v)]
  /\ Goto(r, "merging")
  /\ UNCHANGED <<rows, draft, lock, at, skip, target, fresh>>

StartImport(r) ==
  /\ r \in Imports
  /\ pc[r] = "idle"
  /\ \E b \in Manifests : bundle' = [bundle EXCEPT ![r] = b]
  /\ \E mode \in BOOLEAN : skip' = [skip EXCEPT ![r] = mode]
  /\ Goto(r, "merging")
  /\ UNCHANGED <<rows, draft, lock, at, target, fresh>>

HasNext(r) == pc[r] \in {"merging", "absent"} /\ at[r] <= Len(bundle[r])

Entry(r) == bundle[r][at[r]]

Advance(r) == at' = [at EXCEPT ![r] = @ + 1] /\ Goto(r, "merging")

\* Mutant: a conflict keeps the row's status.
UpsertValue(r) ==
  /\ HasNext(r)
  /\ ~skip[r] \/ pc[r] = "absent"
  /\ LET k == Entry(r).key
     IN  Write(r, k, IF Seen(r, k) = NoRow THEN Entry(r).row
                     ELSE [Entry(r).row EXCEPT !.status = Seen(r, k).status])
  /\ Advance(r)
  /\ UNCHANGED <<rows, input, target, fresh>>

\* INSERT ... ON CONFLICT DO UPDATE, which waits for the row's writer.
Upsert(r) ==
  /\ HasNext(r)
  /\ ~skip[r] \/ pc[r] = "absent"
  /\ Write(r, Entry(r).key, Entry(r).row)
  /\ Advance(r)
  /\ UNCHANGED <<rows, input, target, fresh>>

\* INSERT ... ON CONFLICT DO NOTHING, which waits for it too.
InsertFact(r) ==
  /\ HasNext(r)
  /\ skip[r]
  /\ LET k == Entry(r).key
     IN  /\ k \in Facts
         /\ IF Seen(r, k) = NoRow THEN Write(r, k, Entry(r).row)
            ELSE lock[k] \in {Nobody, r} /\ UNCHANGED <<draft, lock>>
  /\ Advance(r)
  /\ UNCHANGED <<rows, input, target, fresh>>

\* Mutant: a property is set without asking whether there is one.
SetProperty(r) ==
  /\ HasNext(r)
  /\ pc[r] = "merging"
  /\ skip[r]
  /\ Entry(r).key \in Properties
  /\ at' = at
  /\ Goto(r, "absent")
  /\ UNCHANGED <<rows, draft, lock, input, target, fresh>>

\* The SELECT before a property of an import that skips.
CheckProperty(r) ==
  /\ HasNext(r)
  /\ pc[r] = "merging"
  /\ skip[r]
  /\ Entry(r).key \in Properties
  /\ IF Live(Seen(r, Entry(r).key)) THEN Advance(r) ELSE at' = at /\ Goto(r, "absent")
  /\ UNCHANGED <<rows, draft, lock, input, target, fresh>>

---------------------------------------------------------------------------
(* Forgetting: a SELECT of the active row, then an UPDATE by its id.       *)

CheckActive(r) ==
  /\ r \in Forgets
  /\ pc[r] = "idle"
  /\ Goto(r, IF Live(rows[target[r]]) THEN "found" ELSE "missing")
  /\ UNCHANGED <<rows, draft, lock, input, at, target, fresh>>

Delete(r) ==
  /\ pc[r] = "found"
  /\ Write(r, target[r], [rows[target[r]] EXCEPT !.status = "deleted"])
  /\ Goto(r, "written")
  /\ UNCHANGED <<rows, input, at, target, fresh>>

---------------------------------------------------------------------------
(* The end of a transaction.                                               *)

Writing(r) == pc[r] \in {"merging", "absent", "found", "written"}

Finished(r) == pc[r] = "written" \/ (pc[r] = "merging" /\ at[r] > Len(bundle[r]))

Activates(r) == {k \in Mine(r) : Live(draft[k]) /\ ~Live(rows[k])}

\* Mutant: the session is left open.
CommitAndStay(r) ==
  /\ Finished(r)
  /\ rows' = [k \in Keys |-> Seen(r, k)]
  /\ fresh' = [q \in Imports |-> fresh[q] \cup (IF Writing(q) THEN Activates(r) ELSE {})]
  /\ Goto(r, "done")
  /\ UNCHANGED <<draft, lock, input, at, target>>

Commit(r) ==
  /\ Finished(r)
  /\ rows' = [k \in Keys |-> Seen(r, k)]
  /\ fresh' = [q \in Imports |-> fresh[q] \cup (IF Writing(q) THEN Activates(r) ELSE {})]
  /\ Release(r)
  /\ Goto(r, "done")
  /\ UNCHANGED <<input, at, target>>

\* A lost connection, a crash or an exception: nothing of the request stays.
Fail(r) ==
  /\ Writing(r)
  /\ Release(r)
  /\ Goto(r, "failed")
  /\ UNCHANGED <<rows, input, at, target, fresh>>

Merge(r) == StartSet(r) \/ StartImport(r) \/ Upsert(r) \/ InsertFact(r) \/ CheckProperty(r)

Next == \E r \in Requests : Merge(r) \/ CheckActive(r) \/ Delete(r) \/ Commit(r) \/ Fail(r)

Spec == Init /\ [][Next]_vars

---------------------------------------------------------------------------

LocksHeld ==
  \A k \in Keys : /\ lock[k] = Nobody <=> draft[k] = NoRow
                  /\ lock[k] # Nobody => Writing(lock[k])

\* A row is locked while it has a draft, by a request that is still writing;
\* lists are read in order.
TypeOK ==
  /\ LocksHeld
  /\ rows \in [Keys -> Row \cup {NoRow}]
  /\ draft \in [Keys -> Row \cup {NoRow}]
  /\ lock \in [Keys -> Requests \cup {Nobody}]
  /\ pc \in [Requests -> {"idle", "merging", "absent", "found", "written", "done",
                          "missing", "failed"}]
  /\ bundle \in [Requests -> Bundles \cup {<<>>}]
  /\ at \in [Requests -> Nat]
  /\ \A r \in Requests : at[r] \in 1..(Len(bundle[r]) + 1)
  /\ skip \in [Requests -> BOOLEAN]
  /\ target \in [Forgets -> Keys]
  /\ fresh \in [Imports -> SUBSET Keys]

\* Every commit is one whole request's change: nobody sees a part of an import,
\* a set or an import that overwrites leaves its own rows, active again if they
\* say so, and a forget deletes one entry and keeps its value.  Which row that
\* is, is not said: a forget deletes what stands when it commits, though it be
\* a value set after it looked.
Store == INSTANCE EntryStore

ActsAtOnce == Store!Spec

---------------------------------------------------------------------------
(* The invariant that carries the proofs, of each request.                 *)

StageOK(r) ==
  /\ pc[r] = "idle" => at[r] = 1
  /\ pc[r] = "absent" =>
       skip[r] /\ at[r] <= Len(bundle[r]) /\ Entry(r).key \in Properties
  /\ skip[r] => r \in Imports
  /\ r \in Forgets => pc[r] \notin {"merging", "absent"}
  /\ r \notin Forgets => pc[r] \notin {"found", "written", "missing"}
  /\ r \notin Forgets /\ Writing(r) => bundle[r] \in Bundles

\* A forget writes the row it has found, or the one that took its place.
ForgetHolds(r) ==
  /\ pc[r] = "found" => rows[target[r]] # NoRow /\ Mine(r) = {}
  /\ pc[r] = "written" => Mine(r) = {target[r]} /\ rows[target[r]] # NoRow
  /\ pc[r] = "written" => draft[target[r]] = Store!Deleted(rows[target[r]])

\* What a set or an import has written is in its list.
DraftsOffered(r) ==
  r \notin Forgets => \A k \in Mine(r) : draft[k] \in Store!Offers(bundle[r], k)

\* The entries it has been through are its own, or had a row to be skipped.
MergedSoFar(r) ==
  r \notin Forgets /\ Writing(r) =>
    \A i \in 1..(at[r] - 1) :
      LET k == bundle[r][i].key
      IN  \/ k \in Mine(r)
          \/ skip[r] /\ (k \in Properties \/ rows[k] # NoRow)

\* What an import that skips has written was absent, or made active since.
SkipsSettled(r) ==
  skip[r] =>
    /\ \A k \in Facts \cap Mine(r) : rows[k] = NoRow
    /\ \A k \in Properties \cap Mine(r) : Live(rows[k]) => k \in fresh[r]
    /\ pc[r] = "absent" /\ Live(rows[Entry(r).key]) => Entry(r).key \in fresh[r]

StoreInv ==
  /\ TypeOK
  /\ \A r \in Requests : /\ StageOK(r)
                         /\ ForgetHolds(r)
                         /\ DraftsOffered(r)
                         /\ MergedSoFar(r)
                         /\ SkipsSettled(r)

---------------------------------------------------------------------------

\* An import that skips replaces no fact that has a row, forgotten ones
\* included, and no active property but one that someone else made active while
\* the import was under way.
SkipKeepsSettled ==
  [][ \A r \in Imports, k \in Keys :
        skip[r] /\ Finished(r) /\ pc'[r] = "done" /\ rows[k] # NoRow /\ rows'[k] # rows[k]
          => k \in Properties /\ (Live(rows[k]) => k \in fresh[r]) ]_vars

\* The entry whose lock a request waits for, if it waits.
Awaits(r) ==
  IF pc[r] = "found" THEN {target[r]}
  ELSE IF HasNext(r) /\ (~skip[r] \/ pc[r] = "absent" \/ Entry(r).key \in Facts)
  THEN {Entry(r).key} ELSE {}

Blocked(r) == \E k \in Awaits(r) : lock[k] \notin {Nobody, r}

\* A set of requests each of which waits for another of the set: PostgreSQL
\* makes one of them fail.
Deadlocked(r) ==
  \E S \in SUBSET Requests :
    /\ r \in S
    /\ \A q \in S : \E k \in Awaits(q) : lock[k] \in S \ {q}

\* Whatever orders two imports take their entries in, no request waits for one
\* that is over: as long as any is writing, one of them can go on, or they are
\* deadlocked, which the database ends.
NobodyStuck ==
  (\E r \in Requests : Writing(r)) =>
    \E r \in Requests : Writing(r) /\ (Blocked(r) => Deadlocked(r))

=============================================================================
