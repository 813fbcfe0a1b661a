--------------------------- MODULE Provisioning ---------------------------
(***************************************************************************)
(* How tenants, users, souls, their data keys and their tokens come to be, *)
(* and the cache of data keys in the server's memory.  Rows are made by    *)
(* soulctl, by its init command and by an import in the server; none of    *)
(* them is ever removed.  A row has the id of the request that inserts it, *)
(* since the database makes a new id for every row, and so has a data key. *)
(***************************************************************************)
EXTENDS Naturals

CONSTANTS Seeds,     \* runs of soulctl init
          Tenancies, \* runs of soulctl tenant create
          Creates,   \* runs of soulctl soul create
          Imports,   \* imports of a new soul in the server
          Mints,     \* requests for a token, of soulctl and of the web UI
          Emails, Slugs, Names,
          SeedEmail, SeedSlug, SeedName,
          NoName, NoSoul, NoKey, NoToken

Tenants == Seeds \cup Tenancies

Makers == Creates \cup Imports

SoulIds == Seeds \cup Makers

Soul == [tenant : Tenants, owner : Emails, slug : Slugs]

Token == [soul : SoulIds, tenant : Tenants, owner : Emails, slug : Slugs]

ASSUME ConstantsAssumption ==
  /\ Seeds \cap Tenancies = {} /\ Seeds \cap Makers = {} /\ Creates \cap Imports = {}
  /\ SeedEmail \in Emails /\ SeedSlug \in Slugs /\ SeedName \in Names
  /\ NoName \notin Names /\ NoSoul \notin Soul /\ NoKey \notin SoulIds /\ NoToken \notin Token

VARIABLES tenants, \* the name of each tenant
          users,   \* the (tenant, email) of each
          souls,
          keys,    \* soul_keys: the key of each soul
          tokens,
          pc,      \* where each seed, each creation and each import stands
          row,     \* the soul that a creation is about to insert, or has inserted
          cache,   \* the keys in the server's memory
          fetched, \* the key of a soul that a request of the server has read
          earlier  \* auxiliary: the seeds that were there when another one looked

rows == <<tenants, users, souls, keys, tokens>>
server == <<cache, fetched>>
vars == <<rows, pc, row, server, earlier>>

Init ==
  /\ tenants = [t \in Tenants |-> NoName]
  /\ users = {}
  /\ souls = [s \in SoulIds |-> NoSoul]
  /\ keys = [s \in SoulIds |-> NoKey]
  /\ tokens = [m \in Mints |-> NoToken]
  /\ pc = [r \in SoulIds |-> "idle"]
  /\ row = [c \in Makers |-> NoSoul]
  /\ cache = [s \in SoulIds |-> NoKey]
  /\ fetched = [s \in SoulIds |-> NoKey]
  /\ earlier = [r \in Seeds |-> {}]

Goto(r, label) == pc' = [pc EXCEPT ![r] = label]

---------------------------------------------------------------------------
(* Tenants and users.                                                      *)

\* Nothing keeps two tenants from having one name.
CreateTenant(t, name) ==
  /\ tenants[t] = NoName
  /\ tenants' = [tenants EXCEPT ![t] = name]
  /\ UNCHANGED <<users, souls, keys, tokens, pc, row, server, earlier>>

\* Mutant: the tenant may be one that there is not.
CreateAnyUser(t, e) ==
  /\ <<t, e>> \notin users
  /\ users' = users \cup {<<t, e>>}
  /\ UNCHANGED <<tenants, souls, keys, tokens, pc, row, server, earlier>>

\* UNIQUE (tenant_id, email).
CreateUser(t, e) ==
  /\ tenants[t] # NoName
  /\ <<t, e>> \notin users
  /\ users' = users \cup {<<t, e>>}
  /\ UNCHANGED <<tenants, souls, keys, tokens, pc, row, server, earlier>>

---------------------------------------------------------------------------
(* soulctl init.                                                           *)

\* Mutant: it does not look.
SeedAnyway(r) ==
  /\ pc[r] = "idle"
  /\ earlier' = [earlier EXCEPT ![r] = {q \in Seeds : pc[q] = "done"}]
  /\ Goto(r, "creating")
  /\ UNCHANGED <<rows, row, server>>

LookSeed(r) ==
  /\ pc[r] = "idle"
  /\ earlier' = [earlier EXCEPT ![r] = {q \in Seeds : pc[q] = "done"}]
  /\ Goto(r, IF \E t \in Tenants : tenants[t] = SeedName THEN "skipped" ELSE "creating")
  /\ UNCHANGED <<rows, row, server>>

\* One transaction inserts the tenant, the user, the soul and its key.
CommitSeed(r) ==
  /\ pc[r] = "creating"
  /\ tenants' = [tenants EXCEPT ![r] = SeedName]
  /\ users' = users \cup {<<r, SeedEmail>>}
  /\ souls' = [souls EXCEPT ![r] = [tenant |-> r, owner |-> SeedEmail, slug |-> SeedSlug]]
  /\ keys' = [keys EXCEPT ![r] = r]
  /\ Goto(r, "done")
  /\ UNCHANGED <<tokens, row, server, earlier>>

---------------------------------------------------------------------------
(* soulctl soul create, and import_soul for an owner.                      *)

SamePlace(s, t) == s.tenant = t.tenant /\ s.slug = t.slug

\* Mutant: a SELECT in place of UNIQUE (tenant_id, slug).
InsertAtOnce(c, s) ==
  /\ pc[c] = "idle"
  /\ <<s.tenant, s.owner>> \in users
  /\ row' = [row EXCEPT ![c] = s]
  /\ Goto(c, IF \E t \in SoulIds : souls[t] # NoSoul /\ SamePlace(souls[t], s)
             THEN "failed" ELSE "creating")
  /\ UNCHANGED <<rows, server, earlier>>

\* The INSERT waits for an uncommitted one of the same tenant and slug, and
\* fails if there is a committed one.
Insert(c, s) ==
  /\ pc[c] = "idle"
  /\ <<s.tenant, s.owner>> \in users
  /\ \A d \in Makers : pc[d] = "creating" => ~SamePlace(row[d], s)
  /\ row' = [row EXCEPT ![c] = s]
  /\ Goto(c, IF \E t \in SoulIds : souls[t] # NoSoul /\ SamePlace(souls[t], s)
             THEN "failed" ELSE "creating")
  /\ UNCHANGED <<rows, server, earlier>>

\* A sensitive property of an import puts the new soul's key into the cache,
\* before the soul is committed.
KeepOwnKey(i) ==
  /\ pc[i] = "creating"
  /\ cache' = [cache EXCEPT ![i] = i]
  /\ UNCHANGED <<rows, pc, row, fetched, earlier>>

CommitSoul(c) ==
  /\ pc[c] = "creating"
  /\ souls' = [souls EXCEPT ![c] = row[c]]
  /\ keys' = [keys EXCEPT ![c] = c]
  /\ Goto(c, "done")
  /\ UNCHANGED <<tenants, users, tokens, row, server, earlier>>

\* What an import that fails has put into the cache stays there.
Fail(r) ==
  /\ pc[r] = "creating"
  /\ Goto(r, "failed")
  /\ UNCHANGED <<rows, row, server, earlier>>

---------------------------------------------------------------------------
(* Tokens.                                                                 *)

\* The soul is found by its slug alone: if two tenants have one of that slug,
\* either of them may come first.
Mint(m, slug) ==
  /\ tokens[m] = NoToken
  /\ \E s \in SoulIds :
       /\ souls[s] # NoSoul
       /\ souls[s].slug = slug
       /\ tokens' = [tokens EXCEPT ![m] = [soul |-> s, tenant |-> souls[s].tenant,
                                           owner |-> souls[s].owner, slug |-> slug]]
  /\ UNCHANGED <<tenants, users, souls, keys, pc, row, server, earlier>>

---------------------------------------------------------------------------
(* The keys in the server.  A request comes with the id of a soul that it  *)
(* found in the database; the requests of one soul share what they read.   *)

\* The SELECT of _get_dek, if the cache has none.
FetchKey(s) ==
  /\ souls[s] # NoSoul
  /\ cache[s] = NoKey
  /\ keys[s] # NoKey
  /\ fetched' = [fetched EXCEPT ![s] = keys[s]]
  /\ UNCHANGED <<rows, pc, row, cache, earlier>>

\* Mutant: the cache goes by slug.
PutBySlug(s) ==
  /\ fetched[s] # NoKey
  /\ cache' = [t \in SoulIds |-> IF souls[t] # NoSoul /\ souls[t].slug = souls[s].slug
                                 THEN fetched[s] ELSE cache[t]]
  /\ fetched' = [fetched EXCEPT ![s] = NoKey]
  /\ UNCHANGED <<rows, pc, row, earlier>>

\* What was read is put into the cache, whatever has happened to it meanwhile.
PutKey(s) ==
  /\ fetched[s] # NoKey
  /\ cache' = [cache EXCEPT ![s] = fetched[s]]
  /\ fetched' = [fetched EXCEPT ![s] = NoKey]
  /\ UNCHANGED <<rows, pc, row, earlier>>

\* dek_cache_ttl_seconds have gone by, or a route invalidates the entry.
Forget(s) ==
  /\ cache[s] # NoKey
  /\ cache' = [cache EXCEPT ![s] = NoKey]
  /\ UNCHANGED <<rows, pc, row, fetched, earlier>>

\* A restart of the server rolls its imports back.
Restart ==
  /\ cache' = [s \in SoulIds |-> NoKey]
  /\ fetched' = [s \in SoulIds |-> NoKey]
  /\ pc' = [r \in SoulIds |->
              IF r \in Imports /\ pc[r] = "creating" THEN "failed" ELSE pc[r]]
  /\ UNCHANGED <<rows, row, earlier>>

---------------------------------------------------------------------------

Seed(r) == LookSeed(r) \/ CommitSeed(r) \/ Fail(r)

Make(c) ==
  (\E s \in Soul : Insert(c, s)) \/ CommitSoul(c) \/ Fail(c)

Administer ==
  \/ \E t \in Tenancies, name \in Names : CreateTenant(t, name)
  \/ \E t \in Tenants, e \in Emails : CreateUser(t, e)
  \/ \E m \in Mints, slug \in Slugs : Mint(m, slug)

UseKeys(s) == FetchKey(s) \/ PutKey(s) \/ Forget(s)

Next == \/ Administer
        \/ \E r \in Seeds : Seed(r)
        \/ \E c \in Makers : Make(c)
        \/ \E i \in Imports : KeepOwnKey(i)
        \/ \E s \in SoulIds : UseKeys(s)
        \/ Restart

Spec == Init /\ [][Next]_vars

---------------------------------------------------------------------------

\* A soul that is about to be inserted has an owner in its tenant.
TypeOK ==
  /\ tenants \in [Tenants -> Names \cup {NoName}]
  /\ users \subseteq {<<t, e>> : t \in {x \in Tenants : tenants[x] # NoName}, e \in Emails}
  /\ souls \in [SoulIds -> Soul \cup {NoSoul}]
  /\ keys \in [SoulIds -> SoulIds \cup {NoKey}]
  /\ tokens \in [Mints -> Token \cup {NoToken}]
  /\ pc \in [SoulIds -> {"idle", "creating", "done", "skipped", "failed"}]
  /\ row \in [Makers -> Soul \cup {NoSoul}]
  /\ \A c \in Makers : pc[c] # "idle" =>
       row[c] # NoSoul /\ <<row[c].tenant, row[c].owner>> \in users
  /\ cache \in [SoulIds -> SoulIds \cup {NoKey}]
  /\ fetched \in [SoulIds -> SoulIds \cup {NoKey}]
  /\ earlier \in [Seeds -> SUBSET Seeds]

---------------------------------------------------------------------------
(* The invariant that carries the proofs.                                  *)

Exists(s) == souls[s] # NoSoul

\* A seed names its tenant when it is committed, and none had been before it
\* looked.
SeedsOK ==
  \A r \in Seeds : /\ tenants[r] = IF pc[r] = "done" THEN SeedName ELSE NoName
                   /\ pc[r] \in {"creating", "done"} => earlier[r] = {}

\* A committed soul is its request's, and has an owner in its tenant.
SoulsOK ==
  \A s \in SoulIds : Exists(s) =>
    /\ pc[s] = "done"
    /\ <<souls[s].tenant, souls[s].owner>> \in users
    /\ s \in Seeds => souls[s].tenant = s

\* One soul at a place, counting the one that is being created.
PlacesOK ==
  /\ \A s, t \in SoulIds :
       Exists(s) /\ Exists(t) /\ SamePlace(souls[s], souls[t]) => s = t
  /\ \A c \in Makers : pc[c] = "creating" =>
       /\ \A s \in SoulIds : Exists(s) => ~SamePlace(souls[s], row[c])
       /\ \A d \in Makers \ {c} : pc[d] = "creating" => ~SamePlace(row[d], row[c])

TokensOK ==
  \A m \in Mints : tokens[m] # NoToken =>
    LET k == tokens[m]
    IN  souls[k.soul] = [tenant |-> k.tenant, owner |-> k.owner, slug |-> k.slug]

KeysOK ==
  \A s \in SoulIds :
    /\ keys[s] = IF Exists(s) THEN s ELSE NoKey
    /\ cache[s] \in {s, NoKey} /\ fetched[s] \in {s, NoKey}
    /\ fetched[s] # NoKey => Exists(s)
    /\ cache[s] # NoKey => Exists(s) \/ pc[s] \in {"creating", "failed"}

RegistryInv == TypeOK /\ SeedsOK /\ SoulsOK /\ PlacesOK /\ TokensOK /\ KeysOK

---------------------------------------------------------------------------

\* init looks for its tenant and inserts it later, and no key of the database
\* keeps a second one out: two seeds are possible, but only if neither had
\* been committed when the other one looked.
TwoSeedsOverlap ==
  \A q, r \in Seeds : pc[q] = "done" /\ pc[r] = "done" => q \notin earlier[r]

\* A slug names one soul in a tenant, however creations, imports and seeds
\* race, and a token is of its soul's own tenant and owner, who is a user of
\* that tenant, also where the slug it was asked for names souls of two.
TokensKeepToTenant ==
  /\ \A s, t \in SoulIds :
       Exists(s) /\ Exists(t) /\ SamePlace(souls[s], souls[t]) => s = t
  /\ \A m \in Mints : tokens[m] # NoToken =>
       LET k == tokens[m]
       IN  /\ souls[k.soul] = [tenant |-> k.tenant, owner |-> k.owner, slug |-> k.slug]
           /\ <<k.tenant, k.owner>> \in users

\* Who finds a soul in the database gets the key in its row, from there or from
\* the cache; what a rolled back import has left in the cache is under an id
\* that no soul will have.
CachedKeyOpens ==
  \A s \in SoulIds :
    /\ Exists(s) => keys[s] # NoKey
    /\ Exists(s) /\ cache[s] # NoKey => cache[s] = keys[s]
    /\ Exists(s) /\ fetched[s] # NoKey => fetched[s] = keys[s]
    /\ cache[s] # NoKey => Exists(s) \/ pc[s] \in {"creating", "failed"}

\* Waiting INSERTs, roll-backs, restarts and the cache leave no trace in the
\* rows: each comes to be whole, at a place that is free when it is committed
\* and not only when it was looked at.
Registry == INSTANCE SoulRegistry

CommitsAreWhole == Registry!Spec

=============================================================================
