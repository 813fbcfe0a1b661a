------------------------ MODULE ProvisioningProofs ------------------------
(***************************************************************************)
(* Proofs about Provisioning for every set of seeds, tenants, creations,   *)
(* imports, tokens and names.                                              *)
(***************************************************************************)
EXTENDS Provisioning, TLAPS

LEMMA InitKeeps == Init => RegistryInv
<1> SUFFICES ASSUME Init
             PROVE  RegistryInv
  OBVIOUS
<1>1. TypeOK
  BY DEF Init, TypeOK, Makers, SoulIds
<1>2. SeedsOK
  BY ConstantsAssumption DEF Init, SeedsOK, Tenants, SoulIds
<1>3. SoulsOK /\ PlacesOK /\ TokensOK /\ KeysOK
  BY DEF Init, SoulsOK, PlacesOK, TokensOK, KeysOK, Exists, Makers, SoulIds
<1> QED
  BY <1>1, <1>2, <1>3 DEF RegistryInv

\* A token's soul is there.
LEMMA TokenSoul ==
  ASSUME RegistryInv, NEW m \in Mints, tokens[m] # NoToken
  PROVE  tokens[m].soul \in SoulIds /\ Exists(tokens[m].soul)
<1> DEFINE k == tokens[m]
           s == [tenant |-> k.tenant, owner |-> k.owner, slug |-> k.slug]
<1>1. k \in Token
  BY DEF RegistryInv, TypeOK
<1>2. k.soul \in SoulIds /\ s \in Soul
  BY <1>1 DEF Token, Soul
<1>3. souls[k.soul] = s
  BY DEF RegistryInv, TokensOK
<1> QED
  BY <1>2, <1>3, ConstantsAssumption DEF Exists

---------------------------------------------------------------------------
(* Tenants, users and seeds.                                               *)

LEMMA CreateTenantKeeps ==
  ASSUME RegistryInv, NEW t \in Tenancies, NEW name \in Names, CreateTenant(t, name)
  PROVE  RegistryInv'
<1>1. t \in Tenants /\ t \notin Seeds
  BY ConstantsAssumption DEF Tenants
<1>2. TypeOK'
  BY <1>1, ConstantsAssumption DEF RegistryInv, TypeOK, CreateTenant, server
<1>3. SeedsOK'
  BY <1>1 DEF RegistryInv, TypeOK, SeedsOK, CreateTenant
<1>4. SoulsOK' /\ PlacesOK' /\ TokensOK' /\ KeysOK'
  BY DEF RegistryInv, SoulsOK, PlacesOK, TokensOK, KeysOK, Exists, CreateTenant, server
<1> QED
  BY <1>2, <1>3, <1>4 DEF RegistryInv

LEMMA CreateUserKeeps ==
  ASSUME RegistryInv, NEW t \in Tenants, NEW e \in Emails, CreateUser(t, e)
  PROVE  RegistryInv'
<1>1. TypeOK'
  BY DEF RegistryInv, TypeOK, CreateUser, server
<1>2. SeedsOK' /\ PlacesOK' /\ TokensOK' /\ KeysOK'
  BY DEF RegistryInv, SeedsOK, PlacesOK, TokensOK, KeysOK, Exists, CreateUser, server
<1>3. SoulsOK'
  BY DEF RegistryInv, SoulsOK, Exists, CreateUser
<1> QED
  BY <1>1, <1>2, <1>3 DEF RegistryInv

LEMMA LookSeedKeeps ==
  ASSUME RegistryInv, NEW r \in Seeds, LookSeed(r)
  PROVE  RegistryInv'
<1> DEFINE label == IF \E t \in Tenants : tenants[t] = SeedName THEN "skipped" ELSE "creating"
<1>1. r \in SoulIds /\ r \notin Makers /\ pc[r] = "idle" /\ pc' = [pc EXCEPT ![r] = label]
      /\ UNCHANGED <<tenants, users, souls, keys, tokens, row, cache, fetched>>
  BY ConstantsAssumption DEF SoulIds, LookSeed, Goto, rows, server
<1>2. label \in {"skipped", "creating"}
  OBVIOUS
<1> HIDE DEF label
<1>3. TypeOK'
  BY <1>1, <1>2 DEF RegistryInv, TypeOK, LookSeed
<1>4. SeedsOK'
  <2>1. label = "creating" => \A q \in Seeds : pc[q] # "done"
    BY DEF RegistryInv, SeedsOK, Tenants, label
  <2>2. earlier' = [earlier EXCEPT ![r] = {q \in Seeds : pc[q] = "done"}]
    BY DEF LookSeed
  <2> QED
    BY <1>1, <1>2, <2>1, <2>2 DEF RegistryInv, TypeOK, SeedsOK, SoulIds
<1>5. \A s \in SoulIds : s # r => pc'[s] = pc[s]
  BY <1>1 DEF RegistryInv, TypeOK
<1>6. ~Exists(r) /\ cache[r] = NoKey
  BY <1>1 DEF RegistryInv, SoulsOK, KeysOK
<1>7. SoulsOK' /\ PlacesOK' /\ TokensOK' /\ KeysOK'
  BY <1>1, <1>5, <1>6
     DEF RegistryInv, SoulsOK, PlacesOK, TokensOK, KeysOK, Exists, Makers, SoulIds
<1> QED
  BY <1>3, <1>4, <1>7 DEF RegistryInv

\* A seed's tenant is its own, so that its soul is at a place of its own.
LEMMA CommitSeedKeeps ==
  ASSUME RegistryInv, NEW r \in Seeds, CommitSeed(r)
  PROVE  RegistryInv'
<1> DEFINE new == [tenant |-> r, owner |-> SeedEmail, slug |-> SeedSlug]
<1>1. /\ r \in SoulIds /\ r \in Tenants /\ r \notin Makers /\ new \in Soul
      /\ new.tenant = r /\ new.owner = SeedEmail
      /\ pc[r] = "creating" /\ pc' = [pc EXCEPT ![r] = "done"]
      /\ souls' = [souls EXCEPT ![r] = new]
      /\ keys' = [keys EXCEPT ![r] = r]
      /\ tenants' = [tenants EXCEPT ![r] = SeedName]
      /\ users' = users \cup {<<r, SeedEmail>>}
      /\ UNCHANGED <<tokens, row, cache, fetched, earlier>>
  BY ConstantsAssumption DEF SoulIds, Tenants, Soul, CommitSeed, Goto, server
<1>2. new # NoSoul /\ ~Exists(r) /\ tenants[r] = NoName
  BY <1>1, ConstantsAssumption DEF RegistryInv, SoulsOK, SeedsOK
<1> HIDE DEF new
<1>3. \A e \in Emails : <<r, e>> \notin users
  BY <1>2 DEF RegistryInv, TypeOK
<1>4. TypeOK'
  BY <1>1, ConstantsAssumption DEF RegistryInv, TypeOK
<1>5. SeedsOK'
  BY <1>1 DEF RegistryInv, TypeOK, SeedsOK, SoulIds
<1>6. /\ souls'[r] = new /\ pc'[r] = "done" /\ keys'[r] = r
      /\ \A s \in SoulIds \ {r} : souls'[s] = souls[s] /\ pc'[s] = pc[s] /\ keys'[s] = keys[s]
  BY <1>1 DEF RegistryInv, TypeOK
<1>7. SoulsOK'
  BY <1>1, <1>6 DEF RegistryInv, SoulsOK, Exists
<1>8. \A s \in SoulIds : Exists(s) => souls[s].tenant # r
  <2> SUFFICES ASSUME NEW s \in SoulIds, Exists(s), souls[s].tenant = r
               PROVE  FALSE
    OBVIOUS
  <2>1. souls[s].owner \in Emails
    BY DEF RegistryInv, TypeOK, Exists, Soul
  <2> QED
    BY <1>3, <2>1 DEF RegistryInv, SoulsOK
<1>9. \A c \in Makers : pc[c] = "creating" => row[c].tenant # r
  <2> SUFFICES ASSUME NEW c \in Makers, pc[c] = "creating", row[c].tenant = r
               PROVE  FALSE
    OBVIOUS
  <2>1. row[c] \in Soul /\ <<row[c].tenant, row[c].owner>> \in users
    BY DEF RegistryInv, TypeOK
  <2> QED
    BY <1>3, <2>1 DEF Soul
<1>10. PlacesOK'
  <2>1. \A s, t \in SoulIds :
          Exists(s)' /\ Exists(t)' /\ SamePlace(souls'[s], souls'[t]) => s = t
    BY <1>1, <1>6, <1>8 DEF RegistryInv, PlacesOK, Exists, SamePlace
  <2>2. ASSUME NEW c \in Makers, pc'[c] = "creating"
        PROVE  /\ pc[c] = "creating"
               /\ \A s \in SoulIds : Exists(s)' => ~SamePlace(souls'[s], row'[c])
    BY <1>1, <1>6, <1>9, <2>2 DEF RegistryInv, PlacesOK, Exists, SamePlace, SoulIds
  <2> QED
    BY <1>1, <2>1, <2>2 DEF RegistryInv, PlacesOK
<1>11. TokensOK'
  <2> SUFFICES ASSUME NEW m \in Mints, tokens[m] # NoToken
               PROVE  souls'[tokens[m].soul] = souls[tokens[m].soul]
    BY <1>1 DEF RegistryInv, TokensOK
  <2>1. tokens[m].soul \in SoulIds \ {r}
    BY <1>2, TokenSoul
  <2> QED
    BY <1>6, <2>1
<1>12. KeysOK'
  BY <1>1, <1>2, <1>6 DEF RegistryInv, KeysOK, Exists
<1> QED
  BY <1>4, <1>5, <1>7, <1>10, <1>11, <1>12 DEF RegistryInv

---------------------------------------------------------------------------
(* Creations, imports and tokens.                                          *)

\* Who inserts has found no committed row at the place and waits for the
\* uncommitted ones.
LEMMA InsertKeeps ==
  ASSUME RegistryInv, NEW c \in Makers, NEW s \in Soul, Insert(c, s)
  PROVE  RegistryInv'
<1> DEFINE free == \A t \in SoulIds : Exists(t) => ~SamePlace(souls[t], s)
           label == IF free THEN "creating" ELSE "failed"
<1>1. /\ c \in SoulIds /\ c \notin Seeds /\ pc[c] = "idle" /\ pc' = [pc EXCEPT ![c] = label]
      /\ row' = [row EXCEPT ![c] = s]
      /\ <<s.tenant, s.owner>> \in users
      /\ \A d \in Makers : pc[d] = "creating" => ~SamePlace(row[d], s)
      /\ UNCHANGED <<tenants, users, souls, keys, tokens, cache, fetched, earlier>>
  BY ConstantsAssumption DEF SoulIds, Insert, Goto, Exists, rows, server
<1>2. label \in {"creating", "failed"} /\ (label = "creating" => free)
  OBVIOUS
<1> HIDE DEF label
<1>3. s # NoSoul
  BY ConstantsAssumption
<1>4. TypeOK'
  <2>1. /\ row' \in [Makers -> Soul \cup {NoSoul}]
        /\ pc' \in [SoulIds -> {"idle", "creating", "done", "skipped", "failed"}]
    BY <1>1, <1>2 DEF RegistryInv, TypeOK
  <2>2. ASSUME NEW d \in Makers, pc'[d] # "idle"
        PROVE  row'[d] # NoSoul /\ <<row'[d].tenant, row'[d].owner>> \in users
    <3>1. CASE d = c
      BY <1>1, <1>3, <3>1 DEF RegistryInv, TypeOK
    <3>2. CASE d # c
      BY <1>1, <2>2, <3>2 DEF RegistryInv, TypeOK, SoulIds
    <3> QED
      BY <3>1, <3>2
  <2> QED
    BY <1>1, <2>1, <2>2 DEF RegistryInv, TypeOK
<1>5. /\ pc'[c] = label /\ row'[c] = s
      /\ \A t \in SoulIds \ {c} : pc'[t] = pc[t]
      /\ \A d \in Makers \ {c} : row'[d] = row[d]
  BY <1>1 DEF RegistryInv, TypeOK
<1>6. ~Exists(c) /\ cache[c] = NoKey
  BY <1>1 DEF RegistryInv, SoulsOK, KeysOK
<1>7. SeedsOK' /\ SoulsOK' /\ TokensOK' /\ KeysOK'
  BY <1>1, <1>5, <1>6 DEF RegistryInv, SeedsOK, SoulsOK, TokensOK, KeysOK, Exists, SoulIds
<1>8. PlacesOK'
  <2>1. ASSUME NEW d \in Makers, pc'[d] = "creating"
        PROVE  /\ \A t \in SoulIds : Exists(t) => ~SamePlace(souls[t], row'[d])
               /\ \A e \in Makers \ {d} : pc'[e] = "creating" => ~SamePlace(row'[e], row'[d])
    <3>1. CASE d = c
      BY <1>1, <1>2, <1>5, <2>1, <3>1 DEF SoulIds
    <3>2. CASE d # c
      BY <1>1, <1>5, <2>1, <3>2 DEF RegistryInv, PlacesOK, SamePlace, SoulIds
    <3> QED
      BY <3>1, <3>2
  <2> QED
    BY <1>1, <2>1 DEF RegistryInv, PlacesOK, Exists
<1> QED
  BY <1>4, <1>7, <1>8 DEF RegistryInv

LEMMA CommitSoulKeeps ==
  ASSUME RegistryInv, NEW c \in Makers, CommitSoul(c)
  PROVE  RegistryInv'
<1>1. /\ c \in SoulIds /\ c \notin Seeds /\ pc[c] = "creating"
      /\ pc' = [pc EXCEPT ![c] = "done"]
      /\ souls' = [souls EXCEPT ![c] = row[c]] /\ keys' = [keys EXCEPT ![c] = c]
      /\ UNCHANGED <<tenants, users, tokens, row, cache, fetched, earlier>>
  BY ConstantsAssumption DEF SoulIds, CommitSoul, Goto, server
<1>2. /\ row[c] \in Soul /\ row[c] # NoSoul /\ ~Exists(c)
      /\ <<row[c].tenant, row[c].owner>> \in users
  <2>1. row[c] \in Soul \cup {NoSoul} /\ row[c] # NoSoul
        /\ <<row[c].tenant, row[c].owner>> \in users
    BY <1>1 DEF RegistryInv, TypeOK
  <2>2. ~Exists(c)
    BY <1>1 DEF RegistryInv, SoulsOK
  <2> QED
    BY <2>1, <2>2
<1>3. TypeOK'
  <2>1. /\ souls' \in [SoulIds -> Soul \cup {NoSoul}] /\ keys' \in [SoulIds -> SoulIds \cup {NoKey}]
        /\ pc' \in [SoulIds -> {"idle", "creating", "done", "skipped", "failed"}]
    BY <1>1, <1>2 DEF RegistryInv, TypeOK
  <2>2. \A d \in Makers : pc'[d] # "idle" => pc[d] # "idle"
    BY <1>1 DEF RegistryInv, TypeOK, SoulIds
  <2> QED
    BY <1>1, <2>1, <2>2 DEF RegistryInv, TypeOK
<1>4. /\ souls'[c] = row[c] /\ pc'[c] = "done" /\ keys'[c] = c
      /\ \A t \in SoulIds \ {c} : souls'[t] = souls[t] /\ pc'[t] = pc[t] /\ keys'[t] = keys[t]
  BY <1>1 DEF RegistryInv, TypeOK
<1>5. SeedsOK'
  BY <1>1, <1>4 DEF RegistryInv, SeedsOK, SoulIds
<1>6. SoulsOK'
  BY <1>1, <1>2, <1>4 DEF RegistryInv, SoulsOK, Exists
<1>7. PlacesOK'
  <2>1. \A s \in SoulIds : Exists(s) => ~SamePlace(souls[s], row[c])
    BY <1>1 DEF RegistryInv, PlacesOK
  <2>2. \A s, t \in SoulIds :
          Exists(s)' /\ Exists(t)' /\ SamePlace(souls'[s], souls'[t]) => s = t
    BY <1>1, <1>4, <2>1 DEF RegistryInv, PlacesOK, Exists, SamePlace
  <2>3. ASSUME NEW d \in Makers, pc'[d] = "creating"
        PROVE  /\ d # c /\ pc[d] = "creating"
               /\ \A s \in SoulIds : Exists(s)' => ~SamePlace(souls'[s], row'[d])
    BY <1>1, <1>4, <2>3 DEF RegistryInv, PlacesOK, Exists, SamePlace, SoulIds
  <2> QED
    BY <1>1, <2>2, <2>3 DEF RegistryInv, PlacesOK
<1>8. TokensOK'
  <2> SUFFICES ASSUME NEW m \in Mints, tokens[m] # NoToken
               PROVE  souls'[tokens[m].soul] = souls[tokens[m].soul]
    BY <1>1 DEF RegistryInv, TokensOK
  <2>1. tokens[m].soul \in SoulIds \ {c}
    BY <1>2, TokenSoul
  <2> QED
    BY <1>4, <2>1
<1>9. KeysOK'
  BY <1>1, <1>2, <1>4 DEF RegistryInv, KeysOK, Exists
<1> QED
  BY <1>3, <1>5, <1>6, <1>7, <1>8, <1>9 DEF RegistryInv

\* Transactions that are rolled back, one of them or all of a server.
LEMMA RollbackKeeps ==
  ASSUME RegistryInv, UNCHANGED <<rows, row, earlier>>,
         pc' \in [SoulIds -> {"idle", "creating", "done", "skipped", "failed"}],
         \A s \in SoulIds : pc'[s] = pc[s] \/ (pc[s] = "creating" /\ pc'[s] = "failed"),
         UNCHANGED server \/ (\A s \in SoulIds : cache'[s] = NoKey /\ fetched'[s] = NoKey),
         cache' \in [SoulIds -> SoulIds \cup {NoKey}],
         fetched' \in [SoulIds -> SoulIds \cup {NoKey}]
  PROVE  RegistryInv'
<1>1. TypeOK'
  <2>1. UNCHANGED <<tenants, users, souls, keys, tokens, row, earlier>>
    BY DEF rows
  <2>2. \A c \in Makers : pc'[c] # "idle" => pc[c] # "idle"
    BY DEF SoulIds
  <2> QED
    BY <2>1, <2>2 DEF RegistryInv, TypeOK
<1>2. SeedsOK'
  BY DEF RegistryInv, SeedsOK, rows, SoulIds
<1>3. SoulsOK' /\ TokensOK' /\ KeysOK'
  BY DEF RegistryInv, SoulsOK, TokensOK, KeysOK, Exists, rows, server
<1>4. PlacesOK'
  BY DEF RegistryInv, PlacesOK, Exists, rows, Makers, SoulIds
<1> QED
  BY <1>1, <1>2, <1>3, <1>4 DEF RegistryInv

LEMMA MintKeeps ==
  ASSUME RegistryInv, NEW m \in Mints, NEW slug \in Slugs, Mint(m, slug)
  PROVE  RegistryInv'
<1>1. PICK s \in SoulIds :
        /\ Exists(s)
        /\ souls[s].slug = slug
        /\ tokens' = [tokens EXCEPT ![m] = [soul |-> s, tenant |-> souls[s].tenant,
                                            owner |-> souls[s].owner, slug |-> slug]]
  BY DEF Mint, Exists
<1> DEFINE new == [soul |-> s, tenant |-> souls[s].tenant, owner |-> souls[s].owner,
                   slug |-> slug]
<1>2. souls[s] \in Soul
  BY <1>1 DEF RegistryInv, TypeOK, Exists
<1>3. /\ new \in Token
      /\ souls[new.soul] = [tenant |-> new.tenant, owner |-> new.owner, slug |-> new.slug]
  BY <1>1, <1>2 DEF Soul, Token
<1>4. tokens' = [tokens EXCEPT ![m] = new]
  BY <1>1
<1> HIDE DEF new
<1>5. UNCHANGED <<tenants, users, souls, keys, pc, row, cache, fetched, earlier>>
  BY DEF Mint, server
<1>6. TypeOK' /\ TokensOK'
  BY <1>3, <1>4, <1>5 DEF RegistryInv, TypeOK, TokensOK
<1>7. SeedsOK' /\ SoulsOK' /\ PlacesOK' /\ KeysOK'
  BY <1>5 DEF RegistryInv, SeedsOK, SoulsOK, PlacesOK, KeysOK, Exists
<1> QED
  BY <1>6, <1>7 DEF RegistryInv

---------------------------------------------------------------------------
(* Keys.                                                                   *)

LEMMA KeyStepKeeps ==
  ASSUME RegistryInv,
         (\E s \in SoulIds : UseKeys(s)) \/ (\E i \in Imports : KeepOwnKey(i))
  PROVE  RegistryInv'
<1>1. UNCHANGED <<tenants, users, souls, keys, tokens, pc, row, earlier>>
  BY DEF UseKeys, FetchKey, PutKey, Forget, KeepOwnKey, rows
<1>2. TypeOK' /\ KeysOK'
  <2>1. ASSUME NEW s \in SoulIds, FetchKey(s)
        PROVE  TypeOK' /\ KeysOK'
    BY <1>1, <2>1 DEF RegistryInv, TypeOK, KeysOK, FetchKey, Exists
  <2>2. ASSUME NEW s \in SoulIds, PutKey(s)
        PROVE  TypeOK' /\ KeysOK'
    BY <1>1, <2>2 DEF RegistryInv, TypeOK, KeysOK, PutKey, Exists
  <2>3. ASSUME NEW s \in SoulIds, Forget(s)
        PROVE  TypeOK' /\ KeysOK'
    BY <1>1, <2>3 DEF RegistryInv, TypeOK, KeysOK, Forget, Exists
  <2>4. ASSUME NEW i \in Imports, KeepOwnKey(i)
        PROVE  TypeOK' /\ KeysOK'
    <3>1. i \in SoulIds
      BY DEF SoulIds, Makers
    <3> QED
      BY <1>1, <2>4, <3>1 DEF RegistryInv, TypeOK, KeysOK, KeepOwnKey, Exists
  <2> QED
    BY <2>1, <2>2, <2>3, <2>4 DEF UseKeys
<1>3. SeedsOK' /\ SoulsOK' /\ PlacesOK' /\ TokensOK'
  BY <1>1 DEF RegistryInv, SeedsOK, SoulsOK, PlacesOK, TokensOK, Exists
<1> QED
  BY <1>2, <1>3 DEF RegistryInv

---------------------------------------------------------------------------

LEMMA StepKeeps == RegistryInv /\ [Next]_vars => RegistryInv'
<1> SUFFICES ASSUME RegistryInv, [Next]_vars
             PROVE  RegistryInv'
  OBVIOUS
<1>1. CASE UNCHANGED vars
  BY <1>1 DEF vars, rows, server, RegistryInv, TypeOK, SeedsOK, SoulsOK, PlacesOK, TokensOK,
              KeysOK, Exists
<1>2. CASE Administer
  BY <1>2, CreateTenantKeeps, CreateUserKeeps, MintKeeps DEF Administer
<1>3. ASSUME NEW r \in SoulIds, Fail(r)
      PROVE  RegistryInv'
  <2>1. /\ pc' \in [SoulIds -> {"idle", "creating", "done", "skipped", "failed"}]
        /\ \A s \in SoulIds : pc'[s] = pc[s] \/ (pc[s] = "creating" /\ pc'[s] = "failed")
    BY <1>3 DEF Fail, Goto, RegistryInv, TypeOK
  <2>2. UNCHANGED <<rows, row, server, earlier>>
    BY <1>3 DEF Fail
  <2> QED
    BY <2>1, <2>2, RollbackKeeps DEF RegistryInv, TypeOK, server
<1>4. CASE Restart
  <2>1. /\ pc' \in [SoulIds -> {"idle", "creating", "done", "skipped", "failed"}]
        /\ \A s \in SoulIds : pc'[s] = pc[s] \/ (pc[s] = "creating" /\ pc'[s] = "failed")
    BY <1>4 DEF Restart, RegistryInv, TypeOK
  <2>2. /\ UNCHANGED <<rows, row, earlier>>
        /\ \A s \in SoulIds : cache'[s] = NoKey /\ fetched'[s] = NoKey
        /\ cache' \in [SoulIds -> SoulIds \cup {NoKey}]
        /\ fetched' \in [SoulIds -> SoulIds \cup {NoKey}]
    BY <1>4 DEF Restart
  <2> QED
    BY <2>1, <2>2, RollbackKeeps
<1>5. CASE \E r \in Seeds : Seed(r)
  BY <1>3, <1>5, LookSeedKeeps, CommitSeedKeeps DEF Seed, SoulIds
<1>6. CASE \E c \in Makers : Make(c)
  BY <1>3, <1>6, InsertKeeps, CommitSoulKeeps DEF Make, SoulIds
<1> QED
  BY <1>1, <1>2, <1>4, <1>5, <1>6, KeyStepKeeps DEF Next

\* Rows, tokens and cached keys fit together after every step, whatever seeds,
\* creations, imports and restarts there are.
THEOREM RegistryInvariant == Spec => []RegistryInv
  BY InitKeeps, StepKeeps, PTL DEF Spec

\* The owner of a soul that is being created is a user of its tenant.
THEOREM TypeCorrect == Spec => []TypeOK
<1>1. RegistryInv => TypeOK
  BY DEF RegistryInv
<1> QED
  BY <1>1, RegistryInvariant, PTL

\* A seed that is committed had seen no other one: two of them overlapped.
THEOREM SeedsOverlap == Spec => []TwoSeedsOverlap
<1>1. RegistryInv => TwoSeedsOverlap
  BY DEF RegistryInv, SeedsOK, TwoSeedsOverlap
<1> QED
  BY <1>1, RegistryInvariant, PTL

\* One soul at a place, and no token leaves its soul's tenant.
THEOREM TokensAreKept == Spec => []TokensKeepToTenant
<1>1. RegistryInv => TokensKeepToTenant
  <2> SUFFICES ASSUME RegistryInv, NEW m \in Mints, tokens[m] # NoToken
               PROVE  <<tokens[m].tenant, tokens[m].owner>> \in users
    BY DEF RegistryInv, PlacesOK, TokensOK, TokensKeepToTenant
  <2> DEFINE k == tokens[m]
             s == souls[k.soul]
  <2>1. s = [tenant |-> k.tenant, owner |-> k.owner, slug |-> k.slug]
    BY DEF RegistryInv, TokensOK
  <2>2. <<s.tenant, s.owner>> \in users
    BY TokenSoul DEF RegistryInv, SoulsOK
  <2> HIDE DEF s, k
  <2>3. s.tenant = k.tenant /\ s.owner = k.owner
    BY <2>1
  <2> QED
    BY <2>2, <2>3 DEF k
<1> QED
  BY <1>1, RegistryInvariant, PTL

\* The key that a request gets is the one its soul's rows are encrypted with.
THEOREM CachedKeysAreRight == Spec => []CachedKeyOpens
<1>1. RegistryInv => CachedKeyOpens
  BY ConstantsAssumption DEF RegistryInv, KeysOK, CachedKeyOpens
<1> QED
  BY <1>1, RegistryInvariant, PTL

---------------------------------------------------------------------------
(* The registry.                                                           *)

\* A committed seed is a tenant, a user, a soul and a key in one step: its
\* tenant had no name, so that no user and no soul was there.
LEMMA SeedIsWhole ==
  ASSUME RegistryInv, NEW r \in Seeds, CommitSeed(r)
  PROVE  Registry!Next
<1> DEFINE soul == [tenant |-> r, owner |-> SeedEmail, slug |-> SeedSlug]
<1>1. /\ r \in Tenants /\ r \in SoulIds /\ soul \in Soul /\ soul \in Registry!Soul
      /\ SeedName \in Names
  BY ConstantsAssumption DEF Tenants, SoulIds, Soul, Registry!Soul
<1>2. tenants[r] = NoName /\ pc[r] # "done"
  BY DEF RegistryInv, SeedsOK, CommitSeed
<1>3. \A e \in Emails : <<r, e>> \notin users
  BY <1>2 DEF RegistryInv, TypeOK
<1>4. \A s \in SoulIds : souls[s] # NoSoul => souls[s].tenant # r
  <2> SUFFICES ASSUME NEW s \in SoulIds, souls[s] # NoSoul PROVE souls[s].tenant # r
    OBVIOUS
  <2>1. souls[s] \in Soul /\ <<souls[s].tenant, souls[s].owner>> \in users
    BY DEF RegistryInv, TypeOK, SoulsOK, Exists
  <2>2. souls[s].owner \in Emails
    BY <2>1 DEF Soul
  <2> QED
    BY <1>3, <2>1, <2>2
<1>5. souls[r] = NoSoul /\ keys[r] = NoKey
  BY <1>1, <1>2 DEF RegistryInv, SoulsOK, KeysOK, Exists
<1>6. soul.tenant = r /\ soul.owner = SeedEmail
  OBVIOUS
<1>7. Registry!AddSoul(r, soul) /\ Registry!AddKey(r) /\ UNCHANGED tokens
  BY <1>4, <1>5, <1>6 DEF CommitSeed, Registry!AddSoul, Registry!AddKey, Registry!Free
<1>8. Registry!NameTenant(r, SeedName) /\ Registry!AddUser(r, SeedEmail)
  BY <1>2, <1>3, ConstantsAssumption DEF CommitSeed, Registry!NameTenant, Registry!AddUser
<1>9. Registry!Seed(r, soul)
  BY <1>1, <1>6, <1>7, <1>8 DEF Registry!Seed
<1> QED
  BY <1>1, <1>7, <1>9 DEF Registry!Found, Registry!Next

\* A committed soul has taken a place that is still free.
LEMMA SoulIsWhole ==
  ASSUME RegistryInv, NEW c \in Makers, CommitSoul(c)
  PROVE  Registry!Next
<1>1. c \in SoulIds /\ pc[c] = "creating"
  BY DEF SoulIds, CommitSoul
<1>2. /\ row[c] \in Soul /\ row[c] \in Registry!Soul
      /\ <<row[c].tenant, row[c].owner>> \in users
  BY <1>1 DEF RegistryInv, TypeOK, Soul, Registry!Soul
<1>3. souls[c] = NoSoul /\ keys[c] = NoKey
  BY <1>1 DEF RegistryInv, SoulsOK, KeysOK, Exists
<1>4. \A s \in SoulIds : souls[s] # NoSoul =>
        souls[s].tenant # row[c].tenant \/ souls[s].slug # row[c].slug
  BY <1>1 DEF RegistryInv, PlacesOK, Exists, SamePlace
<1>5. Registry!CreateSoul(c, row[c])
  BY <1>2, <1>3, <1>4 DEF CommitSoul, Registry!CreateSoul, Registry!AddSoul, Registry!Free
<1>6. Registry!AddKey(c) /\ UNCHANGED tokens
  BY <1>3 DEF CommitSoul, Registry!AddKey
<1> QED
  BY <1>1, <1>2, <1>5, <1>6 DEF Registry!Found, Registry!Next

\* The three programs and the cache implement the registry.
THEOREM RegistryIsImplemented == Spec => CommitsAreWhole
<1>1. Init => Registry!Init
  BY DEF Init, Registry!Init
<1>2. RegistryInv /\ [Next]_vars => [Registry!Next]_Registry!registry
  <2> SUFFICES ASSUME RegistryInv, [Next]_vars
               PROVE  Registry!Next \/ UNCHANGED Registry!registry
    OBVIOUS
  <2>1. ASSUME UNCHANGED rows PROVE UNCHANGED Registry!registry
    BY <2>1 DEF rows, Registry!registry
  <2>2. ASSUME NEW t \in Tenancies, NEW name \in Names, CreateTenant(t, name)
        PROVE  Registry!Next
    <3>1. Registry!CreateTenant(t, name)
      BY <2>2 DEF CreateTenant, Registry!CreateTenant, Registry!NameTenant
    <3> QED
      BY <3>1 DEF Registry!Next, Tenants
  <2>3. ASSUME NEW t \in Tenants, NEW e \in Emails, CreateUser(t, e)
        PROVE  Registry!Next
    <3>1. Registry!CreateUser(t, e)
      BY <2>3 DEF CreateUser, Registry!CreateUser, Registry!AddUser
    <3> QED
      BY <3>1 DEF Registry!Next
  <2>4. ASSUME NEW m \in Mints, NEW slug \in Slugs, Mint(m, slug)
        PROVE  Registry!Next
    <3>1. PICK s \in SoulIds :
            /\ souls[s] # NoSoul
            /\ souls[s].slug = slug
            /\ tokens' = [tokens EXCEPT ![m] = [soul |-> s, tenant |-> souls[s].tenant,
                                                owner |-> souls[s].owner, slug |-> slug]]
      BY <2>4 DEF Mint
    <3>2. Registry!Mint(m, s)
      BY <2>4, <3>1 DEF Mint, Registry!Mint
    <3> QED
      BY <3>2 DEF Registry!Next
  <2>5. ASSUME NEW r \in Seeds, Seed(r) PROVE Registry!Next \/ UNCHANGED rows
    BY <2>5, SeedIsWhole DEF Seed, LookSeed, Fail
  <2>6. ASSUME NEW c \in Makers, Make(c) PROVE Registry!Next \/ UNCHANGED rows
    BY <2>6, SoulIsWhole DEF Make, Insert, Fail
  <2>7. ASSUME \/ \E i \in Imports : KeepOwnKey(i)
               \/ \E s \in SoulIds : UseKeys(s)
               \/ Restart
               \/ UNCHANGED vars
        PROVE  UNCHANGED rows
    BY <2>7 DEF KeepOwnKey, UseKeys, FetchKey, PutKey, Forget, Restart, vars
  <2> QED
    BY <2>1, <2>2, <2>3, <2>4, <2>5, <2>6, <2>7 DEF Next, Administer
<1> QED
  BY <1>1, <1>2, RegistryInvariant, PTL DEF Spec, CommitsAreWhole, Registry!Spec

=============================================================================
