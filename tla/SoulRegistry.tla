--------------------------- MODULE SoulRegistry ---------------------------
(***************************************************************************)
(* What is promised of tenants, users, souls, their keys and their tokens, *)
(* without the transactions that make them: each comes to be in one step,  *)
(* with all that it needs, never changes and never goes.  A place, a slug  *)
(* in a tenant, is free when a soul takes it; a soul has its key from the  *)
(* start and an owner who is a user; a token is made of a soul as it is.   *)
(***************************************************************************)
CONSTANTS Tenants, Emails, Slugs, Names, SoulIds,
          Mints,    \* requests for a token
          NoName, NoSoul, NoKey, NoToken

VARIABLES tenants,  \* the name of each tenant
          users,    \* the (tenant, email) of each
          souls,
          keys,     \* the key of each soul
          tokens

registry == <<tenants, users, souls, keys, tokens>>

Soul == [tenant : Tenants, owner : Emails, slug : Slugs]

Init ==
  /\ tenants = [t \in Tenants |-> NoName]
  /\ users = {}
  /\ souls = [s \in SoulIds |-> NoSoul]
  /\ keys = [s \in SoulIds |-> NoKey]
  /\ tokens = [m \in Mints |-> NoToken]

NameTenant(t, name) ==
  /\ tenants[t] = NoName
  /\ tenants' = [tenants EXCEPT ![t] = name]

AddUser(t, e) ==
  /\ <<t, e>> \notin users
  /\ users' = users \cup {<<t, e>>}

Free(soul) ==
  \A s \in SoulIds : souls[s] # NoSoul =>
    souls[s].tenant # soul.tenant \/ souls[s].slug # soul.slug

AddSoul(s, soul) ==
  /\ souls[s] = NoSoul
  /\ Free(soul)
  /\ souls' = [souls EXCEPT ![s] = soul]

AddKey(s) == keys[s] = NoKey /\ keys' = [keys EXCEPT ![s] = s]

---------------------------------------------------------------------------

CreateTenant(t, name) == NameTenant(t, name) /\ UNCHANGED <<users, souls, keys, tokens>>

CreateUser(t, e) ==
  /\ tenants[t] # NoName
  /\ AddUser(t, e)
  /\ UNCHANGED <<tenants, souls, keys, tokens>>

\* For a user that there is.
CreateSoul(s, soul) ==
  /\ <<soul.tenant, soul.owner>> \in users
  /\ AddSoul(s, soul)
  /\ UNCHANGED <<tenants, users>>

\* With a new tenant and its first user.
Seed(s, soul) ==
  /\ \E name \in Names : NameTenant(soul.tenant, name)
  /\ AddUser(soul.tenant, soul.owner)
  /\ AddSoul(s, soul)

\* A soul and its key come together, in either way.
Found(s) ==
  /\ AddKey(s)
  /\ \E soul \in Soul : CreateSoul(s, soul) \/ Seed(s, soul)
  /\ UNCHANGED tokens

Mint(m, s) ==
  /\ tokens[m] = NoToken
  /\ souls[s] # NoSoul
  /\ tokens' = [tokens EXCEPT ![m] = [soul |-> s, tenant |-> souls[s].tenant,
                                      owner |-> souls[s].owner, slug |-> souls[s].slug]]
  /\ UNCHANGED <<tenants, users, souls, keys>>

Next ==
  \/ \E t \in Tenants, name \in Names : CreateTenant(t, name)
  \/ \E t \in Tenants, e \in Emails : CreateUser(t, e)
  \/ \E s \in SoulIds : Found(s)
  \/ \E m \in Mints, s \in SoulIds : Mint(m, s)

Spec == Init /\ [][Next]_registry

=============================================================================
