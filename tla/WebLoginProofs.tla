-------------------------- MODULE WebLoginProofs --------------------------
(***************************************************************************)
(* Proofs about WebLogin for every set of requests, browsers and keys, any *)
(* settings, and every capacity of the throttle.                           *)
(***************************************************************************)
EXTENDS WebLogin, FiniteSetTheorems, TLAPS

---------------------------------------------------------------------------
(* Arithmetic of the throttle.                                             *)

LEMMA ProductNat ==
  ASSUME NEW a \in Nat, NEW c \in Nat
  PROVE  a * c \in Nat
  BY SMT

LEMMA Distributes ==
  ASSUME NEW a \in Nat, NEW b \in Nat, NEW c \in Nat
  PROVE  (a + b) * c = a * c + b * c /\ (a + 1) * c = a * c + c
  BY SMT

\* What flows in until now is what the bound gains.
LEMMA InflowPays ==
  ASSUME NEW cap \in Nat, NEW c \in Nat, NEW level \in Nat, NEW more \in Nat, NEW due \in Nat,
         NEW since \in Nat, NEW last \in Nat, NEW time \in Nat, since <= last, last <= time,
         level + due <= cap + (last - since) * c, more <= level + (time - last) * c
  PROVE  more + due <= cap + (time - since) * c
<1> DEFINE x == time - last
           y == last - since
<1>1. x \in Nat /\ y \in Nat /\ time - since = x + y
  OBVIOUS
<1>2. level + due <= cap + y * c /\ more <= level + x * c
  OBVIOUS
<1> HIDE DEF x, y
<1>3. (x + y) * c = x * c + y * c /\ x * c \in Nat /\ y * c \in Nat
  BY <1>1, Distributes, ProductNat
<1>4. more + due <= cap + (x + y) * c
  BY <1>2, <1>3
<1> QED
  BY <1>1, <1>4

\* A later moment allows for no less.
LEMMA LaterIsMore ==
  ASSUME NEW c \in Nat, NEW since \in Nat, NEW last \in Nat, NEW time \in Nat,
         since <= last, last <= time
  PROVE  (last - since) * c \in Nat /\ (last - since) * c <= (time - since) * c
<1> DEFINE x == time - last
           y == last - since
<1>1. x \in Nat /\ y \in Nat /\ time - since = y + x
  OBVIOUS
<1> HIDE DEF x, y
<1>2. (y + x) * c = y * c + x * c /\ x * c \in Nat /\ y * c \in Nat
  BY <1>1, Distributes, ProductNat
<1> QED
  BY <1>1, <1>2 DEF y

---------------------------------------------------------------------------
(* Who is due a link.                                                      *)

LEMMA IssuingFinite ==
  ASSUME NEW k
  PROVE  IsFiniteSet(Issuing(k)) /\ Cardinality(Issuing(k)) \in Nat
<1>1. Issuing(k) \subseteq Logins
  BY DEF Issuing
<1> QED
  BY <1>1, ConstantsAssumption, FS_Subset, FS_CardinalityType

LEMMA DueNat ==
  ASSUME SignInInv, NEW k \in Keys
  PROVE  Due(k) \in Nat
  BY IssuingFinite DEF SignInInv, TypeOK, Due

\* As long as nobody is let through, time is all that can change.
LEMMA BucketsKept ==
  ASSUME SignInInv, UNCHANGED <<request, boot>>, now' \in Nat, now <= now',
         \A r \in Logins : pc'[r] = "issuing" <=> pc[r] = "issuing",
         NEW k \in Keys
  PROVE  BucketPays(k)'
<1>1. UNCHANGED <<buckets, issued, key, boot>>
  BY DEF request
<1>2. Issuing(k)' = Issuing(k)
  BY <1>1 DEF Issuing
<1>3. Due(k)' = Due(k)
  BY <1>1, <1>2 DEF Due
<1>4. BucketPays(k)
  BY DEF SignInInv
<1>5. buckets[k] # NoBucket => buckets[k].last \in Nat
  BY DEF SignInInv, TypeOK, Bucket
<1>6. now \in Nat
  BY DEF SignInInv, TypeOK
<1> QED
  BY <1>1, <1>3, <1>4, <1>5, <1>6 DEF BucketPays

\* The bucket of now pays for what the one before paid for.
LEMMA CurrentPays ==
  ASSUME SignInInv, NEW k \in Keys
  PROVE  /\ Current(k) \in Bucket
         /\ Current(k).last = now
         /\ Current(k).level + Due(k) * Hour <= PerHour * Hour + (now - boot) * PerHour
<1>1. /\ now \in Nat /\ boot \in Nat /\ boot <= now /\ PerHour \in Nat /\ Hour \in Nat
      /\ buckets[k] \in Bucket \cup {NoBucket} /\ Due(k) \in Nat /\ BucketPays(k)
  BY ConstantsAssumption, DueNat DEF SignInInv, TypeOK
<1>2. PerHour * Hour \in Nat /\ Due(k) * Hour \in Nat /\ (now - boot) * PerHour \in Nat
  <2>1. now - boot \in Nat
    BY <1>1
  <2> QED
    BY <1>1, <2>1, ProductNat
<1>3. CASE buckets[k] = NoBucket
  <2> DEFINE e == [level |-> PerHour * Hour, last |-> now]
  <2>1. Current(k) = e
    BY <1>3 DEF Current, Full
  <2>2. e \in Bucket /\ e.last = now /\ e.level = PerHour * Hour
    BY <1>1, <1>2 DEF Bucket
  <2>3. Due(k) * Hour = 0
    BY <1>1, <1>3 DEF BucketPays
  <2> HIDE DEF e
  <2>4. e.level + 0 <= PerHour * Hour + (now - boot) * PerHour
    BY <1>2, <2>2
  <2> QED
    BY <2>1, <2>2, <2>3, <2>4, Zenon
<1>4. CASE buckets[k] # NoBucket
  <2> DEFINE b     == buckets[k]
             inflow == (now - b.last) * PerHour
             level == Least(PerHour * Hour, b.level + inflow)
             e     == [level |-> level, last |-> now]
  <2>1. Current(k) = e
    BY <1>4 DEF Current, Refilled
  <2>2. /\ b.level \in Nat /\ b.last \in Nat /\ boot <= b.last /\ b.last <= now
        /\ b.level + Due(k) * Hour <= PerHour * Hour + (b.last - boot) * PerHour
    BY <1>1, <1>4 DEF Bucket, BucketPays
  <2>3. inflow \in Nat
    <3>1. now - b.last \in Nat
      BY <1>1, <2>2
    <3> QED
      BY <1>1, <3>1, ProductNat
  <2> HIDE DEF inflow
  <2>4. level \in Nat /\ level <= b.level + inflow
    BY <1>2, <2>2, <2>3 DEF Least
  <2> HIDE DEF level
  <2>5. e \in Bucket /\ e.last = now /\ e.level = level
    BY <1>1, <2>4 DEF Bucket
  <2>6. level + Due(k) * Hour <= PerHour * Hour + (now - boot) * PerHour
    BY <1>1, <1>2, <2>2, <2>4, InflowPays DEF inflow
  <2> HIDE DEF e
  <2> QED
    BY <2>1, <2>5, <2>6, Zenon
<1> QED
  BY <1>3, <1>4

\* A token taken is paid for like what was in its place.
LEMMA TokenPays ==
  ASSUME NEW level \in Nat, NEW due \in Nat, NEW most \in Nat,
         level >= Hour, level + due * Hour <= most
  PROVE  level - Hour \in Nat /\ (level - Hour) + (due + 1) * Hour <= most
<1>1. Hour \in Nat
  BY ConstantsAssumption
<1>2. (due + 1) * Hour = due * Hour + Hour /\ due * Hour \in Nat
  BY <1>1, Distributes, ProductNat
<1> QED
  BY <1>1, <1>2

\* A login that is let through takes a token and is due a link.
LEMMA SubmitBuckets ==
  ASSUME SignInInv, NEW r \in Logins, Submit(r)
  PROVE  /\ \A k \in Keys : BucketPays(k)'
         /\ buckets' \in [Keys -> Bucket \cup {NoBucket}]
         /\ \E label \in {"issuing", "answered"} : pc' = [pc EXCEPT ![r] = label]
<1> DEFINE k0  == key[r]
           cur == Current(k0)
<1>1. /\ k0 \in Keys /\ r \in Requests /\ pc[r] = "idle"
      /\ UNCHANGED <<now, boot, issued, key>>
      /\ now \in Nat /\ boot \in Nat /\ boot <= now
      /\ PerHour \in Nat /\ Hour \in Nat
      /\ buckets \in [Keys -> Bucket \cup {NoBucket}]
      /\ DOMAIN pc = Requests
  BY ConstantsAssumption DEF SignInInv, TypeOK, Submit, clock, Requests
<1>2. CASE ~Allowlisted(EmailOf[k0])
  <2>1. pc' = [pc EXCEPT ![r] = "answered"] /\ buckets' = buckets
    BY <1>2 DEF Submit, Goto
  <2>2. \A q \in Logins : pc'[q] = "issuing" <=> pc[q] = "issuing"
    BY <1>1, <2>1 DEF Requests
  <2> QED
    BY <1>1, <2>1, <2>2, BucketsKept DEF request
<1>3. CASE Allowlisted(EmailOf[k0]) /\ ~HasToken(cur, Hour)
  <2>1. pc' = [pc EXCEPT ![r] = "answered"] /\ buckets' = [buckets EXCEPT ![k0] = cur]
    BY <1>3 DEF Submit, Allow, Goto
  <2>2. cur \in Bucket /\ cur # NoBucket /\ cur.last = now
        /\ cur.level + Due(k0) * Hour <= PerHour * Hour + (now - boot) * PerHour
    BY <1>1, CurrentPays, ConstantsAssumption
  <2> HIDE DEF cur
  <2>3. ASSUME NEW k \in Keys
        PROVE  BucketPays(k)'
    <3>1. Issuing(k)' = Issuing(k)
      BY <1>1, <2>1 DEF Issuing, Requests
    <3>2. Due(k)' = Due(k)
      BY <1>1, <3>1 DEF Due
    <3>3. CASE k = k0
      <4>1. buckets'[k] = cur
        BY <1>1, <2>1, <3>3
      <4> QED
        BY <1>1, <2>2, <3>2, <3>3, <4>1 DEF BucketPays
    <3>4. CASE k # k0
      BY <1>1, <2>1, <3>2, <3>4 DEF SignInInv, BucketPays
    <3> QED
      BY <3>3, <3>4
  <2> QED
    BY <1>1, <2>1, <2>2, <2>3
<1>4. CASE Allowlisted(EmailOf[k0]) /\ HasToken(cur, Hour)
  <2> DEFINE e == Taken(cur, Hour)
  <2>1. pc' = [pc EXCEPT ![r] = "issuing"] /\ buckets' = [buckets EXCEPT ![k0] = e]
    BY <1>4 DEF Submit, Allow, Goto
  <2>2. cur \in Bucket /\ cur.last = now /\ cur.level >= Hour
        /\ cur.level + Due(k0) * Hour <= PerHour * Hour + (now - boot) * PerHour
    BY <1>1, <1>4, CurrentPays DEF HasToken
  <2>3. PerHour * Hour + (now - boot) * PerHour \in Nat
    <3>1. now - boot \in Nat
      BY <1>1
    <3>2. PerHour * Hour \in Nat /\ (now - boot) * PerHour \in Nat
      BY <1>1, <3>1, ProductNat
    <3> QED
      BY <3>2
  <2> HIDE DEF cur
  <2>4. /\ cur.level - Hour \in Nat
        /\ (cur.level - Hour) + (Due(k0) + 1) * Hour <= PerHour * Hour + (now - boot) * PerHour
    <3>1. cur.level \in Nat
      BY <2>2 DEF Bucket
    <3> QED
      BY <1>1, <2>2, <2>3, <3>1, DueNat, TokenPays
  <2>5. e \in Bucket /\ e # NoBucket /\ e.last = now /\ e.level = cur.level - Hour
    BY <1>1, <2>2, <2>4, ConstantsAssumption DEF Taken, Bucket
  <2> HIDE DEF e
  <2>6. ASSUME NEW k \in Keys
        PROVE  BucketPays(k)'
    <3>1. CASE k = k0
      <4>1. Issuing(k)' = Issuing(k) \cup {r} /\ r \notin Issuing(k)
        BY <1>1, <2>1, <3>1 DEF Issuing, Requests
      <4>2. Cardinality(Issuing(k)') = Cardinality(Issuing(k)) + 1
        BY <4>1, IssuingFinite, FS_AddElement
      <4>3. Due(k)' = Due(k) + 1
        <5>1. issued[k] \in Nat /\ issued' = issued /\ Cardinality(Issuing(k)) \in Nat
          BY <1>1, IssuingFinite DEF SignInInv, TypeOK
        <5> QED
          BY <4>2, <5>1 DEF Due
      <4>4. buckets'[k] = e
        BY <1>1, <2>1, <3>1
      <4> QED
        BY <1>1, <2>4, <2>5, <3>1, <4>3, <4>4 DEF BucketPays
    <3>2. CASE k # k0
      <4>1. Issuing(k)' = Issuing(k)
        BY <1>1, <2>1, <3>2 DEF Issuing, Requests
      <4>2. Due(k)' = Due(k)
        BY <1>1, <4>1 DEF Due
      <4> QED
        BY <1>1, <2>1, <3>2, <4>2 DEF SignInInv, BucketPays
    <3> QED
      BY <3>1, <3>2
  <2> QED
    BY <1>1, <2>1, <2>5, <2>6
<1> QED
  BY <1>2, <1>3, <1>4

\* A link that is issued was due.
LEMMA IssueBuckets ==
  ASSUME SignInInv, NEW r \in Logins, IssueLink(r), NEW k \in Keys
  PROVE  BucketPays(k)'
<1>1. /\ r \in Requests /\ pc[r] = "issuing" /\ pc' = [pc EXCEPT ![r] = "mailing"]
      /\ issued' = [issued EXCEPT ![key[r]] = @ + 1]
      /\ UNCHANGED <<now, boot, buckets, key>>
      /\ DOMAIN pc = Requests /\ issued \in [Keys -> Nat]
  BY DEF SignInInv, TypeOK, IssueLink, Goto, clock, Requests
<1>2. Issuing(k)' = Issuing(k) \ {r} /\ (r \in Issuing(k) <=> key[r] = k)
  BY <1>1 DEF Issuing, Requests
<1>3. Due(k)' = Due(k)
  <2>1. IsFiniteSet(Issuing(k)) /\ Cardinality(Issuing(k)) \in Nat
    BY IssuingFinite
  <2>2. CASE key[r] = k
    <3>1. Cardinality(Issuing(k) \ {r}) = Cardinality(Issuing(k)) - 1
      BY <1>2, <2>1, <2>2, FS_RemoveElement
    <3>2. issued'[k] = issued[k] + 1 /\ issued[k] \in Nat
      BY <1>1, <2>2
    <3> QED
      BY <1>2, <2>1, <3>1, <3>2 DEF Due
  <2>3. CASE key[r] # k
    <3>1. issued'[k] = issued[k] /\ Issuing(k)' = Issuing(k)
      BY <1>1, <1>2, <2>3
    <3> QED
      BY <3>1 DEF Due
  <2> QED
    BY <2>2, <2>3
<1> QED
  BY <1>1, <1>3 DEF SignInInv, BucketPays

---------------------------------------------------------------------------
(* Logins.                                                                 *)

LEMMA InitKeeps == Init => SignInInv
<1> SUFFICES ASSUME Init
             PROVE  SignInInv
  OBVIOUS
<1>1. TypeOK
  BY ConstantsAssumption DEF Init, TypeOK, Requests
<1>2. LinksOK
  BY DEF Init, LinksOK, HasBurnt, Requests
<1>3. ASSUME NEW k \in Keys
      PROVE  BucketPays(k)
  <2>1. Issuing(k) = {}
    BY DEF Init, Issuing, Requests
  <2> QED
    BY <1>3, <2>1, FS_EmptySet DEF Init, BucketPays, Due
<1>4. SessionsOK
  BY DEF Init, SessionsOK
<1> QED
  BY <1>1, <1>2, <1>3, <1>4 DEF SignInInv

\* No role is given, and what was given stays accounted for.
LEMMA SessionsKept ==
  ASSUME SignInInv, UNCHANGED aux, inbox \subseteq inbox',
         \A b \in Browsers : cookie'[b] \in {cookie[b], NoSession},
         \A l \in inbox : links'[l].email = links[l].email /\ (links[l].used => links'[l].used)
  PROVE  SessionsOK'
<1>1. UNCHANGED <<granted, visit>> /\ SessionsOK
  BY DEF SignInInv, aux
<1>2. \A g \in granted : Earned(g)'
  BY <1>1 DEF SessionsOK, Earned
<1> QED
  BY <1>1, <1>2 DEF SessionsOK

LEMMA SubmitKeeps ==
  ASSUME SignInInv, NEW r \in Logins, Submit(r)
  PROVE  SignInInv'
<1>1. PICK label \in {"issuing", "answered"} : pc' = [pc EXCEPT ![r] = label]
  BY SubmitBuckets
<1>2. /\ r \in Requests /\ r \notin Verifies /\ pc[r] = "idle"
      /\ UNCHANGED <<clock, issued, key, links, lock, inbox, link, cookie, earlier, aux>>
  BY ConstantsAssumption DEF Submit, Requests
<1>3. TypeOK'
  BY <1>1, <1>2, SubmitBuckets DEF SignInInv, TypeOK, clock, aux, Requests
<1>4. LinksOK'
  <2>1. \A q \in Requests \ {r} : pc'[q] = pc[q]
    BY <1>1, <1>2 DEF SignInInv, TypeOK
  <2>2. pc'[r] = label
    BY <1>1, <1>2 DEF SignInInv, TypeOK
  <2> QED
    BY <1>2, <2>1, <2>2 DEF SignInInv, LinksOK, HasBurnt, Requests
<1>5. SessionsOK'
  BY <1>2, SessionsKept
<1> QED
  BY <1>3, <1>4, <1>5, SubmitBuckets DEF SignInInv

LEMMA IssueLinkKeeps ==
  ASSUME SignInInv, NEW r \in Logins, IssueLink(r)
  PROVE  SignInInv'
<1> DEFINE new == [email |-> EmailOf[key[r]], expires |-> now + TTL, used |-> FALSE]
<1>1. /\ r \in Requests /\ r \notin Verifies /\ pc[r] = "issuing"
      /\ pc' = [pc EXCEPT ![r] = "mailing"]
      /\ links' = [links EXCEPT ![r] = new]
      /\ issued' = [issued EXCEPT ![key[r]] = @ + 1]
      /\ UNCHANGED <<clock, buckets, key, lock, inbox, link, cookie, earlier, aux>>
  BY ConstantsAssumption DEF IssueLink, Goto, Requests
<1>2. new \in Link /\ new # NoLink
  <2>1. EmailOf[key[r]] \in Emails /\ now + TTL \in Nat
    BY ConstantsAssumption DEF SignInInv, TypeOK
  <2>2. new \in Link
    BY <2>1 DEF Link
  <2> HIDE DEF new
  <2> QED
    BY <2>2, ConstantsAssumption
<1> HIDE DEF new
<1>3. links[r] = NoLink /\ r \notin inbox
  BY <1>1 DEF SignInInv, TypeOK, LinksOK
<1>4. /\ pc'[r] = "mailing" /\ links'[r] = new
      /\ \A q \in Requests \ {r} : pc'[q] = pc[q]
      /\ \A l \in Logins \ {r} : links'[l] = links[l]
  BY <1>1 DEF SignInInv, TypeOK
<1>5. TypeOK'
  <2>1. /\ links' \in [Logins -> Link \cup {NoLink}] /\ issued' \in [Keys -> Nat]
        /\ pc' \in [Requests -> {"idle", "issuing", "mailing", "answered", "failed", "checked",
                                 "burning", "burnt", "in", "lost"}]
    BY <1>1, <1>2 DEF SignInInv, TypeOK
  <2>2. inbox \subseteq {l \in Logins : links'[l] # NoLink}
    BY <1>3, <1>4 DEF SignInInv, TypeOK
  <2>3. \A v \in Verifies : pc'[v] = "burning" <=> \E l \in Logins : lock'[l] = v
    BY <1>1, <1>4 DEF SignInInv, TypeOK, Requests
  <2> QED
    BY <1>1, <2>1, <2>2, <2>3 DEF SignInInv, TypeOK, clock, aux
<1>6. LinksOK'
  <2>1. \A v \in Verifies : link[v] \in inbox => links'[link[v]] = links[link[v]]
    BY <1>3, <1>4 DEF SignInInv, TypeOK
  <2> QED
    BY <1>1, <1>2, <1>4, <2>1 DEF SignInInv, LinksOK, HasBurnt, Requests
<1>7. SessionsOK'
  <2>1. \A l \in inbox : links'[l] = links[l]
    BY <1>3, <1>4 DEF SignInInv, TypeOK
  <2> QED
    BY <1>1, <2>1, SessionsKept
<1> QED
  BY <1>5, <1>6, <1>7, IssueBuckets DEF SignInInv

\* What is due is less by the link that will not be issued.
LEMMA FailLoginKeeps ==
  ASSUME SignInInv, NEW r \in Logins, FailLogin(r)
  PROVE  SignInInv'
<1>1. /\ r \in Requests /\ r \notin Verifies /\ pc[r] = "issuing"
      /\ pc' = [pc EXCEPT ![r] = "failed"]
      /\ UNCHANGED <<clock, request, links, lock, inbox, link, cookie, earlier, aux>>
  BY ConstantsAssumption DEF FailLogin, Goto, Requests
<1>2. pc'[r] = "failed" /\ \A q \in Requests \ {r} : pc'[q] = pc[q]
  BY <1>1 DEF SignInInv, TypeOK
<1>3. TypeOK'
  <2>1. \A v \in Verifies : pc'[v] = "burning" <=> \E l \in Logins : lock'[l] = v
    BY <1>1, <1>2 DEF SignInInv, TypeOK, Requests
  <2> QED
    BY <1>1, <2>1 DEF SignInInv, TypeOK, clock, request, aux
<1>4. LinksOK'
  BY <1>1, <1>2 DEF SignInInv, LinksOK, HasBurnt, Requests
<1>5. ASSUME NEW k \in Keys
      PROVE  BucketPays(k)'
  <2>1. /\ IsFiniteSet(Issuing(k)) /\ Cardinality(Issuing(k)) \in Nat
        /\ issued[k] \in Nat /\ Due(k) \in Nat /\ Hour \in Nat
        /\ UNCHANGED <<now, boot, buckets, issued, key>>
    BY <1>1, IssuingFinite, DueNat, ConstantsAssumption
       DEF SignInInv, TypeOK, clock, request
  <2>2. Issuing(k)' = Issuing(k) \ {r}
    BY <1>1, <1>2, <2>1 DEF Issuing, Requests
  <2>3. Cardinality(Issuing(k)') \in {Cardinality(Issuing(k)), Cardinality(Issuing(k)) - 1}
    BY <2>1, <2>2, FS_RemoveElement
  <2>4. Due(k)' \in Nat /\ (Due(k)' = Due(k) \/ Due(k)' + 1 = Due(k))
    <3>1. /\ Cardinality(Issuing(k)') \in Nat
          /\ Due(k)' = issued[k] + Cardinality(Issuing(k)')
          /\ Due(k) = issued[k] + Cardinality(Issuing(k))
      BY <2>1, <2>2, FS_RemoveElement, FS_Subset, FS_CardinalityType DEF Due
    <3> QED
      BY <2>1, <2>3, <3>1
  <2>5. /\ Due(k)' * Hour \in Nat /\ Due(k) * Hour \in Nat
        /\ Due(k)' * Hour <= Due(k) * Hour
    <3> DEFINE d == Due(k)'
    <3>1. d \in Nat /\ (d = Due(k) \/ d + 1 = Due(k))
      BY <2>4
    <3> HIDE DEF d
    <3>2. (d + 1) * Hour = d * Hour + Hour /\ d * Hour \in Nat
      BY <2>1, <3>1, Distributes, ProductNat
    <3>3. Due(k) * Hour \in Nat
      BY <2>1, ProductNat
    <3>4. d * Hour <= Due(k) * Hour
      BY <2>1, <3>1, <3>2
    <3> QED
      BY <3>2, <3>3, <3>4 DEF d
  <2>6. BucketPays(k)
    BY DEF SignInInv
  <2>7. CASE buckets[k] = NoBucket
    BY <2>1, <2>4, <2>6, <2>7 DEF BucketPays
  <2>8. CASE buckets[k] # NoBucket
    <3> DEFINE most == PerHour * Hour + (buckets[k].last - boot) * PerHour
               level == buckets[k].level
    <3>1. /\ level \in Nat /\ boot <= buckets[k].last /\ buckets[k].last <= now
          /\ level + Due(k) * Hour <= most
      BY <2>6, <2>8 DEF SignInInv, TypeOK, Bucket, BucketPays
    <3>2. most \in Nat
      <4>1. PerHour \in Nat /\ buckets[k].last - boot \in Nat
        BY <2>8, <3>1, ConstantsAssumption DEF SignInInv, TypeOK, Bucket
      <4>2. PerHour * Hour \in Nat /\ (buckets[k].last - boot) * PerHour \in Nat
        BY <2>1, <4>1, ProductNat
      <4> QED
        BY <4>2
    <3> HIDE DEF most, level
    <3>3. level + Due(k)' * Hour <= most
      BY <2>5, <3>1, <3>2
    <3> QED
      BY <2>1, <2>8, <3>1, <3>3 DEF BucketPays, most, level
  <2> QED
    BY <2>7, <2>8
<1>6. SessionsOK'
  BY <1>1, SessionsKept
<1> QED
  BY <1>3, <1>4, <1>5, <1>6 DEF SignInInv

LEMMA SendMailKeeps ==
  ASSUME SignInInv, NEW r \in Logins, SendMail(r)
  PROVE  SignInInv'
<1>1. /\ r \in Requests /\ r \notin Verifies /\ pc[r] = "mailing"
      /\ pc' = [pc EXCEPT ![r] = "answered"]
      /\ inbox \subseteq inbox' /\ inbox' \subseteq inbox \cup {r}
      /\ UNCHANGED <<clock, request, links, lock, link, cookie, earlier, aux>>
  BY ConstantsAssumption DEF SendMail, Goto, Requests
<1>2. links[r] # NoLink
  BY <1>1 DEF SignInInv, LinksOK
<1>3. pc'[r] = "answered" /\ \A q \in Requests \ {r} : pc'[q] = pc[q]
  BY <1>1 DEF SignInInv, TypeOK
<1>4. TypeOK'
  <2>1. \A v \in Verifies : pc'[v] = "burning" <=> \E l \in Logins : lock'[l] = v
    BY <1>1, <1>3 DEF SignInInv, TypeOK, Requests
  <2> QED
    BY <1>1, <1>2, <2>1 DEF SignInInv, TypeOK, clock, request, aux
<1>5. LinksOK'
  BY <1>1, <1>3 DEF SignInInv, LinksOK, HasBurnt, Requests
<1>6. \A k \in Keys : BucketPays(k)'
  BY <1>1, <1>3, BucketsKept DEF SignInInv, TypeOK, clock, Requests
<1>7. SessionsOK'
  BY <1>1, SessionsKept
<1> QED
  BY <1>4, <1>5, <1>6, <1>7 DEF SignInInv

---------------------------------------------------------------------------
(* Verifications.                                                          *)

\* What a step of a verification leaves to the logins and the throttle.
LEMMA VerifyLeaves ==
  ASSUME SignInInv, NEW v \in Verifies, NEW label, label # "issuing",
         pc[v] \in {"idle", "checked", "burning", "burnt"}, pc' = [pc EXCEPT ![v] = label],
         UNCHANGED <<clock, request>>
  PROVE  /\ pc'[v] = label /\ \A q \in Requests \ {v} : pc'[q] = pc[q]
         /\ v \in Requests /\ v \notin Logins
         /\ \A k \in Keys : BucketPays(k)'
<1>1. v \in Requests /\ v \notin Logins
  BY ConstantsAssumption DEF Requests
<1>2. pc'[v] = label /\ \A q \in Requests \ {v} : pc'[q] = pc[q]
  BY <1>1 DEF SignInInv, TypeOK
<1>3. \A r \in Logins : pc'[r] = pc[r]
  BY <1>1, <1>2 DEF Requests
<1> QED
  BY <1>1, <1>2, <1>3, BucketsKept DEF SignInInv, TypeOK, clock

\* A link that is unused has no one who has burnt it.
LEMMA CheckLinkKeeps ==
  ASSUME SignInInv, NEW v \in Verifies, CheckLink(v)
  PROVE  SignInInv'
<1> DEFINE l     == link[v]
           label == IF links[l].used \/ links[l].expires < now THEN "failed" ELSE "checked"
<1>1. /\ pc[v] = "idle" /\ l \in inbox
      /\ pc' = [pc EXCEPT ![v] = label]
      /\ earlier' = [earlier EXCEPT ![v] = Burners(l)]
      /\ UNCHANGED <<clock, request, links, lock, inbox, link, cookie, aux>>
  BY DEF CheckLink, Goto
<1>2. label \in {"failed", "checked"} /\ (label = "checked" => ~links[l].used)
  OBVIOUS
<1> HIDE DEF label
<1>3. /\ pc'[v] = label /\ \A q \in Requests \ {v} : pc'[q] = pc[q]
      /\ v \in Requests /\ v \notin Logins
      /\ \A k \in Keys : BucketPays(k)'
  BY <1>1, <1>2, VerifyLeaves
<1>4. TypeOK'
  <2>1. \A w \in Verifies : pc'[w] = "burning" <=> \E x \in Logins : lock'[x] = w
    BY <1>1, <1>2, <1>3 DEF SignInInv, TypeOK, Requests
  <2>2. Burners(l) \subseteq Verifies
    BY DEF Burners
  <2> QED
    BY <1>1, <1>2, <2>1, <2>2 DEF SignInInv, TypeOK, clock, request, aux
<1>5. LinksOK'
  <2>1. label = "checked" => Burners(l) = {}
    BY <1>2 DEF SignInInv, LinksOK, Burners
  <2>2. earlier'[v] = Burners(l) /\ \A w \in Verifies \ {v} : earlier'[w] = earlier[w]
    BY <1>1 DEF SignInInv, TypeOK
  <2> QED
    BY <1>1, <1>2, <1>3, <2>1, <2>2 DEF SignInInv, LinksOK, HasBurnt, Requests
<1>6. SessionsOK'
  BY <1>1, SessionsKept
<1> QED
  BY <1>3, <1>4, <1>5, <1>6 DEF SignInInv

LEMMA BurnKeeps ==
  ASSUME SignInInv, NEW v \in Verifies, Burn(v)
  PROVE  SignInInv'
<1>1. /\ pc[v] = "checked" /\ lock[link[v]] = Nobody /\ link[v] \in Logins
      /\ pc' = [pc EXCEPT ![v] = "burning"]
      /\ lock' = [lock EXCEPT ![link[v]] = v]
      /\ UNCHANGED <<clock, request, links, inbox, link, cookie, earlier, aux>>
  BY DEF SignInInv, TypeOK, Burn, Goto
<1>2. /\ pc'[v] = "burning" /\ \A q \in Requests \ {v} : pc'[q] = pc[q]
      /\ v \in Requests /\ v \notin Logins
      /\ \A k \in Keys : BucketPays(k)'
  BY <1>1, VerifyLeaves
<1>3. lock'[link[v]] = v /\ \A l \in Logins \ {link[v]} : lock'[l] = lock[l]
  BY <1>1 DEF SignInInv, TypeOK
<1>4. TypeOK'
  <2>1. ASSUME NEW w \in Verifies
        PROVE  pc'[w] = "burning" <=> \E x \in Logins : lock'[x] = w
    <3>1. CASE w = v
      BY <1>1, <1>2, <1>3, <3>1
    <3>2. CASE w # v
      <4>1. pc'[w] = pc[w] /\ w # Nobody
        BY <1>2, <3>2, ConstantsAssumption DEF Requests
      <4>2. \A x \in Logins : lock'[x] = w <=> lock[x] = w
        BY <1>1, <1>3, <3>2, <4>1
      <4> QED
        BY <4>1, <4>2 DEF SignInInv, TypeOK
    <3> QED
      BY <3>1, <3>2
  <2>2. lock' \in [Logins -> Verifies \cup {Nobody}]
    BY <1>1 DEF SignInInv, TypeOK
  <2>3. pc' \in [Requests -> {"idle", "issuing", "mailing", "answered", "failed", "checked",
                             "burning", "burnt", "in", "lost"}]
    BY <1>1 DEF SignInInv, TypeOK
  <2> QED
    BY <1>1, <2>1, <2>2, <2>3 DEF SignInInv, TypeOK, clock, request, aux
<1>5. LinksOK'
  BY <1>1, <1>2, <1>3 DEF SignInInv, LinksOK, HasBurnt, Requests
<1>6. SessionsOK'
  BY <1>1, SessionsKept
<1> QED
  BY <1>2, <1>4, <1>5, <1>6 DEF SignInInv

\* The rows of a verification that ends its transaction are free.
LEMMA Unlocks ==
  ASSUME SignInInv, NEW v \in Verifies, NEW label, label # "burning", label # "issuing",
         pc[v] \in {"checked", "burning"}, pc' = [pc EXCEPT ![v] = label],
         lock' \in [Logins -> Verifies \cup {Nobody}],
         \A l \in Logins : IF lock[l] = v THEN lock'[l] = Nobody ELSE lock'[l] = lock[l]
  PROVE  \A w \in Verifies : pc'[w] = "burning" <=> \E l \in Logins : lock'[l] = w
<1>1. v \in Requests /\ v # Nobody
  BY ConstantsAssumption DEF Requests
<1>2. pc'[v] = label /\ \A q \in Requests \ {v} : pc'[q] = pc[q]
  BY <1>1 DEF SignInInv, TypeOK
<1> SUFFICES ASSUME NEW w \in Verifies
             PROVE  pc'[w] = "burning" <=> \E l \in Logins : lock'[l] = w
  OBVIOUS
<1>3. CASE w = v
  BY <1>1, <1>2, <1>3
<1>4. CASE w # v
  <2>1. w # Nobody /\ pc'[w] = pc[w]
    BY <1>2, <1>4, ConstantsAssumption DEF Requests
  <2>2. \A l \in Logins : lock'[l] = w <=> lock[l] = w
    BY <1>4, <2>1
  <2> QED
    BY <2>1, <2>2 DEF SignInInv, TypeOK
<1> QED
  BY <1>3, <1>4

LEMMA CommitKeeps ==
  ASSUME SignInInv, NEW v \in Verifies, Commit(v)
  PROVE  SignInInv'
<1> DEFINE l   == link[v]
           new == [links[l] EXCEPT !.used = TRUE]
<1>1. /\ pc[v] = "burning" /\ pc' = [pc EXCEPT ![v] = "burnt"]
      /\ lock' = [lock EXCEPT ![l] = Nobody]
      /\ UNCHANGED <<clock, request, inbox, link, cookie, earlier, aux>>
  BY DEF Commit, Goto
<1>2. links' = [links EXCEPT ![l] = new]
  BY DEF Commit
<1>3. l \in Logins /\ l \in inbox /\ links[l] \in Link /\ earlier[v] = {}
  BY <1>1 DEF SignInInv, TypeOK, LinksOK
<1>4. new \in Link /\ new # NoLink /\ new.used /\ new.email = links[l].email
  BY <1>3, ConstantsAssumption DEF Link
<1> HIDE DEF new
<1>5. links'[l] = new /\ \A x \in Logins \ {l} : links'[x] = links[x]
  BY <1>2, <1>3 DEF SignInInv, TypeOK
<1>6. \A x \in Logins : IF lock[x] = v THEN lock'[x] = Nobody ELSE lock'[x] = lock[x]
  <2>1. \E x \in Logins : lock[x] = v
    BY <1>1 DEF SignInInv, TypeOK
  <2>2. \A x \in Logins : lock[x] = v => x = l
    BY ConstantsAssumption DEF SignInInv, LinksOK
  <2>3. lock[l] = v
    BY <2>1, <2>2
  <2> QED
    BY <1>1, <1>3, <2>2, <2>3 DEF SignInInv, TypeOK
<1>7. /\ pc'[v] = "burnt" /\ \A q \in Requests \ {v} : pc'[q] = pc[q]
      /\ v \in Requests /\ v \notin Logins
      /\ \A k \in Keys : BucketPays(k)'
  BY <1>1, VerifyLeaves
<1>8. TypeOK'
  <2>1. lock' \in [Logins -> Verifies \cup {Nobody}]
    BY <1>1, <1>3 DEF SignInInv, TypeOK
  <2>2. \A w \in Verifies : pc'[w] = "burning" <=> \E x \in Logins : lock'[x] = w
    BY <1>1, <1>6, <2>1, Unlocks
  <2>3. links' \in [Logins -> Link \cup {NoLink}]
        /\ inbox \subseteq {x \in Logins : links'[x] # NoLink}
    BY <1>2, <1>4, <1>5 DEF SignInInv, TypeOK
  <2>4. pc' \in [Requests -> {"idle", "issuing", "mailing", "answered", "failed", "checked",
                             "burning", "burnt", "in", "lost"}]
    BY <1>1 DEF SignInInv, TypeOK
  <2> QED
    BY <1>1, <2>1, <2>2, <2>3, <2>4 DEF SignInInv, TypeOK, clock, request, aux
<1>9. LinksOK'
  <2>1. \A x \in Logins : lock'[x] # Nobody => link[lock'[x]] = x
    BY <1>6 DEF SignInInv, LinksOK
  <2>2. \A r \in Logins :
          /\ pc'[r] \in {"idle", "issuing"} => links'[r] = NoLink
          /\ pc'[r] = "mailing" => links'[r] # NoLink
    <3>1. links[l] # NoLink
      BY <1>3, ConstantsAssumption
    <3> QED
      BY <1>4, <1>5, <1>7, <3>1 DEF SignInInv, LinksOK, Requests
  <2>3. \A w \in Verifies :
          /\ HasBurnt(w)' \/ pc'[w] \in {"checked", "burning"} =>
               link[w] \in inbox /\ earlier[w] = {}
          /\ HasBurnt(w)' => links'[link[w]].used
    <3> SUFFICES ASSUME NEW w \in Verifies
                 PROVE  /\ HasBurnt(w)' \/ pc'[w] \in {"checked", "burning"} =>
                             link[w] \in inbox /\ earlier[w] = {}
                        /\ HasBurnt(w)' => links'[link[w]].used
      OBVIOUS
    <3>1. CASE w = v
      BY <1>3, <1>4, <1>5, <1>7, <3>1
    <3>2. CASE w # v
      <4>1. pc'[w] = pc[w] /\ link[w] \in Logins
        BY <1>7, <3>2 DEF SignInInv, TypeOK, Requests
      <4>2. links[link[w]].used => links'[link[w]].used
        BY <1>4, <1>5, <4>1
      <4> QED
        BY <4>1, <4>2 DEF SignInInv, LinksOK, HasBurnt
    <3> QED
      BY <3>1, <3>2
  <2> QED
    BY <1>1, <2>1, <2>2, <2>3 DEF LinksOK, HasBurnt
<1>10. SessionsOK'
  <2>1. \A x \in inbox : links'[x].email = links[x].email /\ (links[x].used => links'[x].used)
    BY <1>4, <1>5 DEF SignInInv, TypeOK
  <2> QED
    BY <1>1, <2>1, SessionsKept
<1> QED
  BY <1>7, <1>8, <1>9, <1>10 DEF SignInInv

LEMMA FailVerifyKeeps ==
  ASSUME SignInInv, NEW v \in Verifies, FailVerify(v)
  PROVE  SignInInv'
<1>1. /\ pc[v] \in {"checked", "burning"} /\ pc' = [pc EXCEPT ![v] = "failed"]
      /\ lock' = [l \in Logins |-> IF lock[l] = v THEN Nobody ELSE lock[l]]
      /\ UNCHANGED <<clock, request, links, inbox, link, cookie, earlier, aux>>
  BY DEF FailVerify, Goto
<1>2. /\ pc'[v] = "failed" /\ \A q \in Requests \ {v} : pc'[q] = pc[q]
      /\ v \in Requests /\ v \notin Logins
      /\ \A k \in Keys : BucketPays(k)'
  BY <1>1, VerifyLeaves
<1>3. TypeOK'
  <2>1. lock' \in [Logins -> Verifies \cup {Nobody}]
    BY <1>1 DEF SignInInv, TypeOK
  <2>2. \A w \in Verifies : pc'[w] = "burning" <=> \E x \in Logins : lock'[x] = w
    BY <1>1, <2>1, Unlocks
  <2>3. pc' \in [Requests -> {"idle", "issuing", "mailing", "answered", "failed", "checked",
                             "burning", "burnt", "in", "lost"}]
    BY <1>1 DEF SignInInv, TypeOK
  <2> QED
    BY <1>1, <2>1, <2>2, <2>3 DEF SignInInv, TypeOK, clock, request, aux
<1>4. LinksOK'
  <2>1. \A l \in Logins : lock'[l] # Nobody => link[lock'[l]] = l
    BY <1>1 DEF SignInInv, LinksOK
  <2> QED
    BY <1>1, <1>2, <2>1 DEF SignInInv, LinksOK, HasBurnt, Requests
<1>5. SessionsOK'
  BY <1>1, SessionsKept
<1> QED
  BY <1>2, <1>3, <1>4, <1>5 DEF SignInInv

\* The answer of a verification is a sign-in, or lost.
LEMMA AnswerKeeps ==
  ASSUME SignInInv, NEW v \in Verifies, SignIn(v) \/ LoseAnswer(v)
  PROVE  SignInInv'
<1>1. PICK label \in {"in", "lost"} : pc' = [pc EXCEPT ![v] = label]
  BY DEF SignIn, LoseAnswer, Goto
<1>2. /\ pc[v] = "burnt"
      /\ UNCHANGED <<clock, request, links, lock, inbox, link, earlier, visit>>
  BY DEF SignIn, LoseAnswer, aux
<1>3. /\ pc'[v] = label /\ \A q \in Requests \ {v} : pc'[q] = pc[q]
      /\ v \in Requests /\ v \notin Logins
      /\ \A k \in Keys : BucketPays(k)'
  BY <1>1, <1>2, VerifyLeaves
<1>4. /\ link[v] \in inbox /\ links[link[v]].used
      /\ links[link[v]] \in Link
  BY <1>2 DEF SignInInv, TypeOK, LinksOK, HasBurnt
<1> DEFINE e == links[link[v]].email
           c == [email |-> e, role |-> RoleOf(e)]
           g == [email |-> e, role |-> RoleOf(e), roles |-> roles]
<1>5. c \in Session /\ c # NoSession /\ g \in Grant
  <2>1. e \in Emails
    BY <1>4 DEF Link
  <2>2. RoleOf(e) \in Roles
    <3>1. PICK D \in SUBSET Emails : roles \in [D -> Roles]
      BY ConstantsAssumption DEF SignInInv, TypeOK
    <3> QED
      BY <3>1 DEF RoleOf, Allowlisted, Roles
  <2>3. c \in Session /\ g \in Grant
    BY <2>1, <2>2 DEF Session, Grant, SignInInv, TypeOK
  <2> HIDE DEF c, g
  <2> QED
    BY <2>3, ConstantsAssumption
<1>6. \/ UNCHANGED <<cookie, granted>>
      \/ /\ \E b \in Browsers : cookie' = [cookie EXCEPT ![b] = c]
         /\ granted' = granted \cup {g}
  BY DEF SignIn, LoseAnswer, aux
<1>7. /\ g.email = links[link[v]].email /\ c.email = g.email /\ c.role = g.role
      /\ g.role = IF g.email \in DOMAIN g.roles THEN g.roles[g.email] ELSE "viewer"
  BY DEF RoleOf, Allowlisted
<1> HIDE DEF c, g
<1>8. TypeOK'
  <2>1. \A w \in Verifies : pc'[w] = "burning" <=> \E l \in Logins : lock'[l] = w
    BY <1>2, <1>3 DEF SignInInv, TypeOK, Requests
  <2>2. cookie' \in [Browsers -> Session \cup {NoSession}] /\ granted' \subseteq Grant
    BY <1>5, <1>6 DEF SignInInv, TypeOK
  <2>3. pc' \in [Requests -> {"idle", "issuing", "mailing", "answered", "failed", "checked",
                             "burning", "burnt", "in", "lost"}]
    BY <1>1 DEF SignInInv, TypeOK
  <2> QED
    BY <1>2, <2>1, <2>2, <2>3 DEF SignInInv, TypeOK, clock, request
<1>9. LinksOK'
  BY <1>2, <1>3 DEF SignInInv, LinksOK, HasBurnt, Requests
<1>10. SessionsOK'
  <2>1. ASSUME NEW b \in Browsers, cookie'[b] # NoSession
        PROVE  \E h \in granted' : h.email = cookie'[b].email /\ h.role = cookie'[b].role
    <3>1. CASE cookie'[b] = cookie[b]
      BY <1>6, <2>1, <3>1 DEF SignInInv, SessionsOK
    <3>2. CASE cookie'[b] # cookie[b]
      <4>1. cookie'[b] = c /\ g \in granted'
        BY <1>6, <3>2 DEF SignInInv, TypeOK
      <4> QED
        BY <1>7, <4>1
    <3> QED
      BY <3>1, <3>2
  <2>2. \A h \in granted' : Earned(h)'
    BY <1>2, <1>4, <1>6, <1>7 DEF SignInInv, SessionsOK, Earned
  <2>3. granted \subseteq granted'
    BY <1>6
  <2> QED
    BY <1>2, <2>1, <2>2, <2>3 DEF SignInInv, SessionsOK
<1> QED
  BY <1>3, <1>8, <1>9, <1>10 DEF SignInInv

---------------------------------------------------------------------------
(* Sessions, the server and time.                                          *)

LEMMA BrowseKeeps ==
  ASSUME SignInInv, NEW b \in Browsers, Browse(b)
  PROVE  SignInInv'
<1>1. UNCHANGED <<clock, request, links, lock, inbox, pc, link, earlier, granted>>
  BY DEF Browse, Logout, Visit, aux
<1>2. TypeOK' /\ SessionsOK'
  <2>1. CASE Logout(b)
    <3>1. UNCHANGED aux /\ \A d \in Browsers : cookie'[d] \in {cookie[d], NoSession}
      BY <2>1 DEF Logout, SignInInv, TypeOK
    <3>2. TypeOK'
      BY <1>1, <2>1 DEF Logout, aux, clock, request, SignInInv, TypeOK
    <3> QED
      BY <1>1, <3>1, <3>2, SessionsKept
  <2>2. ASSUME NEW min \in Roles, Visit(b, min)
        PROVE  TypeOK' /\ SessionsOK'
    <3> DEFINE c   == cookie[b]
               new == [email |-> c.email, role |-> min]
    <3>1. /\ c \in Session /\ Rank[c.role] >= Rank[min]
          /\ \E g \in granted : g.email = c.email /\ g.role = c.role
      BY <2>2 DEF Visit, SignInInv, TypeOK, SessionsOK
    <3>2. visit' = new /\ cookie' = cookie
      BY <2>2 DEF Visit
    <3>3. new \in Session /\ new.email = c.email /\ new.role = min
      BY <3>1 DEF Session
    <3> HIDE DEF c, new
    <3>4. TypeOK'
      BY <1>1, <3>2, <3>3 DEF SignInInv, TypeOK, clock, request
    <3>5. \A g \in granted : Earned(g)'
      BY <1>1 DEF SignInInv, SessionsOK, Earned
    <3>6. SessionsOK'
      BY <1>1, <3>1, <3>2, <3>3, <3>5 DEF SignInInv, SessionsOK
    <3> QED
      BY <3>4, <3>6
  <2> QED
    BY <2>1, <2>2 DEF Browse
<1>3. LinksOK'
  BY <1>1 DEF SignInInv, LinksOK, HasBurnt
<1>4. \A k \in Keys : BucketPays(k)'
  BY <1>1, BucketsKept DEF SignInInv, TypeOK, clock
<1> QED
  BY <1>2, <1>3, <1>4 DEF SignInInv

LEMMA TickKeeps ==
  ASSUME SignInInv, Tick
  PROVE  SignInInv'
<1>1. /\ now' = now + 1 /\ now \in Nat
      /\ UNCHANGED <<roles, boot, request, links, lock, inbox, pc, link, cookie, earlier, aux>>
  BY DEF Tick, SignInInv, TypeOK
<1>2. TypeOK'
  BY <1>1 DEF SignInInv, TypeOK, request, aux
<1>3. LinksOK' /\ SessionsOK'
  BY <1>1, SessionsKept DEF SignInInv, LinksOK, HasBurnt
<1>4. \A k \in Keys : BucketPays(k)'
  BY <1>1, BucketsKept
<1> QED
  BY <1>2, <1>3, <1>4 DEF SignInInv

\* A restart empties the throttle, and counts anew from then on.
LEMMA RestartKeeps ==
  ASSUME SignInInv, Restart
  PROVE  SignInInv'
<1>1. /\ roles' \in Settings
      /\ buckets' = [k \in Keys |-> NoBucket] /\ issued' = [k \in Keys |-> 0]
      /\ boot' = now /\ lock' = [l \in Logins |-> Nobody]
      /\ UNCHANGED <<now, key, links, inbox, link, cookie, earlier, aux>>
  BY DEF Restart
<1>2. /\ \A r \in Requests : \/ pc'[r] = pc[r] /\ ~UnderWay(r)
                             \/ pc[r] = "burnt" /\ pc'[r] = "lost"
                             \/ pc'[r] = "failed"
      /\ pc' \in [Requests -> {"idle", "issuing", "mailing", "answered", "failed", "checked",
                               "burning", "burnt", "in", "lost"}]
  BY DEF Restart, SignInInv, TypeOK
<1>3. TypeOK'
  <2>1. \A v \in Verifies : pc'[v] # "burning" /\ v # Nobody
    BY <1>2, ConstantsAssumption DEF Requests, UnderWay
  <2>2. \A v \in Verifies : pc'[v] = "burning" <=> \E l \in Logins : lock'[l] = v
    BY <1>1, <2>1
  <2> QED
    BY <1>1, <1>2, <2>2 DEF SignInInv, TypeOK, aux
<1>4. LinksOK'
  <2>1. \A r \in Logins : pc'[r] \in {"idle", "failed", "lost"} \/
                         (pc'[r] = pc[r] /\ pc[r] \notin {"issuing", "mailing"})
    BY <1>2 DEF Requests, UnderWay
  <2>2. \A r \in Logins : pc'[r] = "idle" => pc[r] = "idle"
    BY <1>2 DEF Requests
  <2>3. \A v \in Verifies : /\ HasBurnt(v)' => HasBurnt(v)
                           /\ pc'[v] \notin {"checked", "burning"}
    BY <1>2 DEF Requests, UnderWay, HasBurnt
  <2> QED
    BY <1>1, <2>1, <2>2, <2>3 DEF SignInInv, LinksOK
<1>5. ASSUME NEW k \in Keys
      PROVE  BucketPays(k)'
  <2>1. Issuing(k)' = {}
    BY <1>2 DEF Issuing, Requests, UnderWay
  <2> QED
    BY <1>1, <2>1, FS_EmptySet DEF BucketPays, Due
<1>6. SessionsOK'
  BY <1>1, SessionsKept
<1> QED
  BY <1>3, <1>4, <1>5, <1>6 DEF SignInInv

---------------------------------------------------------------------------

LEMMA StepKeeps == SignInInv /\ [Next]_vars => SignInInv'
<1> SUFFICES ASSUME SignInInv, [Next]_vars
             PROVE  SignInInv'
  OBVIOUS
<1>1. CASE UNCHANGED vars
  <2>1. UNCHANGED <<clock, request, links, lock, inbox, pc, link, cookie, earlier, aux>>
    BY <1>1 DEF vars
  <2>2. TypeOK' /\ LinksOK' /\ SessionsOK'
    BY <2>1, SessionsKept DEF SignInInv, TypeOK, LinksOK, HasBurnt, clock, request, aux
  <2>3. \A k \in Keys : BucketPays(k)'
    BY <2>1, BucketsKept DEF SignInInv, TypeOK, clock
  <2> QED
    BY <2>2, <2>3 DEF SignInInv
<1>2. CASE \E r \in Logins : Login(r)
  BY <1>2, SubmitKeeps, IssueLinkKeeps, FailLoginKeeps, SendMailKeeps DEF Login
<1>3. CASE \E v \in Verifies : Verify(v)
  BY <1>3, CheckLinkKeeps, BurnKeeps, CommitKeeps, AnswerKeeps, FailVerifyKeeps DEF Verify
<1> QED
  BY <1>1, <1>2, <1>3, BrowseKeeps, RestartKeeps, TickKeeps DEF Next

\* Links, the throttle and sessions fit together after every step, restarts
\* included.
THEOREM SignInInvariant == Spec => []SignInInv
  BY InitKeeps, StepKeeps, PTL DEF Spec

\* A row of a link is locked by the verification that is burning it.
THEOREM TypeCorrect == Spec => []TypeOK
<1>1. SignInInv => TypeOK
  BY DEF SignInInv
<1> QED
  BY <1>1, SignInInvariant, PTL

\* No more links are issued for a key than its bucket has held and been given.
THEOREM ThrottleHolds == Spec => []LinksBounded
<1>1. SignInInv => LinksBounded
  <2> SUFFICES ASSUME SignInInv, NEW k \in Keys
               PROVE  issued[k] * Hour <= PerHour * Hour + (now - boot) * PerHour
    BY DEF LinksBounded
  <2>1. /\ now \in Nat /\ boot \in Nat /\ boot <= now /\ PerHour \in Nat /\ Hour \in Nat
        /\ buckets[k] \in Bucket \cup {NoBucket} /\ issued[k] \in Nat /\ BucketPays(k)
    BY ConstantsAssumption DEF SignInInv, TypeOK
  <2>2. Due(k) = issued[k] + Cardinality(Issuing(k)) /\ Cardinality(Issuing(k)) \in Nat
    BY IssuingFinite DEF Due
  <2> DEFINE c == Cardinality(Issuing(k))
  <2>3. /\ Due(k) * Hour = issued[k] * Hour + c * Hour
        /\ issued[k] * Hour \in Nat /\ c * Hour \in Nat
    BY <2>1, <2>2, Distributes, ProductNat
  <2> HIDE DEF c
  <2>4. PerHour * Hour \in Nat /\ (now - boot) * PerHour \in Nat
    BY <2>1, ProductNat, LaterIsMore
  <2>5. CASE buckets[k] = NoBucket
    <3>1. issued[k] = 0
      BY <2>1, <2>2, <2>5 DEF BucketPays
    <3>2. issued[k] * Hour = 0
      BY <2>1, <3>1
    <3> QED
      BY <2>4, <3>2
  <2>6. CASE buckets[k] # NoBucket
    <3> DEFINE b == buckets[k]
               inflow == (b.last - boot) * PerHour
    <3>1. /\ b.level \in Nat /\ b.last \in Nat /\ boot <= b.last /\ b.last <= now
          /\ b.level + Due(k) * Hour <= PerHour * Hour + inflow
      BY <2>1, <2>6 DEF Bucket, BucketPays
    <3>2. inflow \in Nat /\ inflow <= (now - boot) * PerHour
      BY <2>1, <3>1, LaterIsMore
    <3> HIDE DEF b, inflow
    <3> QED
      BY <2>3, <2>4, <3>1, <3>2
  <2> QED
    BY <2>5, <2>6
<1> QED
  BY <1>1, SignInInvariant, PTL

\* A link that two sign-ins use was unused when each of them looked.
THEOREM SecondUsesOverlap == Spec => []SecondUseOverlaps
<1>1. SignInInv => SecondUseOverlaps
  BY DEF SignInInv, LinksOK, SecondUseOverlaps, Burners
<1> QED
  BY <1>1, SignInInvariant, PTL

\* Every role goes back to a link that was mailed to its email and burnt, and to
\* the settings of the sign-in.
THEOREM RolesAreEarned == Spec => []RolesComeFromLinks
<1>1. SignInInv => RolesComeFromLinks
  BY DEF SignInInv, SessionsOK, RolesComeFromLinks
<1> QED
  BY <1>1, SignInInvariant, PTL

\* A verification waits only for one that can commit, and has its link.
THEOREM NoneIsStuck == Spec => []NobodyStuck
<1>1. SignInInv => NobodyStuck
  <2> SUFFICES ASSUME SignInInv, NEW v \in Verifies
               PROVE  /\ pc[v] = "checked" /\ lock[link[v]] # Nobody =>
                           /\ lock[link[v]] \in {w \in Verifies \ {v} : link[w] = link[v]}
                           /\ pc[lock[link[v]]] = "burning"
                      /\ pc[v] \in {"checked", "burning", "burnt"} => links[link[v]] # NoLink
    BY DEF NobodyStuck
  <2>1. /\ link[v] \in Logins /\ lock[link[v]] \in Verifies \cup {Nobody}
        /\ \A w \in Verifies : pc[w] = "burning" <=> \E l \in Logins : lock[l] = w
        /\ \A l \in Logins : lock[l] # Nobody => link[lock[l]] = l
        /\ inbox \subseteq {l \in Logins : links[l] # NoLink}
    BY DEF SignInInv, TypeOK, LinksOK
  <2>2. pc[v] \in {"checked", "burning", "burnt"} => link[v] \in inbox
    BY DEF SignInInv, LinksOK, HasBurnt
  <2> QED
    BY <2>1, <2>2
<1> QED
  BY <1>1, SignInInvariant, PTL

\* A request is over after at most three of the server's steps.
THEOREM StepsCount == Spec => EachStepCounts
<1>1. TypeOK /\ [Next]_vars =>
        \A r \in Requests : UnderWay(r) =>
          /\ StepsLeft(r)' <= StepsLeft(r)
          /\ Proceed(r) => StepsLeft(r)' < StepsLeft(r)
  <2> SUFFICES ASSUME TypeOK, [Next]_vars, NEW r \in Requests, UnderWay(r)
               PROVE  /\ StepsLeft(r)' <= StepsLeft(r)
                      /\ Proceed(r) => StepsLeft(r)' < StepsLeft(r)
    OBVIOUS
  <2> USE ConstantsAssumption DEF Requests
  <2> DEFINE Down == StepsLeft(r)' < StepsLeft(r)
             Same == pc'[r] = pc[r]
  <2>1. Proceed(r) => Down
    BY DEF Proceed, IssueLink, SendMail, Burn, Commit, SignIn, LoseAnswer, Goto, StepsLeft, TypeOK
  <2>2. ASSUME NEW q \in Requests, q # r, Login(q) \/ Verify(q) PROVE Same
    BY <2>2 DEF Login, Submit, Allow, IssueLink, FailLogin, SendMail, Verify, CheckLink, Burn,
                Commit, SignIn, LoseAnswer, FailVerify, Goto, TypeOK
  <2>3. ASSUME Login(r) \/ Verify(r) PROVE Down
    BY <2>1, <2>3 DEF Login, Verify, Proceed, Submit, FailLogin, CheckLink, FailVerify, Goto, TypeOK,
                      UnderWay, StepsLeft
  <2>4. ASSUME Restart PROVE Down
    BY <2>4 DEF Restart, UnderWay, StepsLeft, TypeOK
  <2>5. ASSUME UNCHANGED vars \/ Tick \/ \E b \in Browsers : Browse(b) PROVE Same
    BY <2>5 DEF vars, Tick, Browse, Logout, Visit
  <2>6. Down \/ Same
    <3> HIDE DEF Down, Same
    <3> QED
      BY ONLY [Next]_vars, <2>2, <2>3, <2>4, <2>5 DEF Next, Requests
  <2>7. StepsLeft(r) \in Nat /\ StepsLeft(r)' \in Nat
    BY DEF StepsLeft
  <2>8. Same => StepsLeft(r)' = StepsLeft(r)
    BY DEF StepsLeft
  <2> QED
    BY <2>1, <2>6, <2>7, <2>8
<1> QED
  BY <1>1, TypeCorrect, PTL DEF Spec, EachStepCounts

=============================================================================
