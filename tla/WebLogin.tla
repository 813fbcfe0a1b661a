----------------------------- MODULE WebLogin -----------------------------
(***************************************************************************)
(* The sign-in of the admin web UI: a login request that issues a link and *)
(* mails it, the verification that burns the link and opens a session, the *)
(* signed cookie that carries the session, and the role it gives.  The     *)
(* throttle is in the server's memory, the links are in the database, the  *)
(* cookies are with the browsers.                                          *)
(***************************************************************************)
EXTENDS Naturals, FiniteSets, TokenBucket

CONSTANTS Logins,       \* POST /login; a link has the name of its request
          Verifies,     \* POST /auth/verify
          Browsers,
          Keys,         \* the "ip:email" keys of the throttle
          Emails,
          EmailOf,      \* the email of a key
          Settings,     \* what web_admin_emails may say: a role for some emails
          PerHour,      \* tokens of the throttle per hour
          Hour,         \* ticks
          TTL,          \* ticks a link is valid
          Horizon,      \* bound: the last tick
          NoBucket, NoLink, NoSession, Nobody

Requests == Logins \cup Verifies

Roles == {"viewer", "editor", "admin"}

Rank == [r \in Roles |-> CASE r = "viewer" -> 1 [] r = "editor" -> 2 [] r = "admin" -> 3]

Link == [email : Emails, expires : Nat, used : BOOLEAN]

Session == [email : Emails, role : Roles]

Grant == [email : Emails, role : Roles, roles : Settings]

ASSUME ConstantsAssumption ==
  /\ Logins \cap Verifies = {} /\ IsFiniteSet(Logins)
  /\ EmailOf \in [Keys -> Emails]
  /\ \A s \in Settings : \E D \in SUBSET Emails : s \in [D -> Roles]
  /\ PerHour \in Nat /\ Hour \in Nat \ {0} /\ TTL \in Nat /\ Horizon \in Nat
  /\ NoBucket \notin Bucket /\ NoLink \notin Link /\ NoSession \notin Session
  /\ Nobody \notin Verifies

VARIABLES now,      \* the clock
          roles,    \* the role of each allowlisted email, read when the server starts
          buckets,  \* the throttle's
          links,    \* the committed rows of web_login_tokens
          lock,     \* which verification has a link's row locked
          inbox,    \* the links that have been delivered
          pc,       \* where each request stands
          key,      \* the throttle key of a login request
          link,     \* the link of a verification
          cookie,   \* the session that each browser carries
          issued,   \* auxiliary: links issued for a key since the server started
          boot,     \* auxiliary: when that was
          earlier,  \* auxiliary: who had burnt the link when a verification looked
          granted,  \* auxiliary: who got which role at a sign-in, the settings then
          visit     \* auxiliary: the last page shown: who saw it, the role it takes

clock == <<now, roles, boot>>
request == <<buckets, issued, key>>
aux == <<granted, visit>>
vars == <<clock, request, links, lock, inbox, pc, link, cookie, earlier, aux>>

Init ==
  /\ now = 0
  /\ roles \in Settings
  /\ buckets = [k \in Keys |-> NoBucket]
  /\ links = [l \in Logins |-> NoLink]
  /\ lock = [l \in Logins |-> Nobody]
  /\ inbox = {}
  /\ pc = [r \in Requests |-> "idle"]
  /\ key \in [Logins -> Keys]
  /\ link \in [Verifies -> Logins]
  /\ cookie = [b \in Browsers |-> NoSession]
  /\ issued = [k \in Keys |-> 0]
  /\ boot = 0
  /\ earlier = [v \in Verifies |-> {}]
  /\ granted = {}
  /\ visit = NoSession

Goto(r, label) == pc' = [pc EXCEPT ![r] = label]

---------------------------------------------------------------------------
(* POST /login.                                                            *)

Allowlisted(e) == e \in DOMAIN roles

\* A new key starts with a full bucket.
Current(k) ==
  IF buckets[k] = NoBucket THEN Full(PerHour, Hour, now)
  ELSE Refilled(buckets[k], PerHour, Hour, now)

\* Mutant: a token is asked for and not taken.
AllowAndKeep(r) ==
  /\ buckets' = [buckets EXCEPT ![key[r]] = Current(key[r])]
  /\ Goto(r, IF HasToken(Current(key[r]), Hour) THEN "issuing" ELSE "answered")

\* login_throttle.allow: the refill is written even if there is no token.
Allow(r) ==
  LET k == key[r]
  IN  IF HasToken(Current(k), Hour)
      THEN buckets' = [buckets EXCEPT ![k] = Taken(Current(k), Hour)] /\ Goto(r, "issuing")
      ELSE buckets' = [buckets EXCEPT ![k] = Current(k)] /\ Goto(r, "answered")

\* Who is not on the list gets the same answer and spends no token.
Submit(r) ==
  /\ r \in Logins
  /\ pc[r] = "idle"
  /\ IF Allowlisted(EmailOf[key[r]]) THEN Allow(r)
     ELSE Goto(r, "answered") /\ UNCHANGED buckets
  /\ UNCHANGED <<clock, issued, key, links, lock, inbox, link, cookie, earlier, aux>>

\* The link is committed before any mail is sent.
IssueLink(r) ==
  /\ pc[r] = "issuing"
  /\ links' = [links EXCEPT ![r] =
                 [email |-> EmailOf[key[r]], expires |-> now + TTL, used |-> FALSE]]
  /\ issued' = [issued EXCEPT ![key[r]] = @ + 1]
  /\ Goto(r, "mailing")
  /\ UNCHANGED <<clock, buckets, key, lock, inbox, link, cookie, earlier, aux>>

\* The INSERT or its commit fails: the user sees an error, the token is spent.
FailLogin(r) ==
  /\ pc[r] = "issuing"
  /\ Goto(r, "failed")
  /\ UNCHANGED <<clock, request, links, lock, inbox, link, cookie, earlier, aux>>

\* The mail arrives, or it does not and the user is told of an error; a mail
\* that arrives although SMTP failed makes no difference here.
SendMail(r) ==
  /\ pc[r] = "mailing"
  /\ inbox' \in {inbox, inbox \cup {r}}
  /\ Goto(r, "answered")
  /\ UNCHANGED <<clock, request, links, lock, link, cookie, earlier, aux>>

---------------------------------------------------------------------------
(* POST /auth/verify; the GET before it only shows a button.               *)

HasBurnt(v) == pc[v] \in {"burnt", "in", "lost"}

Burners(l) == {v \in Verifies : link[v] = l /\ HasBurnt(v)}

\* Mutant: the link is not asked whether it has been used.
CheckExpiryOnly(v) ==
  /\ v \in Verifies
  /\ pc[v] = "idle"
  /\ link[v] \in inbox
  /\ Goto(v, IF links[link[v]].expires < now THEN "failed" ELSE "checked")
  /\ earlier' = [earlier EXCEPT ![v] = Burners(link[v])]
  /\ UNCHANGED <<clock, request, links, lock, inbox, link, cookie, aux>>

\* The SELECT of consume_magic_link_token.
CheckLink(v) ==
  /\ v \in Verifies
  /\ pc[v] = "idle"
  /\ link[v] \in inbox
  /\ LET l == links[link[v]]
     IN  Goto(v, IF l.used \/ l.expires < now THEN "failed" ELSE "checked")
  /\ earlier' = [earlier EXCEPT ![v] = Burners(link[v])]
  /\ UNCHANGED <<clock, request, links, lock, inbox, link, cookie, aux>>

\* The UPDATE, by hash alone; it waits for another one's.
Burn(v) ==
  /\ pc[v] = "checked"
  /\ lock[link[v]] = Nobody
  /\ lock' = [lock EXCEPT ![link[v]] = v]
  /\ Goto(v, "burning")
  /\ UNCHANGED <<clock, request, links, inbox, link, cookie, earlier, aux>>

\* Mutant: the row is left locked.
CommitAndHold(v) ==
  /\ pc[v] = "burning"
  /\ links' = [links EXCEPT ![link[v]].used = TRUE]
  /\ Goto(v, "burnt")
  /\ UNCHANGED <<clock, request, lock, inbox, link, cookie, earlier, aux>>

Commit(v) ==
  /\ pc[v] = "burning"
  /\ links' = [links EXCEPT ![link[v]].used = TRUE]
  /\ lock' = [lock EXCEPT ![link[v]] = Nobody]
  /\ Goto(v, "burnt")
  /\ UNCHANGED <<clock, request, inbox, link, cookie, earlier, aux>>

\* Mutant: no role is the default of the list, admin.
RoleOrDefault(e) == IF Allowlisted(e) THEN roles[e] ELSE "admin"

\* An email that has left the list since the link was mailed is a viewer.
RoleOf(e) == IF Allowlisted(e) THEN roles[e] ELSE "viewer"

\* The answer sets the cookie of the browser it reaches, or is lost.
SignIn(v) ==
  /\ pc[v] = "burnt"
  /\ LET e == links[link[v]].email
     IN  \E b \in Browsers :
           /\ cookie' = [cookie EXCEPT ![b] = [email |-> e, role |-> RoleOf(e)]]
           /\ granted' = granted \cup {[email |-> e, role |-> RoleOf(e), roles |-> roles]}
  /\ Goto(v, "in")
  /\ UNCHANGED <<clock, request, links, lock, inbox, link, earlier, visit>>

LoseAnswer(v) ==
  /\ pc[v] = "burnt"
  /\ Goto(v, "lost")
  /\ UNCHANGED <<clock, request, links, lock, inbox, link, cookie, earlier, aux>>

\* The database fails before the commit: the link is as good as before.
FailVerify(v) ==
  /\ pc[v] \in {"checked", "burning"}
  /\ lock' = [l \in Logins |-> IF lock[l] = v THEN Nobody ELSE lock[l]]
  /\ Goto(v, "failed")
  /\ UNCHANGED <<clock, request, links, inbox, link, cookie, earlier, aux>>

---------------------------------------------------------------------------
(* With a session.                                                         *)

\* A page that requires a role reads it from the cookie; who has too low a
\* role, or no session, is turned away.
Visit(b, min) ==
  /\ cookie[b] # NoSession
  /\ Rank[cookie[b].role] >= Rank[min]
  /\ visit' = [email |-> cookie[b].email, role |-> min]
  /\ UNCHANGED <<clock, request, links, lock, inbox, pc, link, cookie, earlier, granted>>

Logout(b) ==
  /\ cookie[b] # NoSession
  /\ cookie' = [cookie EXCEPT ![b] = NoSession]
  /\ UNCHANGED <<clock, request, links, lock, inbox, pc, link, earlier, aux>>

---------------------------------------------------------------------------
(* The server and time.                                                    *)

UnderWay(r) == pc[r] \in {"issuing", "mailing", "checked", "burning", "burnt"}

\* A restart forgets the throttle, ends what is under way and reads the
\* settings again; links and cookies stay.
Restart ==
  /\ roles' \in Settings
  /\ buckets' = [k \in Keys |-> NoBucket]
  /\ issued' = [k \in Keys |-> 0]
  /\ boot' = now
  /\ pc' = [r \in Requests |-> IF ~UnderWay(r) THEN pc[r]
                               ELSE IF pc[r] = "burnt" THEN "lost" ELSE "failed"]
  /\ lock' = [l \in Logins |-> Nobody]
  /\ UNCHANGED <<now, key, links, inbox, link, cookie, earlier, aux>>

Tick ==
  /\ now < Horizon
  /\ now' = now + 1
  /\ UNCHANGED <<roles, boot, request, links, lock, inbox, pc, link, cookie, earlier, aux>>

Login(r) == Submit(r) \/ IssueLink(r) \/ FailLogin(r) \/ SendMail(r)

Verify(v) == CheckLink(v) \/ Burn(v) \/ Commit(v) \/ SignIn(v) \/ LoseAnswer(v) \/ FailVerify(v)

Browse(b) == Logout(b) \/ \E min \in Roles : Visit(b, min)

Next == \/ \E r \in Logins : Login(r)
        \/ \E v \in Verifies : Verify(v)
        \/ \E b \in Browsers : Browse(b)
        \/ Restart \/ Tick

Spec == Init /\ [][Next]_vars

\* The server carries on what it has begun.  Whether a user looks into the
\* inbox, and whether the server is restarted, is up to them.
Proceed(r) == IssueLink(r) \/ SendMail(r) \/ Burn(r) \/ Commit(r) \/ SignIn(r) \/ LoseAnswer(r)

FairSpec == Spec /\ \A r \in Requests : WF_vars(Proceed(r))

---------------------------------------------------------------------------

\* The rows a link's verification needs are there, and a row is locked by the
\* verification that is burning it.
TypeOK ==
  /\ now \in Nat /\ boot \in Nat /\ boot <= now
  /\ roles \in Settings
  /\ buckets \in [Keys -> Bucket \cup {NoBucket}]
  /\ links \in [Logins -> Link \cup {NoLink}]
  /\ lock \in [Logins -> Verifies \cup {Nobody}]
  /\ \A v \in Verifies : pc[v] = "burning" <=> \E l \in Logins : lock[l] = v
  /\ inbox \subseteq {l \in Logins : links[l] # NoLink}
  /\ pc \in [Requests -> {"idle", "issuing", "mailing", "answered", "failed", "checked",
                          "burning", "burnt", "in", "lost"}]
  /\ key \in [Logins -> Keys]
  /\ link \in [Verifies -> Logins]
  /\ cookie \in [Browsers -> Session \cup {NoSession}]
  /\ issued \in [Keys -> Nat]
  /\ earlier \in [Verifies -> SUBSET Verifies]
  /\ granted \subseteq Grant
  /\ visit \in Session \cup {NoSession}

---------------------------------------------------------------------------
(* The invariant that carries the proofs.                                  *)

\* A login that has not been issued a link has none, a verification that goes
\* on has one that was delivered and that nobody had burnt.
LinksOK ==
  /\ \A l \in Logins : lock[l] # Nobody => link[lock[l]] = l
  /\ \A r \in Logins : /\ pc[r] \in {"idle", "issuing"} => links[r] = NoLink
                       /\ pc[r] = "mailing" => links[r] # NoLink
  /\ \A v \in Verifies :
       /\ HasBurnt(v) \/ pc[v] \in {"checked", "burning"} =>
            link[v] \in inbox /\ earlier[v] = {}
       /\ HasBurnt(v) => links[link[v]].used

Issuing(k) == {r \in Logins : pc[r] = "issuing" /\ key[r] = k}

Due(k) == issued[k] + Cardinality(Issuing(k))

\* What is in a bucket and what was taken out of it is no more than what has
\* flowed in.
BucketPays(k) ==
  LET b == buckets[k]
  IN  IF b = NoBucket THEN Due(k) = 0
      ELSE /\ boot <= b.last /\ b.last <= now
           /\ b.level + Due(k) * Hour <= PerHour * Hour + (b.last - boot) * PerHour

\* A grant is of the email of a link mailed and burnt, and of the role that the
\* settings of that moment give it.
Earned(g) ==
  /\ \E l \in inbox : links[l].email = g.email /\ links[l].used
  /\ g.role = IF g.email \in DOMAIN g.roles THEN g.roles[g.email] ELSE "viewer"

SessionsOK ==
  /\ \A b \in Browsers : cookie[b] # NoSession =>
       \E g \in granted : g.email = cookie[b].email /\ g.role = cookie[b].role
  /\ \A g \in granted : Earned(g)
  /\ visit # NoSession =>
       \E g \in granted : g.email = visit.email /\ Rank[g.role] >= Rank[visit.role]

SignInInv == TypeOK /\ LinksOK /\ (\A k \in Keys : BucketPays(k)) /\ SessionsOK

---------------------------------------------------------------------------

\* However requests are spaced, and however many mails fail, a key is issued
\* no more links than its bucket held when the server started and has been
\* given since.
LinksBounded ==
  \A k \in Keys : issued[k] * Hour <= PerHour * Hour + (now - boot) * PerHour

\* The link is called one-time, but consume_magic_link_token checks and burns it
\* in two statements: two sign-ins with one link are possible, though only if
\* neither had burnt it when the other one looked.
SecondUseOverlaps ==
  \A v, w \in Verifies :
    link[v] = link[w] /\ {v, w} \subseteq Burners(link[v]) => v \notin earlier[w]

\* Every role given at a sign-in went to the email of a link that was mailed
\* and is burnt, and is the one that the settings gave that email then: viewer if
\* a restart had taken it off the list since the link was asked for.  And who is
\* shown a page was given its role or a higher one at a sign-in, which a later
\* change of the settings does not take back.
RolesComeFromLinks ==
  /\ \A g \in granted : Earned(g)
  /\ visit # NoSession =>
       \E g \in granted : g.email = visit.email /\ Rank[g.role] >= Rank[visit.role]

\* Whoever waits for a link's row waits for another one's open transaction,
\* which waits for nothing, and all that goes on has a link to go on with.
NobodyStuck ==
  \A v \in Verifies :
    /\ pc[v] = "checked" /\ lock[link[v]] # Nobody =>
         /\ lock[link[v]] \in {w \in Verifies \ {v} : link[w] = link[v]}
         /\ pc[lock[link[v]]] = "burning"
    /\ pc[v] \in {"checked", "burning", "burnt"} => links[link[v]] # NoLink

\* The steps that the server has still to take for r.
StepsLeft(r) == CASE pc[r] = "checked" -> 3
                  [] pc[r] \in {"burning", "issuing"} -> 2
                  [] pc[r] \in {"burnt", "mailing"} -> 1
                  [] OTHER -> 0

\* No other request, browser, restart or tick adds to what a request has to
\* do, and each step that the server owes it takes something away.
EachStepCounts ==
  [][ \A r \in Requests : UnderWay(r) =>
        /\ StepsLeft(r)' <= StepsLeft(r)
        /\ Proceed(r) => StepsLeft(r)' < StepsLeft(r) ]_vars

\* Every request that the server has begun to work on ends, also the ones that
\* wait for another one's row.
EveryRequestEnds == \A r \in Requests : UnderWay(r) ~> ~UnderWay(r)

=============================================================================
