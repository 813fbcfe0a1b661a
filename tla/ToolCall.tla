----------------------------- MODULE ToolCall -----------------------------
(***************************************************************************)
(* A call to the MCP server, from the Bearer token of its HTTP request to  *)
(* the commit of the tool's transaction: three sessions one after another  *)
(* on one bounded pool of connections, while tokens expire and are         *)
(* revoked by the web UI and by soulctl, which are processes of their own. *)
(*                                                                         *)
(* What a tool reads or writes is abstracted to one row of its soul; the   *)
(* limiter of RateLimit to a yes or a no.  A tool is taken to run in the   *)
(* context of the request that calls it: that is up to the MCP library.    *)
(***************************************************************************)
EXTENDS Naturals

CONSTANTS Calls,        \* calls of MCP tools
          WebRevokes,   \* revocations from the web UI
          CliRevokes,   \* runs of soulctl token revoke
          Tokens,       \* rows of api_tokens
          ReadOnly,     \* those without the scope "write"
          Souls,
          SoulOf,       \* the soul each token belongs to
          Conns,        \* the connections of the server's pool
          NoToken,      \* no token, one that is not known, no identity
          NoSoul,       \* a connection without row-level-security context
          NoConn,       \* a request that holds no connection
          Nobody        \* a token row that no transaction has locked

Revokes == WebRevokes \cup CliRevokes

Requests == Calls \cup Revokes

ASSUME ConstantsAssumption ==
  /\ ReadOnly \subseteq Tokens
  /\ SoulOf \in [Tokens -> Souls]
  /\ NoToken \notin Tokens
  /\ NoSoul \notin Souls
  /\ NoConn \notin Conns
  /\ Nobody \notin Requests
  /\ Calls \cap Revokes = {}
  /\ WebRevokes \cap CliRevokes = {}

VARIABLES pc,         \* where each request stands
          kind,       \* the tool of a call: "read", "write" or "whoami"
          token,      \* the token a call carries, or a revocation revokes
          found,      \* whether a call's SELECT returned its token
          identity,   \* current_identity, as the token it was resolved from
          conn,       \* the connection each call holds
          scope,      \* app.current_soul of each connection
          rowLock,    \* who has updated the row of each token and not ended
          pending,    \* the soul whose row each open tool call has written
          written,    \* committed rows, with the call that wrote them
          audit,      \* committed rows of audit_log
          touched,    \* tokens with a last_used_at
          revoked,    \* tokens with a revoked_at
          expired,    \* tokens whose expires_at has passed
          late        \* auxiliary: calls that arrived with a revoked token

callVars == <<kind, found, identity>>
tokenVars == <<touched, revoked, expired>>
vars == <<pc, token, callVars, conn, scope, rowLock, pending, written, audit, tokenVars, late>>

Kinds == {"read", "write", "whoami"}

Entry == [of : Requests, soul : Souls]

Init ==
  /\ pc = [r \in Requests |-> "idle"]
  /\ kind = [c \in Calls |-> "read"]
  /\ token = [r \in Requests |-> NoToken]
  /\ found = [c \in Calls |-> FALSE]
  /\ identity = [c \in Calls |-> NoToken]
  /\ conn = [c \in Calls |-> NoConn]
  /\ scope = [k \in Conns |-> NoSoul]
  /\ rowLock = [t \in Tokens |-> Nobody]
  /\ pending = [c \in Calls |-> NoSoul]
  /\ written = {}
  /\ audit = {}
  /\ touched = {}
  /\ revoked = {}
  /\ expired = {}
  /\ late = {}

---------------------------------------------------------------------------
(* The pool.                                                               *)

Goto(r, label) == pc' = [pc EXCEPT ![r] = label]

Free == Conns \ {conn[c] : c \in Calls}

Checkout(c, k) == k \in Free /\ conn' = [conn EXCEPT ![c] = k]

\* Mutant: the scope is set for the session, not LOCAL to the transaction.
CheckinScoped(c) ==
  /\ conn' = [conn EXCEPT ![c] = NoConn]
  /\ UNCHANGED scope

\* Ending a transaction undoes SET LOCAL; closing a session frees its connection.
Checkin(c) ==
  /\ conn' = [conn EXCEPT ![c] = NoConn]
  /\ scope' = [k \in Conns |-> IF k = conn[c] THEN NoSoul ELSE scope[k]]

Unlock(r) == rowLock' = [t \in Tokens |-> IF rowLock[t] = r THEN Nobody ELSE rowLock[t]]

---------------------------------------------------------------------------
(* resolve_bearer_token: a session for the SELECT, the hash checks without *)
(* one, and a session of its own for last_used_at.                         *)

Arrive(c) ==
  /\ pc[c] = "idle"
  /\ \E t \in Tokens \cup {NoToken}, tool \in Kinds :
       /\ token' = [token EXCEPT ![c] = t]
       /\ kind' = [kind EXCEPT ![c] = tool]
       /\ late' = IF t \in revoked THEN late \cup {c} ELSE late
  /\ Goto(c, "arrived")
  /\ UNCHANGED <<found, identity, conn, scope, rowLock, pending, written, audit, tokenVars>>

\* No Authorization header, or one that is not a Bearer token of ours.
NoBearer(c) ==
  /\ pc[c] = "arrived"
  /\ token[c] = NoToken
  /\ Goto(c, "resolved")
  /\ UNCHANGED <<token, callVars, conn, scope, rowLock, pending, written, audit, tokenVars, late>>

\* Mutant: the SELECT does not ask for revoked_at IS NULL.
SelectAnyToken(c) ==
  /\ pc[c] = "arrived"
  /\ \E k \in Conns : Checkout(c, k)
  /\ found' = [found EXCEPT ![c] = token[c] \in Tokens]
  /\ Goto(c, "selected")
  /\ UNCHANGED <<token, kind, identity, scope, rowLock, pending, written, audit, tokenVars, late>>

SelectCandidates(c) ==
  /\ pc[c] = "arrived"
  /\ \E k \in Conns : Checkout(c, k)
  /\ found' = [found EXCEPT ![c] = token[c] \in Tokens \ revoked]
  /\ Goto(c, "selected")
  /\ UNCHANGED <<token, kind, identity, scope, rowLock, pending, written, audit, tokenVars, late>>

\* Mutant: expires_at is not looked at.
VerifyHashOnly(c) ==
  /\ pc[c] = "selected"
  /\ Checkin(c)
  /\ Goto(c, IF found[c] THEN "matched" ELSE "resolved")
  /\ UNCHANGED <<token, callVars, rowLock, pending, written, audit, tokenVars, late>>

\* Mutant: the candidates are checked inside the first session.
VerifyInSession(c) ==
  /\ pc[c] = "selected"
  /\ Goto(c, IF found[c] /\ token[c] \notin expired THEN "matched" ELSE "resolved")
  /\ UNCHANGED <<token, callVars, conn, scope, rowLock, pending, written, audit, tokenVars, late>>

VerifyCandidates(c) ==
  /\ pc[c] = "selected"
  /\ Checkin(c)
  /\ Goto(c, IF found[c] /\ token[c] \notin expired THEN "matched" ELSE "resolved")
  /\ UNCHANGED <<token, callVars, rowLock, pending, written, audit, tokenVars, late>>

OpenTouch(c) ==
  /\ pc[c] = "matched"
  /\ \E k \in Conns : Checkout(c, k)
  /\ Goto(c, "touching")
  /\ UNCHANGED <<token, callVars, scope, rowLock, pending, written, audit, tokenVars, late>>

\* The UPDATE waits, with its connection, for another open one of the row.
Touch(c) ==
  /\ pc[c] = "touching"
  /\ rowLock[token[c]] = Nobody
  /\ rowLock' = [rowLock EXCEPT ![token[c]] = c]
  /\ Goto(c, "touched")
  /\ UNCHANGED <<token, callVars, conn, scope, pending, written, audit, tokenVars, late>>

CommitTouch(c) ==
  /\ pc[c] = "touched"
  /\ touched' = touched \cup {token[c]}
  /\ identity' = [identity EXCEPT ![c] = token[c]]
  /\ Unlock(c)
  /\ Checkin(c)
  /\ Goto(c, "resolved")
  /\ UNCHANGED <<token, kind, found, pending, written, audit, revoked, expired, late>>

---------------------------------------------------------------------------
(* The tool: _require_identity, then one transaction for the tool's work   *)
(* and its audit row.  whoami asks for no scope, no limit and no audit.    *)

Require(c) ==
  /\ pc[c] = "resolved"
  /\ \E allowed \in BOOLEAN :
       Goto(c, IF /\ identity[c] # NoToken
                  /\ kind[c] = "whoami" \/ allowed
                  /\ kind[c] = "write" => identity[c] \notin ReadOnly
               THEN "ready" ELSE "refused")
  /\ UNCHANGED <<token, callVars, conn, scope, rowLock, pending, written, audit, tokenVars, late>>

\* Mutant: the token's id is passed for the soul's.
ScopeToToken(c) ==
  /\ pc[c] = "ready"
  /\ kind[c] # "whoami"
  /\ \E k \in Conns : /\ Checkout(c, k)
                      /\ scope' = [scope EXCEPT ![k] = identity[c]]
  /\ Goto(c, "running")
  /\ UNCHANGED <<token, callVars, rowLock, pending, written, audit, tokenVars, late>>

OpenScoped(c) ==
  /\ pc[c] = "ready"
  /\ kind[c] # "whoami"
  /\ \E k \in Conns : /\ Checkout(c, k)
                      /\ scope' = [scope EXCEPT ![k] = SoulOf[identity[c]]]
  /\ Goto(c, "running")
  /\ UNCHANGED <<token, callVars, rowLock, pending, written, audit, tokenVars, late>>

\* The policy lets a row through when it is of the connection's soul, and
\* fails the statement, so that the call fails, otherwise.
RunTool(c) ==
  /\ pc[c] = "running"
  /\ scope[conn[c]] = SoulOf[identity[c]]
  /\ pending' = [pending EXCEPT ![c] = SoulOf[identity[c]]]
  /\ Goto(c, "ran")
  /\ UNCHANGED <<token, callVars, conn, scope, rowLock, written, audit, tokenVars, late>>

\* Mutant: the audit row is committed on its own.
LogAtOnce(c) ==
  /\ pc[c] = "ran"
  /\ audit' = audit \cup {[of |-> c, soul |-> SoulOf[identity[c]]]}
  /\ Goto(c, "logged")
  /\ UNCHANGED <<token, callVars, conn, scope, rowLock, pending, written, tokenVars, late>>

LogToolCall(c) ==
  /\ pc[c] = "ran"
  /\ Goto(c, "logged")
  /\ UNCHANGED <<token, callVars, conn, scope, rowLock, pending, written, audit, tokenVars, late>>

CommitCall(c) ==
  /\ pc[c] = "logged"
  /\ written' = written \cup {[of |-> c, soul |-> pending[c]]}
  /\ audit' = audit \cup {[of |-> c, soul |-> SoulOf[identity[c]]]}
  /\ Checkin(c)
  /\ Goto(c, "done")
  /\ UNCHANGED <<token, callVars, rowLock, pending, tokenVars, late>>

OpenWhoami(c) ==
  /\ pc[c] = "ready"
  /\ kind[c] = "whoami"
  /\ \E k \in Conns : Checkout(c, k)
  /\ Goto(c, "asking")
  /\ UNCHANGED <<token, callVars, scope, rowLock, pending, written, audit, tokenVars, late>>

AnswerWhoami(c) ==
  /\ pc[c] = "asking"
  /\ Checkin(c)
  /\ Goto(c, "done")
  /\ UNCHANGED <<token, callVars, rowLock, pending, written, audit, tokenVars, late>>

---------------------------------------------------------------------------
(* Revocation and time.                                                    *)

\* revoke_token_web and soulctl token revoke: an UPDATE by id.
UpdateRevoked(v) ==
  /\ v \in Revokes
  /\ pc[v] = "idle"
  /\ \E t \in Tokens : /\ rowLock[t] = Nobody
                       /\ rowLock' = [rowLock EXCEPT ![t] = v]
                       /\ token' = [token EXCEPT ![v] = t]
  /\ Goto(v, "revoking")
  /\ UNCHANGED <<callVars, conn, scope, pending, written, audit, tokenVars, late>>

\* Only the web UI records what it did.
CommitRevoked(v) ==
  /\ pc[v] = "revoking"
  /\ revoked' = revoked \cup {token[v]}
  /\ audit' = IF v \in WebRevokes
              THEN audit \cup {[of |-> v, soul |-> SoulOf[token[v]]]} ELSE audit
  /\ Unlock(v)
  /\ Goto(v, "done")
  /\ UNCHANGED <<token, callVars, conn, scope, pending, written, touched, expired, late>>

Expire(t) ==
  /\ t \notin expired
  /\ expired' = expired \cup {t}
  /\ UNCHANGED <<pc, token, callVars, conn, scope, rowLock, pending, written, audit, touched, revoked, late>>

---------------------------------------------------------------------------

Over == {"idle", "done", "refused", "failed"}

\* An exception, a lost connection or the pool's timeout: all is undone.
FailCall(c) ==
  /\ c \in Calls
  /\ pc[c] \notin Over
  /\ Checkin(c)
  /\ Unlock(c)
  /\ Goto(c, "failed")
  /\ UNCHANGED <<token, callVars, pending, written, audit, tokenVars, late>>

FailRevoke(v) ==
  /\ pc[v] = "revoking"
  /\ Unlock(v)
  /\ Goto(v, "failed")
  /\ UNCHANGED <<token, callVars, conn, scope, pending, written, audit, tokenVars, late>>

Resolve(c) ==
  \/ NoBearer(c)
  \/ SelectCandidates(c)
  \/ VerifyCandidates(c)
  \/ OpenTouch(c)
  \/ Touch(c)
  \/ CommitTouch(c)

Serve(c) ==
  \/ Require(c)
  \/ OpenScoped(c)
  \/ RunTool(c)
  \/ LogToolCall(c)
  \/ CommitCall(c)
  \/ OpenWhoami(c)
  \/ AnswerWhoami(c)

Next ==
  \/ \E c \in Calls : Arrive(c) \/ Resolve(c) \/ Serve(c) \/ FailCall(c)
  \/ \E v \in Revokes : UpdateRevoked(v) \/ CommitRevoked(v) \/ FailRevoke(v)
  \/ \E t \in Tokens : Expire(t)

Spec == Init /\ [][Next]_vars

\* The server carries on every call it has accepted, and an open
\* revocation is ended.
FairSpec == /\ Spec
            /\ \A c \in Calls : WF_vars(Resolve(c) \/ Serve(c))
            /\ \A v \in Revokes : WF_vars(CommitRevoked(v))

---------------------------------------------------------------------------

HoldsConn == {"selected", "touching", "touched", "running", "ran", "logged", "asking"}

Labels == Over \cup HoldsConn \cup {"arrived", "matched", "resolved", "ready", "revoking"}

\* Scopes are souls, identities are tokens, locks belong to requests.
TypeOK ==
  /\ pc \in [Requests -> Labels]
  /\ kind \in [Calls -> Kinds]
  /\ token \in [Requests -> Tokens \cup {NoToken}]
  /\ found \in [Calls -> BOOLEAN]
  /\ identity \in [Calls -> Tokens \cup {NoToken}]
  /\ conn \in [Calls -> Conns \cup {NoConn}]
  /\ scope \in [Conns -> Souls \cup {NoSoul}]
  /\ rowLock \in [Tokens -> Requests \cup {Nobody}]
  /\ pending \in [Calls -> Souls \cup {NoSoul}]
  /\ written \in SUBSET [of : Calls, soul : Souls]
  /\ audit \in SUBSET Entry
  /\ touched \in SUBSET Tokens
  /\ revoked \in SUBSET Tokens
  /\ expired \in SUBSET Tokens
  /\ late \in SUBSET Calls

---------------------------------------------------------------------------
(* The invariant that carries the proofs.                                  *)

Unscoped == {"selected", "touching", "touched", "asking"}

Scoped == {"running", "ran", "logged"}

\* A call holds a connection exactly while a session of it is open, and no
\* two calls hold the same one.
OneHolder ==
  /\ \A c \in Calls : conn[c] # NoConn <=> pc[c] \in HoldsConn
  /\ \A c, d \in Calls : conn[c] = conn[d] /\ conn[c] # NoConn => c = d

\* An identity is that of the token the call came with, found unrevoked.
IdentityIsChecked ==
  \A c \in Calls :
    /\ identity[c] # NoToken => found[c] /\ identity[c] = token[c] /\ token[c] \in touched
    /\ found[c] => token[c] \in Tokens /\ c \notin late
    /\ pc[c] \in {"matched", "touching", "touched"} => found[c]
    /\ pc[c] \in Scoped \cup {"ready", "asking", "done"} => identity[c] # NoToken
    /\ pc[c] \in {"idle", "arrived"} => ~found[c]
    /\ pc[c] \in {"selected", "matched", "touching", "touched"} => identity[c] = NoToken
    /\ c \in late => pc[c] # "idle" /\ token[c] \in revoked
    /\ pc[c] \in Scoped => kind[c] # "whoami"
    /\ pc[c] = "asking" => kind[c] = "whoami"
    /\ pc[c] \in Scoped \cup {"ready", "done"} /\ kind[c] = "write" => token[c] \notin ReadOnly

---------------------------------------------------------------------------

\* The statements of a tool run under the row-level-security context of the
\* caller's soul, those of any other session under none: no connection keeps
\* a context in the pool, however its last session ended.
ScopeIsOwn ==
  /\ \A c \in Calls : pc[c] \in Scoped => scope[conn[c]] = SoulOf[identity[c]]
  /\ \A c \in Calls : pc[c] \in Unscoped => scope[conn[c]] = NoSoul
  /\ \A k \in Free : scope[k] = NoSoul

Audited(r) == \E a \in audit : a.of = r

\* What tools have written is what the audit log says, and its entries are
\* the finished tool calls and web revocations, each under its own soul.
AuditMatchesWork ==
  /\ written = {a \in audit : a.of \in Calls}
  /\ \A r \in Requests :
       Audited(r) <=> pc[r] = "done" /\ \/ r \in WebRevokes
                                        \/ r \in Calls /\ kind[r] # "whoami"
  /\ \A a \in audit : a.soul = SoulOf[token[a.of]]

\* A call that arrives after its token's revocation gets nothing done,
\* whatever was under way with that token before.
RevokedStaysOut == \A c \in late : pc[c] # "done"

\* A call that wrote anything has been seen by last_used_at, and a token
\* without the scope "write" never gets a writing tool done.
WritesAreAccounted ==
  \A w \in written : /\ token[w.of] \in touched
                     /\ kind[w.of] = "write" => token[w.of] \notin ReadOnly

\* How far a call has come, of which the sessions it opened on the way show
\* nothing.
Stage(c) ==
  CASE pc[c] = "idle"     -> "away"
    [] pc[c] = "arrived"  -> "unknown"
    [] pc[c] = "selected" -> IF found[c] THEN "known" ELSE "unknown"
    [] pc[c] \in {"matched", "touching", "touched"} -> "valid"
    [] pc[c] = "resolved" -> IF identity[c] # NoToken THEN "admitted"
                             ELSE IF found[c] THEN "known" ELSE "unknown"
    [] pc[c] = "done"     -> "served"
    [] pc[c] \in {"refused", "failed"} -> "gone"
    [] OTHER              -> "admitted"

\* Three sessions, a pool and the locks of other transactions together are a
\* gate: who is served has shown a token after coming, neither revoked nor
\* expired then and on record as used, and its work and its audit entry are
\* one step.
Gate == INSTANCE CallGate
          WITH Logged <- WebRevokes, tool <- kind, used <- touched, work <- written, log <- audit,
               stage <- [c \in Calls |-> Stage(c)],
               bearer <- [c \in Calls |-> token[c]]

KeepsTheGate == Gate!Spec

PendingIsOwn == \A c \in Calls : pc[c] \in {"ran", "logged"} => pending[c] = SoulOf[identity[c]]

RevokesAToken == \A v \in Revokes : pc[v] = "revoking" => token[v] \in Tokens

CallInv ==
  /\ TypeOK
  /\ RevokesAToken
  /\ OneHolder
  /\ IdentityIsChecked
  /\ ScopeIsOwn
  /\ PendingIsOwn
  /\ AuditMatchesWork

\* Only the open UPDATE of a token's row, of last_used_at or of revoked_at,
\* has locked it.
LocksOfUpdates ==
  \A t \in Tokens : rowLock[t] # Nobody =>
    pc[rowLock[t]] \in {"touched", "revoking"} /\ token[rowLock[t]] = t

\* A revocation asks for no connection of the pool, and a call revokes nothing.
PlacesOfKind ==
  /\ \A c \in Calls : pc[c] # "revoking"
  /\ \A v \in Revokes : pc[v] \in {"idle", "revoking", "done", "failed"}

WaitInv == CallInv /\ LocksOfUpdates /\ PlacesOfKind

---------------------------------------------------------------------------

Open(r) == pc[r] \notin Over

AsksConn(r) == pc[r] \in {"matched", "ready"} \/ (pc[r] = "arrived" /\ token[r] # NoToken)

\* Whom r waits for: those who hold the connections when none is free, or
\* the one who has updated the row of its token.
WaitsFor(r) ==
  {q \in Requests :
     \/ AsksConn(r) /\ Free = {} /\ q \in Calls /\ conn[q] # NoConn
     \/ pc[r] = "touching" /\ q = rowLock[token[r]]}

\* Whoever waits, waits for open requests, and what those wait for, if for
\* anything, are open ones that wait for nobody: so, in a pool of at least one
\* connection, some open request can always move on.
NobodyStuck ==
  \A r \in Requests : Open(r) =>
    /\ AsksConn(r) /\ Free = {} /\ Conns # {} => WaitsFor(r) # {}
    /\ pc[r] = "touching" /\ rowLock[token[r]] # Nobody => WaitsFor(r) # {}
    /\ \A q \in WaitsFor(r) :
         Open(q) /\ \A p \in WaitsFor(q) : Open(p) /\ WaitsFor(p) = {}

\* The most steps that are left of a call that stands at label.
StepsLeft(label) ==
  CASE label = "arrived"  -> 10
    [] label = "selected" -> 9
    [] label = "matched"  -> 8
    [] label = "touching" -> 7
    [] label = "touched"  -> 6
    [] label = "resolved" -> 5
    [] label = "ready"    -> 4
    [] label = "running"  -> 3
    [] label = "ran"      -> 2
    [] label \in {"logged", "asking"} -> 1
    [] OTHER -> 0

\* No step of another request adds to what a call has to do, and each of its
\* own takes something away: a call is over within ten steps of its own.
EachStepCounts ==
  [][ \A c \in Calls : Open(c) =>
        /\ StepsLeft(pc[c]) > 0
        /\ \/ StepsLeft(pc'[c]) < StepsLeft(pc[c])
           \/ UNCHANGED <<pc[c], token[c], kind[c], found[c], identity[c], conn[c], pending[c]>> ]_vars

\* No set of calls makes one wait for ever: none asks the pool for a second
\* connection while it holds one, and who waits for a row holds its own.
EveryCallEnds ==
  \A c \in Calls : pc[c] = "arrived" ~> pc[c] \in {"done", "refused", "failed"}

=============================================================================
