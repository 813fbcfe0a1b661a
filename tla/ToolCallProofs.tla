-------------------------- MODULE ToolCallProofs --------------------------
(***************************************************************************)
(* Proofs about ToolCall for every number of calls, revocations, tokens,   *)
(* souls and connections.                                                  *)
(***************************************************************************)
EXTENDS ToolCall, TLAPS

CallStep(c) == Arrive(c) \/ Resolve(c) \/ Serve(c) \/ FailCall(c)

RevokeStep(v) == UpdateRevoked(v) \/ CommitRevoked(v) \/ FailRevoke(v)

---------------------------------------------------------------------------
(* Frames: what a step leaves alone.                                       *)

\* A call's step changes no other request and no revocation or expiry.
LEMMA CallFrame ==
  ASSUME TypeOK, NEW c \in Calls, CallStep(c)
  PROVE  /\ \A r \in Requests \ {c} : pc'[r] = pc[r] /\ token'[r] = token[r]
         /\ \A d \in Calls \ {c} : /\ kind'[d] = kind[d]
                                   /\ found'[d] = found[d]
                                   /\ identity'[d] = identity[d]
                                   /\ conn'[d] = conn[d]
                                   /\ pending'[d] = pending[d]
         /\ UNCHANGED <<revoked, expired>>
<1> USE DEF TypeOK, Goto, callVars, tokenVars, Requests
<1>1. CASE Arrive(c)
  BY <1>1 DEF Arrive
<1>2. CASE Resolve(c)
  BY <1>2 DEF Resolve, NoBearer, SelectCandidates, VerifyCandidates, OpenTouch, Touch,
              CommitTouch, Checkout, Checkin
<1>3. CASE Serve(c)
  BY <1>3 DEF Serve, Require, OpenScoped, RunTool, LogToolCall, CommitCall, OpenWhoami,
              AnswerWhoami, Checkout, Checkin
<1>4. CASE FailCall(c)
  BY <1>4 DEF FailCall, Checkin
<1> QED
  BY <1>1, <1>2, <1>3, <1>4 DEF CallStep

\* A revocation's step changes no call and no connection.
LEMMA RevokeFrame ==
  ASSUME TypeOK, NEW v \in Revokes, RevokeStep(v)
  PROVE  /\ \A r \in Requests \ {v} : pc'[r] = pc[r] /\ token'[r] = token[r]
         /\ UNCHANGED <<callVars, conn, scope, pending, written, touched, expired, late>>
  BY DEF RevokeStep, UpdateRevoked, CommitRevoked, FailRevoke, TypeOK, Goto, Requests,
         callVars, tokenVars

---------------------------------------------------------------------------
(* Types.                                                                  *)

\* Every step of a call keeps the types.
LEMMA CallTypeOK ==
  ASSUME TypeOK, IdentityIsChecked, PendingIsOwn, NEW c \in Calls, CallStep(c)
  PROVE  TypeOK'
<1> USE DEF TypeOK, Goto, callVars, tokenVars, Requests, Labels, Over, HoldsConn
<1>1. CASE Arrive(c)
  <2>1. PICK t \in Tokens \cup {NoToken}, tool \in Kinds :
          /\ token' = [token EXCEPT ![c] = t]
          /\ kind' = [kind EXCEPT ![c] = tool]
          /\ late' = IF t \in revoked THEN late \cup {c} ELSE late
    BY <1>1 DEF Arrive
  <2>2. late' \in SUBSET Calls /\ kind' \in [Calls -> Kinds]
    BY <2>1
  <2>3. token' \in [Requests -> Tokens \cup {NoToken}]
    BY <2>1
  <2>4. /\ pc' = [pc EXCEPT ![c] = "arrived"]
        /\ UNCHANGED <<found, identity, conn, scope, rowLock, pending, written, audit, tokenVars>>
    BY <1>1 DEF Arrive
  <2>5. pc' \in [Requests -> Labels]
    BY <2>4
  <2> QED
    BY <2>2, <2>3, <2>4, <2>5
<1>2. CASE NoBearer(c) \/ OpenTouch(c) \/ Touch(c)
  BY <1>2 DEF NoBearer, OpenTouch, Touch, Checkout, Free
<1>9. CASE SelectCandidates(c)
  <2>1. \E b \in BOOLEAN : found' = [found EXCEPT ![c] = b]
    <3>1. PICK b : b = (token[c] \in Tokens \ revoked)
      OBVIOUS
    <3>2. b \in BOOLEAN
      BY <3>1
    <3>3. found' = [found EXCEPT ![c] = b]
      BY <1>9, <3>1, Zenon DEF SelectCandidates
    <3> QED
      BY <3>2, <3>3
  <2>2. found' \in [Calls -> BOOLEAN]
    BY <2>1
  <2> QED
    BY <1>9, <2>2 DEF SelectCandidates, Checkout, Free
<1>3. CASE VerifyCandidates(c) \/ AnswerWhoami(c)
  BY <1>3 DEF VerifyCandidates, AnswerWhoami, Checkin
<1>4. CASE CommitTouch(c)
  BY <1>4 DEF CommitTouch, Checkin, Unlock, IdentityIsChecked
<1>5. CASE Require(c) \/ OpenWhoami(c) \/ LogToolCall(c)
  BY <1>5 DEF Require, OpenWhoami, LogToolCall, Checkout, Free
<1>6. CASE OpenScoped(c) \/ RunTool(c)
  <2>1. SoulOf[identity[c]] \in Souls
    BY <1>6, ConstantsAssumption DEF OpenScoped, RunTool, IdentityIsChecked, Scoped
  <2> QED
    BY <1>6, <2>1 DEF OpenScoped, RunTool, Checkout, Free
<1>7. CASE CommitCall(c)
  <2>1. SoulOf[identity[c]] \in Souls
    BY <1>7, ConstantsAssumption DEF CommitCall, IdentityIsChecked, Scoped
  <2>2. pending[c] = SoulOf[identity[c]]
    BY <1>7 DEF CommitCall, PendingIsOwn
  <2> QED
    BY <1>7, <2>1, <2>2 DEF CommitCall, Checkin, Entry
<1>8. CASE FailCall(c)
  BY <1>8 DEF FailCall, Checkin, Unlock
<1> QED
  BY <1>1, <1>2, <1>3, <1>4, <1>5, <1>6, <1>7, <1>8, <1>9 DEF CallStep, Resolve, Serve

\* Every step of a revocation keeps the types.
LEMMA RevokeTypeOK ==
  ASSUME TypeOK, NEW v \in Revokes, RevokeStep(v),
         pc[v] = "revoking" => token[v] \in Tokens
  PROVE  TypeOK'
<1> USE DEF TypeOK, Goto, callVars, tokenVars, Requests, Labels, Over, HoldsConn
<1>1. CASE UpdateRevoked(v)
  BY <1>1 DEF UpdateRevoked
<1>2. CASE CommitRevoked(v)
  BY <1>2, ConstantsAssumption DEF CommitRevoked, Unlock, Entry
<1>3. CASE FailRevoke(v)
  BY <1>3 DEF FailRevoke, Unlock
<1> QED
  BY <1>1, <1>2, <1>3 DEF RevokeStep


---------------------------------------------------------------------------
(* The conjuncts of CallInv under a call's step.                           *)

\* Connections are taken from the free ones and given back with the session.
LEMMA CallOneHolder ==
  ASSUME TypeOK, OneHolder, NEW c \in Calls, CallStep(c)
  PROVE  OneHolder'
<1>1. /\ \A r \in Requests \ {c} : pc'[r] = pc[r]
      /\ \A d \in Calls \ {c} : conn'[d] = conn[d]
  BY CallFrame
<1>2. conn'[c] # NoConn <=> pc'[c] \in HoldsConn
  <2> USE DEF TypeOK, OneHolder, Goto, Requests, HoldsConn, Over, callVars
  <2>1. CASE Arrive(c) \/ NoBearer(c) \/ Touch(c) \/ Require(c) \/ RunTool(c) \/ LogToolCall(c)
    BY <2>1 DEF Arrive, NoBearer, Touch, Require, RunTool, LogToolCall
  <2>2. CASE SelectCandidates(c) \/ OpenTouch(c) \/ OpenScoped(c) \/ OpenWhoami(c)
    BY <2>2, ConstantsAssumption DEF SelectCandidates, OpenTouch, OpenScoped, OpenWhoami, Checkout, Free
  <2>3. CASE VerifyCandidates(c) \/ CommitTouch(c) \/ CommitCall(c) \/ AnswerWhoami(c) \/ FailCall(c)
    BY <2>3 DEF VerifyCandidates, CommitTouch, CommitCall, AnswerWhoami, FailCall, Checkin
  <2> QED
    BY <2>1, <2>2, <2>3 DEF CallStep, Resolve, Serve
<1>3. conn'[c] = conn[c] \/ conn'[c] = NoConn \/ conn'[c] \in Free
  BY DEF CallStep, Arrive, Resolve, NoBearer, SelectCandidates, VerifyCandidates, OpenTouch,
         Touch, CommitTouch, Serve, Require, OpenScoped, RunTool, LogToolCall, CommitCall,
         OpenWhoami, AnswerWhoami, FailCall, Checkout, Checkin, TypeOK
<1>4. \A d \in Calls \ {c} : conn'[d] = conn'[c] => conn'[d] = NoConn
  BY <1>1, <1>3 DEF OneHolder, Free
<1> QED
  BY <1>1, <1>2, <1>4 DEF OneHolder, Requests

\* The identity is set by CommitTouch alone, from a candidate that was found.
LEMMA CallIdentity ==
  ASSUME TypeOK, IdentityIsChecked, NEW c \in Calls, CallStep(c)
  PROVE  IdentityIsChecked'
<1> DEFINE Checked(d) ==
      /\ identity[d] # NoToken => found[d] /\ identity[d] = token[d] /\ token[d] \in touched
      /\ found[d] => token[d] \in Tokens /\ d \notin late
      /\ pc[d] \in {"matched", "touching", "touched"} => found[d]
      /\ pc[d] \in Scoped \cup {"ready", "asking", "done"} => identity[d] # NoToken
      /\ pc[d] \in {"idle", "arrived"} => ~found[d]
      /\ pc[d] \in {"selected", "matched", "touching", "touched"} => identity[d] = NoToken
      /\ d \in late => pc[d] # "idle" /\ token[d] \in revoked
      /\ pc[d] \in Scoped => kind[d] # "whoami"
      /\ pc[d] = "asking" => kind[d] = "whoami"
      /\ pc[d] \in Scoped \cup {"ready", "done"} /\ kind[d] = "write" => token[d] \notin ReadOnly
<1>1. \A d \in Calls \ {c} : /\ kind'[d] = kind[d] /\ found'[d] = found[d]
                             /\ identity'[d] = identity[d]
                             /\ pc'[d] = pc[d] /\ token'[d] = token[d]
  BY CallFrame DEF Requests
<1>2. touched \subseteq touched' /\ late' \subseteq late \cup {c} /\ revoked' = revoked
  BY DEF CallStep, Arrive, Resolve, NoBearer, SelectCandidates, VerifyCandidates, OpenTouch,
         Touch, CommitTouch, Serve, Require, OpenScoped, RunTool, LogToolCall, CommitCall,
         OpenWhoami, AnswerWhoami, FailCall, tokenVars
<1>3. \A d \in Calls \ {c} : Checked(d)'
  <2> TAKE d \in Calls \ {c}
  <2>1. Checked(d)
    BY DEF IdentityIsChecked
  <2> QED
    BY <1>1, <1>2, <2>1
<1>4. Checked(c)
  BY DEF IdentityIsChecked
<1>5. Checked(c)'
  <2> USE DEF TypeOK, Goto, Requests, Scoped, Over, callVars, tokenVars
  <2>1. CASE Arrive(c)
    <3>1. /\ pc[c] = "idle" /\ pc'[c] = "arrived"
          /\ UNCHANGED <<found, identity, touched, revoked>>
          /\ c \in late' => token'[c] \in revoked
      BY <1>4, <2>1 DEF Arrive
    <3> QED
      BY <1>4, <3>1
  <2>2. CASE NoBearer(c) \/ OpenTouch(c) \/ Touch(c)
    BY <1>4, <2>2 DEF NoBearer, OpenTouch, Touch
  <2>3. CASE SelectCandidates(c)
    <3>1. found'[c] <=> token[c] \in Tokens \ revoked
      BY <2>3, Zenon DEF SelectCandidates
    <3>2. /\ pc[c] = "arrived" /\ pc'[c] = "selected"
          /\ UNCHANGED <<token, kind, identity, touched, revoked, late>>
      BY <2>3 DEF SelectCandidates
    <3> QED
      BY <1>4, <3>1, <3>2
  <2>4. CASE VerifyCandidates(c)
    BY <1>4, <2>4 DEF VerifyCandidates
  <2>5. CASE CommitTouch(c)
    BY <1>4, <2>5 DEF CommitTouch
  <2>6. CASE Require(c)
    BY <1>4, <2>6 DEF Require
  <2>7. CASE OpenScoped(c) \/ RunTool(c) \/ LogToolCall(c)
    BY <1>4, <2>7 DEF OpenScoped, RunTool, LogToolCall
  <2>8. CASE CommitCall(c) \/ OpenWhoami(c) \/ AnswerWhoami(c)
    BY <1>4, <2>8 DEF CommitCall, OpenWhoami, AnswerWhoami
  <2>9. CASE FailCall(c)
    BY <1>4, <2>9 DEF FailCall
  <2> QED
    BY <2>1, <2>2, <2>3, <2>4, <2>5, <2>6, <2>7, <2>8, <2>9 DEF CallStep, Resolve, Serve
<1> QED
  BY <1>3, <1>5 DEF IdentityIsChecked

\* A connection is scoped by the call that opens it and cleared when its
\* transaction ends; no one else holds it in between.
LEMMA CallScope ==
  ASSUME TypeOK, OneHolder, IdentityIsChecked, ScopeIsOwn, NEW c \in Calls, CallStep(c)
  PROVE  ScopeIsOwn'
<1> DEFINE Fits(d) ==
      /\ pc[d] \in Scoped => scope[conn[d]] = SoulOf[identity[d]]
      /\ pc[d] \in Unscoped => scope[conn[d]] = NoSoul
<1>1. /\ \A r \in Requests \ {c} : pc'[r] = pc[r]
      /\ \A d \in Calls \ {c} : conn'[d] = conn[d] /\ identity'[d] = identity[d]
  BY CallFrame
<1>2. Fits(c) /\ \A k \in Free : scope[k] = NoSoul
  BY DEF ScopeIsOwn
<1>3. /\ Fits(c)'
      /\ \A k \in Conns : scope'[k] = scope[k] \/ k = conn[c] \/ k = conn'[c]
      /\ conn'[c] = conn[c] \/ conn'[c] \in Free \/ conn'[c] = NoConn
      /\ conn'[c] # conn[c] /\ conn[c] \in Conns => scope'[conn[c]] = NoSoul
  <2> USE DEF TypeOK, Goto, Requests, Scoped, Unscoped, Over, HoldsConn, callVars, OneHolder
  <2>1. CASE Arrive(c) \/ NoBearer(c) \/ Require(c)
    BY <1>2, <2>1 DEF Arrive, NoBearer, Require
  <2>2. CASE Touch(c) \/ RunTool(c) \/ LogToolCall(c)
    BY <1>2, <2>2 DEF Touch, RunTool, LogToolCall
  <2>3. CASE SelectCandidates(c) \/ OpenTouch(c) \/ OpenWhoami(c)
    BY <1>2, <2>3, ConstantsAssumption DEF SelectCandidates, OpenTouch, OpenWhoami, Checkout, Free
  <2>4. CASE OpenScoped(c)
    BY <1>2, <2>4, ConstantsAssumption DEF OpenScoped, Checkout, Free
  <2>5. CASE VerifyCandidates(c) \/ AnswerWhoami(c) \/ FailCall(c)
    BY <1>2, <2>5, ConstantsAssumption DEF VerifyCandidates, AnswerWhoami, FailCall, Checkin
  <2>6. CASE CommitTouch(c) \/ CommitCall(c)
    BY <1>2, <2>6, ConstantsAssumption DEF CommitTouch, CommitCall, Checkin
  <2> QED
    BY <2>1, <2>2, <2>3, <2>4, <2>5, <2>6 DEF CallStep, Resolve, Serve
<1>4. \A d \in Calls \ {c} : Fits(d)'
  <2> TAKE d \in Calls \ {c}
  <2>1. CASE pc[d] \in HoldsConn
    <3>1. conn[d] \in Conns /\ conn[d] # conn[c] /\ conn[d] \notin Free
      BY <2>1 DEF OneHolder, TypeOK, Free
    <3>2. conn[d] # conn'[c]
      BY <1>3, <3>1, ConstantsAssumption
    <3>3. scope'[conn'[d]] = scope[conn[d]]
      BY <1>1, <1>3, <3>1, <3>2
    <3>4. Fits(d)
      BY DEF ScopeIsOwn
    <3> QED
      BY <1>1, <3>3, <3>4 DEF Requests
  <2>2. CASE pc[d] \notin HoldsConn
    BY <1>1, <2>2 DEF Requests, HoldsConn, Scoped, Unscoped
  <2> QED
    BY <2>1, <2>2
<1>5. \A k \in Free' : scope'[k] = NoSoul
  <2> TAKE k \in Free'
  <2>1. k \in Conns /\ k # conn'[c] /\ \A d \in Calls \ {c} : k # conn[d]
    BY <1>1 DEF Free
  <2>2. CASE k = conn[c]
    BY <1>3, <2>1, <2>2
  <2>3. CASE k # conn[c]
    BY <1>2, <1>3, <2>1, <2>3 DEF Free
  <2> QED
    BY <2>2, <2>3
<1> QED
  BY <1>3, <1>4, <1>5 DEF ScopeIsOwn

\* What a call has written, not yet committed, is of its own soul.
LEMMA CallPending ==
  ASSUME TypeOK, PendingIsOwn, NEW c \in Calls, CallStep(c)
  PROVE  PendingIsOwn'
<1>1. /\ \A r \in Requests \ {c} : pc'[r] = pc[r]
      /\ \A d \in Calls \ {c} : pending'[d] = pending[d] /\ identity'[d] = identity[d]
  BY CallFrame
<1>2. pc'[c] \in {"ran", "logged"} => pending'[c] = SoulOf[identity'[c]]
  BY DEF CallStep, Arrive, Resolve, NoBearer, SelectCandidates, VerifyCandidates, OpenTouch,
         Touch, CommitTouch, Serve, Require, OpenScoped, RunTool, LogToolCall, CommitCall,
         OpenWhoami, AnswerWhoami, FailCall, TypeOK, PendingIsOwn, Goto, Requests, callVars
<1> QED
  BY <1>1, <1>2 DEF PendingIsOwn, Requests

\* Only CommitCall writes, and it writes the row and its audit entry at once.
LEMMA CallAudit ==
  ASSUME TypeOK, IdentityIsChecked, PendingIsOwn, AuditMatchesWork,
         NEW c \in Calls, CallStep(c)
  PROVE  AuditMatchesWork'
<1>1. /\ \A r \in Requests \ {c} : pc'[r] = pc[r] /\ token'[r] = token[r]
      /\ \A d \in Calls \ {c} : kind'[d] = kind[d]
  BY CallFrame
<1>2. /\ c \notin Revokes /\ c \notin WebRevokes /\ c \in Requests
      /\ \A r \in Requests : r \in WebRevokes => r # c
      /\ \A a \in audit : a.of \in Requests
      /\ written = {a \in audit : a.of \in Calls}
      /\ \A a \in audit : a.soul = SoulOf[token[a.of]]
      /\ \A r \in Requests : (\E a \in audit : a.of = r) <=>
           pc[r] = "done" /\ (r \in WebRevokes \/ (r \in Calls /\ kind[r] # "whoami"))
  BY ConstantsAssumption DEF Requests, Revokes, AuditMatchesWork, Audited, TypeOK, Entry
<1>3. CASE CommitCall(c)
  <2> DEFINE new == [of |-> c, soul |-> SoulOf[identity[c]]]
  <2>1. /\ audit' = audit \cup {new} /\ written' = written \cup {new}
        /\ pc'[c] = "done" /\ kind' = kind /\ token' = token
    BY <1>3 DEF CommitCall, PendingIsOwn, Goto, TypeOK, Requests, callVars
  <2>2. kind[c] # "whoami" /\ identity[c] = token[c]
    BY <1>3 DEF CommitCall, IdentityIsChecked, Scoped
  <2>3. new.of = c /\ new.soul = SoulOf[token[c]]
    BY <2>2
  <2> HIDE DEF new
  <2>4. written' = {a \in audit' : a.of \in Calls}
    BY <1>2, <2>1, <2>3
  <2>5. \A a \in audit' : a.soul = SoulOf[token'[a.of]]
    BY <1>2, <2>1, <2>3
  <2>6. ASSUME NEW r \in Requests
        PROVE  (\E a \in audit' : a.of = r) <=>
                 pc'[r] = "done" /\ (r \in WebRevokes \/ (r \in Calls /\ kind'[r] # "whoami"))
    BY <1>1, <1>2, <2>1, <2>2, <2>3
  <2> QED
    BY <2>4, <2>5, <2>6 DEF AuditMatchesWork, Audited
<1>4. CASE ~CommitCall(c)
  <2>1. UNCHANGED <<written, audit>>
    BY <1>4 DEF CallStep, Arrive, Resolve, NoBearer, SelectCandidates, VerifyCandidates,
         OpenTouch, Touch, CommitTouch, Serve, Require, OpenScoped, RunTool, LogToolCall,
         OpenWhoami, AnswerWhoami, FailCall
  <2>2. pc[c] # "done" /\ (pc'[c] = "done" => kind'[c] = "whoami")
    BY <1>4 DEF CallStep, Arrive, Resolve, NoBearer, SelectCandidates, VerifyCandidates,
         OpenTouch, Touch, CommitTouch, Serve, Require, OpenScoped, RunTool, LogToolCall,
         OpenWhoami, AnswerWhoami, FailCall, TypeOK, Goto, Over, IdentityIsChecked, callVars,
         Requests
  <2>3. \A a \in audit : a.of # c
    BY <1>2, <2>2
  <2>4. \A a \in audit : token'[a.of] = token[a.of]
    BY <1>1, <1>2, <2>3
  <2>5. ASSUME NEW r \in Requests
        PROVE  (\E a \in audit' : a.of = r) <=>
                 pc'[r] = "done" /\ (r \in WebRevokes \/ (r \in Calls /\ kind'[r] # "whoami"))
    <3>1. CASE r = c
      BY <1>2, <2>1, <2>2, <2>3, <3>1
    <3>2. CASE r # c
      BY <1>1, <1>2, <2>1, <3>2
    <3> QED
      BY <3>1, <3>2
  <2> QED
    BY <1>2, <2>1, <2>4, <2>5 DEF AuditMatchesWork, Audited
<1> QED
  BY <1>3, <1>4

---------------------------------------------------------------------------
(* CallInv under every step, and the theorems.                             *)

\* A step of a call preserves the invariant.
LEMMA CallStepInv ==
  ASSUME CallInv, NEW c \in Calls, CallStep(c)
  PROVE  CallInv'
<1> USE DEF CallInv
<1>1. RevokesAToken'
  BY CallFrame, ConstantsAssumption DEF RevokesAToken, Requests, Revokes
<1> QED
  BY <1>1, CallTypeOK, CallOneHolder, CallIdentity, CallScope, CallPending, CallAudit

\* A step of a revocation preserves the invariant.
LEMMA RevokeStepInv ==
  ASSUME CallInv, NEW v \in Revokes, RevokeStep(v)
  PROVE  CallInv'
<1> USE DEF CallInv
<1>1. /\ \A r \in Requests \ {v} : pc'[r] = pc[r] /\ token'[r] = token[r]
      /\ UNCHANGED <<callVars, conn, scope, pending, written, touched, expired, late>>
  BY RevokeFrame
<1>2. /\ v \notin Calls /\ v \in Requests
      /\ \A d \in Calls : d \in Requests \ {v}
      /\ \A u \in Revokes : u \in Requests
  BY ConstantsAssumption DEF Requests, Revokes
<1>3. revoked \subseteq revoked'
  BY DEF RevokeStep, UpdateRevoked, CommitRevoked, FailRevoke, tokenVars
<1>4. TypeOK'
  BY RevokeTypeOK DEF RevokesAToken
<1>5. RevokesAToken'
  <2>1. pc'[v] = "revoking" => token'[v] \in Tokens
    BY <1>2 DEF RevokeStep, UpdateRevoked, CommitRevoked, FailRevoke, Goto, TypeOK
  <2> QED
    BY <1>1, <1>2, <2>1 DEF RevokesAToken
<1>6. OneHolder'
  BY <1>1, <1>2 DEF OneHolder
<1>7. IdentityIsChecked'
  BY <1>1, <1>2, <1>3 DEF IdentityIsChecked, callVars
<1>8. ScopeIsOwn'
  BY <1>1, <1>2 DEF ScopeIsOwn, Free, callVars
<1>9. PendingIsOwn'
  BY <1>1, <1>2 DEF PendingIsOwn, callVars
<1>10. AuditMatchesWork'
  <2>1. /\ \A a \in audit : a.of \in Requests
        /\ written = {a \in audit : a.of \in Calls}
        /\ \A a \in audit : a.soul = SoulOf[token[a.of]]
        /\ \A r \in Requests : (\E a \in audit : a.of = r) <=>
             pc[r] = "done" /\ (r \in WebRevokes \/ (r \in Calls /\ kind[r] # "whoami"))
    BY DEF AuditMatchesWork, Audited, TypeOK, Entry
  <2>2. CASE CommitRevoked(v) /\ v \in WebRevokes
    <3> DEFINE new == [of |-> v, soul |-> SoulOf[token[v]]]
    <3>1. audit' = audit \cup {new} /\ pc'[v] = "done" /\ token' = token
      BY <1>2, <2>2 DEF CommitRevoked, Goto, TypeOK
    <3>2. new.of = v /\ new.soul = SoulOf[token[v]]
      OBVIOUS
    <3> HIDE DEF new
    <3>3. written' = {a \in audit' : a.of \in Calls}
      BY <1>1, <1>2, <2>1, <3>1, <3>2
    <3>4. \A a \in audit' : a.soul = SoulOf[token'[a.of]]
      BY <2>1, <3>1, <3>2
    <3>5. ASSUME NEW r \in Requests
          PROVE  (\E a \in audit' : a.of = r) <=>
                   pc'[r] = "done" /\ (r \in WebRevokes \/ (r \in Calls /\ kind'[r] # "whoami"))
      BY <1>1, <1>2, <2>1, <2>2, <3>1, <3>2 DEF callVars
    <3> QED
      BY <3>3, <3>4, <3>5 DEF AuditMatchesWork, Audited
  <2>3. CASE ~(CommitRevoked(v) /\ v \in WebRevokes)
    <3>1. audit' = audit /\ pc[v] # "done" /\ (pc'[v] = "done" => v \notin WebRevokes)
      BY <1>2, <2>3 DEF RevokeStep, UpdateRevoked, CommitRevoked, FailRevoke, Goto, TypeOK
    <3>2. \A a \in audit : a.of # v
      BY <1>2, <2>1, <3>1
    <3>3. ASSUME NEW r \in Requests
          PROVE  (\E a \in audit' : a.of = r) <=>
                   pc'[r] = "done" /\ (r \in WebRevokes \/ (r \in Calls /\ kind'[r] # "whoami"))
      BY <1>1, <1>2, <2>1, <3>1, <3>2 DEF callVars
    <3>4. \A a \in audit' : a.soul = SoulOf[token'[a.of]]
      BY <1>1, <2>1, <3>1, <3>2
    <3> QED
      BY <1>1, <2>1, <3>1, <3>3, <3>4 DEF AuditMatchesWork, Audited
  <2> QED
    BY <2>2, <2>3
<1> QED
  BY <1>4, <1>5, <1>6, <1>7, <1>8, <1>9, <1>10

\* The invariant holds in every behaviour, whatever the number of calls,
\* revocations, tokens, souls and connections.
THEOREM CallInvariant == Spec => []CallInv
<1>1. Init => CallInv
  <2> SUFFICES ASSUME Init PROVE CallInv
    OBVIOUS
  <2> USE ConstantsAssumption DEF Init, Requests
  <2>1. TypeOK /\ RevokesAToken
    BY DEF TypeOK, RevokesAToken, Labels, Over, Kinds, Revokes
  <2>2. OneHolder /\ IdentityIsChecked /\ PendingIsOwn
    BY DEF OneHolder, IdentityIsChecked, PendingIsOwn, HoldsConn, Scoped
  <2>3. ScopeIsOwn
    BY DEF ScopeIsOwn, Free, Scoped, Unscoped
  <2>4. AuditMatchesWork
    BY DEF AuditMatchesWork, Audited
  <2> QED
    BY <2>1, <2>2, <2>3, <2>4 DEF CallInv
<1>2. CallInv /\ [Next]_vars => CallInv'
  <2> SUFFICES ASSUME CallInv, [Next]_vars PROVE CallInv'
    OBVIOUS
  <2>1. ASSUME NEW c \in Calls, CallStep(c) PROVE CallInv'
    BY <2>1, CallStepInv
  <2>2. ASSUME NEW v \in Revokes, RevokeStep(v) PROVE CallInv'
    BY <2>2, RevokeStepInv
  <2>3. ASSUME NEW t \in Tokens, Expire(t) PROVE CallInv'
    BY <2>3 DEF Expire, CallInv, TypeOK, RevokesAToken, OneHolder, IdentityIsChecked, ScopeIsOwn,
                PendingIsOwn, AuditMatchesWork, Audited, Free, callVars, Entry
  <2>4. CASE UNCHANGED vars
    BY <2>4 DEF vars, CallInv, TypeOK, RevokesAToken, OneHolder, IdentityIsChecked, ScopeIsOwn,
                PendingIsOwn, AuditMatchesWork, Audited, Free, callVars, tokenVars, Entry
  <2> QED
    BY <2>1, <2>2, <2>3, <2>4 DEF Next, CallStep, RevokeStep
<1> QED
  BY <1>1, <1>2, PTL DEF Spec

\* The state of calls, connections and audit has its type in every reachable
\* state, for any number of them.
THEOREM TypeCorrect == Spec => []TypeOK
<1>1. CallInv => TypeOK
  BY DEF CallInv
<1> QED
  BY <1>1, CallInvariant, PTL

\* Every tool's statements run under its caller's soul, and no context stays
\* on a connection that goes back to the pool.
THEOREM ScopesAreOwn == Spec => []ScopeIsOwn
<1>1. CallInv => ScopeIsOwn
  BY DEF CallInv
<1> QED
  BY <1>1, CallInvariant, PTL

\* The audit log and the tools' committed work always say the same.
THEOREM AuditIsTrue == Spec => []AuditMatchesWork
<1>1. CallInv => AuditMatchesWork
  BY DEF CallInv
<1> QED
  BY <1>1, CallInvariant, PTL

\* A call that arrives with a revoked token is never served.
THEOREM RevokedStayOut == Spec => []RevokedStaysOut
<1>1. CallInv => RevokedStaysOut
  BY DEF CallInv, TypeOK, IdentityIsChecked, RevokedStaysOut
<1> QED
  BY <1>1, CallInvariant, PTL

\* What is written was written with a token that is on record as used, and
\* with the scope for it.
THEOREM Accounted == Spec => []WritesAreAccounted
<1>1. CallInv => WritesAreAccounted
  <2> SUFFICES ASSUME CallInv, NEW w \in written
               PROVE  /\ token[w.of] \in touched
                      /\ kind[w.of] = "write" => token[w.of] \notin ReadOnly
    BY DEF WritesAreAccounted
  <2>1. w \in audit /\ w.of \in Calls /\ w.of \in Requests
    BY DEF CallInv, AuditMatchesWork, Requests
  <2>2. pc[w.of] = "done"
    BY <2>1 DEF CallInv, AuditMatchesWork, Audited
  <2> QED
    BY <2>1, <2>2 DEF CallInv, IdentityIsChecked
<1> QED
  BY <1>1, CallInvariant, PTL

---------------------------------------------------------------------------
(* What stands between two steps of a request.                             *)

StepOf(r) == \/ r \in Calls /\ CallStep(r)
             \/ r \in Revokes /\ RevokeStep(r)

\* A step of r gives up every lock of r, or takes one of its token's row, or
\* is none that ends an open update.
LEMMA OwnLocks ==
  ASSUME TypeOK, NEW r \in Requests, StepOf(r), NEW t \in Tokens
  PROVE  \/ /\ rowLock'[t] = rowLock[t]
            /\ rowLock[t] = r => pc[r] \notin {"touched", "revoking"}
         \/ rowLock'[t] = Nobody
         \/ rowLock'[t] = r /\ token'[r] = t /\ pc'[r] \in {"touched", "revoking"}
<1> USE ConstantsAssumption DEF TypeOK, Goto, Requests, Over, callVars, tokenVars
<1>1. CASE r \in Calls /\ Touch(r)
  BY <1>1 DEF Touch
<1>2. CASE r \in Revokes /\ UpdateRevoked(r)
  BY <1>2 DEF UpdateRevoked
<1>3. CASE r \in Calls /\ (CommitTouch(r) \/ FailCall(r))
  BY <1>3 DEF CommitTouch, FailCall, Unlock
<1>4. CASE r \in Revokes /\ (CommitRevoked(r) \/ FailRevoke(r))
  BY <1>4 DEF CommitRevoked, FailRevoke, Unlock
<1>5. CASE r \in Calls /\ CallStep(r) /\ ~(Touch(r) \/ CommitTouch(r) \/ FailCall(r))
  BY <1>5 DEF CallStep, Arrive, Resolve, NoBearer, SelectCandidates, VerifyCandidates,
              OpenTouch, Serve, Require, OpenScoped, RunTool, LogToolCall, CommitCall,
              OpenWhoami, AnswerWhoami
<1> QED
  BY <1>1, <1>2, <1>3, <1>4, <1>5 DEF StepOf, RevokeStep

\* Every lock of a token's row is that of an open update of it.
LEMMA StepLocks ==
  ASSUME TypeOK, LocksOfUpdates, NEW r \in Requests, StepOf(r)
  PROVE  LocksOfUpdates'
<1> SUFFICES ASSUME NEW t \in Tokens, rowLock'[t] # Nobody
             PROVE  pc'[rowLock'[t]] \in {"touched", "revoking"} /\ token'[rowLock'[t]] = t
  BY DEF LocksOfUpdates
<1>1. \A q \in Requests \ {r} : pc'[q] = pc[q] /\ token'[q] = token[q]
  BY CallFrame, RevokeFrame DEF StepOf
<1>2. CASE rowLock'[t] = r /\ token'[r] = t /\ pc'[r] \in {"touched", "revoking"}
  BY <1>2
<1>3. CASE /\ rowLock'[t] = rowLock[t]
           /\ rowLock[t] = r => pc[r] \notin {"touched", "revoking"}
  <2>1. pc[rowLock[t]] \in {"touched", "revoking"} /\ token[rowLock[t]] = t
    BY <1>3 DEF LocksOfUpdates
  <2>2. rowLock[t] \in Requests \ {r}
    BY <1>3, <2>1 DEF TypeOK
  <2> QED
    BY <1>1, <1>3, <2>1, <2>2
<1> QED
  BY <1>2, <1>3, OwnLocks

\* A request goes on to the places of its own kind.
LEMMA StepPlaces ==
  ASSUME TypeOK, PlacesOfKind, NEW r \in Requests, StepOf(r)
  PROVE  PlacesOfKind'
<1> USE ConstantsAssumption DEF TypeOK, Requests
<1>1. \A q \in Requests \ {r} : pc'[q] = pc[q]
  BY CallFrame, RevokeFrame DEF StepOf
<1>2. CASE r \in Calls /\ CallStep(r)
  <2>1. pc'[r] # "revoking"
    BY <1>2 DEF PlacesOfKind, CallStep, Arrive, Resolve, NoBearer, SelectCandidates,
                VerifyCandidates, OpenTouch, Touch, CommitTouch, Serve, Require, OpenScoped,
                RunTool, LogToolCall, CommitCall, OpenWhoami, AnswerWhoami, FailCall, Goto
  <2> QED
    BY <1>1, <1>2, <2>1 DEF PlacesOfKind
<1>3. CASE r \in Revokes /\ RevokeStep(r)
  <2>1. pc'[r] \in {"revoking", "done", "failed"}
    BY <1>3 DEF RevokeStep, UpdateRevoked, CommitRevoked, FailRevoke, Goto
  <2> QED
    BY <1>1, <1>3, <2>1 DEF PlacesOfKind
<1> QED
  BY <1>2, <1>3 DEF StepOf

\* The waiting invariant holds in every behaviour.
THEOREM WaitInvariant == Spec => []WaitInv
<1> DEFINE Extra == LocksOfUpdates /\ PlacesOfKind
<1>1. Init => Extra
  BY ConstantsAssumption DEF Init, LocksOfUpdates, PlacesOfKind, Requests
<1>2. CallInv /\ Extra /\ [Next]_vars => Extra'
  <2> SUFFICES ASSUME CallInv, Extra, [Next]_vars PROVE Extra'
    OBVIOUS
  <2>1. ASSUME NEW r \in Requests, StepOf(r) PROVE Extra'
    BY <2>1, StepLocks, StepPlaces DEF CallInv
  <2>2. ASSUME UNCHANGED <<pc, token, rowLock>> PROVE Extra'
    BY <2>2 DEF LocksOfUpdates, PlacesOfKind
  <2>3. ASSUME NEW t \in Tokens, Expire(t) PROVE UNCHANGED <<pc, token, rowLock>>
    BY <2>3 DEF Expire
  <2> HIDE DEF Extra
  <2> QED
    BY <2>1, <2>2, <2>3 DEF Next, vars, StepOf, CallStep, RevokeStep, Requests
<1>3. CallInv /\ Extra => WaitInv
  BY DEF WaitInv
<1> HIDE DEF Extra
<1> QED
  BY <1>1, <1>2, <1>3, CallInvariant, PTL DEF Spec

\* Nobody waits for a request that waits for more than one that can go on:
\* neither the pool nor the rows of the tokens can bring all to a halt.
THEOREM NoneIsStuck == Spec => []NobodyStuck
<1>1. WaitInv => NobodyStuck
  <2> SUFFICES ASSUME WaitInv, NEW r \in Requests, Open(r)
               PROVE  /\ AsksConn(r) /\ Free = {} /\ Conns # {} => WaitsFor(r) # {}
                      /\ pc[r] = "touching" /\ rowLock[token[r]] # Nobody => WaitsFor(r) # {}
                      /\ \A q \in WaitsFor(r) :
                           Open(q) /\ \A p \in WaitsFor(q) : Open(p) /\ WaitsFor(p) = {}
    BY DEF NobodyStuck
  <2> USE DEF WaitInv, CallInv
  <2>1. \A q \in Requests : pc[q] = "touching" => q \in Calls /\ token[q] \in Tokens
    BY DEF PlacesOfKind, IdentityIsChecked, Requests
  <2>2. \A q \in Requests, p \in Requests :
          pc[q] = "touching" /\ p = rowLock[token[q]] => Open(p) /\ WaitsFor(p) = {}
    BY <2>1, ConstantsAssumption DEF LocksOfUpdates, Open, Over, WaitsFor, AsksConn
  <2>3. \A q \in Calls : conn[q] # NoConn => Open(q) /\ ~AsksConn(q)
    BY DEF OneHolder, Open, Over, AsksConn, HoldsConn
  <2>4. \A q \in WaitsFor(r) :
           Open(q) /\ \A p \in WaitsFor(q) : Open(p) /\ WaitsFor(p) = {}
    <3> TAKE q \in WaitsFor(r)
    <3>1. CASE q \in Calls /\ conn[q] # NoConn
      <4>1. \A p \in WaitsFor(q) : p \in Requests /\ pc[q] = "touching" /\ p = rowLock[token[q]]
        BY <2>3, <3>1 DEF WaitsFor
      <4> QED
        BY <2>2, <2>3, <3>1, <4>1 DEF WaitsFor
    <3>2. CASE pc[r] = "touching" /\ q = rowLock[token[r]]
      BY <2>2, <3>2 DEF WaitsFor
    <3> QED
      BY <3>1, <3>2 DEF WaitsFor
  <2>5. pc[r] = "touching" /\ rowLock[token[r]] # Nobody => WaitsFor(r) # {}
    BY <2>1 DEF TypeOK, WaitsFor
  <2>6. AsksConn(r) /\ Free = {} /\ Conns # {} => WaitsFor(r) # {}
    BY ConstantsAssumption DEF Free, WaitsFor, TypeOK, Requests
  <2> QED
    BY <2>4, <2>5, <2>6
<1> QED
  BY <1>1, WaitInvariant, PTL

\* A call is over within ten steps of its own, whatever the others do.
THEOREM StepsCount == Spec => EachStepCounts
<1>1. WaitInv /\ [Next]_vars =>
        \A c \in Calls : Open(c) =>
          /\ StepsLeft(pc[c]) > 0
          /\ \/ StepsLeft(pc'[c]) < StepsLeft(pc[c])
             \/ UNCHANGED <<pc[c], token[c], kind[c], found[c], identity[c], conn[c], pending[c]>>
  <2> SUFFICES ASSUME WaitInv, [Next]_vars, NEW c \in Calls, Open(c)
               PROVE  /\ StepsLeft(pc[c]) > 0
                      /\ \/ StepsLeft(pc'[c]) < StepsLeft(pc[c])
                         \/ UNCHANGED <<pc[c], token[c], kind[c], found[c], identity[c], conn[c],
                                        pending[c]>>
    OBVIOUS
  <2> USE ConstantsAssumption DEF WaitInv, CallInv, Requests, Revokes
  <2> DEFINE Kept == UNCHANGED <<pc[c], token[c], kind[c], found[c], identity[c], conn[c], pending[c]>>
  <2>5. StepsLeft(pc[c]) > 0
    BY DEF TypeOK, PlacesOfKind, Labels, HoldsConn, Open, Over, StepsLeft
  <2>1. ASSUME CallStep(c) PROVE StepsLeft(pc'[c]) < StepsLeft(pc[c])
    <3> USE <2>1 DEF TypeOK, Goto, StepsLeft
    <3>1. CASE Resolve(c)
      BY <3>1 DEF Resolve, NoBearer, SelectCandidates, VerifyCandidates, OpenTouch, Touch,
                  CommitTouch
    <3>2. CASE Serve(c)
      BY <3>2 DEF Serve, Require, OpenScoped, RunTool, LogToolCall, CommitCall, OpenWhoami,
                  AnswerWhoami
    <3>3. CASE Arrive(c) \/ FailCall(c)
      BY <3>3, <2>5 DEF Arrive, FailCall, Open, Over
    <3> QED
      BY <3>1, <3>2, <3>3 DEF CallStep
  <2>2. ASSUME NEW d \in Calls \ {c}, CallStep(d)
        PROVE  Kept
    BY <2>2, CallFrame
  <2>3. ASSUME NEW v \in Revokes, RevokeStep(v)
        PROVE  Kept
    BY <2>3, RevokeFrame DEF callVars
  <2>4. ASSUME UNCHANGED vars \/ \E t \in Tokens : Expire(t) PROVE Kept
    BY <2>4 DEF vars, Expire, callVars
  <2>6. CallStep(c) \/ Kept
    <3> HIDE DEF Kept
    <3> QED
      BY ONLY [Next]_vars, <2>2, <2>3, <2>4 DEF Next, CallStep, RevokeStep
  <2> QED
    BY <2>1, <2>5, <2>6
<1> QED
  BY <1>1, WaitInvariant, PTL DEF Spec, EachStepCounts

---------------------------------------------------------------------------
(* The gate.                                                               *)

Stages == [c \in Calls |-> Stage(c)]

Bearers == [c \in Calls |-> token[c]]

\* A call's step moves the stage of that call alone.
LEMMA StageFrame ==
  ASSUME TypeOK, NEW c \in Calls, CallStep(c)
  PROVE  /\ Stages' = [Stages EXCEPT ![c] = Stage(c)']
         /\ pc[c] # "idle" => Bearers' = Bearers
<1>1. \A d \in Calls \ {c} : /\ pc'[d] = pc[d] /\ found'[d] = found[d]
                             /\ identity'[d] = identity[d] /\ token'[d] = token[d]
  BY CallFrame DEF Requests
<1>2. \A d \in Calls \ {c} : Stage(d)' = Stage(d)
  BY <1>1 DEF Stage
<1>3. pc[c] # "idle" => token' = token
  BY DEF CallStep, Arrive, Resolve, NoBearer, SelectCandidates, VerifyCandidates, OpenTouch,
         Touch, CommitTouch, Serve, Require, OpenScoped, RunTool, LogToolCall, CommitCall,
         OpenWhoami, AnswerWhoami, FailCall
<1> QED
  BY <1>2, <1>3 DEF Stages, Bearers

\* Each step of a call is a step through the gate, or none.
LEMMA CallKeepsGate ==
  ASSUME CallInv, NEW c \in Calls, CallStep(c)
  PROVE  Gate!Next \/ UNCHANGED Gate!vars
<1>1. /\ Stages' = [Stages EXCEPT ![c] = Stage(c)']
      /\ pc[c] # "idle" => Bearers' = Bearers
      /\ Stages[c] = Stage(c) /\ Bearers[c] = token[c]
      /\ Stages = [Stages EXCEPT ![c] = Stage(c)]
  BY StageFrame DEF Stages, Bearers, CallInv
<1>2. /\ c \in Requests
      /\ identity[c] # NoToken => found[c] /\ identity[c] = token[c]
      /\ found[c] => token[c] \in Tokens
      /\ pc[c] \in {"idle", "arrived", "selected", "matched", "touching", "touched"} =>
           identity[c] = NoToken
  BY DEF CallInv, IdentityIsChecked, Requests
<1>3. CASE Arrive(c)
  <2>1. PICK t \in Tokens \cup {NoToken}, k \in Kinds :
          token' = [token EXCEPT ![c] = t] /\ kind' = [kind EXCEPT ![c] = k]
    BY <1>3 DEF Arrive
  <2>2. Stage(c) = "away" /\ Stage(c)' = "unknown"
    BY <1>3 DEF Arrive, Goto, Stage, CallInv, TypeOK, Requests
  <2>3. Bearers' = [Bearers EXCEPT ![c] = t]
    BY <2>1 DEF Bearers, CallInv, TypeOK, Requests
  <2>4. Gate!Come(c)
    BY <1>1, <1>3, <2>1, <2>2, <2>3
       DEF Gate!Come, Gate!Moves, Gate!Tools, Kinds, Arrive, tokenVars, Stages, Bearers
  <2> QED
    BY <2>4 DEF Gate!Next
<1>4. ASSUME Stage(c)' = Stage(c), pc[c] # "idle",
             UNCHANGED <<kind, tokenVars, written, audit>>
      PROVE  UNCHANGED Gate!vars
  BY <1>1, <1>4 DEF Gate!vars, tokenVars, Stages, Bearers
<1>5. CASE NoBearer(c) \/ OpenTouch(c) \/ Touch(c) \/ OpenScoped(c) \/ RunTool(c)
           \/ LogToolCall(c) \/ OpenWhoami(c)
  <2>1. Stage(c)' = Stage(c) /\ pc[c] # "idle"
    BY <1>2, <1>5 DEF NoBearer, OpenTouch, Touch, OpenScoped, RunTool, LogToolCall, OpenWhoami,
                      Goto, Stage, CallInv, TypeOK, callVars, IdentityIsChecked, Scoped
  <2>2. UNCHANGED <<kind, tokenVars, written, audit>>
    BY <1>5 DEF NoBearer, OpenTouch, Touch, OpenScoped, RunTool, LogToolCall, OpenWhoami, callVars
  <2> QED
    BY <1>4, <2>1, <2>2
<1>6. CASE SelectCandidates(c)
  <2>1. /\ pc[c] = "arrived" /\ pc'[c] = "selected" /\ UNCHANGED <<kind, tokenVars, written, audit>>
        /\ found'[c] <=> token[c] \in Tokens \ revoked
    <3>1. found'[c] <=> token[c] \in Tokens \ revoked
      BY <1>6, Zenon DEF SelectCandidates, CallInv, TypeOK
    <3> QED
      BY <1>2, <1>6, <3>1 DEF SelectCandidates, Goto, CallInv, TypeOK, callVars
  <2>2. Stage(c) = "unknown" /\ Stage(c)' = IF found'[c] THEN "known" ELSE "unknown"
    BY <2>1 DEF Stage
  <2>3. CASE found'[c]
    <3>1. Gate!Recognise(c)
      BY <1>1, <2>1, <2>2, <2>3 DEF Gate!Recognise, Gate!Moves, tokenVars, Stages, Bearers
    <3> QED
      BY <3>1 DEF Gate!Next
  <2>4. CASE ~found'[c]
    BY <1>4, <2>1, <2>2, <2>4
  <2> QED
    BY <2>3, <2>4
<1>7. CASE VerifyCandidates(c)
  <2>1. /\ pc[c] = "selected" /\ UNCHANGED <<found, identity, kind, tokenVars, written, audit>>
        /\ pc'[c] = IF found[c] /\ token[c] \notin expired THEN "matched" ELSE "resolved"
    BY <1>2, <1>7 DEF VerifyCandidates, Goto, CallInv, TypeOK, callVars
  <2>2. CASE found[c] /\ token[c] \notin expired
    <3>1. Stage(c) = "known" /\ Stage(c)' = "valid"
      BY <2>1, <2>2 DEF Stage
    <3>2. Gate!Believe(c)
      BY <1>1, <2>1, <2>2, <3>1 DEF Gate!Believe, Gate!Moves, tokenVars, Stages, Bearers
    <3> QED
      BY <3>2 DEF Gate!Next
  <2>3. CASE ~(found[c] /\ token[c] \notin expired)
    <3>1. Stage(c)' = Stage(c)
      BY <1>2, <2>1, <2>3 DEF Stage
    <3> QED
      BY <1>4, <2>1, <3>1
  <2> QED
    BY <2>2, <2>3
<1>8. CASE CommitTouch(c)
  <2>1. /\ pc[c] = "touched" /\ pc'[c] = "resolved" /\ identity'[c] = token[c]
        /\ touched' = touched \cup {token[c]}
        /\ UNCHANGED <<kind, revoked, expired, written, audit>>
        /\ token[c] # NoToken
    BY <1>2, <1>8, ConstantsAssumption
       DEF CommitTouch, Goto, CallInv, TypeOK, IdentityIsChecked
  <2>2. Stage(c) = "valid" /\ Stage(c)' = "admitted"
    BY <2>1 DEF Stage
  <2>3. Gate!Admit(c)
    BY <1>1, <2>1, <2>2 DEF Gate!Admit, Gate!Moves, Stages, Bearers
  <2> QED
    BY <2>3 DEF Gate!Next
<1>9. ASSUME Stage(c) \in {"unknown", "known", "valid", "admitted"}, Stage(c)' = "gone",
             UNCHANGED <<kind, tokenVars, written, audit>>, pc[c] # "idle"
      PROVE  Gate!Next
  <2>1. Gate!TurnAway(c)
    BY <1>1, <1>9 DEF Gate!TurnAway, tokenVars, Stages, Bearers
  <2> QED
    BY <2>1 DEF Gate!Next
<1>10. CASE Require(c)
  <2>1. /\ pc[c] = "resolved" /\ pc'[c] \in {"ready", "refused"}
        /\ pc'[c] = "ready" => identity[c] # NoToken
        /\ UNCHANGED <<found, identity, kind, tokenVars, written, audit>>
    BY <1>2, <1>10 DEF Require, Goto, CallInv, TypeOK, callVars
  <2>2. CASE pc'[c] = "ready"
    <3>1. Stage(c)' = Stage(c)
      BY <2>1, <2>2 DEF Stage
    <3> QED
      BY <1>4, <2>1, <3>1
  <2>3. CASE pc'[c] = "refused"
    <3>1. Stage(c) \in {"unknown", "known", "admitted"} /\ Stage(c)' = "gone"
      BY <2>1, <2>3 DEF Stage
    <3> QED
      BY <1>9, <2>1, <3>1
  <2> QED
    BY <2>1, <2>2, <2>3
<1>11. CASE FailCall(c)
  <2>1. /\ pc[c] \notin Over /\ pc'[c] = "failed"
        /\ UNCHANGED <<kind, tokenVars, written, audit>>
    BY <1>2, <1>11 DEF FailCall, Goto, CallInv, TypeOK, callVars
  <2>2. Stage(c) \in {"unknown", "known", "valid", "admitted"} /\ Stage(c)' = "gone"
    BY <2>1 DEF Stage, Over
  <2> QED
    BY <1>9, <2>1, <2>2 DEF Over
<1>12. CASE CommitCall(c)
  <2>1. /\ pc[c] = "logged" /\ pc'[c] = "done" /\ kind[c] # "whoami"
        /\ written' = written \cup {[of |-> c, soul |-> SoulOf[token[c]]]}
        /\ audit' = audit \cup {[of |-> c, soul |-> SoulOf[token[c]]]}
        /\ UNCHANGED <<kind, tokenVars>>
        /\ kind[c] = "write" => token[c] \notin ReadOnly
    BY <1>2, <1>12 DEF CommitCall, Goto, CallInv, TypeOK, callVars, IdentityIsChecked,
                       PendingIsOwn, Scoped
  <2>2. Stage(c) = "admitted" /\ Stage(c)' = "served"
    BY <2>1 DEF Stage
  <2>3. Gate!Serve(c)
    BY <1>1, <2>1, <2>2 DEF Gate!Serve, Gate!Moves, tokenVars, Stages, Bearers
  <2> QED
    BY <2>3 DEF Gate!Next
<1>13. CASE AnswerWhoami(c)
  <2>1. /\ pc[c] = "asking" /\ pc'[c] = "done" /\ kind[c] = "whoami"
        /\ UNCHANGED <<kind, tokenVars, written, audit>>
    BY <1>2, <1>13 DEF AnswerWhoami, Goto, CallInv, TypeOK, callVars, IdentityIsChecked
  <2>2. Stage(c) = "admitted" /\ Stage(c)' = "served"
    BY <2>1 DEF Stage
  <2>3. Gate!Serve(c)
    BY <1>1, <2>1, <2>2 DEF Gate!Serve, Gate!Moves, tokenVars, Stages, Bearers
  <2> QED
    BY <2>3 DEF Gate!Next
<1> QED
  BY <1>3, <1>5, <1>6, <1>7, <1>8, <1>10, <1>11, <1>12, <1>13 DEF CallStep, Resolve, Serve

\* A revocation is one step of the gate, when it is committed.
LEMMA RevokeKeepsGate ==
  ASSUME CallInv, NEW v \in Revokes, RevokeStep(v)
  PROVE  Gate!Next \/ UNCHANGED Gate!vars
<1>1. /\ \A r \in Requests \ {v} : pc'[r] = pc[r] /\ token'[r] = token[r]
      /\ UNCHANGED <<found, identity, kind, written, touched, expired>>
  BY RevokeFrame DEF CallInv, callVars
<1>2. \A c \in Calls : c \in Requests \ {v}
  BY ConstantsAssumption DEF Requests, Revokes
<1>3. Stages' = Stages /\ Bearers' = Bearers
  BY <1>1, <1>2 DEF Stages, Bearers, Stage
<1>4. CASE CommitRevoked(v)
  <2>1. token[v] \in Tokens
    BY <1>4 DEF CommitRevoked, CallInv, RevokesAToken
  <2>2. Gate!Revoke(v, token[v])
    BY <1>1, <1>3, <1>4 DEF CommitRevoked, Gate!Revoke, Stages, Bearers
  <2> QED
    BY <2>1, <2>2 DEF Gate!Next
<1>5. CASE UpdateRevoked(v) \/ FailRevoke(v)
  BY <1>1, <1>3, <1>5 DEF UpdateRevoked, FailRevoke, Gate!vars, tokenVars, Stages, Bearers
<1> QED
  BY <1>4, <1>5 DEF RevokeStep

\* The whole path of a call, with its sessions, its pool and its locks,
\* implements the gate.
THEOREM CallsKeepTheGate == Spec => KeepsTheGate
<1>1. Init => Gate!Init
  BY DEF Init, Gate!Init, Stage, Gate!Tools, Requests
<1>2. CallInv /\ [Next]_vars => [Gate!Next]_Gate!vars
  <2> SUFFICES ASSUME CallInv, [Next]_vars PROVE Gate!Next \/ UNCHANGED Gate!vars
    OBVIOUS
  <2>1. ASSUME NEW t \in Tokens, Expire(t) PROVE Gate!Next
    <3>1. Gate!Expire(t)
      BY <2>1 DEF Expire, Gate!Expire, Stage, callVars
    <3> QED
      BY <3>1 DEF Gate!Next
  <2>2. CASE UNCHANGED vars
    BY <2>2 DEF vars, Gate!vars, Stage, callVars, tokenVars
  <2> QED
    BY <2>1, <2>2, CallKeepsGate, RevokeKeepsGate DEF Next, CallStep, RevokeStep
<1> QED
  BY <1>1, <1>2, CallInvariant, PTL DEF Spec, KeepsTheGate, Gate!Spec

=============================================================================
