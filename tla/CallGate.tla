----------------------------- MODULE CallGate -----------------------------
(***************************************************************************)
(* What the MCP server promises of a tool call, without the sessions, the  *)
(* pool and the locks it takes to keep it.  A call is let in step by step, *)
(* and only by a token that was not revoked and not expired when it was    *)
(* looked at, which was after the call came; what it then does, it does at *)
(* once: its row, under the soul of the token, and its entry in the audit. *)
(***************************************************************************)
CONSTANTS Calls,      \* calls of tools
          Revokes,    \* revocations
          Logged,     \* those that the audit records
          Tokens,
          ReadOnly,   \* tokens that may not write
          SoulOf,     \* the soul of each token
          NoToken     \* what a call may come with instead

VARIABLES stage,    \* how far each call has come
          tool,     \* what each call asks for
          bearer,   \* the token each call came with
          revoked,
          expired,
          used,     \* tokens on record as used
          work,     \* the rows that tools have written
          log       \* the audit

vars == <<stage, tool, bearer, revoked, expired, used, work, log>>

Tools == {"read", "write", "whoami"}

Init ==
  /\ stage = [c \in Calls |-> "away"]
  /\ tool \in [Calls -> Tools]
  /\ bearer = [c \in Calls |-> NoToken]
  /\ revoked = {} /\ expired = {} /\ used = {} /\ work = {} /\ log = {}

---------------------------------------------------------------------------

Moves(c, from, to) == stage[c] = from /\ stage' = [stage EXCEPT ![c] = to]

Come(c) ==
  /\ Moves(c, "away", "unknown")
  /\ \E t \in Tokens \cup {NoToken} : bearer' = [bearer EXCEPT ![c] = t]
  /\ \E k \in Tools : tool' = [tool EXCEPT ![c] = k]
  /\ UNCHANGED <<revoked, expired, used, work, log>>

\* The token is one of the server's, and not revoked.
Recognise(c) ==
  /\ Moves(c, "unknown", "known")
  /\ bearer[c] \in Tokens \ revoked
  /\ UNCHANGED <<tool, bearer, revoked, expired, used, work, log>>

Believe(c) ==
  /\ Moves(c, "known", "valid")
  /\ bearer[c] \notin expired
  /\ UNCHANGED <<tool, bearer, revoked, expired, used, work, log>>

\* The use of the token is on record before the call does anything.
Admit(c) ==
  /\ Moves(c, "valid", "admitted")
  /\ used' = used \cup {bearer[c]}
  /\ UNCHANGED <<tool, bearer, revoked, expired, work, log>>

Serve(c) ==
  /\ Moves(c, "admitted", "served")
  /\ tool[c] = "write" => bearer[c] \notin ReadOnly
  /\ LET entry == [of |-> c, soul |-> SoulOf[bearer[c]]]
     IN  IF tool[c] = "whoami" THEN UNCHANGED <<work, log>>
         ELSE work' = work \cup {entry} /\ log' = log \cup {entry}
  /\ UNCHANGED <<tool, bearer, revoked, expired, used>>

\* A call may be turned away at any time, and then leaves nothing.
TurnAway(c) ==
  /\ stage[c] \in {"unknown", "known", "valid", "admitted"}
  /\ stage' = [stage EXCEPT ![c] = "gone"]
  /\ UNCHANGED <<tool, bearer, revoked, expired, used, work, log>>

---------------------------------------------------------------------------

Revoke(v, t) ==
  /\ revoked' = revoked \cup {t}
  /\ log' = IF v \in Logged THEN log \cup {[of |-> v, soul |-> SoulOf[t]]} ELSE log
  /\ UNCHANGED <<stage, tool, bearer, expired, used, work>>

Expire(t) ==
  /\ expired' = expired \cup {t}
  /\ UNCHANGED <<stage, tool, bearer, revoked, used, work, log>>

Next ==
  \/ \E c \in Calls : \/ Come(c) \/ Recognise(c) \/ Believe(c) \/ Admit(c)
                      \/ Serve(c) \/ TurnAway(c)
  \/ \E v \in Revokes, t \in Tokens : Revoke(v, t)
  \/ \E t \in Tokens : Expire(t)

Spec == Init /\ [][Next]_vars

=============================================================================
