---------------------------- MODULE TokenBucket ----------------------------
(***************************************************************************)
(* The token bucket that the MCP rate limiter and the login throttle share *)
(* in form.  A level counts fractions of a token: one token is worth       *)
(* interval units and a tick of the clock adds capacity units, so that the *)
(* refill rate capacity / interval needs no fractions.  The rounding of    *)
(* the floating-point level is left out.                                   *)
(***************************************************************************)
EXTENDS Naturals

Bucket == [level : Nat, last : Nat]

Full(capacity, interval, now) == [level |-> capacity * interval, last |-> now]

Least(a, b) == IF a <= b THEN a ELSE b

Refilled(b, capacity, interval, now) ==
  [level |-> Least(capacity * interval, b.level + (now - b.last) * capacity),
   last  |-> now]

HasToken(b, interval) == b.level >= interval

Taken(b, interval) == [level |-> b.level - interval, last |-> b.last]

\* Mutant: the wait is cut off at a tenth of a second.
ToldCutOff(b, capacity, interval, half) ==
  LET missing == interval - b.level
  IN  {w \in 0..missing : /\ w % (2 * half) = 0
                          /\ w * capacity <= missing
                          /\ missing < (w + 2 * half) * capacity}

\* The wait until an empty bucket holds one token, as the caller reads it: the
\* nearest tenth of a second, of which half is given in ticks; between two tenths
\* it is either.
Told(b, capacity, interval, half) ==
  LET missing == interval - b.level
  IN  {w \in 0..(missing + half) : /\ w % (2 * half) = 0
                                   /\ w * capacity <= missing + half * capacity
                                   /\ missing <= (w + half) * capacity}

=============================================================================
