----------------------------- MODULE RateLimit -----------------------------
(***************************************************************************)
(* The in-memory rate limiter of the MCP server: a minute bucket and an    *)
(* hour bucket per API token.  check is synchronous, so that under the     *)
(* event loop each call is one step.                                       *)
(***************************************************************************)
EXTENDS TokenBucket, Sequences

CONSTANTS Ids,         \* API tokens
          PerMinute,   \* capacity of the minute bucket
          PerHour,     \* capacity of the hour bucket
          Minute,      \* ticks in a minute
          Hour,        \* ticks in an hour
          Half,        \* ticks in half a tenth of a second
          NoBucket,    \* a token that was never checked
          Horizon      \* bound: the last tick of the clock

ASSUME ConstantsAssumption ==
  /\ {PerMinute, PerHour, Minute, Hour, Half} \subseteq Nat \ {0}
  /\ Horizon \in Nat
  /\ NoBucket \notin Bucket

VARIABLES now,        \* time.monotonic()
          minute,     \* _minute_buckets
          hour,       \* _hour_buckets
          granted,    \* auxiliary: the times of the calls let through
          promise,    \* auxiliary: when the last refusal said to come back
          obeyed      \* auxiliary: refusals in a row, each after such a wait
                      \* and half a tenth of a second more

vars == <<now, minute, hour, granted, promise, obeyed>>

Init ==
  /\ now = 0
  /\ minute = [i \in Ids |-> NoBucket]
  /\ hour = [i \in Ids |-> NoBucket]
  /\ granted = [i \in Ids |-> <<>>]
  /\ promise = [i \in Ids |-> 0]
  /\ obeyed = [i \in Ids |-> 0]

Tick ==
  /\ now < Horizon
  /\ now' = now + 1
  /\ UNCHANGED <<minute, hour, granted, promise, obeyed>>

---------------------------------------------------------------------------
(* check: both buckets are created or refilled, then the minute is asked   *)
(* before the hour, and a token is taken from both or from neither.        *)

Current(b, capacity, interval) ==
  IF b = NoBucket THEN Full(capacity, interval, now)
  ELSE Refilled(b, capacity, interval, now)

MinuteNow(i) == Current(minute[i], PerMinute, Minute)

HourNow(i) == Current(hour[i], PerHour, Hour)

Set(i, mb, hb) ==
  /\ minute' = [minute EXCEPT ![i] = mb]
  /\ hour' = [hour EXCEPT ![i] = hb]

Promise(i, told) ==
  /\ promise' = [promise EXCEPT ![i] = now + told]
  /\ obeyed' = [obeyed EXCEPT ![i] = IF now >= promise[i] + Half THEN @ + 1 ELSE 1]

Refuse(i, told) ==
  /\ Set(i, MinuteNow(i), HourNow(i))
  /\ Promise(i, told)
  /\ UNCHANGED <<now, granted>>

RefuseMinute(i) ==
  /\ ~HasToken(MinuteNow(i), Minute)
  /\ \E told \in Told(MinuteNow(i), PerMinute, Minute, Half) : Refuse(i, told)

\* Mutant: the minute's token is taken before the hour is asked.
RefuseHourSpending(i) ==
  /\ HasToken(MinuteNow(i), Minute)
  /\ ~HasToken(HourNow(i), Hour)
  /\ Set(i, Taken(MinuteNow(i), Minute), HourNow(i))
  /\ \E told \in Told(HourNow(i), PerHour, Hour, Half) : Promise(i, told)
  /\ UNCHANGED <<now, granted>>

RefuseHour(i) ==
  /\ HasToken(MinuteNow(i), Minute)
  /\ ~HasToken(HourNow(i), Hour)
  /\ \E told \in Told(HourNow(i), PerHour, Hour, Half) : Refuse(i, told)

\* Mutant: only the minute bucket is asked, a token is taken from both.
GrantOnMinute(i) ==
  /\ HasToken(MinuteNow(i), Minute)
  /\ Set(i, Taken(MinuteNow(i), Minute), Taken(HourNow(i), Hour))
  /\ granted' = [granted EXCEPT ![i] = Append(@, now)]
  /\ promise' = [promise EXCEPT ![i] = 0]
  /\ obeyed' = [obeyed EXCEPT ![i] = 0]
  /\ UNCHANGED now

Grant(i) ==
  /\ HasToken(MinuteNow(i), Minute)
  /\ HasToken(HourNow(i), Hour)
  /\ Set(i, Taken(MinuteNow(i), Minute), Taken(HourNow(i), Hour))
  /\ granted' = [granted EXCEPT ![i] = Append(@, now)]
  /\ promise' = [promise EXCEPT ![i] = 0]
  /\ obeyed' = [obeyed EXCEPT ![i] = 0]
  /\ UNCHANGED now

Check(i) == RefuseMinute(i) \/ RefuseHour(i) \/ Grant(i)

Next == Tick \/ \E i \in Ids : Check(i)

Spec == Init /\ [][Next]_vars

---------------------------------------------------------------------------

\* Levels and times are natural numbers: no bucket is ever overdrawn, and no
\* refusal promises a time before the clock began.
TypeOK ==
  /\ now \in Nat
  /\ minute \in [Ids -> Bucket \cup {NoBucket}]
  /\ hour \in [Ids -> Bucket \cup {NoBucket}]
  /\ granted \in [Ids -> Seq(Nat)]
  /\ promise \in [Ids -> Nat]
  /\ obeyed \in [Ids -> Nat]

---------------------------------------------------------------------------
(* The invariant that carries the proofs.                                  *)

\* A bucket's level pays for every call granted since any granted call:
\* what it holds and what they took is no more than one capacity and what
\* has flowed in since.
Pays(b, times, capacity, interval) ==
  IF b = NoBucket THEN times = <<>>
  ELSE /\ b.level <= capacity * interval
       /\ b.last <= now
       /\ \A j \in 1..Len(times) :
            /\ times[j] <= b.last
            /\ b.level + (Len(times) - j + 1) * interval
                 <= capacity * interval + (b.last - times[j]) * capacity

BucketsPay ==
  \A i \in Ids : /\ Pays(minute[i], granted[i], PerMinute, Minute)
                 /\ Pays(hour[i], granted[i], PerHour, Hour)

\* A bucket that is not full owes all it lacks to the calls granted since
\* one of them: with what flowed in since that call, and what they took, the
\* level is the capacity exactly.
Owed(b, times, capacity, interval) ==
  b # NoBucket /\ b.level # capacity * interval =>
    \E j \in 1..Len(times) :
      b.level + (Len(times) - j + 1) * interval
        = capacity * interval + (b.last - times[j]) * capacity

LevelsOwed ==
  \A i \in Ids : /\ Owed(minute[i], granted[i], PerMinute, Minute)
                 /\ Owed(hour[i], granted[i], PerHour, Hour)

---------------------------------------------------------------------------

\* In any stretch of time that begins and ends with a granted call, the
\* calls granted are at most the capacity plus what flows in meanwhile.
Bounded(times, capacity, interval) ==
  \A k \in 1..Len(times) : \A j \in 1..k :
    (k - j + 1) * interval <= capacity * interval + (times[k] - times[j]) * capacity

\* Neither limit is ever exceeded, by bursts, refusals or idle times.
LimitsHold ==
  \A i \in Ids : /\ Bounded(granted[i], PerMinute, Minute)
                 /\ Bounded(granted[i], PerHour, Hour)

\* The calls already let through leave room for one more now.
Fits(i) ==
  /\ Bounded(Append(granted[i], now), PerMinute, Minute)
  /\ Bounded(Append(granted[i], now), PerHour, Hour)

\* check lets a call through exactly if both limits have room for it: no call
\* exceeds a limit, and none is refused that would not.  What refusals, idle
\* times and rounding leave in the two buckets never shows.
GrantsWhatFits ==
  [][\A i \in Ids : Check(i) => (granted'[i] # granted[i] <=> Fits(i))]_vars

LimitInv == TypeOK /\ BucketsPay /\ LimitsHold /\ LevelsOwed

\* The wait a caller is told may be too short, for it is rounded, but by no more
\* than half a tenth of a second: a caller who waits as told and that much longer
\* is refused no third time.  The minute's wait may not do because of the hour,
\* the hour's always does.
TwoWaitsSuffice == \A i \in Ids : obeyed[i] <= 2

\* The bucket, left alone, holds a token at time t.
Ripe(b, t, capacity, interval) ==
  b # NoBucket /\ b.last <= t /\ b.level + (t - b.last) * capacity >= interval

\* Whoever comes back so much later finds a token in the minute's bucket, and in
\* the hour's too if it is the second time.
WaitsRipen ==
  \A i \in Ids :
    /\ obeyed[i] >= 1 => Ripe(minute[i], promise[i] + Half, PerMinute, Minute)
    /\ obeyed[i] >= 2 => Ripe(hour[i], promise[i] + Half, PerHour, Hour)

=============================================================================
