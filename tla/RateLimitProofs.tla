-------------------------- MODULE RateLimitProofs --------------------------
(***************************************************************************)
(* Proofs about RateLimit for every capacity, interval and set of tokens.  *)
(***************************************************************************)
EXTENDS RateLimit, TLAPS

\* A product of naturals is one.
LEMMA ProductNat ==
  ASSUME NEW a \in Nat, NEW c \in Nat
  PROVE  a * c \in Nat
  BY SMT

\* A product of naturals is one, and distributes over a sum.
LEMMA Products ==
  ASSUME NEW a \in Nat, NEW b \in Nat, NEW c \in Nat
  PROVE  /\ a * c \in Nat
         /\ (a + b) * c = a * c + b * c
         /\ (a + 1) * c = a * c + c
  BY SMT

\* A bucket that can hold a token at all holds one when it is full.
LEMMA FullHasToken ==
  ASSUME NEW capacity \in Nat \ {0}, NEW interval \in Nat
  PROVE  capacity * interval \in Nat /\ capacity * interval >= interval
<1>1. capacity - 1 \in Nat /\ capacity = (capacity - 1) + 1
  OBVIOUS
<1>2. /\ (capacity - 1) * interval \in Nat
      /\ ((capacity - 1) + 1) * interval = (capacity - 1) * interval + interval
  BY <1>1, Products
<1> QED
  BY <1>1, <1>2

\* So is a sum.
LEMMA SumNat ==
  ASSUME NEW a \in Nat, NEW c \in Nat
  PROVE  a + c \in Nat
  BY SMT

\* What a caller without a token is told is a time, and when it and half a tenth
\* of a second more are over, what was missing has flowed in.
LEMMA ToldIsClose ==
  ASSUME NEW b \in Bucket, NEW capacity \in Nat \ {0}, NEW interval \in Nat,
         ~HasToken(b, interval), NEW w \in Told(b, capacity, interval, Half)
  PROVE  /\ w \in Nat /\ w + Half \in Nat
         /\ b.level + (w + Half) * capacity >= interval
<1> DEFINE missing == interval - b.level
<1>1. b.level \in Nat /\ ~(b.level >= interval) /\ missing \in Nat /\ Half \in Nat
  BY ConstantsAssumption DEF Bucket, HasToken
<1>2. w \in 0..(missing + Half) /\ missing <= (w + Half) * capacity
  BY DEF Told
<1>3. w \in Nat /\ w + Half \in Nat
  BY <1>1, <1>2
<1>4. (w + Half) * capacity \in Nat
  BY <1>3, ProductNat
<1>5. b.level + (w + Half) * capacity >= interval
  BY <1>1, <1>2, <1>4
<1> QED
  BY <1>3, <1>5

\* What stays after a token is taken is paid for as what was there before.
LEMMA TokenPays ==
  ASSUME NEW level \in Nat, NEW interval \in Nat, NEW paid \in Nat, NEW most \in Nat,
         NEW inflow \in Nat, level >= interval, level + paid <= most + inflow
  PROVE  level - interval + (paid + interval) <= most + inflow
  BY SMT

\* What is paid for is within the bound.
LEMMA PaidIsBounded ==
  ASSUME NEW level \in Nat, NEW paid \in Nat, NEW most \in Nat, NEW inflow \in Nat,
         level + paid <= most + inflow
  PROVE  paid <= most + inflow
  BY SMT

\* The lesser of two naturals is one of them.
LEMMA LeastOfTwo ==
  ASSUME NEW a \in Nat, NEW b \in Nat
  PROVE  Least(a, b) \in Nat /\ Least(a, b) <= a /\ Least(a, b) <= b
  BY DEF Least

\* What flows in between last and now is what the bound since t gains.
LEMMA InflowPays ==
  ASSUME NEW cap \in Nat, NEW c \in Nat, NEW level \in Nat, NEW more \in Nat, NEW paid \in Nat,
         NEW t \in Nat, NEW last \in Nat, NEW time \in Nat, t <= last, last <= time,
         level + paid <= cap + (last - t) * c,
         more <= level + (time - last) * c
  PROVE  more + paid <= cap + (time - t) * c
<1> DEFINE x == time - last
           y == last - t
<1>1. x \in Nat /\ y \in Nat /\ time - t = x + y
  OBVIOUS
<1>2. level + paid <= cap + y * c /\ more <= level + x * c
  OBVIOUS
<1>3. (x + y) * c = x * c + y * c /\ x * c \in Nat /\ y * c \in Nat
  BY <1>1, Products
<1> HIDE DEF x, y
<1>4. more + paid <= cap + (x + y) * c
  BY <1>2, <1>3
<1> QED
  BY <1>1, <1>4

\* A bucket brought up to date is of now, not above its capacity, and pays
\* for the same calls as before.
LEMMA CurrentPays ==
  ASSUME NEW b \in Bucket \cup {NoBucket}, NEW times \in Seq(Nat), now \in Nat,
         NEW capacity \in Nat \ {0}, NEW interval \in Nat \ {0},
         Pays(b, times, capacity, interval)
  PROVE  /\ Current(b, capacity, interval) \in Bucket
         /\ Current(b, capacity, interval).last = now
         /\ Pays(Current(b, capacity, interval), times, capacity, interval)
<1>1. capacity * interval \in Nat
  BY Products
<1>2. CASE b = NoBucket
  <2> DEFINE e == [level |-> capacity * interval, last |-> now]
  <2>1. Current(b, capacity, interval) = e /\ times = <<>>
    BY <1>2 DEF Current, Full, Pays
  <2>2. e \in Bucket /\ e # NoBucket /\ e.last = now /\ e.level = capacity * interval
    BY <1>1, ConstantsAssumption DEF Bucket
  <2>3. Pays(e, times, capacity, interval)
    BY <1>1, <2>1, <2>2 DEF Pays
  <2> QED
    BY <2>1, <2>2, <2>3
<1>3. CASE b # NoBucket
  <2> DEFINE level == Least(capacity * interval, b.level + (now - b.last) * capacity)
             e == [level |-> level, last |-> now]
  <2>1. /\ b.level \in Nat /\ b.last \in Nat /\ b.last <= now /\ now - b.last \in Nat
        /\ b.level <= capacity * interval
    BY <1>3 DEF Bucket, Pays
  <2>2. b.level + (now - b.last) * capacity \in Nat
    <3>1. (now - b.last) * capacity \in Nat
      BY <2>1, ProductNat
    <3> QED
      BY <2>1, <3>1, SumNat, Zenon
  <2>3. /\ level \in Nat
        /\ level <= capacity * interval
        /\ level <= b.level + (now - b.last) * capacity
    BY <1>1, <2>2, LeastOfTwo
  <2>4. Current(b, capacity, interval) = e
    BY <1>3 DEF Current, Refilled
  <2> HIDE DEF level
  <2>5. e \in Bucket /\ e # NoBucket /\ e.last = now /\ e.level = level
    <3>1. level \in Nat
      BY <2>3, Zenon
    <3> QED
      BY ONLY <3>1, now \in Nat, ConstantsAssumption DEF Bucket
  <2>6. ASSUME NEW j \in 1..Len(times)
        PROVE  /\ times[j] <= now
               /\ level + (Len(times) - j + 1) * interval
                    <= capacity * interval + (now - times[j]) * capacity
    <3>0. times[j] \in Nat /\ times[j] <= b.last
      BY <1>3 DEF Pays
    <3>1. b.level + (Len(times) - j + 1) * interval
            <= capacity * interval + (b.last - times[j]) * capacity
      BY <1>3 DEF Pays
    <3>2. Len(times) - j + 1 \in Nat
      OBVIOUS
    <3>3. (Len(times) - j + 1) * interval \in Nat
      BY <3>2, Products
    <3>4. level + (Len(times) - j + 1) * interval
            <= capacity * interval + (now - times[j]) * capacity
      BY <1>1, <2>1, <2>3, <3>0, <3>1, <3>3, InflowPays
    <3>5. times[j] <= now
      BY <2>1, <3>0
    <3> QED
      BY <3>4, <3>5, Zenon
  <2>7. Pays(e, times, capacity, interval)
    BY <2>3, <2>5, <2>6 DEF Pays
  <2> QED
    BY <2>4, <2>5, <2>7
<1> QED
  BY <1>2, <1>3

\* A token taken pays for the call it grants.
LEMMA TakenPays ==
  ASSUME NEW b \in Bucket, NEW times \in Seq(Nat), now \in Nat, b.last = now,
         NEW capacity \in Nat \ {0}, NEW interval \in Nat \ {0},
         Pays(b, times, capacity, interval), HasToken(b, interval)
  PROVE  /\ Taken(b, interval) \in Bucket
         /\ Pays(Taken(b, interval), Append(times, now), capacity, interval)
<1> DEFINE e == Taken(b, interval)
           more == Append(times, now)
<1>1. capacity * interval \in Nat /\ b.level \in Nat /\ b # NoBucket /\ b.level >= interval
  BY Products, ConstantsAssumption DEF Bucket, HasToken
<1>2. e.level = b.level - interval /\ e.last = now
  BY DEF Taken
<1>3. e \in Bucket /\ e # NoBucket
  BY <1>1, ConstantsAssumption DEF Taken, Bucket
<1> HIDE DEF e
<1>4. b.level <= capacity * interval
  BY <1>1 DEF Pays
<1>5. ASSUME NEW j \in 1..Len(more)
      PROVE  /\ more[j] <= now
             /\ e.level + (Len(more) - j + 1) * interval
                  <= capacity * interval + (now - more[j]) * capacity
  <2>1. CASE j = Len(times) + 1
    <3>1. more[j] = now /\ Len(more) - j + 1 = 1
      BY <2>1
    <3>2. (now - now) * capacity = 0 /\ 1 * interval = interval
      BY SMT
    <3> HIDE DEF more
    <3>3. e.level + 1 * interval <= capacity * interval + (now - now) * capacity
      BY <1>1, <1>2, <1>4, <3>2
    <3>4. now <= now
      OBVIOUS
    <3> QED
      BY <3>1, <3>3, <3>4, Zenon
  <2>2. CASE j # Len(times) + 1
    <3> DEFINE n == Len(times) - j + 1
    <3>1. j \in 1..Len(times) /\ more[j] = times[j] /\ Len(more) - j + 1 = n + 1 /\ n \in Nat
      BY <2>2
    <3>2. /\ times[j] <= now
          /\ b.level + n * interval <= capacity * interval + (now - times[j]) * capacity
      BY <1>1, <3>1 DEF Pays
    <3>3. now - times[j] \in Nat
      BY <3>1, <3>2
    <3> HIDE DEF n, more
    <3>4. /\ (n + 1) * interval = n * interval + interval
          /\ n * interval \in Nat
          /\ (now - times[j]) * capacity \in Nat
      BY <3>1, <3>3, Products
    <3>5. e.level + (n + 1) * interval <= capacity * interval + (now - times[j]) * capacity
      BY <1>1, <1>2, <3>2, <3>4, TokenPays, Zenon
    <3> QED
      BY <3>1, <3>2, <3>5
  <2> QED
    BY <2>1, <2>2
<1> HIDE DEF more
<1>6. e.level <= capacity * interval
  BY <1>1, <1>2, <1>4
<1>7. Pays(e, more, capacity, interval)
  BY <1>2, <1>3, <1>5, <1>6 DEF Pays
<1> QED
  BY <1>3, <1>7 DEF e, more

\* A call that is paid for keeps every stretch within its bound.
LEMMA AppendBounded ==
  ASSUME NEW b \in Bucket, NEW times \in Seq(Nat), now \in Nat, b.last = now,
         NEW capacity \in Nat \ {0}, NEW interval \in Nat \ {0},
         Bounded(times, capacity, interval),
         Pays(b, Append(times, now), capacity, interval)
  PROVE  Bounded(Append(times, now), capacity, interval)
<1> DEFINE more == Append(times, now)
<1> SUFFICES ASSUME NEW k \in 1..Len(more), NEW j \in 1..k
             PROVE  (k - j + 1) * interval
                      <= capacity * interval + (more[k] - more[j]) * capacity
  BY DEF Bounded
<1>1. CASE k = Len(more)
  <2>0. b # NoBucket
    BY ConstantsAssumption
  <2>1. more[k] = now /\ more[j] \in Nat /\ more[j] <= now /\ j \in 1..Len(more)
    <3>1. more \in Seq(Nat) /\ more[k] = now /\ j \in 1..Len(more)
      BY <1>1
    <3> HIDE DEF more
    <3>2. more[j] \in Nat
      BY <3>1
    <3> QED
      BY <2>0, <3>1, <3>2 DEF Pays, more
  <2>2. b.level + (k - j + 1) * interval <= capacity * interval + (now - more[j]) * capacity
    BY <1>1, <2>0, <2>1 DEF Pays
  <2>3. /\ b.level \in Nat
        /\ capacity * interval \in Nat
        /\ (k - j + 1) * interval \in Nat
        /\ (now - more[j]) * capacity \in Nat
    <3> HIDE DEF more
    <3>1. k - j + 1 \in Nat
      OBVIOUS
    <3>2. now - more[j] \in Nat
      BY ONLY <2>1, now \in Nat
    <3>3. b.level \in Nat
      BY DEF Bucket
    <3> QED
      BY <3>1, <3>2, <3>3, ProductNat, Zenon
  <2> HIDE DEF more
  <2>4. (k - j + 1) * interval <= capacity * interval + (now - more[j]) * capacity
    BY <2>2, <2>3, PaidIsBounded, Zenon
  <2> QED
    BY <2>1, <2>4, Zenon
<1>2. CASE k # Len(more)
  <2>1. k \in 1..Len(times) /\ more[k] = times[k] /\ more[j] = times[j]
    BY <1>2
  <2> QED
    BY <2>1 DEF Bounded
<1> QED
  BY <1>1, <1>2

\* What flows in between last and now is what is owed since t.
LEMMA InflowOwes ==
  ASSUME NEW cap \in Nat, NEW c \in Nat, NEW level \in Nat, NEW paid \in Nat,
         NEW t \in Nat, NEW last \in Nat, NEW time \in Nat, t <= last, last <= time,
         level + paid = cap + (last - t) * c
  PROVE  (level + (time - last) * c) + paid = cap + (time - t) * c
<1> DEFINE u == time - last
           v == last - t
           p == u * c
           q == v * c
<1>1. u \in Nat /\ v \in Nat /\ time - t = u + v
  OBVIOUS
<1>2. level + paid = cap + q
  OBVIOUS
<1> HIDE DEF u, v
<1>3. (u + v) * c = p + q /\ p \in Nat /\ q \in Nat
  BY <1>1, Products
<1> HIDE DEF p, q
<1>4. (level + p) + paid = cap + (p + q)
  BY <1>2, <1>3
<1> QED
  BY <1>1, <1>3, <1>4 DEF u, p

\* A bucket brought up to date owes to the same calls as before.
LEMMA CurrentOwes ==
  ASSUME NEW b \in Bucket \cup {NoBucket}, NEW times \in Seq(Nat), now \in Nat,
         NEW capacity \in Nat \ {0}, NEW interval \in Nat \ {0},
         Pays(b, times, capacity, interval), Owed(b, times, capacity, interval)
  PROVE  Owed(Current(b, capacity, interval), times, capacity, interval)
<1> DEFINE cap == capacity * interval
           e == Current(b, capacity, interval)
           x == b.level + (now - b.last) * capacity
<1>1. cap \in Nat
  BY Products
<1> HIDE DEF cap, e
<1> SUFFICES ASSUME e # NoBucket, e.level # cap
             PROVE  \E j \in 1..Len(times) :
                      e.level + (Len(times) - j + 1) * interval
                        = cap + (e.last - times[j]) * capacity
  BY DEF Owed, e, cap
<1>2. b # NoBucket
  BY DEF e, Current, Full, cap
<1>3. /\ b.level \in Nat /\ b.last \in Nat /\ b.last <= now /\ now - b.last \in Nat
      /\ b.level <= cap
  BY <1>2 DEF Bucket, Pays, cap
<1>4. (now - b.last) * capacity \in Nat
  BY <1>3, ProductNat
<1>5. e.level = Least(cap, x) /\ e.last = now
  BY <1>2 DEF e, Current, Refilled, cap
<1>6. e.level = x
  BY <1>5 DEF Least
<1>7. b.level # cap
  BY <1>1, <1>3, <1>4, <1>5 DEF Least
<1>8. PICK j \in 1..Len(times) :
        b.level + (Len(times) - j + 1) * interval = cap + (b.last - times[j]) * capacity
  BY <1>2, <1>7 DEF Owed, cap
<1>9. times[j] \in Nat /\ times[j] <= b.last /\ Len(times) - j + 1 \in Nat
  BY <1>2 DEF Pays
<1>10. (Len(times) - j + 1) * interval \in Nat
  BY <1>9, ProductNat
<1>11. x + (Len(times) - j + 1) * interval = cap + (now - times[j]) * capacity
  <2> DEFINE level == b.level
             last == b.last
             t == times[j]
             paid == (Len(times) - j + 1) * interval
  <2>1. /\ capacity \in Nat /\ level \in Nat /\ last \in Nat /\ t \in Nat /\ paid \in Nat
        /\ t <= last /\ last <= now /\ level + paid = cap + (last - t) * capacity
    BY <1>3, <1>8, <1>9, <1>10
  <2> HIDE DEF level, last, t, paid
  <2>2. (level + (now - last) * capacity) + paid = cap + (now - t) * capacity
    BY ONLY <1>1, <2>1, now \in Nat, InflowOwes
  <2> QED
    BY <2>2 DEF level, last, t, paid
<1> QED
  BY <1>5, <1>6, <1>11, Zenon

\* A token taken is owed to the call it grants, or to whom the rest was owed.
LEMMA TakenOwes ==
  ASSUME NEW b \in Bucket, NEW times \in Seq(Nat), now \in Nat, b.last = now,
         NEW capacity \in Nat \ {0}, NEW interval \in Nat \ {0},
         Pays(b, times, capacity, interval), Owed(b, times, capacity, interval),
         HasToken(b, interval)
  PROVE  Owed(Taken(b, interval), Append(times, now), capacity, interval)
<1> DEFINE cap == capacity * interval
           e == Taken(b, interval)
           more == Append(times, now)
<1>1. /\ cap \in Nat /\ b.level \in Nat /\ b # NoBucket /\ b.level >= interval
      /\ interval \in Nat
  BY Products, ConstantsAssumption DEF Bucket, HasToken
<1>2. e.level = b.level - interval /\ e.last = now
  BY DEF Taken
<1>3. Len(more) = Len(times) + 1
  OBVIOUS
<1>4. CASE b.level = cap
  <2>1. /\ Len(times) + 1 \in 1..Len(more) /\ more[Len(times) + 1] = now
        /\ Len(more) - (Len(times) + 1) + 1 = 1
    OBVIOUS
  <2>2. (now - now) * capacity = 0 /\ 1 * interval = interval
    BY SMT
  <2> HIDE DEF cap, e, more
  <2>3. e.level + 1 * interval = cap + (now - now) * capacity
    BY <1>1, <1>2, <1>4, <2>2
  <2>4. \E j \in 1..Len(more) :
          e.level + (Len(more) - j + 1) * interval = cap + (e.last - more[j]) * capacity
    BY <1>2, <2>1, <2>3, Zenon
  <2> QED
    BY <2>4, Zenon DEF Owed, e, cap, more
<1>5. CASE b.level # cap
  <2>1. PICK j \in 1..Len(times) :
          b.level + (Len(times) - j + 1) * interval = cap + (b.last - times[j]) * capacity
    BY <1>1, <1>5 DEF Owed
  <2> DEFINE n == Len(times) - j + 1
  <2>2. j \in 1..Len(more) /\ more[j] = times[j] /\ Len(more) - j + 1 = n + 1 /\ n \in Nat
    OBVIOUS
  <2>3. times[j] <= now /\ now - times[j] \in Nat
    <3>1. times[j] \in Nat
      OBVIOUS
    <3>2. times[j] <= now
      BY <1>1, Zenon DEF Pays
    <3> QED
      BY <3>1, <3>2
  <2>4. b.level + n * interval = cap + (now - times[j]) * capacity
    BY <2>1
  <2> HIDE DEF cap, e, more, n
  <2>5. /\ (n + 1) * interval = n * interval + interval
        /\ n * interval \in Nat
        /\ (now - times[j]) * capacity \in Nat
    BY <2>2, <2>3, Products
  <2>6. e.level + (n + 1) * interval = cap + (now - times[j]) * capacity
    <3> DEFINE p == n * interval
               q == (now - times[j]) * capacity
    <3>1. p \in Nat /\ q \in Nat /\ (n + 1) * interval = p + interval /\ b.level + p = cap + q
      BY <2>4, <2>5
    <3> HIDE DEF p, q
    <3>2. e.level + (p + interval) = cap + q
      BY <1>1, <1>2, <3>1
    <3> QED
      BY <3>1, <3>2, Zenon DEF q
  <2>7. \E k \in 1..Len(more) :
          e.level + (Len(more) - k + 1) * interval = cap + (e.last - more[k]) * capacity
    BY <1>2, <2>2, <2>6, Zenon
  <2> QED
    BY <2>7, Zenon DEF Owed, e, cap, more
<1> QED
  BY <1>4, <1>5

\* A bucket without a token owes so much that another call would exceed the
\* limit, and one with a token leaves room for a call.
LEMMA TokenIffBounded ==
  ASSUME NEW b \in Bucket, NEW times \in Seq(Nat), now \in Nat, b.last = now,
         NEW capacity \in Nat \ {0}, NEW interval \in Nat \ {0},
         Bounded(times, capacity, interval),
         Pays(b, times, capacity, interval), Owed(b, times, capacity, interval)
  PROVE  HasToken(b, interval) <=> Bounded(Append(times, now), capacity, interval)
<1>1. CASE HasToken(b, interval)
  <2>1. /\ Taken(b, interval) \in Bucket
        /\ Pays(Taken(b, interval), Append(times, now), capacity, interval)
    BY <1>1, TakenPays
  <2>2. Taken(b, interval).last = now
    BY DEF Taken
  <2> QED
    BY <1>1, <2>1, <2>2, AppendBounded
<1>2. CASE ~HasToken(b, interval)
  <2> DEFINE cap == capacity * interval
             more == Append(times, now)
  <2>1. cap \in Nat /\ cap >= interval /\ interval \in Nat
    BY FullHasToken
  <2>2. b.level \in Nat /\ ~(b.level >= interval) /\ b # NoBucket
    BY <1>2, ConstantsAssumption DEF Bucket, HasToken
  <2>3. b.level # cap
    BY <2>1, <2>2
  <2>4. PICK j \in 1..Len(times) :
          b.level + (Len(times) - j + 1) * interval = cap + (b.last - times[j]) * capacity
    BY <2>2, <2>3 DEF Owed
  <2> DEFINE k == Len(times) + 1
             n == Len(times) - j + 1
  <2>5. /\ k \in 1..Len(more) /\ j \in 1..k
        /\ more[k] = now /\ more[j] = times[j] /\ k - j + 1 = n + 1 /\ n \in Nat
    OBVIOUS
  <2>6. now - times[j] \in Nat
    <3>1. times[j] \in Nat
      OBVIOUS
    <3>2. times[j] <= now
      BY <2>2, Zenon DEF Pays
    <3> QED
      BY <3>1, <3>2
  <2>7. b.level + n * interval = cap + (now - times[j]) * capacity
    BY <2>4
  <2> HIDE DEF cap, n, k, more
  <2>8. /\ (n + 1) * interval = n * interval + interval
        /\ n * interval \in Nat
        /\ (now - times[j]) * capacity \in Nat
    BY <2>5, <2>6, Products
  <2>9. ~((n + 1) * interval <= cap + (now - times[j]) * capacity)
    <3> DEFINE p == n * interval
               q == (now - times[j]) * capacity
    <3>1. p \in Nat /\ q \in Nat /\ (n + 1) * interval = p + interval /\ b.level + p = cap + q
      BY <2>7, <2>8
    <3> HIDE DEF p, q
    <3>2. ~(p + interval <= cap + q)
      BY <2>1, <2>2, <3>1
    <3> QED
      BY <3>1, <3>2, Zenon DEF q
  <2>10. ~((k - j + 1) * interval <= cap + (more[k] - more[j]) * capacity)
    BY <2>5, <2>9, Zenon
  <2>11. ~Bounded(more, capacity, interval)
    BY <2>5, <2>10, Zenon DEF Bounded, cap
  <2> QED
    BY <1>2, <2>11 DEF more
<1> QED
  BY <1>1, <1>2

\* The initial state satisfies the invariant: there is no bucket, no call.
LEMMA InitLimitInv == Init => LimitInv
  BY DEF Init, LimitInv, TypeOK, BucketsPay, Pays, LimitsHold, Bounded, LevelsOwed, Owed

\* The clock only lets more flow in.
LEMMA TickLimitInv == LimitInv /\ Tick => LimitInv'
<1> SUFFICES ASSUME LimitInv, Tick PROVE LimitInv'
  OBVIOUS
<1>1. now' = now + 1 /\ now \in Nat /\ UNCHANGED <<minute, hour, granted, promise, obeyed>>
  BY DEF Tick, LimitInv, TypeOK
<1>2. TypeOK' /\ LimitsHold'
  BY <1>1 DEF LimitInv, TypeOK, LimitsHold, Bounded
<1>3. ASSUME NEW b \in Bucket \cup {NoBucket}, NEW times, NEW c, NEW n, Pays(b, times, c, n)
      PROVE  Pays(b, times, c, n)'
  BY <1>1, <1>3 DEF Pays, Bucket
<1>4. BucketsPay'
  BY <1>1, <1>3 DEF LimitInv, TypeOK, BucketsPay
<1>5. LevelsOwed'
  BY <1>1 DEF LimitInv, LevelsOwed, Owed
<1> QED
  BY <1>2, <1>4, <1>5 DEF LimitInv

\* A refusal or a grant brings both buckets up to date and logs a grant.
LEMMA CheckLimitInv ==
  ASSUME LimitInv, NEW i \in Ids, Check(i)
  PROVE  LimitInv'
<1> DEFINE mb == MinuteNow(i)
           hb == HourNow(i)
<1> USE DEF LimitInv
<1>1. /\ now \in Nat /\ now' = now
      /\ minute[i] \in Bucket \cup {NoBucket} /\ hour[i] \in Bucket \cup {NoBucket}
      /\ granted[i] \in Seq(Nat)
      /\ {PerMinute, PerHour, Minute, Hour} \subseteq Nat \ {0}
  BY ConstantsAssumption DEF TypeOK, Check, RefuseMinute, RefuseHour, Refuse, Grant
<1>2. /\ mb \in Bucket /\ mb.last = now /\ Pays(mb, granted[i], PerMinute, Minute)
      /\ hb \in Bucket /\ hb.last = now /\ Pays(hb, granted[i], PerHour, Hour)
  BY <1>1, CurrentPays DEF MinuteNow, HourNow, BucketsPay
<1>2b. Owed(mb, granted[i], PerMinute, Minute) /\ Owed(hb, granted[i], PerHour, Hour)
  BY <1>1, CurrentOwes DEF MinuteNow, HourNow, BucketsPay, LevelsOwed
<1> HIDE DEF mb, hb
<1>3. PICK m \in Bucket, h \in Bucket :
        /\ minute' = [minute EXCEPT ![i] = m]
        /\ hour' = [hour EXCEPT ![i] = h]
        /\ granted' \in [Ids -> Seq(Nat)]
        /\ \A x \in Ids \ {i} : granted'[x] = granted[x]
        /\ Pays(m, granted'[i], PerMinute, Minute)
        /\ Pays(h, granted'[i], PerHour, Hour)
        /\ Bounded(granted'[i], PerMinute, Minute)
        /\ Bounded(granted'[i], PerHour, Hour)
        /\ Owed(m, granted'[i], PerMinute, Minute)
        /\ Owed(h, granted'[i], PerHour, Hour)
  <2>1. CASE RefuseMinute(i) \/ RefuseHour(i)
    <3>1. /\ minute' = [minute EXCEPT ![i] = mb]
          /\ hour' = [hour EXCEPT ![i] = hb]
          /\ granted' = granted
      BY <2>1 DEF RefuseMinute, RefuseHour, Refuse, Set, mb, hb
    <3> QED
      BY <1>2, <1>2b, <3>1 DEF TypeOK, LimitsHold
  <2>2. CASE Grant(i)
    <3> DEFINE more == Append(granted[i], now)
    <3>1. /\ minute' = [minute EXCEPT ![i] = Taken(mb, Minute)]
          /\ hour' = [hour EXCEPT ![i] = Taken(hb, Hour)]
          /\ granted' = [granted EXCEPT ![i] = more]
          /\ HasToken(mb, Minute) /\ HasToken(hb, Hour)
      BY <2>2 DEF Grant, Set, mb, hb
    <3>2. /\ Taken(mb, Minute) \in Bucket /\ Pays(Taken(mb, Minute), more, PerMinute, Minute)
          /\ Taken(hb, Hour) \in Bucket /\ Pays(Taken(hb, Hour), more, PerHour, Hour)
      BY <1>1, <1>2, <3>1, TakenPays
    <3>3. Taken(mb, Minute).last = now /\ Taken(hb, Hour).last = now
      BY <1>2 DEF Taken
    <3>4. Bounded(more, PerMinute, Minute) /\ Bounded(more, PerHour, Hour)
      BY <1>1, <3>2, <3>3, AppendBounded DEF LimitsHold
    <3>5. more \in Seq(Nat)
      BY <1>1
    <3>6. /\ Owed(Taken(mb, Minute), more, PerMinute, Minute)
          /\ Owed(Taken(hb, Hour), more, PerHour, Hour)
      BY <1>1, <1>2, <1>2b, <3>1, TakenOwes
    <3> HIDE DEF more
    <3> QED
      BY <3>1, <3>2, <3>4, <3>5, <3>6 DEF TypeOK
  <2> QED
    BY <2>1, <2>2 DEF Check
<1>4. promise' \in [Ids -> Nat] /\ obeyed' \in [Ids -> Nat]
  <2>1. CASE RefuseMinute(i)
    <3>1. PICK told \in Told(mb, PerMinute, Minute, Half) : Refuse(i, told)
      BY <2>1 DEF RefuseMinute, mb
    <3>2. told \in Nat
      BY <1>1, <1>2, <2>1, ToldIsClose DEF RefuseMinute, mb
    <3> QED
      BY <1>1, <3>1, <3>2 DEF Refuse, Promise, TypeOK
  <2>2. CASE RefuseHour(i)
    <3>1. PICK told \in Told(hb, PerHour, Hour, Half) : Refuse(i, told)
      BY <2>2 DEF RefuseHour, hb
    <3>2. told \in Nat
      BY <1>1, <1>2, <2>2, ToldIsClose DEF RefuseHour, hb
    <3> QED
      BY <1>1, <3>1, <3>2 DEF Refuse, Promise, TypeOK
  <2>3. CASE Grant(i)
    BY <2>3 DEF Grant, TypeOK
  <2> QED
    BY <2>1, <2>2, <2>3 DEF Check
<1>5. TypeOK'
  BY <1>1, <1>3, <1>4 DEF TypeOK
<1>6. \A b, times, c, n : Pays(b, times, c, n)' <=> Pays(b, times, c, n)
  BY <1>1 DEF Pays
<1>7. BucketsPay'
  <2> SUFFICES ASSUME NEW x \in Ids
               PROVE  /\ Pays(minute'[x], granted'[x], PerMinute, Minute)
                      /\ Pays(hour'[x], granted'[x], PerHour, Hour)
    BY <1>6 DEF BucketsPay
  <2>1. CASE x = i
    BY <1>3, <2>1 DEF TypeOK
  <2>2. CASE x # i
    BY <1>3, <2>2 DEF TypeOK, BucketsPay
  <2> QED
    BY <2>1, <2>2
<1>8. LimitsHold'
  <2> SUFFICES ASSUME NEW x \in Ids
               PROVE  /\ Bounded(granted'[x], PerMinute, Minute)
                      /\ Bounded(granted'[x], PerHour, Hour)
    BY DEF LimitsHold, Bounded
  <2> QED
    BY <1>3 DEF LimitsHold
<1>9. LevelsOwed'
  <2> SUFFICES ASSUME NEW x \in Ids
               PROVE  /\ Owed(minute'[x], granted'[x], PerMinute, Minute)
                      /\ Owed(hour'[x], granted'[x], PerHour, Hour)
    BY DEF LevelsOwed, Owed
  <2>1. CASE x = i
    BY <1>3, <2>1 DEF TypeOK
  <2>2. CASE x # i
    BY <1>3, <2>2 DEF TypeOK, LevelsOwed
  <2> QED
    BY <2>1, <2>2
<1> QED
  BY <1>5, <1>7, <1>8, <1>9

\* For every capacity, interval and set of tokens, what a bucket holds and
\* has paid out since any granted call is no more than what it could.
THEOREM LimitInvariant == Spec => []LimitInv
<1>1. LimitInv /\ UNCHANGED vars => LimitInv'
  BY DEF vars, LimitInv, TypeOK, BucketsPay, Pays, LimitsHold, Bounded, LevelsOwed, Owed
<1>2. LimitInv /\ [Next]_vars => LimitInv'
  BY <1>1, TickLimitInv, CheckLimitInv DEF Next
<1> QED
  BY <1>2, InitLimitInv, PTL DEF Spec

\* No bucket is ever overdrawn below zero, and no wait is negative.
THEOREM TypeCorrect == Spec => []TypeOK
<1>1. LimitInv => TypeOK
  BY DEF LimitInv
<1> QED
  BY <1>1, LimitInvariant, PTL

\* No stretch of time ever sees more granted calls than the two limits
\* allow, whatever the pattern of calls.
THEOREM LimitsAreKept == Spec => []LimitsHold
<1>1. LimitInv => LimitsHold
  BY DEF LimitInv
<1> QED
  BY <1>1, LimitInvariant, PTL

\* A call asks for tokens that are there exactly if it fits.
LEMMA CheckGrantsWhatFits ==
  ASSUME LimitInv, NEW i \in Ids, Check(i)
  PROVE  granted'[i] # granted[i] <=> Fits(i)
<1> DEFINE mb == MinuteNow(i)
           hb == HourNow(i)
<1>1. /\ now \in Nat
      /\ minute[i] \in Bucket \cup {NoBucket} /\ hour[i] \in Bucket \cup {NoBucket}
      /\ granted[i] \in Seq(Nat) /\ granted \in [Ids -> Seq(Nat)]
      /\ {PerMinute, PerHour, Minute, Hour} \subseteq Nat \ {0}
  BY ConstantsAssumption DEF LimitInv, TypeOK
<1>2. /\ mb \in Bucket /\ mb.last = now /\ Pays(mb, granted[i], PerMinute, Minute)
      /\ hb \in Bucket /\ hb.last = now /\ Pays(hb, granted[i], PerHour, Hour)
  BY <1>1, CurrentPays DEF MinuteNow, HourNow, BucketsPay, LimitInv
<1>3. Owed(mb, granted[i], PerMinute, Minute) /\ Owed(hb, granted[i], PerHour, Hour)
  BY <1>1, CurrentOwes DEF MinuteNow, HourNow, BucketsPay, LevelsOwed, LimitInv
<1>4. Bounded(granted[i], PerMinute, Minute) /\ Bounded(granted[i], PerHour, Hour)
  BY DEF LimitInv, LimitsHold
<1> HIDE DEF mb, hb
<1>5. Fits(i) <=> HasToken(mb, Minute) /\ HasToken(hb, Hour)
  <2>1. HasToken(mb, Minute) <=> Bounded(Append(granted[i], now), PerMinute, Minute)
    BY <1>1, <1>2, <1>3, <1>4, TokenIffBounded
  <2>2. HasToken(hb, Hour) <=> Bounded(Append(granted[i], now), PerHour, Hour)
    BY <1>1, <1>2, <1>3, <1>4, TokenIffBounded
  <2> QED
    BY <2>1, <2>2 DEF Fits
<1>6. granted'[i] # granted[i] <=> HasToken(mb, Minute) /\ HasToken(hb, Hour)
  <2>1. CASE Grant(i)
    <3>1. granted'[i] = Append(granted[i], now)
      BY <1>1, <2>1 DEF Grant
    <3>2. Append(granted[i], now) # granted[i]
      <4>1. Len(Append(granted[i], now)) = Len(granted[i]) + 1 /\ Len(granted[i]) \in Nat
        BY <1>1
      <4> QED
        BY <4>1
    <3> QED
      BY <2>1, <3>1, <3>2 DEF Grant, mb, hb
  <2>2. CASE RefuseMinute(i) \/ RefuseHour(i)
    BY <2>2 DEF RefuseMinute, RefuseHour, Refuse, mb, hb
  <2> QED
    BY <2>1, <2>2 DEF Check
<1> QED
  BY <1>5, <1>6

\* For every capacity, interval and set of tokens: a call is let through if and
\* only if with it no stretch of time exceeds either limit.
THEOREM GrantsAreExact == Spec => GrantsWhatFits
<1>1. LimitInv /\ [Next]_vars =>
        [\A i \in Ids : Check(i) => (granted'[i] # granted[i] <=> Fits(i))]_vars
  BY CheckGrantsWhatFits
<1> QED
  BY <1>1, LimitInvariant, PTL DEF Spec, GrantsWhatFits

\* A bucket that lacks a token has one half a tenth of a second after the wait.
LEMMA WaitRipens ==
  ASSUME NEW b \in Bucket, NEW capacity \in Nat \ {0}, NEW interval \in Nat \ {0},
         now \in Nat, b.last = now, ~HasToken(b, interval),
         NEW w \in Told(b, capacity, interval, Half)
  PROVE  w \in Nat /\ Ripe(b, now + w + Half, capacity, interval)
<1>1. w \in Nat /\ Half \in Nat /\ b.level + (w + Half) * capacity >= interval
  BY ToldIsClose, ConstantsAssumption
<1>2. b.last <= now + w + Half /\ now + w + Half - b.last = w + Half
  BY <1>1
<1>3. b # NoBucket
  BY ConstantsAssumption
<1> QED
  BY <1>1, <1>2, <1>3 DEF Ripe

\* A bucket that has a token still has it later.
LEMMA TokenIsRipe ==
  ASSUME NEW b \in Bucket, NEW capacity \in Nat, NEW interval \in Nat, NEW w \in Nat,
         now \in Nat, b.last = now, HasToken(b, interval)
  PROVE  Ripe(b, now + w, capacity, interval)
<1>1. b.level \in Nat /\ b.level >= interval /\ b # NoBucket
  BY ConstantsAssumption DEF Bucket, HasToken
<1>2. b.last <= now + w /\ now + w - b.last = w
  OBVIOUS
<1>3. w * capacity \in Nat
  BY ProductNat
<1>4. b.level + w * capacity >= interval
  BY <1>1, <1>3
<1> QED
  BY <1>1, <1>2, <1>4 DEF Ripe

\* Whoever asks a bucket that is ripe, when it is, finds a token.
LEMMA RipeHasToken ==
  ASSUME NEW b \in Bucket \cup {NoBucket}, NEW t \in Nat, now \in Nat, t <= now,
         NEW capacity \in Nat \ {0}, NEW interval \in Nat \ {0},
         Ripe(b, t, capacity, interval)
  PROVE  HasToken(Current(b, capacity, interval), interval)
<1> DEFINE x == t - b.last
           y == now - t
<1>1. b # NoBucket /\ b.level \in Nat /\ b.last \in Nat /\ b.last <= t
  BY DEF Ripe, Bucket
<1>2. x \in Nat /\ y \in Nat /\ now - b.last = x + y /\ b.level + x * capacity >= interval
  BY <1>1 DEF Ripe
<1> HIDE DEF x, y
<1>3. /\ (x + y) * capacity = x * capacity + y * capacity
      /\ x * capacity \in Nat /\ y * capacity \in Nat
  BY <1>2, Products
<1>4. b.level + (x + y) * capacity >= interval
  BY <1>1, <1>2, <1>3
<1>5. capacity * interval >= interval /\ capacity * interval \in Nat
  BY FullHasToken
<1>6. Current(b, capacity, interval).level
        = Least(capacity * interval, b.level + (x + y) * capacity)
  BY <1>1, <1>2 DEF Current, Refilled
<1> QED
  BY <1>4, <1>5, <1>6 DEF HasToken, Least

\* A refusal after one wait is the hour's, and after two there is none.
LEMMA CheckRipens ==
  ASSUME LimitInv, WaitsRipen, TwoWaitsSuffice, NEW i \in Ids, Check(i)
  PROVE  WaitsRipen' /\ TwoWaitsSuffice'
<1> DEFINE mb == MinuteNow(i)
           hb == HourNow(i)
<1>1. /\ now \in Nat
      /\ minute[i] \in Bucket \cup {NoBucket} /\ hour[i] \in Bucket \cup {NoBucket}
      /\ granted[i] \in Seq(Nat) /\ promise[i] \in Nat /\ obeyed[i] \in Nat
      /\ {PerMinute, PerHour, Minute, Hour, Half} \subseteq Nat \ {0}
      /\ promise[i] + Half \in Nat
  BY ConstantsAssumption DEF LimitInv, TypeOK
<1>2. mb \in Bucket /\ mb.last = now /\ hb \in Bucket /\ hb.last = now
  BY <1>1, CurrentPays DEF MinuteNow, HourNow, BucketsPay, LimitInv
<1>3. obeyed[i] >= 1 /\ now >= promise[i] + Half => HasToken(mb, Minute)
  BY <1>1, RipeHasToken DEF WaitsRipen, MinuteNow
<1>4. obeyed[i] >= 2 /\ now >= promise[i] + Half => HasToken(hb, Hour)
  BY <1>1, RipeHasToken DEF WaitsRipen, HourNow
<1> HIDE DEF mb, hb
<1>5. /\ \A x \in Ids \ {i} : /\ minute'[x] = minute[x] /\ hour'[x] = hour[x]
                              /\ promise'[x] = promise[x] /\ obeyed'[x] = obeyed[x]
      /\ obeyed'[i] <= 2
      /\ obeyed'[i] >= 1 => Ripe(minute'[i], promise'[i] + Half, PerMinute, Minute)
      /\ obeyed'[i] >= 2 => Ripe(hour'[i], promise'[i] + Half, PerHour, Hour)
  <2>1. ASSUME NEW w \in Nat, Refuse(i, w)
        PROVE  /\ \A x \in Ids \ {i} : /\ minute'[x] = minute[x] /\ hour'[x] = hour[x]
                                     /\ promise'[x] = promise[x] /\ obeyed'[x] = obeyed[x]
               /\ minute'[i] = mb /\ hour'[i] = hb /\ promise'[i] = now + w
               /\ obeyed'[i] = IF now >= promise[i] + Half THEN obeyed[i] + 1 ELSE 1
    BY <2>1 DEF Refuse, Promise, Set, LimitInv, TypeOK, mb, hb
  <2>2. CASE RefuseMinute(i)
    <3>0. ~HasToken(mb, Minute)
      BY <2>2 DEF RefuseMinute, mb
    <3>1. PICK w \in Told(mb, PerMinute, Minute, Half) : Refuse(i, w)
      BY <2>2 DEF RefuseMinute, mb
    <3>2. w \in Nat /\ Ripe(mb, now + w + Half, PerMinute, Minute)
      BY <1>1, <1>2, <3>0, WaitRipens
    <3>3. now >= promise[i] + Half => obeyed[i] = 0
      BY <1>1, <1>3, <3>0
    <3>4. obeyed'[i] = 1
      BY <2>1, <3>1, <3>2, <3>3
    <3>5. obeyed'[i] <= 2 /\ ~(obeyed'[i] >= 2)
      BY <3>4
    <3>6. /\ \A x \in Ids \ {i} : /\ minute'[x] = minute[x] /\ hour'[x] = hour[x]
                                /\ promise'[x] = promise[x] /\ obeyed'[x] = obeyed[x]
          /\ minute'[i] = mb /\ hour'[i] = hb /\ promise'[i] = now + w
      BY <2>1, <3>1, <3>2, Zenon
    <3> QED
      BY <3>2, <3>5, <3>6, Zenon
  <2>3. CASE RefuseHour(i)
    <3>0. HasToken(mb, Minute) /\ ~HasToken(hb, Hour)
      BY <2>3 DEF RefuseHour, mb, hb
    <3>1. PICK w \in Told(hb, PerHour, Hour, Half) : Refuse(i, w)
      BY <2>3 DEF RefuseHour, hb
    <3>2. w \in Nat /\ Ripe(hb, now + w + Half, PerHour, Hour)
      BY <1>1, <1>2, <3>0, WaitRipens
    <3>3. Ripe(mb, now + w + Half, PerMinute, Minute)
      <4>1. w + Half \in Nat /\ now + (w + Half) = now + w + Half
        BY <1>1, <3>2
      <4> QED
        BY <1>1, <1>2, <3>0, <4>1, TokenIsRipe
    <3>4. now >= promise[i] + Half => obeyed[i] <= 1
      BY <1>1, <1>4, <3>0
    <3>5. obeyed'[i] <= 2
      BY <1>1, <2>1, <3>1, <3>2, <3>4
    <3>6. /\ \A x \in Ids \ {i} : /\ minute'[x] = minute[x] /\ hour'[x] = hour[x]
                                /\ promise'[x] = promise[x] /\ obeyed'[x] = obeyed[x]
          /\ minute'[i] = mb /\ hour'[i] = hb /\ promise'[i] = now + w
      BY <2>1, <3>1, <3>2, Zenon
    <3> QED
      BY <3>2, <3>3, <3>5, <3>6, Zenon
  <2>4. CASE Grant(i)
    BY <2>4 DEF Grant, Set, LimitInv, TypeOK
  <2> QED
    BY <2>2, <2>3, <2>4 DEF Check
<1>6. ASSUME NEW x \in Ids
      PROVE  /\ obeyed'[x] <= 2
             /\ obeyed'[x] >= 1 => Ripe(minute'[x], promise'[x] + Half, PerMinute, Minute)
             /\ obeyed'[x] >= 2 => Ripe(hour'[x], promise'[x] + Half, PerHour, Hour)
  <2>1. CASE x = i
    BY <1>5, <2>1
  <2>2. CASE x # i
    BY <1>5, <2>2 DEF WaitsRipen, TwoWaitsSuffice
  <2> QED
    BY <2>1, <2>2
<1>7. \A b, t, c, n : Ripe(b, t, c, n)' <=> Ripe(b, t, c, n)
  BY DEF Ripe
<1> QED
  BY <1>6 DEF WaitsRipen, TwoWaitsSuffice, Ripe

\* For every limit, interval and rounding: a caller who comes back half a tenth
\* of a second after the time told, and does so again, is let through, though
\* either bucket may be the empty one and every told wait too short.
THEOREM TwoWaitsAreEnough == Spec => []TwoWaitsSuffice
<1> DEFINE Inv == LimitInv /\ WaitsRipen /\ TwoWaitsSuffice
<1>1. Init => WaitsRipen /\ TwoWaitsSuffice
  BY DEF Init, WaitsRipen, TwoWaitsSuffice
<1>2. Inv /\ [Next]_vars => Inv'
  <2> SUFFICES ASSUME Inv, [Next]_vars PROVE Inv'
    OBVIOUS
  <2>1. LimitInv'
    <3>1. UNCHANGED vars => LimitInv'
      BY DEF vars, LimitInv, TypeOK, BucketsPay, Pays, LimitsHold, Bounded, LevelsOwed, Owed
    <3> QED
      BY <3>1, TickLimitInv, CheckLimitInv DEF Next
  <2>2. CASE UNCHANGED vars \/ Tick
    <3>1. UNCHANGED <<minute, hour, promise, obeyed>>
      BY <2>2 DEF vars, Tick
    <3> QED
      BY <2>1, <3>1 DEF WaitsRipen, TwoWaitsSuffice, Ripe
  <2>3. ASSUME NEW i \in Ids, Check(i) PROVE WaitsRipen' /\ TwoWaitsSuffice'
    BY <2>3, CheckRipens
  <2> QED
    BY <2>1, <2>2, <2>3 DEF Next
<1>3. Inv => TwoWaitsSuffice
  OBVIOUS
<1> HIDE DEF Inv
<1>4. Spec => []Inv
  BY <1>1, <1>2, InitLimitInv, PTL DEF Spec, Inv
<1> QED
  BY <1>3, <1>4, PTL

=============================================================================
