--------------------------- MODULE RateLimiterProofs ----------------------------
(***************************************************************************)
(* What the rate limiter keeps, for any number of checks and users, any    *)
(* limits and any times.  Two things carry it: a bucket never holds more   *)
(* than the ideal bucket it stands for (Covered), because a key lives      *)
(* longer than its bucket takes to fill; and a check knows the buckets it  *)
(* has been charged (Sound).                                               *)
(***************************************************************************)
EXTENDS RateLimiter, TLAPS

Check ==
  [at : {"load", "evalsha", "eval"}, user : User, key : Key, resent : Nat, charges : Nat,
   charged : SUBSET Key]

Passed == [at : {"admitted"}, user : User, charged : SUBSET Key]

\* A check is charged its user's bucket before the tenant's, and a bucket at most once for
\* each reply that was lost.
Sound(x) ==
  \/ x = Idle
  \/ x \in Passed /\ x.user \in x.charged /\ Tenant \in x.charged
  \/ /\ x \in Check
     /\ x.key \in {x.user, Tenant}
     /\ x.key = Tenant \/ Tenant \in x.charged => x.user \in x.charged
     /\ x.charges <= x.resent

ChecksInv == call \in [Caller -> {Idle} \cup Passed \cup Check] /\ \A c \in Caller : Sound(call[c])

BucketsTyped ==
  /\ time \in Nat /\ skew \in Nat
  /\ bucket \in [Key -> [exists : BOOLEAN, tokens : Int, ts : Int, expires : Int]]
  /\ allowance \in [Key -> Int]

Filled == \A k \in Key : /\ bucket[k].tokens \in 0..Full(Limit(k))
                         /\ bucket[k].exists => bucket[k].expires = bucket[k].ts + Ttl(Limit(k))

\* What the script would find is no more than what is left of the ideal bucket.
Covered == \A k \in Key : Refills(Limit(k)) => Available(k, Now) <= allowance[k]

BucketsInv == BucketsTyped /\ Filled /\ Covered

LimiterInv == ChecksInv /\ BucketsInv

-------------------------------------------------------------------------------
(* Arithmetic *)

LEMMA CeilDivBounds ==
  ASSUME NEW a \in Nat, NEW b \in Nat \ {0}
  PROVE  /\ CeilDiv(a, b) \in Nat
         /\ a <= CeilDiv(a, b) * b
         /\ (CeilDiv(a, b) - 1) * b < a
<1> DEFINE n == a + b - 1
           q == n \div b
<1>1. n \in Nat
  OBVIOUS
<1>2. q \in Nat /\ q * b <= n /\ n < q * b + b
  BY <1>1, Z3
<1>3. (q - 1) * b = q * b - b
  BY <1>2, Z3
<1> HIDE DEF q
<1>4. a <= q * b /\ (q - 1) * b < a
  BY <1>2, <1>3
<1> QED
  BY <1>2, <1>4 DEF q, CeilDiv

\* A limit's numbers are what they are called.
LEMMA LimitNumbers ==
  ASSUME NEW k \in Key
  PROVE  /\ Limit(k).capacity \in Nat \ {0} /\ Limit(k).refillTokens \in Nat
         /\ Limit(k).refillIntervalMs \in Nat
         /\ Token(Limit(k)) \in Nat \ {0} /\ Full(Limit(k)) \in Nat
         /\ Token(Limit(k)) <= Full(Limit(k))
         /\ Ttl(Limit(k)) \in Nat \ {0}
<1> DEFINE l == Limit(k)
<1>1. l \in BucketConfig
  BY LimitAssumption DEF Limit
<1> HIDE DEF l
<1>2. l.capacity \in Nat \ {0} /\ l.refillTokens \in Nat /\ l.refillIntervalMs \in Nat
  BY <1>1 DEF BucketConfig
<1>3. Token(l) \in Nat \ {0}
  BY <1>2 DEF Token, Refills
<1>4. Full(l) \in Nat /\ Token(l) <= Full(l)
  <2>1. \A c, t \in Nat \ {0} : c * t \in Nat /\ t <= c * t
    BY Z3
  <2> QED
    BY <1>2, <1>3, <2>1 DEF Full
<1>5. Ttl(l) \in Nat \ {0}
  <2>1. AtLeast(l.refillTokens, 1) \in Nat \ {0}
    BY <1>2 DEF AtLeast
  <2>2. l.capacity * l.refillIntervalMs \in Nat
    BY <1>2
  <2>3. CeilDiv(l.capacity * l.refillIntervalMs, AtLeast(l.refillTokens, 1)) \in Nat
    BY <2>1, <2>2, CeilDivBounds
  <2> QED
    BY <2>3, LimitAssumption DEF Ttl, AtLeast
<1> QED
  BY <1>2, <1>3, <1>4, <1>5 DEF l

\* A key lives at least as long as its bucket takes to fill (ttlMs).
LEMMA FullBeforeExpiry ==
  ASSUME NEW k \in Key, Refills(Limit(k))
  PROVE  Full(Limit(k)) <= Ttl(Limit(k)) * Limit(k).refillTokens
<1> DEFINE l == Limit(k)
           R == l.refillTokens
           q == CeilDiv(Full(l), R)
<1>1. R \in Nat \ {0} /\ Full(l) \in Nat /\ Ttl(l) \in Nat
  BY LimitNumbers DEF Refills
<1>2. q \in Nat /\ Full(l) <= q * R
  BY <1>1, CeilDivBounds
<1>3. 2 * q <= Ttl(l)
  <2>1. Full(l) = l.capacity * l.refillIntervalMs
    BY DEF Full, Token
  <2>2. AtLeast(R, 1) = R
    BY <1>1 DEF AtLeast
  <2>3. Ttl(l) = AtLeast(2 * q, MinTtl)
    BY <2>1, <2>2 DEF Ttl
  <2> HIDE DEF q
  <2> QED
    BY <1>2, <2>3, LimitAssumption DEF AtLeast
<1> HIDE DEF q
<1>4. \A t, r, p \in Nat : 2 * p <= t => p * r <= t * r
  BY Z3
<1>5. q * R <= Ttl(l) * R
  BY <1>1, <1>2, <1>3, <1>4
<1> HIDE DEF l, R
<1>6. q * R \in Nat /\ Ttl(l) * R \in Nat
  BY <1>1, <1>2
<1>7. Full(l) <= Ttl(l) * R
  BY <1>1, <1>2, <1>5, <1>6
<1> QED
  BY <1>7 DEF l, R

-------------------------------------------------------------------------------
(* What the script finds in a bucket *)

LEMMA AvailableIs ==
  ASSUME NEW k \in Key, NEW n \in Int, BucketsTyped, Filled, Refills(Limit(k))
  PROVE  /\ Available(k, n) = IF Alive(k, n)
                              THEN AtMost(bucket[k].tokens
                                            + Elapsed(k, n) * Limit(k).refillTokens,
                                          Full(Limit(k)))
                              ELSE Full(Limit(k))
         /\ Elapsed(k, n) \in Nat
         /\ Elapsed(k, n) * Limit(k).refillTokens \in Nat
<1>1. Limit(k).refillTokens \in Nat /\ Full(Limit(k)) \in Nat
  BY LimitNumbers
<1>2. bucket[k].ts \in Int
  BY DEF BucketsTyped
<1>3. Elapsed(k, n) \in Nat /\ (~Alive(k, n) => Elapsed(k, n) = 0)
  BY <1>2 DEF Elapsed, AtLeast
<1>4. Elapsed(k, n) * Limit(k).refillTokens \in Nat
  BY <1>1, <1>3
<1>5. ~Alive(k, n) => Elapsed(k, n) * Limit(k).refillTokens = 0
  BY <1>1, <1>3
<1> QED
  BY <1>1, <1>3, <1>4, <1>5 DEF Available, AtMost

LEMMA AvailableTyped ==
  ASSUME NEW k \in Key, NEW n \in Int, BucketsTyped, Filled
  PROVE  Available(k, n) \in 0..Full(Limit(k))
<1>1. Full(Limit(k)) \in Nat /\ bucket[k].tokens \in 0..Full(Limit(k))
  BY LimitNumbers DEF Filled
<1>2. CASE Refills(Limit(k))
  BY <1>1, <1>2, AvailableIs DEF AtMost
<1>3. CASE ~Refills(Limit(k))
  BY <1>1, <1>3 DEF Available, AtMost
<1> QED
  BY <1>2, <1>3

\* A millisecond adds to a bucket, and never more than the refill of a millisecond: a key
\* that expires held a full bucket already.
LEMMA AvailableGrows ==
  ASSUME NEW k \in Key, NEW n \in Int, BucketsTyped, Filled, Refills(Limit(k))
  PROVE  /\ Available(k, n) <= Available(k, n + 1)
         /\ Available(k, n + 1) <= Available(k, n) + Limit(k).refillTokens
<1> DEFINE R == Limit(k).refillTokens
           F == Full(Limit(k))
           t == bucket[k].tokens
           e == Elapsed(k, n)
           d == Elapsed(k, n + 1)
<1>1. R \in Nat /\ F \in Nat /\ Ttl(Limit(k)) \in Nat /\ t \in 0..F
  BY LimitNumbers DEF Filled
<1>2. n + 1 \in Int
  OBVIOUS
<1>3. /\ Available(k, n) = IF Alive(k, n) THEN AtMost(t + e * R, F) ELSE F
      /\ e \in Nat /\ e * R \in Nat
  BY AvailableIs
<1>4. /\ Available(k, n + 1) = IF Alive(k, n + 1) THEN AtMost(t + d * R, F) ELSE F
      /\ d \in Nat /\ d * R \in Nat
  BY AvailableIs, <1>2
<1>5. bucket[k].ts \in Int /\ bucket[k].expires \in Int
  BY DEF BucketsTyped
<1>6. CASE ~Alive(k, n)
  <2>1. ~Alive(k, n + 1)
    BY <1>5, <1>6 DEF Alive
  <2> QED
    BY <1>1, <1>3, <1>4, <1>6, <2>1
<1>7. CASE Alive(k, n) /\ Alive(k, n + 1)
  <2>1. e <= d /\ d <= e + 1
    BY <1>5, <1>7 DEF Elapsed, AtLeast
  <2>2. d = e \/ d = e + 1
    BY <2>1, <1>3, <1>4
  <2> HIDE DEF d, e, R, F, t
  <2>3. d * R = e * R \/ d * R = e * R + R
    <3>1. (e + 1) * R = e * R + R
      BY <1>1, <1>3, Z3
    <3> QED
      BY <2>2, <3>1
  <2>4. AtMost(t + e * R, F) <= AtMost(t + d * R, F)
        /\ AtMost(t + d * R, F) <= AtMost(t + e * R, F) + R
    BY <2>3, <1>1, <1>3, <1>4 DEF AtMost
  <2> QED
    BY <1>3, <1>4, <1>7, <2>4 DEF R
<1>8. CASE Alive(k, n) /\ ~Alive(k, n + 1)
  <2>1. n = bucket[k].ts + Ttl(Limit(k))
    BY <1>5, <1>8 DEF Alive, Filled
  <2>2. e = Ttl(Limit(k))
    BY <1>1, <1>5, <1>8, <2>1 DEF Elapsed, AtLeast
  <2>3. F <= e * R
    BY <2>2, FullBeforeExpiry
  <2> HIDE DEF e, R, F, t
  <2>4. Available(k, n) = F /\ Available(k, n + 1) = F
    BY <1>1, <1>3, <1>4, <1>8, <2>3 DEF AtMost
  <2> QED
    BY <1>1, <2>4 DEF R
<1> QED
  BY <1>6, <1>7, <1>8

-------------------------------------------------------------------------------
(* The buckets *)

LEMMA InitBuckets ==
  ASSUME Init
  PROVE  BucketsInv
<1>1. BucketsTyped
  BY LimitAssumption, LimitNumbers DEF Init, BucketsTyped
<1>2. Filled
  BY LimitNumbers DEF Init, Filled
<1>3. Covered
  <2> SUFFICES ASSUME NEW k \in Key, Refills(Limit(k))
               PROVE  Available(k, Now) <= allowance[k]
    BY DEF Covered
  <2>1. Now \in Int
    BY <1>1 DEF Now, BucketsTyped
  <2>2. Available(k, Now) \in 0..Full(Limit(k))
    BY <1>1, <1>2, <2>1, AvailableTyped
  <2>3. allowance[k] = Full(Limit(k))
    BY DEF Init
  <2> QED
    BY <2>2, <2>3, LimitNumbers
<1> QED
  BY <1>1, <1>2, <1>3 DEF BucketsInv

\* What the script writes back: the tokens it found less the one it charged, to live on
\* from now.
LEMMA RunKeepsBuckets ==
  ASSUME BucketsInv, NEW k \in Key, Run(k), UNCHANGED clockVars
  PROVE  BucketsInv'
<1> DEFINE charge == IF Admits(k, Now) THEN Token(Limit(k)) ELSE 0
           left == Available(k, Now) - charge
           b == [exists |-> TRUE, tokens |-> left, ts |-> Now,
                 expires |-> Now + Ttl(Limit(k))]
<1>1. /\ Token(Limit(k)) \in Nat \ {0} /\ Full(Limit(k)) \in Nat
      /\ Ttl(Limit(k)) \in Nat \ {0} /\ Limit(k).refillTokens \in Nat
  BY LimitNumbers
<1>2. /\ Now \in Int /\ time' = time /\ skew' = skew /\ Now' = Now
      /\ time \in Nat /\ skew \in Nat
  BY DEF BucketsInv, BucketsTyped, Now, clockVars
<1>3. Available(k, Now) \in 0..Full(Limit(k))
  BY <1>2, AvailableTyped DEF BucketsInv
<1>4. charge \in Nat /\ left \in 0..Full(Limit(k))
  BY <1>1, <1>3 DEF Admits
<1>5. bucket' = [bucket EXCEPT ![k] = b] /\ allowance' = [allowance EXCEPT ![k] = @ - charge]
  BY DEF Run
<1>6. /\ bucket \in [Key -> [exists : BOOLEAN, tokens : Int, ts : Int, expires : Int]]
      /\ allowance \in [Key -> Int]
  BY DEF BucketsInv, BucketsTyped
<1> HIDE DEF charge, left
<1>7. b \in [exists : BOOLEAN, tokens : Int, ts : Int, expires : Int]
  BY <1>1, <1>2, <1>4
<1>8. bucket'[k] = b /\ allowance'[k] = allowance[k] - charge
  BY <1>5, <1>6
<1>9. b.exists = TRUE /\ b.tokens = left /\ b.ts = Now /\ b.expires = Now + Ttl(Limit(k))
  OBVIOUS
<1> HIDE DEF b
<1>10. \A j \in Key : j # k => bucket'[j] = bucket[j] /\ allowance'[j] = allowance[j]
  BY <1>5, <1>6
<1>11. BucketsTyped'
  BY <1>2, <1>4, <1>5, <1>6, <1>7 DEF BucketsTyped
<1>12. Filled'
  <2> SUFFICES ASSUME NEW j \in Key
               PROVE  /\ bucket'[j].tokens \in 0..Full(Limit(j))
                      /\ bucket'[j].exists =>
                            bucket'[j].expires = bucket'[j].ts + Ttl(Limit(j))
    BY DEF Filled
  <2>1. CASE j = k
    BY <1>4, <1>8, <1>9, <2>1
  <2>2. CASE j # k
    BY <1>10, <2>2 DEF BucketsInv, Filled
  <2> QED
    BY <2>1, <2>2
<1>13. Covered'
  <2> SUFFICES ASSUME NEW j \in Key, Refills(Limit(j))
               PROVE  Available(j, Now)' <= allowance'[j]
    BY DEF Covered
  <2>1. CASE j # k
    <3>1. Available(j, Now)' = Available(j, Now)
      BY <1>2, <1>10, <2>1 DEF Available, Alive, Elapsed
    <3> QED
      BY <1>10, <2>1, <3>1 DEF BucketsInv, Covered
  <2>2. CASE j = k
    <3>1. Alive(k, Now)' /\ Elapsed(k, Now)' = 0
      BY <1>1, <1>2, <1>8, <1>9 DEF Alive, Elapsed, AtLeast
    <3>2. Available(k, Now)' = left
      <4>1. 0 * Limit(k).refillTokens = 0
        BY <1>1
      <4> QED
        BY <1>1, <1>4, <1>8, <1>9, <2>2, <3>1, <4>1 DEF Available, AtMost
    <3>3. Available(k, Now) <= allowance[k]
      BY <2>2 DEF BucketsInv, Covered
    <3> QED
      BY <1>3, <1>4, <1>6, <1>8, <2>2, <3>2, <3>3 DEF left
  <2> QED
    BY <2>1, <2>2
<1> QED
  BY <1>11, <1>12, <1>13 DEF BucketsInv

\* The ideal bucket fills as fast as the bucket it stands for, or faster.
LEMMA TickKeepsBuckets ==
  ASSUME BucketsInv, Tick
  PROVE  BucketsInv'
<1>1. /\ time \in Nat /\ skew \in Nat /\ time' = time + 1 /\ skew' = skew /\ bucket' = bucket
      /\ Now \in Int /\ Now' = Now + 1
  BY DEF BucketsInv, BucketsTyped, Tick, Now
<1>2. allowance \in [Key -> Int]
  BY DEF BucketsInv, BucketsTyped
<1>3. allowance' = [k \in Key |-> Refilled(k)]
  BY DEF Tick
<1>4. \A k \in Key : allowance'[k] = Refilled(k) /\ Refilled(k) \in Int
  <2> TAKE k \in Key
  <2>1. allowance[k] \in Int /\ Limit(k).refillTokens \in Nat /\ Full(Limit(k)) \in Nat
    BY <1>2, LimitNumbers
  <2> QED
    BY <1>3, <2>1 DEF Refilled, AtMost
<1>5. BucketsTyped'
  BY <1>1, <1>3, <1>4 DEF BucketsInv, BucketsTyped
<1>6. Filled'
  BY <1>1 DEF BucketsInv, Filled
<1>7. Covered'
  <2> SUFFICES ASSUME NEW k \in Key, Refills(Limit(k))
               PROVE  Available(k, Now)' <= allowance'[k]
    BY DEF Covered
  <2>1. Available(k, Now)' = Available(k, Now + 1)
    BY <1>1 DEF Available, Alive, Elapsed
  <2>2. Available(k, Now + 1) <= Available(k, Now) + Limit(k).refillTokens
    BY <1>1, AvailableGrows DEF BucketsInv
  <2>3. Available(k, Now) \in 0..Full(Limit(k)) /\ Available(k, Now + 1) \in 0..Full(Limit(k))
    <3>1. Now + 1 \in Int
      BY <1>1
    <3> QED
      BY <1>1, <3>1, AvailableTyped DEF BucketsInv
  <2>4. Available(k, Now) <= allowance[k]
    BY DEF BucketsInv, Covered
  <2>5. allowance'[k] = AtMost(allowance[k] + Limit(k).refillTokens, Full(Limit(k)))
    BY <1>4 DEF Refilled
  <2>6. allowance[k] \in Int /\ Limit(k).refillTokens \in Nat /\ Full(Limit(k)) \in Nat
    BY <1>2, LimitNumbers
  <2> QED
    BY <2>1, <2>2, <2>3, <2>4, <2>5, <2>6 DEF AtMost
<1> QED
  BY <1>5, <1>6, <1>7 DEF BucketsInv

\* A clock set back finds no more in a bucket than there was (token-bucket.lua:52).
LEMMA ClockBackKeepsBuckets ==
  ASSUME BucketsInv, ClockBack
  PROVE  BucketsInv'
<1> DEFINE n == Now - 1
<1>1. /\ time \in Nat /\ skew \in Nat /\ time' = time /\ skew' = skew + 1 /\ bucket' = bucket
      /\ allowance' = allowance /\ n \in Int /\ Now' = n /\ n + 1 = Now /\ Now \in Int
  BY DEF BucketsInv, BucketsTyped, ClockBack, Now
<1> HIDE DEF n
<1>2. BucketsTyped'
  BY <1>1 DEF BucketsInv, BucketsTyped
<1>3. Filled'
  BY <1>1 DEF BucketsInv, Filled
<1>4. Covered'
  <2> SUFFICES ASSUME NEW k \in Key, Refills(Limit(k))
               PROVE  Available(k, Now)' <= allowance'[k]
    BY DEF Covered
  <2>1. Available(k, Now)' = Available(k, n)
    BY <1>1 DEF Available, Alive, Elapsed
  <2>2. Available(k, n) <= Available(k, Now)
    <3>1. Available(k, n) <= Available(k, n + 1)
      BY <1>1, AvailableGrows DEF BucketsInv
    <3> QED
      BY <1>1, <3>1
  <2>3. Available(k, n) \in 0..Full(Limit(k)) /\ Available(k, Now) \in 0..Full(Limit(k))
    BY <1>1, AvailableTyped DEF BucketsInv
  <2>4. Available(k, Now) <= allowance[k] /\ allowance[k] \in Int
    BY DEF BucketsInv, BucketsTyped, Covered
  <2> QED
    BY <1>1, <2>1, <2>2, <2>3, <2>4, LimitNumbers
<1> QED
  BY <1>2, <1>3, <1>4 DEF BucketsInv

LEMMA StillBuckets ==
  ASSUME BucketsInv, UNCHANGED <<clockVars, bucket, allowance>>
  PROVE  BucketsInv'
<1>1. time' = time /\ skew' = skew /\ bucket' = bucket /\ allowance' = allowance /\ Now' = Now
  BY DEF clockVars, Now
<1>2. BucketsTyped' /\ Filled'
  BY <1>1 DEF BucketsInv, BucketsTyped, Filled
<1>3. Covered'
  BY <1>1 DEF BucketsInv, Covered, Available, Alive, Elapsed
<1> QED
  BY <1>2, <1>3 DEF BucketsInv

-------------------------------------------------------------------------------
(* The checks *)

LEMMA RunningCheck ==
  ASSUME ChecksInv, NEW c \in Caller, Running(c)
  PROVE  /\ call[c] \in Check
         /\ call[c].user \in User /\ call[c].key \in Key /\ call[c].key \in {call[c].user, Tenant}
         /\ call[c].user \in Key /\ Tenant \in Key /\ call[c].user # Tenant
         /\ call[c].resent \in Nat /\ call[c].charges \in Nat
         /\ call[c].charged \in SUBSET Key
         /\ call[c].key = Tenant \/ Tenant \in call[c].charged => call[c].user \in call[c].charged
         /\ call[c].charges <= call[c].resent
<1>1. call[c].at \in {"load", "evalsha", "eval"}
  BY DEF Running
<1>2. call[c] # Idle
  BY <1>1 DEF Idle
<1>3. call[c] \notin Passed
  BY <1>1 DEF Passed
<1>4. Sound(call[c])
  BY DEF ChecksInv
<1>5. /\ call[c] \in Check
      /\ call[c].key \in {call[c].user, Tenant}
      /\ call[c].key = Tenant \/ Tenant \in call[c].charged => call[c].user \in call[c].charged
      /\ call[c].charges <= call[c].resent
  BY <1>2, <1>3, <1>4 DEF Sound
<1> QED
  BY <1>5, LimitAssumption DEF Check, Key

\* A check turns to a bucket: its user's, or the tenant's once the user's was charged.
LEMMA ConsumeSound ==
  ASSUME NEW u \in User, NEW k \in {u, Tenant}, NEW charged \in SUBSET Key,
         k = Tenant \/ Tenant \in charged => u \in charged
  PROVE  Sound(Consume(u, k, charged)) /\ Consume(u, k, charged) \in Check
<1> DEFINE x == Consume(u, k, charged)
<1>1. (IF sha THEN "evalsha" ELSE "load") \in {"load", "evalsha", "eval"} /\ k \in Key
      /\ 0 \in Nat
  BY DEF Key
<1>2. x \in Check
  BY <1>1 DEF Consume, Check
<1>3. x.user = u /\ x.key = k /\ x.charged = charged /\ x.charges = 0 /\ x.resent = 0
  BY DEF Consume
<1> HIDE DEF x
<1>4. Sound(x)
  BY <1>2, <1>3 DEF Sound
<1> QED
  BY <1>2, <1>4 DEF x

LEMMA IdleSound == Sound(Idle)
  BY DEF Sound

\* One check changes, the others stay.
LEMMA OneCheck ==
  ASSUME ChecksInv, NEW c \in Caller, NEW x, Sound(x), call' = [call EXCEPT ![c] = x]
  PROVE  ChecksInv'
<1>1. x \in {Idle} \cup Passed \cup Check
  BY DEF Sound
<1>2. call \in [Caller -> {Idle} \cup Passed \cup Check]
  BY DEF ChecksInv
<1>3. call' \in [Caller -> {Idle} \cup Passed \cup Check]
  BY <1>1, <1>2
<1>4. \A d \in Caller : call'[d] = IF d = c THEN x ELSE call[d]
  BY <1>2
<1>5. \A d \in Caller : Sound(call'[d])
  BY <1>4 DEF ChecksInv
<1> QED
  BY <1>3, <1>5 DEF ChecksInv

LEMMA VerdictKeepsChecks ==
  ASSUME ChecksInv, NEW c \in Caller, Running(c), Verdict(c)
  PROVE  ChecksInv'
<1> DEFINE k == call[c].key
           u == call[c].user
           x == IF ~Admits(k, Now) THEN Idle
                ELSE IF k = u THEN Consume(u, Tenant, Charged(c)) ELSE Passes(c)
<1>1. /\ k \in {u, Tenant} /\ u \in User /\ k \in Key /\ Tenant \in Key /\ u # Tenant
      /\ call[c].charged \in SUBSET Key
      /\ k = Tenant => u \in call[c].charged
  BY RunningCheck
<1>2. call' = [call EXCEPT ![c] = x]
  BY DEF Verdict
<1>3. Admits(k, Now) => Charged(c) = call[c].charged \cup {k} /\ Charged(c) \in SUBSET Key
  BY <1>1 DEF Charged
<1>4. CASE ~Admits(k, Now)
  BY <1>2, <1>4, IdleSound, OneCheck
<1>5. CASE Admits(k, Now) /\ k = u
  <2>1. u \in Charged(c)
    BY <1>3, <1>5
  <2>2. Sound(Consume(u, Tenant, Charged(c)))
    BY <1>1, <1>3, <1>5, <2>1, ConsumeSound
  <2>3. x = Consume(u, Tenant, Charged(c))
    BY <1>5
  <2> QED
    BY <1>2, <2>2, <2>3, OneCheck
<1>6. CASE Admits(k, Now) /\ k # u
  <2>1. u \in Charged(c) /\ Tenant \in Charged(c)
    BY <1>1, <1>3, <1>6
  <2>2. Passes(c) \in Passed
    BY <1>1, <1>3, <1>6 DEF Passes, Passed
  <2>3. Passes(c).user = u /\ Passes(c).charged = Charged(c)
    BY DEF Passes
  <2>4. Sound(Passes(c))
    BY <2>1, <2>2, <2>3 DEF Sound
  <2>5. x = Passes(c)
    BY <1>6
  <2> QED
    BY <1>2, <2>4, <2>5, OneCheck
<1> QED
  BY <1>4, <1>5, <1>6

\* The command will be sent again: the bucket may have been charged once more.
LEMMA LostReplyKeepsChecks ==
  ASSUME ChecksInv, NEW c \in Caller, LostReply(c)
  PROVE  ChecksInv'
<1> DEFINE x == [call[c] EXCEPT !.resent = @ + 1,
                                !.charges = Charges(c), !.charged = Charged(c)]
<1>1. Running(c)
  BY DEF LostReply, Running
<1>2. /\ call[c] \in Check /\ call[c].key \in {call[c].user, Tenant}
      /\ call[c].key \in Key
      /\ call[c].resent \in Nat /\ call[c].charges \in Nat /\ call[c].charged \in SUBSET Key
      /\ call[c].key = Tenant \/ Tenant \in call[c].charged => call[c].user \in call[c].charged
      /\ call[c].charges <= call[c].resent
  BY <1>1, RunningCheck
<1>3. call' = [call EXCEPT ![c] = x]
  BY DEF LostReply
<1>4. Charges(c) \in Nat /\ Charges(c) <= call[c].charges + 1
  BY <1>2 DEF Charges
<1>5. /\ Charged(c) \in SUBSET Key
      /\ call[c].key = Tenant \/ Tenant \in Charged(c) => call[c].user \in Charged(c)
  BY <1>2 DEF Charged
<1>6. x \in Check
  <2>1. call[c].resent + 1 \in Nat
    BY <1>2
  <2> QED
    BY <1>2, <1>4, <1>5, <2>1 DEF Check
<1>7. /\ x.user = call[c].user /\ x.key = call[c].key /\ x.resent = call[c].resent + 1
      /\ x.charges = Charges(c) /\ x.charged = Charged(c)
  BY <1>2 DEF Check
<1> HIDE DEF x
<1>8. x.charges <= x.resent
  BY <1>2, <1>4, <1>7
<1>9. Sound(x)
  BY <1>2, <1>5, <1>6, <1>7, <1>8 DEF Sound
<1> QED
  BY <1>3, <1>9, OneCheck

\* The check waits for something else, and is charged nothing.
LEMMA MovedSound ==
  ASSUME ChecksInv, NEW c \in Caller, Running(c), NEW s \in {"load", "evalsha", "eval"}
  PROVE  Sound([call[c] EXCEPT !.at = s])
<1> DEFINE x == [call[c] EXCEPT !.at = s]
<1>1. /\ call[c] \in Check /\ call[c].key \in {call[c].user, Tenant}
      /\ call[c].key = Tenant \/ Tenant \in call[c].charged => call[c].user \in call[c].charged
      /\ call[c].charges <= call[c].resent
  BY RunningCheck
<1>2. x \in Check
  BY <1>1 DEF Check
<1>3. /\ x.user = call[c].user /\ x.key = call[c].key /\ x.charged = call[c].charged
      /\ x.charges = call[c].charges /\ x.resent = call[c].resent
  BY <1>1 DEF Check
<1> HIDE DEF x
<1>4. Sound(x)
  BY <1>1, <1>2, <1>3 DEF Sound
<1> QED
  BY <1>4 DEF x

\* Every check that waits for the digest goes on with it, or ends with it.
LEMMA LoadKeepsChecks ==
  ASSUME ChecksInv, Load \/ LoadFails
  PROVE  ChecksInv'
<1> DEFINE L(c) == [call[c] EXCEPT !.at = "evalsha"]
           Good == {x \in {Idle} \cup Passed \cup Check : Sound(x)}
<1>1. \A c \in Caller : /\ call[c] \in Good
                        /\ call[c].at = "load" => L(c) \in Good
  <2> TAKE c \in Caller
  <2>1. call[c] \in Good
    BY DEF ChecksInv
  <2>2. ASSUME call[c].at = "load"
        PROVE  Sound(L(c))
    BY <2>2, MovedSound DEF Running
  <2> QED
    BY <2>1, <2>2 DEF Sound
<1>2. Idle \in Good
  BY IdleSound
<1>3. Load => call' = [c \in Caller |-> IF call[c].at = "load" THEN L(c) ELSE call[c]]
  BY DEF Load
<1>4. LoadFails => call' = [c \in Caller |-> IF call[c].at = "load" THEN Idle ELSE call[c]]
  BY DEF LoadFails
<1> HIDE DEF L, Good
<1>5. call' \in [Caller -> Good]
  BY <1>1, <1>2, <1>3, <1>4
<1> QED
  BY <1>5 DEF ChecksInv, Good

LEMMA StillChecks == ChecksInv /\ UNCHANGED call => ChecksInv'
  BY DEF ChecksInv, Sound

-------------------------------------------------------------------------------
(* The invariant *)

LEMMA InitLimiterInv == Init => LimiterInv
<1> SUFFICES ASSUME Init PROVE LimiterInv
  OBVIOUS
<1>1. ChecksInv
  BY IdleSound DEF Init, ChecksInv
<1> QED
  BY <1>1, InitBuckets DEF LimiterInv

\* The script ran for a check, and gave it a verdict.
LEMMA RunKeepsInv ==
  ASSUME LimiterInv, NEW c \in Caller, Running(c), UNCHANGED clockVars,
         Run(call[c].key), Verdict(c) \/ LostReply(c)
  PROVE  LimiterInv'
<1>1. call[c].key \in Key
  BY RunningCheck DEF LimiterInv
<1>2. BucketsInv'
  BY <1>1, RunKeepsBuckets DEF LimiterInv
<1>3. ChecksInv'
  BY VerdictKeepsChecks, LostReplyKeepsChecks DEF LimiterInv
<1> QED
  BY <1>2, <1>3 DEF LimiterInv

LEMMA NextLimiterInv == LimiterInv /\ [Next]_vars => LimiterInv'
<1> SUFFICES ASSUME LimiterInv, [Next]_vars PROVE LimiterInv'
  OBVIOUS
<1>0. ChecksInv /\ BucketsInv
  BY DEF LimiterInv
<1>1. ASSUME NEW c \in Caller, NEW u \in User, Start(c, u) PROVE LimiterInv'
  <2>1. u # Tenant
    BY LimitAssumption
  <2>2. Sound(Consume(u, u, {}))
    BY <2>1, ConsumeSound
  <2>3. ChecksInv'
    BY <1>0, <1>1, <2>2, OneCheck DEF Start
  <2>4. BucketsInv'
    BY <1>0, <1>1, StillBuckets DEF Start
  <2> QED
    BY <2>3, <2>4 DEF LimiterInv
<1>2. ASSUME NEW c \in Caller, EvalSha(c) PROVE LimiterInv'
  BY <1>2, RunKeepsInv DEF EvalSha, Running
<1>3. ASSUME NEW c \in Caller, NoScript(c) PROVE LimiterInv'
  <2>1. Sound([call[c] EXCEPT !.at = "eval"])
    BY <1>0, <1>3, MovedSound DEF NoScript, Running
  <2>2. call' = [call EXCEPT ![c] = [call[c] EXCEPT !.at = "eval"]]
    BY <1>3 DEF NoScript
  <2>3. ChecksInv'
    BY <1>0, <2>1, <2>2, OneCheck
  <2>4. BucketsInv'
    BY <1>0, <1>3, StillBuckets DEF NoScript
  <2> QED
    BY <2>3, <2>4 DEF LimiterInv
<1>4. ASSUME NEW c \in Caller, Eval(c) PROVE LimiterInv'
  BY <1>4, RunKeepsInv DEF Eval, Running
<1>5. ASSUME NEW c \in Caller, Error(c) PROVE LimiterInv'
  <2>1. ChecksInv'
    BY <1>0, <1>5, IdleSound, OneCheck DEF Error
  <2>2. BucketsInv'
    BY <1>0, <1>5, StillBuckets DEF Error
  <2> QED
    BY <2>1, <2>2 DEF LimiterInv
<1>6. ASSUME NEW c \in Caller, LostReply(c) PROVE LimiterInv'
  BY <1>6, RunKeepsInv DEF LostReply, Running
<1>7. ASSUME Load \/ LoadFails PROVE LimiterInv'
  <2>1. BucketsInv'
    BY <1>0, <1>7, StillBuckets DEF Load, LoadFails
  <2> QED
    BY <1>0, <1>7, <2>1, LoadKeepsChecks DEF LimiterInv
<1>8. ASSUME ScriptFlush \/ UNCHANGED vars PROVE LimiterInv'
  BY <1>0, <1>8, StillBuckets, StillChecks DEF ScriptFlush, LimiterInv, vars, clockVars
<1>9. ASSUME Tick PROVE LimiterInv'
  BY <1>0, <1>9, TickKeepsBuckets, StillChecks DEF Tick, LimiterInv
<1>10. ASSUME ClockBack PROVE LimiterInv'
  BY <1>0, <1>10, ClockBackKeepsBuckets, StillChecks DEF ClockBack, LimiterInv
<1> QED
  BY <1>1, <1>2, <1>3, <1>4, <1>5, <1>6, <1>7, <1>8, <1>9, <1>10 DEF Next, Step, Fault

LEMMA LimiterInvariant == Spec => []LimiterInv
  BY InitLimiterInv, NextLimiterInv, PTL DEF Spec

-------------------------------------------------------------------------------

\* However many checks run at once, whatever their limits, and however often keys expire,
\* replies are lost or the clock is set back, a tenant's bucket and its users' never admit
\* more than their capacity and the refill of the time that passed (token-bucket.lua).
THEOREM BucketsMintNothing == Spec => []WithinAllowance
<1>1. LimiterInv => WithinAllowance
  <2> SUFFICES ASSUME LimiterInv, NEW k \in Key
               PROVE  /\ Refills(Limit(k)) => allowance[k] >= 0
                      /\ bucket[k].tokens \in 0..Full(Limit(k))
    BY DEF WithinAllowance
  <2>1. BucketsTyped /\ Filled /\ Covered
    BY DEF LimiterInv, BucketsInv
  <2>2. Now \in Int /\ allowance[k] \in Int
    BY <2>1 DEF BucketsTyped, Now
  <2>3. Available(k, Now) \in 0..Full(Limit(k))
    BY <2>1, <2>2, AvailableTyped
  <2>4. Refills(Limit(k)) => Available(k, Now) <= allowance[k]
    BY <2>1 DEF Covered
  <2> QED
    BY <2>1, <2>2, <2>3, <2>4, LimitNumbers DEF Filled
<1> QED
  BY <1>1, LimiterInvariant, PTL

\* A refused caller that waits as long as it was told is admitted, and not a millisecond
\* sooner, for every limit and even if the key expires while it waits
\* (docs/RATE_LIMITING.md).
THEOREM RefusalsTellTheWait == Spec => []RetryIsExact
<1>1. LimiterInv => RetryIsExact
  <2> SUFFICES ASSUME LimiterInv, NEW k \in Key, Refills(Limit(k)), ~Admits(k, Now),
                      bucket[k].ts <= Now
               PROVE  LET r == RetryAfter(k, Now)
                      IN r > 0 /\ Admits(k, Now + r) /\ ~Admits(k, Now + r - 1)
    BY DEF RetryIsExact
  <2> DEFINE R == Limit(k).refillTokens
             F == Full(Limit(k))
             T == Token(Limit(k))
             tok == bucket[k].tokens
             e == Elapsed(k, Now)
             a == Available(k, Now)
             r == RetryAfter(k, Now)
  <2>1. BucketsTyped /\ Filled
    BY DEF LimiterInv, BucketsInv
  <2>2. /\ R \in Nat \ {0} /\ F \in Nat /\ T \in Nat \ {0} /\ T <= F
        /\ tok \in 0..F /\ Ttl(Limit(k)) \in Nat
    BY <2>1, LimitNumbers DEF Refills, Filled
  <2>3. Now \in Int /\ bucket[k].ts \in Int /\ bucket[k].expires \in Int
    BY <2>1 DEF BucketsTyped, Now
  <2>4. /\ a = IF Alive(k, Now) THEN AtMost(tok + e * R, F) ELSE F
        /\ e \in Nat /\ e * R \in Nat
    BY <2>1, <2>3, AvailableIs
  <2>5. a < T /\ a \in Nat
    BY <2>1, <2>2, <2>3, AvailableTyped DEF Admits
  <2>6. Alive(k, Now) /\ a = tok + e * R
    BY <2>2, <2>4, <2>5 DEF AtMost
  <2>7. r \in Nat /\ T - a <= r * R /\ (r - 1) * R < T - a
    BY <2>2, <2>5, CeilDivBounds DEF RetryAfter
  <2>8. e = Now - bucket[k].ts
    BY <2>3, <2>6 DEF Elapsed, AtLeast
  <2> HIDE DEF r, e, a, T, F, R, tok
  <2>9. r \in Nat \ {0}
    <3>1. r = 0 => r * R = 0
      BY <2>2
    <3> QED
      BY <2>2, <2>5, <2>7, <3>1
  \* What a wait of w finds.
  <2>10. ASSUME NEW w \in Nat
         PROVE  /\ w * R \in Nat
                /\ Available(k, Now + w) = IF Alive(k, Now + w) THEN AtMost(a + w * R, F) ELSE F
                /\ ~Alive(k, Now + w) => a + w * R >= F
    <3>1. Now + w \in Int
      BY <2>3
    <3>2. /\ Available(k, Now + w) = IF Alive(k, Now + w)
                                      THEN AtMost(tok + Elapsed(k, Now + w) * R, F) ELSE F
      BY <2>1, <3>1, AvailableIs DEF tok, R, F
    <3>3. (e + w) * R = e * R + w * R /\ w * R \in Nat
      BY <2>2, <2>4, Z3
    <3>4. Alive(k, Now + w) => Elapsed(k, Now + w) = e + w
      BY <2>3, <2>4, <2>8 DEF Elapsed, AtLeast
    <3>5. ASSUME ~Alive(k, Now + w)
          PROVE  a + w * R >= F
      <4>1. Ttl(Limit(k)) <= e + w
        BY <2>1, <2>2, <2>3, <2>4, <2>6, <2>8, <3>5 DEF Alive, Filled
      <4>2. F <= Ttl(Limit(k)) * R
        BY FullBeforeExpiry DEF F, R
      <4>3. \A x, y, z \in Nat : x <= y => x * z <= y * z /\ x * z \in Nat /\ y * z \in Nat
        BY Z3
      <4>4. /\ Ttl(Limit(k)) * R <= (e + w) * R
            /\ Ttl(Limit(k)) * R \in Nat /\ (e + w) * R \in Nat
        <5>1. e + w \in Nat
          BY <2>4
        <5> QED
          BY <2>2, <4>1, <4>3, <5>1
      <4>5. F <= e * R + w * R
        BY <2>2, <2>4, <3>3, <4>2, <4>4
      <4> QED
        BY <2>2, <2>4, <2>6, <3>3, <4>5
    <3> QED
      BY <2>6, <2>4, <2>2, <3>2, <3>3, <3>4, <3>5
  <2>11. Admits(k, Now + r)
    <3>1. Available(k, Now + r) >= T
      BY <2>2, <2>5, <2>7, <2>10 DEF AtMost
    <3> QED
      BY <3>1 DEF Admits, T
  <2>12. ~Admits(k, Now + r - 1)
    <3> DEFINE w == r - 1
    <3>1. w \in Nat /\ w * R < T - a /\ Now + r - 1 = Now + w
      BY <2>3, <2>7, <2>9
    <3> HIDE DEF w
    <3>2. Available(k, Now + w) < T /\ Available(k, Now + w) \in Int
      BY <2>2, <2>5, <2>10, <3>1 DEF AtMost
    <3>3. Available(k, Now + r - 1) < T /\ Available(k, Now + r - 1) \in Int
      BY <3>1, <3>2
    <3>4. ~(Available(k, Now + r - 1) >= T)
      BY <2>2, <3>3
    <3> QED
      BY <3>4 DEF Admits, T
  <2> QED
    BY <2>9, <2>11, <2>12 DEF r
<1> QED
  BY <1>1, LimiterInvariant, PTL

\* No failure of Redis lets a call pass unpaid, and a caller its own bucket refused costs
\* the tenant nothing (service.ts check).
THEOREM CallsPassPaid == Spec => []AdmittedIsCharged
<1>1. LimiterInv => AdmittedIsCharged
  <2> SUFFICES ASSUME LimiterInv, NEW c \in Caller, call[c].at # "idle"
               PROVE  /\ Tenant \in call[c].charged => call[c].user \in call[c].charged
                      /\ call[c].at = "admitted" => Tenant \in call[c].charged
    BY DEF AdmittedIsCharged
  <2>1. Sound(call[c]) /\ call[c] # Idle
    BY DEF LimiterInv, ChecksInv, Idle
  <2>2. CASE call[c] \in Passed
    BY <2>1, <2>2 DEF Sound, Passed, Check
  <2>3. CASE call[c] \notin Passed
    <3>1. call[c] \in Check
      BY <2>1, <2>3 DEF Sound
    <3>2. call[c].at # "admitted"
      BY <3>1 DEF Check
    <3> QED
      BY <2>1, <2>3, <3>2 DEF Sound
  <2> QED
    BY <2>2, <2>3
<1> QED
  BY <1>1, LimiterInvariant, PTL

\* The replay after NOSCRIPT charges nobody twice (limiter.ts evaluate).
THEOREM ReplaysAreFree == Spec => []ReplayChargesOnce
<1>1. LimiterInv => ReplayChargesOnce
  BY RunningCheck DEF LimiterInv, ReplayChargesOnce
<1> QED
  BY <1>1, LimiterInvariant, PTL
===============================================================================
