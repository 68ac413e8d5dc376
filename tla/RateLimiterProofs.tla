-------------------------- MODULE RateLimiterProofs --------------------------
(***************************************************************************)
(* The token buckets keep to their rate over every interval, for every     *)
(* length of a minute, rate, clock and choice of what is watched.          *)
(*                                                                         *)
(* WithinRate is not inductive: it says nothing of the tokens left, which  *)
(* are calls still to come.  What is inductive counts both, and counts the *)
(* refill only up to the bucket's last one.                                *)
(***************************************************************************)
EXTENDS RateLimiter, TLAPS

LType ==
  /\ clock \in Nat
  /\ bucket \in [ModelIds -> [rate : Nat \ {0}, tokens : Nat, last : Nat]]
  /\ watched \in [model : ModelIds, since : Nat, granted : Nat]

\* A bucket holds no more than it can, and was last refilled in the past.
Bounded(b) == b.tokens <= Capacity(b) /\ b.last <= clock

\* Calls allowed and calls still in the bucket, up to its last refill.
Counted(b, w) ==
  IF b.last < w.since
    THEN w.granted = 0
    ELSE w.granted * Minute + b.tokens <= Capacity(b) + (b.last - w.since) * b.rate

LInv ==
  /\ LType
  /\ \A m \in ModelIds : Bounded(bucket[m])
  /\ Counted(bucket[watched.model], watched)

------------------------------------------------------------------------------
LEMMA ProductIsNat == ASSUME NEW x \in Nat, NEW y \in Nat PROVE x * y \in Nat
  BY SMT

\* The refill of an interval is that of its two parts.
LEMMA SpreadsOver ==
  ASSUME NEW a \in Int, NEW b \in Int, NEW c \in Int, NEW r \in Int
  PROVE  (c - a) * r = (b - a) * r + (c - b) * r
  BY SMT

LEMMA OneMore ==
  ASSUME NEW g \in Int, NEW x \in Int
  PROVE  (g + 1) * x = g * x + x
  BY SMT

\* What allow's refill makes of a bucket.
LEMMA RefillFacts ==
  ASSUME NEW b \in [rate : Nat \ {0}, tokens : Nat, last : Nat], NEW now \in Nat,
         b.last <= now, b.tokens <= Capacity(b), LimiterAssumption
  PROVE  /\ Refilled(b, now) \in [rate : Nat \ {0}, tokens : Nat, last : Nat]
         /\ Refilled(b, now).rate = b.rate
         /\ Refilled(b, now).last = now
         /\ Refilled(b, now).tokens <= Capacity(b)
         /\ Refilled(b, now).tokens <= b.tokens + (now - b.last) * b.rate
<1> DEFINE gain == (now - b.last) * b.rate
<1>1. now - b.last \in Nat /\ b.rate \in Nat
  OBVIOUS
<1>2. gain \in Nat
  BY <1>1, ProductIsNat
<1>3. Capacity(b) \in Nat
  BY ProductIsNat DEF Capacity, LimiterAssumption
<1>4. Greater(0, now - b.last) = now - b.last
  BY <1>1 DEF Greater
<1>5. Refilled(b, now) = [b EXCEPT !.tokens = Lesser(Capacity(b), b.tokens + gain),
                                   !.last = now]
  BY <1>4 DEF Refilled
<1>6. /\ Lesser(Capacity(b), b.tokens + gain) \in Nat
      /\ Lesser(Capacity(b), b.tokens + gain) <= Capacity(b)
      /\ Lesser(Capacity(b), b.tokens + gain) <= b.tokens + gain
  <2> HIDE DEF gain
  <2> QED BY <1>2, <1>3 DEF Lesser
<1> HIDE DEF gain
<1>7. QED
  BY <1>5, <1>6 DEF gain

------------------------------------------------------------------------------
LEMMA LInvInit ==
  ASSUME NEW rates \in [ModelIds -> 0 .. MaxRate], LimiterInit(rates)
  PROVE  LInv
<1> USE LimiterAssumption DEF LimiterAssumption
<1>1. \A m \in ModelIds :
        /\ NewBucket(rates[m], 0).rate \in Nat \ {0}
        /\ NewBucket(rates[m], 0).tokens = Capacity(NewBucket(rates[m], 0))
        /\ NewBucket(rates[m], 0).tokens \in Nat
        /\ NewBucket(rates[m], 0).last = 0
        /\ NewBucket(rates[m], 0) \in [rate : Nat \ {0}, tokens : Nat, last : Nat]
  <2> TAKE m \in ModelIds
  <2>1. Greater(1, rates[m]) \in Nat \ {0}
    BY DEF Greater
  <2>2. Greater(1, rates[m]) * Minute \in Nat
    BY <2>1, ProductIsNat
  <2> QED BY <2>1, <2>2 DEF NewBucket, Capacity
<1>2. PICK w \in Watched : watched = [model |-> w[1], since |-> w[2], granted |-> 0]
  BY DEF LimiterInit
<1>3. /\ watched \in [model : ModelIds, since : Nat, granted : Nat]
      /\ watched.granted = 0
  BY <1>2
<1>4. LType
  BY <1>1, <1>3 DEF LType, LimiterInit
<1>5. \A m \in ModelIds : bucket[m] = NewBucket(rates[m], 0) /\ Bounded(bucket[m])
  <2> TAKE m \in ModelIds
  <2>1. bucket[m] = NewBucket(rates[m], 0) /\ clock = 0
    BY DEF LimiterInit
  <2> QED BY <1>1, <2>1 DEF Bounded
<1>6. Counted(bucket[watched.model], watched)
  <2> DEFINE b == bucket[watched.model]
  <2>1. /\ b.last = 0 /\ b.tokens = Capacity(b) /\ b.tokens \in Nat /\ b.rate \in Nat
    BY <1>1, <1>3, <1>5
  <2>2. CASE watched.since = 0
    <3>1. (b.last - watched.since) * b.rate = 0 /\ watched.granted * Minute = 0
      BY <2>1, <2>2, <1>3
    <3> QED BY <3>1, <2>1, <2>2 DEF Counted
  <2>3. CASE watched.since # 0
    BY <2>1, <2>3, <1>3 DEF Counted
  <2> QED BY <2>2, <2>3
<1> QED BY <1>4, <1>5, <1>6 DEF LInv

\* A call, allowed or not, keeps the count.
LEMMA AllowKeepsCount ==
  ASSUME LInv, NEW m \in ModelIds, NEW allowed \in BOOLEAN, Allow(m, allowed)
  PROVE  LInv'
<1> USE LimiterAssumption DEF LimiterAssumption
<1> DEFINE b == Refilled(bucket[m], clock)
           after == IF allowed THEN [b EXCEPT !.tokens = @ - Minute] ELSE b
<1>1. /\ bucket[m] \in [rate : Nat \ {0}, tokens : Nat, last : Nat]
      /\ bucket[m].last <= clock /\ bucket[m].tokens <= Capacity(bucket[m])
      /\ clock \in Nat
  BY DEF LInv, LType, Bounded
<1>2. /\ b \in [rate : Nat \ {0}, tokens : Nat, last : Nat]
      /\ b.rate = bucket[m].rate /\ b.last = clock
      /\ b.tokens <= Capacity(bucket[m])
      /\ b.tokens <= bucket[m].tokens + (clock - bucket[m].last) * bucket[m].rate
  BY <1>1, RefillFacts
<1>3. /\ bucket' = [bucket EXCEPT ![m] = after]
      /\ clock' = clock
      /\ allowed = (b.tokens >= Minute)
      /\ watched' = IF allowed /\ m = watched.model /\ watched.since <= clock
                      THEN [watched EXCEPT !.granted = @ + 1] ELSE watched
  BY DEF Allow, Admits
<1> HIDE DEF b
<1>4. /\ after \in [rate : Nat \ {0}, tokens : Nat, last : Nat]
      /\ after.rate = bucket[m].rate /\ after.last = clock
      /\ after.tokens = IF allowed THEN b.tokens - Minute ELSE b.tokens
  <2>1. CASE allowed
    <3>1. after = [b EXCEPT !.tokens = b.tokens - Minute]
      BY <2>1
    <3>2. b.tokens >= Minute
      BY <1>3, <2>1, Zenon
    <3>3. b.tokens - Minute \in Nat
      BY <1>2, <3>2
    <3> QED BY <1>2, <2>1, <3>1, <3>3
  <2>2. CASE ~allowed
    BY <1>2, <2>2
  <2> QED BY <2>1, <2>2
<1> HIDE DEF after
<1>5. Capacity(after) = Capacity(bucket[m]) /\ Capacity(bucket[m]) \in Nat
  BY <1>1, <1>4, ProductIsNat DEF Capacity
<1>6. /\ watched \in [model : ModelIds, since : Nat, granted : Nat]
      /\ watched' \in [model : ModelIds, since : Nat, granted : Nat]
      /\ watched'.model = watched.model /\ watched'.since = watched.since
  BY <1>3 DEF LInv, LType
<1>7. LType'
  BY <1>3, <1>4, <1>6 DEF LInv, LType
<1>8. \A n \in ModelIds : Bounded(bucket[n])'
  <2>1. bucket'[m] = after /\ \A n \in ModelIds \ {m} : bucket'[n] = bucket[n]
    BY <1>3 DEF LInv, LType
  <2>2. after.tokens <= Capacity(after)
    BY <1>2, <1>4, <1>5
  <2> QED BY <1>3, <1>4, <2>1, <2>2 DEF LInv, Bounded
<1>9. Counted(bucket[watched.model], watched)'
  <2>1. CASE m # watched.model
    <3>1. bucket'[watched.model] = bucket[watched.model] /\ watched' = watched
      BY <1>3, <2>1, <1>6 DEF LInv, LType
    <3> QED BY <3>1 DEF LInv, Counted
  <2>2. CASE m = watched.model
    <3>1. bucket'[watched'.model] = after
      BY <1>3, <1>6, <2>2 DEF LInv, LType
    <3>2. CASE clock < watched.since
      <4>1. bucket[m].last < watched.since
        BY <1>1, <1>6, <3>2
      <4>2. watched.granted = 0
        BY <4>1, <2>2 DEF LInv, Counted
      <4>3. watched' = watched
        BY <1>1, <1>3, <1>6, <3>2
      <4> QED BY <1>3, <1>4, <3>1, <3>2, <4>2, <4>3 DEF Counted
    <3>3. CASE watched.since <= clock
      <4> DEFINE g == watched.granted
                 s == watched.since
                 r == bucket[m].rate
                 refill == (clock - s) * r
      <4>1. g \in Nat /\ s \in Nat /\ r \in Nat /\ clock - s \in Nat
        BY <1>1, <1>6, <3>3
      <4>2. refill \in Nat /\ g * Minute \in Nat
        BY <4>1, ProductIsNat
      <4>3. g * Minute + b.tokens <= Capacity(bucket[m]) + refill
        <5>1. CASE bucket[m].last < s
          <6>1. g * Minute = 0
            BY <5>1, <2>2 DEF LInv, Counted
          <6> HIDE DEF refill, g
          <6> QED BY <6>1, <4>2, <1>2, <1>5
        <5>2. CASE s <= bucket[m].last
          <6> DEFINE p == (bucket[m].last - s) * r
                     q == (clock - bucket[m].last) * r
          <6>1. g * Minute + bucket[m].tokens <= Capacity(bucket[m]) + p
            BY <5>2, <2>2, <1>1, <4>1 DEF LInv, Counted
          <6>2. refill = p + q
            BY <1>1, <4>1, SpreadsOver
          <6>3. b.tokens <= bucket[m].tokens + q
            BY <1>2
          <6>4. p \in Int /\ q \in Int
            BY <1>1, <4>1
          <6>5. b.tokens \in Nat /\ bucket[m].tokens \in Nat
            BY <1>1, <1>2
          <6> HIDE DEF refill, p, q, g
          <6> QED BY <6>1, <6>2, <6>3, <6>4, <6>5, <4>2, <1>5
        <5> QED BY <5>1, <5>2, <1>1, <4>1
      <4>4. watched'.granted * Minute + after.tokens = g * Minute + b.tokens
        <5>1. CASE allowed
          <6>1. watched'.granted = g + 1
            BY <1>3, <1>6, <2>2, <3>3, <5>1
          <6>2. (g + 1) * Minute = g * Minute + Minute
            BY <4>1, OneMore
          <6>3. after.tokens = b.tokens - Minute /\ b.tokens \in Nat
            BY <1>2, <1>4, <5>1
          <6> HIDE DEF g
          <6> QED BY <6>1, <6>2, <6>3, <4>2
        <5>2. CASE ~allowed
          BY <1>3, <1>4, <5>2
        <5> QED BY <5>1, <5>2
      <4>5. after.rate = r /\ after.last = clock /\ watched'.since = s
        BY <1>4, <1>6
      <4>6. ~(after.last < watched'.since)
        BY <4>5, <3>3, <4>1, <1>1
      <4>7. watched'.granted * Minute + after.tokens
              <= Capacity(after) + (after.last - watched'.since) * after.rate
        <5> HIDE DEF g
        <5> QED BY <4>3, <4>4, <4>5, <1>5
      <4> QED BY <4>6, <4>7, <3>1 DEF Counted, Capacity
    <3> QED BY <3>2, <3>3, <1>1, <1>6
  <2> QED BY <2>1, <2>2
<1> QED BY <1>7, <1>8, <1>9 DEF LInv

LEMMA LInvStep ==
  ASSUME LInv, [LimiterNext]_lvars
  PROVE  LInv'
<1> USE LimiterAssumption DEF LimiterAssumption
<1>1. CASE Tick
  BY <1>1 DEF LInv, LType, Tick, Bounded, Counted, Capacity
<1>2. CASE \E m \in ModelIds, allowed \in BOOLEAN : Allow(m, allowed)
  BY <1>2, AllowKeepsCount
<1>3. CASE UNCHANGED lvars
  BY <1>3 DEF lvars, LInv, LType, Bounded, Counted, Capacity
<1> QED BY <1>1, <1>2, <1>3 DEF LimiterNext

\* What is counted bounds what has been allowed by now.
LEMMA LInvBounds ==
  ASSUME LInv
  PROVE  WithinRate
<1> USE LimiterAssumption DEF LimiterAssumption
<1> DEFINE b == bucket[watched.model]
           g == watched.granted * Minute
           s == watched.since
<1>1. /\ b \in [rate : Nat \ {0}, tokens : Nat, last : Nat]
      /\ b.last <= clock /\ clock \in Nat /\ s \in Nat /\ watched.granted \in Nat
  BY DEF LInv, LType, Bounded
<1>2. g \in Nat /\ Capacity(b) \in Nat
  BY <1>1, ProductIsNat DEF Capacity
<1>3. SUFFICES ASSUME s <= clock PROVE g <= Capacity(b) + (clock - s) * b.rate
  BY DEF WithinRate
<1>4. CASE b.last < s
  <2>1. g = 0
    BY <1>4 DEF LInv, Counted
  <2>2. clock - s \in Nat /\ b.rate \in Nat
    BY <1>1, <1>3
  <2>3. (clock - s) * b.rate \in Nat
    BY <2>2, ProductIsNat
  <2> HIDE DEF g
  <2> QED BY <2>1, <2>3, <1>2
<1>5. CASE s <= b.last
  <2> DEFINE p == (b.last - s) * b.rate
             q == (clock - b.last) * b.rate
  <2>1. g + b.tokens <= Capacity(b) + p
    <3>1. Counted(b, watched)
      BY DEF LInv
    <3>2. ~(b.last < s)
      BY <1>1, <1>5
    <3> QED BY ONLY <3>1, <3>2 DEF Counted
  <2>2. (clock - s) * b.rate = p + q
    BY <1>1, SpreadsOver
  <2>3. b.last - s \in Nat /\ clock - b.last \in Nat /\ b.rate \in Nat /\ b.tokens \in Nat
    BY <1>1, <1>5
  <2>4. p \in Nat /\ q \in Nat
    BY <2>3, ProductIsNat
  <2> HIDE DEF g, p, q
  <2> QED BY <2>1, <2>2, <2>3, <2>4, <1>2
<1> QED BY <1>1, <1>4, <1>5

\* Over every interval a model is allowed no more calls than a full bucket and what the
\* interval refills: RateLimiter.allow, for every rate and every sequence of calls and
\* pauses.
THEOREM RateIsKept == LimiterSpec => []WithinRate
<1>1. (\E rates \in [ModelIds -> 0 .. MaxRate] : LimiterInit(rates)) => LInv
  BY LInvInit
<1>2. LInv /\ [LimiterNext]_lvars => LInv'
  BY LInvStep
<1>3. LInv => WithinRate
  BY LInvBounds
<1> QED
  BY <1>1, <1>2, <1>3, PTL DEF LimiterSpec

------------------------------------------------------------------------------
\* The rates stay those of the manifest, and the clock within its bound.
LRates ==
  /\ clock <= MaxClock
  /\ \A m \in ModelIds : bucket[m].rate <= MaxRate

LEMMA LRatesInit ==
  ASSUME NEW rates \in [ModelIds -> 0 .. MaxRate], LimiterInit(rates)
  PROVE  LRates
<1> USE LimiterAssumption DEF LimiterAssumption
<1>1. clock = 0 /\ bucket = [m \in ModelIds |-> NewBucket(rates[m], 0)]
  BY DEF LimiterInit
<1>2. ASSUME NEW m \in ModelIds PROVE bucket[m].rate <= MaxRate
  <2>1. bucket[m].rate = Greater(1, rates[m])
    BY <1>1 DEF NewBucket
  <2>2. rates[m] \in 0 .. MaxRate
    OBVIOUS
  <2> QED BY <2>1, <2>2 DEF Greater
<1> QED BY <1>1, <1>2 DEF LRates

LEMMA LRatesStep ==
  ASSUME LInv, LRates, [LimiterNext]_lvars
  PROVE  LRates'
<1> USE LimiterAssumption DEF LimiterAssumption
<1>1. CASE Tick
  BY <1>1 DEF LInv, LType, LRates, Tick
<1>2. ASSUME NEW m \in ModelIds, NEW allowed \in BOOLEAN, Allow(m, allowed)
      PROVE  LRates'
  <2> DEFINE b == Refilled(bucket[m], clock)
             after == IF allowed THEN [b EXCEPT !.tokens = @ - Minute] ELSE b
  <2>1. b \in [rate : Nat \ {0}, tokens : Nat, last : Nat] /\ b.rate = bucket[m].rate
    BY RefillFacts DEF LInv, LType, Bounded
  <2>2. bucket' = [bucket EXCEPT ![m] = after] /\ clock' = clock
    BY <1>2 DEF Allow
  <2> HIDE DEF b
  <2>3. after.rate = bucket[m].rate
    BY <2>1
  <2> HIDE DEF after
  <2>4. \A n \in ModelIds : bucket'[n].rate = bucket[n].rate
    BY <2>2, <2>3 DEF LInv, LType
  <2> QED BY <2>2, <2>4 DEF LRates
<1>3. CASE UNCHANGED lvars
  BY <1>3 DEF lvars, LRates
<1> QED BY <1>1, <1>2, <1>3 DEF LimiterNext

\* Buckets stay buckets: no refill or token taken leaves the tokens of a bucket below
\* zero, and none changes the rate it was given.
THEOREM LimiterTypeCorrect == LimiterSpec => []LimiterTypeOK
<1>1. (\E rates \in [ModelIds -> 0 .. MaxRate] : LimiterInit(rates)) => LInv /\ LRates
  BY LInvInit, LRatesInit
<1>2. LInv /\ LRates /\ [LimiterNext]_lvars => LInv' /\ LRates'
  BY LInvStep, LRatesStep
<1>3. LInv /\ LRates => LimiterTypeOK
  <2> SUFFICES ASSUME LInv, LRates PROVE LimiterTypeOK
    OBVIOUS
  <2>1. clock \in 0 .. MaxClock
    BY LimiterAssumption DEF LInv, LType, LRates, LimiterAssumption
  <2>2. \A m \in ModelIds : bucket[m] \in Bucket
    <3> TAKE m \in ModelIds
    <3>1. bucket[m] \in [rate : Nat \ {0}, tokens : Nat, last : Nat]
      BY DEF LInv, LType
    <3>2. bucket[m].rate <= MaxRate
      BY DEF LRates
    <3>3. bucket[m].rate \in 1 .. MaxRate
      BY <3>1, <3>2, LimiterAssumption DEF LimiterAssumption
    <3> QED BY <3>1, <3>3 DEF Bucket
  <2> QED BY <2>1, <2>2 DEF LimiterTypeOK, LInv, LType
<1> QED
  BY <1>1, <1>2, <1>3, PTL DEF LimiterSpec
==============================================================================
