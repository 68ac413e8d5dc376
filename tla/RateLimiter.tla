----------------------------- MODULE RateLimiter -----------------------------
(***************************************************************************)
(* The token buckets of llm/rate_limit.py, one for each model, over a      *)
(* monotonic clock.  Time is counted in ticks, Minute of them to a minute, *)
(* and tokens in parts of 1/Minute of a token, so that a bucket for n      *)
(* requests a minute gains n parts with every tick; the code counts both   *)
(* in floats, whose rounding is left out.                                  *)
(*                                                                         *)
(* "watched" is a history: a model, the time from which its calls are      *)
(* counted, both any of Watched, and how many have been allowed from then  *)
(* on, so that what holds of it holds of every interval.                   *)
(***************************************************************************)
EXTENDS Integers

CONSTANTS ModelIds, Minute, MaxRate,
          Watched,  \* the models and times from which calls are counted
          MaxClock  \* bound on the clock

ASSUME LimiterAssumption ==
  /\ Minute \in Nat \ {0} /\ MaxRate \in Nat \ {0} /\ MaxClock \in Nat
  /\ Watched \subseteq ModelIds \X Nat

VARIABLES clock, bucket, watched

lvars == <<clock, bucket, watched>>

Lesser(a, b) == IF a < b THEN a ELSE b
Greater(a, b) == IF a > b THEN a ELSE b

Bucket == [rate : 1 .. MaxRate, tokens : Nat, last : Nat]

\* RateLimiter(n) begins full.  A model limited only by its tokens per minute asks for
\* no requests at all, and gets one.
NewBucket(requests_per_min, now) ==
  [rate |-> Greater(1, requests_per_min),
   tokens |-> Greater(1, requests_per_min) * Minute, last |-> now]

Capacity(b) == b.rate * Minute

\* Mutant: a bucket nobody asked for a while fills beyond its capacity.
RefilledUncapped(b, now) ==
  [b EXCEPT !.tokens = @ + Greater(0, now - b.last) * b.rate, !.last = now]

Refilled(b, now) ==
  [b EXCEPT !.tokens = Lesser(Capacity(b), @ + Greater(0, now - b.last) * b.rate),
            !.last = now]

Admits(b) == b.tokens >= Minute

\* allow: refill for the time since the last call, then take a token if there is one.
Allow(m, allowed) ==
  LET b == Refilled(bucket[m], clock)
  IN  /\ allowed = Admits(b)
      /\ bucket' = [bucket EXCEPT ![m] = IF allowed THEN [b EXCEPT !.tokens = @ - Minute]
                                                    ELSE b]
      /\ watched' = IF allowed /\ m = watched.model /\ watched.since <= clock
                      THEN [watched EXCEPT !.granted = @ + 1] ELSE watched
      /\ UNCHANGED clock

Tick ==
  /\ clock < MaxClock
  /\ clock' = clock + 1
  /\ UNCHANGED <<bucket, watched>>

LimiterInit(rates) ==
  /\ clock = 0
  /\ bucket = [m \in ModelIds |-> NewBucket(rates[m], 0)]
  /\ \E w \in Watched : watched = [model |-> w[1], since |-> w[2], granted |-> 0]

LimiterNext ==
  \/ Tick
  \/ \E m \in ModelIds, allowed \in BOOLEAN : Allow(m, allowed)

LimiterSpec ==
  /\ \E rates \in [ModelIds -> 0 .. MaxRate] : LimiterInit(rates)
  /\ [][LimiterNext]_lvars

------------------------------------------------------------------------------
LimiterTypeOK ==
  /\ clock \in 0 .. MaxClock
  /\ bucket \in [ModelIds -> Bucket]
  /\ watched \in [model : ModelIds, since : Nat, granted : Nat]

\* However calls and pauses fall, the calls allowed in an interval are no more than a
\* full bucket and what its length refills (RateLimiter: requests_per_min).
WithinRate ==
  LET b == bucket[watched.model]
  IN  watched.since <= clock =>
        watched.granted * Minute <= Capacity(b) + (clock - watched.since) * b.rate
==============================================================================
