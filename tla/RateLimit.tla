----------------------------- MODULE RateLimit ------------------------------
(***************************************************************************)
(* rateLimiter (internal/friends/http.go): a token bucket per user, filled *)
(* lazily when it is next looked at and forgotten when the map is crowded  *)
(* and the bucket has not been used for a while.  Time passes in ticks and *)
(* tokens come in fractions: a call costs Cost of them, a tick brings Rate.*)
(***************************************************************************)
EXTENDS Naturals, FiniteSets

CONSTANTS
  Callers,
  Burst, Rate, Cost,
  Crowd,     \* buckets above which the stale ones are dropped
  Stale,     \* ticks after which a bucket is stale
  NoBucket

\* The limiter is built with 10 tokens a minute and a burst of 20, and a bucket
\* is stale after 10 minutes: by then it is full.
ASSUME RateAssumption ==
  /\ {Burst, Rate, Cost, Crowd, Stale} \subseteq Nat
  /\ Rate * Stale >= Burst
  /\ Cost <= Burst

VARIABLE buckets    \* a bucket per user, NoBucket for a user without one

\* idle: ticks since last, counted up to the first that is stale
Bucket == [tokens : 0 .. Burst, idle : 0 .. Stale + 1]

ASSUME NoBucketAssumption == NoBucket \notin Bucket

LimiterInit == buckets = [u \in Callers |-> NoBucket]

AtMost(n) == IF n <= Burst THEN n ELSE Burst

Filled(b) == AtMost(b.tokens + b.idle * Rate)

\* mutant: the age of a bucket is not looked at
EvictAll(B) == [u \in Callers |-> NoBucket]

\* the backstop: when the map is crowded the buckets stale by now are dropped
Evict(B) ==
  IF Cardinality({u \in Callers : B[u] # NoBucket}) > Crowd
  THEN [u \in Callers |-> IF B[u] # NoBucket /\ B[u].idle > Stale THEN NoBucket ELSE B[u]]
  ELSE B

\* allow, whatever it answers: evict, find or make the bucket, fill it, take
Allow(u) ==
  LET B == Evict(buckets)
      tokens == IF B[u] = NoBucket THEN Burst ELSE Filled(B[u]) IN
  buckets' = [B EXCEPT ![u] = [tokens |-> IF tokens < Cost THEN tokens ELSE tokens - Cost,
                               idle |-> 0]]

Tick ==
  buckets' = [u \in Callers |-> IF buckets[u] = NoBucket THEN NoBucket
                              ELSE [buckets[u] EXCEPT !.idle = IF @ > Stale THEN @ ELSE @ + 1]]

LimiterNext == Tick \/ \E u \in Callers : Allow(u)

LimiterSpec == LimiterInit /\ [][LimiterNext]_buckets

(******************************* properties ********************************)

LimiterTypeOK == buckets \in [Callers -> Bucket \cup {NoBucket}]

\* "Full-and-stale buckets carry no state worth keeping": forgetting a bucket, and
\* filling it only when it is looked at, cannot be told from a limiter that keeps
\* every bucket and fills all of them all the time.
Level == [u \in Callers |-> IF buckets[u] = NoBucket THEN Burst ELSE Filled(buckets[u])]

Kept == INSTANCE TokenBucket WITH level <- Level, Users <- Callers

EvictionUnseen == Kept!Spec
=============================================================================
