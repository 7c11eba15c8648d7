------------------------------ MODULE RateLimiter ------------------------------
(***************************************************************************)
(* The token buckets in front of the gateway's routes, one for each pair   *)
(* of a client credential and a route                                      *)
(* (CredentialRouteRateLimiter of media_bridge_gateway/rate_limit.py).     *)
(* allow() runs under a lock, so that a call is one step.                  *)
(***************************************************************************)
EXTENDS Naturals, Sequences, FiniteSets

CONSTANTS Keys,        \* pairs of a credential and a route
          Capacity,    \* tokens of a full bucket
          Refill,      \* tokens that a bucket regains in a second
          IdleTtl,     \* seconds after which an unused bucket is dropped
          MaxKeys,     \* buckets that are kept at most
          MaxSeconds,  \* bound: seconds on the clock
          NoBucket     \* no bucket

\* A bucket that is dropped would have been full again.  The settings of the
\* entry point (60 tokens, 10 a second, 600 seconds) are of this kind.
ASSUME SettingsAssumption ==
    /\ {Capacity, Refill, IdleTtl, MaxKeys} \subseteq Nat \ {0} /\ MaxSeconds \in Nat
    /\ Refill * IdleTtl >= Capacity

\* _Bucket: the tokens and the time of the last call.
Bucket == [tokens : 0..Capacity, seen : 0..MaxSeconds]

ASSUME NoBucketAssumption == NoBucket \notin Bucket

VARIABLES
    rateNow,  \* the monotonic clock
    bucket,   \* _buckets
    granted   \* history: when calls of each key were let in

rateVars == <<rateNow, bucket, granted>>

RateInit ==
    /\ rateNow = 0
    /\ bucket = [k \in Keys |-> NoBucket]
    /\ granted = [k \in Keys |-> <<>>]

Fewer(a, b) == IF a < b THEN a ELSE b

\* _purge_idle.
Purged == [k \in Keys |->
    IF bucket[k] # NoBucket /\ bucket[k].seen + IdleTtl <= rateNow THEN NoBucket ELSE bucket[k]]

Buckets(b) == {k \in Keys : b[k] # NoBucket}

\* A faulty refill that forgets the capacity of the bucket.
RefilledPastFull(b) == b.tokens + (rateNow - b.seen) * Refill

\* The tokens of a bucket now.
Refilled(b) == Fewer(Capacity, b.tokens + (rateNow - b.seen) * Refill)

\* A faulty limiter that drops the bucket of another key when it has no room.
AllowByEviction(k) ==
    LET b == [j \in Keys |-> IF j # k /\ Cardinality(Buckets(Purged)) >= MaxKeys
                             THEN NoBucket ELSE Purged[j]]
        tokens == IF b[k] = NoBucket THEN Capacity ELSE Refilled(b[k])
    IN /\ bucket' = [b EXCEPT ![k] = [tokens |-> IF tokens >= 1 THEN tokens - 1 ELSE tokens,
                                      seen |-> rateNow]]
       /\ granted' = IF tokens >= 1 THEN [granted EXCEPT ![k] = Append(@, rateNow)] ELSE granted
       /\ UNCHANGED rateNow

\* allow: a new key gets a full bucket if there is room for one, and is
\* refused otherwise.
Allow(k) ==
    LET b == Purged
        tokens == IF b[k] = NoBucket THEN Capacity ELSE Refilled(b[k])
    IN /\ IF b[k] = NoBucket /\ Cardinality(Buckets(b)) >= MaxKeys
          THEN bucket' = b /\ UNCHANGED granted
          ELSE /\ bucket' = [b EXCEPT ![k] =
                    [tokens |-> IF tokens >= 1 THEN tokens - 1 ELSE tokens, seen |-> rateNow]]
               /\ granted' = IF tokens >= 1 THEN [granted EXCEPT ![k] = Append(@, rateNow)] ELSE granted
       /\ UNCHANGED rateNow

Second == rateNow < MaxSeconds /\ rateNow' = rateNow + 1 /\ UNCHANGED <<bucket, granted>>

RateNext == (\E k \in Keys : Allow(k)) \/ Second

RateSpec == RateInit /\ [][RateNext]_rateVars

-----------------------------------------------------------------------------
(* Properties *)

\* Buckets hold a whole number of tokens, no more than they have room for, and
\* there are no more than are kept.
RateTypeOK ==
    /\ rateNow \in 0..MaxSeconds
    /\ bucket \in [Keys -> Bucket \cup {NoBucket}]
    /\ Cardinality(Buckets(bucket)) <= MaxKeys
    /\ granted \in [Keys -> Seq(0..MaxSeconds)]

\* How often a key was let in from a to b.
Granted(k, a, b) == Cardinality({i \in DOMAIN granted[k] : a <= granted[k][i] /\ granted[k][i] <= b})

\* Between any two moments a key is let in at most as often as a full bucket
\* and the time between them allow: dropping idle buckets and the limit on
\* their number give nobody a fresh one early.
RateIsBounded ==
    \A k \in Keys, a \in 0..rateNow : \A b \in a..rateNow :
        Granted(k, a, b) <= Capacity + Refill * (b - a)
=============================================================================
