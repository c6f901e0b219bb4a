----------------------------- MODULE TokenBucket -----------------------------
(***************************************************************************)
(* The token bucket in Redis: resilience-kit, ratelimit/backends/redis.py, *)
(* atomic_token_bucket_check and its Lua script, as                        *)
(* algorithms/token_bucket.py calls it.                                    *)
(*                                                                         *)
(* Tokens are counted in units of 1/Window token, so that a tick refills   *)
(* exactly Capacity units and every division of the code is exact.         *)
(***************************************************************************)
EXTENDS LimitScript

CONSTANTS
    Timeout,    \* timeout_seconds, in ticks; 2 * Window by default
    MaxLate,    \* bound on late, for TLC
    MaxEarly    \* bound on early, for TLC

ASSUME TimeoutAssumption == Timeout \in Nat \ {0} /\ MaxLate \in Nat /\ MaxEarly \in Nat

VARIABLES
    tokens,     \* field "tokens", in units; the full bucket when the key is absent
    refillAge,  \* age of field "last_refill", at most MaxAge
    ideal,      \* history: the units of a bucket refilled by true time
    late,       \* history: scripts that moved last_refill back
    early       \* history: keys that ended before their bucket was surely full

bucketVars == <<tokens, refillAge, life, cost, age, ideal, late, early>>

\* A full bucket holds the limit.
Capacity == Limit
Full == Capacity * Window
Units(k) == k * Window

\* Refilling for longer than this fills any bucket, for any request.
MaxAge == Window + Delay

Least(x, y) == IF x < y THEN x ELSE y
Most(x, y) == IF x > y THEN x ELSE y

BucketTypeOK ==
    /\ tokens \in 0 .. Full
    /\ refillAge \in 0 .. MaxAge
    /\ life \in 0 .. Timeout
    /\ RequestsOK
    /\ ideal \in Int /\ ideal <= Full
    /\ late \in 0 .. MaxLate /\ early \in 0 .. MaxEarly

BucketInit ==
    /\ tokens = Full
    /\ refillAge = MaxAge
    /\ life = 0
    /\ NoRequests
    /\ ideal = Full
    /\ late = 0 /\ early = 0

\* check: now = time.time(), then the script is sent.
BucketSend(c, k) ==
    /\ Sent(c, k)
    /\ UNCHANGED <<tokens, refillAge, life, ideal, late, early>>

\* Bug: the refill is not capped at the capacity.
RefilledUncapped(c) == tokens + Most(0, refillAge - age[c]) * Capacity

\* tokens = min(capacity, tokens + elapsed * refill_rate), by the client's clock.
Refilled(c) == Least(Full, tokens + Most(0, refillAge - age[c]) * Capacity)

BucketFits(c) == Refilled(c) >= Units(cost[c])

\* Bug: the division is rounded down.
BucketFloor(c) == Units(cost[c]) \div Capacity

\* retry_after = ceil(cost / refill_rate)
BucketRetryAfter(c) == (Units(cost[c]) + Capacity - 1) \div Capacity

\* The Lua script.  A denied request writes the refilled tokens and its own
\* timestamp too, unless the bucket is empty; a timestamp older than the one it
\* overwrites lets the next request refill the time between them again.
CheckBucket(c) ==
    /\ Over(c)
    /\ LET left == IF BucketFits(c) THEN Refilled(c) - Units(cost[c]) ELSE Refilled(c) IN
       IF BucketFits(c) \/ left > 0
       THEN /\ tokens' = left /\ refillAge' = age[c] /\ life' = Timeout
            /\ late' = late + (IF age[c] > refillAge THEN 1 ELSE 0)
            /\ late' <= MaxLate
       ELSE UNCHANGED <<tokens, refillAge, life, late>>
    /\ ideal' = IF BucketFits(c) THEN ideal - Units(cost[c]) ELSE ideal
    /\ UNCHANGED early

\* The request is lost before the script runs: RateLimitBackendError.
BucketFail(c) ==
    /\ Over(c)
    /\ UNCHANGED <<tokens, refillAge, life, ideal, late, early>>

\* Time passes; the socket timeout bounds how late a request may arrive.
BucketTick ==
    /\ Late
    /\ life' = IF life > 0 THEN life - 1 ELSE 0
    /\ IF life > 1
       THEN refillAge' = Least(MaxAge, refillAge + 1) /\ UNCHANGED tokens
       ELSE refillAge' = MaxAge /\ tokens' = Full
    /\ ideal' = Least(Full, ideal + Capacity)
    /\ early' = early + (IF life = 1 /\ refillAge + 1 < MaxAge THEN 1 ELSE 0)
    /\ early' <= MaxEarly
    /\ UNCHANGED late

BucketNext ==
    \/ \E c \in Clients : (\E k \in Costs : BucketSend(c, k)) \/ CheckBucket(c) \/ BucketFail(c)
    \/ BucketTick

BucketSpec == BucketInit /\ [][BucketNext]_bucketVars

-----------------------------------------------------------------------------
\* What a client gains at most by a timestamp it took Delay ticks ago.
Lateness == Delay * Capacity

\* The bucket lends nothing but what late timestamps and short lifetimes give:
\* the requests granted take no more than a bucket of this capacity, refilled by
\* true time, holds, and once the longest delay's refill, and that again for every
\* script that moved last_refill back, and a bucket for every key that ended
\* before its bucket was full.  Refills, denials that store what they computed,
\* and expiry in its time add nothing.
ConstantRate == ideal >= -(Lateness * (1 + late) + (Full + Lateness) * early)

\* A lifetime of a window and the longest delay is long enough: no key ends early.
\* The default is two windows; an explicit timeout_seconds is taken as it is.
NoEarlyEnd == Timeout >= MaxAge => early = 0

\* When nothing else is granted meanwhile, a request that could fit in a full
\* bucket fits after the wait its denial was told.
RetryAfterSuffices ==
    [][\A c \in Clients : CheckBucket(c) /\ ~BucketFits(c) /\ cost[c] <= Capacity =>
          Units(cost[c]) <=
              Least(Full, tokens + (refillAge + BucketRetryAfter(c)) * Capacity)]_bucketVars
=============================================================================
