---------------------------- MODULE SlidingWindow ----------------------------
(***************************************************************************)
(* The sliding-window log in Redis: resilience-kit,                        *)
(* ratelimit/backends/redis.py, atomic_check_and_add and its Lua script,   *)
(* as algorithms/sliding_window.py calls it.                               *)
(*                                                                         *)
(* The members of the sorted set are counted by the true age of their      *)
(* scores.                                                                 *)
(***************************************************************************)
EXTENDS LimitScript, FiniteSetsExt

VARIABLES
    entries,     \* number of members of the sorted set by age of their score
    grantedAt    \* history: cost granted by age of the grant

slidingVars == <<entries, life, cost, age, grantedAt>>

\* No request counts a member older than this.
Ages == 0 .. Window + Delay - 1

Total(f, S) == MapThenSumSet(LAMBDA i : f[i], S)

SlidingTypeOK ==
    /\ entries \in [Ages -> 0 .. Limit]
    /\ life \in 0 .. Window + 1
    /\ RequestsOK
    /\ grantedAt \in [0 .. Window - 1 -> Nat]

SlidingInit ==
    /\ entries = [a \in Ages |-> 0]
    /\ life = 0
    /\ NoRequests
    /\ grantedAt = [a \in 0 .. Window - 1 |-> 0]

\* now = time.time(), then the script is sent.
SlidingSend(c, k) ==
    /\ Sent(c, k)
    /\ UNCHANGED <<entries, life, grantedAt>>

\* Bug: the members at the edge of the window are removed one tick early.
KeptEarly(c) == [a \in Ages |-> IF a < age[c] + Window - 1 THEN entries[a] ELSE 0]

\* ZREMRANGEBYSCORE key 0 (now - window_seconds), by the client's clock.
Kept(c) == [a \in Ages |-> IF a < age[c] + Window THEN entries[a] ELSE 0]

SlidingFits(c) == Total(Kept(c), Ages) + cost[c] <= Limit

\* Bug: the seconds to wait are rounded down.
SlidingFloor(c) ==
    LET used == {a \in Ages : Kept(c)[a] > 0} IN
    IF used = {} THEN Window
    ELSE Max({1, Window - Max(used) + age[c] - 1})

\* retry_after of a denied request: until the oldest member has expired.
SlidingRetryAfter(c) ==
    LET used == {a \in Ages : Kept(c)[a] > 0} IN
    IF used = {} THEN Window
    ELSE Max({1, Window - Max(used) + age[c] + 1})

\* The Lua script: expired members go, and the request's members are added
\* with its timestamp if they fit.
CheckAndAdd(c) ==
    /\ Over(c)
    /\ IF SlidingFits(c)
       THEN /\ entries' = [Kept(c) EXCEPT ![age[c]] = @ + cost[c]]
            /\ life' = Window + 1
            /\ grantedAt' = [grantedAt EXCEPT ![0] = @ + cost[c]]
       ELSE /\ entries' = Kept(c)
            /\ UNCHANGED <<life, grantedAt>>

\* The request is lost before the script runs: RateLimitBackendError.
SlidingFail(c) ==
    /\ Over(c)
    /\ UNCHANGED <<entries, life, grantedAt>>

\* Time passes; the socket timeout bounds how late a request may arrive.
SlidingTick ==
    /\ Late
    /\ life' = IF life > 0 THEN life - 1 ELSE 0
    /\ entries' = [a \in Ages |-> IF a = 0 \/ life' = 0 THEN 0 ELSE entries[a - 1]]
    /\ grantedAt' = [a \in 0 .. Window - 1 |-> IF a = 0 THEN 0 ELSE grantedAt[a - 1]]

SlidingNext ==
    \/ \E c \in Clients : (\E k \in Costs : SlidingSend(c, k)) \/ CheckAndAdd(c) \/ SlidingFail(c)
    \/ SlidingTick

SlidingSpec == SlidingInit /\ [][SlidingNext]_slidingVars

-----------------------------------------------------------------------------
\* The limit holds over every rolling window shortened by the delay, whatever
\* order the timestamps arrive in; without delay it is the exact rolling
\* window of sliding_window.py ("Accurate: No burst exploitation at window
\* boundaries").
RollingBound == Total(grantedAt, 0 .. Window - Delay - 1) <= Limit

\* When nothing else is granted meanwhile, the request a denial sent away fits
\* after the wait it was told.
Suffices(c) ==
    Total(entries, {a \in Ages : a + SlidingRetryAfter(c) < Window}) + cost[c] <= Limit

\* It does for requests of cost one, whatever the order of the timestamps.
RetryAfterSufficesForOne ==
    [][\A c \in Clients :
          CheckAndAdd(c) /\ ~SlidingFits(c) /\ cost[c] = 1 => Suffices(c)]_slidingVars
=============================================================================
