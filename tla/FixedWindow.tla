----------------------------- MODULE FixedWindow -----------------------------
(***************************************************************************)
(* The fixed-window counter in Redis: resilience-kit,                      *)
(* ratelimit/backends/redis.py, atomic_fixed_window_check and              *)
(* scoped_cleanup, as algorithms/fixed_window.py calls them.               *)
(*                                                                         *)
(* A check is a pipeline without a transaction, SET NX EX; DECRBY; TTL, so *)
(* commands of other clients, and the expiry of the key, may fall between  *)
(* its commands.  The TTL command only reads the retry time of the reply   *)
(* and is left out.                                                        *)
(***************************************************************************)
EXTENDS RateLimit, FiniteSetsExt

CONSTANT
    Floor      \* bound of the model: denied requests count down to -Floor

ASSUME FloorAssumption == Floor \in Nat \ {0}

VARIABLES
    value,     \* the counter, 0 when the key is absent
    ttl,       \* ticks the key has left, in the numbers of the TTL command
    pending,   \* cost of the request each client is checking, 0 for none
    granted,   \* history: cost granted since the key was created
    recent     \* history: cost granted in each of the last Window ticks since a cleanup, capped

vars == <<value, ttl, pending, granted, recent>>

NoKey == -2       \* the key does not exist
NoExpiry == -1    \* the key exists and never expires

\* Bound of the history: more than any property tells apart.
RecentCap == 2 * Limit + 1

TypeOK ==
    /\ value \in Int
    /\ -Floor <= value /\ value <= Limit
    /\ ttl \in {NoKey, NoExpiry} \cup 1 .. Window
    /\ pending \in [Clients -> Costs \cup {0}]
    /\ granted \in 0 .. Limit
    /\ recent \in [0 .. Window - 1 -> 0 .. RecentCap]

Init ==
    /\ value = 0
    /\ ttl = NoKey
    /\ pending = [c \in Clients |-> 0]
    /\ granted = 0
    /\ recent = [i \in 0 .. Window - 1 |-> 0]

\* Bug: the counter is set again by every request.
SetAlways(c, cost) ==
    /\ pending[c] = 0
    /\ pending' = [pending EXCEPT ![c] = cost]
    /\ value' = Limit /\ ttl' = Window
    /\ UNCHANGED <<granted, recent>>

\* SET key limit NX EX window_seconds: the first command of a check.
SetIfAbsent(c, cost) ==
    /\ pending[c] = 0
    /\ pending' = [pending EXCEPT ![c] = cost]
    /\ IF ttl = NoKey
       THEN value' = Limit /\ ttl' = Window
       ELSE UNCHANGED <<value, ttl>>
    /\ UNCHANGED <<granted, recent>>

\* Bug: the request is allowed by the counter it found, not the one it left.
AllowedBefore(count, cost) == count > 0

\* allowed = decrby_result >= 0
Allowed(count, cost) == count - cost >= 0

\* DECRBY key cost: an absent key counts as 0 and is created without expiry.
DecrBy(c) ==
    /\ pending[c] # 0
    /\ value' = IF value - pending[c] < -Floor THEN -Floor ELSE value - pending[c]
    /\ ttl' = IF ttl = NoKey THEN NoExpiry ELSE ttl
    /\ IF Allowed(value, pending[c])
       THEN /\ granted' = granted + pending[c]
            /\ recent' = [recent EXCEPT ![0] = IF @ + pending[c] < RecentCap
                                               THEN @ + pending[c] ELSE RecentCap]
       ELSE UNCHANGED <<granted, recent>>
    /\ pending' = [pending EXCEPT ![c] = 0]

\* The pipeline fails after SET: RateLimitBackendError, the request is denied.
Fail(c) ==
    /\ pending[c] # 0
    /\ pending' = [pending EXCEPT ![c] = 0]
    /\ UNCHANGED <<value, ttl, granted, recent>>

\* scoped_cleanup deletes the keys of the namespace one at a time; the history
\* starts again.
Cleanup ==
    /\ value' = 0 /\ ttl' = NoKey
    /\ granted' = 0
    /\ recent' = [i \in 0 .. Window - 1 |-> 0]
    /\ UNCHANGED pending

Tick ==
    /\ \/ ttl = 1 /\ ttl' = NoKey /\ value' = 0 /\ granted' = 0
       \/ ttl > 1 /\ ttl' = ttl - 1 /\ UNCHANGED <<value, granted>>
       \/ ttl < 0 /\ UNCHANGED <<ttl, value, granted>>
    /\ recent' = [i \in 0 .. Window - 1 |-> IF i = 0 THEN 0 ELSE recent[i - 1]]
    /\ UNCHANGED pending

Next ==
    \/ \E c \in Clients : (\E cost \in Costs : SetIfAbsent(c, cost)) \/ DecrBy(c) \/ Fail(c)
    \/ Cleanup
    \/ Tick

Spec == Init /\ [][Next]_vars

-----------------------------------------------------------------------------
\* While a counter with a lifetime exists it is at most what the window's
\* grants have left, and a counter without one only denies: the strengthening
\* from which the refinement of WindowBudget follows.
CounterInv ==
    /\ ttl > 0 => granted + value <= Limit
    /\ ttl = NoExpiry => value < 0
    /\ ttl = NoKey => value = 0
    /\ ttl < 0 => granted = 0

\* The clients' interleaved pipelines never grant more than Limit in a window
\* of Window ticks: the counter implements the abstract budget.
Budget == INSTANCE WindowBudget WITH
              used <- granted,
              left <- IF ttl > 0 THEN ttl ELSE 0

ImplementsBudget == Budget!Spec

\* fixed_window.py, "Boundary-Burst Limitation": across two adjacent windows
\* at most twice the limit is granted within any Window ticks without a cleanup.
BoundaryBurst == MapThenSumSet(LAMBDA i : recent[i], 0 .. Window - 1) <= 2 * Limit
=============================================================================
