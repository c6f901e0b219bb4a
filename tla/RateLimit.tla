------------------------------ MODULE RateLimit ------------------------------
(***************************************************************************)
(* What the rate limiters in Redis have in common: resilience-kit,         *)
(* ratelimit/backends/redis.py.  One key of Redis, with a time to live,    *)
(* counts what many clients in many processes ask for.                     *)
(***************************************************************************)
EXTENDS Integers

CONSTANTS
    Clients,    \* coroutines that check a limit, in any process
    Limit,      \* limit
    Window,     \* window_seconds, in ticks
    Costs       \* costs a request may have

ASSUME LimitAssumption ==
    /\ Limit \in Nat \ {0}
    /\ Window \in Nat \ {0}
    /\ Costs \subseteq Nat \ {0}
==============================================================================
