----------------------------- MODULE LimitScript -----------------------------
(***************************************************************************)
(* A request to a limiter that is a Lua script: resilience-kit,            *)
(* ratelimit/backends/redis.py, atomic_check_and_add and                   *)
(* atomic_token_bucket_check.                                              *)
(*                                                                         *)
(* A script is atomic, but the time it works with is the client's, taken   *)
(* before the round trip: a request may reach the server up to Delay ticks *)
(* after its timestamp, and after requests with later ones.  Timestamps    *)
(* are kept as their true age in ticks.                                    *)
(***************************************************************************)
EXTENDS RateLimit

CONSTANT
    Delay       \* longest time from taking a timestamp to running the script

ASSUME DelayAssumption == Delay \in Nat

VARIABLES
    life,       \* ticks the limiter's key has left, 0 when there is none
    cost,       \* cost of the request each client has sent, 0 for none
    age         \* age of the timestamp that request carries

RequestsOK ==
    /\ cost \in [Clients -> Costs \cup {0}]
    /\ age \in [Clients -> 0 .. Delay]

NoRequests ==
    /\ cost = [c \in Clients |-> 0]
    /\ age = [c \in Clients |-> 0]

\* now = time.time(), then the script is sent.
Sent(c, k) ==
    /\ cost[c] = 0
    /\ cost' = [cost EXCEPT ![c] = k]
    /\ age' = [age EXCEPT ![c] = 0]

\* The script has run, or the request is lost before it: RateLimitBackendError.
Over(c) ==
    /\ cost[c] # 0
    /\ cost' = [cost EXCEPT ![c] = 0]
    /\ age' = [age EXCEPT ![c] = 0]

\* Time passes; the socket timeout bounds how late a request may arrive.
Late ==
    /\ \A c \in Clients : cost[c] # 0 => age[c] < Delay
    /\ age' = [c \in Clients |-> IF cost[c] # 0 THEN age[c] + 1 ELSE 0]
    /\ UNCHANGED cost
==============================================================================
