---------------------------- MODULE WindowBudget ----------------------------
(***************************************************************************)
(* What a fixed-window rate limiter promises, whatever stores its counter  *)
(* (resilience-kit, ratelimit/algorithms/fixed_window.py): a window, once  *)
(* open, lasts Window ticks unless its counter is cleaned up, and the cost  *)
(* granted in it never exceeds Limit.  Denying is always allowed.          *)
(***************************************************************************)
EXTENDS Integers

CONSTANTS
    Limit,    \* cost that may be granted in a window
    Window,   \* window_seconds, in ticks
    Costs     \* costs a request may have

VARIABLES
    used,    \* cost granted in the current window
    left     \* ticks the current window has left, 0 when there is none

budget == <<used, left>>

Init == used = 0 /\ left = 0

\* A window may open before, or with, its first granted request.
Open(c) ==
    /\ left = 0
    /\ c <= Limit
    /\ used' = c
    /\ left' = Window

Grant(c) ==
    /\ left > 0
    /\ used + c <= Limit
    /\ used' = used + c
    /\ UNCHANGED left

Tick ==
    /\ left > 0
    /\ left' = left - 1
    /\ used' = IF left = 1 THEN 0 ELSE used

\* scoped_cleanup forgets the window.
Clean ==
    /\ left' = 0
    /\ used' = 0

Next ==
    \/ Open(0)
    \/ \E c \in Costs : Open(c) \/ Grant(c)
    \/ Clean
    \/ Tick

Spec == Init /\ [][Next]_budget
=============================================================================
