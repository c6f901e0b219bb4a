--------------------------- MODULE CircuitBreaker ---------------------------
(***************************************************************************)
(* The distributed circuit breaker of resilience-kit:                      *)
(* circuit_breaker/async_redis_backend.py, AsyncRedisCircuitBreaker.       *)
(*                                                                         *)
(* Workers are coroutines inside execute(); every await on Redis is one    *)
(* atomic step of the server, and workers interleave between their awaits. *)
(* The four keys of a circuit live in Redis with a time to live; the       *)
(* breaker object of each process keeps a local copy of the state.         *)
(* Time is counted in ticks: a time to live is what is left of it, and the *)
(* timestamp in last_failure is the age it has, saturated at the recovery  *)
(* timeout, the only value it is ever compared with.                       *)
(***************************************************************************)
EXTENDS Integers

CONSTANTS
    Workers,     \* coroutines that call execute()
    Breakers,    \* breaker objects, one per process
    Home,        \* the breaker object each worker calls
    Threshold,   \* failure_threshold
    Recovery,    \* recovery_timeout_seconds, in ticks
    StateTTL,    \* state_ttl_seconds, in ticks
    FailOpen     \* fail_open

ASSUME ConfigAssumption ==
    /\ Home \in [Workers -> Breakers]
    /\ Threshold \in Nat \ {0}
    /\ Recovery \in Nat \ {0}
    /\ StateTTL \in Nat \ {0}
    /\ FailOpen \in BOOLEAN

VARIABLES
    circuit,   \* key "state"; an absent key reads as CLOSED
    failures,  \* key "failures", saturated at Threshold; an absent key counts as 0
    lastAge,   \* key "last_failure": how long ago the failure was, at most Recovery
    ttl,       \* ticks each key has left, 0 when it is absent
    local,     \* _local_state of each breaker object
    pc,        \* the await each worker is at
    stamp,     \* age of the failure timestamp a worker holds across an await
    disturbed  \* history: a round trip has failed, or a worker was cancelled

redis == <<circuit, failures, lastAge, ttl>>
vars == <<circuit, failures, lastAge, ttl, local, pc, stamp, disturbed>>

CircuitState == {"CLOSED", "OPEN", "HALF_OPEN"}
Keys == {"state", "failures", "last_failure", "half_open_lock"}

\* The awaits of execute(): the calls of allow_request, the user's function
\* (as a normal call or as the half-open probe), and the recording calls.
Awaits == {"getState", "getLast", "tryLock", "setHalf",
           "running", "probing", "recSuccess", "recFailure", "toOpen"}

TypeOK ==
    /\ circuit \in CircuitState
    /\ failures \in 0 .. Threshold
    /\ lastAge \in 0 .. Recovery
    /\ ttl \in [Keys -> Nat]
    /\ \A k \in Keys \ {"half_open_lock"} : ttl[k] <= StateTTL
    /\ ttl["half_open_lock"] <= Recovery
    /\ local \in [Breakers -> CircuitState]
    /\ pc \in [Workers -> Awaits \cup {"idle"}]
    /\ stamp \in [Workers -> 0 .. Recovery]
    /\ disturbed \in BOOLEAN

Init ==
    /\ circuit = "CLOSED"
    /\ failures = 0
    /\ lastAge = 0
    /\ ttl = [k \in Keys |-> 0]
    /\ local = [b \in Breakers |-> "CLOSED"]
    /\ pc = [w \in Workers |-> "idle"]
    /\ stamp = [w \in Workers |-> 0]
    /\ disturbed = FALSE

-----------------------------------------------------------------------------
Capped(n, cap) == IF n < cap THEN n ELSE cap

\* A worker moves to its next await, holding the timestamp of age a.
GotoWith(w, await, a) ==
    /\ pc' = [pc EXCEPT ![w] = await]
    /\ stamp' = [stamp EXCEPT ![w] = a]

Goto(w, await) == GotoWith(w, await, 0)

Observe(w, state) == local' = [local EXCEPT ![Home[w]] = state]

\* What each round trip writes when the server applies it.  The recording
\* calls are MULTI/EXEC transactions, so each one is a single step.
ApplyLock ==
    /\ ttl' = [ttl EXCEPT !["half_open_lock"] = Recovery]
    /\ UNCHANGED <<circuit, failures, lastAge>>

\* Bug: the state key is set without EX and never expires.
ApplyHalfOpenForever ==
    /\ circuit' = "HALF_OPEN"
    /\ ttl' = [ttl EXCEPT !["state"] = -1]
    /\ UNCHANGED <<failures, lastAge>>

ApplyHalfOpen ==
    /\ circuit' = "HALF_OPEN"
    /\ ttl' = [ttl EXCEPT !["state"] = StateTTL]
    /\ UNCHANGED <<failures, lastAge>>

\* Bug: the counter is reset with a key that never expires.
ApplySuccessForever ==
    /\ circuit' = "CLOSED"
    /\ failures' = 0
    /\ lastAge' = 0
    /\ ttl' = [ttl EXCEPT !["state"] = StateTTL, !["failures"] = -1,
                          !["half_open_lock"] = 0, !["last_failure"] = 0]

ApplySuccess ==
    /\ circuit' = "CLOSED"
    /\ failures' = 0
    /\ lastAge' = 0
    /\ ttl' = [ttl EXCEPT !["state"] = StateTTL, !["failures"] = StateTTL,
                          !["half_open_lock"] = 0, !["last_failure"] = 0]

ApplyFailure(age) ==
    /\ failures' = Capped(failures + 1, Threshold)
    /\ lastAge' = age
    /\ ttl' = [ttl EXCEPT !["failures"] = StateTTL, !["last_failure"] = StateTTL]
    /\ UNCHANGED circuit

\* Bug: the state key is set without EX and never expires.
ApplyOpenForever ==
    /\ circuit' = "OPEN"
    /\ ttl' = [ttl EXCEPT !["state"] = -1, !["half_open_lock"] = 0]
    /\ UNCHANGED <<failures, lastAge>>

ApplyOpen ==
    /\ circuit' = "OPEN"
    /\ ttl' = [ttl EXCEPT !["state"] = StateTTL, !["half_open_lock"] = 0]
    /\ UNCHANGED <<failures, lastAge>>

ApplyReset ==
    /\ circuit' = "CLOSED"
    /\ failures' = 0
    /\ lastAge' = 0
    /\ ttl' = [k \in Keys |-> 0]

-----------------------------------------------------------------------------
(* execute() and allow_request().                                          *)

Execute(w) ==
    /\ pc[w] = "idle"
    /\ Goto(w, "getState")
    /\ UNCHANGED <<redis, local, disturbed>>

\* _get_state: the answer decides whether the call runs, is rejected, or has
\* to look at the last failure.
GetState(w) ==
    /\ pc[w] = "getState"
    /\ Observe(w, circuit)
    /\ \/ circuit = "CLOSED" /\ Goto(w, "running")
       \/ circuit = "OPEN" /\ Goto(w, "getLast")
       \/ circuit = "HALF_OPEN" /\ Goto(w, "idle")
    /\ UNCHANGED <<redis, disturbed>>

GetLastFailure(w) ==
    /\ pc[w] = "getLast"
    /\ IF ttl["last_failure"] = 0
       THEN Goto(w, "idle")
       ELSE GotoWith(w, "tryLock", lastAge)
    /\ UNCHANGED <<redis, local, disturbed>>

\* The recovery timeout has not elapsed since the failure that was read.
RejectTooEarly(w) ==
    /\ pc[w] = "tryLock"
    /\ stamp[w] < Recovery
    /\ Goto(w, "idle")
    /\ UNCHANGED <<redis, local, disturbed>>

\* SET half_open_lock NX EX recovery_timeout.
TryLock(w) ==
    /\ pc[w] = "tryLock"
    /\ stamp[w] >= Recovery
    /\ IF ttl["half_open_lock"] = 0
       THEN ApplyLock /\ Goto(w, "setHalf")
       ELSE UNCHANGED redis /\ Goto(w, "idle")
    /\ UNCHANGED <<local, disturbed>>

SetHalfOpen(w) ==
    /\ pc[w] = "setHalf"
    /\ ApplyHalfOpen
    /\ Observe(w, "HALF_OPEN")
    /\ Goto(w, "probing")
    /\ UNCHANGED disturbed

\* A RedisError in allow_request, before or after the server applied the
\* command: with fail_open the call runs, otherwise the error leaves
\* execute() before the call, and nothing is recorded.
AllowRequestError(w) ==
    /\ pc[w] \in {"getState", "getLast", "tryLock", "setHalf"}
    /\ pc[w] = "tryLock" => stamp[w] >= Recovery
    /\ \/ UNCHANGED redis
       \/ pc[w] = "tryLock" /\ ttl["half_open_lock"] = 0 /\ ApplyLock
       \/ pc[w] = "setHalf" /\ ApplyHalfOpen
    /\ Goto(w, IF FailOpen THEN "running" ELSE "idle")
    /\ disturbed' = TRUE
    /\ UNCHANGED local

-----------------------------------------------------------------------------
(* The user's function, and the recording of its outcome.                  *)

FuncReturns(w) ==
    /\ pc[w] \in {"running", "probing"}
    /\ Goto(w, "recSuccess")
    /\ UNCHANGED <<redis, local, disturbed>>

\* record_failure takes its timestamp before its first await.
FuncRaises(w) ==
    /\ pc[w] \in {"running", "probing"}
    /\ Goto(w, "recFailure")
    /\ UNCHANGED <<redis, local, disturbed>>

RecordSuccess(w) ==
    /\ pc[w] = "recSuccess"
    /\ ApplySuccess
    /\ Observe(w, "CLOSED")
    /\ Goto(w, "idle")
    /\ UNCHANGED disturbed

\* Bug: one failure more than the threshold is needed.
ShouldOpenLate == circuit = "HALF_OPEN" \/ failures + 1 > Threshold

\* Bug: a failed probe only counts as one more failure.
ShouldOpenByCountOnly == failures + 1 >= Threshold

ShouldOpen == circuit = "HALF_OPEN" \/ failures + 1 >= Threshold

RecordFailure(w) ==
    /\ pc[w] = "recFailure"
    /\ ApplyFailure(stamp[w])
    /\ Observe(w, circuit)
    /\ Goto(w, IF ShouldOpen THEN "toOpen" ELSE "idle")
    /\ UNCHANGED disturbed

TransitionToOpen(w) ==
    /\ pc[w] = "toOpen"
    /\ ApplyOpen
    /\ Observe(w, "OPEN")
    /\ Goto(w, "idle")
    /\ UNCHANGED disturbed

\* A RedisError in a recording call is logged and swallowed.
RecordError(w) ==
    /\ pc[w] \in {"recSuccess", "recFailure", "toOpen"}
    /\ \/ UNCHANGED redis
       \/ pc[w] = "recSuccess" /\ ApplySuccess
       \/ pc[w] = "recFailure" /\ ApplyFailure(stamp[w])
       \/ pc[w] = "toOpen" /\ ApplyOpen
    /\ Goto(w, "idle")
    /\ disturbed' = TRUE
    /\ UNCHANGED local

\* Cancellation is a BaseException: execute()'s "except Exception" does not
\* see it, and neither a success nor a failure is recorded.
Cancel(w) ==
    /\ pc[w] # "idle"
    /\ Goto(w, "idle")
    /\ disturbed' = TRUE
    /\ UNCHANGED <<redis, local>>

-----------------------------------------------------------------------------
(* The operator's calls, and time.                                         *)

Reset(b) ==
    /\ ApplyReset
    /\ local' = [local EXCEPT ![b] = "CLOSED"]
    /\ UNCHANGED <<pc, stamp, disturbed>>

ResetError ==
    /\ ApplyReset
    /\ disturbed' = TRUE
    /\ UNCHANGED <<local, pc, stamp>>

GetMetrics(b) ==
    /\ local' = [local EXCEPT ![b] = circuit]
    /\ UNCHANGED <<redis, pc, stamp, disturbed>>

Expired(t) == IF t > 0 THEN t - 1 ELSE t

Tick ==
    /\ ttl' = [k \in Keys |-> Expired(ttl[k])]
    /\ circuit' = IF ttl'["state"] = 0 THEN "CLOSED" ELSE circuit
    /\ failures' = IF ttl'["failures"] = 0 THEN 0 ELSE failures
    /\ lastAge' = IF ttl'["last_failure"] = 0 THEN 0 ELSE Capped(lastAge + 1, Recovery)
    /\ stamp' = [w \in Workers |-> IF pc[w] \in {"tryLock", "recFailure"}
                                   THEN Capped(stamp[w] + 1, Recovery)
                                   ELSE 0]
    /\ UNCHANGED <<local, pc, disturbed>>

-----------------------------------------------------------------------------
\* The steps of a worker whose awaits are all answered.
Proceed(w) ==
    \/ GetState(w) \/ GetLastFailure(w) \/ RejectTooEarly(w) \/ TryLock(w) \/ SetHalfOpen(w)
    \/ FuncReturns(w) \/ FuncRaises(w)
    \/ RecordSuccess(w) \/ RecordFailure(w) \/ TransitionToOpen(w)
    \/ AllowRequestError(w) \/ RecordError(w)

Next ==
    \/ \E w \in Workers : Execute(w) \/ Proceed(w) \/ Cancel(w)
    \/ \E b \in Breakers : Reset(b) \/ GetMetrics(b)
    \/ ResetError
    \/ Tick

Spec == Init /\ [][Next]_vars

\* Time passes, and every await of a worker ends: the Redis client and the
\* callers bound their waits.  Nobody is obliged to call execute() or reset().
Fairness == WF_vars(Tick) /\ \A w \in Workers : WF_vars(Proceed(w))

FairSpec == Spec /\ Fairness

-----------------------------------------------------------------------------
\* Counting a failure and opening the circuit are two round trips.  As long as
\* no round trip failed and nobody was cancelled, no opening is lost between them, whatever the
\* other workers, expiring keys and resets do: while the count stands at the
\* threshold the circuit is open or half-open and will stay so at least as
\* long as the count lives, or a worker is about to open it.
OpeningNotLost ==
    ~disturbed /\ failures = Threshold =>
        \/ circuit # "CLOSED" /\ ttl["state"] >= ttl["failures"]
        \/ \E w \in Workers : pc[w] = "toOpen"

\* allow_request rejects every call while the circuit is half-open, so only
\* a call already in flight can end that state.  As long as no round trip
\* failed and nobody was cancelled there is one that will: a half-open circuit is never
\* left with nobody to close it or to open it again.
NoOrphanHalfOpen ==
    ~disturbed /\ circuit = "HALF_OPEN" =>
        \E w \in Workers : pc[w] \in {"probing", "recSuccess", "recFailure", "toOpen"}

\* Even when probes are cancelled or die and recordings are lost, the circuit
\* does not reject calls forever: it leaves HALF_OPEN again and again.
LeavesHalfOpen == []<>(circuit # "HALF_OPEN")

\* The same for OPEN, the last failure lost or not.
LeavesOpen == []<>(circuit # "OPEN")
=============================================================================
