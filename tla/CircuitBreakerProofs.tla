------------------------ MODULE CircuitBreakerProofs ------------------------
(***************************************************************************)
(* Proofs about CircuitBreaker, for any number of workers and any          *)
(* configuration: type correctness whatever fails, and, as long as no      *)
(* round trip failed and no worker was cancelled, the two invariants that  *)
(* say a circuit is neither left closed over its threshold nor half-open.  *)
(***************************************************************************)
EXTENDS CircuitBreaker, TLAPS

\* Every primitive that writes the four keys keeps their types.
LEMMA AppliesTyped ==
    ASSUME TypeOK,
           \/ ApplyLock \/ ApplyHalfOpen \/ ApplySuccess \/ ApplyOpen \/ ApplyReset
           \/ \E a \in 0 .. Recovery : ApplyFailure(a)
           \/ UNCHANGED redis
    PROVE  /\ circuit' \in CircuitState
           /\ failures' \in 0 .. Threshold
           /\ lastAge' \in 0 .. Recovery
           /\ ttl' \in [Keys -> Nat]
           /\ \A k \in Keys \ {"half_open_lock"} : ttl'[k] <= StateTTL
           /\ ttl'["half_open_lock"] <= Recovery
<1> USE ConfigAssumption DEF TypeOK, CircuitState, Keys
<1>1. CASE ApplyLock     BY <1>1 DEF ApplyLock
<1>2. CASE ApplyHalfOpen BY <1>2 DEF ApplyHalfOpen
<1>3. CASE ApplySuccess  BY <1>3 DEF ApplySuccess
<1>4. CASE ApplyOpen     BY <1>4 DEF ApplyOpen
<1>5. CASE ApplyReset    BY <1>5 DEF ApplyReset
<1>6. ASSUME NEW a \in 0 .. Recovery, ApplyFailure(a)
      PROVE  /\ circuit' \in CircuitState
             /\ failures' \in 0 .. Threshold
             /\ lastAge' \in 0 .. Recovery
             /\ ttl' \in [Keys -> Nat]
             /\ \A k \in Keys \ {"half_open_lock"} : ttl'[k] <= StateTTL
             /\ ttl'["half_open_lock"] <= Recovery
      BY <1>6 DEF ApplyFailure, Capped
<1>7. CASE UNCHANGED redis BY <1>7 DEF redis
<1> QED BY <1>1, <1>2, <1>3, <1>4, <1>5, <1>6, <1>7

\* A worker moves to one of the awaits, and the local copies stay states.
LEMMA GotoTyped ==
    ASSUME TypeOK, NEW w \in Workers, NEW await \in Awaits \cup {"idle"},
           NEW a \in 0 .. Recovery, GotoWith(w, await, a)
    PROVE  /\ pc' \in [Workers -> Awaits \cup {"idle"}]
           /\ stamp' \in [Workers -> 0 .. Recovery]
BY DEF TypeOK, GotoWith

LEMMA ObserveTyped ==
    ASSUME TypeOK, NEW w \in Workers, NEW s \in CircuitState,
           Observe(w, s) \/ UNCHANGED local
    PROVE  local' \in [Breakers -> CircuitState]
BY ConfigAssumption DEF TypeOK, Observe

LEMMA TypeStep == TypeOK /\ [Next]_vars => TypeOK'
<1> SUFFICES ASSUME TypeOK, [Next]_vars PROVE TypeOK'
    OBVIOUS
<1> USE ConfigAssumption
<1> DEFINE Applied ==
        \/ ApplyLock \/ ApplyHalfOpen \/ ApplySuccess \/ ApplyOpen \/ ApplyReset
        \/ \E a \in 0 .. Recovery : ApplyFailure(a)
        \/ UNCHANGED redis
<1>1. ASSUME NEW w \in Workers, Execute(w) \/ Proceed(w) \/ Cancel(w)
      PROVE  TypeOK'
  <2>1. Applied
    <3>1. stamp[w] \in 0 .. Recovery BY DEF TypeOK
    <3> QED BY <1>1, <3>1
        DEF Execute, Proceed, Cancel, GetState, GetLastFailure, RejectTooEarly, TryLock,
            SetHalfOpen, FuncReturns, FuncRaises, RecordSuccess, RecordFailure,
            TransitionToOpen, AllowRequestError, RecordError, redis
  <2>2. PICK await \in Awaits \cup {"idle"}, a \in 0 .. Recovery : GotoWith(w, await, a)
    <3>1. 0 \in 0 .. Recovery /\ lastAge \in 0 .. Recovery BY DEF TypeOK
    <3>2. circuit \in {"CLOSED", "OPEN", "HALF_OPEN"} BY DEF TypeOK, CircuitState
    <3> QED BY <1>1, <3>1, <3>2
        DEF Execute, Proceed, Cancel, GetState, GetLastFailure, RejectTooEarly, TryLock,
            SetHalfOpen, FuncReturns, FuncRaises, RecordSuccess, RecordFailure,
            TransitionToOpen, AllowRequestError, RecordError, Goto, Awaits
  <2>3. PICK s \in CircuitState : Observe(w, s) \/ UNCHANGED local
    <3>1. circuit \in CircuitState /\ "CLOSED" \in CircuitState /\ "OPEN" \in CircuitState
          /\ "HALF_OPEN" \in CircuitState
          BY DEF TypeOK, CircuitState
    <3> QED BY <1>1, <3>1
        DEF Execute, Proceed, Cancel, GetState, GetLastFailure, RejectTooEarly, TryLock,
            SetHalfOpen, FuncReturns, FuncRaises, RecordSuccess, RecordFailure,
            TransitionToOpen, AllowRequestError, RecordError
  <2> HIDE DEF Applied
  <2>4. /\ circuit' \in CircuitState
        /\ failures' \in 0 .. Threshold
        /\ lastAge' \in 0 .. Recovery
        /\ ttl' \in [Keys -> Nat]
        /\ \A k \in Keys \ {"half_open_lock"} : ttl'[k] <= StateTTL
        /\ ttl'["half_open_lock"] <= Recovery
        BY <2>1, AppliesTyped DEF Applied
  <2>5. pc' \in [Workers -> Awaits \cup {"idle"}] /\ stamp' \in [Workers -> 0 .. Recovery]
        BY <2>2, GotoTyped
  <2>6. local' \in [Breakers -> CircuitState]
        BY <2>3, ObserveTyped
  <2>7. disturbed' \in BOOLEAN
    <3>1. disturbed' = TRUE \/ UNCHANGED disturbed
        BY <1>1 DEF Execute, Proceed, Cancel, GetState, GetLastFailure, RejectTooEarly, TryLock,
            SetHalfOpen, FuncReturns, FuncRaises, RecordSuccess, RecordFailure,
            TransitionToOpen, AllowRequestError, RecordError
    <3> QED BY <3>1 DEF TypeOK
  <2> QED BY <2>4, <2>5, <2>6, <2>7 DEF TypeOK
<1>2. ASSUME ResetError \/ \E b \in Breakers : Reset(b) \/ GetMetrics(b)
      PROVE  TypeOK'
  <2>1. local' \in [Breakers -> CircuitState]
        BY <1>2 DEF Reset, ResetError, GetMetrics, TypeOK, CircuitState
  <2>2. UNCHANGED <<pc, stamp>>
        BY <1>2 DEF Reset, ResetError, GetMetrics
  <2>3. ApplyReset \/ UNCHANGED redis
        BY <1>2 DEF Reset, ResetError, GetMetrics
  <2>4. /\ circuit' \in CircuitState
        /\ failures' \in 0 .. Threshold
        /\ lastAge' \in 0 .. Recovery
        /\ ttl' \in [Keys -> Nat]
        /\ \A k \in Keys \ {"half_open_lock"} : ttl'[k] <= StateTTL
        /\ ttl'["half_open_lock"] <= Recovery
        BY <2>3, AppliesTyped
  <2>5. disturbed' \in BOOLEAN
        BY <1>2 DEF Reset, ResetError, GetMetrics, TypeOK
  <2> QED BY <2>1, <2>2, <2>4, <2>5 DEF TypeOK
<1>3. CASE Tick
  <2>1. stamp' \in [Workers -> 0 .. Recovery]
        BY <1>3 DEF Tick, TypeOK, Capped
  <2>2. /\ ttl' \in [Keys -> Nat]
        /\ \A k \in Keys \ {"half_open_lock"} : ttl'[k] <= StateTTL
        /\ ttl'["half_open_lock"] <= Recovery
        BY <1>3 DEF Tick, TypeOK, Expired, Keys
  <2>3. /\ circuit' \in CircuitState
        /\ failures' \in 0 .. Threshold
        /\ lastAge' \in 0 .. Recovery
        BY <1>3 DEF Tick, TypeOK, CircuitState, Capped
  <2> QED BY <1>3, <2>1, <2>2, <2>3 DEF Tick, TypeOK
<1>4. CASE UNCHANGED vars
      BY <1>4 DEF vars, TypeOK
<1> QED BY <1>1, <1>2, <1>3, <1>4 DEF Next

\* The keys, the local copies and the workers keep their types in every
\* configuration, whatever round trips fail and whoever is cancelled.
THEOREM TypeCorrect == Spec => []TypeOK
<1>1. Init => TypeOK
  <2> SUFFICES ASSUME Init PROVE TypeOK
      OBVIOUS
  <2> USE ConfigAssumption DEF Init, CircuitState, Keys, Awaits
  <2>1. /\ ttl \in [Keys -> Nat]
        /\ \A k \in Keys \ {"half_open_lock"} : ttl[k] <= StateTTL
        /\ ttl["half_open_lock"] <= Recovery
      OBVIOUS
  <2>2. /\ local \in [Breakers -> CircuitState]
        /\ pc \in [Workers -> Awaits \cup {"idle"}]
        /\ stamp \in [Workers -> 0 .. Recovery]
        /\ failures \in 0 .. Threshold /\ lastAge \in 0 .. Recovery
      OBVIOUS
  <2> QED BY <2>1, <2>2 DEF TypeOK
<1> QED BY <1>1, TypeStep, PTL DEF Spec

-----------------------------------------------------------------------------
\* OpeningNotLost is inductive given the types: a step either leaves the keys
\* and every pending opening alone, or renews the state key, or clears the count.
LEMMA OpeningStep ==
    ASSUME TypeOK, TypeOK', OpeningNotLost, [Next]_vars
    PROVE  OpeningNotLost'
<1> SUFFICES ASSUME ~disturbed' PROVE OpeningNotLost'
    BY DEF OpeningNotLost
<1> USE ConfigAssumption DEF TypeOK, Keys, CircuitState
<1> DEFINE Kept == /\ UNCHANGED <<redis, disturbed>>
                   /\ \A v \in Workers : pc[v] = "toOpen" => pc'[v] = "toOpen"
<1>0. Kept => OpeningNotLost'
      BY DEF OpeningNotLost, redis
<1> HIDE DEF Kept
<1>1. ASSUME NEW w \in Workers, Execute(w) \/ Proceed(w) \/ Cancel(w)
      PROVE  OpeningNotLost'
  <2> USE DEF Goto, GotoWith
  <2>1. CASE Execute(w)
        BY <1>0, <2>1 DEF Execute, Kept
  <2>2. CASE GetState(w)
        BY <1>0, <2>2 DEF GetState, Kept
  <2>3. CASE GetLastFailure(w)
        BY <1>0, <2>3 DEF GetLastFailure, Kept
  <2>4. CASE RejectTooEarly(w)
        BY <1>0, <2>4 DEF RejectTooEarly, Kept
  <2>5. CASE TryLock(w)
    <3>1. CASE UNCHANGED redis
          BY <1>0, <2>5, <3>1 DEF TryLock, Kept
    <3>2. CASE ApplyLock
      <4>1. /\ \A v \in Workers : pc[v] = "toOpen" => pc'[v] = "toOpen"
            /\ disturbed' = disturbed
            BY <2>5 DEF TryLock
      <4> QED BY <3>2, <4>1 DEF ApplyLock, OpeningNotLost
    <3> QED BY <2>5, <3>1, <3>2 DEF TryLock
  <2>6. CASE SetHalfOpen(w)
        BY <2>6 DEF SetHalfOpen, ApplyHalfOpen, OpeningNotLost
  <2>7. CASE FuncReturns(w) \/ FuncRaises(w)
        BY <1>0, <2>7 DEF FuncReturns, FuncRaises, Kept
  <2>8. CASE RecordSuccess(w)
        BY <2>8 DEF RecordSuccess, ApplySuccess, OpeningNotLost
  <2>9. CASE RecordFailure(w)
    <3>1. CASE ShouldOpen
          BY <2>9, <3>1 DEF RecordFailure, OpeningNotLost
    <3>2. CASE ~ShouldOpen
      <4>1. failures' # Threshold
            BY <2>9, <3>2 DEF RecordFailure, ApplyFailure, ShouldOpen, Capped
      <4> QED BY <4>1 DEF OpeningNotLost
    <3> QED BY <3>1, <3>2
  <2>10. CASE TransitionToOpen(w)
        BY <2>10 DEF TransitionToOpen, ApplyOpen, OpeningNotLost
  <2>11. ~AllowRequestError(w) /\ ~RecordError(w) /\ ~Cancel(w)
        BY DEF AllowRequestError, RecordError, Cancel
  <2> QED BY <1>1, <2>1, <2>2, <2>3, <2>4, <2>5, <2>6, <2>7, <2>8, <2>9, <2>10, <2>11
          DEF Proceed
<1>2. ASSUME NEW b \in Breakers, Reset(b) \/ GetMetrics(b)
      PROVE  OpeningNotLost'
  <2>1. CASE Reset(b)
        BY <2>1 DEF Reset, ApplyReset, OpeningNotLost
  <2>2. CASE GetMetrics(b)
        BY <1>0, <2>2 DEF GetMetrics, Kept
  <2> QED BY <1>2, <2>1, <2>2
<1>3. CASE Tick
      BY <1>3 DEF Tick, Expired, OpeningNotLost
<1>4. CASE UNCHANGED vars
      BY <1>0, <1>4 DEF vars, Kept, redis
<1>5. ~ResetError
      BY DEF ResetError
<1> QED BY <1>1, <1>2, <1>3, <1>4, <1>5 DEF Next

\* A failure count at the threshold is never without an open or half-open
\* circuit that outlives it, or a worker about to open it.
THEOREM NoOpeningIsLost == Spec => []OpeningNotLost
<1>1. Init => OpeningNotLost
      BY ConfigAssumption DEF Init, OpeningNotLost
<1>2. TypeOK /\ TypeOK' /\ OpeningNotLost /\ [Next]_vars => OpeningNotLost'
      BY OpeningStep
<1> QED BY <1>1, <1>2, TypeCorrect, PTL DEF Spec

-----------------------------------------------------------------------------
\* The awaits from which a worker ends a half-open circuit.
Ending == {"probing", "recSuccess", "recFailure", "toOpen"}

LEMMA HalfOpenStep ==
    ASSUME TypeOK, NoOrphanHalfOpen, [Next]_vars
    PROVE  NoOrphanHalfOpen'
<1> SUFFICES ASSUME ~disturbed' PROVE NoOrphanHalfOpen'
    BY DEF NoOrphanHalfOpen
<1> USE ConfigAssumption DEF TypeOK, Ending
<1> DEFINE Kept == /\ UNCHANGED <<circuit, disturbed>>
                   /\ \A v \in Workers : pc[v] \in Ending => pc'[v] \in Ending
<1>0. Kept => NoOrphanHalfOpen'
      BY DEF NoOrphanHalfOpen
<1>a. circuit' # "HALF_OPEN" => NoOrphanHalfOpen'
      BY DEF NoOrphanHalfOpen
<1> HIDE DEF Kept
<1>1. ASSUME NEW w \in Workers, Execute(w) \/ Proceed(w) \/ Cancel(w)
      PROVE  NoOrphanHalfOpen'
  <2> USE DEF Goto, GotoWith
  <2>1. CASE Execute(w)
        BY <1>0, <2>1 DEF Execute, Kept, redis
  <2>2. CASE GetState(w)
        BY <1>0, <2>2 DEF GetState, Kept, redis
  <2>3. CASE GetLastFailure(w)
        BY <1>0, <2>3 DEF GetLastFailure, Kept, redis
  <2>4. CASE RejectTooEarly(w)
        BY <1>0, <2>4 DEF RejectTooEarly, Kept, redis
  <2>5. CASE TryLock(w)
        BY <1>0, <2>5 DEF TryLock, ApplyLock, Kept, redis
  <2>6. CASE SetHalfOpen(w)
        BY <2>6 DEF SetHalfOpen, NoOrphanHalfOpen
  <2>7. CASE FuncReturns(w) \/ FuncRaises(w)
        BY <1>0, <2>7 DEF FuncReturns, FuncRaises, Kept, redis
  <2>8. CASE RecordSuccess(w)
        BY <1>a, <2>8 DEF RecordSuccess, ApplySuccess
  <2>9. CASE RecordFailure(w)
    <3>1. CASE circuit = "HALF_OPEN"
          BY <2>9, <3>1 DEF RecordFailure, ShouldOpen, NoOrphanHalfOpen
    <3>2. CASE circuit # "HALF_OPEN"
          BY <1>a, <2>9, <3>2 DEF RecordFailure, ApplyFailure
    <3> QED BY <3>1, <3>2
  <2>10. CASE TransitionToOpen(w)
        BY <1>a, <2>10 DEF TransitionToOpen, ApplyOpen
  <2>11. ~AllowRequestError(w) /\ ~RecordError(w) /\ ~Cancel(w)
        BY DEF AllowRequestError, RecordError, Cancel
  <2> QED BY <1>1, <2>1, <2>2, <2>3, <2>4, <2>5, <2>6, <2>7, <2>8, <2>9, <2>10, <2>11
          DEF Proceed
<1>2. ASSUME NEW b \in Breakers, Reset(b) \/ GetMetrics(b)
      PROVE  NoOrphanHalfOpen'
  <2>1. CASE Reset(b)
        BY <1>a, <2>1 DEF Reset, ApplyReset
  <2>2. CASE GetMetrics(b)
        BY <1>0, <2>2 DEF GetMetrics, Kept, redis
  <2> QED BY <1>2, <2>1, <2>2
<1>3. CASE Tick
      BY <1>3 DEF Tick, NoOrphanHalfOpen
<1>4. CASE UNCHANGED vars
      BY <1>0, <1>4 DEF vars, Kept
<1>5. ~ResetError
      BY DEF ResetError
<1> QED BY <1>1, <1>2, <1>3, <1>4, <1>5 DEF Next

\* A half-open circuit, which rejects every new call, always has a call in
\* flight that will close it or open it again.
THEOREM HalfOpenIsAttended == Spec => []NoOrphanHalfOpen
<1>1. Init => NoOrphanHalfOpen
      BY DEF Init, NoOrphanHalfOpen
<1>2. TypeOK /\ NoOrphanHalfOpen /\ [Next]_vars => NoOrphanHalfOpen'
      BY HalfOpenStep
<1> QED BY <1>1, <1>2, TypeCorrect, PTL DEF Spec
=============================================================================
