--------------------------- MODULE ShutdownProofs ---------------------------
(***************************************************************************)
(* What holds of the registration, the signals and the clean-up for any    *)
(* applications, callbacks and number of signals.                          *)
(***************************************************************************)
EXTENDS Shutdown, TLAPS

\* What is awaited is a callback of a clean-up, and not yet counted as ended:
\* without this its end could be counted below zero.
AwaitInv == \A a \in awaiting : pc[a] = "cleanup" /\ left[a] > 0

LEMMA TypeInit == Init => TypeOK /\ AwaitInv
  <1> SUFFICES ASSUME Init PROVE TypeOK /\ AwaitInv
    OBVIOUS
  <1>1. Callbacks \in 0 .. Callbacks /\ 0 \in 0 .. MaxSignals
    BY ConfigAssumption, SMT
  <1>2. 0 \in 0 .. 0
    BY SMT
  <1> QED
    BY <1>1, <1>2 DEF Init, TypeOK, Steps, AwaitInv

LEMMA TypeStep == ASSUME TypeOK, AwaitInv, [Next]_vars PROVE TypeOK' /\ AwaitInv'
  <1> USE DEF TypeOK, Steps, Goto, AwaitInv, calls
  <1>1. CASE UNCHANGED vars
    BY <1>1 DEF vars
  <1>2. ASSUME NEW a \in Apps, Progress(a) \/ Stop(a) \/ Resume(a)
        PROVE TypeOK' /\ AwaitInv'
    <2>1. CASE Lock(a)
      BY <2>1 DEF Lock
    <2>2. CASE Install(a)
      BY <2>2 DEF Install, AfterRegister
    <2>3. CASE Append(a)
      BY <2>3 DEF Append, AfterRegister
    <2>4. CASE RegisterSignalHandlers(a)
      BY <2>4 DEF RegisterSignalHandlers
    <2>5. left[a] > 0 => left[a] - 1 \in 0 .. Callbacks
      BY ConfigAssumption, SMT
    <2>6. CASE Callback(a)
      BY <2>5, <2>6 DEF Callback
    <2>7. CASE Timeout(a)
      BY <2>7 DEF Timeout
    <2>8. CASE End(a)
      BY <2>8 DEF End
    <2>9. CASE Stop(a)
      BY <2>9 DEF Stop
    <2>10. CASE Resume(a)
      BY <2>5, <2>10 DEF Resume
    <2> QED
      BY <1>2, <2>1, <2>2, <2>3, <2>4, <2>6, <2>7, <2>8, <2>9, <2>10 DEF Progress
  <1>3. CASE Signal
    <2>1. /\ signals + 1 \in 0 .. MaxSignals
          /\ waiting \in 0 .. signals + 1 /\ waiting + 1 \in 0 .. signals + 1
      BY <1>3, ConfigAssumption, SMT DEF Signal
    <2>2. handler # Global => handler \in Apps
      BY <1>3 DEF Signal, Apps
    <2>3. waiting' \in 0 .. signals' /\ nested' \in BOOLEAN
      BY <1>3, <2>1 DEF Signal
    <2>4. event' \subseteq Apps
      BY <1>3, <2>2 DEF Signal
    <2> QED
      BY <1>3, <2>1, <2>3, <2>4 DEF Signal
  <1>4. CASE HandlerLocks
    <2>1. waiting - 1 \in 0 .. signals
      BY <1>4, ConfigAssumption, SMT DEF HandlerLocks
    <2> QED
      BY <1>4, <2>1 DEF HandlerLocks
  <1>5. CASE Notify
    BY <1>5 DEF Notify
  <1>6. CASE HandlerUnlocks
    BY <1>6 DEF HandlerUnlocks
  <1> QED
    BY <1>1, <1>2, <1>3, <1>4, <1>5, <1>6 DEF Next, Handle

\* Every variable keeps its type, and no callback is counted twice.
THEOREM TypeCorrect == Spec => [](TypeOK /\ AwaitInv)
  <1>1. TypeOK /\ AwaitInv /\ [Next]_vars => (TypeOK /\ AwaitInv)'
    BY TypeStep
  <1> QED
    BY TypeInit, <1>1, PTL DEF Spec

-----------------------------------------------------------------------------
\* a is in the middle of its start.
Starting(a) == pc[a] \in {"install", "append", "legacy"}

\* One application of the main thread starts at a time, and whoever is past
\* the installation, or has the lock, has what goes with it.
StartInv ==
    /\ \A a \in Apps : lock = a <=> pc[a] \in {"install", "append"}
    /\ \A a, b \in MainApps : Starting(a) /\ Starting(b) => a = b
    /\ \A a \in MainApps : pc[a] \notin {"new", "install"} => installed

\* The handler for all is there at most until the first lifespan of the main
\* thread is up, and its calls are only under way meanwhile; once installed, an
\* event is, or is just being, registered.
HandlerInv ==
    /\ handler # Nobody => installed
    /\ installed => registry # {} \/ \E a \in Apps : pc[a] = "append"
    /\ waiting > 0 \/ lock = Global => handler = Global
    /\ nested => lock = Global
    /\ handler = Global =>
          \A a \in MainApps \ Alone : pc[a] \in {"new", "install", "append", "legacy"}

SignalInv == StartInv /\ HandlerInv /\ NoSignalSwallowed

LEMMA SignalInit == Init => SignalInv
  <1> SUFFICES ASSUME Init PROVE SignalInv
    OBVIOUS
  <1>1. ~(0 > 0)
    BY SMT
  <1> QED
    BY <1>1, ConfigAssumption DEF Init, SignalInv, StartInv, HandlerInv, NoSignalSwallowed,
       Starting, Apps

\* A handler's call in the main thread lets no application there go on, and
\* one that starts goes before the others.
LEMMA MainRuns ==
    ASSUME NEW a \in MainApps, Runs(a)
    PROVE /\ waiting = 0 /\ lock # Global
          /\ \A b \in MainApps \ {a} : ~Starting(b)
  BY DEF Runs, Starting

\* No application is Global or nobody, nor are these the same.
LEMMA AppsAre == Global # Nobody /\ \A a \in Apps : a # Global /\ a # Nobody
  BY ConfigAssumption

LEMMA StartStep == ASSUME TypeOK, AwaitInv, SignalInv, [Next]_vars PROVE StartInv'
  <1> USE DEF TypeOK, Steps, Goto, SignalInv, StartInv, Starting, Apps
  <1>1. CASE UNCHANGED vars
    BY <1>1 DEF vars
  <1>2. ASSUME NEW a \in Apps, Progress(a) \/ Stop(a) \/ Resume(a) PROVE StartInv'
    <2>1. CASE Lock(a)
      BY <2>1, MainRuns, AppsAre DEF Lock
    <2>2. CASE Install(a)
      <3>1. CASE pc' = [pc EXCEPT ![a] = "append"] /\ lock' = lock /\ installed'
        BY <2>2, <3>1 DEF Install
      <3>2. CASE /\ a \notin MainApps /\ installed' = installed /\ lock' = Nobody
                 /\ pc' = [pc EXCEPT ![a] = AfterRegister(a)]
        BY <2>2, <3>2, AppsAre DEF Install, AfterRegister
      <3> QED
        BY <2>2, <3>1, <3>2, ConfigAssumption DEF Install
    <2>3. CASE Append(a)
      BY <2>3, AppsAre DEF Append, AfterRegister
    <2>4. CASE RegisterSignalHandlers(a)
      BY <2>4 DEF RegisterSignalHandlers
    <2>5. CASE Callback(a)
      BY <2>5 DEF Callback
    <2>6. CASE Timeout(a)
      <3>1. pc[a] = "cleanup"
        BY <2>6 DEF Timeout, AwaitInv
      <3> QED
        BY <2>6, <3>1 DEF Timeout
    <2>7. CASE End(a)
      BY <2>7 DEF End
    <2>8. CASE Stop(a)
      BY <2>8 DEF Stop
    <2>9. CASE Resume(a)
      BY <2>9 DEF Resume
    <2> QED
      BY <1>2, <2>1, <2>2, <2>3, <2>4, <2>5, <2>6, <2>7, <2>8, <2>9 DEF Progress
  <1>3. CASE Signal \/ Notify
    BY <1>3 DEF Signal, Notify
  <1>4. CASE HandlerLocks \/ HandlerUnlocks
    BY <1>4, AppsAre DEF HandlerLocks, HandlerUnlocks
  <1> QED
    BY <1>1, <1>2, <1>3, <1>4 DEF Next, Handle

LEMMA HandlerStep ==
    ASSUME TypeOK, AwaitInv, SignalInv, [Next]_vars
    PROVE HandlerInv' /\ NoSignalSwallowed'
  <1> USE DEF TypeOK, Steps, Goto, SignalInv, HandlerInv, NoSignalSwallowed, Handled, Apps, calls
  <1>1. CASE UNCHANGED vars
    BY <1>1 DEF vars
  <1>2. ASSUME NEW a \in Apps, Progress(a) \/ Stop(a) \/ Resume(a)
        PROVE HandlerInv' /\ NoSignalSwallowed'
    <2>1. CASE Lock(a)
      BY <2>1, AppsAre DEF Lock
    <2>2. CASE Install(a)
      <3>0. lock = a /\ a # Global
        BY <2>2, AppsAre DEF Install, StartInv
      <3>1. CASE installed
        BY <2>2, <3>0, <3>1 DEF Install
      <3>2. CASE ~installed /\ a \in MainApps
        <4>1. \A b \in MainApps : pc[b] \in {"new", "install"}
          BY <3>2 DEF StartInv
        <4>2. waiting = 0 /\ handler = Nobody
          BY <2>2, <3>2, MainRuns DEF Install
        <4> QED
          BY <2>2, <3>0, <3>2, <4>1, <4>2, ConfigAssumption DEF Install
      <3>3. CASE ~installed /\ a \in ThreadApps
        BY <2>2, <3>0, <3>3, ConfigAssumption DEF Install, AfterRegister
      <3> QED
        BY <3>1, <3>2, <3>3
    <2>3. CASE Append(a)
      <3>1. lock = a /\ a # Global /\ lock' = Nobody
        BY <2>3, AppsAre DEF Append, StartInv
      <3>2. registry' # {}
        BY <2>3 DEF Append
      <3>3. handler' = Global =>
               \A b \in MainApps \ Alone : pc'[b] \in {"new", "install", "append", "legacy"}
        BY <2>3 DEF Append, AfterRegister
      <3> QED
        BY <2>3, <3>1, <3>2, <3>3, AppsAre DEF Append
    <2>4. CASE RegisterSignalHandlers(a)
      <3>1. CASE a \in MainApps
        <4>1. /\ waiting = 0 /\ lock # Global /\ handler' = a /\ a # Global /\ a # Nobody
              /\ installed
          BY <2>4, <3>1, MainRuns, AppsAre DEF RegisterSignalHandlers, StartInv
        <4>2. ~(waiting > 0)
          BY <4>1, SMT
        <4> QED
          BY <2>4, <4>1, <4>2 DEF RegisterSignalHandlers
      <3>2. CASE a \notin MainApps
        BY <2>4, <3>2 DEF RegisterSignalHandlers
      <3> QED
        BY <3>1, <3>2
    <2>5. CASE Callback(a)
      BY <2>5 DEF Callback
    <2>6. CASE Timeout(a)
      <3>1. pc[a] = "cleanup"
        BY <2>6 DEF Timeout, AwaitInv
      <3> QED
        BY <2>6, <3>1 DEF Timeout
    <2>7. CASE End(a)
      BY <2>7 DEF End
    <2>8. CASE Stop(a)
      BY <2>8 DEF Stop
    <2>9. CASE Resume(a)
      BY <2>9 DEF Resume
    <2> QED
      BY <1>2, <2>1, <2>2, <2>3, <2>4, <2>5, <2>6, <2>7, <2>8, <2>9 DEF Progress
  <1>3. CASE Signal
    <2>1. CASE handler = Global
      <3>1. waiting' # 0
        BY <1>3, <2>1, SMT DEF Signal
      <3>2. NoSignalSwallowed'
        BY <3>1
      <3> QED
        BY <1>3, <2>1, <3>2 DEF Signal
    <2>2. CASE handler # Global
      BY <1>3, <2>2 DEF Signal
    <2> QED
      BY <2>1, <2>2
  <1>4. CASE HandlerLocks
    <2>1. handler = Global
      BY <1>4 DEF HandlerLocks
    <2> QED
      BY <1>4, <2>1, ConfigAssumption DEF HandlerLocks
  <1>5. CASE Notify
    BY <1>5 DEF Notify
  <1>6. CASE HandlerUnlocks
    <2>1. registry # {}
      <3>1. \A a \in Apps : pc[a] # "append"
        BY <1>6, AppsAre DEF HandlerUnlocks, StartInv
      <3>2. installed
        BY <1>6, ConfigAssumption DEF HandlerUnlocks
      <3> QED
        BY <3>1, <3>2
    <2>2. event # {}
      BY <1>6, <2>1 DEF HandlerUnlocks
    <2> QED
      BY <1>6, <2>2, ConfigAssumption DEF HandlerUnlocks
  <1> QED
    BY <1>1, <1>2, <1>3, <1>4, <1>5, <1>6 DEF Next, Handle

LEMMA SignalAlways == Spec => [](TypeOK /\ SignalInv)
  <1>1. Init => TypeOK /\ AwaitInv /\ SignalInv
    BY TypeInit, SignalInit
  <1>2. (TypeOK /\ AwaitInv /\ SignalInv) /\ [Next]_vars => (TypeOK /\ AwaitInv /\ SignalInv)'
    BY TypeStep, StartStep, HandlerStep DEF SignalInv
  <1> QED
    BY <1>1, <1>2, PTL DEF Spec

\* A signal whose handler has ended has told some application: since the
\* registry's lock is held from the installation to the registration.
THEOREM NoSignalIsSwallowed == Spec => []NoSignalSwallowed
  <1>1. SignalInv => NoSignalSwallowed
    BY DEF SignalInv
  <1> QED
    BY SignalAlways, <1>1, PTL

\* The handler waits for a lock of its own thread, that of a registration or
\* its own, only before the first lifespan of the main thread is up: the
\* handler that the lifespan installs takes no lock, and the global one is
\* never installed again.
THEOREM WedgesOnlyBeforeUp == Spec => []WedgedOnlyBeforeUp
  <1>1. SignalInv => WedgedOnlyBeforeUp
    BY DEF SignalInv, HandlerInv, WedgedOnlyBeforeUp, Wedged
  <1> QED
    BY SignalAlways, <1>1, PTL
=============================================================================
