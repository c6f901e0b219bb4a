------------------------- MODULE FlightRecorderProofs -------------------------
(***************************************************************************)
(* What holds of the recorder's events and timers for any threads, events, *)
(* timers, failures and sizes of the buffer.                               *)
(*                                                                         *)
(* The argument for the events: once the first calls in a child are over,  *)
(* everybody uses one lock, so that who has it is alone with the buffer;   *)
(* until then, everything in the buffer has been there during a reset.     *)
(***************************************************************************)
EXTENDS FlightRecorder, FiniteSetTheorems, TLAPS

ThreadPhases == {"idle", "enter", "added", "wrote", "tested", "cleared", "swapped"}
TimerPhases == {"off", "wait", "enter", "wrote", "check", "start"}
Calls == {"flush", "leave", "disable", None}

Typed ==
    /\ buffer \in Seq(Events)
    /\ lock \in Nat /\ ref \in [Actors -> Nat]
    /\ phase \in [Actors -> ThreadPhases \union TimerPhases]
    /\ \A t \in Threads : phase[t] \in ThreadPhases
    /\ \A i \in Timers : phase[i] \in TimerPhases
    /\ call \in [Actors -> Events \union Calls]
    /\ written \subseteq Events /\ twice \subseteq written
    /\ emitted \subseteq Events /\ shaken \subseteq Events

\* A thread that is in no call has none, and two threads emit no event together;
\* an event that waits to be added has not been anywhere.
Called ==
    /\ \A i \in Timers : call[i] = None
    /\ \A t \in Threads :
          /\ phase[t] \notin {"enter", "added", "wrote"} => call[t] = None
          /\ phase[t] = "added" => call[t] \in Events
          /\ phase[t] = "enter" /\ call[t] \in Events =>
                call[t] \notin Pending \union written \union emitted \union shaken
    /\ \A t, u \in Threads : call[t] = call[u] /\ call[t] \in Events => t = u

\* No lock has two holders; and while not all use the same one, or a reset is
\* due, the buffer has only events that the properties leave out.
Locked ==
    /\ \A a \in Actors : ref[a] <= lock
    /\ \A a, b \in Holding : ref[a] = ref[b] => a = b
    /\ stale =>
          /\ buffer = <<>>
          /\ \A t \in Threads : phase[t] \in {"idle", "tested"}
          /\ \A i \in Timers : phase[i] = "off"
    /\ Unsettled => Pending \subseteq shaken

\* An event that was added stays in the buffer until it is written, and what is
\* written stays only until the buffer is cleared.
Kept ==
    /\ \A i, j \in DOMAIN buffer : buffer[i] = buffer[j] => i = j
    /\ \A t \in Threads :
          /\ phase[t] = "added" => call[t] \in Pending \union shaken
          /\ phase[t] = "wrote" /\ call[t] \in Events => call[t] \in written \union shaken
    /\ \A a \in Actors : phase[a] = "wrote" => Pending \subseteq written \union shaken
    /\ ~raised /\ (\A a \in Actors : phase[a] # "wrote")
          => Pending \intersect written \subseteq shaken

EventInv == Typed /\ Called /\ Locked /\ Kept /\ Accounted /\ CriticalIsWritten

LEMMA Names ==
    /\ Threads \intersect Timers = {} /\ Actors = Threads \union Timers
    /\ None \notin Events /\ Events \intersect {"flush", "leave", "disable"} = {}
    /\ None \notin {"flush", "leave", "disable"}
    /\ Calls \intersect Events = {} /\ Critical \subseteq Events
  BY ConfigAssumption DEF Actors, Calls, Events

LEMMA EventInit == Init => EventInv
  <1> SUFFICES ASSUME Init PROVE EventInv
    OBVIOUS
  <1>1. /\ buffer = <<>> /\ DOMAIN buffer = {} /\ Pending = {} /\ lock = 0
        /\ written = {} /\ twice = {} /\ emitted = {} /\ shaken = {} /\ stale = FALSE
    BY SMT DEF Init, Pending, ToSet
  <1>2. /\ phase \in [Actors -> ThreadPhases \union TimerPhases]
        /\ \A t \in Threads : phase[t] = "idle" \/ phase[t] = "wait"
        /\ \A a \in Actors : phase[a] \in {"idle", "wait", "off"}
    BY DEF Init, ThreadPhases, TimerPhases, Actors
  <1>3. current \in Timers
    <2>1. Timers # {}
      <3>1. Timers = {} => Cardinality(Timers) = 0
        BY FS_EmptySet
      <3>2. Cardinality(Threads) \in Nat
        BY ConfigAssumption, FS_CardinalityType
      <3> QED
        BY <3>1, <3>2, ConfigAssumption, SMT
    <2> QED
      BY <2>1 DEF Init
  <1>4. /\ \A t \in Threads : phase[t] = "idle"
        /\ \A i \in Timers : phase[i] \in {"wait", "off"}
    BY <1>3, Names DEF Init
  <1>5. \A a \in Actors : call[a] = None /\ ref[a] = 0
    BY DEF Init
  <1>6. Holding = {} /\ ~Unsettled
    BY <1>2, <1>4, Names, SMT DEF Holding, Unsettled, Resetting, Engaged
  <1>7. Typed
    BY <1>1, <1>2, <1>4, SMT DEF Typed, Init, ThreadPhases, TimerPhases, Calls
  <1>8. Called /\ Locked /\ Kept
    BY <1>1, <1>2, <1>4, <1>5, <1>6, Names, SMT DEF Called, Locked, Kept
  <1>9. Accounted /\ CriticalIsWritten
    BY <1>1 DEF Accounted, CriticalIsWritten
  <1> QED
    BY <1>7, <1>8, <1>9 DEF EventInv

-----------------------------------------------------------------------------
(* Steps that leave the events alone.                                      *)

\* Only a moves, and timers are started and cancelled.
Only(a) ==
    \A x \in Actors : x # a =>
        /\ ref'[x] = ref[x] /\ call'[x] = call[x]
        /\ \/ phase'[x] = phase[x]
           \/ x \in Timers /\ phase[x] \in {"off", "wait"} /\ phase'[x] \in {"off", "wait"}

\* Outside the lock a goes somewhere else outside the lock.
Quiet(a) ==
    /\ Only(a)
    /\ UNCHANGED <<buffer, lock, written, twice, emitted, shaken, raised>>
    /\ phase[a] \notin {"enter", "added", "wrote"} /\ phase'[a] \notin {"added", "wrote"}
    /\ \/ phase'[a] # "enter" /\ call'[a] = call[a] /\ ref'[a] = ref[a]
       \/ /\ phase'[a] = "enter" /\ ref'[a] = lock
          /\ \/ call'[a] = call[a] /\ a \in Timers
             \/ a \in Threads /\ call'[a] \notin Events
             \/ a \in Threads /\ call'[a] \in Events /\ New(call'[a])
    /\ \/ phase'[a] \in {"tested", "cleared", "swapped"} => a \in Resetting
       \/ stale
    /\ stale' =>
          /\ stale /\ a \in Threads /\ phase'[a] \in {"idle", "tested"}
          /\ \A x \in Actors : x # a => phase'[x] = phase[x]
    /\ stale' \in {stale, FALSE}

\* The types of where somebody is.
Places ==
    /\ phase' \in [Actors -> ThreadPhases \union TimerPhases]
    /\ \A t \in Threads : phase'[t] \in ThreadPhases
    /\ \A i \in Timers : phase'[i] \in TimerPhases
    /\ ref' \in [Actors -> Nat]
    /\ call' \in [Actors -> Events \union Calls]

LEMMA QuietStep == ASSUME EventInv, NEW a \in Actors, Quiet(a), Places PROVE EventInv'
  <1> USE DEF EventInv
  <1>1. /\ UNCHANGED <<buffer, lock, written, twice, emitted, shaken, raised>>
        /\ Pending' = Pending
    BY DEF Quiet, Pending
  <1>2. Typed'
    BY <1>1 DEF Typed, Places
  <1>3. \A x \in Actors :
           /\ x # a => ref'[x] = ref[x] /\ call'[x] = call[x]
           /\ phase[x] \in {"enter", "added", "wrote"} =>
                 phase'[x] = phase[x] /\ ref'[x] = ref[x]
           /\ phase'[x] \in {"added", "wrote"} => phase'[x] = phase[x]
           /\ phase'[x] = "enter" /\ x # a => phase[x] = "enter"
    <2>1. \A x \in Actors : x # a /\ phase'[x] # phase[x] =>
                phase[x] \in {"off", "wait"} /\ phase'[x] \in {"off", "wait"}
      BY DEF Quiet, Only
    <2> QED
      BY <2>1 DEF Quiet, Only
  <1>4. Holding' = Holding
    BY <1>3 DEF Holding
  <1>5. Called'
    <2>1. ASSUME NEW i \in Timers PROVE call'[i] = None
      BY <2>1, <1>3, Names DEF Quiet, Called
    <2>2. ASSUME NEW t \in Threads
          PROVE /\ phase'[t] \notin {"enter", "added", "wrote"} => call'[t] = None
                /\ phase'[t] = "added" => call'[t] \in Events
                /\ phase'[t] = "enter" /\ call'[t] \in Events =>
                      call'[t] \notin Pending \union written \union emitted \union shaken
      <3>1. CASE t = a
        BY <2>2, <3>1, Names DEF Quiet, Called, New
      <3>2. CASE t # a
        BY <2>2, <3>2, <1>3, Names DEF Called
      <3> QED
        BY <3>1, <3>2
    <2>3. ASSUME NEW t \in Threads, NEW u \in Threads, call'[t] = call'[u],
                 call'[t] \in Events
          PROVE t = u
      <3>1. \A x \in Threads : call'[x] = call[x] \/ (x = a /\ New(call'[a]))
                                 \/ call'[x] \notin Events
        BY <1>3, Names DEF Quiet
      <3> QED
        BY <2>3, <3>1, <1>3, Names DEF Called, New
    <2> QED
      BY <1>1, <2>1, <2>2, <2>3 DEF Called
  <1>6. Locked'
    <2>1. \A x \in Actors : ref'[x] <= lock'
      BY <1>1, <1>3, SMT DEF Quiet, Locked, Typed
    <2>2. \A x, y \in Holding' : ref'[x] = ref'[y] => x = y
      BY <1>3, <1>4 DEF Locked, Holding
    <2>3. stale' =>
             /\ buffer' = <<>>
             /\ \A t \in Threads : phase'[t] \in {"idle", "tested"}
             /\ \A i \in Timers : phase'[i] = "off"
      BY <1>1, Names DEF Quiet, Locked
    <2>4. Unsettled' => Unsettled \/ stale
      <3>1. Resetting' # {} => Resetting # {} \/ stale
        <4>1. ASSUME NEW t \in Threads, phase'[t] \in {"tested", "cleared", "swapped"}, t # a
              PROVE phase'[t] = phase[t]
          BY <4>1, Names DEF Quiet, Only
        <4> QED
          BY <4>1, Names DEF Resetting, Quiet
      <3>2. ASSUME NEW x \in Engaged', ref'[x] < lock' PROVE \E y \in Engaged : ref[y] < lock
        <4>1. x # a \/ phase'[a] # "enter"
          BY <3>2, <1>1, SMT DEF Quiet, Typed
        <4>2. x \in Engaged /\ ref'[x] = ref[x]
          BY <3>2, <4>1, <1>3 DEF Engaged
        <4> QED
          BY <3>2, <4>2, <1>1
      <3> QED
        BY <3>1, <3>2 DEF Unsettled
    <2>5. stale => Pending = {}
      BY SMT DEF Locked, Pending, ToSet
    <2> QED
      BY <1>1, <2>1, <2>2, <2>3, <2>4, <2>5 DEF Locked
  <1>7. Kept'
    <2>1. \A t \in Threads : phase'[t] \in {"added", "wrote"} =>
                phase'[t] = phase[t] /\ call'[t] = call[t]
      BY <1>3, Names DEF Quiet
    <2>2. (\A x \in Actors : phase'[x] # "wrote") => \A x \in Actors : phase[x] # "wrote"
      BY <1>3
    <2> QED
      BY <1>1, <1>3, <2>1, <2>2, Names DEF Kept
  <1>8. Accounted' /\ CriticalIsWritten'
    BY <1>1 DEF Accounted, CriticalIsWritten
  <1> QED
    BY <1>2, <1>5, <1>6, <1>7, <1>8

-----------------------------------------------------------------------------
(* Alone with the buffer.                                                  *)

\* When all use one lock, whoever has it or gets it is the only one.
LEMMA Alone ==
    ASSUME EventInv, NEW a \in Actors, ~Unsettled, NEW l \in Nat,
           \/ phase[a] = "enter" /\ l \in Free(a)
           \/ a \in Holding /\ l = ref[a]
    PROVE l = lock /\ Holding \subseteq {a}
  <1>1. a \in Engaged
    BY DEF Engaged, Holding
  <1>2. \A x \in Engaged : ref[x] = lock
    <2>1. ASSUME NEW x \in Engaged PROVE ref[x] = lock
      <3>1. x \in Actors /\ ~(ref[x] < lock)
        BY DEF Unsettled, Engaged
      <3>2. ref[x] <= lock /\ ref[x] \in Nat /\ lock \in Nat
        BY <3>1 DEF EventInv, Typed, Locked
      <3> QED
        BY <3>1, <3>2, SMT
    <2> QED
      BY <2>1
  <1>3. Holding \subseteq Engaged
    BY DEF Holding, Engaged
  <1>4. CASE phase[a] = "enter" /\ l \in Free(a)
    <2>1. ref[a] = lock /\ lock \in Nat /\ l \in ref[a] .. lock
      BY <1>1, <1>2, <1>4 DEF Free, EventInv, Typed
    <2>2. l = lock
      BY <2>1, SMT
    <2>3. \A b \in Holding : ref[b] # l
      BY <1>4 DEF Free
    <2> QED
      BY <1>2, <1>3, <2>2, <2>3
  <1>5. CASE a \in Holding /\ l = ref[a]
    BY <1>1, <1>2, <1>3, <1>5 DEF EventInv, Locked
  <1> QED
    BY <1>4, <1>5

\* A free lock can be had.
LEMMA FreeLock ==
    ASSUME EventInv, NEW a \in Actors, NEW l \in Free(a)
    PROVE l \in Nat /\ ref[a] <= l /\ l <= lock /\ \A b \in Holding : ref[b] # l
  <1>1. ref[a] \in Nat /\ lock \in Nat /\ l \in ref[a] .. lock
    BY DEF EventInv, Typed, Free
  <1>2. \A b \in Holding : ref[b] # l
    BY DEF Free
  <1> QED
    BY <1>1, <1>2, SMT

LEMMA AppendFacts ==
    ASSUME Typed, NEW e \in Events
    PROVE /\ Append(buffer, e) \in Seq(Events)
          /\ ToSet(Append(buffer, e)) = Pending \union {e}
          /\ (\A i, j \in DOMAIN buffer : buffer[i] = buffer[j] => i = j) /\ e \notin Pending =>
               \A i, j \in DOMAIN Append(buffer, e) :
                     Append(buffer, e)[i] = Append(buffer, e)[j] => i = j
  <1> DEFINE b == Append(buffer, e)
  <1>1. /\ b \in Seq(Events) /\ Len(buffer) \in Nat /\ Len(b) = Len(buffer) + 1
        /\ DOMAIN buffer = 1 .. Len(buffer) /\ DOMAIN b = 1 .. Len(b)
        /\ b[Len(b)] = e
        /\ \A i \in DOMAIN buffer : b[i] = buffer[i] /\ buffer[i] \in Events
    BY SMT DEF Typed
  <1>2. \A i \in DOMAIN b : i = Len(b) \/ i \in DOMAIN buffer
    BY <1>1, SMT
  <1>3. DOMAIN buffer \subseteq DOMAIN b /\ Len(b) \in DOMAIN b
    BY <1>1, SMT
  <1>4. ToSet(b) = ToSet(buffer) \union {e}
    <2>1. \A x : x \in ToSet(b) <=> \E i \in DOMAIN b : b[i] = x
      BY DEF ToSet
    <2>2. \A x : x \in ToSet(buffer) <=> \E i \in DOMAIN buffer : buffer[i] = x
      BY DEF ToSet
    <2> HIDE DEF b
    <2> QED
      BY <1>1, <1>2, <1>3, <2>1, <2>2
  <1>5. \A i \in DOMAIN buffer : buffer[i] \in Pending
    BY DEF Pending, ToSet
  <1>6. ASSUME \A i, j \in DOMAIN buffer : buffer[i] = buffer[j] => i = j, e \notin Pending
        PROVE \A i, j \in DOMAIN b : b[i] = b[j] => i = j
    <2> HIDE DEF b
    <2> QED
      BY <1>1, <1>2, <1>5, <1>6
  <1> QED
    BY <1>1, <1>4, <1>6 DEF Pending

\* The one who adds an event has the lock, and nobody writes meanwhile, unless
\* the event is one of those that the properties leave out.
LEMMA EventAdd == ASSUME EventInv, NEW t \in Threads, Add(t) PROVE EventInv'
  <1> DEFINE e == call[t]
  <1>1. /\ phase[t] = "enter" /\ e \in Events /\ buffer' = Append(buffer, e)
        /\ phase' = [phase EXCEPT ![t] = "added"] /\ t \in Actors
        /\ UNCHANGED <<lock, call, stale, emitted, written, twice, raised>>
        /\ shaken' = IF Unsettled THEN shaken \union {e} ELSE shaken
    BY Names DEF Add, stores
  <1>2. PICK l \in Free(t) : ref' = [ref EXCEPT ![t] = l]
    BY DEF Add
  <1>3. l \in Nat /\ ref[t] <= l /\ l <= lock /\ \A b \in Holding : ref[b] # l
    BY <1>1, <1>2, FreeLock
  <1>4. e \notin Pending \union written \union emitted \union shaken
    BY <1>1 DEF EventInv, Called
  <1>5. /\ buffer' \in Seq(Events) /\ Pending' = Pending \union {e}
        /\ \A i, j \in DOMAIN buffer' : buffer'[i] = buffer'[j] => i = j
    BY <1>1, <1>4, AppendFacts DEF EventInv, Kept, Pending
  <1>6. /\ \A x \in Actors : x # t => phase'[x] = phase[x] /\ ref'[x] = ref[x]
        /\ phase'[t] = "added" /\ ref'[t] = l
    BY <1>1, <1>2 DEF EventInv, Typed
  <1>7. Holding' = Holding \union {t} /\ t \notin Holding /\ Engaged' = Engaged
        /\ Resetting' = Resetting /\ t \in Engaged
    BY <1>1, <1>6, Names DEF Holding, Engaged, Resetting
  <1>8. ~Unsettled => Holding = {}
    BY <1>1, <1>2, <1>3, <1>7, Alone
  <1>9. Typed'
    BY <1>1, <1>2, <1>3, <1>5, Names DEF EventInv, Typed, ThreadPhases
  <1>10. Called'
    <2>1. \A u \in Threads : u # t => call[u] # e
      BY <1>1 DEF EventInv, Called
    <2> QED
      BY <1>1, <1>4, <1>5, <1>6, <2>1, Names DEF EventInv, Called
  <1>11. Locked'
    <2>1. \A x \in Actors : ref'[x] <= lock'
      BY <1>1, <1>3, <1>6 DEF EventInv, Locked
    <2>2. \A x, y \in Holding' : ref'[x] = ref'[y] => x = y
      <3>1. \A x \in Holding : x \in Actors /\ ref'[x] = ref[x] /\ ref'[x] # l
        BY <1>3, <1>6, <1>7 DEF Holding
      <3> QED
        BY <1>6, <1>7, <3>1 DEF EventInv, Locked
    <2>3. ~stale'
      BY <1>1, Names DEF EventInv, Locked
    <2>4. Unsettled' => Unsettled
      <3>1. ASSUME NEW x \in Engaged', ref'[x] < lock' PROVE \E y \in Engaged : ref[y] < lock
        <4>1. CASE x = t
          BY <1>1, <1>3, <1>6, <1>7, <3>1, <4>1, SMT DEF EventInv, Typed
        <4>2. CASE x # t
          BY <1>1, <1>6, <1>7, <3>1, <4>2 DEF Engaged
        <4> QED
          BY <4>1, <4>2
      <3> QED
        BY <1>7, <3>1 DEF Unsettled
    <2> QED
      BY <1>1, <1>5, <2>1, <2>2, <2>3, <2>4 DEF EventInv, Locked
  <1>12. Kept'
    <2>1. \A x \in Actors : phase'[x] = "wrote" => phase[x] = "wrote" /\ Unsettled
      BY <1>6, <1>8 DEF Holding
    <2>2. ASSUME NEW x \in Actors, phase'[x] = "wrote"
          PROVE Pending' \subseteq written' \union shaken'
      BY <1>1, <1>5, <2>1, <2>2 DEF EventInv, Kept
    <2>3. ASSUME ~raised', \A x \in Actors : phase'[x] # "wrote"
          PROVE Pending' \intersect written' \subseteq shaken'
      BY <1>1, <1>4, <1>5, <1>6, <2>3 DEF EventInv, Kept
    <2>4. \A u \in Threads :
             /\ phase'[u] = "added" => call'[u] \in Pending' \union shaken'
             /\ phase'[u] = "wrote" /\ call'[u] \in Events => call'[u] \in written' \union shaken'
      BY <1>1, <1>5, <1>6, Names DEF EventInv, Kept
    <2> QED
      BY <1>5, <2>2, <2>3, <2>4 DEF Kept
  <1>13. Accounted' /\ CriticalIsWritten'
    BY <1>1, <1>4, <1>5 DEF EventInv, Accounted, CriticalIsWritten
  <1> QED
    BY <1>9, <1>10, <1>11, <1>12, <1>13 DEF EventInv

-----------------------------------------------------------------------------
(* Writing the buffer.                                                     *)

LEMMA WriteFacts ==
    ASSUME Typed, NEW b \in Seq(Events), NEW k \in 0 .. Len(b), Write(b, k)
    PROVE /\ written' \subseteq Events /\ twice' \subseteq written'
          /\ written \subseteq written' /\ written' \subseteq written \union ToSet(b)
          /\ k = Len(b) => written' = written \union ToSet(b)
          /\ (\A i, j \in DOMAIN b : b[i] = b[j] => i = j) =>
                twice' \subseteq twice \union (ToSet(b) \intersect written)
  <1>1. /\ DOMAIN b = 1 .. Len(b) /\ 1 .. k \subseteq DOMAIN b
        /\ \A j \in 1 .. k : \A h \in 1 .. j - 1 : h \in DOMAIN b /\ h # j
        /\ \A i \in DOMAIN b : b[i] \in Events
    BY SMT
  <1> DEFINE W == {b[i] : i \in 1 .. k}
             R == {j \in 1 .. k : b[j] \in written \/ \E h \in 1 .. j - 1 : b[h] = b[j]}
             T == {b[i] : i \in R}
  <1>2. written' = written \union W /\ twice' = twice \union T
    BY DEF Write
  <1>3. ToSet(b) = {b[i] : i \in DOMAIN b}
    BY DEF ToSet
  <1>4. W \subseteq ToSet(b) /\ W \subseteq Events /\ (k = Len(b) => W = ToSet(b)) /\ T \subseteq W
    BY <1>1, <1>3
  <1>5. ASSUME \A i, j \in DOMAIN b : b[i] = b[j] => i = j PROVE T \subseteq ToSet(b) \intersect written
    <2>1. ASSUME NEW j \in R PROVE b[j] \in written
      BY <1>1, <1>5
    <2> QED
      BY <1>4, <2>1
  <1> HIDE DEF W, T
  <1> QED
    BY <1>2, <1>4, <1>5 DEF Typed

LEMMA WriteAllFacts ==
    ASSUME Typed, NEW b \in Seq(Events), WriteAll(b)
    PROVE /\ written' = written \union ToSet(b) /\ written' \subseteq Events
          /\ twice' \subseteq written' /\ raised' = raised
          /\ (\A i, j \in DOMAIN b : b[i] = b[j] => i = j) =>
                twice' \subseteq twice \union (ToSet(b) \intersect written)
  <1>1. Len(b) \in 0 .. Len(b)
    BY SMT
  <1> QED
    BY <1>1, WriteFacts DEF WriteAll

LEMMA WriteRaisesFacts ==
    ASSUME Typed, NEW b \in Seq(Events), WriteRaises(b)
    PROVE /\ written' \subseteq Events /\ twice' \subseteq written'
          /\ written \subseteq written' /\ written' \subseteq written \union ToSet(b)
          /\ raised' = TRUE
  <1>1. PICK r \in DOMAIN b : (\E k \in {r - 1, r} : Write(b, k)) /\ raised' = TRUE
    BY DEF WriteRaises
  <1>2. PICK k \in {r - 1, r} : Write(b, k)
    BY <1>1
  <1>3. k \in 0 .. Len(b)
    BY <1>2, SMT
  <1> QED
    BY <1>1, <1>2, <1>3, WriteFacts

-----------------------------------------------------------------------------
(* The end of a call.                                                      *)

\* What a call's end does, apart from the events: a leaves the lock.
Leaves(a) ==
    /\ Only(a)
    /\ phase'[a] = After(a) /\ call'[a] = None /\ ref'[a] = 0
    /\ Places

LEMMA EndsFacts ==
    ASSUME EventInv, NEW a \in Actors, phase[a] \in {"enter", "added", "wrote"}, Ends(a)
    PROVE /\ Leaves(a)
          /\ emitted' = emitted \union ({call[a]} \intersect Events)
  <1>1. /\ \A x \in Actors : phase'[x] = IF x = a THEN After(a)
                        ELSE IF Cancels(a) /\ x = current /\ phase[x] = "wait" THEN "off"
                        ELSE phase[x]
        /\ DOMAIN phase' = Actors
        /\ phase' = [x \in Actors |-> phase'[x]]
    BY DEF Ends
  <1>2. /\ call' = [call EXCEPT ![a] = None] /\ ref' = [ref EXCEPT ![a] = 0]
        /\ emitted' = emitted \union ({call[a]} \intersect Events)
    BY DEF Ends, Gone
  <1>3. After(a) = IF a \in Timers THEN "check" ELSE "idle"
    BY DEF After
  <1>4. \A t \in Threads : phase[t] # "wait"
    BY DEF EventInv, Typed, ThreadPhases
  <1>5. \A x \in Actors : x \in Threads \/ x \in Timers
    BY Names
  <1>6. Only(a)
    BY <1>1, <1>2, <1>4, <1>5 DEF Only, EventInv, Typed
  <1>7. /\ \A t \in Threads : phase'[t] \in ThreadPhases
        /\ \A i \in Timers : phase'[i] \in TimerPhases
    BY <1>1, <1>3, <1>4, Names, SMT DEF EventInv, Typed, ThreadPhases, TimerPhases
  <1>8. phase' \in [Actors -> ThreadPhases \union TimerPhases]
    BY <1>1, <1>5, <1>7
  <1>9. call' \in [Actors -> Events \union Calls] /\ ref' \in [Actors -> Nat]
    BY <1>2, SMT DEF EventInv, Typed, Calls
  <1> QED
    BY <1>1, <1>2, <1>6, <1>7, <1>8, <1>9 DEF Leaves, Places, EventInv, Typed

LEMMA FailsFacts ==
    ASSUME EventInv, NEW a \in Actors, phase[a] \in {"enter", "added", "wrote"}, Fails(a)
    PROVE Leaves(a) /\ emitted' = emitted
  <1>1. /\ phase' = [phase EXCEPT ![a] = After(a)]
        /\ call' = [call EXCEPT ![a] = None] /\ ref' = [ref EXCEPT ![a] = 0]
        /\ emitted' = emitted
    BY DEF Fails, Gone
  <1>2. \A x \in Actors : x # a => phase'[x] = phase[x]
    BY <1>1 DEF EventInv, Typed
  <1>3. /\ \A t \in Threads : phase'[t] \in ThreadPhases
        /\ \A i \in Timers : phase'[i] \in TimerPhases
    BY <1>1, Names, SMT DEF After, EventInv, Typed, ThreadPhases, TimerPhases
  <1>4. phase' \in [Actors -> ThreadPhases \union TimerPhases]
    BY <1>1 DEF After, EventInv, Typed, ThreadPhases, TimerPhases
  <1>5. call' \in [Actors -> Events \union Calls] /\ ref' \in [Actors -> Nat]
    BY <1>1, SMT DEF EventInv, Typed, Calls
  <1> QED
    BY <1>1, <1>2, <1>3, <1>4, <1>5 DEF Leaves, Only, Places, EventInv, Typed

\* Whoever leaves the lock leaves the rest as it was, but for the events.
LEMMA LeavesFacts ==
    ASSUME EventInv, NEW a \in Actors, phase[a] \in {"enter", "added", "wrote"}, Leaves(a),
           stale' = stale, lock' = lock
    PROVE /\ Holding' \subseteq Holding \ {a} /\ ~stale'
          /\ \A x \in Actors : phase'[x] \in {"enter", "added", "wrote"} =>
                x # a /\ phase'[x] = phase[x] /\ call'[x] = call[x] /\ ref'[x] = ref[x]
          /\ \A x \in Actors : phase[x] = "wrote" /\ x # a => phase'[x] = "wrote"
          /\ \A x \in Actors : call'[x] = call[x] \/ call'[x] = None
          /\ \A i \in Timers : call'[i] = None
          /\ \A t \in Threads : phase'[t] \notin {"enter", "added", "wrote"} => call'[t] = None
          /\ \A x \in Actors : ref'[x] <= lock'
          /\ \A x, y \in Holding' : ref'[x] = ref'[y] => x = y
          /\ Unsettled' => Unsettled
  <1>1. phase'[a] \in {"check", "idle"} /\ call'[a] = None /\ ref'[a] = 0
    BY DEF Leaves, After
  <1>2. \A x \in Actors : x # a =>
           /\ ref'[x] = ref[x] /\ call'[x] = call[x]
           /\ \/ phase'[x] = phase[x]
              \/ phase[x] \in {"off", "wait"} /\ phase'[x] \in {"off", "wait"}
    BY DEF Leaves, Only
  <1>3. \A x \in Actors : phase'[x] \in {"enter", "added", "wrote"} =>
                x # a /\ phase'[x] = phase[x] /\ call'[x] = call[x] /\ ref'[x] = ref[x]
    BY <1>1, <1>2
  <1>4. Holding' \subseteq Holding \ {a}
    BY <1>3 DEF Holding
  <1>5. ~stale'
    <2>1. stale => phase[a] \in {"idle", "tested", "off"}
      BY Names DEF EventInv, Locked
    <2> QED
      BY <2>1
  <1>6. /\ \A x \in Actors : call'[x] = call[x] \/ call'[x] = None
        /\ \A x \in Actors : phase[x] = "wrote" /\ x # a => phase'[x] = "wrote"
        /\ \A i \in Timers : call'[i] = None
        /\ \A t \in Threads : phase'[t] \notin {"enter", "added", "wrote"} => call'[t] = None
    <2>1. \A i \in Timers : call'[i] = None
      BY <1>1, <1>2, Names DEF EventInv, Called
    <2>2. \A t \in Threads : t # a => phase'[t] = phase[t]
      BY <1>2, Names DEF EventInv, Typed, ThreadPhases
    <2> QED
      BY <1>1, <1>2, <2>1, <2>2, Names DEF EventInv, Called
  <1>7. \A x \in Actors : ref'[x] <= lock'
    <2>1. 0 <= lock
      BY SMT DEF EventInv, Typed
    <2> QED
      BY <1>1, <1>2, <2>1 DEF EventInv, Locked
  <1>8. \A x, y \in Holding' : ref'[x] = ref'[y] => x = y
    BY <1>3, <1>4 DEF Holding, EventInv, Locked
  <1>9. Unsettled' => Unsettled
    <2>1. ASSUME NEW x \in Engaged' PROVE x \in Engaged /\ ref'[x] = ref[x]
      BY <1>3, <2>1 DEF Engaged
    <2>2. Resetting' \subseteq Resetting
      BY <1>1, <1>2, Names DEF Resetting
    <2> QED
      BY <2>1, <2>2 DEF Unsettled
  <1> QED
    BY <1>3, <1>4, <1>5, <1>6, <1>7, <1>8, <1>9

\* Whoever leaves the lock has put its event in the buffer, or written what was
\* there, and cleared the buffer only after that.
LEMMA EventLeaves ==
    ASSUME EventInv, NEW a \in Actors, phase[a] \in {"enter", "added", "wrote"}, Leaves(a),
           UNCHANGED <<stale, lock, shaken>>,
           \/ buffer' = buffer
           \/ buffer' = <<>> /\ a \in Holding /\ Pending \subseteq written' \union shaken,
           written \subseteq written', written' \subseteq written \union Pending,
           twice' \subseteq written',
           \/ emitted' = emitted
           \/ /\ emitted' = emitted \union ({call[a]} \intersect Events)
              /\ call[a] \in Events => call[a] \in Pending' \union written' \union shaken
              /\ call[a] \in Critical => call[a] \in written' \union shaken,
           raised' \/ (~raised /\ twice' \subseteq twice),
           \/ raised' \/ buffer' = <<>>
           \/ ~raised /\ written' = written /\ phase[a] # "wrote"
    PROVE EventInv'
  <1>1. Pending' \subseteq Pending /\ buffer' \in Seq(Events)
    <2>1. CASE buffer' = buffer
      BY <2>1 DEF EventInv, Typed, Pending
    <2>2. CASE buffer' = <<>>
      BY <2>2, SMT DEF Pending, ToSet
    <2> QED
      BY <2>1, <2>2
  <1>2. Pending \subseteq Events
    BY SMT DEF EventInv, Typed, Pending, ToSet
  <1>3. Typed'
    BY <1>1, <1>2 DEF EventInv, Typed, Leaves, Places
  <1>4. /\ \A t \in Threads : phase'[t] \in {"enter", "added", "wrote"} =>
                t # a /\ phase'[t] = phase[t] /\ call'[t] = call[t]
        /\ \A x \in Actors : call'[x] = call[x] \/ call'[x] = None
        /\ Holding' \subseteq Holding \ {a} /\ (Unsettled' => Unsettled)
    BY LeavesFacts, Names
  <1>5. Called'
    <2>1. \A t \in Threads : phase'[t] \notin {"enter", "added", "wrote"} => call'[t] = None
      BY LeavesFacts, Names
    <2>2. ASSUME NEW t \in Threads, phase'[t] = "enter", call'[t] \in Events
          PROVE call'[t] \notin Pending' \union written' \union emitted' \union shaken'
      <3>1. t # a /\ phase[t] = "enter" /\ call[t] = call'[t]
        BY <1>4, <2>2
      <3>2. call[t] \notin Pending \union written \union emitted \union shaken
        BY <2>2, <3>1 DEF EventInv, Called
      <3>3. call[t] # call[a]
        BY <2>2, <3>1, Names DEF EventInv, Called
      <3> QED
        BY <1>1, <3>1, <3>2, <3>3
    <2>3. \A t, u \in Threads : call'[t] = call'[u] /\ call'[t] \in Events => t = u
      BY <1>4, Names DEF EventInv, Called
    <2>4. \A t \in Threads : phase'[t] = "added" => call'[t] \in Events
      BY <1>4 DEF EventInv, Called
    <2>5. \A i \in Timers : call'[i] = None
      BY LeavesFacts
    <2> QED
      BY <2>1, <2>2, <2>3, <2>4, <2>5 DEF Called
  <1>6. Locked'
    <2>1. ~stale' /\ (\A x \in Actors : ref'[x] <= lock')
      BY LeavesFacts
    <2>2. \A x, y \in Holding' : ref'[x] = ref'[y] => x = y
      BY LeavesFacts
    <2> QED
      BY <1>1, <1>4, <2>1, <2>2 DEF EventInv, Locked
  <1>7. Kept'
    <2>1. \A i, j \in DOMAIN buffer' : buffer'[i] = buffer'[j] => i = j
      <3>1. DOMAIN <<>> = {}
        BY SMT
      <3> QED
        BY <3>1 DEF EventInv, Kept
    <2>2. ASSUME NEW t \in Threads, phase'[t] = "added"
          PROVE call'[t] \in Pending' \union shaken'
      <3>1. t # a /\ phase[t] = "added" /\ call'[t] = call[t]
        BY <1>4, <2>2
      <3>2. call[t] \in Pending \union shaken
        BY <3>1 DEF EventInv, Kept
      <3>3. CASE buffer' = buffer
        BY <3>1, <3>2, <3>3 DEF Pending
      <3>4. CASE a \in Holding
        <4>1. t \in Holding /\ ref[a] \in Nat
          BY <3>1, Names DEF Holding, EventInv, Typed
        <4>2. Unsettled
          BY <3>1, <3>4, <4>1, Alone
        <4> QED
          BY <3>1, <3>2, <4>2 DEF EventInv, Locked
      <3> QED
        BY <3>3, <3>4
    <2>3. \A t \in Threads : phase'[t] = "wrote" /\ call'[t] \in Events =>
                                call'[t] \in written' \union shaken'
      BY <1>4 DEF EventInv, Kept
    <2>4. \A x \in Actors : phase'[x] = "wrote" => Pending' \subseteq written' \union shaken'
      <3>1. \A x \in Actors : phase'[x] = "wrote" => phase[x] = "wrote"
        BY LeavesFacts
      <3> QED
        BY <1>1, <3>1 DEF EventInv, Kept
    <2>5. ASSUME ~raised', \A x \in Actors : phase'[x] # "wrote"
          PROVE Pending' \intersect written' \subseteq shaken'
      <3>1. CASE buffer' = <<>>
        BY <3>1, SMT DEF Pending, ToSet
      <3>2. CASE ~raised /\ written' = written /\ phase[a] # "wrote"
        <4>1. \A x \in Actors : phase[x] # "wrote"
          BY <2>5, <3>2, LeavesFacts
        <4> QED
          BY <1>1, <3>2, <4>1 DEF EventInv, Kept
      <3> QED
        BY <2>5, <3>1, <3>2
    <2> QED
      BY <2>1, <2>2, <2>3, <2>4, <2>5 DEF Kept
  <1>8. emitted' \ shaken' \subseteq Pending' \union written'
    <2>1. Pending \subseteq Pending' \union written' \union shaken
      BY DEF Pending
    <2> QED
      BY <2>1 DEF EventInv, Accounted
  <1>9. Accounted' /\ CriticalIsWritten'
    BY <1>8 DEF EventInv, Accounted, CriticalIsWritten
  <1> QED
    BY <1>3, <1>5, <1>6, <1>7, <1>9 DEF EventInv

\* A flush by whoever has the lock, a thread that has added its event included.
LEMMA EventFlush ==
    ASSUME EventInv, NEW a \in Actors, NEW l \in Nat, FlushLocked(a, l),
           \/ phase[a] = "enter" /\ call[a] \notin Events /\ l \in Free(a)
           \/ a \in Holding /\ phase[a] = "added" /\ l = ref[a],
           UNCHANGED <<lock, stale, shaken>>
    PROVE EventInv'
  <1>0. /\ phase[a] \in {"enter", "added"} /\ buffer \in Seq(Events) /\ raised \in {raised}
        /\ buffer' = buffer /\ Pending' = Pending
    BY DEF EventInv, Typed, FlushLocked, Pending
  <1>1. CASE buffer = <<>> /\ Ends(a) /\ UNCHANGED stores
    <2>1. Leaves(a) /\ emitted' = emitted \union ({call[a]} \intersect Events)
      BY <1>0, <1>1, EndsFacts
    <2>2. Pending = {}
      BY <1>1, SMT DEF Pending, ToSet
    <2>3. call[a] \in Events => call[a] \in shaken
      <3>1. CASE a \in Threads
        BY <2>2, <3>1, <1>0 DEF EventInv, Kept
      <3>2. CASE a \in Timers
        BY <3>2, Names DEF EventInv, Called
      <3> QED
        BY <3>1, <3>2, Names
    <2>4. UNCHANGED <<written, twice, raised>> /\ twice \subseteq written
      BY <1>1 DEF stores, EventInv, Typed
    <2> QED
      BY <1>0, <1>1, <2>1, <2>3, <2>4, Names, EventLeaves
  <1>2. CASE buffer # <<>> /\ WriteRaises(buffer) /\ Fails(a)
    <2>1. Leaves(a) /\ emitted' = emitted
      BY <1>0, <1>2, FailsFacts
    <2>2. /\ written' \subseteq Events /\ twice' \subseteq written'
          /\ written \subseteq written' /\ written' \subseteq written \union Pending
          /\ raised' = TRUE
      BY <1>0, <1>2, WriteRaisesFacts DEF EventInv, Pending
    <2> QED
      BY <1>0, <2>1, <2>2, EventLeaves
  <1>3. CASE /\ buffer # <<>> /\ WriteAll(buffer)
             /\ phase' = [phase EXCEPT ![a] = "wrote"]
             /\ ref' = [ref EXCEPT ![a] = l]
             /\ UNCHANGED <<enabled, call, current, broken, emitted>>
    <2>1. /\ written' = written \union Pending /\ written' \subseteq Events
          /\ twice' \subseteq written' /\ raised' = raised
          /\ twice' \subseteq twice \union (Pending \intersect written)
      BY <1>0, <1>3, WriteAllFacts DEF EventInv, Pending, Kept
    <2>2. /\ \A x \in Actors : x # a => phase'[x] = phase[x] /\ ref'[x] = ref[x]
          /\ phase'[a] = "wrote" /\ ref'[a] = l /\ call' = call /\ emitted' = emitted
      BY <1>3 DEF EventInv, Typed
    <2>3. /\ Holding' = Holding \union {a} /\ a \in Engaged /\ Engaged' = Engaged
          /\ Resetting' = Resetting
      BY <1>0, <2>2, Names DEF Holding, Engaged, Resetting
    <2>4. ref[a] <= l /\ l <= lock /\ \A b \in Holding : b # a => ref[b] # l
      <3>1. CASE phase[a] = "enter" /\ l \in Free(a)
        BY <3>1, FreeLock
      <3>2. CASE a \in Holding /\ l = ref[a]
        <4>1. ref[a] \in Nat /\ ref[a] <= lock
          BY DEF EventInv, Typed, Locked
        <4>2. ref[a] <= ref[a]
          BY <4>1, SMT
        <4> QED
          BY <3>2, <4>1, <4>2 DEF EventInv, Locked
      <3> QED
        BY <1>0, <3>1, <3>2
    <2>5. ~Unsettled => \A x \in Actors : phase[x] # "wrote"
      <3>1. ~Unsettled => Holding \subseteq {a}
        BY Alone
      <3> QED
        BY <1>0, <3>1 DEF Holding
    <2>6. Typed'
      BY <1>0, <1>3, <2>1, <2>2, Names DEF EventInv, Typed, ThreadPhases, TimerPhases
    <2>7. \A t \in Threads : phase'[t] \in {"enter", "added"} => phase[t] = phase'[t] /\ t # a
      BY <2>2, Names
    <2>8. Called'
      BY <1>0, <2>1, <2>2, <2>7, Names DEF EventInv, Called
    <2>9. Locked'
      <3>1. \A x \in Actors : ref'[x] <= lock'
        BY <2>2, <2>4 DEF EventInv, Locked
      <3>2. \A x, y \in Holding' : ref'[x] = ref'[y] => x = y
        <4>1. \A x \in Holding : x \in Actors
          BY DEF Holding
        <4> QED
          BY <2>2, <2>3, <2>4, <4>1 DEF EventInv, Locked
      <3>3. ~stale
        BY <1>0, Names DEF EventInv, Locked
      <3>4. Unsettled' => Unsettled
        <4>1. ASSUME NEW x \in Engaged, ref'[x] < lock PROVE \E y \in Engaged : ref[y] < lock
          <5>1. CASE x = a
            <6>1. ref[a] \in Nat /\ lock \in Nat /\ ref'[a] = l
              BY <2>2 DEF EventInv, Typed
            <6> QED
              BY <2>3, <2>4, <4>1, <5>1, <6>1, SMT
          <5>2. CASE x # a
            BY <2>2, <4>1, <5>2 DEF Engaged
          <5> QED
            BY <5>1, <5>2
        <4> QED
          BY <2>3, <4>1 DEF Unsettled
      <3> QED
        BY <1>0, <3>1, <3>2, <3>3, <3>4 DEF EventInv, Locked
    <2>10. Kept'
      <3>1. \A t \in Threads :
               /\ phase'[t] = "added" => call'[t] \in Pending' \union shaken'
               /\ phase'[t] = "wrote" /\ call'[t] \in Events => call'[t] \in written' \union shaken'
        <4>1. ASSUME NEW t \in Threads, t = a, call[t] \in Events
              PROVE call[t] \in written' \union shaken
          BY <1>0, <2>1, <4>1 DEF EventInv, Kept
        <4> QED
          BY <1>0, <2>1, <2>2, <2>7, <4>1, Names DEF EventInv, Kept
      <3>2. Pending' \subseteq written' \union shaken'
        BY <1>0, <2>1
      <3>3. \E x \in Actors : phase'[x] = "wrote"
        BY <2>2
      <3>4. \A i, j \in DOMAIN buffer' : buffer'[i] = buffer'[j] => i = j
        BY <1>0 DEF EventInv, Kept
      <3> QED
        BY <3>1, <3>2, <3>3, <3>4 DEF Kept
    <2>11. ~raised => Pending \intersect written \subseteq shaken
      <3>1. CASE Unsettled
        BY <3>1 DEF EventInv, Locked
      <3>2. CASE ~Unsettled
        BY <2>5, <3>2 DEF EventInv, Kept
      <3> QED
        BY <3>1, <3>2
    <2>12. Accounted' /\ CriticalIsWritten'
      BY <1>0, <2>1, <2>2, <2>11 DEF EventInv, Accounted, CriticalIsWritten
    <2> QED
      BY <2>6, <2>8, <2>9, <2>10, <2>12 DEF EventInv
  <1> QED
    BY <1>1, <1>2, <1>3 DEF FlushLocked

\* A thread that has added its event and need not flush returns.
LEMMA EventAdded == ASSUME EventInv, NEW t \in Threads, Added(t) PROVE EventInv'
  <1>1. phase[t] = "added" /\ t \in Actors /\ t \in Holding /\ UNCHANGED <<lock, stale, shaken>>
    BY Names DEF Added, Holding
  <1>2. CASE FlushLocked(t, ref[t])
    BY <1>1, <1>2, EventFlush DEF EventInv, Typed
  <1>3. CASE ~MustFlush(t) /\ Ends(t) /\ UNCHANGED <<buffer, stores>>
    <2>1. Leaves(t) /\ emitted' = emitted \union ({call[t]} \intersect Events)
      BY <1>1, <1>3, EndsFacts
    <2>2. call[t] \notin Critical /\ call[t] \in Pending \union shaken
      BY <1>1, <1>3 DEF MustFlush, EventInv, Kept
    <2>3. UNCHANGED <<written, twice, raised>> /\ Pending' = Pending /\ twice \subseteq written
      BY <1>3 DEF stores, Pending, EventInv, Typed
    <2>4. raised' \/ (~raised /\ twice' \subseteq twice)
      BY <2>3
    <2> QED
      BY <1>1, <1>3, <2>1, <2>2, <2>3, <2>4, EventLeaves
  <1> QED
    BY <1>2, <1>3 DEF Added

LEMMA EventClear == ASSUME EventInv, NEW a \in Actors, Clear(a) PROVE EventInv'
  <1>1. /\ phase[a] = "wrote" /\ a \in Holding /\ buffer' = <<>> /\ Ends(a)
        /\ UNCHANGED <<lock, stale, shaken, written, twice, raised>>
    BY DEF Clear, Holding, stores
  <1>2. Leaves(a) /\ emitted' = emitted \union ({call[a]} \intersect Events)
    BY <1>1, EndsFacts
  <1>3. Pending \subseteq written' \union shaken
    BY <1>1 DEF EventInv, Kept
  <1>4. call[a] \in Events => call[a] \in written' \union shaken
    <2>1. CASE a \in Threads
      BY <1>1, <2>1 DEF EventInv, Kept
    <2>2. CASE a \in Timers
      BY <2>2, Names DEF EventInv, Called
    <2> QED
      BY <2>1, <2>2, Names
  <1>5. (raised' \/ (~raised /\ twice' \subseteq twice)) /\ twice' \subseteq written'
    BY <1>1 DEF EventInv, Typed
  <1> QED
    BY <1>1, <1>2, <1>3, <1>4, <1>5, Names, EventLeaves

LEMMA EventFlushBegins == ASSUME EventInv, NEW a \in Actors, FlushBegins(a) PROVE EventInv'
  <1>1. PICK l \in Free(a) : FlushLocked(a, l)
    BY DEF FlushBegins
  <1>2. l \in Nat
    BY FreeLock
  <1> QED
    BY <1>1, <1>2, EventFlush DEF FlushBegins

\* Without buffering an event is written that has been nowhere.
LEMMA EventDirect ==
    ASSUME EventInv, NEW t \in Threads, NEW e \in Events, Direct(t, e)
    PROVE EventInv'
  <1> DEFINE b == <<e>>
  <1>1. /\ New(e) /\ UNCHANGED <<buffer, lock, phase, call, ref, stale, shaken>>
        /\ \/ WriteAll(b) /\ emitted' = emitted \union {e}
           \/ WriteRaises(b) /\ emitted' = emitted
    BY DEF Direct
  <1>2. /\ b \in Seq(Events) /\ ToSet(b) = {e} /\ \A i, j \in DOMAIN b : b[i] = b[j] => i = j
    BY SMT DEF ToSet
  <1> HIDE DEF b
  <1>3. e \notin Pending \union written \union emitted \union shaken /\ \A u \in Threads : call[u] # e
    BY <1>1 DEF New
  <1>4. /\ written \subseteq written' /\ written' \subseteq written \union {e}
        /\ written' \subseteq Events /\ twice' \subseteq written'
        /\ \/ raised'
           \/ raised' = raised /\ written' = written \union {e} /\ twice' \subseteq twice
    <2>1. CASE WriteAll(b)
      BY <1>2, <1>3, <2>1, WriteAllFacts DEF EventInv
    <2>2. CASE WriteRaises(b)
      BY <1>2, <2>2, WriteRaisesFacts DEF EventInv
    <2> QED
      BY <1>1, <2>1, <2>2
  <1>5. /\ emitted \subseteq emitted' /\ emitted' \subseteq emitted \union {e}
        /\ emitted' = emitted \/ e \in written'
    <2>1. WriteAll(b) => e \in written'
      BY <1>2, WriteAllFacts DEF EventInv
    <2> QED
      BY <1>1, <2>1
  <1>6. /\ Pending' = Pending /\ Holding' = Holding /\ Engaged' = Engaged
        /\ Resetting' = Resetting /\ Unsettled' = Unsettled
    BY <1>1 DEF Pending, Holding, Engaged, Resetting, Unsettled
  <1>7. Typed'
    BY <1>1, <1>4, <1>5 DEF EventInv, Typed
  <1>8. Called' /\ Locked'
    BY <1>1, <1>3, <1>4, <1>5, <1>6 DEF EventInv, Called, Locked
  <1>9. Kept'
    BY <1>1, <1>3, <1>4, <1>6 DEF EventInv, Kept
  <1>10. Accounted' /\ CriticalIsWritten'
    BY <1>1, <1>4, <1>5, <1>6 DEF EventInv, Accounted, CriticalIsWritten
  <1> QED
    BY <1>7, <1>8, <1>9, <1>10 DEF EventInv

\* While a reset replaces the buffer or the lock, all that is in the buffer is
\* among what the properties leave out.
LEMMA EventSwap ==
    ASSUME EventInv, NEW t \in Threads, phase[t] \in {"cleared", "swapped"},
           Only(t), Places,
           phase'[t] \in {"idle", "swapped"}, call'[t] = call[t], ref'[t] = ref[t],
           buffer' \in {buffer, <<>>}, lock' \in {lock, lock + 1},
           UNCHANGED <<stale, written, twice, emitted, shaken, raised>>
    PROVE EventInv'
  <1>1. /\ buffer' \in Seq(Events) /\ Pending' \subseteq Pending
        /\ \A i, j \in DOMAIN buffer' : buffer'[i] = buffer'[j] => i = j
    <2>1. CASE buffer' = buffer
      BY <2>1 DEF EventInv, Typed, Kept, Pending
    <2>2. CASE buffer' = <<>>
      <3>1. Pending' = {} /\ DOMAIN buffer' = {}
        BY <2>2, SMT DEF Pending, ToSet
      <3> QED
        BY <2>2, <3>1, SMT
    <2> QED
      BY <2>1, <2>2
  <1>2. lock' \in Nat /\ lock <= lock'
    BY SMT DEF EventInv, Typed
  <1>3. Pending \subseteq shaken
    BY DEF EventInv, Locked, Unsettled, Resetting
  <1>4. Typed'
    BY <1>1, <1>2 DEF EventInv, Typed, Places
  <1>5. /\ call' = call /\ ref' = ref
        /\ \A x \in Actors : phase'[x] \in {"enter", "added", "wrote"} => phase'[x] = phase[x]
        /\ \A x \in Actors : phase[x] \in {"enter", "added", "wrote"} => phase'[x] = phase[x]
    <2>1. t \in Actors
      BY Names
    <2>2. \A x \in Actors : call'[x] = call[x] /\ ref'[x] = ref[x]
      BY DEF Only
    <2>3. call' = call /\ ref' = ref
      BY <2>2 DEF EventInv, Typed, Places
    <2>4. \A x \in Actors : x # t =>
              \/ phase'[x] = phase[x]
              \/ phase[x] \in {"off", "wait"} /\ phase'[x] \in {"off", "wait"}
      BY DEF Only
    <2> QED
      BY <2>1, <2>3, <2>4
  <1>6. Holding' = Holding
    BY <1>5 DEF Holding
  <1>7. Called'
    <2>1. \A u \in Threads : phase'[u] \notin {"enter", "added", "wrote"} =>
                               phase[u] \notin {"enter", "added", "wrote"}
      BY <1>5, Names
    <2>2. \A u \in Threads : phase'[u] \in {"enter", "added"} => phase'[u] = phase[u]
      BY <1>5, Names
    <2> QED
      BY <1>1, <1>5, <2>1, <2>2 DEF EventInv, Called
  <1>8. Locked'
    <2>1. \A x \in Actors : ref[x] \in Nat /\ ref[x] <= lock /\ lock \in Nat
      BY DEF EventInv, Typed, Locked
    <2>2. \A x \in Actors : ref'[x] <= lock'
      BY <1>2, <1>5, <2>1, SMT
    <2>3. stale' => buffer' = <<>>
      BY DEF EventInv, Locked
    <2>4. stale' =>
             /\ \A u \in Threads : phase'[u] \in {"idle", "tested"}
             /\ \A i \in Timers : phase'[i] = "off"
      <3>1. ASSUME stale' PROVE FALSE
        BY <3>1 DEF EventInv, Locked
      <3> QED
        BY <3>1
    <2> QED
      BY <1>1, <1>3, <1>5, <1>6, <2>2, <2>3, <2>4 DEF EventInv, Locked
  <1>9. Kept'
    <2>1. \A u \in Threads : phase'[u] \in {"added", "wrote"} => phase'[u] = phase[u]
      BY <1>5, Names
    <2>2. \A u \in Threads : phase[u] = "added" => call[u] \in shaken
      BY <1>3 DEF EventInv, Kept
    <2> QED
      BY <1>1, <1>3, <1>5, <2>1, <2>2 DEF EventInv, Kept
  <1>10. Accounted' /\ CriticalIsWritten'
    BY <1>1, <1>3 DEF EventInv, Accounted, CriticalIsWritten
  <1> QED
    BY <1>4, <1>7, <1>8, <1>9, <1>10 DEF EventInv

LEMMA EventFork == ASSUME EventInv, NEW t \in Threads, Fork(t) PROVE EventInv'
  <1>1. /\ buffer' = <<>> /\ DOMAIN buffer' = {} /\ Pending' = {} /\ lock' = 0
        /\ written' = {} /\ twice' = {} /\ emitted' = {} /\ shaken' = {} /\ raised' = FALSE
    BY SMT DEF Fork, Pending, ToSet
  <1>2. /\ phase' = [a \in Actors |-> IF a \in Timers THEN "off" ELSE "idle"]
        /\ call' = [a \in Actors |-> None] /\ ref' = [a \in Actors |-> 0]
    BY DEF Fork
  <1>3. /\ \A u \in Threads : phase'[u] = "idle" /\ call'[u] = None
        /\ \A i \in Timers : phase'[i] = "off" /\ call'[i] = None
        /\ \A a \in Actors : ref'[a] = 0 /\ phase'[a] \in {"idle", "off"}
    BY <1>2, Names
  <1>4. Holding' = {}
    BY <1>3 DEF Holding
  <1>5. Typed'
    BY <1>1, <1>2, <1>3, SMT DEF Typed, ThreadPhases, TimerPhases, Calls
  <1>6. Called' /\ Locked' /\ Kept'
    BY <1>1, <1>3, <1>4, Names, SMT DEF Called, Locked, Kept
  <1>7. Accounted' /\ CriticalIsWritten'
    BY <1>1 DEF Accounted, CriticalIsWritten
  <1> QED
    BY <1>5, <1>6, <1>7 DEF EventInv

-----------------------------------------------------------------------------
(* The timers: there are never more chains of them than switches and        *)
(* threads, so that a name is free when one is started.                     *)

Running == {i \in Timers : phase[i] # "off"}

TimerInv ==
    /\ current \in Timers \union {None}
    /\ switches \in 0 .. MaxSwitches
    /\ Cardinality(Running) + Cardinality(Resetting) <= switches + Cardinality(Threads)

LEMMA Finite ==
    /\ IsFiniteSet(Running) /\ Cardinality(Running) \in Nat
    /\ IsFiniteSet(Resetting) /\ Cardinality(Resetting) \in Nat
    /\ Cardinality(Resetting) <= Cardinality(Threads)
    /\ Cardinality(Threads) \in Nat /\ Cardinality(Timers) \in Nat
    /\ Cardinality(Timers) >= MaxSwitches + Cardinality(Threads) + 2 /\ MaxSwitches \in Nat
  <1>1. Running \subseteq Timers /\ Resetting \subseteq Threads
    BY DEF Running, Resetting
  <1>2. IsFiniteSet(Threads) /\ IsFiniteSet(Timers)
    BY ConfigAssumption
  <1>3. IsFiniteSet(Running) /\ IsFiniteSet(Resetting) /\ Cardinality(Resetting) <= Cardinality(Threads)
    BY <1>1, <1>2, FS_Subset
  <1> QED
    BY <1>2, <1>3, FS_CardinalityType, ConfigAssumption

\* A timer's name is free whenever one is created.
LEMMA NewTimerFree ==
    ASSUME TimerInv
    PROVE NewTimer \in Timers /\ phase[NewTimer] = "off" /\ NewTimer # current
  <1> DEFINE S == Running \union {current}
  <1>1. IsFiniteSet(S) /\ Cardinality(S) <= Cardinality(Running) + 1
    <2>1. /\ IsFiniteSet(S)
          /\ Cardinality(S) = IF current \in Running THEN Cardinality(Running)
                                                     ELSE Cardinality(Running) + 1
      BY Finite, FS_AddElement
    <2> QED
      BY <2>1, Finite, SMT
  <1>2. Cardinality(S) \in Nat
    BY <1>1, FS_CardinalityType
  <1>3. /\ Cardinality(Running) + Cardinality(Resetting) <= switches + Cardinality(Threads)
        /\ switches \in Nat /\ switches <= MaxSwitches
    BY Finite, SMT DEF TimerInv
  <1> HIDE DEF S
  <1>4. Cardinality(S) < Cardinality(Timers)
    BY <1>1, <1>2, <1>3, Finite, SMT
  <1>5. ~ Timers \subseteq S
    <2>1. Timers \subseteq S => Cardinality(Timers) <= Cardinality(S)
      BY <1>1, FS_Subset
    <2> QED
      BY <1>2, <1>4, <2>1, Finite, SMT
  <1>6. \E i \in Timers : phase[i] = "off" /\ i # current
    BY <1>5 DEF S, Running
  <1> QED
    BY <1>6 DEF NewTimer

\* A thread that may start a timer becomes idle, and the timer is a new one.
LEMMA TimerStarted ==
    ASSUME EventInv, TimerInv, NEW t \in Threads, StartTimer(t)
    PROVE /\ phase'[t] = "idle" /\ current' \in Timers
          /\ phase' \in [Actors -> ThreadPhases \union TimerPhases]
          /\ \A x \in Actors : x # t =>
                \/ phase'[x] = phase[x]
                \/ x \in Timers /\ phase[x] = "off" /\ phase'[x] = "wait"
          /\ \E i \in Timers : Running' \subseteq Running \union {i}
  <1>1. NewTimer \in Timers /\ phase[NewTimer] = "off" /\ current' = NewTimer /\ NewTimer # t
    BY NewTimerFree, Names DEF StartTimer
  <1>2. \/ phase' = [phase EXCEPT ![t] = "idle", ![NewTimer] = "wait"]
        \/ phase' = [phase EXCEPT ![t] = "idle"]
    BY DEF StartTimer
  <1> DEFINE n == NewTimer
  <1> HIDE DEF n
  <1>3. /\ phase'[t] = "idle" /\ phase' \in [Actors -> ThreadPhases \union TimerPhases]
        /\ \A x \in Actors : x # t => phase'[x] = phase[x] \/ (x = n /\ phase'[x] = "wait")
    BY <1>1, <1>2, Names DEF n, EventInv, Typed, ThreadPhases, TimerPhases
  <1>4. Running' \subseteq Running \union {n}
    BY <1>3, Names DEF Running
  <1> QED
    BY <1>1, <1>3, <1>4 DEF n

-----------------------------------------------------------------------------
(* Each action is one of those steps.                                      *)

LEMMA BeginsQuietly ==
    ASSUME EventInv, NEW t \in Threads, Ready(t),
           UNCHANGED <<buffer, lock, written, twice, emitted, shaken, raised, stale>>,
           NEW c \in Events \union {"flush", "leave", "disable"}, Begin(t, c),
           c \in Events => New(c)
    PROVE Quiet(t) /\ Places
  <1>1. /\ phase[t] = "idle" /\ t \in Actors /\ ~stale
        /\ phase' = [phase EXCEPT ![t] = "enter"]
        /\ call' = [call EXCEPT ![t] = c] /\ ref' = [ref EXCEPT ![t] = lock]
    BY Names DEF Ready, Begin
  <1>2. Places
    BY <1>1, Names DEF Places, EventInv, Typed, ThreadPhases, TimerPhases, Calls
  <1>3. Quiet(t)
    BY <1>1, Names DEF Quiet, Only, EventInv, Typed
  <1> QED
    BY <1>2, <1>3

LEMMA SwitchesQuietly ==
    ASSUME EventInv, TimerInv, NEW t \in Threads,
           \/ \E e \in Events : Emit(t, e)
           \/ Flush(t) \/ Leave(t) \/ DisableBuffering(t) \/ EnableBuffering(t)
    PROVE Quiet(t) /\ Places
  <1>0. /\ Ready(t) /\ t \in Actors
        /\ UNCHANGED <<buffer, lock, written, twice, emitted, shaken, raised, stale>>
    BY Names DEF Emit, Flush, Leave, DisableBuffering, EnableBuffering, stores
  <1>1. ASSUME NEW e \in Events, Emit(t, e) PROVE Quiet(t) /\ Places
    BY <1>0, <1>1, BeginsQuietly DEF Emit
  <1>2. CASE Begin(t, "flush") \/ Begin(t, "leave") \/ Begin(t, "disable")
    BY <1>0, <1>2, Names, BeginsQuietly
  <1>3. ASSUME /\ UNCHANGED <<call, ref>> /\ phase'[t] = "idle"
               /\ phase' \in [Actors -> ThreadPhases \union TimerPhases]
               /\ \A x \in Actors : x # t =>
                    \/ phase'[x] = phase[x]
                    \/ x \in Timers /\ phase[x] \in {"off", "wait"} /\ phase'[x] \in {"off", "wait"}
        PROVE Quiet(t) /\ Places
    <2>1. phase[t] = "idle" /\ ~stale
      BY <1>0 DEF Ready
    <2>2. Quiet(t)
      BY <1>0, <1>3, <2>1 DEF Quiet, Only
    <2>3. /\ \A u \in Threads : phase'[u] \in ThreadPhases
          /\ \A i \in Timers : phase'[i] \in TimerPhases
      BY <1>3, Names, SMT DEF EventInv, Typed, ThreadPhases, TimerPhases
    <2> QED
      BY <1>3, <2>2, <2>3 DEF Places, EventInv, Typed
  <1>4. CASE Leave(t) /\ ~enabled
    <2>1. /\ phase' = [a \in Actors |-> IF a = current /\ phase[a] = "wait" THEN "off"
                                        ELSE phase[a]]
          /\ UNCHANGED <<call, ref>> /\ phase[t] = "idle"
      BY <1>0, <1>4 DEF Leave, Ready
    <2>2. \A x \in Actors : phase[x] = "wait" => x \in Timers
      BY Names DEF EventInv, Typed, ThreadPhases
    <2>3. phase' \in [Actors -> ThreadPhases \union TimerPhases]
      BY <2>1 DEF EventInv, Typed, TimerPhases
    <2> QED
      BY <1>0, <1>3, <2>1, <2>2, <2>3
  <1>5. CASE EnableBuffering(t)
    <2>1. CASE StartTimer(t)
      BY <1>3, <1>5, <2>1, TimerStarted DEF EnableBuffering
    <2>2. CASE phase' = phase
      BY <1>0, <1>3, <1>5, <2>2 DEF EnableBuffering, Ready, EventInv, Typed
    <2> QED
      BY <1>5, <2>1, <2>2 DEF EnableBuffering
  <1> QED
    BY <1>1, <1>2, <1>4, <1>5 DEF Flush, Leave, DisableBuffering

LEMMA TimersMoveQuietly ==
    ASSUME EventInv, NEW i \in Timers, Timer(i)
    PROVE Quiet(i) /\ Places
  <1>1. /\ i \in Actors /\ i \notin Threads
        /\ UNCHANGED <<buffer, lock, call, written, twice, emitted, shaken, raised, stale>>
        /\ phase[i] \in {"wait", "check", "start"}
    BY Names DEF Timer, Fire, TimerCheck, TimerStart, Moves, stores
  <1>2. /\ ~stale
        /\ \/ /\ \E q \in {"check", "start", "off", "wait"} : phase' = [phase EXCEPT ![i] = q]
              /\ ref' = ref
           \/ /\ phase' = [phase EXCEPT ![i] = "enter"]
              /\ ref' = [ref EXCEPT ![i] = lock]
    <2>1. ~stale
      BY <1>1 DEF EventInv, Locked
    <2>2. CASE Fire(i) /\ enabled
      BY <2>1, <2>2 DEF Fire, Moves
    <2>3. CASE Fire(i) /\ ~enabled
      <3>1. [ref EXCEPT ![i] = ref[i]] = ref
        BY DEF EventInv, Typed
      <3> QED
        BY <2>1, <2>3, <3>1 DEF Fire, Moves
    <2>4. CASE TimerCheck(i) \/ TimerStart(i)
      BY <2>1, <2>4 DEF TimerCheck, TimerStart, Moves
    <2> QED
      BY <2>2, <2>3, <2>4 DEF Timer
  <1>3. Places
    BY <1>1, <1>2, Names DEF Places, EventInv, Typed, ThreadPhases, TimerPhases
  <1>4. /\ \A x \in Actors : x # i => phase'[x] = phase[x] /\ ref'[x] = ref[x]
        /\ \/ phase'[i] \in {"check", "start", "off", "wait"} /\ ref'[i] = ref[i]
           \/ phase'[i] = "enter" /\ ref'[i] = lock
    BY <1>1, <1>2 DEF EventInv, Typed
  <1>5. Quiet(i)
    BY <1>1, <1>2, <1>4 DEF Quiet, Only
  <1> QED
    BY <1>3, <1>5

LEMMA ResetsQuietly ==
    ASSUME EventInv, NEW t \in Threads, Reset(t) \/ ClearFlag(t)
    PROVE Quiet(t) /\ Places
  <1>1. /\ t \in Actors
        /\ UNCHANGED <<buffer, lock, call, ref, written, twice, emitted, shaken, raised>>
        /\ \/ /\ phase[t] = "idle" /\ stale /\ stale' = stale
              /\ phase' = [phase EXCEPT ![t] = "tested"]
           \/ /\ phase[t] = "tested" /\ stale' = FALSE
              /\ phase' = [phase EXCEPT ![t] = "cleared"]
    BY Names DEF Reset, ClearFlag, stores
  <1>2. Places
    BY <1>1, Names DEF Places, EventInv, Typed, ThreadPhases, TimerPhases
  <1>3. \A x \in Actors : x # t => phase'[x] = phase[x]
    BY <1>1 DEF EventInv, Typed
  <1>4. phase'[t] = "tested" \/ phase'[t] = "cleared"
    BY <1>1 DEF EventInv, Typed
  <1>5. /\ Only(t) /\ phase[t] \notin {"enter", "added", "wrote"}
        /\ phase'[t] \notin {"enter", "added", "wrote"}
    BY <1>1, <1>3, <1>4 DEF Only
  <1>6. stale \/ t \in Resetting
    BY <1>1 DEF Resetting
  <1>7. /\ stale' => stale /\ phase'[t] \in {"idle", "tested"}
        /\ stale' \in {stale, FALSE}
    BY <1>1 DEF EventInv, Typed
  <1>8. Quiet(t)
    BY <1>1, <1>3, <1>5, <1>6, <1>7 DEF Quiet
  <1> QED
    BY <1>2, <1>8

LEMMA EventSwaps ==
    ASSUME EventInv, TimerInv, NEW t \in Threads, SwapBuffer(t) \/ SwapLock(t)
    PROVE EventInv'
  <1>1. /\ t \in Actors /\ phase[t] \in {"cleared", "swapped"}
        /\ buffer' \in {buffer, <<>>} /\ lock' \in {lock, lock + 1}
        /\ UNCHANGED <<call, ref, stale, written, twice, emitted, shaken, raised>>
        /\ \/ StartTimer(t)
           \/ \E p \in {"idle", "swapped"} : phase' = [phase EXCEPT ![t] = p]
    BY Names DEF SwapBuffer, SwapLock, stores
  <1>2. /\ phase'[t] \in {"idle", "swapped"}
        /\ phase' \in [Actors -> ThreadPhases \union TimerPhases]
        /\ \A x \in Actors : x # t =>
              \/ phase'[x] = phase[x]
              \/ x \in Timers /\ phase[x] = "off" /\ phase'[x] = "wait"
    <2>1. CASE StartTimer(t)
      BY <2>1, TimerStarted
    <2>2. ASSUME NEW p \in {"idle", "swapped"}, phase' = [phase EXCEPT ![t] = p]
          PROVE /\ phase'[t] \in {"idle", "swapped"}
                /\ phase' \in [Actors -> ThreadPhases \union TimerPhases]
                /\ \A x \in Actors : x # t => phase'[x] = phase[x]
      BY <1>1, <2>2 DEF EventInv, Typed, ThreadPhases
    <2> QED
      BY <1>1, <2>1, <2>2
  <1>3. Places
    <2>1. /\ \A u \in Threads : phase'[u] \in ThreadPhases
          /\ \A i \in Timers : phase'[i] \in TimerPhases
      BY <1>2, Names, SMT DEF EventInv, Typed, ThreadPhases, TimerPhases
    <2> QED
      BY <1>1, <1>2, <2>1 DEF Places, EventInv, Typed
  <1>4. Only(t)
    BY <1>1, <1>2 DEF Only
  <1> QED
    BY <1>1, <1>2, <1>3, <1>4, EventSwap

LEMMA EventUnchanged == ASSUME EventInv, UNCHANGED vars PROVE EventInv'
  <1>1. /\ UNCHANGED <<buffer, lock, phase, call, ref, stale, written, twice, emitted, shaken, raised>>
    BY DEF vars, stores
  <1> QED
    BY <1>1 DEF EventInv, Typed, Called, Locked, Kept, Accounted, CriticalIsWritten, Pending,
                Holding, Engaged, Resetting, Unsettled

LEMMA EventStep == ASSUME EventInv, TimerInv, [Next]_vars PROVE EventInv'
  <1>1. ASSUME NEW t \in Threads, Thread(t) PROVE EventInv'
    <2>1. t \in Actors
      BY Names
    <2>2. CASE \/ \E e \in Events : Emit(t, e)
               \/ Flush(t) \/ Leave(t) \/ DisableBuffering(t) \/ EnableBuffering(t)
      BY <2>1, <2>2, SwitchesQuietly, QuietStep
    <2>3. CASE Reset(t) \/ ClearFlag(t)
      BY <2>1, <2>3, ResetsQuietly, QuietStep
    <2>4. CASE SwapBuffer(t) \/ SwapLock(t)
      BY <2>4, EventSwaps
    <2>5. ASSUME NEW e \in Events, Direct(t, e) PROVE EventInv'
      BY <2>5, EventDirect
    <2> QED
      BY <1>1, <2>2, <2>3, <2>4, <2>5, EventAdd, EventAdded, EventFork DEF Thread
  <1>2. ASSUME NEW i \in Timers, Timer(i) PROVE EventInv'
    BY <1>2, Names, TimersMoveQuietly, QuietStep
  <1>3. ASSUME NEW a \in Actors, FlushBegins(a) \/ Clear(a) PROVE EventInv'
    BY <1>3, EventFlushBegins, EventClear
  <1> QED
    BY <1>1, <1>2, <1>3, EventUnchanged DEF Next

-----------------------------------------------------------------------------
(* The timers, step by step.                                               *)

\* What starts no timer and no reset leaves no more of them.
LEMMA FewerTimers ==
    ASSUME TimerInv, Running' \subseteq Running, Resetting' \subseteq Resetting,
           current' \in Timers \union {None},
           switches' = switches \/ (switches' = switches + 1 /\ switches < MaxSwitches)
    PROVE TimerInv'
  <1>1. /\ IsFiniteSet(Running') /\ Cardinality(Running') <= Cardinality(Running)
        /\ IsFiniteSet(Resetting') /\ Cardinality(Resetting') <= Cardinality(Resetting)
    BY Finite, FS_Subset
  <1>2. Cardinality(Running') \in Nat /\ Cardinality(Resetting') \in Nat
    BY <1>1, FS_CardinalityType
  <1>3. switches' \in 0 .. MaxSwitches /\ switches \in Nat /\ switches <= switches'
    BY Finite, SMT DEF TimerInv
  <1>4. Cardinality(Running') + Cardinality(Resetting') <= switches' + Cardinality(Threads)
    BY <1>1, <1>2, <1>3, Finite, SMT DEF TimerInv
  <1> QED
    BY <1>3, <1>4 DEF TimerInv

\* A timer is started by a switch, or at the end of a reset.
LEMMA OneMoreTimer ==
    ASSUME TimerInv, NEW i \in Timers, Running' \subseteq Running \union {i},
           current' \in Timers,
           \/ /\ switches' = switches + 1 /\ switches < MaxSwitches
              /\ Resetting' \subseteq Resetting
           \/ /\ switches' = switches
              /\ \E t \in Resetting : Resetting' \subseteq Resetting \ {t}
    PROVE TimerInv'
  <1>1. IsFiniteSet(Running') /\ Cardinality(Running') <= Cardinality(Running) + 1
    <2>1. /\ IsFiniteSet(Running \union {i})
          /\ Cardinality(Running \union {i}) = IF i \in Running THEN Cardinality(Running)
                                                            ELSE Cardinality(Running) + 1
      BY Finite, FS_AddElement
    <2>2. /\ IsFiniteSet(Running')
          /\ Cardinality(Running') <= Cardinality(Running \union {i})
      BY <2>1, FS_Subset
    <2>3. Cardinality(Running') \in Nat /\ Cardinality(Running \union {i}) \in Nat
      BY <2>1, <2>2, FS_CardinalityType
    <2> QED
      BY <2>1, <2>2, <2>3, Finite, SMT
  <1>2. Cardinality(Running') \in Nat
    BY <1>1, FS_CardinalityType
  <1>3. switches' \in 0 .. MaxSwitches /\ switches \in Nat /\ MaxSwitches \in Nat
    BY Finite, SMT DEF TimerInv
  <1>4. CASE /\ switches' = switches + 1
             /\ Resetting' \subseteq Resetting
    <2>1. /\ IsFiniteSet(Resetting') /\ Cardinality(Resetting') <= Cardinality(Resetting)
      BY <1>4, Finite, FS_Subset
    <2>2. Cardinality(Resetting') \in Nat
      BY <2>1, FS_CardinalityType
    <2>3. Cardinality(Running') + Cardinality(Resetting') <= switches' + Cardinality(Threads)
      BY <1>1, <1>2, <1>3, <1>4, <2>1, <2>2, Finite, SMT DEF TimerInv
    <2> QED
      BY <1>3, <2>3 DEF TimerInv
  <1>5. ASSUME switches' = switches, NEW t \in Resetting, Resetting' \subseteq Resetting \ {t}
        PROVE TimerInv'
    <2>1. /\ IsFiniteSet(Resetting \ {t})
          /\ Cardinality(Resetting \ {t}) = Cardinality(Resetting) - 1
      BY <1>5, Finite, FS_RemoveElement
    <2>2. /\ IsFiniteSet(Resetting')
          /\ Cardinality(Resetting') <= Cardinality(Resetting \ {t})
      BY <1>5, <2>1, FS_Subset
    <2>3. Cardinality(Resetting') \in Nat /\ Cardinality(Resetting \ {t}) \in Nat
      BY <2>1, <2>2, FS_CardinalityType
    <2>4. Cardinality(Running') + Cardinality(Resetting') <= switches' + Cardinality(Threads)
      BY <1>1, <1>2, <1>3, <1>5, <2>1, <2>2, <2>3, Finite, SMT DEF TimerInv
    <2> QED
      BY <1>3, <2>4 DEF TimerInv
  <1> QED
    BY <1>4, <1>5

\* Flushing, and the ends of calls, start nothing.
LEMMA FlushTimers ==
    ASSUME EventInv, TimerInv, NEW a \in Actors, phase[a] \in {"enter", "added", "wrote"},
           \/ Ends(a) \/ Fails(a)
           \/ phase' = [phase EXCEPT ![a] = "wrote"] /\ current' = current,
           switches' = switches
    PROVE TimerInv'
  <1>1. \A x \in Actors : phase'[x] = phase[x] \/ phase'[x] = "off" \/ x = a
    BY DEF Ends, Fails, EventInv, Typed
  <1>2. phase'[a] \in {"check", "idle", "wrote"}
    BY DEF Ends, Fails, After, EventInv, Typed
  <1>3. Running' \subseteq Running
    BY <1>1, Names DEF Running, Actors
  <1>4. Resetting' \subseteq Resetting
    BY <1>1, <1>2, Names DEF Resetting
  <1>5. current' \in Timers \union {None}
    BY DEF Ends, Fails, TimerInv
  <1> QED
    BY <1>3, <1>4, <1>5, FewerTimers

LEMMA TimerSwitch ==
    ASSUME EventInv, TimerInv, NEW t \in Threads,
           \/ \E e \in Events : Emit(t, e)
           \/ Flush(t) \/ Leave(t) \/ DisableBuffering(t) \/ EnableBuffering(t)
    PROVE TimerInv'
  <1>1. /\ phase[t] = "idle" /\ t \in Actors /\ t \notin Timers
        /\ switches' = switches \/ (switches' = switches + 1 /\ switches < MaxSwitches)
    BY Names DEF Emit, Flush, Leave, DisableBuffering, EnableBuffering, Ready
  <1>2. CASE EnableBuffering(t) /\ StartTimer(t)
    <2>1. /\ phase'[t] = "idle" /\ current' \in Timers
          /\ \A x \in Actors : x # t =>
                \/ phase'[x] = phase[x]
                \/ x \in Timers /\ phase[x] = "off" /\ phase'[x] = "wait"
          /\ \E i \in Timers : Running' \subseteq Running \union {i}
      BY <1>2, TimerStarted
    <2>2. Resetting' \subseteq Resetting
      BY <1>1, <2>1, Names DEF Resetting
    <2>3. switches' = switches + 1 /\ switches < MaxSwitches
      BY <1>2 DEF EnableBuffering
    <2> QED
      BY <2>1, <2>2, <2>3, OneMoreTimer
  <1>3. ASSUME phase'[t] \in {"idle", "enter"},
               \A x \in Actors : x # t => phase'[x] = phase[x] \/ phase'[x] = "off",
               current' = current \/ current' = None
        PROVE TimerInv'
    <2>1. Running' \subseteq Running
      BY <1>1, <1>3, Names DEF Running
    <2>2. Resetting' \subseteq Resetting
      BY <1>1, <1>3, Names DEF Resetting
    <2>3. current' \in Timers \union {None}
      BY <1>3 DEF TimerInv
    <2> QED
      BY <1>1, <2>1, <2>2, <2>3, FewerTimers
  <1>4. CASE \/ \E e \in Events : Emit(t, e)
             \/ Flush(t) \/ DisableBuffering(t) \/ (Leave(t) /\ enabled)
    <2>1. phase' = [phase EXCEPT ![t] = "enter"] /\ current' = current
      BY <1>4 DEF Emit, Flush, DisableBuffering, Leave, Begin, timing
    <2> QED
      BY <1>1, <1>3, <2>1 DEF EventInv, Typed
  <1>5. CASE Leave(t) /\ ~enabled
    <2>1. /\ phase' = [a \in Actors |-> IF a = current /\ phase[a] = "wait" THEN "off"
                                        ELSE phase[a]]
          /\ current' = None
      BY <1>5 DEF Leave
    <2> QED
      BY <1>1, <1>3, <2>1
  <1>6. CASE EnableBuffering(t) /\ UNCHANGED <<phase, timing>>
    BY <1>1, <1>3, <1>6 DEF timing
  <1> QED
    BY <1>2, <1>4, <1>5, <1>6 DEF EnableBuffering

LEMMA TimerReset ==
    ASSUME EventInv, TimerInv, NEW t \in Threads,
           Reset(t) \/ ClearFlag(t) \/ SwapBuffer(t) \/ SwapLock(t) \/ Fork(t)
    PROVE TimerInv'
  <1>1. switches' = switches /\ t \in Actors /\ t \notin Timers
    BY Names DEF Reset, ClearFlag, SwapBuffer, SwapLock, Fork
  <1>2. CASE Reset(t)
    <2>1. Running' = {} /\ current' = current
      BY <1>2, Names DEF Reset, Running, EventInv, Typed, Locked, timing
    <2>2. Resetting' \subseteq Threads
      BY DEF Resetting
    <2>3. /\ IsFiniteSet(Resetting') /\ Cardinality(Resetting') <= Cardinality(Threads)
          /\ Cardinality(Running') = 0
      BY <2>1, <2>2, ConfigAssumption, FS_Subset, FS_EmptySet
    <2>4. Cardinality(Resetting') \in Nat
      BY <2>3, FS_CardinalityType
    <2>5. Cardinality(Running') + Cardinality(Resetting') <= switches + Cardinality(Threads)
      BY <2>3, <2>4, Finite, SMT DEF TimerInv
    <2> QED
      BY <1>1, <2>1, <2>5 DEF TimerInv
  <1>3. CASE Fork(t)
    <2>1. Running' = {} /\ Resetting' = {} /\ current' = None
      BY <1>3, Names DEF Fork, Running, Resetting
    <2> QED
      BY <1>1, <2>1, FewerTimers
  <1>4. CASE SwapLock(t) /\ StartTimer(t)
    <2>1. /\ phase'[t] = "idle" /\ current' \in Timers /\ t \in Resetting
          /\ \A x \in Actors : x # t =>
                \/ phase'[x] = phase[x]
                \/ x \in Timers /\ phase[x] = "off" /\ phase'[x] = "wait"
          /\ \E i \in Timers : Running' \subseteq Running \union {i}
      BY <1>4, TimerStarted DEF SwapLock, Resetting
    <2>2. Resetting' \subseteq Resetting \ {t}
      BY <2>1, Names DEF Resetting
    <2> QED
      BY <1>1, <2>1, <2>2, OneMoreTimer
  <1>5. CASE ClearFlag(t) \/ SwapBuffer(t) \/ (SwapLock(t) /\ ~StartTimer(t))
    <2>1. /\ phase[t] \in {"tested", "cleared", "swapped"} /\ current' = current
          /\ \E p \in {"cleared", "swapped", "idle"} : phase' = [phase EXCEPT ![t] = p]
      BY <1>5 DEF ClearFlag, SwapBuffer, SwapLock, timing
    <2>2. \A x \in Actors : x # t => phase'[x] = phase[x]
      BY <2>1 DEF EventInv, Typed
    <2>3. Running' \subseteq Running
      BY <1>1, <2>2, Names DEF Running
    <2>4. Resetting' \subseteq Resetting
      BY <2>1, <2>2, Names DEF Resetting
    <2> QED
      BY <1>1, <2>1, <2>3, <2>4, FewerTimers DEF TimerInv
  <1> QED
    BY <1>2, <1>3, <1>4, <1>5

LEMMA TimerMoves == ASSUME EventInv, TimerInv, NEW i \in Timers, Timer(i) PROVE TimerInv'
  <1>1. /\ i \in Actors /\ i \notin Threads /\ phase[i] # "off" /\ switches' = switches
        /\ \E q \in {"enter", "check", "start", "off", "wait"} : phase' = [phase EXCEPT ![i] = q]
        /\ current' \in Timers \union {None}
    BY Names DEF Timer, Fire, TimerCheck, TimerStart, Moves, timing, TimerInv
  <1>2. \A x \in Actors : x # i => phase'[x] = phase[x]
    BY <1>1 DEF EventInv, Typed
  <1>3. Running' \subseteq Running
    BY <1>1, <1>2, Names DEF Running
  <1>4. Resetting' \subseteq Resetting
    BY <1>1, <1>2, Names DEF Resetting
  <1> QED
    BY <1>1, <1>3, <1>4, FewerTimers

LEMMA TimerStep == ASSUME EventInv, TimerInv, [Next]_vars PROVE TimerInv'
  <1>1. ASSUME UNCHANGED <<phase, current, switches>> PROVE TimerInv'
    <2>1. Running' = Running /\ Resetting' = Resetting
      BY <1>1 DEF Running, Resetting
    <2> QED
      BY <1>1, <2>1 DEF TimerInv
  <1>2. ASSUME NEW t \in Threads, Thread(t) PROVE TimerInv'
    <2>1. t \in Actors /\ t \notin Timers
      BY Names
    <2>2. CASE Add(t)
      <3>1. /\ phase[t] = "enter" /\ phase' = [phase EXCEPT ![t] = "added"]
            /\ current' = current /\ switches' = switches
        BY <2>2 DEF Add, timing
      <3>2. Running' \subseteq Running /\ Resetting' \subseteq Resetting
        BY <2>1, <3>1, Names DEF Running, Resetting, EventInv, Typed
      <3> QED
        BY <3>1, <3>2, FewerTimers DEF TimerInv
    <2>3. CASE Added(t)
      <3>1. /\ phase[t] = "added" /\ switches' = switches
            /\ \/ Ends(t) \/ Fails(t)
               \/ phase' = [phase EXCEPT ![t] = "wrote"] /\ current' = current
        BY <2>3 DEF Added, FlushLocked
      <3> QED
        BY <2>1, <3>1, FlushTimers
    <2>4. ASSUME NEW e \in Events, Direct(t, e) PROVE TimerInv'
      BY <1>1, <2>4 DEF Direct, timing
    <2> QED
      BY <1>2, <2>2, <2>3, <2>4, TimerSwitch, TimerReset DEF Thread
  <1>3. ASSUME NEW a \in Actors, FlushBegins(a) \/ Clear(a) PROVE TimerInv'
    <2>1. /\ phase[a] \in {"enter", "wrote"} /\ switches' = switches
          /\ \/ Ends(a) \/ Fails(a)
             \/ phase' = [phase EXCEPT ![a] = "wrote"] /\ current' = current
      BY <1>3 DEF FlushBegins, Clear, FlushLocked
    <2> QED
      BY <2>1, FlushTimers
  <1>4. CASE UNCHANGED vars
    BY <1>1, <1>4 DEF vars, timing
  <1> QED
    BY <1>2, <1>3, <1>4, TimerMoves DEF Next

LEMMA TimerInit == Init => TimerInv
  <1> SUFFICES ASSUME Init PROVE TimerInv
    OBVIOUS
  <1>1. current \in Timers
    <2>1. Timers # {}
      <3>1. Timers = {} => Cardinality(Timers) = 0
        BY FS_EmptySet
      <3> QED
        BY <3>1, Finite, SMT
    <2> QED
      BY <2>1 DEF Init
  <1>2. Running = {current} /\ Resetting = {}
    BY <1>1, Names DEF Init, Running, Resetting
  <1>3. /\ Cardinality(Running) = 1 /\ Cardinality(Resetting) = 0
        /\ Cardinality(Threads) # 0
    BY <1>2, FS_Singleton, FS_EmptySet, ConfigAssumption
  <1>4. switches \in 0 .. MaxSwitches /\ switches = 0
    BY Finite, SMT DEF Init
  <1>5. Cardinality(Running) + Cardinality(Resetting) <= switches + Cardinality(Threads)
    BY <1>3, <1>4, Finite, SMT
  <1> QED
    BY <1>1, <1>4, <1>5 DEF TimerInv

-----------------------------------------------------------------------------
(* The size of the buffer, and the other types.                            *)

SizeInv ==
    /\ enabled \in BOOLEAN /\ inside \in BOOLEAN /\ stale \in BOOLEAN
    /\ raised \in BOOLEAN /\ broken \in BOOLEAN
    /\ failures \in 0 .. MaxFailures
    /\ Len(buffer) < BufferSize \/ raised \/ Holding # {}

LEMMA Small == Len(<<>>) < BufferSize /\ MaxFailures \in Nat
  BY ConfigAssumption, SMT

\* Writes raise so often at most.
LEMMA RaisesFacts ==
    ASSUME SizeInv, NEW b, WriteAll(b) \/ WriteRaises(b)
    PROVE failures' \in 0 .. MaxFailures /\ raised' \in BOOLEAN /\ (raised => raised')
  <1>1. failures' = failures \/ (failures < MaxFailures /\ failures' = failures + 1)
    BY DEF WriteAll, WriteRaises
  <1>2. failures' \in 0 .. MaxFailures
    BY <1>1, Small, SMT DEF SizeInv
  <1> QED
    BY <1>2 DEF WriteAll, WriteRaises, SizeInv

LEMMA SizeEnds ==
    ASSUME SizeInv, NEW a, Ends(a) \/ Fails(a)
    PROVE enabled' \in BOOLEAN /\ broken' \in BOOLEAN
  BY DEF Ends, Fails, SizeInv

LEMMA SizeFlush ==
    ASSUME EventInv, SizeInv, NEW a \in Actors, NEW l, FlushLocked(a, l), UNCHANGED <<inside, stale>>
    PROVE SizeInv'
  <1>1. CASE buffer = <<>> /\ Ends(a) /\ UNCHANGED stores
    <2>1. buffer' = <<>> /\ UNCHANGED <<failures, raised>>
      BY <1>1 DEF FlushLocked, stores
    <2> QED
      BY <1>1, <2>1, Small, SizeEnds DEF SizeInv
  <1>2. CASE WriteRaises(buffer) /\ Fails(a)
    <2>1. raised' = TRUE
      BY <1>2 DEF WriteRaises
    <2> QED
      BY <1>2, <2>1, RaisesFacts, SizeEnds DEF SizeInv
  <1>3. CASE /\ WriteAll(buffer) /\ phase' = [phase EXCEPT ![a] = "wrote"]
             /\ UNCHANGED <<enabled, call, current, broken, emitted>>
    <2>1. a \in Holding'
      BY <1>3 DEF Holding, EventInv, Typed
    <2> QED
      BY <1>3, <2>1, RaisesFacts DEF SizeInv
  <1> QED
    BY <1>1, <1>2, <1>3 DEF FlushLocked

LEMMA SizeStep == ASSUME EventInv, TimerInv, SizeInv, [Next]_vars PROVE SizeInv'
  <1>1. ASSUME UNCHANGED <<buffer, failures, raised>>, Holding' = Holding,
               enabled' \in BOOLEAN, inside' \in BOOLEAN, stale' \in BOOLEAN, broken' \in BOOLEAN
        PROVE SizeInv'
    BY <1>1 DEF SizeInv
  <1>2. ASSUME NEW a \in Actors, Quiet(a) PROVE Holding' = Holding
    <2>1. \A x \in Actors : phase'[x] = phase[x]
                            \/ (phase[x] \notin {"added", "wrote"} /\ phase'[x] \notin {"added", "wrote"})
      BY <1>2 DEF Quiet, Only
    <2> QED
      BY <2>1 DEF Holding
  <1>3. ASSUME NEW t \in Threads, Thread(t) PROVE SizeInv'
    <2>0. t \in Actors
      BY Names
    <2>1. CASE \/ \E e \in Events : Emit(t, e)
               \/ Flush(t) \/ Leave(t) \/ DisableBuffering(t) \/ EnableBuffering(t)
      <3>1. Holding' = Holding
        BY <1>2, <2>0, <2>1, SwitchesQuietly
      <3>2. UNCHANGED <<buffer, failures, raised, stale>>
        BY <2>1 DEF Emit, Flush, Leave, DisableBuffering, EnableBuffering, stores
      <3>3. enabled' \in BOOLEAN /\ inside' \in BOOLEAN /\ broken' \in BOOLEAN
        BY <2>1 DEF Emit, Flush, Leave, DisableBuffering, EnableBuffering, StartTimer,
                    timing, SizeInv
      <3> QED
        BY <1>1, <3>1, <3>2, <3>3 DEF SizeInv
    <2>2. CASE Reset(t) \/ ClearFlag(t)
      <3>1. Holding' = Holding
        BY <1>2, <2>0, <2>2, ResetsQuietly
      <3> QED
        BY <1>1, <2>2, <3>1 DEF Reset, ClearFlag, stores, timing, SizeInv
    <2>3. CASE SwapBuffer(t) \/ SwapLock(t)
      <3>1. \A x \in Actors : phase'[x] = phase[x]
                  \/ (phase[x] \notin {"added", "wrote"} /\ phase'[x] \notin {"added", "wrote"})
        <4>1. CASE StartTimer(t) /\ phase[t] = "swapped"
          BY <4>1, TimerStarted
        <4>2. CASE /\ phase[t] \in {"cleared", "swapped"}
                   /\ \E p \in {"idle", "swapped"} : phase' = [phase EXCEPT ![t] = p]
          BY <4>2 DEF EventInv, Typed
        <4> QED
          BY <2>3, <4>1, <4>2 DEF SwapBuffer, SwapLock
      <3>2. Holding' = Holding
        BY <3>1 DEF Holding
      <3>3. /\ UNCHANGED <<enabled, inside, stale, failures, raised>>
            /\ buffer' \in {buffer, <<>>} /\ broken' \in BOOLEAN
        BY <2>3 DEF SwapBuffer, SwapLock, StartTimer, stores, timing, SizeInv
      <3> QED
        BY <3>2, <3>3, Small DEF SizeInv
    <2>4. CASE Fork(t)
      BY <2>4, Small DEF Fork, SizeInv
    <2>5. CASE Add(t)
      <3>1. t \in Holding'
        BY <2>0, <2>5 DEF Add, Holding, EventInv, Typed
      <3> QED
        BY <2>5, <3>1 DEF Add, SizeInv, stores, timing
    <2>6. CASE Added(t)
      <3>1. CASE FlushLocked(t, ref[t])
        BY <2>0, <2>6, <3>1, SizeFlush DEF Added
      <3>2. CASE ~MustFlush(t) /\ Ends(t) /\ UNCHANGED <<buffer, stores>>
        <4>1. Len(buffer') < BufferSize
          <5>1. Len(buffer) \in Nat /\ ~(Len(buffer) >= BufferSize) /\ BufferSize \in Nat
            BY <3>2, ConfigAssumption, SMT DEF MustFlush, EventInv, Typed
          <5> QED
            BY <3>2, <5>1, SMT
        <4> QED
          BY <2>6, <3>2, <4>1, SizeEnds DEF Added, SizeInv, stores
      <3> QED
        BY <2>6, <3>1, <3>2 DEF Added
    <2>7. ASSUME NEW e \in Events, Direct(t, e) PROVE SizeInv'
      <3>1. /\ UNCHANGED <<enabled, inside, stale, broken, buffer, phase>>
            /\ WriteAll(<<e>>) \/ WriteRaises(<<e>>)
        BY <2>7 DEF Direct, timing
      <3>2. Holding' = Holding
        BY <3>1 DEF Holding
      <3> QED
        BY <3>1, <3>2, RaisesFacts DEF SizeInv
    <2> QED
      BY <1>3, <2>1, <2>2, <2>3, <2>4, <2>5, <2>6, <2>7 DEF Thread
  <1>4. ASSUME NEW i \in Timers, Timer(i) PROVE SizeInv'
    <2>1. Holding' = Holding
      BY <1>2, <1>4, Names, TimersMoveQuietly
    <2> QED
      BY <1>1, <1>4, <2>1
         DEF Timer, Fire, TimerCheck, TimerStart, Moves, stores, timing, SizeInv
  <1>5. ASSUME NEW a \in Actors, FlushBegins(a) \/ Clear(a) PROVE SizeInv'
    <2>1. CASE FlushBegins(a)
      BY <1>5, <2>1, SizeFlush DEF FlushBegins
    <2>2. CASE Clear(a)
      BY <1>5, <2>2, Small, SizeEnds DEF Clear, SizeInv, stores
    <2> QED
      BY <1>5, <2>1, <2>2
  <1>6. CASE UNCHANGED vars
    <2>1. Holding' = Holding
      BY <1>6 DEF vars, Holding
    <2> QED
      BY <1>1, <1>6, <2>1 DEF vars, stores, timing, SizeInv
  <1> QED
    BY <1>3, <1>4, <1>5, <1>6 DEF Next

RecorderInv == EventInv /\ TimerInv /\ SizeInv

LEMMA RecorderAlways == Spec => []RecorderInv
  <1>1. Init => RecorderInv
    <2>1. Init => SizeInv
      <3>1. 0 \in 0 .. MaxFailures
        BY Small, SMT
      <3> QED
        BY <3>1, Small DEF Init, SizeInv
    <2> QED
      BY <2>1, EventInit, TimerInit DEF RecorderInv
  <1>2. RecorderInv /\ [Next]_vars => RecorderInv'
    BY EventStep, TimerStep, SizeStep DEF RecorderInv
  <1> QED
    BY <1>1, <1>2, PTL DEF Spec

\* What emit has returned for is written or still in the buffer, and written
\* once unless a write raised, but for what was buffered during a reset: emit,
\* the flushes, the switches, the exit of the context and fork, in any order.
THEOREM EventsAccounted == Spec => []Accounted
  <1>1. RecorderInv => Accounted
    BY DEF RecorderInv, EventInv
  <1> QED
    BY <1>1, RecorderAlways, PTL

\* An error is written when its emit returns: the flush under the lock of emit,
\* whatever others flush or switch, unless it was buffered during a reset.
THEOREM CriticalsAreWritten == Spec => []CriticalIsWritten
  <1>1. RecorderInv => CriticalIsWritten
    BY DEF RecorderInv, EventInv
  <1> QED
    BY <1>1, RecorderAlways, PTL

\* Whatever the threads and timers do, the buffer stays below its size unless a
\* write raised or its lock is held, and a timer that is started is a new one:
\* emit, the flushes, enable_buffering, the timers' own restarts and the fork.
THEOREM RecorderTypes == Spec => []TypeOK
  <1>1. RecorderInv => TypeOK
    BY DEF RecorderInv, EventInv, Typed, TimerInv, SizeInv, TypeOK, ThreadPhases,
           TimerPhases, Calls
  <1> QED
    BY <1>1, RecorderAlways, PTL
===============================================================================
