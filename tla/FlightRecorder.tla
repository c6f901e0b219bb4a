---------------------------- MODULE FlightRecorder ----------------------------
(***************************************************************************)
(* A FlightRecorder, its buffer and its flush timer: logging's             *)
(* flight_recorder.py.                                                     *)
(*                                                                         *)
(* Threads emit events, flush, switch buffering on and off and leave the   *)
(* recorder's context; timer threads flush in the background and start     *)
(* their successors; the process may fork, and the model then follows the  *)
(* child, where only the forking thread is left, and may start others.     *)
(*                                                                         *)
(* A thread reads whether buffering is enabled, and which lock there is,   *)
(* before it takes the lock.  Under the lock it appends, decides whether   *)
(* to flush, writes the events and clears the buffer, and what it reads as *)
(* the buffer may be another list every time: the first calls in a child   *)
(* put a new list and a new lock in their places, under no lock at all.    *)
(***************************************************************************)
EXTENDS Naturals, FiniteSets, SequencesExt

CONSTANTS
    Threads,
    Critical,     \* events of level ERROR or above, which are flushed at once
    Others,       \* other events
    Faulty,       \* events whose write raises every time
    BufferSize,   \* buffer_size
    Timers,       \* names for Timer objects, used again by their successors
    None,         \* no timer, or no call
    MaxFailures,  \* bound of the model: other writes that raise
    MaxSwitches   \* bound of the model: how often buffering is switched

Events == Critical \union Others
Actors == Threads \union Timers

ASSUME ConfigAssumption ==
    /\ BufferSize \in Nat \ {0} /\ MaxFailures \in Nat /\ MaxSwitches \in Nat
    /\ Threads # {} /\ Threads \intersect Timers = {}
    /\ Critical \intersect Others = {} /\ Faulty \subseteq Events
    /\ None \notin Timers \union Events \union {"flush", "leave", "disable"}
    /\ Events \intersect {"flush", "leave", "disable"} = {}
    \* A name is free whenever a timer is created.
    /\ IsFiniteSet(Threads) /\ IsFiniteSet(Timers)
    /\ Cardinality(Timers) >= MaxSwitches + Cardinality(Threads) + 2

VARIABLES
    enabled,   \* _buffering_enabled
    buffer,    \* _buffer
    lock,      \* _buffer_lock: how many there have been before it
    phase,     \* where each thread and each timer is
    call,      \* what each thread is at: the event it emits, or another call
    ref,       \* the lock that each has read, or holds
    current,   \* _flush_timer
    inside,    \* the recorder's context has not been left
    stale,     \* _fork_needs_reinit
    written,   \* events that reached the processors
    twice,     \* those that did so more than once
    failures,  \* writes that raised, but for the faulty events'
    switches,  \* times that buffering was switched
    raised,    \* history: a write has raised, in this process
    broken,    \* history: a timer could not be started
    emitted,   \* history: events whose emit returned
    shaken     \* history: events that were buffered while a reset was under way

stores == <<written, twice, failures, raised>>
timing == <<current, broken>>
vars == <<enabled, buffer, lock, phase, call, ref, inside, stale, switches,
          emitted, shaken, stores, timing>>

Pending == ToSet(buffer)
New(e) ==
    /\ e \notin Pending \union written \union emitted \union shaken
    /\ \A t \in Threads : call[t] # e

\* In a call of the recorder's; with its lock; in _ensure_fork_reinit.
Engaged == {a \in Actors : phase[a] \in {"enter", "added", "wrote"}}
Holding == {a \in Actors : phase[a] \in {"added", "wrote"}}
Resetting == {t \in Threads : phase[t] \in {"tested", "cleared", "swapped"}}

\* The buffer is within its size, but under the lock and after writes that raised.
TypeOK ==
    /\ enabled \in BOOLEAN /\ inside \in BOOLEAN /\ stale \in BOOLEAN
    /\ buffer \in Seq(Events)
    /\ Len(buffer) < BufferSize \/ raised \/ Holding # {}
    /\ lock \in Nat /\ ref \in [Actors -> Nat]
    /\ \A t \in Threads : phase[t] \in {"idle", "enter", "added", "wrote",
                                        "tested", "cleared", "swapped"}
    /\ \A i \in Timers : phase[i] \in {"off", "wait", "enter", "wrote", "check", "start"}
    /\ call \in [Actors -> Events \union {"flush", "leave", "disable", None}]
    /\ current \in Timers \union {None}
    /\ written \subseteq Events /\ twice \subseteq written
    /\ emitted \subseteq Events /\ shaken \subseteq Events
    /\ failures \in 0 .. MaxFailures /\ switches \in 0 .. MaxSwitches
    /\ raised \in BOOLEAN /\ broken \in BOOLEAN

NewTimer == CHOOSE i \in Timers : phase[i] = "off" /\ i # current

Init ==
    /\ enabled = TRUE /\ inside = TRUE /\ stale = FALSE
    /\ buffer = <<>> /\ lock = 0
    /\ current = CHOOSE i \in Timers : TRUE
    /\ phase = [a \in Actors |-> IF a = current THEN "wait"
                                 ELSE IF a \in Timers THEN "off" ELSE "idle"]
    /\ call = [a \in Actors |-> None] /\ ref = [a \in Actors |-> 0]
    /\ written = {} /\ twice = {} /\ emitted = {} /\ shaken = {}
    /\ failures = 0 /\ switches = 0 /\ raised = FALSE /\ broken = FALSE

Ready(t) == phase[t] = "idle" /\ ~stale

-----------------------------------------------------------------------------
\* The first k events of b are written.
Write(b, k) ==
    /\ written' = written \union {b[i] : i \in 1 .. k}
    /\ twice' = twice \union {b[i] : i \in {j \in 1 .. k :
                                  b[j] \in written \/ \E h \in 1 .. j - 1 : b[h] = b[j]}}

WriteAll(b) ==
    /\ \A i \in DOMAIN b : b[i] \notin Faulty
    /\ Write(b, Len(b))
    /\ UNCHANGED <<failures, raised>>

\* The write of the r-th raises, before or after the event has been stored.
WriteRaises(b) ==
    \E r \in DOMAIN b :
        /\ \A i \in 1 .. r - 1 : b[i] \notin Faulty
        /\ \/ b[r] \in Faulty /\ UNCHANGED failures
           \/ failures < MaxFailures /\ failures' = failures + 1
        /\ \E k \in {r - 1, r} : Write(b, k)
        /\ raised' = TRUE

\* Where a thread or a timer is after a flush.
After(a) == IF a \in Timers THEN "check" ELSE "idle"
Gone(a) ==
    /\ call' = [call EXCEPT ![a] = None]
    /\ ref' = [ref EXCEPT ![a] = 0]

\* Bug: a flush that raises ends the timer's thread.
FailsForGood(a) ==
    /\ phase' = [phase EXCEPT ![a] = IF a \in Timers THEN "off" ELSE "idle"]
    /\ Gone(a)
    /\ UNCHANGED <<enabled, current, broken, emitted>>

\* The call raises, or the timer ignores it.
Fails(a) ==
    /\ phase' = [phase EXCEPT ![a] = After(a)]
    /\ Gone(a)
    /\ UNCHANGED <<enabled, current, broken, emitted>>

Cancels(a) == call[a] \in {"leave", "disable"}

\* The call returns.  Leaving the context, and disabling, cancel the timer,
\* which has no effect on a timer whose thread runs already.
Ends(a) ==
    /\ phase' = [x \in Actors |->
                    IF x = a THEN After(a)
                    ELSE IF Cancels(a) /\ x = current /\ phase[x] = "wait" THEN "off"
                    ELSE phase[x]]
    /\ current' = IF Cancels(a) THEN None ELSE current
    /\ enabled' = (enabled /\ call[a] # "disable")
    /\ emitted' = emitted \union ({call[a]} \intersect Events)
    /\ Gone(a)
    /\ UNCHANGED broken

\* Bug: the buffer is emptied before its events are written.
ClearsFirst(a, l) ==
    \/ /\ buffer # <<>>
       /\ WriteAll(buffer) /\ Ends(a) /\ buffer' = <<>>
    \/ buffer # <<>> /\ WriteRaises(buffer) /\ Fails(a) /\ buffer' = <<>>
    \/ buffer = <<>> /\ Ends(a) /\ UNCHANGED <<buffer, stores>>

\* _flush_buffer_locked: the events are written one by one; what was there is
\* cleared only then, and a write that raises leaves all of it.
FlushLocked(a, l) ==
    /\ \/ buffer = <<>> /\ Ends(a) /\ UNCHANGED stores
       \/ /\ buffer # <<>> /\ WriteAll(buffer)
          /\ phase' = [phase EXCEPT ![a] = "wrote"]
          /\ ref' = [ref EXCEPT ![a] = l]
          /\ UNCHANGED <<enabled, call, current, broken, emitted>>
       \/ buffer # <<>> /\ WriteRaises(buffer) /\ Fails(a)
    /\ UNCHANGED buffer

Clear(a) ==
    /\ phase[a] = "wrote"
    /\ buffer' = <<>>
    /\ Ends(a)
    /\ UNCHANGED <<lock, inside, stale, switches, shaken, stores>>

-----------------------------------------------------------------------------
Begin(a, c) ==
    /\ call' = [call EXCEPT ![a] = c]
    /\ phase' = [phase EXCEPT ![a] = "enter"]
    /\ ref' = [ref EXCEPT ![a] = lock]

\* Bug: the buffer is used without the lock.
Unguarded(a) == ref[a] .. lock

\* A lock that was current since the call began, and that nobody holds.
Free(a) == {l \in ref[a] .. lock : \A b \in Holding : ref[b] # l}

\* emit reads whether buffering is enabled.
Emit(t, e) ==
    /\ Ready(t) /\ New(e)
    /\ enabled
    /\ Begin(t, e)
    /\ UNCHANGED <<enabled, buffer, lock, inside, stale, switches, emitted, shaken,
                   stores, timing>>

\* Without buffering the thread writes the event by itself.
Direct(t, e) ==
    /\ Ready(t) /\ New(e)
    /\ ~enabled
    /\ \/ WriteAll(<<e>>) /\ emitted' = emitted \union {e}
       \/ WriteRaises(<<e>>) /\ UNCHANGED emitted
    /\ UNCHANGED <<enabled, buffer, lock, phase, call, ref, inside, stale, switches,
                   shaken, timing>>

\* A reset is under way, or somebody has a lock from before it.
Unsettled == Resetting # {} \/ \E a \in Engaged : ref[a] < lock

\* Then, under the lock, the event is added, ...
Add(t) ==
    /\ phase[t] = "enter" /\ call[t] \in Events
    /\ \E l \in Free(t) : ref' = [ref EXCEPT ![t] = l]
    /\ buffer' = Append(buffer, call[t])
    /\ shaken' = IF Unsettled THEN shaken \union {call[t]} ELSE shaken
    /\ phase' = [phase EXCEPT ![t] = "added"]
    /\ UNCHANGED <<enabled, lock, call, inside, stale, switches, emitted,
                   stores, timing>>

\* Bug: the buffer is flushed when it is more than full.
FlushesLate(t) == Len(buffer) > BufferSize \/ call[t] \in Critical
\* Bug: a critical event waits for a full buffer.
FlushesFull(t) == Len(buffer) >= BufferSize

MustFlush(t) == Len(buffer) >= BufferSize \/ call[t] \in Critical

\* ... and what must be is flushed.
Added(t) ==
    /\ phase[t] = "added"
    /\ IF MustFlush(t) THEN FlushLocked(t, ref[t])
       ELSE Ends(t) /\ UNCHANGED <<buffer, stores>>
    /\ UNCHANGED <<lock, inside, stale, switches, shaken>>

\* flush, by itself or before the events are read.
Flush(t) ==
    /\ Ready(t) /\ enabled
    /\ Begin(t, "flush")
    /\ UNCHANGED <<enabled, buffer, lock, inside, stale, switches, emitted, shaken,
                   stores, timing>>

\* A flush of a thread's or a timer's gets the lock.
FlushBegins(a) ==
    /\ phase[a] = "enter" /\ call[a] \notin Events
    /\ \E l \in Free(a) : FlushLocked(a, l)
    /\ UNCHANGED <<lock, inside, stale, switches, shaken>>

-----------------------------------------------------------------------------
(* The timer: a thread that flushes once and starts its successor.         *)
Moves(i, p, q) ==
    /\ phase[i] = p /\ phase' = [phase EXCEPT ![i] = q]
    /\ UNCHANGED <<enabled, buffer, lock, call, inside, stale, switches, emitted,
                   shaken, stores>>

Fire(i) ==
    /\ Moves(i, "wait", IF enabled THEN "enter" ELSE "check")
    /\ ref' = [ref EXCEPT ![i] = IF enabled THEN lock ELSE @]
    /\ UNCHANGED timing

\* Whether buffering is still enabled is read without the lock.
TimerCheck(i) ==
    /\ Moves(i, "check", IF enabled THEN "start" ELSE "off")
    /\ UNCHANGED <<ref, timing>>

\* The successor, which has the name again.  If it cannot be started, the
\* chain ends.
TimerStart(i) ==
    \/ Moves(i, "start", "wait") /\ current' = i /\ UNCHANGED <<ref, broken>>
    \/ Moves(i, "start", "off") /\ current' = None /\ broken' = TRUE /\ UNCHANGED ref

\* A thread starts a timer, or cannot; the object is kept as the timer anyway.
StartTimer(t) ==
    /\ \/ /\ phase' = [phase EXCEPT ![t] = "idle", ![NewTimer] = "wait"]
          /\ UNCHANGED broken
       \/ phase' = [phase EXCEPT ![t] = "idle"] /\ broken' = TRUE
    /\ current' = NewTimer

-----------------------------------------------------------------------------
\* The context is left: what is buffered is written, and the timer cancelled.
Leave(t) ==
    /\ Ready(t) /\ inside
    /\ inside' = FALSE
    /\ IF enabled THEN Begin(t, "leave") /\ UNCHANGED current
       ELSE /\ phase' = [a \in Actors |-> IF a = current /\ phase[a] = "wait" THEN "off"
                                         ELSE phase[a]]
            /\ current' = None
            /\ UNCHANGED <<call, ref>>
    /\ UNCHANGED <<enabled, buffer, lock, stale, switches, emitted, shaken, stores,
                   broken>>

DisableBuffering(t) ==
    /\ Ready(t) /\ switches < MaxSwitches
    /\ switches' = switches + 1
    /\ Begin(t, "disable")
    /\ UNCHANGED <<enabled, buffer, lock, inside, stale, emitted, shaken, stores,
                   timing>>

EnableBuffering(t) ==
    /\ Ready(t) /\ switches < MaxSwitches /\ \A b \in Holding : ref[b] # lock
    /\ switches' = switches + 1
    /\ enabled' = TRUE
    /\ IF current = None THEN StartTimer(t) ELSE UNCHANGED <<phase, timing>>
    /\ UNCHANGED <<buffer, lock, call, ref, inside, stale, emitted, shaken, stores>>

-----------------------------------------------------------------------------
\* The process forks: in the child there is one thread, no timer and no event,
\* for those in the buffer are the parent's to write.
Fork(t) ==
    /\ phase[t] = "idle"
    /\ phase' = [a \in Actors |-> IF a \in Timers THEN "off" ELSE "idle"]
    /\ call' = [a \in Actors |-> None] /\ ref' = [a \in Actors |-> 0]
    /\ current' = None
    /\ buffer' = <<>> /\ lock' = 0
    /\ written' = {} /\ twice' = {} /\ emitted' = {} /\ shaken' = {}
    /\ raised' = FALSE /\ broken' = FALSE
    /\ stale' = TRUE
    /\ UNCHANGED <<enabled, inside, failures, switches>>

\* The first calls in the child set the recorder up again: each that finds the
\* flag set clears it, ...
Reset(t) ==
    /\ phase[t] = "idle" /\ stale
    /\ phase' = [phase EXCEPT ![t] = "tested"]
    /\ UNCHANGED <<enabled, buffer, lock, call, ref, inside, stale, switches, emitted,
                   shaken, stores, timing>>

ClearFlag(t) ==
    /\ phase[t] = "tested"
    /\ phase' = [phase EXCEPT ![t] = "cleared"]
    /\ stale' = FALSE
    /\ UNCHANGED <<enabled, buffer, lock, call, ref, inside, switches, emitted,
                   shaken, stores, timing>>

\* ... puts a new list in the place of the buffer, unless the log file cannot
\* be set up, ...
SwapBuffer(t) ==
    /\ phase[t] = "cleared"
    /\ \/ /\ phase' = [phase EXCEPT ![t] = "swapped"]
          /\ buffer' = <<>>
          /\ UNCHANGED broken
       \/ /\ phase' = [phase EXCEPT ![t] = "idle"]
          /\ broken' = TRUE
          /\ UNCHANGED buffer
    /\ UNCHANGED <<enabled, lock, call, ref, inside, stale, switches, emitted,
                   shaken, stores, current>>

\* ... and a new lock in the place of the old, and starts a timer.
SwapLock(t) ==
    /\ phase[t] = "swapped"
    /\ lock' = lock + 1
    /\ IF enabled THEN StartTimer(t)
       ELSE phase' = [phase EXCEPT ![t] = "idle"] /\ UNCHANGED timing
    /\ UNCHANGED <<enabled, buffer, call, ref, inside, stale, switches, emitted,
                   shaken, stores>>

-----------------------------------------------------------------------------
Thread(t) ==
    \/ \E e \in Events : Emit(t, e) \/ Direct(t, e)
    \/ Add(t) \/ Added(t) \/ Flush(t)
    \/ Leave(t) \/ DisableBuffering(t) \/ EnableBuffering(t)
    \/ Fork(t) \/ Reset(t) \/ ClearFlag(t) \/ SwapBuffer(t) \/ SwapLock(t)

Timer(i) == Fire(i) \/ TimerCheck(i) \/ TimerStart(i)

Next ==
    \/ \E t \in Threads : Thread(t)
    \/ \E i \in Timers : Timer(i)
    \/ \E a \in Actors : FlushBegins(a) \/ Clear(a)

Spec == Init /\ [][Next]_vars

\* Threads that run are scheduled, and one that waits for a lock gets it if it
\* is free again and again; nobody has to call the recorder.
FairSpec ==
    /\ Spec
    /\ \A t \in Threads :
          WF_vars(Added(t) \/ Clear(t) \/ ClearFlag(t) \/ SwapBuffer(t) \/ SwapLock(t))
    /\ \A i \in Timers :
          WF_vars(Timer(i) \/ Clear(i)) /\ SF_vars(FlushBegins(i))

-----------------------------------------------------------------------------
(* An event whose emit returned is written or is still in the buffer, and  *)
(* none is written twice unless a write has raised and left the buffer as  *)
(* it was: whoever flushes, switches, leaves or forks meanwhile.  The      *)
(* events that are added while the first calls in a child replace the      *)
(* buffer and its lock, or by or beside a call from before that, are not   *)
(* covered: the code loses them.                                           *)
Accounted ==
    /\ emitted \ shaken \subseteq Pending \union written
    /\ ~raised => twice \subseteq shaken

(* An error whose emit returned is written, with the same exception:       *)
(* nothing that ends the process afterwards can lose it.                   *)
CriticalIsWritten == (Critical \intersect emitted) \ shaken \subseteq written

\* A faulty event is in the buffer, at e's place or before it.
Behind(e) == \E i, j \in DOMAIN buffer : i <= j /\ buffer[i] \in Faulty /\ buffer[j] = e

(* While buffering is on, the context not left and nobody switches it, an  *)
(* event does not stay in the buffer unwritten, unless its write or the    *)
(* write of one before it raises every time: the chain of timers is broken *)
(* neither by a flush that raises nor by a fork, but only if a thread      *)
(* cannot be started, or the child's log file not be set up.               *)
WrittenInTime ==
    \A e \in Events :
        e \in Pending /\ enabled ~>
            \/ e \in written \/ e \notin Pending \/ Behind(e)
            \/ ~inside \/ switches > 0 \/ broken

(* disable_buffering "ensures all buffered events are written before       *)
(* switching back to immediate mode" and is a "Thread-safe operation".     *)
NothingStranded == ~enabled => buffer = <<>>
==============================================================================
