------------------------------ MODULE Shutdown ------------------------------
(***************************************************************************)
(* Graceful shutdown of the applications of one process (shutdown.py): the *)
(* registration of their shutdown events under a lock, the two kinds of    *)
(* signal handler that it installs one over the other, signals, and the    *)
(* clean-up callbacks with their timeout.                                  *)
(*                                                                         *)
(* Python runs a signal handler in the main thread, between two steps of   *)
(* whatever runs there, a handler included; an application may also start  *)
(* in a thread of its own (a test client's), where signal.signal raises.   *)
(* SIGTERM and SIGINT are one signal here: between the two calls that set  *)
(* their handlers, each finds the handler from before or from after them.  *)
(* The server, which decides when a lifespan ends, is external, and so is  *)
(* the end of an application that only registers itself.  A synchronous    *)
(* callback returns or raises; an asynchronous one may also wait forever,  *)
(* but ends when it is cancelled, since wait_for waits for that.           *)
(***************************************************************************)
EXTENDS Integers

CONSTANTS
    MainApps,    \* the applications served by the main thread
    ThreadApps,  \* those served by a thread of their own
    Alone,       \* those that call register_app_shutdown and nothing else
    Callbacks,   \* the number of clean-up callbacks of each
    MaxSignals,  \* bound on the signals sent
    Global,      \* _global_signal_handler, as a handler and as the lock's holder
    Nobody       \* no handler; the lock is free

Apps == MainApps \cup ThreadApps

ASSUME ConfigAssumption ==
    /\ MainApps \cap ThreadApps = {} /\ Alone \subseteq Apps
    /\ Callbacks \in Nat /\ MaxSignals \in Nat
    /\ Global # Nobody /\ {Global, Nobody} \cap Apps = {}

VARIABLES
    handler,    \* the handler of SIGTERM and SIGINT: Global, or an application's own
    installed,  \* _signal_handlers_installed
    registry,   \* _shutdown_registry: the applications whose events are in it
    lock,       \* _registry_lock: the application that holds it, or Global
    waiting,    \* the calls of Global in the main thread that wait for the lock
    nested,     \* whether one of them began in the call that holds the lock
    signals,    \* how many signals have been sent
    event,      \* the applications whose shutdown event is set
    pc,         \* where each application's lifespan is
    left,       \* how many of its callbacks have not ended
    awaiting    \* the applications that await a callback

vars == <<handler, installed, registry, lock, waiting, nested, signals, event, pc, left,
          awaiting>>

Steps == {"new", "install", "append", "legacy", "up", "cleanup", "ended"}

TypeOK ==
    /\ handler \in MainApps \cup {Global, Nobody}
    /\ installed \in BOOLEAN
    /\ registry \subseteq Apps
    /\ lock \in Apps \cup {Global, Nobody}
    /\ signals \in 0 .. MaxSignals
    /\ waiting \in 0 .. signals
    /\ nested \in BOOLEAN
    /\ event \subseteq Apps
    /\ pc \in [Apps -> Steps]
    /\ left \in [Apps -> 0 .. Callbacks]
    /\ awaiting \subseteq Apps

Init ==
    /\ handler = Nobody
    /\ installed = FALSE
    /\ registry = {}
    /\ lock = Nobody
    /\ waiting = 0
    /\ nested = FALSE
    /\ signals = 0
    /\ event = {}
    /\ pc = [a \in Apps |-> "new"]
    /\ left = [a \in Apps |-> Callbacks]
    /\ awaiting = {}

Goto(a, step) == pc' = [pc EXCEPT ![a] = step]

\* The signals' variables that a step of an application leaves alone.
calls == <<waiting, nested, signals>>

\* a's thread is a's to run: in the main thread a start-up is not left for
\* another application, and a handler that has begun comes first.
Runs(a) ==
    a \in MainApps =>
       /\ waiting = 0 /\ lock # Global
       /\ \A b \in MainApps \ {a} : pc[b] \notin {"install", "append", "legacy"}

-----------------------------------------------------------------------------
(* Starting: register_app_shutdown, then _register_signal_handlers. *)

\* What follows register_app_shutdown.
AfterRegister(a) == IF a \in Alone THEN "up" ELSE "legacy"

Lock(a) ==
    /\ pc[a] = "new" /\ Runs(a)
    /\ lock = Nobody
    /\ lock' = a
    /\ Goto(a, "install")
    /\ UNCHANGED <<handler, installed, registry, calls, event, left, awaiting>>

\* Bug: every application installs the handler again.
InstallAgain(a) ==
    /\ pc[a] = "install" /\ Runs(a)
    /\ IF a \in MainApps
       THEN handler' = Global /\ installed' = TRUE /\ Goto(a, "append") /\ UNCHANGED lock
       ELSE lock' = Nobody /\ Goto(a, AfterRegister(a)) /\ UNCHANGED <<handler, installed>>
    /\ UNCHANGED <<registry, calls, event, left, awaiting>>

\* Bug: the lock is held for the installation only.
InstallUnlocks(a) ==
    /\ pc[a] = "install" /\ Runs(a)
    /\ IF installed \/ a \in MainApps
       THEN /\ handler' = IF installed THEN handler ELSE Global
            /\ installed' = TRUE
            /\ Goto(a, "append")
       ELSE Goto(a, AfterRegister(a)) /\ UNCHANGED <<handler, installed>>
    /\ lock' = Nobody
    /\ UNCHANGED <<registry, calls, event, left, awaiting>>

\* The first application installs the handler; in another thread it cannot,
\* and its event stays out of the registry.
Install(a) ==
    /\ pc[a] = "install" /\ Runs(a)
    /\ \/ /\ installed
          /\ Goto(a, "append")
          /\ UNCHANGED <<handler, installed, lock>>
       \/ /\ ~installed /\ a \in MainApps
          /\ handler' = Global
          /\ installed' = TRUE
          /\ Goto(a, "append")
          /\ UNCHANGED lock
       \/ /\ ~installed /\ a \in ThreadApps
          /\ lock' = Nobody
          /\ Goto(a, AfterRegister(a))
          /\ UNCHANGED <<handler, installed>>
    /\ UNCHANGED <<registry, calls, event, left, awaiting>>

Append(a) ==
    /\ pc[a] = "append" /\ Runs(a)
    /\ registry' = registry \cup {a}
    /\ lock' = Nobody
    /\ Goto(a, AfterRegister(a))
    /\ UNCHANGED <<handler, installed, calls, event, left, awaiting>>

\* The application's own handler takes the place of the one for all.
RegisterSignalHandlers(a) ==
    /\ pc[a] = "legacy" /\ Runs(a)
    /\ handler' = IF a \in MainApps THEN a ELSE handler
    /\ Goto(a, "up")
    /\ UNCHANGED <<installed, registry, lock, calls, event, left, awaiting>>

-----------------------------------------------------------------------------
(* Signals. *)

\* A signal (before there is a handler of ours it is the server's or the
\* system's affair): an application's handler sets its event; the global one
\* asks for the lock, which the main thread may hold, in a registration or in
\* the handler's call for a signal before.
Signal ==
    /\ handler # Nobody
    /\ signals < MaxSignals
    /\ signals' = signals + 1
    /\ \/ /\ handler = Global
          /\ waiting' = waiting + 1
          /\ nested' = (lock = Global)
          /\ UNCHANGED event
       \/ /\ handler # Global
          /\ event' = event \cup {handler}
          /\ UNCHANGED <<waiting, nested>>
    /\ UNCHANGED <<handler, installed, registry, lock, pc, left, awaiting>>

\* The last call that waits has the lock.
HandlerLocks ==
    /\ waiting > 0 /\ lock = Nobody
    /\ lock' = Global
    /\ waiting' = waiting - 1
    /\ UNCHANGED <<handler, installed, registry, nested, signals, event, pc, left, awaiting>>

\* It sets the events of the registry, which are set or not set before.
Notify ==
    /\ lock = Global /\ ~nested
    /\ \E a \in registry \ event : event' = event \cup {a}
    /\ UNCHANGED <<handler, installed, registry, lock, calls, pc, left, awaiting>>

HandlerUnlocks ==
    /\ lock = Global /\ ~nested
    /\ registry \subseteq event
    /\ lock' = Nobody
    /\ UNCHANGED <<handler, installed, registry, calls, event, pc, left, awaiting>>

-----------------------------------------------------------------------------
(* Ending: the clean-up callbacks, one after the other, under wait_for. *)

\* The server ends the lifespan.
Stop(a) ==
    /\ pc[a] = "up" /\ a \notin Alone /\ Runs(a)
    /\ Goto(a, "cleanup")
    /\ UNCHANGED <<handler, installed, registry, lock, calls, event, left, awaiting>>

\* Bug: a callback that raises is called again.
CallbackAgain(a) ==
    /\ pc[a] = "cleanup" /\ Runs(a)
    /\ left[a] > 0 /\ a \notin awaiting
    /\ left' = [left EXCEPT ![a] = IF @ = Callbacks THEN @ - 1 ELSE @ + 1]
    /\ UNCHANGED <<handler, installed, registry, lock, calls, event, pc, awaiting>>

\* A callback returns at once, or raises, which is logged; or it awaits.
Callback(a) ==
    /\ pc[a] = "cleanup" /\ Runs(a)
    /\ left[a] > 0 /\ a \notin awaiting
    /\ \/ left' = [left EXCEPT ![a] = @ - 1] /\ UNCHANGED awaiting
       \/ awaiting' = awaiting \cup {a} /\ UNCHANGED left
    /\ UNCHANGED <<handler, installed, registry, lock, calls, event, pc>>

\* What it awaits happens.
Resume(a) ==
    /\ a \in awaiting /\ Runs(a)
    /\ awaiting' = awaiting \ {a}
    /\ left' = [left EXCEPT ![a] = @ - 1]
    /\ UNCHANGED <<handler, installed, registry, lock, calls, event, pc>>

\* The timeout ends the clean-up; the callbacks that are left have no turn.
Timeout(a) ==
    /\ a \in awaiting /\ Runs(a)
    /\ awaiting' = awaiting \ {a}
    /\ Goto(a, "ended")
    /\ UNCHANGED <<handler, installed, registry, lock, calls, event, left>>

End(a) ==
    /\ pc[a] = "cleanup" /\ Runs(a)
    /\ left[a] = 0
    /\ Goto(a, "ended")
    /\ UNCHANGED <<handler, installed, registry, lock, calls, event, left, awaiting>>

-----------------------------------------------------------------------------
\* What a's thread does of itself, and what the clock does.
Progress(a) ==
    \/ Lock(a) \/ Install(a) \/ Append(a) \/ RegisterSignalHandlers(a)
    \/ Callback(a) \/ Timeout(a) \/ End(a)

Handle == HandlerLocks \/ Notify \/ HandlerUnlocks

Next ==
    \/ \E a \in Apps : Progress(a) \/ Stop(a) \/ Resume(a)
    \/ Signal \/ Handle

Spec == Init /\ [][Next]_vars

\* Threads run and clocks advance; servers need not end a lifespan, signals
\* need not come, and what a callback awaits need not happen.
FairSpec == Spec /\ WF_vars(Handle) /\ \A a \in Apps : WF_vars(Progress(a))

-----------------------------------------------------------------------------
\* No call of the global handler is under way.
Handled == waiting = 0 /\ lock # Global

\* A signal that some handler has taken has told some application: none falls
\* between the handler's installation and the registration of its first event.
NoSignalSwallowed == signals > 0 /\ Handled => event # {}

\* The main thread waits in the handler for a lock of its own.
Wedged == nested \/ (waiting > 0 /\ lock \in MainApps)

\* The lock is not re-entrant, and the handler takes it in the thread that may
\* hold it, in a registration or in the handler itself.  That can wedge the
\* process until the first lifespan of the main thread is up, and never again:
\* from then on the handler is an application's, which takes no lock.
WedgedOnlyBeforeUp ==
    Wedged => \A a \in MainApps \ Alone : pc[a] \in {"new", "install", "append", "legacy"}

\* A clean-up ends, whatever its callbacks wait for and whichever signals come.
CleanupEnds == \A a \in Apps : pc[a] = "cleanup" ~> pc[a] = "ended"
=============================================================================
