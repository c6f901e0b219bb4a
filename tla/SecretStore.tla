----------------------------- MODULE SecretStore -----------------------------
(***************************************************************************)
(* The Vault secret store with its read-through cache:                     *)
(* secret_store/core.py, VaultSecretStore.                                 *)
(*                                                                         *)
(* Tasks are asyncio tasks of one process inside get_secret, rotate_secret *)
(* or clear_cache.  Each of them runs under _lock, an asyncio.Lock, which  *)
(* is first come first served: the tasks that wait for it and the one that *)
(* holds it are a queue whose head is the holder.  The holder of a cache   *)
(* miss keeps the lock across its Vault round trips.  _login_lock is only  *)
(* ever taken under _lock, so nobody waits for it.                         *)
(***************************************************************************)
EXTENDS Naturals, SequencesExt

CONSTANTS
    Tasks,        \* asyncio tasks
    Names,        \* names of secrets
    TTL,          \* cache_ttl_seconds, in ticks
    Timeout,      \* http_timeout_seconds, in ticks
    MaxVersion    \* bound of the model: versions of a secret

ASSUME ConfigAssumption ==
    /\ TTL \in Nat \ {0}
    /\ Timeout \in Nat
    /\ MaxVersion \in Nat \ {0}

VARIABLES
    vault,      \* version of each secret in Vault
    tokenOk,    \* Vault accepts the client's token
    loggedIn,   \* _logged_in
    cache,      \* _cache: version, ticks to live, and how long it is superseded
    queue,      \* tasks at _lock, its holder first
    op,         \* what each task is calling
    name,       \* the secret it is calling it for
    phase,      \* where the holder of _lock is
    got,        \* what the holder has read: version, age, how long it is superseded
    floor       \* history: version of each secret when it was last evicted

vars == <<vault, tokenOk, loggedIn, cache, queue, op, name, phase, got, floor>>

Versions == 1 .. MaxVersion
Phases == {"enter", "login", "read", "fill"}

\* An entry without ticks to live is expired or absent: both are a miss.
Absent == [version |-> 1, left |-> 0, old |-> 0]
Unread == [version |-> 1, age |-> 0, old |-> 0]

TypeOK ==
    /\ vault \in [Names -> Versions]
    /\ tokenOk \in BOOLEAN /\ loggedIn \in BOOLEAN
    /\ cache \in [Names -> [version : Versions, left : 0 .. TTL, old : Nat]]
    /\ queue \in Seq(Tasks)
    /\ op \in [Tasks -> {"idle", "get", "rotate", "clear"}]
    /\ name \in [Tasks -> Names]
    /\ phase \in Phases
    /\ got \in [version : Versions, age : 0 .. Timeout, old : Nat]
    /\ floor \in [Names -> Versions]

Init ==
    /\ vault = [n \in Names |-> 1]
    /\ tokenOk = FALSE /\ loggedIn = FALSE
    /\ cache = [n \in Names |-> Absent]
    /\ queue = <<>>
    /\ op = [t \in Tasks |-> "idle"]
    /\ name \in [Tasks -> Names]
    /\ phase = "enter"
    /\ got = Unread
    /\ floor = [n \in Names |-> 1]

-----------------------------------------------------------------------------
Holds(t) == queue # <<>> /\ Head(queue) = t
At(t, o, p) == Holds(t) /\ op[t] = o /\ phase = p

\* The holder's call returns or raises, and _lock passes to the next task.
Release(t) ==
    /\ queue' = Tail(queue)
    /\ op' = [op EXCEPT ![t] = "idle"]
    /\ phase' = "enter"
    /\ got' = Unread
    /\ UNCHANGED name

\* A task leaves the queue wherever it is.
Leave(t) == \E i \in DOMAIN queue : queue[i] = t /\ queue' = RemoveAt(queue, i)

Move(p) == phase' = p /\ UNCHANGED <<queue, op, name>>

\* A task calls get_secret, rotate_secret or clear_cache.
Call(t, o, n) ==
    /\ op[t] = "idle"
    /\ op' = [op EXCEPT ![t] = o]
    /\ name' = [name EXCEPT ![t] = n]
    /\ queue' = Append(queue, t)
    /\ UNCHANGED <<vault, tokenOk, loggedIn, cache, phase, got, floor>>

Live(n) == cache[n].left > 0

\* Bug: a hit renews the entry.
HitRenews(t) ==
    /\ At(t, "get", "enter")
    /\ Live(name[t])
    /\ Release(t)
    /\ cache' = [cache EXCEPT ![name[t]].left = TTL]
    /\ UNCHANGED <<vault, tokenOk, loggedIn, floor>>

Hit(t) ==
    /\ At(t, "get", "enter")
    /\ Live(name[t])
    /\ Release(t)
    /\ UNCHANGED <<vault, tokenOk, loggedIn, cache, floor>>

Miss(t) ==
    /\ At(t, "get", "enter")
    /\ ~Live(name[t])
    /\ Move(IF loggedIn THEN "read" ELSE "login")
    /\ UNCHANGED <<vault, tokenOk, loggedIn, cache, got, floor>>

\* _login: the AppRole login, in a thread.
Login(t) ==
    /\ At(t, "get", "login")
    /\ loggedIn' = TRUE
    /\ tokenOk' = TRUE
    /\ Move("read")
    /\ UNCHANGED <<vault, cache, got, floor>>

\* Bug: a login that raises does not release _lock.
LoginFailsHeld(t) ==
    /\ At(t, "get", "login")
    /\ op' = [op EXCEPT ![t] = "idle"]
    /\ UNCHANGED <<vault, tokenOk, loggedIn, cache, queue, name, phase, got, floor>>

\* Rejected, sealed or unreachable: the call raises, nothing is remembered.
LoginFails(t) ==
    /\ At(t, "get", "login")
    /\ Release(t)
    /\ UNCHANGED <<vault, tokenOk, loggedIn, cache, floor>>

\* Vault answers the read; the answer still has to reach the task.
Read(t) ==
    /\ At(t, "get", "read")
    /\ tokenOk
    /\ got' = [version |-> vault[name[t]], age |-> 0, old |-> 0]
    /\ Move("fill")
    /\ UNCHANGED <<vault, tokenOk, loggedIn, cache, floor>>

\* Unauthorized or Forbidden: the next call logs in again.
ReadRejected(t) ==
    /\ At(t, "get", "read")
    /\ loggedIn' = FALSE
    /\ Release(t)
    /\ UNCHANGED <<vault, tokenOk, cache, floor>>

\* The secret is missing, Vault is down, or the answer does not arrive.
ReadFails(t) ==
    /\ At(t, "get", "read") \/ At(t, "get", "fill")
    /\ Release(t)
    /\ UNCHANGED <<vault, tokenOk, loggedIn, cache, floor>>

\* The answer arrives: the entry is inserted and lives TTL ticks from now.
Fill(t) ==
    /\ At(t, "get", "fill")
    /\ cache' = [cache EXCEPT ![name[t]] =
                    [version |-> got.version, left |-> TTL, old |-> got.old]]
    /\ Release(t)
    /\ UNCHANGED <<vault, tokenOk, loggedIn, floor>>

Evict(names) ==
    /\ cache' = [n \in Names |-> IF n \in names THEN Absent ELSE cache[n]]
    /\ floor' = [n \in Names |-> IF n \in names THEN vault[n] ELSE floor[n]]

\* Bug: the entry is evicted without waiting for _lock.
RotateUnlocked(t) ==
    /\ op[t] = "rotate"
    /\ Evict({name[t]})
    /\ op' = [op EXCEPT ![t] = "idle"]
    /\ Leave(t)
    /\ UNCHANGED <<vault, tokenOk, loggedIn, name, phase, got>>

Rotate(t) ==
    /\ At(t, "rotate", "enter")
    /\ Evict({name[t]})
    /\ Release(t)
    /\ UNCHANGED <<vault, tokenOk, loggedIn>>

ClearCache(t) ==
    /\ At(t, "clear", "enter")
    /\ Evict(Names)
    /\ Release(t)
    /\ UNCHANGED <<vault, tokenOk, loggedIn>>

\* A task is cancelled at an await: waiting for _lock, or for Vault.  The
\* thread it leaves behind finishes: a login may still give the client a token.
Cancel(t) ==
    /\ op[t] # "idle"
    /\ op' = [op EXCEPT ![t] = "idle"]
    /\ Leave(t)
    /\ IF Holds(t) THEN phase' = "enter" /\ got' = Unread
                   ELSE UNCHANGED <<phase, got>>
    /\ tokenOk' \in IF At(t, "get", "login") THEN {tokenOk, TRUE} ELSE {tokenOk}
    /\ UNCHANGED <<vault, loggedIn, cache, name, floor>>

-----------------------------------------------------------------------------
\* Vault's side: an operator or a CI job writes a new version.
Write(n) ==
    /\ vault[n] < MaxVersion
    /\ vault' = [vault EXCEPT ![n] = @ + 1]
    /\ UNCHANGED <<tokenOk, loggedIn, cache, queue, op, name, phase, got, floor>>

TokenExpires ==
    /\ tokenOk
    /\ tokenOk' = FALSE
    /\ UNCHANGED <<vault, loggedIn, cache, queue, op, name, phase, got, floor>>

\* Bug: the client waits for an answer without a timeout.
TickUnbounded ==
    /\ got' = IF phase = "fill" THEN [got EXCEPT !.age = @ + 1] ELSE got
    /\ UNCHANGED <<vault, tokenOk, loggedIn, cache, queue, op, name, phase, floor>>

\* Time passes; the HTTP timeout bounds the wait for an answer.
Tick ==
    /\ phase = "fill" => got.age < Timeout
    /\ cache' = [n \in Names |->
                   IF cache[n].left <= 1 THEN Absent
                   ELSE [cache[n] EXCEPT
                           !.left = @ - 1,
                           !.old = IF cache[n].version < vault[n] THEN @ + 1 ELSE 0]]
    /\ IF phase = "fill"
       THEN got' = [got EXCEPT
                      !.age = @ + 1,
                      !.old = IF got.version < vault[name[Head(queue)]] THEN @ + 1 ELSE 0]
       ELSE UNCHANGED got
    /\ UNCHANGED <<vault, tokenOk, loggedIn, queue, op, name, phase, floor>>

-----------------------------------------------------------------------------
Proceed(t) ==
    \/ Hit(t) \/ Miss(t) \/ Login(t) \/ LoginFails(t)
    \/ Read(t) \/ ReadRejected(t) \/ ReadFails(t) \/ Fill(t)
    \/ Rotate(t) \/ ClearCache(t)

Next ==
    \/ \E t \in Tasks : \/ \E o \in {"get", "rotate", "clear"}, n \in Names : Call(t, o, n)
                        \/ Proceed(t) \/ Cancel(t)
    \/ \E n \in Names : Write(n)
    \/ TokenExpires
    \/ Tick

Spec == Init /\ [][Next]_vars

\* The event loop runs every task that can run, and Vault calls have timeouts.
FairSpec == Spec /\ \A t \in Tasks : WF_vars(Proceed(t))

-----------------------------------------------------------------------------
\* The comment in get_secret: without the lock across the round trip "an
\* in-flight reader carrying V1 could write V1 back into the cache AFTER
\* rotate_secret had popped the entry".  No entry that can be hit, and no
\* answer on its way into the cache, is older than the secret was when it was
\* last evicted.
NoStaleFill ==
    /\ \A n \in Names : Live(n) => cache[n].version >= floor[n]
    /\ phase = "fill" => got.version >= floor[name[Head(queue)]]

\* A hit never returns a value that was replaced in Vault more than the time
\* to live plus one request before: hits do not renew an entry.
BoundedStaleness ==
    \A n \in Names : Live(n) => cache[n].old <= (TTL - cache[n].left) + Timeout

\* Why they hold: only a get is ever past the entry, and it holds _lock; an
\* answer on its way cannot be superseded for longer than it is old.
HolderInv == phase # "enter" => queue # <<>> /\ op[Head(queue)] = "get"
AnswerInv == phase = "fill" => got.old <= got.age
FloorInv == \A n \in Names : floor[n] <= vault[n]

CacheInv == HolderInv /\ AnswerInv /\ FloorInv /\ NoStaleFill /\ BoundedStaleness

\* Every call ends, however often the calls before it fail: nobody is left
\* waiting for _lock.
CallsEnd == \A t \in Tasks : op[t] # "idle" ~> op[t] = "idle"
=============================================================================
