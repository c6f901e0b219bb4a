----------------------------- MODULE GraphClient -----------------------------
(***************************************************************************)
(* The roles of Azure users, asked of Microsoft Graph: AzureADDecoder's    *)
(* table of clients, one per tenant, and what GraphAPIClient does for a    *)
(* request: the access token, which the clients share through a store, and *)
(* the loop of attempts around it.                                         *)
(*                                                                         *)
(* Tasks are asyncio tasks: what is between two awaits is one step.  The   *)
(* table is under _graph_clients_lock, which is kept while an evicted      *)
(* client is closed, whoever still uses it.  A client's token is under the *)
(* client's own _token_lock, so a tenant's evicted client and its          *)
(* successor do not exclude each other.  A lookup that fails ends like one *)
(* that finds no roles: what it has, or nothing, goes to the role cache.   *)
(***************************************************************************)
EXTENDS Naturals, Sequences, FiniteSets

Sequence == INSTANCE SequencesExt

CONSTANTS
    Tasks,        \* asyncio tasks that decode a token, or close the decoder
    Tenants,
    Clients,      \* names for GraphAPIClient objects, used again when free
    None,         \* nobody, or no client
    MaxClients,   \* MAX_GRAPH_CLIENTS
    MaxRetries,   \* _max_retries
    MaxTokens     \* bound of the model: access tokens that are issued

ASSUME GraphAssumption ==
    /\ MaxClients \in Nat \ {0} /\ MaxRetries \in Nat /\ MaxTokens \in Nat
    /\ None \notin Tasks /\ None \notin Clients
    /\ Tenants # {}
    \* A name is free whenever a client is created.
    /\ IsFiniteSet(Tasks) /\ IsFiniteSet(Clients)
    /\ Cardinality(Clients) >= MaxClients + Cardinality(Tasks)

VARIABLES
    table,     \* _graph_clients: tenants and clients, the least recently used first
    open,      \* clients whose connections are open
    lock,      \* the holder of _graph_clients_lock, or None
    tokenLock, \* the holder of each client's _token_lock, or None
    store,     \* the access token stored for each tenant, 0 if there is none
    issued,    \* access tokens issued so far
    task,      \* where each task is, and what it holds
    dropped,   \* history: clients whose closing failed or was cancelled
    cut        \* history: clients of the table that a close, cancelled since, came to

graphVars == <<table, open, lock, tokenLock, store, issued, task, dropped, cut>>

IdleTask == [phase |-> "idle", tenant |-> CHOOSE n \in Tenants : TRUE, client |-> None,
         attempt |-> 0, retried |-> FALSE, token |-> 0, refused |-> 0]
Phases == {"idle", "want", "evict", "token", "get", "post", "set", "send",
           "refuse", "drop", "close"}

\* While the decoder is closed, the clients it has closed are counted there.
Attempts == 0 .. IF MaxRetries > MaxClients THEN MaxRetries ELSE MaxClients

GraphTypeOK ==
    /\ table \in Seq([tenant : Tenants, client : Clients])
    /\ open \subseteq Clients
    /\ lock \in Tasks \union {None}
    /\ tokenLock \in [Clients -> Tasks \union {None}]
    /\ store \in [Tenants -> 0 .. MaxTokens]
    /\ issued \in 0 .. MaxTokens
    /\ task \in [Tasks -> [phase : Phases, tenant : Tenants,
                           client : Clients \union {None},
                           attempt : Attempts, retried : BOOLEAN,
                           token : 0 .. MaxTokens, refused : 0 .. MaxTokens]]
    /\ dropped \subseteq Clients
    /\ cut \subseteq Clients

GraphInit ==
    /\ table = <<>>
    /\ open = {}
    /\ lock = None
    /\ tokenLock = [c \in Clients |-> None]
    /\ store = [n \in Tenants |-> 0]
    /\ issued = 0
    /\ task = [t \in Tasks |-> IdleTask]
    /\ dropped = {}
    /\ cut = {}

At(t, p) == task[t].phase = p
My(t) == task[t].client
Kept == {table[i].client : i \in DOMAIN table}
Go(t, p) == task' = [task EXCEPT ![t].phase = p]
Return(t) == task' = [task EXCEPT ![t] = IdleTask]
TableSame == UNCHANGED <<table, open, lock, dropped, cut>>
TokensSame == UNCHANGED <<tokenLock, store, issued>>

-----------------------------------------------------------------------------
(* The table of clients.                                                   *)

\* A token is decoded, and the user's roles are not cached.
Start(t, n) ==
    /\ At(t, "idle")
    /\ task' = [task EXCEPT ![t].phase = "want", ![t].tenant = n]
    /\ TableSame /\ TokensSame

Free == Clients \ (Kept \union {task[t].client : t \in Tasks})

Known(t) == {i \in DOMAIN table : table[i].tenant = task[t].tenant}

\* A new client enters the table, and the lock is released.
Add(t, opened, lost) ==
    LET c == CHOOSE c \in Free : TRUE IN
    /\ table' = Append(table, [tenant |-> task[t].tenant, client |-> c])
    /\ open' = opened \union {c}
    /\ dropped' = lost \ {c}
    /\ lock' = None
    /\ task' = [task EXCEPT ![t].phase = "token", ![t].client = c]
    /\ UNCHANGED cut /\ TokensSame

\* The tenant's client is moved to the end of the table.
Found(t) ==
    /\ At(t, "want") /\ lock = None
    /\ \E i \in Known(t) :
          /\ table' = Append(Sequence!RemoveAt(table, i), table[i])
          /\ task' = [task EXCEPT ![t].phase = "token", ![t].client = table[i].client]
    /\ UNCHANGED <<open, lock, dropped, cut>> /\ TokensSame

Create(t) ==
    /\ At(t, "want") /\ lock = None
    /\ Known(t) = {} /\ Len(table) < MaxClients
    /\ Add(t, open, dropped)

\* Bug: the lock is not kept while the evicted client is closed.
EvictUnlocked(t) ==
    /\ At(t, "want") /\ lock = None
    /\ Known(t) = {} /\ Len(table) >= MaxClients
    /\ table' = Tail(table)
    /\ task' = [task EXCEPT ![t].phase = "evict", ![t].client = Head(table).client]
    /\ UNCHANGED <<open, lock, dropped, cut>> /\ TokensSame

\* The table is full: its first client is taken out, and is being closed.
Evict(t) ==
    /\ At(t, "want") /\ lock = None
    /\ Known(t) = {} /\ Len(table) >= MaxClients
    /\ table' = Tail(table)
    /\ lock' = t
    /\ task' = [task EXCEPT ![t].phase = "evict", ![t].client = Head(table).client]
    /\ cut' = cut \ {Head(table).client}
    /\ UNCHANGED <<open, dropped>> /\ TokensSame

\* Bug: the evicted client is not closed.
ForgetsToClose(t) ==
    /\ At(t, "evict")
    /\ Add(t, open, dropped)

Closed(t) ==
    /\ At(t, "evict")
    /\ Add(t, open \ {My(t)}, dropped)

\* A client that cannot be closed is logged and dropped.
CloseFails(t) ==
    /\ At(t, "evict")
    /\ Add(t, open, dropped \union (open \intersect {My(t)}))

\* close: under the lock, one client after the other, then the table.
CloseAll(t) ==
    /\ At(t, "idle") /\ lock = None
    /\ lock' = t
    /\ Go(t, "close")
    /\ UNCHANGED <<table, open, dropped, cut>> /\ TokensSame

CloseNext(t) ==
    LET i == task[t].attempt + 1 IN
    /\ At(t, "close") /\ i <= Len(table)
    /\ task' = [task EXCEPT ![t].attempt = i]
    /\ \/ open' = open \ {table[i].client} /\ UNCHANGED dropped
       \/ dropped' = dropped \union (open \intersect {table[i].client}) /\ UNCHANGED open
    /\ UNCHANGED <<table, lock, cut>> /\ TokensSame

CloseEnds(t) ==
    /\ At(t, "close") /\ task[t].attempt = Len(table)
    /\ table' = <<>>
    /\ cut' = {}
    /\ lock' = None
    /\ Return(t)
    /\ UNCHANGED <<open, dropped>> /\ TokensSame

\* close is cancelled while it awaits a client's: this is no Exception, so
\* the lock is released, and the clients it came to are still in the table.
CancelClose(t) ==
    LET i == task[t].attempt + 1 IN
    /\ At(t, "close") /\ i <= Len(table)
    /\ \/ open' = open \ {table[i].client} /\ UNCHANGED dropped
       \/ dropped' = dropped \union (open \intersect {table[i].client}) /\ UNCHANGED open
    /\ cut' = cut \union {table[j].client : j \in 1 .. i}
    /\ lock' = None
    /\ Return(t)
    /\ UNCHANGED table /\ TokensSame

-----------------------------------------------------------------------------
(* A request: attempts, each with a token.                                 *)
TakeLock(t) ==
    /\ tokenLock[My(t)] = None
    /\ tokenLock' = [tokenLock EXCEPT ![My(t)] = t]

Unlocked(t) == [c \in Clients |-> IF tokenLock[c] = t THEN None ELSE tokenLock[c]]
ReleaseLock(t) == tokenLock' = Unlocked(t)

\* An attempt begins, after its backoff: _get_access_token takes the lock.
Attempt(t) ==
    /\ At(t, "token")
    /\ TakeLock(t)
    /\ Go(t, "get")
    /\ UNCHANGED <<store, issued>> /\ TableSame

Stored(t) == store[task[t].tenant]

\* The store has a token that is good for a while, or it has none.
Get(t) ==
    /\ At(t, "get")
    /\ IF Stored(t) # 0
       THEN /\ task' = [task EXCEPT ![t].phase = "send", ![t].token = Stored(t)]
            /\ ReleaseLock(t)
       ELSE Go(t, "post") /\ UNCHANGED tokenLock
    /\ UNCHANGED <<store, issued>> /\ TableSame

\* A new token is acquired with the client's secret.
Login(t) ==
    /\ At(t, "post") /\ My(t) \in open
    /\ issued < MaxTokens
    /\ issued' = issued + 1
    /\ task' = [task EXCEPT ![t].phase = "set", ![t].token = issued']
    /\ UNCHANGED <<tokenLock, store>> /\ TableSame

\* It is stored, unless it is about to expire.
SetToken(t) ==
    /\ At(t, "set")
    /\ store' \in {store, [store EXCEPT ![task[t].tenant] = task[t].token]}
    /\ ReleaseLock(t)
    /\ Go(t, "send")
    /\ UNCHANGED issued /\ TableSame

\* Graph answers: with roles, without, or with an error that is not retried.
Answer(t) ==
    /\ At(t, "send") /\ My(t) \in open
    /\ Return(t)
    /\ TableSame /\ TokensSame

\* The login fails, or the store does, or the client is closed.
Fails(t) ==
    /\ \/ At(t, "get") \/ At(t, "post") \/ At(t, "set")
       \/ At(t, "send") /\ My(t) \notin open
    /\ Return(t)
    /\ ReleaseLock(t)
    /\ UNCHANGED <<store, issued>> /\ TableSame

\* Bug: an attempt that fails is not counted.
AgainUncounted(t) ==
    task' = [task EXCEPT ![t].phase = "token", ![t].token = 0]

\* The next attempt, if there is one left.
Again(t) ==
    task' = IF task[t].attempt < MaxRetries
            THEN [task EXCEPT ![t].phase = "token", ![t].token = 0, ![t].attempt = @ + 1]
            ELSE [task EXCEPT ![t] = IdleTask]

\* 429 with a delay that is not too long, 5xx, a timeout, a lost connection.
Retry(t) ==
    /\ At(t, "send")
    /\ Again(t)
    /\ TableSame /\ TokensSame

\* 401: once in a request, the stored token is deleted for another attempt.
Refused(t) ==
    /\ At(t, "send") /\ My(t) \in open
    /\ IF task[t].retried THEN Return(t)
       ELSE task' = [task EXCEPT ![t].phase = "refuse", ![t].retried = TRUE,
                                 ![t].refused = task[t].token]
    /\ TableSame /\ TokensSame

Refuse(t) ==
    /\ At(t, "refuse")
    /\ TakeLock(t)
    /\ Go(t, "drop")
    /\ UNCHANGED <<store, issued>> /\ TableSame

\* Bug: the stored token is kept.
DropNothing(t) ==
    /\ At(t, "drop")
    /\ ReleaseLock(t)
    /\ Again(t)
    /\ UNCHANGED <<store, issued>> /\ TableSame

\* Whatever token is stored by now is deleted.
Drop(t) ==
    /\ At(t, "drop")
    /\ store' = [store EXCEPT ![task[t].tenant] = 0]
    /\ ReleaseLock(t)
    /\ Again(t)
    /\ UNCHANGED issued /\ TableSame

\* The store fails: the request does, and no roles are found.
DropFails(t) ==
    /\ At(t, "drop")
    /\ ReleaseLock(t)
    /\ Return(t)
    /\ UNCHANGED <<store, issued>> /\ TableSame

\* A lookup is cancelled at an await; what it was closing is not closed.
Cancel(t) ==
    /\ task[t].phase \notin {"idle", "close"}
    /\ Return(t)
    /\ lock' = IF lock = t THEN None ELSE lock
    /\ dropped' = IF At(t, "evict") THEN dropped \union (open \intersect {My(t)}) ELSE dropped
    /\ ReleaseLock(t)
    /\ UNCHANGED <<table, open, store, issued, cut>>

\* A stored token expires, or the store loses it.
Expire(n) ==
    /\ store[n] # 0
    /\ store' = [store EXCEPT ![n] = 0]
    /\ UNCHANGED <<tokenLock, issued, task>> /\ TableSame

-----------------------------------------------------------------------------
Step(t) ==
    \/ Found(t) \/ Create(t) \/ Evict(t) \/ Closed(t) \/ CloseFails(t)
    \/ CloseNext(t) \/ CloseEnds(t)
    \/ Attempt(t) \/ Get(t) \/ Login(t) \/ SetToken(t) \/ Fails(t)
    \/ Answer(t) \/ Retry(t) \/ Refused(t) \/ Refuse(t) \/ Drop(t) \/ DropFails(t)

GraphNext ==
    \/ \E t \in Tasks :
          \/ \E n \in Tenants : Start(t, n)
          \/ CloseAll(t)
          \/ Step(t)
          \/ Cancel(t)
          \/ CancelClose(t)
    \/ \E n \in Tenants : Expire(n)

GraphSpec == GraphInit /\ [][GraphNext]_graphVars

\* An await ends: requests have timeouts.  The locks are first come, first
\* served, so a task gets one that is free again and again.
GraphFairSpec == GraphSpec /\ \A t \in Tasks : SF_graphVars(Step(t))

-----------------------------------------------------------------------------
(* Whoever looks a client up under the lock gets an open one; the table is *)
(* within its bound, and has one client for a tenant: although clients are *)
(* closed and replaced across awaits, while other tasks look them up, and  *)
(* whichever of them is cancelled.  The exception is what the code leaves  *)
(* behind when the decoder's close is cancelled: the clients it came to    *)
(* are closed in the table, until they are evicted or a close ends.        *)
TableIsGood ==
    lock = None =>
        /\ Len(table) <= MaxClients
        /\ Kept \subseteq open \union cut
        /\ \A i, j \in DOMAIN table : table[i].tenant = table[j].tenant => i = j

(* A client with open connections is one that the decoder can still close: *)
(* in the table, or being closed, but for those whose closing failed.      *)
OpenIsKept ==
    open \subseteq Kept \union dropped \union {My(t) : t \in {u \in Tasks : At(u, "evict")}}

(* The token Graph has refused a request is not sent again by its retry,   *)
(* whatever other tasks do with the shared store meanwhile.                *)
RefusedNotResent ==
    \A t \in Tasks : At(t, "send") /\ task[t].retried => task[t].token # task[t].refused

(* Every lookup ends, whatever Graph, the login and the store answer.      *)
LookupsEnd == \A t \in Tasks : task[t].phase # "idle" ~> At(t, "idle")
==============================================================================
