------------------------------ MODULE RoleCache ------------------------------
(***************************************************************************)
(* The roles and permissions of the users of a tenant, kept in the secure  *)
(* cache: RoleEnrichmentStore, _resolve_and_cache_permissions and          *)
(* AuthCacheHelper over SigningCacheWrapper over Redis.                    *)
(*                                                                         *)
(* The names of entries are hashed, so the wrapper keeps an index: for     *)
(* each prefix of a key's name, a key of its own that lives as long as the *)
(* entry.  A set writes the value and then the index, a key at a time; an  *)
(* invalidation by prefix reads the index, deletes the values and then the *)
(* index, a key at a time.  Nothing makes either of them atomic.  Prefixes *)
(* that nobody invalidates need not be among the model's.                  *)
(***************************************************************************)
EXTENDS Naturals, FiniteSets

CONSTANTS
    Users,        \* users, each with one entry
    Prefixes,     \* prefixes that are invalidated: a tenant's, or a user's own
    Under,        \* the users whose keys begin with each prefix
    Requests,     \* requests that look entries up and fill them
    TTL,          \* time to live of an entry, in ticks
    MaxVersion    \* bound of the model: how often a user's roles change

ASSUME ConfigAssumption ==
    /\ Users # {}
    /\ Under \in [Prefixes -> SUBSET Users]
    /\ TTL \in Nat \ {0}
    /\ MaxVersion \in Nat

VARIABLES
    roles,      \* version of each user's roles at the provider
    entry,      \* the cached value of each user: version, ticks to live
    index,      \* ticks to live of the index keys, by prefix and user
    req,        \* the requests: where they are, for whom, and what they fetched
    inv,        \* the invalidation that runs, or ran last
    loose       \* history: users whose entry was set in part, or during an invalidation

vars == <<roles, entry, index, req, inv, loose>>

Versions == 0 .. MaxVersion
Marks == {m \in Prefixes \X Users : m[2] \in Under[m[1]]}
MarksOf(u) == {m \in Marks : m[2] = u}

Gone == [version |-> 0, left |-> 0]
Idle == [phase |-> "idle", user |-> CHOOSE u \in Users : TRUE, got |-> 0, rest |-> {}]
NoInvalidation == [phase |-> "idle", covered |-> {}, marks |-> {}, todo |-> {},
                   best |-> FALSE, since |-> [u \in Users |-> 0]]

Live(u) == entry[u].left > 0
\* Somebody has roles to cache for a user, or is caching them.
Setting(u) == \E r \in Requests : req[r].user = u /\ req[r].phase \in {"store", "index"}
Invalidating == inv.phase \in {"scan", "delete", "unindex"}

TypeOK ==
    /\ roles \in [Users -> Versions]
    /\ entry \in [Users -> [version : Versions, left : 0 .. TTL]]
    /\ index \in [Marks -> 0 .. TTL]
    /\ req \in [Requests -> [phase : {"idle", "fetch", "store", "index"},
                             user : Users, got : Versions, rest : SUBSET Marks]]
    /\ inv \in [phase : {"idle", "scan", "delete", "unindex", "done"},
                covered : SUBSET Users, marks : SUBSET Marks, todo : SUBSET Users,
                best : BOOLEAN, since : [Users -> Versions]]
    /\ loose \subseteq Users

Init ==
    /\ roles = [u \in Users |-> 0]
    /\ entry = [u \in Users |-> Gone]
    /\ index = [m \in Marks |-> 0]
    /\ req = [r \in Requests |-> Idle]
    /\ inv = NoInvalidation
    /\ loose = {}

-----------------------------------------------------------------------------
(* The history of an entry: a user is noted for a set that did not write   *)
(* everything, or met an invalidation, until the entry is gone.            *)
Crossing == {u \in inv'.covered : Invalidating' /\ Setting(u)'}
Note(users) ==
    loose' = {u \in loose \union users \union Crossing : Live(u)' \/ Setting(u)'}

End(r) == req' = [req EXCEPT ![r] = Idle]

\* The provider changes the roles of a user.
Change(u) ==
    /\ roles[u] < MaxVersion
    /\ roles' = [roles EXCEPT ![u] = @ + 1]
    /\ UNCHANGED <<entry, index, req, inv, loose>>

\* Bug: a hit renews the entry.
HitRenews(u) ==
    /\ Live(u)
    /\ entry' = [entry EXCEPT ![u].left = TTL]
    /\ UNCHANGED <<roles, index, req, inv, loose>>

\* A hit: the cached roles are served.
Hit(u) ==
    /\ Live(u)
    /\ UNCHANGED vars

\* A miss, or a get that fails or does not verify, which is taken for one.
Miss(r, u) ==
    /\ req[r].phase = "idle"
    /\ req' = [req EXCEPT ![r] = [Idle EXCEPT !.phase = "fetch", !.user = u]]
    /\ UNCHANGED <<roles, entry, index, inv>>
    /\ Note({})

\* The provider answers with the roles it has.
Fetch(r) ==
    /\ req[r].phase = "fetch"
    /\ req' = [req EXCEPT ![r].phase = "store", ![r].got = roles[req[r].user]]
    /\ UNCHANGED <<roles, entry, index, inv>>
    /\ Note({})

\* The first write of a set: the value.
Store(r) ==
    LET u == req[r].user IN
    /\ req[r].phase = "store"
    /\ entry' = [entry EXCEPT ![u] = [version |-> req[r].got, left |-> TTL]]
    /\ req' = [req EXCEPT ![r].phase = "index", ![r].rest = MarksOf(u)]
    /\ UNCHANGED <<roles, index, inv>>
    /\ Note({})

\* It raises, written or not, and the index is not written.
StoreFails(r) ==
    LET u == req[r].user IN
    /\ req[r].phase = "store"
    /\ End(r)
    /\ UNCHANGED <<roles, index, inv>>
    /\ \/ UNCHANGED entry /\ Note({})
       \/ /\ entry' = [entry EXCEPT ![u] = [version |-> req[r].got, left |-> TTL]]
          /\ Note({u})

\* The index keys are written from the shortest prefix to the longest.
Indexed(r, m) ==
    LET rest == req[r].rest \ {m} IN
    /\ req[r].phase = "index" /\ m \in req[r].rest
    /\ \A n \in rest : Under[n[1]] \subseteq Under[m[1]]
    /\ IF rest = {} THEN End(r) ELSE req' = [req EXCEPT ![r].rest = rest]
    /\ UNCHANGED <<roles, entry, inv>>

\* Bug: an index key that is there already is left as it is.
IndexIfNew(r, m) ==
    /\ Indexed(r, m)
    /\ index' = [index EXCEPT ![m] = IF @ = 0 THEN TTL ELSE @]
    /\ Note({})

\* The next write of a set: an index key.
Index(r, m) ==
    /\ Indexed(r, m)
    /\ index' = [index EXCEPT ![m] = TTL]
    /\ Note({})

\* An index key that cannot be written is logged, and the set goes on.
IndexFails(r, m) ==
    /\ Indexed(r, m)
    /\ UNCHANGED index
    /\ Note({req[r].user})

\* The provider fails, or the task is cancelled at an await.
Quit(r) ==
    /\ req[r].phase # "idle"
    /\ End(r)
    /\ UNCHANGED <<roles, entry, index, inv>>
    /\ Note(IF req[r].phase = "index" THEN {req[r].user} ELSE {})

-----------------------------------------------------------------------------
Begin(users, i) ==
    /\ ~Invalidating
    /\ inv' = [i EXCEPT !.covered = users,
                       !.since = [u \in Users |-> IF u \in users THEN roles[u] ELSE 0]]
    /\ UNCHANGED <<roles, entry, index, req>>
    /\ Note({})

\* SigningCacheWrapper.invalidate_by_prefix.
BeginPrefix(p) ==
    Begin(Under[p], [NoInvalidation EXCEPT !.phase = "scan",
                                           !.marks = {m \in Marks : m[1] = p}])

\* SigningCacheWrapper.delete, which leaves the index to its best effort.
BeginKey(u) ==
    Begin({u}, [NoInvalidation EXCEPT !.phase = "delete", !.todo = {u},
                                      !.marks = MarksOf(u), !.best = TRUE])

InvTo(i) == inv' = i /\ UNCHANGED <<roles, req>>

\* What is remembered of an invalidation that succeeded.
Done == [NoInvalidation EXCEPT !.phase = "done", !.covered = inv.covered,
                               !.since = inv.since]

\* The index keys of the prefix are read; without one nothing is deleted.
Scan ==
    LET found == {m \in inv.marks : index[m] > 0} IN
    /\ inv.phase = "scan"
    /\ InvTo(IF found = {} THEN Done
             ELSE [inv EXCEPT !.phase = "delete", !.marks = found,
                              !.todo = {m[2] : m \in found}])
    /\ UNCHANGED <<entry, index>>
    /\ Note({})

\* Bug: the invalidation goes on after the first value.
DeleteOne(u) ==
    /\ inv.phase = "delete" /\ u \in inv.todo
    /\ entry' = [entry EXCEPT ![u] = Gone]
    /\ InvTo(IF inv.marks = {} THEN Done ELSE [inv EXCEPT !.todo = {}, !.phase = "unindex"])
    /\ UNCHANGED index
    /\ Note({})

\* The values are deleted, one at a time.
Delete(u) ==
    LET todo == inv.todo \ {u} IN
    /\ inv.phase = "delete" /\ u \in inv.todo
    /\ entry' = [entry EXCEPT ![u] = Gone]
    /\ InvTo(IF todo = {} /\ inv.marks = {} THEN Done
             ELSE [inv EXCEPT !.todo = todo,
                              !.phase = IF todo = {} THEN "unindex" ELSE "delete"])
    /\ UNCHANGED index
    /\ Note({})

Unindexed(m) ==
    LET marks == inv.marks \ {m} IN
    /\ inv.phase = "unindex" /\ m \in inv.marks
    /\ InvTo(IF marks = {} THEN Done ELSE [inv EXCEPT !.marks = marks])
    /\ UNCHANGED entry

\* Then the index keys, one at a time.
Unindex(m) ==
    /\ Unindexed(m)
    /\ index' = [index EXCEPT ![m] = 0]
    /\ Note({})

\* In a deletion by key an index key that cannot be deleted is logged.
UnindexFails(m) ==
    /\ inv.best
    /\ Unindexed(m)
    /\ UNCHANGED index
    /\ Note({})

\* Any other failure is raised to the caller, who knows that it is not done.
InvalidationFails ==
    /\ Invalidating
    /\ inv.best => inv.phase = "delete"
    /\ InvTo(NoInvalidation)
    /\ UNCHANGED <<entry, index>>
    /\ Note({})

\* Bug: index keys count below zero.
TickPastZero ==
    /\ entry' = [u \in Users |-> IF entry[u].left <= 1 THEN Gone
                                ELSE [entry[u] EXCEPT !.left = @ - 1]]
    /\ index' = [m \in Marks |-> index[m] - 1]
    /\ UNCHANGED <<roles, req, inv>>
    /\ Note({})

\* Time passes, for values and index keys alike.
Tick ==
    /\ entry' = [u \in Users |-> IF entry[u].left <= 1 THEN Gone
                                ELSE [entry[u] EXCEPT !.left = @ - 1]]
    /\ index' = [m \in Marks |-> IF index[m] = 0 THEN 0 ELSE index[m] - 1]
    /\ UNCHANGED <<roles, req, inv>>
    /\ Note({})

Set(r) ==
    \/ Fetch(r)
    \/ Store(r)
    \/ StoreFails(r)
    \/ \E m \in Marks : Index(r, m) \/ IndexFails(r, m)
    \/ Quit(r)

Next ==
    \/ \E u \in Users : Change(u) \/ Hit(u) \/ BeginKey(u) \/ Delete(u)
    \/ \E r \in Requests : Set(r) \/ \E u \in Users : Miss(r, u)
    \/ \E p \in Prefixes : BeginPrefix(p)
    \/ Scan
    \/ \E m \in Marks : Unindex(m) \/ UnindexFails(m)
    \/ InvalidationFails
    \/ Tick

Spec == Init /\ [][Next]_vars

\* Time passes.  Nothing is asked of requests or invalidations.
FairSpec == Spec /\ WF_vars(Tick)

-----------------------------------------------------------------------------
(* A set that wrote everything, and met no invalidation, leaves index keys *)
(* that live at least as long as the value: the value cannot outlive the   *)
(* only way an invalidation has to find it.                                *)
IndexOutlives ==
    \A u \in Users \ loose :
        Live(u) /\ ~Setting(u) =>
            \A m \in MarksOf(u) : index[m] >= entry[u].left

(* After an invalidation that reports success, the entries it covers are   *)
(* gone or at least as new as when it began, whatever was changed, filled  *)
(* or expired meanwhile, but for entries whose index was not written, and  *)
(* for those that were set while an invalidation ran.                      *)
InvalidationHolds ==
    inv.phase = "done" =>
        \A u \in inv.covered \ loose :
            Live(u) => entry[u].version >= inv.since[u]

(* Roles that were taken away are served from the cache for a bounded time *)
(* even if no invalidation finds them: hits do not renew an entry, and a   *)
(* new set fetches the new roles.                                          *)
StaleEnds ==
    \A u \in Users :
        (Live(u) /\ entry[u].version < roles[u]) ~>
            (~Live(u) \/ entry[u].version = roles[u])
==============================================================================
