-------------------------- MODULE RoleLookupProofs --------------------------
(***************************************************************************)
(* Proofs about the lookup of roles.                                       *)
(*                                                                         *)
(* The role cache: what holds of it for any users, prefixes, requests and  *)
(* times to live, what an invalidation can find, and what it leaves.  The  *)
(* Graph clients a request asks when it misses the cache: their table and  *)
(* their tokens, for any tasks, tenants and bounds.  The two have no state *)
(* in common.                                                              *)
(***************************************************************************)
EXTENDS RoleCache, GraphClient, Integers, FiniteSetTheorems, SequenceTheorems, TLAPS

-----------------------------------------------------------------------------
(* The role cache.                                                         *)

\* Request r has roles of u to cache, or is caching them.
Sets(r, u) == req[r].user = u /\ req[r].phase \in {"store", "index"}

\* Request r is still to write the index key m.
Owes(r, m) == req[r].phase = "index" /\ m \in req[r].rest

\* What is known of a user who is not loose.
CacheFound(u) ==
    /\ Live(u) =>
         \A m \in MarksOf(u) :
            index[m] >= entry[u].left \/ \E r \in Requests : req[r].user = u /\ Owes(r, m)
    /\ u \in inv.covered /\ Invalidating => ~Setting(u)
    /\ u \in inv.covered /\ inv.phase \in {"delete", "unindex"} /\ Live(u) => u \in inv.todo
    /\ u \in inv.covered => \A r \in Requests : Sets(r, u) => req[r].got >= inv.since[u]
    /\ u \in inv.covered /\ inv.phase = "done" /\ Live(u) => entry[u].version >= inv.since[u]

\* What is known of any user, and of the invalidation.
UserInv(u) ==
    /\ u \notin loose => CacheFound(u)
    /\ u \in inv.covered => inv.since[u] <= roles[u]
    /\ u \in inv.covered /\ inv.phase = "scan" => \E m \in inv.marks : m[2] = u

MarksInv ==
    /\ Invalidating => \A m \in inv.marks : m[2] \in inv.covered
    /\ inv.phase = "unindex" => inv.todo = {}

CacheInv == MarksInv /\ \A u \in Users : UserInv(u)

-----------------------------------------------------------------------------
(* Types. *)

LEMMA IdleType == Idle \in [phase : {"idle"}, user : Users, got : Versions, rest : {{}}]
  <1>1. 0 \in Versions
    BY ConfigAssumption, SMT DEF Versions
  <1>2. (CHOOSE u \in Users : TRUE) \in Users
    BY ConfigAssumption
  <1> QED
    BY <1>1, <1>2 DEF Idle

\* What is noted, and what is forgotten: a user stops being loose only with
\* neither an entry nor a request that sets one.
LEMMA NoteFacts ==
    ASSUME NEW users \in SUBSET Users, Note(users), loose \subseteq Users,
           inv'.covered \subseteq Users
    PROVE /\ loose' \subseteq Users
          /\ \A u \in loose \union users :
                u \notin loose' => ~Live(u)' /\ ~Setting(u)'
          /\ \A u \in inv'.covered :
                Invalidating' /\ Setting(u)' => u \in loose'
  BY DEF Note, Crossing

\* The marks that a request or an invalidation names are marks.
LEMMA MarksType == \A u \in Users : MarksOf(u) \subseteq Marks /\ \A m \in MarksOf(u) : m[2] = u
  BY DEF MarksOf

LEMMA MarkUser == \A m \in Marks : m[2] \in Users /\ m[1] \in Prefixes /\ m[2] \in Under[m[1]]
  BY DEF Marks

ReqType == [phase : {"idle", "fetch", "store", "index"},
            user : Users, got : Versions, rest : SUBSET Marks]
InvType == [phase : {"idle", "scan", "delete", "unindex", "done"},
            covered : SUBSET Users, marks : SUBSET Marks, todo : SUBSET Users,
            best : BOOLEAN, since : [Users -> Versions]]

LEMMA OwedType ==
    ASSUME NEW x \in ReqType, NEW marks \in SUBSET Marks
    PROVE [x EXCEPT !.phase = "index", !.rest = marks] \in ReqType
  BY DEF ReqType

\* A step of a request.
LEMMA TypeReq ==
    ASSUME TypeOK, NEW r \in Requests, Set(r) \/ \E u \in Users : Miss(r, u)
    PROVE TypeOK'
  <1> USE DEF TypeOK
  <1>0. /\ Idle \in ReqType /\ req[r].user \in Users
        /\ \A u \in Users, ph \in {"fetch", "store", "index"} :
              [Idle EXCEPT !.phase = ph, !.user = u] \in ReqType
    BY IdleType DEF ReqType, Idle
  <1>1. inv' = inv /\ roles' = roles
    BY DEF Set, Miss, Fetch, Store, StoreFails, Indexed, Index, IndexFails, Quit
  <1>2. loose' \subseteq Users
    <2>1. Note({}) \/ Note({req[r].user})
      BY DEF Set, Miss, Fetch, Store, StoreFails, Index, IndexFails, Quit
    <2>2. {} \in SUBSET Users /\ {req[r].user} \in SUBSET Users
      BY <1>0
    <2> QED
      BY <1>1, <2>1, <2>2, NoteFacts, SMTT(30)
  <1>3. \E x \in ReqType : req' = [req EXCEPT ![r] = x]
    <2>1. ASSUME NEW u \in Users, Miss(r, u) PROVE \E x \in ReqType : req' = [req EXCEPT ![r] = x]
      BY <1>0, <2>1 DEF Miss
    <2>2. CASE Fetch(r)
      <3>1. [req[r] EXCEPT !.phase = "store", !.got = roles[req[r].user]] \in ReqType
        BY <1>0, ZenonT(60) DEF ReqType
      <3>2. req' = [req EXCEPT ![r] = [req[r] EXCEPT !.phase = "store",
                                                     !.got = roles[req[r].user]]]
        BY <2>2 DEF Fetch
      <3> QED
        BY <3>1, <3>2
    <2>3. CASE Store(r)
      <3>1. MarksOf(req[r].user) \in SUBSET Marks
        BY <1>0, MarksType
      <3>2. [req[r] EXCEPT !.phase = "index", !.rest = MarksOf(req[r].user)] \in ReqType
        <4>1. req[r] \in ReqType
          BY DEF ReqType
        <4> QED
          BY <3>1, <4>1, OwedType
      <3>3. req' = [req EXCEPT ![r] = [req[r] EXCEPT !.phase = "index",
                                                     !.rest = MarksOf(req[r].user)]]
        BY <2>3 DEF Store
      <3> QED
        BY <3>2, <3>3
    <2>4. CASE \E m \in Marks : Indexed(r, m)
      <3>1. PICK m \in Marks : Indexed(r, m)
        BY <2>4
      <3>2. [req[r] EXCEPT !.rest = req[r].rest \ {m}] \in ReqType
        BY DEF ReqType
      <3>3. \/ req' = [req EXCEPT ![r] = Idle]
            \/ req' = [req EXCEPT ![r] = [req[r] EXCEPT !.rest = req[r].rest \ {m}]]
        BY <3>1 DEF Indexed, End
      <3> QED
        BY <1>0, <3>2, <3>3
    <2>5. CASE End(r)
      BY <1>0, <2>5 DEF End
    <2> QED
      BY <2>1, <2>2, <2>3, <2>4, <2>5 DEF Set, StoreFails, Index, IndexFails, Quit
  <1>4. entry' \in [Users -> [version : Versions, left : 0 .. TTL]]
    <2>1. [version |-> req[r].got, left |-> TTL] \in [version : Versions, left : 0 .. TTL]
      BY ConfigAssumption, SMT
    <2> QED
      BY <1>0, <2>1 DEF Set, Miss, Fetch, Store, StoreFails, Indexed, Index, IndexFails, Quit
  <1>5. index' \in [Marks -> 0 .. TTL]
    <2>1. TTL \in 0 .. TTL
      BY ConfigAssumption, SMT
    <2> QED
      BY <2>1 DEF Set, Miss, Fetch, Store, StoreFails, Indexed, Index, IndexFails, Quit
  <1> QED
    BY <1>1, <1>2, <1>3, <1>4, <1>5 DEF ReqType

LEMMA SinceType ==
    ASSUME TypeOK, NEW users \in SUBSET Users
    PROVE [u \in Users |-> IF u \in users THEN roles[u] ELSE 0] \in [Users -> Versions]
  <1>1. 0 \in Versions
    BY ConfigAssumption, SMT DEF Versions
  <1> QED
    BY <1>1 DEF TypeOK

LEMMA NoInvalidationType == NoInvalidation \in InvType
  <1>1. 0 \in Versions
    BY ConfigAssumption, SMT DEF Versions
  <1> QED
    BY <1>1 DEF NoInvalidation, InvType

InvStep ==
    \/ \E p \in Prefixes : BeginPrefix(p)
    \/ \E u \in Users : BeginKey(u) \/ Delete(u)
    \/ Scan
    \/ \E m \in Marks : Unindex(m) \/ UnindexFails(m)
    \/ InvalidationFails

\* A step of an invalidation.
LEMMA TypeInv == ASSUME TypeOK, InvStep PROVE TypeOK'
  <1>0. inv \in InvType /\ loose \subseteq Users
    BY DEF TypeOK, InvType
  <1>1. req' = req /\ roles' = roles
    BY DEF InvStep, BeginPrefix, BeginKey, Begin, Delete, Scan, Unindex, UnindexFails,
           Unindexed, InvalidationFails, InvTo
  <1>2. Done \in InvType
    BY <1>0, NoInvalidationType DEF Done, InvType, NoInvalidation
  <1>3. inv' \in InvType
    <2>1. ASSUME NEW p \in Prefixes, BeginPrefix(p) PROVE inv' \in InvType
      <3>1. Under[p] \in SUBSET Users /\ {m \in Marks : m[1] = p} \in SUBSET Marks
        BY ConfigAssumption
      <3>2. [u \in Users |-> IF u \in Under[p] THEN roles[u] ELSE 0] \in [Users -> Versions]
        BY <3>1, SinceType
      <3> QED
        BY <2>1, <3>1, <3>2, NoInvalidationType DEF BeginPrefix, Begin, NoInvalidation, InvType
    <2>2. ASSUME NEW u \in Users, BeginKey(u) PROVE inv' \in InvType
      <3>1. {u} \in SUBSET Users /\ MarksOf(u) \in SUBSET Marks
        BY MarksType
      <3>2. [v \in Users |-> IF v \in {u} THEN roles[v] ELSE 0] \in [Users -> Versions]
        BY <3>1, SinceType
      <3> QED
        BY <2>2, <3>1, <3>2, NoInvalidationType DEF BeginKey, Begin, NoInvalidation, InvType
    <2>3. CASE Scan
      <3>1. {m \in inv.marks : index[m] > 0} \in SUBSET Marks
        BY <1>0 DEF InvType
      <3>2. {m[2] : m \in {n \in inv.marks : index[n] > 0}} \in SUBSET Users
        BY <1>0, MarkUser DEF InvType
      <3> QED
        BY <1>0, <1>2, <2>3, <3>1, <3>2 DEF Scan, InvTo, InvType
    <2>4. ASSUME NEW u \in Users, Delete(u) PROVE inv' \in InvType
      BY <1>0, <1>2, <2>4 DEF Delete, InvTo, InvType
    <2>5. ASSUME NEW m \in Marks, Unindexed(m) PROVE inv' \in InvType
      BY <1>0, <1>2, <2>5 DEF Unindexed, InvTo, InvType
    <2>6. CASE InvalidationFails
      BY <2>6, NoInvalidationType DEF InvalidationFails, InvTo
    <2> QED
      BY <2>1, <2>2, <2>3, <2>4, <2>5, <2>6 DEF InvStep, Unindex, UnindexFails
  <1>4. loose' \subseteq Users
    <2>1. Note({})
      BY DEF InvStep, BeginPrefix, BeginKey, Begin, Delete, Scan, Unindex, UnindexFails,
             InvalidationFails
    <2>2. inv'.covered \subseteq Users
      BY <1>3 DEF InvType
    <2> QED
      BY <1>0, <2>1, <2>2, NoteFacts, SMTT(30)
  <1>5. entry' \in [Users -> [version : Versions, left : 0 .. TTL]]
    <2>1. Gone \in [version : Versions, left : 0 .. TTL]
      BY ConfigAssumption, SMT DEF Gone, Versions
    <2> QED
      BY <2>1 DEF TypeOK, InvStep, BeginPrefix, BeginKey, Begin, Delete, Scan, Unindex,
                  UnindexFails, Unindexed, InvalidationFails
  <1>6. index' \in [Marks -> 0 .. TTL]
    <2>1. 0 \in 0 .. TTL
      BY ConfigAssumption, SMT
    <2> QED
      BY <2>1 DEF TypeOK, InvStep, BeginPrefix, BeginKey, Begin, Delete, Scan, Unindex,
                  UnindexFails, InvalidationFails
  <1> QED
    BY <1>1, <1>3, <1>4, <1>5, <1>6 DEF TypeOK, InvType

LEMMA TypeTick == ASSUME TypeOK, Tick PROVE TypeOK'
  <1>1. entry' \in [Users -> [version : Versions, left : 0 .. TTL]]
    <2>1. Gone \in [version : Versions, left : 0 .. TTL]
      BY ConfigAssumption, SMT DEF Gone, Versions
    <2>2. ASSUME NEW u \in Users, ~(entry[u].left <= 1)
          PROVE [entry[u] EXCEPT !.left = @ - 1] \in [version : Versions, left : 0 .. TTL]
      <3>1. entry[u].left \in 0 .. TTL
        BY DEF TypeOK
      <3>2. entry[u].left - 1 \in 0 .. TTL
        BY <2>2, <3>1, ConfigAssumption, SMT
      <3> QED
        BY <3>2 DEF TypeOK
    <2> QED
      BY <2>1, <2>2 DEF Tick
  <1>2. index' \in [Marks -> 0 .. TTL]
    <2>1. ASSUME NEW m \in Marks
          PROVE (IF index[m] = 0 THEN 0 ELSE index[m] - 1) \in 0 .. TTL
      <3>1. index[m] \in 0 .. TTL
        BY DEF TypeOK
      <3> QED
        BY <3>1, ConfigAssumption, SMT
    <2> QED
      BY <2>1 DEF Tick
  <1>3. req' = req /\ roles' = roles /\ inv' = inv /\ Note({})
    BY DEF Tick
  <1>4. loose' \subseteq Users
    BY <1>3, NoteFacts DEF TypeOK
  <1> QED
    BY <1>1, <1>2, <1>3, <1>4 DEF TypeOK

LEMMA TypeStep == ASSUME TypeOK, [Next]_vars PROVE TypeOK'
  <1>1. CASE UNCHANGED vars
    BY <1>1 DEF vars, TypeOK
  <1>2. ASSUME NEW u \in Users, Change(u) PROVE TypeOK'
    <2>1. roles[u] + 1 \in Versions
      BY <1>2, ConfigAssumption, SMT DEF Change, TypeOK, Versions
    <2> QED
      BY <1>2, <2>1 DEF Change, TypeOK
  <1>3. CASE \E u \in Users : Hit(u)
    BY <1>1, <1>3 DEF Hit
  <1>4. ASSUME NEW r \in Requests, Set(r) \/ \E u \in Users : Miss(r, u) PROVE TypeOK'
    BY <1>4, TypeReq
  <1>5. CASE InvStep
    BY <1>5, TypeInv
  <1>6. CASE Tick
    BY <1>6, TypeTick
  <1> QED
    BY <1>1, <1>2, <1>3, <1>4, <1>5, <1>6 DEF Next, InvStep

LEMMA TypeInit == Init => TypeOK
  <1> SUFFICES ASSUME Init PROVE TypeOK
    OBVIOUS
  <1>1. 0 \in Versions /\ 0 \in 0 .. TTL
    BY ConfigAssumption, SMT DEF Versions
  <1>2. Idle \in ReqType /\ NoInvalidation \in InvType
    BY IdleType, NoInvalidationType DEF ReqType
  <1> QED
    BY <1>1, <1>2 DEF Init, TypeOK, ReqType, InvType, Gone

\* Every variable keeps its type, for any users, prefixes and requests.
THEOREM TypeCorrect == Spec => []TypeOK
  <1>1. TypeOK /\ [Next]_vars => TypeOK'
    BY TypeStep
  <1> QED
    BY TypeInit, <1>1, PTL DEF Spec

-----------------------------------------------------------------------------
(* What is in the cache. *)

\* Lifetimes and versions are numbers.
LEMMA Numbers ==
    ASSUME TypeOK
    PROVE /\ TTL \in Int /\ TTL > 0
          /\ \A u \in Users : /\ entry[u].left \in Int /\ entry[u].left >= 0
                              /\ entry[u].left <= TTL
                              /\ entry[u].version \in Int /\ inv.since[u] \in Int
                              /\ roles[u] \in Int
          /\ \A m \in Marks : index[m] \in Int /\ index[m] >= 0
          /\ \A r \in Requests : req[r].got \in Int
  BY ConfigAssumption, SMT DEF TypeOK, Versions

\* Nothing is asked of a user who has neither an entry nor a request.
LEMMA DeadFound ==
    ASSUME NEW u \in Users, ~Live(u)', ~Setting(u)'
    PROVE CacheFound(u)'
  BY DEF CacheFound, Setting, Sets

\* A step of a request for one user, or of nobody, changes nothing of another:
\* index keys live longer at most.
LEMMA OtherFound ==
    ASSUME TypeOK, TypeOK', NEW u \in Users, CacheFound(u), inv' = inv, entry'[u] = entry[u],
           \A m \in Marks : index'[m] >= index[m],
           \A r \in Requests : Sets(r, u) \/ Sets(r, u)' => req'[r] = req[r]
    PROVE CacheFound(u)'
  <1>1. \A m \in MarksOf(u) : index[m] >= entry[u].left => index'[m] >= entry'[u].left
    BY Numbers, MarksType, SMT DEF TypeOK
  <1> QED
    BY <1>1 DEF CacheFound, Live, Setting, Sets, Owes, Invalidating, MarksOf

\* Nor does a step that only makes a request forget what it does not owe.
LEMMA QuietFound ==
    ASSUME TypeOK, TypeOK', NEW u \in Users, CacheFound(u), inv' = inv,
           entry'[u] = entry[u], index' = index,
           \A r \in Requests : Sets(r, u)' => Sets(r, u) /\ req'[r] = req[r],
           \A r \in Requests, m \in Marks :
              req[r].user = u /\ Owes(r, m) => req'[r] = req[r]
    PROVE CacheFound(u)'
  BY MarksType DEF CacheFound, Live, Setting, Sets, Owes, Invalidating, MarksOf

\* The steps of a request keep what is known of a user.
LEMMA FoundReq ==
    ASSUME TypeOK, TypeOK', CacheInv, NEW r \in Requests, NEW u \in Users, u \notin loose',
           Set(r) \/ \E v \in Users : Miss(r, v)
    PROVE CacheFound(u)'
  <1> DEFINE v == req[r].user
  <1>1. /\ inv' = inv /\ req \in [Requests -> ReqType] /\ v \in Users
        /\ \A q \in Requests \ {r} : req'[q] = req[q]
        /\ Idle.phase = "idle"
    BY DEF TypeOK, ReqType, Idle, Set, Miss, Fetch, Store, StoreFails, Indexed, Index,
           IndexFails, Quit, End
  <1>2. CASE ~Live(u)' /\ ~Setting(u)'
    BY <1>2, DeadFound
  <1>3. ASSUME NEW users \in SUBSET Users, Note(users), u \in loose \union users
        PROVE CacheFound(u)'
    <2>1. loose \subseteq Users /\ inv'.covered \subseteq Users
      BY <1>1 DEF TypeOK
    <2>2. ~Live(u)' /\ ~Setting(u)'
      BY <1>3, <2>1, NoteFacts
    <2> QED
      BY <1>2, <2>2
  <1>4. {} \in SUBSET Users /\ {v} \in SUBSET Users
    BY <1>1
  <1>5. Note({}) \/ Note({v})
    BY DEF Set, Miss, Fetch, Store, StoreFails, Index, IndexFails, Quit
  <1>6. CASE u \in loose
    BY <1>3, <1>4, <1>5, <1>6
  <1>7. ASSUME u \notin loose PROVE CacheFound(u)'
    <2>1. CacheFound(u) /\ (u \in inv.covered => inv.since[u] <= roles[u])
      BY <1>7 DEF CacheInv, UserInv
    <2>2. u \in inv.covered /\ Invalidating => ~Setting(u)'
      <3>1. loose \subseteq Users /\ inv'.covered \subseteq Users
        BY <1>1 DEF TypeOK
      <3>2. Invalidating' <=> Invalidating
        BY <1>1 DEF Invalidating
      <3> QED
        BY <1>1, <1>4, <1>5, <3>1, <3>2, NoteFacts
    <2>3. ASSUME NEW w \in Users, Miss(r, w) PROVE CacheFound(u)'
      <3>1. entry' = entry /\ index' = index /\ req[r].phase = "idle" /\ req'[r].phase = "fetch"
        BY <1>1, <2>3 DEF Miss, Idle
      <3> QED
        BY <1>1, <2>1, <3>1, QuietFound DEF Sets, Owes
    <2>4. CASE Fetch(r)
      <3>1. /\ entry' = entry /\ index' = index /\ req[r].phase = "fetch"
            /\ req'[r].phase = "store" /\ req'[r].user = v /\ req'[r].got = roles[v]
        BY <1>1, <2>4 DEF Fetch, ReqType
      <3> QED
        BY <1>1, <2>1, <2>2, <3>1
           DEF CacheFound, Live, Setting, Sets, Owes, Invalidating, MarksOf
    <2>5. CASE Store(r)
      <3>1. /\ index' = index /\ req[r].phase = "store"
            /\ req'[r].phase = "index" /\ req'[r].user = v /\ req'[r].got = req[r].got
            /\ req'[r].rest = MarksOf(v)
            /\ entry' = [entry EXCEPT ![v] = [version |-> req[r].got, left |-> TTL]]
        BY <1>1, <2>5 DEF Store, ReqType
      <3>2. CASE u = v
        <4>1. Sets(r, u) /\ Setting(u)
          BY <3>1, <3>2 DEF Sets, Setting
        <4>2. entry'[u].version = req[r].got
          BY <3>1, <3>2 DEF TypeOK
        <4> QED
          BY <1>1, <2>1, <2>2, <3>1, <3>2, <4>1, <4>2
             DEF CacheFound, Live, Setting, Sets, Owes, Invalidating, MarksOf
      <3>3. CASE u # v
        BY <1>1, <2>1, <3>1, <3>3, QuietFound, SMTT(30) DEF Sets, Owes, TypeOK
      <3> QED
        BY <3>2, <3>3
    <2>6. ASSUME NEW m \in Marks, Index(r, m) PROVE CacheFound(u)'
      <3>1. /\ entry' = entry /\ index' = [index EXCEPT ![m] = TTL] /\ req[r].phase = "index"
            /\ \/ req'[r] = Idle /\ req[r].rest = {m}
               \/ /\ req'[r].phase = "index" /\ req'[r].user = v /\ req'[r].got = req[r].got
                  /\ req'[r].rest = req[r].rest \ {m}
        BY <1>1, <2>6 DEF Index, Indexed, End, ReqType
      <3>2. \A n \in Marks : index'[n] >= index[n] /\ index'[m] = TTL
        BY <3>1, ConfigAssumption, SMT DEF TypeOK
      <3>3. ASSUME Live(u)', NEW n \in MarksOf(u)
            PROVE \/ index'[n] >= entry'[u].left
                  \/ \E q \in Requests : req'[q].user = u /\ Owes(q, n)'
        <4>1. n \in Marks /\ Live(u)
          BY <3>1, <3>3, MarksType DEF Live
        <4>2. CASE index[n] >= entry[u].left
          BY <3>1, <3>2, <4>1, <4>2, Numbers, SMT DEF TypeOK
        <4>3. ASSUME NEW q \in Requests, req[q].user = u, Owes(q, n)
              PROVE \/ index'[n] >= entry'[u].left
                    \/ \E p \in Requests : req'[p].user = u /\ Owes(p, n)'
          <5>1. CASE n = m
            BY <3>1, <3>2, <4>1, <5>1, Numbers
          <5>2. CASE n # m
            BY <1>1, <3>1, <4>3, <5>2 DEF Owes
          <5> QED
            BY <5>1, <5>2
        <4> QED
          BY <2>1, <4>1, <4>2, <4>3 DEF CacheFound
      <3>4. \A q \in Requests : Sets(q, u)' => Sets(q, u) /\ req'[q].got = req[q].got
        BY <1>1, <3>1 DEF Sets
      <3> QED
        BY <1>1, <2>1, <2>2, <3>1, <3>3, <3>4 DEF CacheFound, Live, Invalidating, MarksOf
    <2>7. ASSUME End(r), entry' = entry, index' = index, req[r].phase # "index"
          PROVE CacheFound(u)'
      <3>1. req'[r] = Idle
        BY <1>1, <2>7 DEF End
      <3> QED
        BY <1>1, <2>1, <2>7, <3>1, QuietFound DEF Sets, Owes
    <2>8. ASSUME End(r) \/ \E m \in Marks : Indexed(r, m), entry' = entry, index' = index, u # v
          PROVE CacheFound(u)'
      <3>1. req'[r] = Idle \/ req'[r].user = v
        BY <1>1, <2>8 DEF End, Indexed, ReqType
      <3> QED
        BY <1>1, <2>1, <2>8, <3>1, QuietFound DEF Sets, Owes
    <2>9. CASE StoreFails(r)
      <3>1. CASE entry' = entry
        BY <2>7, <2>9, <3>1 DEF StoreFails
      <3>2. CASE Note({v}) /\ u = v
        BY <1>3, <1>4, <3>2
      <3>3. CASE u # v /\ entry' = [entry EXCEPT ![v] = [version |-> req[r].got, left |-> TTL]]
        <4>1. entry'[u] = entry[u] /\ index' = index /\ req'[r] = Idle
          BY <1>1, <2>9, <3>3 DEF StoreFails, End, TypeOK
        <4> QED
          BY <1>1, <2>1, <3>3, <4>1, QuietFound DEF Sets, Owes
      <3> QED
        BY <2>9, <3>1, <3>2, <3>3 DEF StoreFails
    <2>10. ASSUME NEW m \in Marks, IndexFails(r, m) PROVE CacheFound(u)'
      <3>1. Note({v}) /\ entry' = entry /\ index' = index /\ Indexed(r, m)
        BY <2>10 DEF IndexFails, Indexed
      <3> QED
        BY <1>3, <1>4, <2>8, <3>1
    <2>11. CASE Quit(r)
      <3>1. End(r) /\ entry' = entry /\ index' = index
            /\ (req[r].phase = "index" => Note({v}))
        BY <2>11 DEF Quit
      <3> QED
        BY <1>3, <1>4, <2>7, <2>8, <3>1
    <2> QED
      BY <2>3, <2>4, <2>5, <2>6, <2>9, <2>10, <2>11 DEF Set
  <1> QED
    BY <1>6, <1>7

\* The steps of an invalidation keep what is known of a user.
LEMMA FoundInv ==
    ASSUME TypeOK, TypeOK', CacheInv, InvStep, NEW u \in Users, u \notin loose'
    PROVE CacheFound(u)'
  <1>1. req' = req /\ roles' = roles /\ Note({})
    BY DEF InvStep, BeginPrefix, BeginKey, Begin, Delete, Scan, Unindex, UnindexFails,
           Unindexed, InvalidationFails, InvTo
  <1>2. /\ u \in loose => ~Live(u)' /\ ~Setting(u)'
        /\ u \in inv'.covered /\ Invalidating' => ~Setting(u)'
    BY <1>1, NoteFacts DEF TypeOK
  <1>3. CASE u \in loose
    BY <1>2, <1>3, DeadFound
  <1>4. ASSUME u \notin loose PROVE CacheFound(u)'
    <2>1. CacheFound(u) /\ UserInv(u) /\ MarksInv
      BY <1>4 DEF CacheInv, UserInv
    \* What does not depend on the invalidation is kept by what keeps the entry.
    <2>2. ASSUME entry' = entry, index' = index
          PROVE Live(u)' => \A m \in MarksOf(u) :
                   index'[m] >= entry'[u].left
                      \/ \E r \in Requests : req'[r].user = u /\ Owes(r, m)'
      BY <1>1, <2>1, <2>2 DEF CacheFound, Live, Owes
    <2>3. ASSUME NEW users \in SUBSET Users, NEW i, Begin(users, i),
                 i.phase \in {"scan", "delete"}, users \subseteq i.todo \/ i.phase = "scan"
          PROVE CacheFound(u)'
      <3>1. /\ entry' = entry /\ index' = index /\ Invalidating'
            /\ inv'.phase = i.phase /\ inv'.covered = users /\ inv'.todo = i.todo
        BY <2>3 DEF Begin, Invalidating
      <3> QED
        BY <1>1, <1>2, <2>2, <2>3, <3>1 DEF CacheFound, MarksOf, Setting, Sets
    <2>4. ASSUME NEW p \in Prefixes, BeginPrefix(p) PROVE CacheFound(u)'
      <3> DEFINE i == [NoInvalidation EXCEPT !.phase = "scan", !.marks = {m \in Marks : m[1] = p}]
      <3>1. Under[p] \in SUBSET Users /\ i.phase = "scan" /\ Begin(Under[p], i)
        BY <2>4, ConfigAssumption DEF BeginPrefix, NoInvalidation
      <3> HIDE DEF i
      <3> QED
        BY <2>3, <3>1
    <2>5. ASSUME NEW w \in Users, BeginKey(w) PROVE CacheFound(u)'
      <3> DEFINE i == [NoInvalidation EXCEPT !.phase = "delete", !.todo = {w},
                                             !.marks = MarksOf(w), !.best = TRUE]
      <3>1. {w} \in SUBSET Users /\ i.phase = "delete" /\ i.todo = {w} /\ Begin({w}, i)
        BY <2>5 DEF BeginKey, NoInvalidation
      <3> HIDE DEF i
      <3> QED
        BY <2>3, <3>1
    \* Once it runs, nobody sets a covered entry that is not loose.
    <2>6. ASSUME Invalidating, u \in inv.covered
          PROVE ~Setting(u) /\ ~Setting(u)' /\ \A r \in Requests : ~Sets(r, u)'
      BY <1>1, <2>1, <2>6 DEF CacheFound, Setting, Sets
    <2>7. CASE Scan
      <3>1. entry' = entry /\ index' = index /\ Invalidating /\ inv.phase = "scan"
        BY <2>7 DEF Scan, Invalidating
      <3>2. ASSUME u \in inv.covered, Live(u)
            PROVE \E m \in inv.marks : m[2] = u /\ index[m] > 0
        <4>1. PICK m \in inv.marks : m[2] = u
          BY <2>1, <3>1, <3>2 DEF UserInv
        <4>2. m \in MarksOf(u) /\ m \in Marks
          BY <4>1 DEF TypeOK, MarksOf
        <4>3. \A r \in Requests : ~(req[r].user = u /\ Owes(r, m))
          BY <2>6, <3>1, <3>2 DEF Owes, Setting
        <4>4. index[m] >= entry[u].left
          BY <2>1, <3>2, <4>2, <4>3 DEF CacheFound
        <4> QED
          BY <3>2, <4>1, <4>2, <4>4, Numbers DEF Live
      <3>3. /\ inv'.covered = inv.covered
            /\ \/ inv'.phase = "done" /\ ~\E m \in inv.marks : index[m] > 0
               \/ /\ inv'.phase = "delete"
                  /\ inv'.todo = {m[2] : m \in {n \in inv.marks : index[n] > 0}}
        BY <2>7 DEF Scan, InvTo, Done, TypeOK, NoInvalidation
      <3> QED
        BY <1>1, <1>2, <2>2, <2>6, <3>1, <3>2, <3>3 DEF CacheFound, Live, MarksOf
    <2>8. ASSUME NEW w \in Users, Delete(w) PROVE CacheFound(u)'
      <3>1. /\ index' = index /\ entry' = [entry EXCEPT ![w] = Gone] /\ inv.phase = "delete"
            /\ Invalidating /\ inv'.covered = inv.covered
            /\ \/ inv'.phase = "done" /\ inv.todo \subseteq {w}
               \/ inv'.phase = "delete" /\ inv'.todo = inv.todo \ {w}
               \/ inv'.phase = "unindex" /\ inv'.todo = inv.todo \ {w}
        BY <2>8 DEF Delete, InvTo, Done, TypeOK, NoInvalidation, Invalidating
      <3>2. CASE u = w
        <4>1. ~Live(u)'
          BY <3>1, <3>2, SMT DEF Live, Gone, TypeOK
        <4> QED
          BY <1>2, <2>6, <3>1, <4>1 DEF CacheFound
      <3>3. CASE u # w
        <4>1. entry'[u] = entry[u]
          BY <3>1, <3>3 DEF TypeOK
        <4> QED
          BY <1>1, <1>2, <2>1, <2>6, <3>1, <3>3, <4>1 DEF CacheFound, Live, MarksOf, Owes
      <3> QED
        BY <3>2, <3>3
    <2>9. ASSUME NEW m \in Marks, Unindex(m) \/ UnindexFails(m) PROVE CacheFound(u)'
      <3>1. /\ entry' = entry /\ inv.phase = "unindex" /\ inv.todo = {} /\ Invalidating
            /\ m \in inv.marks /\ inv'.covered = inv.covered
            /\ index' = index \/ index' = [index EXCEPT ![m] = 0]
            /\ \/ inv'.phase = "done"
               \/ inv'.phase = "unindex" /\ inv'.todo = {}
        BY <2>1, <2>9, ZenonT(60) DEF Unindex, UnindexFails, Unindexed, InvTo, Done, TypeOK,
                          NoInvalidation, Invalidating, MarksInv
      <3>2. u \in inv.covered => ~Live(u)
        BY <2>1, <3>1 DEF CacheFound
      <3>3. \A n \in MarksOf(u) : Live(u) => index'[n] = index[n]
        <4>1. m[2] \in inv.covered
          BY <2>1, <3>1 DEF MarksInv
        <4> QED
          BY <3>1, <3>2, <4>1, MarksType DEF TypeOK
      <3> QED
        BY <1>1, <1>2, <2>1, <2>6, <3>1, <3>2, <3>3 DEF CacheFound, Live, MarksOf, Owes
    <2>10. CASE InvalidationFails
      <3>1. entry' = entry /\ index' = index /\ inv'.covered = {}
        BY <2>10 DEF InvalidationFails, InvTo, NoInvalidation
      <3> QED
        BY <2>2, <3>1 DEF CacheFound, MarksOf
    <2> QED
      BY <2>4, <2>5, <2>7, <2>8, <2>9, <2>10 DEF InvStep
  <1> QED
    BY <1>3, <1>4, SMTT(30)

\* Time takes from values and index keys alike.
LEMMA FoundTick ==
    ASSUME TypeOK, TypeOK', CacheInv, Tick, NEW u \in Users, u \notin loose'
    PROVE CacheFound(u)'
  <1>1. req' = req /\ roles' = roles /\ inv' = inv /\ Note({})
    BY DEF Tick
  <1>2. u \in loose => ~Live(u)' /\ ~Setting(u)'
    BY <1>1, NoteFacts DEF TypeOK
  <1>3. CASE u \in loose
    BY <1>2, <1>3, DeadFound
  <1>4. CASE u \notin loose
    <2>1. CacheFound(u)
      BY <1>4 DEF CacheInv, UserInv
    <2>2. CASE entry[u].left <= 1
      <3>1. entry'[u] = Gone
        BY <2>2 DEF Tick
      <3>2. ~Live(u)'
        BY <3>1, SMT DEF Live, Gone
      <3> QED
        BY <1>1, <2>1, <3>2 DEF CacheFound, Setting, Sets, Invalidating
    <2>3. CASE ~(entry[u].left <= 1)
      <3>1. entry'[u].version = entry[u].version /\ entry'[u].left = entry[u].left - 1
        BY <2>3 DEF Tick, TypeOK
      <3>2. Live(u)
        BY <2>3, Numbers, SMT DEF Live
      <3>3. \A m \in MarksOf(u) : index[m] >= entry[u].left => index'[m] >= entry'[u].left
        <4>1. SUFFICES ASSUME NEW m \in Marks, index[m] >= entry[u].left
                       PROVE index'[m] >= entry'[u].left
          BY MarksType
        <4>2. index'[m] = IF index[m] = 0 THEN 0 ELSE index[m] - 1
          BY DEF Tick
        <4> QED
          BY <2>3, <3>1, <4>1, <4>2, Numbers, SMT
      <3> QED
        BY <1>1, <2>1, <3>1, <3>2, <3>3 DEF CacheFound, Setting, Sets, Owes, Invalidating, MarksOf
    <2> QED
      BY <2>2, <2>3
  <1> QED
    BY <1>3, <1>4

\* What is known of the invalidation itself.
LEMMA InvInv ==
    ASSUME TypeOK, CacheInv, InvStep
    PROVE /\ MarksInv'
          /\ \A u \in Users :
                /\ u \in inv'.covered => inv'.since[u] <= roles'[u]
                /\ u \in inv'.covered /\ inv'.phase = "scan" => \E m \in inv'.marks : m[2] = u
  <1> USE DEF CacheInv, UserInv, MarksInv, Invalidating
  <1>0. roles' = roles
    BY DEF InvStep, BeginPrefix, BeginKey, Begin, Delete, Scan, Unindex, UnindexFails,
           Unindexed, InvalidationFails, InvTo
  <1>1. ASSUME NEW p \in Prefixes, BeginPrefix(p)
        PROVE /\ MarksInv'
              /\ \A u \in Users :
                    /\ u \in inv'.covered => inv'.since[u] <= roles'[u]
                    /\ u \in inv'.covered /\ inv'.phase = "scan" =>
                          \E m \in inv'.marks : m[2] = u
    <2>1. /\ inv'.phase = "scan" /\ inv'.covered = Under[p]
          /\ inv'.marks = {m \in Marks : m[1] = p}
          /\ inv'.since = [u \in Users |-> IF u \in Under[p] THEN roles[u] ELSE 0]
      BY <1>1 DEF BeginPrefix, Begin, NoInvalidation
    <2>2. ASSUME NEW u \in Under[p] PROVE \E m \in inv'.marks : m[2] = u
      <3>1. <<p, u>> \in Marks /\ <<p, u>>[1] = p /\ <<p, u>>[2] = u
        BY ConfigAssumption DEF Marks
      <3> QED
        BY <2>1, <3>1
    <2>3. \A m \in inv'.marks : m[2] \in Under[p]
      BY <2>1, MarkUser
    <2>4. \A u \in Users : roles[u] <= roles[u]
      BY Numbers, SMT
    <2> QED
      BY <1>0, <2>1, <2>2, <2>3, <2>4
  <1>2. ASSUME NEW v \in Users, BeginKey(v)
        PROVE /\ MarksInv'
              /\ \A u \in Users :
                    /\ u \in inv'.covered => inv'.since[u] <= roles'[u]
                    /\ u \in inv'.covered /\ inv'.phase = "scan" =>
                          \E m \in inv'.marks : m[2] = u
    <2>1. /\ inv'.phase = "delete" /\ inv'.covered = {v} /\ inv'.marks = MarksOf(v)
          /\ inv'.since = [u \in Users |-> IF u \in {v} THEN roles[u] ELSE 0]
      BY <1>2 DEF BeginKey, Begin, NoInvalidation
    <2>2. \A u \in Users : roles[u] <= roles[u]
      BY Numbers, SMT
    <2> QED
      BY <1>0, <2>1, <2>2, MarksType
  <1>3. CASE InvalidationFails
    BY <1>3 DEF InvalidationFails, InvTo, NoInvalidation
  <1>4. CASE \/ Scan
             \/ \E u \in Users : Delete(u)
             \/ \E m \in Marks : Unindexed(m)
    <2>1. /\ inv'.covered = inv.covered /\ inv'.since = inv.since /\ Invalidating
          /\ \/ inv'.phase = "done"
             \/ inv'.phase = "delete" /\ inv'.marks \subseteq inv.marks
             \/ /\ inv'.phase = "unindex" /\ inv'.marks \subseteq inv.marks
                /\ inv'.todo = {}
      <3>1. CASE Scan
        BY <3>1 DEF Scan, InvTo, Done, TypeOK, NoInvalidation
      <3>2. CASE \E u \in Users : Delete(u)
        BY <3>2 DEF Delete, InvTo, Done, TypeOK, NoInvalidation
      <3>3. CASE \E m \in Marks : Unindexed(m)
        BY <3>3 DEF Unindexed, InvTo, Done, TypeOK, NoInvalidation
      <3> QED
        BY <1>4, <3>1, <3>2, <3>3
    <2> QED
      BY <1>0, <2>1
  <1> QED
    BY <1>1, <1>2, <1>3, <1>4, SMTT(30) DEF InvStep, Unindex, UnindexFails

LEMMA CacheStep == ASSUME TypeOK, TypeOK', CacheInv, [Next]_vars PROVE CacheInv'
  <1>1. CASE UNCHANGED vars
    BY <1>1 DEF vars, CacheInv, UserInv, MarksInv, CacheFound, Live, Setting, Sets, Owes,
                Invalidating, MarksOf
  <1>2. ASSUME NEW v \in Users, Change(v) PROVE CacheInv'
    <2>1. \A u \in Users : inv.since[u] <= roles[u] => inv.since[u] <= roles'[u]
      BY <1>2, Numbers, SMT DEF Change, TypeOK
    <2> QED
      BY <1>2, <2>1 DEF Change, CacheInv, UserInv, MarksInv, CacheFound, Live, Setting, Sets, Owes,
                        Invalidating, MarksOf
  <1>3. CASE \E u \in Users : Hit(u)
    BY <1>1, <1>3 DEF Hit
  <1>4. ASSUME inv' = inv, roles' = roles, \A u \in Users : u \notin loose' => CacheFound(u)'
        PROVE CacheInv'
    BY <1>4 DEF CacheInv, UserInv, MarksInv, Invalidating
  <1>5. ASSUME NEW r \in Requests, Set(r) \/ \E u \in Users : Miss(r, u) PROVE CacheInv'
    <2>1. inv' = inv /\ roles' = roles
      BY <1>5 DEF Set, Miss, Fetch, Store, StoreFails, Indexed, Index, IndexFails, Quit
    <2> QED
      BY <1>4, <1>5, <2>1, FoundReq
  <1>6. CASE InvStep
    BY <1>6, FoundInv, InvInv DEF CacheInv, UserInv
  <1>7. CASE Tick
    <2>1. inv' = inv /\ roles' = roles
      BY <1>7 DEF Tick
    <2> QED
      BY <1>4, <1>7, <2>1, FoundTick
  <1> QED
    BY <1>1, <1>2, <1>3, <1>5, <1>6, <1>7 DEF Next, InvStep

LEMMA CacheInit == Init => CacheInv
  BY SMT DEF Init, CacheInv, UserInv, MarksInv, CacheFound, Live, Setting, Sets, Owes, Idle, Gone,
         NoInvalidation, Invalidating

LEMMA CacheAlways == Spec => [](TypeOK /\ CacheInv)
  <1>1. Init => TypeOK /\ CacheInv
    BY TypeInit, CacheInit
  <1>2. (TypeOK /\ CacheInv) /\ [Next]_vars => (TypeOK /\ CacheInv)'
    BY TypeStep, CacheStep
  <1> QED
    BY <1>1, <1>2, PTL DEF Spec

\* An entry that was set whole, and met no invalidation, does not outlive its
\* index: SigningCacheWrapper.set with any prefixes, lifetimes and failures.
THEOREM IndexOutlivesEntry == Spec => []IndexOutlives
  <1>1. TypeOK /\ CacheInv => IndexOutlives
    BY DEF CacheInv, UserInv, CacheFound, IndexOutlives, Setting, Owes
  <1> QED
    BY CacheAlways, <1>1, PTL

\* After an invalidation that reports success, what it covers is gone or as
\* new as when it began: invalidate_by_prefix and delete, however they meet
\* sets, failures and expiry.
THEOREM InvalidationSucceeds == Spec => []InvalidationHolds
  <1>1. TypeOK /\ CacheInv => InvalidationHolds
    BY DEF CacheInv, UserInv, CacheFound, InvalidationHolds, TypeOK
  <1> QED
    BY CacheAlways, <1>1, PTL

-----------------------------------------------------------------------------
(* The Graph clients that a request asks when it misses the role cache.    *)

\* The entries of the table, and what a task holds.
GraphEntries == [tenant : Tenants, client : Clients]
GraphTasks == [phase : Phases, tenant : Tenants, client : Clients \union {None},
               attempt : Attempts, retried : BOOLEAN,
               token : 0 .. MaxTokens, refused : 0 .. MaxTokens]

LEMMA GraphNumbers ==
    /\ MaxClients \in Nat \ {0} /\ MaxRetries \in Nat /\ MaxTokens \in Nat
    /\ None \notin Tasks /\ None \notin Clients
    /\ Attempts \subseteq Nat /\ 0 .. MaxClients \subseteq Attempts
    /\ 0 .. MaxRetries \subseteq Attempts
  <1>1. /\ MaxClients \in Nat \ {0} /\ MaxRetries \in Nat /\ MaxTokens \in Nat
        /\ None \notin Tasks /\ None \notin Clients
    BY GraphAssumption
  <1>2. /\ Attempts \subseteq Nat /\ 0 .. MaxClients \subseteq Attempts
        /\ 0 .. MaxRetries \subseteq Attempts
    BY <1>1, SMT DEF Attempts
  <1> QED
    BY <1>1, <1>2

LEMMA IdleGraphTask ==
    /\ IdleTask \in GraphTasks
    /\ IdleTask.phase = "idle" /\ IdleTask.attempt = 0 /\ IdleTask.client = None
    /\ IdleTask.retried = FALSE /\ IdleTask.token = 0 /\ IdleTask.refused = 0
  <1>1. (CHOOSE n \in Tenants : TRUE) \in Tenants
    BY GraphAssumption
  <1>2. 0 \in Attempts /\ 0 \in 0 .. MaxTokens
    BY GraphNumbers, SMT
  <1>3. "idle" \in Phases
    BY DEF Phases
  <1> QED
    BY <1>1, <1>2, <1>3 DEF IdleTask, GraphTasks

LEMMA GraphTyped == GraphTypeOK => task \in [Tasks -> GraphTasks]
  BY DEF GraphTypeOK, GraphTasks

LEMMA GraphAgain ==
    ASSUME task \in [Tasks -> GraphTasks], NEW t \in Tasks, Again(t)
    PROVE  /\ task' \in [Tasks -> GraphTasks]
           /\ task'[t].phase \in {"token", "idle"} /\ task'[t].token = 0
           /\ task'[t].phase = "token" =>
                 task'[t] = [task[t] EXCEPT !.phase = "token", !.token = 0, !.attempt = @ + 1]
           /\ task'[t].phase = "idle" => task'[t] = IdleTask
           /\ \A u \in Tasks \ {t} : task'[u] = task[u]
  <1>1. CASE task[t].attempt < MaxRetries
    <2> DEFINE k == task[t].attempt + 1
    <2>1. k \in Attempts
      <3>1. task[t].attempt \in Attempts
        BY DEF GraphTasks
      <3>2. task[t].attempt \in Nat /\ MaxRetries \in Nat
        BY <3>1, GraphNumbers
      <3>3. k \in 0 .. MaxRetries
        BY <1>1, <3>2, SMT
      <3> QED
        BY <3>3, GraphNumbers
    <2>2. task' = [task EXCEPT ![t].phase = "token", ![t].token = 0, ![t].attempt = k]
      BY <1>1 DEF Again
    <2> DEFINE r == [task[t] EXCEPT !.phase = "token", !.token = 0, !.attempt = k]
    <2>5. task' = [task EXCEPT ![t] = r]
      BY <2>2
    <2> HIDE DEF k
    <2>3. "token" \in Phases /\ 0 \in 0 .. MaxTokens
      BY GraphNumbers, SMT DEF Phases
    <2>4. r \in GraphTasks /\ r.phase = "token" /\ r.token = 0
      BY <2>1, <2>3 DEF GraphTasks
    <2>6. r = [task[t] EXCEPT !.phase = "token", !.token = 0, !.attempt = @ + 1]
      BY DEF k
    <2> HIDE DEF r
    <2> QED
      BY <2>4, <2>5, <2>6
  <1>2. CASE ~(task[t].attempt < MaxRetries)
    <2>1. task' = [task EXCEPT ![t] = IdleTask]
      BY <1>2 DEF Again
    <2> QED
      BY <2>1, IdleGraphTask
  <1> QED
    BY <1>1, <1>2

LEMMA GraphGo ==
    ASSUME task \in [Tasks -> GraphTasks], NEW t \in Tasks, NEW p \in Phases, Go(t, p)
    PROVE  /\ task' \in [Tasks -> GraphTasks]
           /\ task'[t] = [task[t] EXCEPT !.phase = p]
           /\ \A u \in Tasks \ {t} : task'[u] = task[u]
   BY DEF Go, GraphTasks

\* A task that goes on with a client, or with a token.
LEMMA GraphTaskSet ==
    ASSUME task \in [Tasks -> GraphTasks], NEW t \in Tasks, NEW p \in Phases
    PROVE  /\ \A c \in Clients :
                 [task EXCEPT ![t].phase = p, ![t].client = c] \in [Tasks -> GraphTasks]
           /\ \A k \in 0 .. MaxTokens :
                 [task EXCEPT ![t].phase = p, ![t].token = k] \in [Tasks -> GraphTasks]
  <1>1. ASSUME NEW c \in Clients
        PROVE  [task EXCEPT ![t].phase = p, ![t].client = c] \in [Tasks -> GraphTasks]
    BY <1>1, ZenonT(60) DEF GraphTasks
  <1>2. ASSUME NEW k \in 0 .. MaxTokens
        PROVE  [task EXCEPT ![t].phase = p, ![t].token = k] \in [Tasks -> GraphTasks]
    BY <1>2, ZenonT(60) DEF GraphTasks
  <1> QED
    BY <1>1, <1>2

LEMMA GraphReturn ==
    ASSUME task \in [Tasks -> GraphTasks], NEW t \in Tasks, Return(t)
    PROVE  /\ task' \in [Tasks -> GraphTasks]
           /\ task'[t] = IdleTask
           /\ \A u \in Tasks \ {t} : task'[u] = task[u]
   BY IdleGraphTask DEF Return

-----------------------------------------------------------------------------
(* The table of clients.                                                   *)

LEMMA GraphTableType ==
    ASSUME GraphTypeOK
    PROVE  /\ table \in Seq(GraphEntries) /\ Len(table) \in Nat
           /\ DOMAIN table = 1 .. Len(table)
           /\ \A i \in 1 .. Len(table) :
                 /\ table[i] \in GraphEntries
                 /\ table[i].tenant \in Tenants /\ table[i].client \in Clients
  <1>1. table \in Seq(GraphEntries)
    BY DEF GraphTypeOK, GraphEntries
  <1>2. \A i \in 1 .. Len(table) : table[i] \in GraphEntries
    BY <1>1, ElementOfSeq
  <1>3. \A e \in GraphEntries : e.tenant \in Tenants /\ e.client \in Clients
    BY DEF GraphEntries
  <1> QED
    BY <1>1, <1>2, <1>3, LenProperties

\* An entry that is moved to the end: the others keep their order.
MovedFrom(s, i, j) == IF j < i THEN j ELSE IF j < Len(s) THEN j + 1 ELSE i

LEMMA MovedToEnd ==
    ASSUME NEW s \in Seq(GraphEntries), NEW i \in 1 .. Len(s), NEW m,
           m = Append(Sequence!RemoveAt(s, i), s[i])
    PROVE  /\ m \in Seq(GraphEntries) /\ Len(m) = Len(s)
           /\ \A j \in 1 .. Len(s) :
                 m[j] = s[MovedFrom(s, i, j)]
  <1>1. Len(s) \in Nat /\ i \in Int /\ \A j \in 1 .. Len(s) : s[j] \in GraphEntries
    BY LenProperties, ElementOfSeq
  <1> DEFINE a == SubSeq(s, 1, i - 1)
             b == SubSeq(s, i + 1, Len(s))
  <1>2. /\ a \in Seq(GraphEntries) /\ Len(a) = i - 1
        /\ \A j \in 1 .. i - 1 : a[j] = s[j]
    <2>1. \A j \in 1 .. i - 1 : s[j] \in GraphEntries
      BY <1>1, SMT
    <2>2. /\ a \in Seq(GraphEntries)
          /\ Len(a) = IF 1 <= i - 1 THEN (i - 1) - 1 + 1 ELSE 0
          /\ \A j \in 1 .. (i - 1) - 1 + 1 : a[j] = s[1 + j - 1]
      BY <1>1, <2>1, SubSeqProperties
    <2> HIDE DEF a
    <2> QED
      BY <1>1, <2>2, SMT
  <1>3. /\ b \in Seq(GraphEntries) /\ Len(b) = Len(s) - i
        /\ \A j \in 1 .. Len(s) - i : b[j] = s[j + i]
    <2>1. \A j \in i + 1 .. Len(s) : s[j] \in GraphEntries
      BY <1>1, SMT
    <2>2. /\ b \in Seq(GraphEntries)
          /\ Len(b) = IF i + 1 <= Len(s) THEN Len(s) - (i + 1) + 1 ELSE 0
          /\ \A j \in 1 .. Len(s) - (i + 1) + 1 : b[j] = s[(i + 1) + j - 1]
      <3>1. i + 1 \in Int /\ Len(s) \in Int
        BY <1>1, SMT
      <3> QED
        BY <2>1, <3>1, SubSeqProperties
    <2> HIDE DEF b
    <2> QED
      BY <1>1, <2>2, SMT
  <1> DEFINE r == a \o b
  <1>4. m = Append(r, s[i])
    BY DEF Sequence!RemoveAt
  <1> HIDE DEF a, b
  <1>5. /\ r \in Seq(GraphEntries) /\ Len(r) = (i - 1) + (Len(s) - i)
        /\ \A j \in 1 .. (i - 1) + (Len(s) - i) :
              r[j] = IF j <= i - 1 THEN a[j] ELSE b[j - (i - 1)]
    <2>1. /\ r \in Seq(GraphEntries) /\ Len(r) = Len(a) + Len(b)
          /\ \A j \in 1 .. Len(a) + Len(b) :
                r[j] = IF j <= Len(a) THEN a[j] ELSE b[j - Len(a)]
      <3>1. a \in Seq(GraphEntries) /\ b \in Seq(GraphEntries)
        BY <1>2, <1>3
      <3> QED
        BY <3>1, ConcatProperties
    <2> HIDE DEF r
    <2> QED
      BY <1>2, <1>3, <2>1
  <1> HIDE DEF r
  <1>6. /\ Len(r) = Len(s) - 1
        /\ \A j \in 1 .. Len(s) - 1 : r[j] = s[IF j < i THEN j ELSE j + 1]
    <2>1. ASSUME NEW j \in 1 .. Len(s) - 1
          PROVE  r[j] = s[IF j < i THEN j ELSE j + 1]
      <3>1. r[j] = IF j <= i - 1 THEN a[j] ELSE b[j - (i - 1)]
        BY <1>1, <1>5, SMT
      <3>2. CASE j < i
        BY <1>1, <1>2, <3>1, <3>2, SMT
      <3>3. CASE ~(j < i)
        <4>1. j - (i - 1) \in 1 .. Len(s) - i /\ (j - (i - 1)) + i = j + 1
          BY <1>1, <3>3, SMT
        <4>2. b[j - (i - 1)] = s[j + 1]
          BY <1>3, <4>1
        <4> QED
          BY <1>1, <3>1, <3>3, <4>2, SMT
      <3> QED
        BY <3>2, <3>3
    <2> QED
      BY <1>1, <1>5, <2>1, SMT
  <1>7. /\ m \in Seq(GraphEntries) /\ Len(m) = Len(r) + 1
        /\ \A j \in 1 .. Len(r) : m[j] = r[j]
        /\ m[Len(r) + 1] = s[i]
    BY <1>1, <1>4, <1>5, AppendProperties
  <1> QED
    BY <1>1, <1>6, <1>7, SMT DEF MovedFrom

\* There is a name for another client, whatever the table and the tasks hold.
LEMMA FreeName ==
    ASSUME GraphTypeOK, Len(table) < MaxClients
    PROVE  Free # {}
  <1> DEFINE kept == [i \in 1 .. Len(table) |-> table[i].client]
             held == [t \in Tasks |-> task[t].client]
             K == {table[i].client : i \in 1 .. Len(table)}
             H == {task[t].client : t \in Tasks}
  <1>1. /\ IsFiniteSet(Tasks) /\ IsFiniteSet(Clients)
        /\ Cardinality(Clients) >= MaxClients + Cardinality(Tasks)
    BY GraphAssumption
  <1>2. Len(table) \in Nat /\ MaxClients \in Nat /\ Kept = K
    BY GraphTableType, GraphNumbers DEF Kept
  <1>3. IsFiniteSet(K) /\ Cardinality(K) <= Len(table)
    <2>1. kept \in Surjection(1 .. Len(table), K)
      BY DEF Surjection
    <2>2. IsFiniteSet(1 .. Len(table)) /\ Cardinality(1 .. Len(table)) = Len(table)
      <3>1. /\ IsFiniteSet(1 .. Len(table))
            /\ Cardinality(1 .. Len(table)) = IF 1 > Len(table) THEN 0 ELSE Len(table) - 1 + 1
        <4>1. 1 \in Int /\ Len(table) \in Int
          BY <1>2, SMT
        <4> QED
          BY <4>1, FS_Interval
      <3> QED
        BY <1>2, <3>1, SMT
    <2> HIDE DEF kept, K
    <2> QED
      BY <2>1, <2>2, FS_Surjection
  <1>4. IsFiniteSet(H) /\ Cardinality(H) <= Cardinality(Tasks)
    <2>1. held \in Surjection(Tasks, H)
      BY DEF Surjection
    <2> HIDE DEF held, H
    <2> QED
      BY <1>1, <2>1, FS_Surjection
  <1>5. Free = Clients \ (K \union H)
    BY <1>2 DEF Free
  <1> HIDE DEF K, H
  <1>6. /\ IsFiniteSet(K \union H)
        /\ Cardinality(K \union H) <= Cardinality(K) + Cardinality(H)
    <2>1. /\ IsFiniteSet(K \union H) /\ IsFiniteSet(K \intersect H)
          /\ Cardinality(K \union H)
                = Cardinality(K) + Cardinality(H) - Cardinality(K \intersect H)
      BY <1>3, <1>4, FS_Union, FS_Intersection
    <2>2. /\ Cardinality(K) \in Nat /\ Cardinality(H) \in Nat
          /\ Cardinality(K \intersect H) \in Nat
      BY <1>3, <1>4, <2>1, FS_CardinalityType
    <2> QED
      BY <2>1, <2>2, SMT
  <1>7. ASSUME Free = {}
        PROVE  FALSE
    <2>1. Clients \subseteq K \union H
      BY <1>5, <1>7
    <2>2. Cardinality(Clients) <= Cardinality(K \union H)
      BY <1>6, <2>1, FS_Subset
    <2> QED
      BY <1>1, <1>2, <1>3, <1>4, <1>6, <2>2, FS_CardinalityType, SMT
  <1> QED
    BY <1>7

-----------------------------------------------------------------------------
(* The inductive invariant of the table.                                   *)

\* What the table, the lock and the connections keep to, from step to step.
GraphTableInv ==
    /\ Len(table) <= MaxClients
    /\ \A i, j \in 1 .. Len(table) : table[i].tenant = table[j].tenant => i = j
    /\ \A i, j \in 1 .. Len(table) : table[i].client = table[j].client => i = j
    /\ (\A t \in Tasks : task[t].phase # "close") =>
          \A i \in 1 .. Len(table) : table[i].client \in open \union cut

\* An open client is in the table, is being closed, or could not be closed.
GraphOpenInv ==
    \A c \in open :
        \/ \E i \in 1 .. Len(table) : table[i].client = c
        \/ c \in dropped
        \/ \E t \in Tasks : task[t].phase = "evict" /\ task[t].client = c

\* Who closes a client holds the lock; an evicted one is in the table no more,
\* and what was closed so far while the decoder is closed is counted.  What
\* it has not come to yet is open, or was come to by a close before it.
GraphTaskInv(t) ==
    /\ task[t].phase \in {"evict", "close"} => lock = t
    /\ task[t].phase = "evict" =>
          /\ Len(table) < MaxClients
          /\ \A i \in 1 .. Len(table) :
                table[i].tenant # task[t].tenant /\ table[i].client # task[t].client
    /\ task[t].phase = "idle" => task[t].attempt = 0
    /\ task[t].phase = "close" =>
          /\ task[t].attempt <= Len(table)
          /\ \A i \in 1 .. task[t].attempt :
                table[i].client \in open => table[i].client \in dropped
          /\ \A i \in 1 .. Len(table) :
                i > task[t].attempt => table[i].client \in open \union cut

GraphInv == GraphTableInv /\ GraphOpenInv /\ \A t \in Tasks : GraphTaskInv(t)

\* A step of one task that is none of the table's.
LEMMA GraphElsewhere ==
    ASSUME GraphInv, NEW t \in Tasks,
           table' = table, open' = open, dropped' = dropped, cut' = cut,
           \A u \in Tasks \ {t} : task'[u] = task[u] /\ (lock = u => lock' = u),
           task[t].phase \notin {"evict", "close"},
           task'[t].phase \notin {"evict", "close"},
           task'[t].phase = "idle" => task'[t].attempt = 0
    PROVE  GraphInv'
  <1>1. GraphTableInv' /\ GraphOpenInv'
    <2>1. (\A u \in Tasks : task'[u].phase # "close") => \A u \in Tasks : task[u].phase # "close"
      OBVIOUS
    <2>2. \A u \in Tasks : task[u].phase = "evict" => task'[u] = task[u]
      OBVIOUS
    <2> QED
      BY <2>1, <2>2 DEF GraphInv, GraphTableInv, GraphOpenInv
  <1>2. ASSUME NEW u \in Tasks
        PROVE  GraphTaskInv(u)'
    <2>1. GraphTaskInv(u)
      BY DEF GraphInv
    <2>2. CASE u = t
      BY <2>2 DEF GraphTaskInv
    <2>3. CASE u # t
      BY <2>1, <2>3 DEF GraphTaskInv
    <2> QED
      BY <2>2, <2>3
  <1> QED
    BY <1>1, <1>2 DEF GraphInv

\* While the lock is free, nobody closes a client.
LEMMA NobodyCloses ==
    ASSUME GraphInv, lock = None, NEW t \in Tasks
    PROVE  task[t].phase \notin {"evict", "close"}
  BY GraphNumbers DEF GraphInv, GraphTaskInv

\* While one holds the lock, nobody else closes a client.
LEMMA NobodyElseCloses ==
    ASSUME GraphInv, NEW t \in Tasks, lock = t, NEW u \in Tasks, u # t
    PROVE  task[u].phase \notin {"evict", "close"}
  BY DEF GraphInv, GraphTaskInv

LEMMA GraphFound ==
    ASSUME GraphTypeOK, GraphInv, NEW t \in Tasks, Found(t)
    PROVE  GraphInv'
  <1>1. PICK i \in 1 .. Len(table) :
           /\ table' = Append(Sequence!RemoveAt(table, i), table[i])
           /\ task' = [task EXCEPT ![t].phase = "token", ![t].client = table[i].client]
    BY GraphTableType DEF Found, Known
  <1>2. /\ open' = open /\ lock = None /\ lock' = lock /\ dropped' = dropped
        /\ cut' = cut
    BY DEF Found
  <1>3. \A u \in Tasks : task[u].phase \notin {"evict", "close"}
    BY <1>2, NobodyCloses
  <1>4. /\ \A u \in Tasks \ {t} : task'[u] = task[u]
        /\ task'[t].phase = "token"
    BY <1>1, GraphTyped DEF GraphTasks
  <1> DEFINE from(j) == MovedFrom(table, i, j)
  <1>5. /\ Len(table') = Len(table) /\ Len(table) \in Nat
        /\ \A j \in 1 .. Len(table) : table'[j] = table[from(j)]
    <2>1. table \in Seq(GraphEntries) /\ Len(table) \in Nat
      BY GraphTableType
    <2>2. table' = Append(Sequence!RemoveAt(table, i), table[i])
      BY <1>1
    <2>3. /\ Len(table') = Len(table)
          /\ \A j \in 1 .. Len(table) :
                table'[j] = table[MovedFrom(table, i, j)]
      BY <2>1, <2>2, MovedToEnd, ZenonT(60)
    <2> QED
      BY <2>1, <2>3
  <1>6. \A j \in 1 .. Len(table) : from(j) \in 1 .. Len(table)
    BY <1>5, SMT DEF MovedFrom
  <1>7. \A j, k \in 1 .. Len(table) : from(j) = from(k) => j = k
    BY <1>5, SMT DEF MovedFrom
  <1>8. \A k \in 1 .. Len(table) : \E j \in 1 .. Len(table) : from(j) = k
    <2> TAKE k \in 1 .. Len(table)
    <2>1. CASE k < i
      BY <1>5, <2>1, SMT DEF MovedFrom
    <2>2. CASE k = i
      BY <1>5, <2>2, SMT DEF MovedFrom
    <2>3. CASE k > i
      <3>1. k - 1 \in 1 .. Len(table) /\ from(k - 1) = k
        BY <1>5, <2>3, SMT DEF MovedFrom
      <3> QED
        BY <3>1
    <2> QED
      BY <2>1, <2>2, <2>3, SMT DEF MovedFrom
  <1> HIDE DEF from
  <1>9. GraphTableInv'
    <2>1. ASSUME NEW j \in 1 .. Len(table'), NEW k \in 1 .. Len(table'),
                 table'[j].tenant = table'[k].tenant
          PROVE  j = k
      <3>1. table[from(j)].tenant = table[from(k)].tenant
        BY <1>5, <2>1
      <3>2. from(j) \in 1 .. Len(table) /\ from(k) \in 1 .. Len(table)
        BY <1>5, <1>6
      <3>3. from(j) = from(k)
        BY <3>1, <3>2 DEF GraphInv, GraphTableInv
      <3> QED
        BY <1>5, <1>7, <3>3
    <2>2. ASSUME NEW j \in 1 .. Len(table'), NEW k \in 1 .. Len(table'),
                 table'[j].client = table'[k].client
          PROVE  j = k
      <3>1. table[from(j)].client = table[from(k)].client
        BY <1>5, <2>2
      <3>2. from(j) \in 1 .. Len(table) /\ from(k) \in 1 .. Len(table)
        BY <1>5, <1>6
      <3>3. from(j) = from(k)
        BY <3>1, <3>2 DEF GraphInv, GraphTableInv
      <3> QED
        BY <1>5, <1>7, <3>3
    <2>3. \A j \in 1 .. Len(table') : table'[j].client \in open' \union cut'
      BY <1>2, <1>3, <1>5, <1>6 DEF GraphInv, GraphTableInv
    <2>4. Len(table') <= MaxClients
      BY <1>5 DEF GraphInv, GraphTableInv
    <2> QED
      BY <2>1, <2>2, <2>3, <2>4 DEF GraphTableInv
  <1>10. GraphOpenInv'
    <2> SUFFICES ASSUME NEW c \in open', c \notin dropped'
                 PROVE  \E j \in 1 .. Len(table') : table'[j].client = c
      BY DEF GraphOpenInv
    <2>1. PICK k \in 1 .. Len(table) : table[k].client = c
      BY <1>2, <1>3 DEF GraphInv, GraphOpenInv
    <2> QED
      BY <1>5, <1>8, <2>1
  <1>11. ASSUME NEW u \in Tasks
         PROVE  GraphTaskInv(u)'
    <2>1. GraphTaskInv(u)
      BY DEF GraphInv
    <2> QED
      BY <1>3, <1>4, <2>1 DEF GraphTaskInv
  <1> QED
    BY <1>9, <1>10, <1>11 DEF GraphInv

\* A new client in the table, whether or not another one was taken out for it.
LEMMA GraphAdd ==
    ASSUME GraphTypeOK, GraphInv, NEW t \in Tasks,
           NEW opened, NEW lost, Add(t, opened, lost), Len(table) < MaxClients,
           opened \subseteq open, dropped \subseteq lost,
           \A u \in Tasks \ {t} : task[u].phase \notin {"evict", "close"},
           task[t].phase # "close",
           \A i \in 1 .. Len(table) :
               /\ table[i].tenant # task[t].tenant
               /\ table[i].client \in opened \union cut,
           task[t].phase = "evict" => task[t].client \notin opened \/ task[t].client \in lost
    PROVE  GraphInv'
  <1> DEFINE c == CHOOSE c \in Free : TRUE
  <1>1. /\ table' = Append(table, [tenant |-> task[t].tenant, client |-> c])
        /\ open' = opened \union {c} /\ dropped' = lost \ {c} /\ lock' = None
        /\ task' = [task EXCEPT ![t].phase = "token", ![t].client = c]
        /\ cut' = cut
    BY DEF Add
  <1>2. c \in Free
    BY FreeName
  <1> HIDE DEF c
  <1>3. /\ c \in Clients /\ \A i \in 1 .. Len(table) : table[i].client # c
        /\ Len(table) \in Nat
    BY <1>2, GraphTableType DEF Free, Kept
  <1>4. /\ \A u \in Tasks \ {t} : task'[u] = task[u]
        /\ task'[t].phase = "token"
    BY <1>1, GraphTyped DEF GraphTasks
  <1> DEFINE e == [tenant |-> task[t].tenant, client |-> c]
  <1>5. e \in GraphEntries /\ e.tenant = task[t].tenant /\ e.client = c
    <2>1. task[t].tenant \in Tenants
      BY GraphTyped DEF GraphTasks
    <2> QED
      BY <1>3, <2>1 DEF GraphEntries
  <1> HIDE DEF e
  <1>6. /\ Len(table') = Len(table) + 1
        /\ \A i \in 1 .. Len(table) : table'[i] = table[i]
        /\ table'[Len(table) + 1] = e
    <2>1. table' = Append(table, e) /\ table \in Seq(GraphEntries)
      BY <1>1, GraphTableType DEF e
    <2> QED
      BY <1>5, <2>1, AppendProperties
  <1>7. \A i \in 1 .. Len(table') : i \in 1 .. Len(table) \/ i = Len(table) + 1
    BY <1>3, <1>6, SMT
  <1>8. GraphTableInv'
    <2>1. \A i, j \in 1 .. Len(table') : table'[i].tenant = table'[j].tenant => i = j
      BY <1>5, <1>6, <1>7 DEF GraphInv, GraphTableInv
    <2>2. \A i, j \in 1 .. Len(table') : table'[i].client = table'[j].client => i = j
      BY <1>3, <1>5, <1>6, <1>7 DEF GraphInv, GraphTableInv
    <2>3. \A i \in 1 .. Len(table') : table'[i].client \in open' \union cut'
      BY <1>1, <1>5, <1>6, <1>7
    <2>4. Len(table') <= MaxClients
      BY <1>3, <1>6, GraphNumbers, SMT
    <2> QED
      BY <2>1, <2>2, <2>3, <2>4 DEF GraphTableInv
  <1>9. GraphOpenInv'
    <2> SUFFICES ASSUME NEW d \in open', d \notin dropped'
                 PROVE  \E j \in 1 .. Len(table') : table'[j].client = d
      BY DEF GraphOpenInv
    <2>1. CASE d = c
      <3>1. Len(table) + 1 \in 1 .. Len(table')
        BY <1>3, <1>6, SMT
      <3> QED
        BY <1>5, <1>6, <2>1, <3>1
    <2>2. CASE d # c
      <3>1. d \in open /\ d \in opened /\ d \notin lost /\ d \notin dropped
        BY <1>1, <2>2
      <3>2. PICK j \in 1 .. Len(table) : table[j].client = d
        BY <3>1 DEF GraphInv, GraphOpenInv
      <3>3. j \in 1 .. Len(table') /\ table'[j].client = d
        BY <1>3, <1>6, <3>2, SMT
      <3> QED
        BY <3>3
    <2> QED
      BY <2>1, <2>2
  <1>10. ASSUME NEW u \in Tasks
         PROVE  GraphTaskInv(u)'
    <2>1. GraphTaskInv(u)
      BY DEF GraphInv
    <2> QED
      BY <1>4, <2>1 DEF GraphTaskInv
  <1> QED
    BY <1>8, <1>9, <1>10 DEF GraphInv

\* A client is created for a tenant that has none, and nobody is closing one.
LEMMA GraphCreate ==
    ASSUME GraphTypeOK, GraphInv, NEW t \in Tasks, Create(t)
    PROVE  GraphInv'
  <1>1. /\ lock = None /\ Known(t) = {} /\ Len(table) < MaxClients
        /\ Add(t, open, dropped)
    BY DEF Create
  <1>2. \A u \in Tasks : task[u].phase \notin {"evict", "close"}
    BY <1>1, NobodyCloses
  <1>3. \A i \in 1 .. Len(table) :
            table[i].tenant # task[t].tenant /\ table[i].client \in open \union cut
    BY <1>1, <1>2, GraphTableType DEF GraphInv, GraphTableInv, Known
  <1> QED
    BY <1>1, <1>2, <1>3, GraphAdd

\* A client that is closed for another: none that the table has.
LEMMA GraphEvicted ==
    ASSUME GraphTypeOK, GraphInv, NEW t \in Tasks,
           Closed(t) \/ CloseFails(t)
    PROVE  GraphInv'
  <1>1. task[t].phase = "evict" /\ lock = t
    BY DEF Closed, CloseFails, At, GraphInv, GraphTaskInv
  <1>2. \A u \in Tasks \ {t} : task[u].phase \notin {"evict", "close"}
    BY <1>1, NobodyElseCloses
  <1>3. /\ Len(table) < MaxClients
        /\ \A i \in 1 .. Len(table) :
              /\ table[i].tenant # task[t].tenant /\ table[i].client # task[t].client
              /\ table[i].client \in open \union cut
    BY <1>1, <1>2 DEF GraphInv, GraphTableInv, GraphTaskInv
  <1>4. CASE Closed(t)
    <2> DEFINE left == open \ {task[t].client}
    <2>1. Add(t, left, dropped)
      BY <1>4 DEF Closed, My
    <2>2. left \subseteq open /\ task[t].client \notin left
      OBVIOUS
    <2>3. \A i \in 1 .. Len(table) : table[i].client \in left \union cut
      BY <1>3
    <2> HIDE DEF left
    <2> QED
      BY <1>1, <1>2, <1>3, <2>1, <2>2, <2>3, GraphAdd
  <1>5. CASE CloseFails(t)
    <2> DEFINE lost == dropped \union (open \intersect {task[t].client})
    <2>1. Add(t, open, lost)
      BY <1>5 DEF CloseFails, My
    <2>2. dropped \subseteq lost /\ (task[t].client \notin open \/ task[t].client \in lost)
      OBVIOUS
    <2> HIDE DEF lost
    <2> QED
      BY <1>1, <1>2, <1>3, <2>1, <2>2, GraphAdd
  <1> QED
    BY <1>4, <1>5

LEMMA GraphEvict ==
    ASSUME GraphTypeOK, GraphInv, NEW t \in Tasks, Evict(t)
    PROVE  GraphInv'
  <1>1. /\ lock = None /\ lock' = t /\ open' = open /\ dropped' = dropped
        /\ table' = Tail(table) /\ Known(t) = {} /\ Len(table) >= MaxClients
        /\ cut' = cut \ {Head(table).client}
        /\ task' = [task EXCEPT ![t].phase = "evict", ![t].client = Head(table).client]
    BY DEF Evict
  <1>2. \A u \in Tasks : task[u].phase \notin {"evict", "close"}
    BY <1>1, NobodyCloses
  <1>3. /\ \A u \in Tasks \ {t} : task'[u] = task[u]
        /\ task'[t].phase = "evict" /\ task'[t].client = Head(table).client
        /\ task'[t].tenant = task[t].tenant
    BY <1>1, GraphTyped DEF GraphTasks
  <1>4. /\ Len(table) \in Nat /\ Len(table) > 0 /\ Head(table) = table[1]
        /\ Len(table') = Len(table) - 1
        /\ \A i \in 1 .. Len(table) - 1 : table'[i] = table[i + 1]
    <2>1. table \in Seq(GraphEntries) /\ Len(table) \in Nat /\ MaxClients > 0 /\ MaxClients \in Nat
      BY GraphTableType, GraphNumbers
    <2>2. Len(table) > 0 /\ table # <<>>
      BY <1>1, <2>1, SMT
    <2> QED
      BY <1>1, <2>1, <2>2, HeadTailProperties, SMT
  <1> DEFINE from(i) == i + 1
  <1>5. \A i \in 1 .. Len(table') :
            from(i) \in 1 .. Len(table) /\ from(i) # 1 /\ table'[i] = table[from(i)]
    BY <1>4, SMT
  <1>6. 1 \in 1 .. Len(table) /\ Len(table') < MaxClients
    BY <1>4, GraphNumbers, SMT DEF GraphInv, GraphTableInv
  <1>7. \A i, j \in 1 .. Len(table') : from(i) = from(j) => i = j
    BY SMT
  <1> HIDE DEF from
  <1>8. GraphTableInv'
    <2>1. \A i, j \in 1 .. Len(table') : table'[i].tenant = table'[j].tenant => i = j
      BY <1>5, <1>7 DEF GraphInv, GraphTableInv
    <2>2. \A i, j \in 1 .. Len(table') : table'[i].client = table'[j].client => i = j
      BY <1>5, <1>7 DEF GraphInv, GraphTableInv
    <2>3. ASSUME NEW i \in 1 .. Len(table')
          PROVE  table'[i].client \in open' \union cut'
      <3>1. table[from(i)].client \in open \union cut
        BY <1>2, <1>5 DEF GraphInv, GraphTableInv
      <3>2. table[from(i)].client # Head(table).client
        BY <1>4, <1>5, <1>6 DEF GraphInv, GraphTableInv
      <3> QED
        BY <1>1, <1>5, <3>1, <3>2
    <2>4. Len(table') <= MaxClients
      BY <1>4, <1>6, GraphNumbers, SMT
    <2> QED
      BY <2>1, <2>2, <2>3, <2>4 DEF GraphTableInv
  <1>9. GraphOpenInv'
    <2> SUFFICES ASSUME NEW c \in open', c \notin dropped', task'[t].client # c
                 PROVE  \E j \in 1 .. Len(table') : table'[j].client = c
      BY <1>3 DEF GraphOpenInv
    <2>1. PICK j \in 1 .. Len(table) : table[j].client = c
      BY <1>1, <1>2 DEF GraphInv, GraphOpenInv
    <2>2. j # 1
      BY <1>3, <1>4, <2>1
    <2>3. j - 1 \in 1 .. Len(table') /\ table'[j - 1] = table[j]
      <3>1. j - 1 \in 1 .. Len(table) - 1 /\ (j - 1) + 1 = j
        BY <1>4, <2>2, SMT
      <3> QED
        BY <1>4, <3>1
    <2> QED
      BY <2>1, <2>3
  <1>10. ASSUME NEW u \in Tasks
         PROVE  GraphTaskInv(u)'
    <2>1. GraphTaskInv(u)
      BY DEF GraphInv
    <2>2. CASE u = t
      <3>1. ASSUME NEW i \in 1 .. Len(table')
            PROVE  table'[i].tenant # task'[t].tenant /\ table'[i].client # task'[t].client
        <4>1. table[from(i)].tenant # task[t].tenant
          BY <1>1, <1>5, GraphTableType DEF Known
        <4>2. table[from(i)].client # table[1].client
          BY <1>5, <1>6 DEF GraphInv, GraphTableInv
        <4> QED
          BY <1>3, <1>4, <1>5, <4>1, <4>2
      <3> QED
        BY <1>1, <1>3, <1>6, <2>2, <3>1 DEF GraphTaskInv
    <2>3. CASE u # t
      BY <1>2, <1>3, <2>1, <2>3 DEF GraphTaskInv
    <2> QED
      BY <2>2, <2>3
  <1> QED
    BY <1>8, <1>9, <1>10 DEF GraphInv

LEMMA GraphCloseAll ==
    ASSUME GraphTypeOK, GraphInv, NEW t \in Tasks, CloseAll(t)
    PROVE  GraphInv'
  <1>1. /\ task[t].phase = "idle" /\ lock = None /\ lock' = t
        /\ table' = table /\ open' = open /\ dropped' = dropped /\ cut' = cut
    BY DEF CloseAll, At
  <1>2. /\ \A u \in Tasks \ {t} : task'[u] = task[u]
        /\ task'[t].phase = "close" /\ task'[t].attempt = task[t].attempt
    BY GraphTyped DEF CloseAll, Go, GraphTasks
  <1>3. \A u \in Tasks : task[u].phase \notin {"evict", "close"}
    BY <1>1, NobodyCloses
  <1>4. task[t].attempt = 0 /\ Len(table) \in Nat
    BY <1>1, GraphTableType DEF GraphInv, GraphTaskInv
  <1>5. GraphTableInv' /\ GraphOpenInv'
    BY <1>1, <1>2, <1>3 DEF GraphInv, GraphTableInv, GraphOpenInv
  <1>6. GraphTaskInv(t)'
    <2>1. task'[t].attempt <= Len(table') /\ 1 .. task'[t].attempt = {}
      BY <1>1, <1>2, <1>4, SMT
    <2>2. \A i \in 1 .. Len(table) : table[i].client \in open \union cut
      BY <1>3 DEF GraphInv, GraphTableInv
    <2> QED
      BY <1>1, <1>2, <2>1, <2>2 DEF GraphTaskInv
  <1>7. ASSUME NEW u \in Tasks, u # t
        PROVE  GraphTaskInv(u)'
    <2>1. GraphTaskInv(u)
      BY DEF GraphInv
    <2> QED
      BY <1>2, <1>3, <1>7, <2>1 DEF GraphTaskInv
  <1> QED
    BY <1>5, <1>6, <1>7 DEF GraphInv

LEMMA GraphCloseNext ==
    ASSUME GraphTypeOK, GraphInv, NEW t \in Tasks, CloseNext(t)
    PROVE  GraphInv'
  <1> DEFINE i == task[t].attempt + 1
             x == table[i].client
  <1>1. /\ task[t].phase = "close" /\ i <= Len(table)
        /\ task' = [task EXCEPT ![t].attempt = i]
        /\ \/ open' = open \ {x} /\ dropped' = dropped
           \/ dropped' = dropped \union (open \intersect {x}) /\ open' = open
        /\ table' = table /\ lock' = lock /\ cut' = cut
    BY DEF CloseNext, At
  <1>2. /\ task[t].attempt \in Nat /\ Len(table) \in Nat
    BY GraphTyped, GraphTableType, GraphNumbers DEF GraphTasks
  <1>3. \A j \in 1 .. i : j = i \/ j \in 1 .. task[t].attempt
    BY <1>2, SMT
  <1> HIDE DEF i
  <1>4. /\ \A u \in Tasks \ {t} : task'[u] = task[u]
        /\ task'[t].phase = "close" /\ task'[t].attempt = i
    BY <1>1, GraphTyped DEF GraphTasks
  <1>5. lock = t /\ lock' = t
    BY <1>1 DEF GraphInv, GraphTaskInv
  <1>6. \A u \in Tasks \ {t} : task[u].phase \notin {"evict", "close"}
    BY <1>5, NobodyElseCloses
  <1>7. x \in open' => x \in dropped'
    BY <1>1
  <1> HIDE DEF x
  <1>8. open' \subseteq open /\ dropped \subseteq dropped' /\ open \ {x} \subseteq open'
    BY <1>1
  <1>9. GraphTableInv' /\ GraphOpenInv'
    BY <1>1, <1>4, <1>6, <1>8 DEF GraphInv, GraphTableInv, GraphOpenInv
  <1>10. GraphTaskInv(t)'
    <2>1. ASSUME NEW j \in 1 .. i, table[j].client \in open'
          PROVE  table[j].client \in dropped'
      <3>1. CASE j = i
        BY <1>7, <2>1, <3>1 DEF x
      <3>2. CASE j # i
        <4>1. j \in 1 .. task[t].attempt
          BY <1>3, <3>2
        <4> QED
          BY <1>1, <1>8, <2>1, <4>1 DEF GraphInv, GraphTaskInv
      <3> QED
        BY <3>1, <3>2
    <2>2. ASSUME NEW j \in 1 .. Len(table), j > i
          PROVE  table[j].client \in open' \union cut'
      <3>1. i \in 1 .. Len(table) /\ j # i /\ j > task[t].attempt
        BY <1>1, <1>2, <2>2, SMT DEF i
      <3>2. table[j].client \in open \union cut
        BY <1>1, <3>1 DEF GraphInv, GraphTaskInv
      <3>3. table[j].client # x
        BY <3>1 DEF x, GraphInv, GraphTableInv
      <3> QED
        BY <1>1, <1>8, <3>2, <3>3
    <2> QED
      BY <1>1, <1>4, <1>5, <2>1, <2>2 DEF GraphTaskInv
  <1>11. ASSUME NEW u \in Tasks, u # t
         PROVE  GraphTaskInv(u)'
    <2>1. GraphTaskInv(u)
      BY DEF GraphInv
    <2> QED
      BY <1>4, <1>6, <1>11, <2>1 DEF GraphTaskInv
  <1> QED
    BY <1>9, <1>10, <1>11 DEF GraphInv

LEMMA GraphCloseEnds ==
    ASSUME GraphTypeOK, GraphInv, NEW t \in Tasks, CloseEnds(t)
    PROVE  GraphInv'
  <1>1. /\ task[t].phase = "close" /\ task[t].attempt = Len(table)
        /\ table' = <<>> /\ lock' = None /\ open' = open /\ dropped' = dropped
        /\ Return(t)
    BY DEF CloseEnds, At
  <1>2. /\ \A u \in Tasks \ {t} : task'[u] = task[u]
        /\ task'[t].phase = "idle" /\ task'[t].attempt = 0
    BY <1>1, GraphTyped, GraphReturn, IdleGraphTask
  <1>3. lock = t
    BY <1>1 DEF GraphInv, GraphTaskInv
  <1>4. \A u \in Tasks \ {t} : task[u].phase \notin {"evict", "close"}
    BY <1>3, NobodyElseCloses
  <1>5. Len(table') = 0 /\ 1 .. 0 = {} /\ 0 <= MaxClients
    BY <1>1, GraphNumbers, SMT
  <1>6. GraphTableInv'
    BY <1>5 DEF GraphTableInv
  <1>7. GraphOpenInv'
    <2> SUFFICES ASSUME NEW c \in open'
                 PROVE  c \in dropped'
      BY DEF GraphOpenInv
    <2>1. c \in dropped \/ \E i \in 1 .. Len(table) : table[i].client = c
      BY <1>1, <1>4 DEF GraphInv, GraphOpenInv
    <2> QED
      BY <1>1, <2>1 DEF GraphInv, GraphTaskInv
  <1>8. ASSUME NEW u \in Tasks
        PROVE  GraphTaskInv(u)'
    <2>1. GraphTaskInv(u)
      BY DEF GraphInv
    <2> QED
      BY <1>2, <1>4, <2>1 DEF GraphTaskInv
  <1> QED
    BY <1>6, <1>7, <1>8 DEF GraphInv

\* A close that is cancelled: what it came to may be closed, and is in the table.
LEMMA GraphCancelClose ==
    ASSUME GraphTypeOK, GraphInv, NEW t \in Tasks, CancelClose(t)
    PROVE  GraphInv'
  <1> DEFINE i == task[t].attempt + 1
             x == table[i].client
             reached == {table[j].client : j \in 1 .. i}
  <1>1. /\ task[t].phase = "close" /\ i <= Len(table) /\ Return(t)
        /\ \/ open' = open \ {x} /\ dropped' = dropped
           \/ dropped' = dropped \union (open \intersect {x}) /\ open' = open
        /\ cut' = cut \union reached
        /\ table' = table
    BY DEF CancelClose, At
  <1>2. /\ task[t].attempt \in Nat /\ Len(table) \in Nat
    BY GraphTyped, GraphTableType, GraphNumbers DEF GraphTasks
  <1>3. ASSUME NEW j \in 1 .. Len(table), j \notin 1 .. i
        PROVE  j > task[t].attempt /\ j # i
    BY <1>2, <1>3, SMT
  <1>4. i \in 1 .. Len(table) /\ i \in 1 .. i
    BY <1>1, <1>2, SMT
  <1> HIDE DEF i
  <1>5. /\ \A u \in Tasks \ {t} : task'[u] = task[u]
        /\ task'[t].phase = "idle" /\ task'[t].attempt = 0
    BY <1>1, GraphTyped, GraphReturn, IdleGraphTask
  <1>6. lock = t
    BY <1>1 DEF GraphInv, GraphTaskInv
  <1>7. \A u \in Tasks \ {t} : task[u].phase \notin {"evict", "close"}
    BY <1>6, NobodyElseCloses
  <1>8. ASSUME NEW j \in 1 .. Len(table)
        PROVE  table[j].client \in open' \union cut'
    <2>1. CASE j \in 1 .. i
      BY <1>1, <2>1
    <2>2. CASE j > task[t].attempt /\ j # i
      <3>1. table[j].client \in open \union cut
        BY <1>1, <2>2 DEF GraphInv, GraphTaskInv
      <3>2. table[j].client # x
        BY <1>4, <2>2 DEF GraphInv, GraphTableInv
      <3> HIDE DEF x
      <3> QED
        BY <1>1, <3>1, <3>2
    <2> QED
      BY <1>3, <2>1, <2>2
  <1> HIDE DEF reached, x
  <1>9. open' \subseteq open /\ dropped \subseteq dropped'
    BY <1>1
  <1>10. GraphTableInv' /\ GraphOpenInv'
    BY <1>1, <1>5, <1>7, <1>8, <1>9 DEF GraphInv, GraphTableInv, GraphOpenInv
  <1>11. ASSUME NEW u \in Tasks
         PROVE  GraphTaskInv(u)'
    <2>1. GraphTaskInv(u)
      BY DEF GraphInv
    <2> QED
      BY <1>5, <1>7, <2>1 DEF GraphTaskInv
  <1> QED
    BY <1>10, <1>11 DEF GraphInv

\* A lookup is cancelled where it awaits: a client that was being closed is dropped.
LEMMA GraphCancel ==
    ASSUME GraphTypeOK, GraphInv, NEW t \in Tasks, Cancel(t)
    PROVE  GraphInv'
  <1>1. /\ task[t].phase # "close" /\ Return(t)
        /\ lock' = IF lock = t THEN None ELSE lock
        /\ dropped' = IF task[t].phase = "evict"
                      THEN dropped \union (open \intersect {task[t].client}) ELSE dropped
        /\ table' = table /\ open' = open /\ cut' = cut
    BY DEF Cancel, At, My
  <1>2. /\ \A u \in Tasks \ {t} : task'[u] = task[u]
        /\ task'[t].phase = "idle" /\ task'[t].attempt = 0
    BY <1>1, GraphTyped, GraphReturn, IdleGraphTask
  <1>3. CASE task[t].phase # "evict"
    <2>1. \A u \in Tasks \ {t} : lock = u => lock' = u
      BY <1>1
    <2> QED
      BY <1>1, <1>2, <1>3, <2>1, GraphElsewhere
  <1>4. CASE task[t].phase = "evict"
    <2>1. lock = t
      BY <1>4 DEF GraphInv, GraphTaskInv
    <2>2. \A u \in Tasks \ {t} : task[u].phase \notin {"evict", "close"}
      BY <2>1, NobodyElseCloses
    <2>3. GraphTableInv'
      BY <1>1, <1>2, <2>2 DEF GraphInv, GraphTableInv
    <2>4. GraphOpenInv'
      <3> SUFFICES ASSUME NEW c \in open', c \notin dropped'
                   PROVE  \E j \in 1 .. Len(table') : table'[j].client = c
        BY DEF GraphOpenInv
      <3>1. c \in open /\ c \notin dropped /\ c # task[t].client
        BY <1>1, <1>4
      <3> QED
        BY <1>1, <2>2, <3>1 DEF GraphInv, GraphOpenInv
    <2>5. ASSUME NEW u \in Tasks
          PROVE  GraphTaskInv(u)'
      <3>1. GraphTaskInv(u)
        BY DEF GraphInv
      <3> QED
        BY <1>2, <2>2, <3>1 DEF GraphTaskInv
    <2> QED
      BY <2>3, <2>4, <2>5 DEF GraphInv
  <1> QED
    BY <1>3, <1>4

-----------------------------------------------------------------------------
(* The types.                                                              *)

\* What the types of the parts say of the whole.
LEMMA GraphParts ==
    ASSUME GraphTypeOK
    PROVE  /\ table \in Seq(GraphEntries) /\ open \subseteq Clients /\ dropped \subseteq Clients
           /\ lock \in Tasks \union {None} /\ tokenLock \in [Clients -> Tasks \union {None}]
           /\ store \in [Tenants -> 0 .. MaxTokens] /\ issued \in 0 .. MaxTokens
           /\ task \in [Tasks -> GraphTasks]
  BY DEF GraphTypeOK, GraphEntries, GraphTasks

LEMMA GraphCut == GraphTypeOK => cut \subseteq Clients
  BY DEF GraphTypeOK

LEMMA GraphLocks ==
    ASSUME GraphTypeOK, NEW t \in Tasks, TakeLock(t) \/ ReleaseLock(t)
    PROVE  tokenLock' \in [Clients -> Tasks \union {None}]
  BY GraphParts DEF TakeLock, ReleaseLock, Unlocked

\* The steps of a task that leave the table, the clients and the lock alone.
LEMMA GraphRequestTypes ==
    ASSUME GraphTypeOK, NEW t \in Tasks,
           \/ \E n \in Tenants : Start(t, n)
           \/ Attempt(t) \/ Get(t) \/ Login(t) \/ SetToken(t)
           \/ Fails(t) \/ Answer(t) \/ Retry(t) \/ Refused(t)
           \/ Refuse(t) \/ Drop(t) \/ DropFails(t)
    PROVE  GraphTypeOK'
  <1>1. /\ table' = table /\ open' = open /\ lock' = lock /\ dropped' = dropped
        /\ cut' = cut
    BY DEF Start, Attempt, Get, Login, SetToken, Fails,
           Answer, Retry, Refused, Refuse, Drop, DropFails,
           TableSame
  <1>2. tokenLock' \in [Clients -> Tasks \union {None}]
    <2>1. tokenLock' = tokenLock \/ TakeLock(t) \/ ReleaseLock(t)
      BY DEF Start, Attempt, Get, Login, SetToken, Fails,
             Answer, Retry, Refused, Refuse, Drop,
             DropFails, TokensSame
    <2> QED
      BY <2>1, GraphLocks, GraphParts
  <1>3. task[t] \in GraphTasks /\ task[t].token \in 0 .. MaxTokens /\ task[t].tenant \in Tenants
    BY GraphParts DEF GraphTasks
  <1>4. 0 \in 0 .. MaxTokens /\ issued + 1 \in Int
    BY GraphNumbers, GraphParts, SMT
  <1>5. store' \in [Tenants -> 0 .. MaxTokens]
    <2>1. \/ store' = store
          \/ store' = [store EXCEPT ![task[t].tenant] = task[t].token]
          \/ store' = [store EXCEPT ![task[t].tenant] = 0]
      BY DEF Start, Attempt, Get, Login, SetToken, Fails,
             Answer, Retry, Refused, Refuse, Drop,
             DropFails, TokensSame
    <2> QED
      BY <1>3, <1>4, <2>1, GraphParts
  <1>6. issued' \in 0 .. MaxTokens
    <2>1. \/ issued' = issued
          \/ issued < MaxTokens /\ issued' = issued + 1
      BY DEF Start, Attempt, Get, Login, SetToken, Fails,
             Answer, Retry, Refused, Refuse, Drop,
             DropFails, TokensSame
    <2> QED
      BY <2>1, GraphNumbers, GraphParts, SMT
  <1>7. /\ "want" \in Phases /\ "get" \in Phases /\ "post" \in Phases
        /\ "set" \in Phases /\ "send" \in Phases /\ "refuse" \in Phases
        /\ "drop" \in Phases
    BY DEF Phases
  <1>8. task' \in [Tasks -> GraphTasks]
    <2>1. ASSUME NEW n \in Tenants, Start(t, n)
          PROVE  task' \in [Tasks -> GraphTasks]
      BY <1>7, <2>1, GraphParts, ZenonT(60) DEF Start, GraphTasks
    <2>2. CASE Attempt(t) \/ Refuse(t) \/ SetToken(t)
      BY <1>7, <2>2, GraphParts, GraphGo DEF Attempt, Refuse, SetToken
    <2>3. CASE Get(t)
      <3>1. CASE Stored(t) # 0
        <4>1. task' = [task EXCEPT ![t].phase = "send", ![t].token = Stored(t)]
          BY <2>3, <3>1 DEF Get
        <4>2. Stored(t) \in 0 .. MaxTokens
          BY <1>3, GraphParts DEF Stored
        <4> QED
          BY <1>7, <4>1, <4>2, GraphParts, GraphTaskSet
      <3>2. CASE Stored(t) = 0
        <4>1. Go(t, "post")
          BY <2>3, <3>2 DEF Get
        <4> QED
          BY <1>7, <4>1, GraphParts, GraphGo
      <3> QED
        BY <3>1, <3>2
    <2>4. CASE Login(t)
      <3>1. task' = [task EXCEPT ![t].phase = "set", ![t].token = issued']
        BY <2>4 DEF Login
      <3> QED
        BY <1>6, <1>7, <3>1, GraphParts, GraphTaskSet
    <2>5. CASE Fails(t) \/ Answer(t) \/ DropFails(t)
      <3>1. Return(t)
        BY <2>5 DEF Fails, Answer, DropFails
      <3> QED
        BY <3>1, GraphParts, GraphReturn
    <2>6. CASE Retry(t) \/ Drop(t)
      <3>1. Again(t)
        BY <2>6 DEF Retry, Drop
      <3> QED
        BY <3>1, GraphParts, GraphAgain
    <2>7. CASE Refused(t)
      <3>1. CASE task[t].retried
        <4>1. Return(t)
          BY <2>7, <3>1 DEF Refused
        <4> QED
          BY <4>1, GraphParts, GraphReturn
      <3>2. CASE ~task[t].retried
        <4>1. task' = [task EXCEPT ![t].phase = "refuse", ![t].retried = TRUE,
                                   ![t].refused = task[t].token]
          BY <2>7, <3>2 DEF Refused
        <4>2. task[t].token \in 0 .. MaxTokens
          BY GraphParts DEF GraphTasks
        <4> QED
          BY <1>7, <4>1, <4>2, GraphParts, ZenonT(60) DEF GraphTasks
      <3> QED
        BY <3>1, <3>2
    <2> QED
      BY <2>1, <2>2, <2>3, <2>4, <2>5, <2>6, <2>7
  <1>9. GraphTypeOK
    OBVIOUS
  <1> QED
    BY <1>1, <1>2, <1>5, <1>6, <1>8, <1>9 DEF GraphTypeOK, GraphTasks

LEMMA GraphTableTypes ==
    ASSUME GraphTypeOK, GraphInv, NEW t \in Tasks,
           \/ Found(t) \/ Create(t) \/ Evict(t) \/ Closed(t)
           \/ CloseFails(t) \/ CloseAll(t) \/ CloseNext(t)
           \/ CloseEnds(t) \/ Cancel(t) \/ CancelClose(t)
    PROVE  GraphTypeOK'
  <1>1. store' = store /\ issued' = issued
    BY DEF Found, Create, Evict, Closed, CloseFails, Add,
           CloseAll, CloseNext, CloseEnds, Cancel, CancelClose, TokensSame
  <1>2. tokenLock' \in [Clients -> Tasks \union {None}]
    <2>1. tokenLock' = tokenLock \/ ReleaseLock(t)
      BY DEF Found, Create, Evict, Closed, CloseFails, Add,
             CloseAll, CloseNext, CloseEnds, Cancel, CancelClose, TokensSame
    <2> QED
      BY <2>1, GraphLocks, GraphParts
  <1>3. lock' \in Tasks \union {None}
    <2>1. lock' = lock \/ lock' = None \/ lock' = t
      BY DEF Found, Create, Evict, Closed, CloseFails, Add,
             CloseAll, CloseNext, CloseEnds, Cancel, CancelClose
    <2> QED
      BY <2>1, GraphParts
  <1> DEFINE Typed == /\ table' \in Seq(GraphEntries) /\ open' \subseteq Clients
                      /\ dropped' \subseteq Clients /\ cut' \subseteq Clients
                      /\ task' \in [Tasks -> GraphTasks]
  <1> HIDE DEF Typed
  <1>4. /\ "token" \in Phases /\ "evict" \in Phases /\ "close" \in Phases
    BY DEF Phases
  <1>5. ASSUME NEW opened \in SUBSET Clients, NEW lost \in SUBSET Clients,
               Add(t, opened, lost), Len(table) < MaxClients
        PROVE  Typed
    <2> DEFINE c == CHOOSE c \in Free : TRUE
               e == [tenant |-> task[t].tenant, client |-> c]
    <2>1. c \in Clients
      <3>1. c \in Free
        BY <1>5, FreeName
      <3> QED
        BY <3>1 DEF Free
    <2>2. /\ table' = Append(table, e) /\ open' = opened \union {c} /\ dropped' = lost \ {c}
          /\ task' = [task EXCEPT ![t].phase = "token", ![t].client = c]
          /\ cut' = cut
      BY <1>5 DEF Add
    <2> HIDE DEF c
    <2>3. e \in GraphEntries
      BY <2>1, GraphParts DEF GraphEntries, GraphTasks
    <2> HIDE DEF e
    <2>4. table' \in Seq(GraphEntries)
      BY <2>2, <2>3, GraphParts, AppendProperties
    <2>5. task' \in [Tasks -> GraphTasks]
      BY <1>4, <2>1, <2>2, GraphParts, GraphTaskSet
    <2> QED
      BY <2>1, <2>2, <2>4, <2>5, GraphParts, GraphCut DEF Typed
  <1>6. ASSUME Found(t)
        PROVE  Typed
    <2>1. PICK i \in 1 .. Len(table) :
             /\ table' = Append(Sequence!RemoveAt(table, i), table[i])
             /\ task' = [task EXCEPT ![t].phase = "token", ![t].client = table[i].client]
      BY <1>6, GraphTableType DEF Found, Known
    <2>2. table' \in Seq(GraphEntries)
      <3>1. table' = Append(Sequence!RemoveAt(table, i), table[i])
        BY <2>1
      <3> QED
        BY <3>1, GraphParts, MovedToEnd
    <2>3. task' \in [Tasks -> GraphTasks]
      <3>1. table[i].client \in Clients
        BY GraphTableType
      <3> QED
        BY <1>4, <2>1, <3>1, GraphParts, GraphTaskSet
    <2>4. open' = open /\ dropped' = dropped /\ cut' = cut
      BY <1>6 DEF Found
    <2> QED
      BY <2>2, <2>3, <2>4, GraphParts, GraphCut DEF Typed
  <1>7. ASSUME Create(t)
        PROVE  Typed
    <2>1. Add(t, open, dropped) /\ Len(table) < MaxClients
      BY <1>7 DEF Create
    <2>2. open \in SUBSET Clients /\ dropped \in SUBSET Clients
      BY GraphParts
    <2> QED
      BY <1>5, <2>1, <2>2
  <1>8. ASSUME Evict(t)
        PROVE  Typed
    <2>1. /\ table' = Tail(table) /\ open' = open /\ dropped' = dropped
          /\ Len(table) >= MaxClients /\ cut' \subseteq cut
          /\ task' = [task EXCEPT ![t].phase = "evict", ![t].client = Head(table).client]
      BY <1>8 DEF Evict
    <2>2. table \in Seq(GraphEntries) /\ table # <<>>
      <3>1. Len(table) \in Nat /\ Len(table) > 0
        BY <2>1, GraphTableType, GraphNumbers, SMT
      <3> QED
        BY <3>1, GraphParts, SMT
    <2>3. Head(table) \in GraphEntries /\ Tail(table) \in Seq(GraphEntries)
      BY <2>2, HeadTailProperties
    <2>4. task' \in [Tasks -> GraphTasks]
      <3>1. Head(table).client \in Clients
        BY <2>3 DEF GraphEntries
      <3> QED
        BY <1>4, <2>1, <3>1, GraphParts, GraphTaskSet
    <2> QED
      BY <2>1, <2>3, <2>4, GraphParts, GraphCut DEF Typed
  <1>9. ASSUME Closed(t) \/ CloseFails(t)
        PROVE  Typed
    <2>1. task[t].phase = "evict"
      BY <1>9 DEF Closed, CloseFails, At
    <2>2. Len(table) < MaxClients
      BY <2>1 DEF GraphInv, GraphTaskInv
    <2>3. \/ Add(t, open \ {task[t].client}, dropped)
          \/ Add(t, open, dropped \union (open \intersect {task[t].client}))
      BY <1>9 DEF Closed, CloseFails, My
    <2>4. /\ open \ {task[t].client} \in SUBSET Clients /\ dropped \in SUBSET Clients
          /\ open \in SUBSET Clients
          /\ dropped \union (open \intersect {task[t].client}) \in SUBSET Clients
      BY GraphParts
    <2>5. CASE Add(t, open \ {task[t].client}, dropped)
      BY <1>5, <2>2, <2>4, <2>5
    <2>6. CASE Add(t, open, dropped \union (open \intersect {task[t].client}))
      BY <1>5, <2>2, <2>4, <2>6
    <2> QED
      BY <2>3, <2>5, <2>6
  <1>10. ASSUME CloseAll(t)
        PROVE  Typed
    <2>1. /\ Go(t, "close") /\ table' = table /\ open' = open /\ dropped' = dropped
          /\ cut' = cut
      BY <1>10 DEF CloseAll
    <2>2. task' \in [Tasks -> GraphTasks]
      BY <1>4, <2>1, GraphParts, GraphGo
    <2> QED
      BY <2>1, <2>2, GraphParts, GraphCut DEF Typed
  <1>11. ASSUME CloseNext(t)
        PROVE  Typed
    <2> DEFINE i == task[t].attempt + 1
    <2>1. /\ i <= Len(table) /\ task' = [task EXCEPT ![t].attempt = i] /\ table' = table
          /\ \/ open' = open \ {table[i].client} /\ dropped' = dropped
             \/ dropped' = dropped \union (open \intersect {table[i].client}) /\ open' = open
          /\ cut' = cut
      BY <1>11 DEF CloseNext
    <2>2. i \in 1 .. Len(table) /\ i \in Attempts
      <3>1. task[t].attempt \in Nat /\ Len(table) \in Nat /\ Len(table) <= MaxClients
        BY GraphParts, GraphTableType, GraphNumbers DEF GraphTasks, GraphInv, GraphTableInv
      <3>2. i \in 1 .. Len(table) /\ i \in 0 .. MaxClients
        BY <2>1, <3>1, GraphNumbers, SMT
      <3> QED
        BY <3>2, GraphNumbers
    <2> HIDE DEF i
    <2>3. task' \in [Tasks -> GraphTasks]
      BY <2>1, <2>2, GraphParts, ZenonT(60) DEF GraphTasks
    <2>4. table[i].client \in Clients
      BY <2>2, GraphTableType
    <2> QED
      BY <2>1, <2>3, <2>4, GraphParts, GraphCut DEF Typed
  <1>12. ASSUME CloseEnds(t) \/ Cancel(t)
        PROVE  Typed
    <2>1. /\ Return(t) /\ open' = open /\ (table' = table \/ table' = <<>>)
          /\ \/ dropped' = dropped
             \/ dropped' = dropped \union (open \intersect {task[t].client})
          /\ cut' = cut \/ cut' = {}
      BY <1>12 DEF CloseEnds, Cancel, My
    <2>2. task' \in [Tasks -> GraphTasks]
      BY <2>1, GraphParts, GraphReturn
    <2> QED
      BY <2>1, <2>2, GraphParts, GraphCut, EmptySeq, ZenonT(60) DEF Typed
  <1>13. ASSUME CancelClose(t)
         PROVE  Typed
    <2> DEFINE i == task[t].attempt + 1
               reached == {table[j].client : j \in 1 .. i}
    <2>1. /\ i <= Len(table) /\ Return(t) /\ table' = table
          /\ open' \subseteq open /\ dropped' \subseteq dropped \union open
          /\ cut' = cut \union reached
      BY <1>13 DEF CancelClose
    <2>2. 1 .. i \subseteq 1 .. Len(table)
      <3>1. task[t].attempt \in Nat /\ Len(table) \in Nat
        BY GraphParts, GraphTableType, GraphNumbers DEF GraphTasks
      <3> QED
        BY <2>1, <3>1, SMT
    <2> HIDE DEF i
    <2>3. reached \subseteq Clients
      BY <2>2, GraphTableType
    <2>4. task' \in [Tasks -> GraphTasks]
      BY <2>1, GraphParts, GraphReturn
    <2> HIDE DEF reached
    <2> QED
      BY <2>1, <2>3, <2>4, GraphParts, GraphCut DEF Typed
  <1>14. Typed
    BY <1>6, <1>7, <1>8, <1>9, <1>10, <1>11, <1>12, <1>13
  <1> QED
    BY <1>1, <1>2, <1>3, <1>14, GraphParts
       DEF Typed, GraphTypeOK, GraphTasks, GraphEntries

LEMMA GraphExpire ==
    ASSUME GraphTypeOK, NEW n \in Tenants, Expire(n)
    PROVE  GraphTypeOK'
  <1>1. 0 \in 0 .. MaxTokens
    BY GraphNumbers, SMT
  <1> QED
    BY <1>1 DEF Expire, GraphTypeOK, TableSame

-----------------------------------------------------------------------------
(* The tokens.                                                             *)

\* What the tokens of a task keep to: the token it is about to store is new to
\* everybody, and the one it was refused is neither stored nor sent again.
GraphTokens(t) ==
    /\ task[t].token <= issued /\ task[t].refused <= issued
    /\ task[t].phase \in {"idle", "want", "evict", "close"} =>
          task[t].retried = FALSE /\ task[t].token = 0 /\ task[t].refused = 0
    /\ task[t].phase = "set" =>
          /\ task[t].token # 0
          /\ \A n \in Tenants : store[n] # task[t].token
          /\ \A u \in Tasks : task[u].refused # task[t].token
          /\ \A u \in Tasks \ {t} : task[u].token # task[t].token
    /\ task[t].retried /\ task[t].phase \in {"token", "get", "post", "set", "send"} =>
          /\ store[task[t].tenant] # task[t].refused \/ task[t].refused = 0
          /\ task[t].phase = "send" => task[t].token # task[t].refused

GraphTokenInv ==
    /\ \A n \in Tenants : store[n] <= issued
    /\ \A t \in Tasks : GraphTokens(t)

LEMMA GraphTokenTypes ==
    ASSUME GraphTypeOK
    PROVE  /\ \A t \in Tasks : /\ task[t].token \in Int /\ task[t].refused \in Int
                               /\ task[t].tenant \in Tenants /\ task[t].retried \in BOOLEAN
           /\ \A n \in Tenants : store[n] \in Int
           /\ issued \in Nat
  <1>1. /\ task \in [Tasks -> GraphTasks] /\ store \in [Tenants -> 0 .. MaxTokens]
        /\ issued \in 0 .. MaxTokens
    BY GraphParts
  <1>2. 0 .. MaxTokens \subseteq Int /\ 0 .. MaxTokens \subseteq Nat
    BY SMT
  <1> QED
    BY <1>1, <1>2 DEF GraphTasks

\* A step that changes no token, and not what a task is about to do with one.
LEMMA GraphTokensStay ==
    ASSUME GraphTokenInv, NEW t \in Tasks,
           store' = store, issued' = issued,
           \A u \in Tasks \ {t} : task'[u] = task[u],
           task'[t].token = task[t].token, task'[t].refused = task[t].refused,
           task'[t].retried = task[t].retried,
           task'[t].phase \notin {"idle", "set", "send"},
           task'[t].phase \in {"want", "evict", "close"} =>
               task[t].phase \in {"idle", "want", "evict", "close"},
           task'[t].phase \in {"token", "get", "post"} /\ task[t].retried =>
               task[t].phase \in {"token", "get", "post"} /\ task'[t].tenant = task[t].tenant
    PROVE  GraphTokenInv'
  <1>1. /\ \A u \in Tasks : /\ task'[u].token = task[u].token
                            /\ task'[u].refused = task[u].refused
        /\ \A u \in Tasks : task'[u].phase = "set" => u # t
    OBVIOUS
  <1>2. ASSUME NEW u \in Tasks
        PROVE  GraphTokens(u)'
    <2>1. GraphTokens(u)
      BY DEF GraphTokenInv
    <2>2. CASE u = t
      BY <1>1, <2>1, <2>2 DEF GraphTokens
    <2>3. CASE u # t
      BY <1>1, <2>1, <2>3 DEF GraphTokens
    <2> QED
      BY <2>2, <2>3
  <1> QED
    BY <1>2 DEF GraphTokenInv

\* A task that forgets its token, for good or for another attempt; nobody
\* stores one meanwhile.
LEMMA GraphTokensGone ==
    ASSUME GraphTypeOK, GraphTokenInv, NEW t \in Tasks,
           issued' = issued,
           \A n \in Tenants : store'[n] = store[n] \/ store'[n] = 0,
           \A u \in Tasks \ {t} : task'[u] = task[u],
           \/ task'[t] = IdleTask
           \/ /\ task'[t].phase = "token" /\ task'[t].token = 0
              /\ task'[t].refused = task[t].refused /\ task'[t].retried = task[t].retried
              /\ task'[t].tenant = task[t].tenant
              /\ \/ task[t].phase = "send"
                 \/ store'[task[t].tenant] = 0
    PROVE  GraphTokenInv'
  <1>1. /\ IdleTask.phase = "idle" /\ IdleTask.retried = FALSE
        /\ IdleTask.token = 0 /\ IdleTask.refused = 0
    BY IdleGraphTask
  <1>2. /\ issued \in Nat /\ \A u \in Tasks : task[u].tenant \in Tenants
        /\ 0 <= issued
    <2>1. issued \in Nat /\ \A u \in Tasks : task[u].tenant \in Tenants
      BY GraphTokenTypes
    <2> QED
      BY <2>1, SMT
  <1>3. \A n \in Tenants : store'[n] <= issued'
    BY <1>2 DEF GraphTokenInv
  <1>4. \A u \in Tasks : /\ task'[u].token = task[u].token \/ task'[u].token = 0
                         /\ task'[u].refused = task[u].refused \/ task'[u].refused = 0
    BY <1>1
  <1>5. ASSUME NEW u \in Tasks
        PROVE  GraphTokens(u)'
    <2>1. GraphTokens(u)
      BY DEF GraphTokenInv
    <2>2. CASE u = t
      <3>1. CASE task'[t] = IdleTask
        BY <1>1, <1>2, <2>2, <3>1 DEF GraphTokens
      <3>2. CASE task'[t] # IdleTask
        BY <1>2, <2>1, <2>2, <3>2 DEF GraphTokens
      <3> QED
        BY <3>1, <3>2
    <2>3. CASE u # t
      <3>1. task'[u] = task[u]
        BY <2>3
      <3> QED
        BY <1>2, <1>4, <2>1, <3>1 DEF GraphTokens
    <2> QED
      BY <2>2, <2>3
  <1> QED
    BY <1>3, <1>5 DEF GraphTokenInv

\* The stored token is taken, if there is one.
LEMMA GraphTokensGet ==
    ASSUME GraphTypeOK, GraphTokenInv, NEW t \in Tasks, Get(t)
    PROVE  GraphTokenInv'
  <1>1. task[t].phase = "get" /\ store' = store /\ issued' = issued
    BY DEF Get, At
  <1> DEFINE got == store[task[t].tenant]
  <1>2. CASE got = 0
    <2>1. Go(t, "post")
      BY <1>2 DEF Get, Stored
    <2>2. /\ \A u \in Tasks \ {t} : task'[u] = task[u]
          /\ task'[t].phase = "post" /\ task'[t].token = task[t].token
          /\ task'[t].refused = task[t].refused /\ task'[t].retried = task[t].retried
          /\ task'[t].tenant = task[t].tenant
      BY <2>1, GraphParts DEF Go, GraphTasks
    <2> QED
      BY <1>1, <2>2, GraphTokensStay
  <1>3. CASE got # 0
    <2>1. task' = [task EXCEPT ![t].phase = "send", ![t].token = got]
      BY <1>3 DEF Get, Stored
    <2> HIDE DEF got
    <2>2. /\ \A u \in Tasks \ {t} : task'[u] = task[u]
          /\ task'[t].phase = "send" /\ task'[t].token = got
          /\ task'[t].refused = task[t].refused /\ task'[t].retried = task[t].retried
          /\ task'[t].tenant = task[t].tenant
      BY <2>1, GraphParts DEF GraphTasks
    <2>3. task[t].tenant \in Tenants
      BY GraphTokenTypes
    <2>4. ASSUME NEW u \in Tasks
          PROVE  GraphTokens(u)'
      <3>1. GraphTokens(u) /\ got <= issued
        BY <2>3 DEF GraphTokenInv, got
      <3>2. CASE u = t
        <4>1. task[t].retried => got # task[t].refused
          BY <1>1, <1>3, <3>1, <3>2 DEF GraphTokens, got
        <4> QED
          BY <1>1, <2>2, <3>1, <3>2, <4>1 DEF GraphTokens
      <3>3. CASE u # t
        <4>1. task'[u] = task[u]
          BY <2>2, <3>3
        <4>2. task[u].phase = "set" => got # task[u].token
          BY <2>3, <3>1 DEF GraphTokens, got
        <4> QED
          BY <1>1, <2>2, <3>1, <4>1, <4>2 DEF GraphTokens
      <3> QED
        BY <3>2, <3>3
    <2> QED
      BY <1>1, <2>4 DEF GraphTokenInv
  <1> QED
    BY <1>2, <1>3

\* A new token is one nobody has seen.
LEMMA GraphTokensLogin ==
    ASSUME GraphTypeOK, GraphTokenInv, NEW t \in Tasks, Login(t)
    PROVE  GraphTokenInv'
  <1>1. /\ task[t].phase = "post" /\ store' = store /\ issued' = issued + 1
        /\ task' = [task EXCEPT ![t].phase = "set", ![t].token = issued']
    BY DEF Login, At
  <1>2. /\ \A u \in Tasks \ {t} : task'[u] = task[u]
        /\ task'[t].phase = "set" /\ task'[t].token = issued'
        /\ task'[t].refused = task[t].refused /\ task'[t].retried = task[t].retried
        /\ task'[t].tenant = task[t].tenant
    BY <1>1, GraphParts DEF GraphTasks
  <1>3. /\ issued' # 0 /\ issued' \in Int /\ issued' <= issued'
        /\ \A k \in Int : k <= issued => k <= issued' /\ k # issued'
    <2>1. issued \in Nat
      BY GraphTokenTypes
    <2> QED
      BY <1>1, <2>1, SMT
  <1>4. /\ \A u \in Tasks : task[u].token <= issued' /\ task[u].token # issued'
        /\ \A u \in Tasks : task[u].refused <= issued' /\ task[u].refused # issued'
        /\ \A n \in Tenants : store[n] <= issued' /\ store[n] # issued'
    BY <1>3, GraphTokenTypes DEF GraphTokenInv, GraphTokens
  <1>5. ASSUME NEW u \in Tasks
        PROVE  GraphTokens(u)'
    <2>1. GraphTokens(u)
      BY DEF GraphTokenInv
    <2>2. \A v \in Tasks : task'[v].refused = task[v].refused
      BY <1>2
    <2>3. CASE u = t
      BY <1>1, <1>2, <1>3, <1>4, <2>1, <2>2, <2>3, ZenonT(60) DEF GraphTokens
    <2>4. CASE u # t
      <3>1. task'[u] = task[u]
        BY <1>2, <2>4
      <3>2. \A v \in Tasks : task'[v].token = task[v].token \/ task'[v].token = issued'
        BY <1>2
      <3>3. task[u].phase = "set" => \A v \in Tasks \ {u} : task'[v].token # task[u].token
        BY <1>4, <2>1, <3>2 DEF GraphTokens
      <3>4. task[u].token <= issued' /\ task[u].refused <= issued'
        BY <1>4
      <3> QED
        BY <1>1, <2>1, <2>2, <3>1, <3>3, <3>4 DEF GraphTokens
    <2> QED
      BY <2>3, <2>4
  <1> QED
    BY <1>1, <1>4, <1>5 DEF GraphTokenInv

\* A new token is stored, or not: nobody was refused it.
LEMMA GraphTokensSet ==
    ASSUME GraphTypeOK, GraphTokenInv, NEW t \in Tasks, SetToken(t)
    PROVE  GraphTokenInv'
  <1>1. /\ task[t].phase = "set" /\ issued' = issued
        /\ store' = store \/ store' = [store EXCEPT ![task[t].tenant] = task[t].token]
        /\ Go(t, "send")
    BY DEF SetToken, At
  <1>2. /\ \A u \in Tasks \ {t} : task'[u] = task[u]
        /\ task'[t].phase = "send" /\ task'[t].token = task[t].token
        /\ task'[t].refused = task[t].refused /\ task'[t].retried = task[t].retried
        /\ task'[t].tenant = task[t].tenant
    BY <1>1, GraphParts DEF Go, GraphTasks
  <1>3. \A n \in Tenants : store'[n] = store[n] \/ store'[n] = task[t].token
    BY <1>1, GraphParts
  <1>4. GraphTokens(t)
    BY DEF GraphTokenInv
  <1>5. ASSUME NEW u \in Tasks
        PROVE  GraphTokens(u)'
    <2>1. GraphTokens(u) /\ task[u].tenant \in Tenants
      BY GraphTokenTypes DEF GraphTokenInv
    <2>2. \A v \in Tasks : task'[v].refused = task[v].refused /\ task'[v].token = task[v].token
      BY <1>2
    <2>3. CASE u = t
      BY <1>1, <1>2, <1>3, <1>4, <2>1, <2>3 DEF GraphTokens
    <2>4. CASE u # t
      <3>1. task'[u] = task[u]
        BY <1>2, <2>4
      <3>2. /\ task[u].refused # task[t].token
            /\ task[u].phase = "set" => task[u].token # task[t].token
        BY <1>1, <1>4, <2>4 DEF GraphTokens
      <3> QED
        BY <1>1, <1>3, <2>1, <2>2, <3>1, <3>2 DEF GraphTokens
    <2> QED
      BY <2>3, <2>4
  <1>6. \A n \in Tenants : store'[n] <= issued'
    BY <1>1, <1>3, <1>4 DEF GraphTokenInv, GraphTokens
  <1> QED
    BY <1>5, <1>6 DEF GraphTokenInv

\* The token that is sent is refused: a task that is about to store one has
\* another.
LEMMA GraphTokensRefused ==
    ASSUME GraphTypeOK, GraphTokenInv, NEW t \in Tasks, Refused(t)
    PROVE  GraphTokenInv'
  <1>1. task[t].phase = "send" /\ store' = store /\ issued' = issued
    BY DEF Refused, At, TokensSame
  <1>2. CASE task[t].retried
    <2>1. Return(t)
      BY <1>2 DEF Refused
    <2>2. task'[t] = IdleTask /\ \A u \in Tasks \ {t} : task'[u] = task[u]
      BY <2>1, GraphParts, GraphReturn
    <2> QED
      BY <1>1, <2>2, GraphTokensGone
  <1>3. CASE ~task[t].retried
    <2>1. task' = [task EXCEPT ![t].phase = "refuse", ![t].retried = TRUE,
                               ![t].refused = task[t].token]
      BY <1>3 DEF Refused
    <2>2. /\ \A u \in Tasks \ {t} : task'[u] = task[u]
          /\ task'[t].phase = "refuse" /\ task'[t].token = task[t].token
          /\ task'[t].refused = task[t].token
      BY <2>1, GraphParts DEF GraphTasks
    <2>3. ASSUME NEW u \in Tasks
          PROVE  GraphTokens(u)'
      <3>1. GraphTokens(u) /\ GraphTokens(t)
        BY DEF GraphTokenInv
      <3>2. CASE u = t
        BY <1>1, <2>2, <3>1, <3>2 DEF GraphTokens
      <3>3. CASE u # t
        <4>1. task'[u] = task[u]
          BY <2>2, <3>3
        <4> QED
          BY <1>1, <2>2, <3>1, <3>3, <4>1 DEF GraphTokens
      <3> QED
        BY <3>2, <3>3
    <2> QED
      BY <1>1, <2>3 DEF GraphTokenInv
  <1> QED
    BY <1>2, <1>3

LEMMA GraphTokensExpire ==
    ASSUME GraphTypeOK, GraphTokenInv, NEW n \in Tenants, Expire(n)
    PROVE  GraphTokenInv'
  <1>1. /\ task' = task /\ issued' = issued
        /\ \A m \in Tenants : store'[m] = store[m] \/ store'[m] = 0
    BY GraphParts DEF Expire
  <1>2. \A u \in Tasks : task[u].tenant \in Tenants
    BY GraphTokenTypes
  <1>3. 0 <= issued
    <2>1. issued \in Nat
      BY GraphTokenTypes
    <2> QED
      BY <2>1, SMT
  <1>4. \A m \in Tenants : store'[m] <= issued'
    BY <1>1, <1>3 DEF GraphTokenInv
  <1>5. ASSUME NEW u \in Tasks
        PROVE  GraphTokens(u)'
    <2>1. GraphTokens(u)
      BY DEF GraphTokenInv
    <2> QED
      BY <1>1, <1>2, <2>1 DEF GraphTokens
  <1> QED
    BY <1>4, <1>5 DEF GraphTokenInv

-----------------------------------------------------------------------------
(* What always holds.                                                      *)

\* Every action of a task keeps the table.
LEMMA GraphInvStep ==
    ASSUME GraphTypeOK, GraphInv, [GraphNext]_graphVars
    PROVE  GraphInv'
  <1>1. ASSUME NEW t \in Tasks,
               \/ Fails(t) \/ Answer(t) \/ DropFails(t)
        PROVE  GraphInv'
    <2>1. /\ table' = table /\ open' = open /\ dropped' = dropped /\ lock' = lock
          /\ cut' = cut
          /\ Return(t)
          /\ task[t].phase \in {"get", "post", "set", "send", "drop"}
      BY <1>1 DEF Fails, Answer, DropFails, TableSame, At
    <2>2. /\ \A u \in Tasks \ {t} : task'[u] = task[u]
          /\ task'[t].phase = "idle" /\ task'[t].attempt = 0
      BY <2>1, GraphParts, GraphReturn, IdleGraphTask
    <2> QED
      BY <2>1, <2>2, GraphElsewhere
  <1>2. ASSUME NEW t \in Tasks, Retry(t) \/ Drop(t)
        PROVE  GraphInv'
    <2>1. /\ table' = table /\ open' = open /\ dropped' = dropped /\ lock' = lock
          /\ cut' = cut
          /\ Again(t) /\ task[t].phase \in {"send", "drop"}
      BY <1>2 DEF Retry, Drop, TableSame, At
    <2>2. /\ \A u \in Tasks \ {t} : task'[u] = task[u]
          /\ task'[t].phase \in {"token", "idle"}
          /\ task'[t].phase = "idle" => task'[t].attempt = 0
      BY <2>1, GraphParts, GraphAgain, IdleGraphTask
    <2> QED
      BY <2>1, <2>2, GraphElsewhere
  <1>3. ASSUME NEW t \in Tasks,
               \/ \E n \in Tenants : Start(t, n)
               \/ Attempt(t) \/ Get(t) \/ Login(t) \/ SetToken(t)
               \/ Refuse(t)
        PROVE  GraphInv'
    <2>1. /\ table' = table /\ open' = open /\ dropped' = dropped /\ lock' = lock
          /\ cut' = cut
          /\ task[t].phase \in {"idle", "token", "get", "post", "set", "refuse"}
      BY <1>3 DEF Start, Attempt, Get, Login, SetToken,
                  Refuse, TableSame, At
    <2>2. /\ \A u \in Tasks \ {t} : task'[u] = task[u]
          /\ task'[t].phase \in {"want", "get", "post", "set", "send", "drop"}
      BY <1>3, GraphParts DEF Start, Attempt, Get, Login,
                              SetToken, Refuse, Go, GraphTasks
    <2> QED
      BY <2>1, <2>2, GraphElsewhere
  <1>4. ASSUME NEW t \in Tasks, Refused(t)
        PROVE  GraphInv'
    <2>1. /\ table' = table /\ open' = open /\ dropped' = dropped /\ lock' = lock
          /\ cut' = cut
          /\ task[t].phase = "send"
      BY <1>4 DEF Refused, TableSame, At
    <2>2. /\ \A u \in Tasks \ {t} : task'[u] = task[u]
          /\ task'[t].phase \in {"refuse", "idle"}
          /\ task'[t].phase = "idle" => task'[t].attempt = 0
      <3>1. CASE task[t].retried
        BY <1>4, <3>1, GraphParts, GraphReturn, IdleGraphTask DEF Refused
      <3>2. CASE ~task[t].retried
        <4>1. task' = [task EXCEPT ![t].phase = "refuse", ![t].retried = TRUE,
                                   ![t].refused = task[t].token]
          BY <1>4, <3>2 DEF Refused
        <4> QED
          BY <4>1, GraphParts DEF GraphTasks
      <3> QED
        BY <3>1, <3>2
    <2> QED
      BY <2>1, <2>2, GraphElsewhere
  <1>5. ASSUME NEW n \in Tenants, Expire(n)
        PROVE  GraphInv'
    BY <1>5 DEF Expire, TableSame, GraphInv, GraphTableInv, GraphOpenInv, GraphTaskInv
  <1>6. CASE UNCHANGED graphVars
    BY <1>6 DEF graphVars, GraphInv, GraphTableInv, GraphOpenInv, GraphTaskInv
  <1> QED
    BY <1>1, <1>2, <1>3, <1>4, <1>5, <1>6, GraphFound, GraphCreate, GraphEvict, GraphEvicted,
       GraphCloseAll, GraphCloseNext, GraphCloseEnds, GraphCancel, GraphCancelClose
    DEF GraphNext, Step

LEMMA GraphTypeStep ==
    ASSUME GraphTypeOK, GraphInv, [GraphNext]_graphVars
    PROVE  GraphTypeOK'
  <1>1. CASE UNCHANGED graphVars
    BY <1>1 DEF graphVars, GraphTypeOK
  <1> QED
    BY <1>1, GraphRequestTypes, GraphTableTypes, GraphExpire DEF GraphNext, Step

LEMMA GraphTokenStep ==
    ASSUME GraphTypeOK, GraphTokenInv, [GraphNext]_graphVars
    PROVE  GraphTokenInv'
  <1>1. ASSUME NEW t \in Tasks,
               \/ Fails(t) \/ Answer(t) \/ DropFails(t)
               \/ Cancel(t) \/ CancelClose(t) \/ CloseEnds(t)
        PROVE  GraphTokenInv'
    <2>1. store' = store /\ issued' = issued /\ Return(t)
      BY <1>1 DEF Fails, Answer, DropFails, Cancel, CancelClose, CloseEnds,
                  TokensSame
    <2>2. task'[t] = IdleTask /\ \A u \in Tasks \ {t} : task'[u] = task[u]
      BY <2>1, GraphParts, GraphReturn
    <2> QED
      BY <2>1, <2>2, GraphTokensGone
  <1>2. ASSUME NEW t \in Tasks, Retry(t) \/ Drop(t)
        PROVE  GraphTokenInv'
    <2>1. /\ issued' = issued /\ Again(t) /\ task[t].tenant \in Tenants
          /\ \/ store' = store /\ task[t].phase = "send"
             \/ store' = [store EXCEPT ![task[t].tenant] = 0]
      BY <1>2, GraphTokenTypes DEF Retry, Drop, TokensSame, At
    <2>2. /\ \A n \in Tenants : store'[n] = store[n] \/ store'[n] = 0
          /\ task[t].phase = "send" \/ store'[task[t].tenant] = 0
      BY <2>1, GraphParts
    <2>3. /\ \A u \in Tasks \ {t} : task'[u] = task[u]
          /\ \/ task'[t] = IdleTask
             \/ task'[t] = [task[t] EXCEPT !.phase = "token", !.token = 0, !.attempt = @ + 1]
      BY <2>1, GraphParts, GraphAgain
    <2>4. \/ task'[t] = IdleTask
          \/ /\ task'[t].phase = "token" /\ task'[t].token = 0
             /\ task'[t].refused = task[t].refused /\ task'[t].retried = task[t].retried
             /\ task'[t].tenant = task[t].tenant
      <3>1. task[t] \in GraphTasks
        BY GraphParts
      <3> QED
        BY <2>3, <3>1 DEF GraphTasks
    <2> QED
      BY <2>1, <2>2, <2>3, <2>4, GraphTokensGone
  <1>3. ASSUME NEW t \in Tasks, Attempt(t) \/ Refuse(t)
        PROVE  GraphTokenInv'
    <2>1. /\ store' = store /\ issued' = issued
          /\ \/ task[t].phase = "token" /\ Go(t, "get")
             \/ task[t].phase = "refuse" /\ Go(t, "drop")
      BY <1>3 DEF Attempt, Refuse, At
    <2>2. /\ \A u \in Tasks \ {t} : task'[u] = task[u]
          /\ task'[t].token = task[t].token /\ task'[t].refused = task[t].refused
          /\ task'[t].retried = task[t].retried /\ task'[t].tenant = task[t].tenant
          /\ \/ task[t].phase = "token" /\ task'[t].phase = "get"
             \/ task[t].phase = "refuse" /\ task'[t].phase = "drop"
      BY <2>1, GraphParts DEF Go, GraphTasks
    <2> QED
      BY <2>1, <2>2, GraphTokensStay
  <1>4. ASSUME NEW t \in Tasks,
               \/ \E n \in Tenants : Start(t, n)
               \/ Found(t) \/ Create(t) \/ Evict(t) \/ Closed(t)
               \/ CloseFails(t) \/ CloseAll(t) \/ CloseNext(t)
        PROVE  GraphTokenInv'
    <2>1. /\ store' = store /\ issued' = issued
          /\ task[t].phase \in {"idle", "want", "evict", "close"}
      BY <1>4 DEF Start, Found, Create, Evict, Closed,
                  CloseFails, Add, CloseAll, CloseNext,
                  TokensSame, At
    <2>2. \/ \E n \in Tenants : task' = [task EXCEPT ![t].phase = "want", ![t].tenant = n]
          \/ \E c : task' = [task EXCEPT ![t].phase = "token", ![t].client = c]
          \/ \E c : task' = [task EXCEPT ![t].phase = "evict", ![t].client = c]
          \/ task' = [task EXCEPT ![t].phase = "close"]
          \/ task[t].phase = "close" /\ \E i : task' = [task EXCEPT ![t].attempt = i]
      BY <1>4 DEF Start, Found, Create, Evict, Closed,
                  CloseFails, Add, CloseAll, CloseNext, Go,
                  At
    <2>3. /\ \A u \in Tasks \ {t} : task'[u] = task[u]
          /\ task'[t].token = task[t].token /\ task'[t].refused = task[t].refused
          /\ task'[t].retried = task[t].retried
          /\ task'[t].phase \in {"want", "token", "evict", "close"}
      BY <2>2, GraphParts DEF GraphTasks
    <2>4. task[t].retried = FALSE
      BY <2>1 DEF GraphTokenInv, GraphTokens
    <2> QED
      BY <2>1, <2>3, <2>4, GraphTokensStay
  <1>5. CASE UNCHANGED graphVars
    BY <1>5 DEF graphVars, GraphTokenInv, GraphTokens
  <1> QED
    BY <1>1, <1>2, <1>3, <1>4, <1>5, GraphTokensGet, GraphTokensLogin, GraphTokensSet,
       GraphTokensRefused, GraphTokensExpire
    DEF GraphNext, Step

LEMMA GraphStart ==
    ASSUME GraphInit
    PROVE  GraphTypeOK /\ GraphInv /\ GraphTokenInv
  <1>1. /\ table = <<>> /\ open = {} /\ lock = None /\ dropped = {} /\ cut = {} /\ issued = 0
        /\ tokenLock = [c \in Clients |-> None]
        /\ store = [n \in Tenants |-> 0] /\ task = [t \in Tasks |-> IdleTask]
    BY DEF GraphInit
  <1>2. /\ 0 \in 0 .. MaxTokens /\ 0 <= MaxClients /\ 1 .. 0 = {} /\ 0 <= 0
    BY GraphNumbers, SMT
  <1>3. GraphTypeOK
    <2>1. task \in [Tasks -> GraphTasks]
      BY <1>1, IdleGraphTask
    <2>2. table \in Seq([tenant : Tenants, client : Clients])
      BY <1>1, EmptySeq
    <2> QED
      BY <1>1, <1>2, <2>1, <2>2 DEF GraphTypeOK, GraphTasks
  <1>4. Len(table) = 0
    BY <1>1, EmptySeq
  <1>5. GraphInv
    BY <1>1, <1>2, <1>4, IdleGraphTask DEF GraphInv, GraphTableInv, GraphOpenInv, GraphTaskInv
  <1>6. GraphTokenInv
    BY <1>1, <1>2, IdleGraphTask DEF GraphTokenInv, GraphTokens
  <1> QED
    BY <1>3, <1>5, <1>6

LEMMA GraphAlways == GraphSpec => [](GraphTypeOK /\ GraphInv /\ GraphTokenInv)
  <1>1. GraphInit => GraphTypeOK /\ GraphInv /\ GraphTokenInv
    BY GraphStart
  <1>2. GraphTypeOK /\ GraphInv /\ GraphTokenInv /\ [GraphNext]_graphVars
            => (GraphTypeOK /\ GraphInv /\ GraphTokenInv)'
    BY GraphTypeStep, GraphInvStep, GraphTokenStep
  <1> QED
    BY <1>1, <1>2, PTL DEF GraphSpec

\* The table, the locks and the tokens keep their types, whatever the tasks of
\* _get_graph_client, close and _request_with_retry do between two awaits.
THEOREM GraphTypes == GraphSpec => []GraphTypeOK
  <1> QED
    BY GraphAlways, PTL

\* Whoever takes a client from the table under its lock gets one that is open,
\* and the table is within its bound with one client for a tenant: evictions,
\* failed and cancelled closings and the end of the decoder included.  What a
\* cancelled close of the decoder came to is closed, until it leaves the table.
THEOREM GraphTableIsGood == GraphSpec => []TableIsGood
  <1>1. GraphTypeOK /\ GraphInv => TableIsGood
    <2> SUFFICES ASSUME GraphTypeOK, GraphInv, lock = None
                 PROVE  /\ Len(table) <= MaxClients
                        /\ Kept \subseteq open \union cut
                        /\ \A i, j \in DOMAIN table :
                              table[i].tenant = table[j].tenant => i = j
      BY DEF TableIsGood
    <2>1. \A t \in Tasks : task[t].phase # "close"
      BY NobodyCloses
    <2> QED
      BY <2>1, GraphTableType DEF GraphInv, GraphTableInv, Kept
  <1> QED
    BY <1>1, GraphAlways, PTL

\* No client is forgotten while its connections are open: _get_graph_client and
\* close find every one of them, but for those whose closing failed.
THEOREM GraphOpenIsKept == GraphSpec => []OpenIsKept
  <1>1. GraphTypeOK /\ GraphInv => OpenIsKept
    BY GraphTableType DEF GraphInv, GraphOpenInv, OpenIsKept, Kept, My,
                          At
  <1> QED
    BY <1>1, GraphAlways, PTL

\* The retry of _request_with_retry after a 401 never sends the token that was
\* refused, whatever other tasks store, delete or let expire meanwhile.
THEOREM GraphRefusedNotResent == GraphSpec => []RefusedNotResent
  <1>1. GraphTokenInv => RefusedNotResent
    BY DEF GraphTokenInv, GraphTokens, RefusedNotResent, At
  <1> QED
    BY <1>1, GraphAlways, PTL
==============================================================================
