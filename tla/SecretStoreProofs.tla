-------------------------- MODULE SecretStoreProofs --------------------------
(***************************************************************************)
(* Proofs about SecretStore, for any number of tasks and secrets, any      *)
(* times and any failures: no fill goes back behind an eviction, and a hit *)
(* is at most a time to live and a request out of date.                    *)
(***************************************************************************)
EXTENDS SecretStore, SequenceTheorems, TLAPS

\* What removing a task from the queue leaves: a queue, with the same head
\* unless it was the head that left.
LEMMA LeaveQueue ==
    ASSUME NEW q \in Seq(Tasks), NEW i \in DOMAIN q
    PROVE  /\ RemoveAt(q, i) \in Seq(Tasks)
           /\ i # 1 => RemoveAt(q, i) # <<>> /\ Head(RemoveAt(q, i)) = Head(q)
<1> DEFINE a == SubSeq(q, 1, i - 1)
           b == SubSeq(q, i + 1, Len(q))
<1>1. /\ i \in 1 .. Len(q) /\ Len(q) \in Nat
      /\ \A k \in 1 .. Len(q) : q[k] \in Tasks
    BY LenProperties, ElementOfSeq
<1>2. /\ a \in Seq(Tasks)
      /\ Len(a) = i - 1
      /\ \A k \in 1 .. i - 1 : a[k] = q[k]
    <2>1. \A k \in 1 .. i - 1 : q[k] \in Tasks
        BY <1>1
    <2>2. /\ SubSeq(q, 1, i - 1) \in Seq(Tasks)
          /\ Len(SubSeq(q, 1, i - 1)) = IF 1 <= i - 1 THEN (i - 1) - 1 + 1 ELSE 0
          /\ \A k \in 1 .. (i - 1) - 1 + 1 : SubSeq(q, 1, i - 1)[k] = q[1 + k - 1]
        BY <1>1, <2>1, SubSeqProperties, Z3
    <2> QED BY <1>1, <2>2
<1>3. b \in Seq(Tasks)
    <2>1. \A k \in (i + 1) .. Len(q) : q[k] \in Tasks
        BY <1>1
    <2> QED BY <1>1, <2>1, SubSeqProperties
<1>4. RemoveAt(q, i) = a \o b
    BY DEF RemoveAt
<1>5. /\ a \o b \in Seq(Tasks)
      /\ Len(a \o b) = Len(a) + Len(b)
      /\ \A k \in 1 .. Len(a) + Len(b) : (a \o b)[k] =
             IF k <= Len(a) THEN a[k] ELSE b[k - Len(a)]
    BY <1>2, <1>3, ConcatProperties
<1>6. ASSUME i # 1
      PROVE  a \o b # <<>> /\ (a \o b)[1] = q[1]
    <2>1. Len(b) \in Nat
        BY <1>3, LenProperties
    <2>2. Len(a \o b) # 0
        BY <1>1, <1>2, <1>5, <1>6, <2>1
    <2>3. (a \o b)[1] = q[1]
        BY <1>1, <1>2, <1>5, <1>6, <2>1
    <2> QED BY <2>2, <2>3
<1>7. ASSUME NEW s \in Seq(Tasks), s # <<>>
      PROVE  Head(s) = s[1]
    BY <1>7
<1> QED BY <1>1, <1>4, <1>5, <1>6, <1>7

LEMMA RecordsTyped ==
    /\ Unread \in [version : Versions, age : 0 .. Timeout, old : Nat]
    /\ Absent \in [version : Versions, left : 0 .. TTL, old : Nat]
<1>1. 1 \in Versions /\ 0 \in 0 .. Timeout /\ 0 \in 0 .. TTL /\ 0 \in Nat
    BY ConfigAssumption DEF Versions
<1> QED BY <1>1 DEF Unread, Absent

\* Steps of the queue and of its holder keep the types.
LEMMA ReleaseTyped ==
    ASSUME TypeOK, NEW t \in Tasks, Holds(t), Release(t)
    PROVE  /\ queue' \in Seq(Tasks)
           /\ op' \in [Tasks -> {"idle", "get", "rotate", "clear"}]
           /\ name' \in [Tasks -> Names]
           /\ phase' \in Phases
           /\ got' \in [version : Versions, age : 0 .. Timeout, old : Nat]
<1>1. queue' \in Seq(Tasks)
    BY HeadTailProperties DEF TypeOK, Holds, Release
<1> QED BY <1>1, RecordsTyped DEF TypeOK, Release, Phases

LEMMA LeaveTyped ==
    ASSUME TypeOK, NEW t \in Tasks, Leave(t)
    PROVE  /\ queue' \in Seq(Tasks)
           /\ ~Holds(t) /\ queue # <<>> => queue' # <<>> /\ Head(queue') = Head(queue)
<1>1. PICK i \in DOMAIN queue : queue[i] = t /\ queue' = RemoveAt(queue, i)
    BY DEF Leave
<1>2. ~Holds(t) /\ queue # <<>> => i # 1
    BY <1>1 DEF Holds, TypeOK
<1> QED BY <1>1, <1>2, LeaveQueue DEF TypeOK

LEMMA TypeStep == TypeOK /\ [Next]_vars => TypeOK'
<1> SUFFICES ASSUME TypeOK, [Next]_vars PROVE TypeOK'
    OBVIOUS
<1> USE ConfigAssumption
<1>1. ASSUME NEW t \in Tasks, NEW o \in {"get", "rotate", "clear"}, NEW n \in Names,
             Call(t, o, n)
      PROVE  TypeOK'
    BY <1>1 DEF TypeOK, Call
<1>2. ASSUME NEW t \in Tasks, Hit(t) PROVE TypeOK'
    <2>1. Holds(t) /\ Release(t) BY <1>2 DEF Hit, At
    <2> QED BY <1>2, <2>1, ReleaseTyped DEF TypeOK, Hit
<1>3. ASSUME NEW t \in Tasks, Miss(t) PROVE TypeOK'
    BY <1>3 DEF TypeOK, Miss, Move, Phases
<1>4. ASSUME NEW t \in Tasks, Login(t) PROVE TypeOK'
    BY <1>4 DEF TypeOK, Login, Move, Phases
<1>5. ASSUME NEW t \in Tasks, LoginFails(t) PROVE TypeOK'
    <2>1. Holds(t) /\ Release(t) BY <1>5 DEF LoginFails, At
    <2> QED BY <1>5, <2>1, ReleaseTyped DEF TypeOK, LoginFails
<1>6. ASSUME NEW t \in Tasks, Read(t) PROVE TypeOK'
    BY <1>6 DEF TypeOK, Read, Move, Phases
<1>7. ASSUME NEW t \in Tasks, ReadRejected(t) PROVE TypeOK'
    <2>1. Holds(t) /\ Release(t) BY <1>7 DEF ReadRejected, At
    <2> QED BY <1>7, <2>1, ReleaseTyped DEF TypeOK, ReadRejected
<1>8. ASSUME NEW t \in Tasks, ReadFails(t) PROVE TypeOK'
    <2>1. Holds(t) /\ Release(t) BY <1>8 DEF ReadFails, At
    <2> QED BY <1>8, <2>1, ReleaseTyped DEF TypeOK, ReadFails
<1>9. ASSUME NEW t \in Tasks, Fill(t) PROVE TypeOK'
    <2>1. Holds(t) /\ Release(t) BY <1>9 DEF Fill, At
    <2>2. cache' \in [Names -> [version : Versions, left : 0 .. TTL, old : Nat]]
        BY <1>9 DEF TypeOK, Fill
    <2> QED BY <1>9, <2>1, <2>2, ReleaseTyped DEF TypeOK, Fill
<1>10. ASSUME NEW names \in SUBSET Names, Evict(names)
       PROVE  /\ cache' \in [Names -> [version : Versions, left : 0 .. TTL, old : Nat]]
              /\ floor' \in [Names -> Versions]
    BY <1>10, RecordsTyped DEF TypeOK, Evict
<1>11. ASSUME NEW t \in Tasks, Rotate(t) PROVE TypeOK'
    <2>1. Holds(t) /\ Release(t) /\ {name[t]} \in SUBSET Names
        BY <1>11 DEF Rotate, At, TypeOK
    <2> QED BY <1>10, <1>11, <2>1, ReleaseTyped DEF TypeOK, Rotate
<1>12. ASSUME NEW t \in Tasks, ClearCache(t) PROVE TypeOK'
    <2>1. Holds(t) /\ Release(t) BY <1>12 DEF ClearCache, At
    <2> QED BY <1>10, <1>12, <2>1, ReleaseTyped DEF TypeOK, ClearCache
<1>13. ASSUME NEW t \in Tasks, Cancel(t) PROVE TypeOK'
    <2>1. queue' \in Seq(Tasks) BY <1>13, LeaveTyped DEF Cancel
    <2>2. got' \in [version : Versions, age : 0 .. Timeout, old : Nat]
        BY <1>13, RecordsTyped DEF TypeOK, Cancel
    <2>3. tokenOk' \in BOOLEAN /\ phase' \in Phases
        BY <1>13 DEF TypeOK, Cancel, Phases
    <2>4. op' \in [Tasks -> {"idle", "get", "rotate", "clear"}]
        BY <1>13 DEF TypeOK, Cancel
    <2> QED BY <1>13, <2>1, <2>2, <2>3, <2>4 DEF TypeOK, Cancel
<1>14. ASSUME NEW n \in Names, Write(n) PROVE TypeOK'
    BY <1>14, SMTT(30) DEF TypeOK, Write, Versions
<1>15. CASE TokenExpires
    BY <1>15 DEF TypeOK, TokenExpires
<1>16. CASE Tick
    <2>1. cache' \in [Names -> [version : Versions, left : 0 .. TTL, old : Nat]]
        <3>1. ASSUME NEW n \in Names
              PROVE  cache'[n] \in [version : Versions, left : 0 .. TTL, old : Nat]
            <4>1. CASE cache[n].left <= 1
                BY <1>16, <4>1, RecordsTyped DEF Tick
            <4>2. CASE ~(cache[n].left <= 1)
                <5> DEFINE old == IF cache[n].version < vault[n] THEN cache[n].old + 1 ELSE 0
                <5>1. /\ cache[n] \in [version : Versions, left : 0 .. TTL, old : Nat]
                      /\ cache[n] \in [version : Versions, left : Int, old : Nat]
                    BY DEF TypeOK
                <5>2. old \in Nat /\ cache[n].left - 1 \in 0 .. TTL
                    BY <5>1, <4>2 DEF Versions
                <5>3. cache'[n] = [cache[n] EXCEPT !.left = cache[n].left - 1, !.old = old]
                    BY <1>16, <4>2 DEF Tick
                <5> HIDE DEF old
                <5> QED BY <5>1, <5>2, <5>3
            <4> QED BY <4>1, <4>2
        <3> QED BY <1>16, <3>1 DEF Tick
    <2>2. got' \in [version : Versions, age : 0 .. Timeout, old : Nat]
        <3> DEFINE old == IF got.version < vault[name[Head(queue)]] THEN got.old + 1 ELSE 0
        <3>1. CASE phase = "fill"
            <4>1. old \in Nat /\ got.age + 1 \in 0 .. Timeout
                <5>1. got.age \in 0 .. Timeout /\ got.old \in Nat
                    BY DEF TypeOK
                <5>2. got.age < Timeout
                    BY <1>16, <3>1 DEF Tick
                <5> QED BY <5>1, <5>2
            <4>2. got' = [got EXCEPT !.age = got.age + 1, !.old = old]
                BY <1>16, <3>1 DEF Tick
            <4> HIDE DEF old
            <4> QED BY <4>1, <4>2 DEF TypeOK
        <3>2. CASE phase # "fill"
            BY <1>16, <3>2 DEF TypeOK, Tick
        <3> QED BY <3>1, <3>2
    <2> QED BY <1>16, <2>1, <2>2 DEF TypeOK, Tick
<1>17. CASE UNCHANGED vars
    BY <1>17 DEF TypeOK, vars
<1> QED BY <1>1, <1>2, <1>3, <1>4, <1>5, <1>6, <1>7, <1>8, <1>9, <1>11, <1>12,
           <1>13, <1>14, <1>15, <1>16, <1>17 DEF Next, Proceed

LEMMA TypeInit == Init => TypeOK
<1>1. <<>> \in Seq(Tasks) BY EmptySeq
<1>2. 1 \in Versions BY ConfigAssumption DEF Versions
<1> QED BY <1>1, <1>2, RecordsTyped, ZenonT(60) DEF Init, TypeOK, Phases

\* The cache, the queue and the task that holds the lock keep their types.
THEOREM TypeCorrect == Spec => []TypeOK
BY TypeInit, TypeStep, PTL DEF Spec

-----------------------------------------------------------------------------
\* The strengthened invariant, one step per action: an eviction runs while no
\* get is past its entry, so the only answers on their way are read after it.
LEMMA CacheInit == Init => CacheInv
BY DEF Init, CacheInv, HolderInv, AnswerInv, FloorInv, NoStaleFill, BoundedStaleness,
       Live, Absent

\* A call that returns leaves nobody past the entry, and no answer.
LEMMA ReleaseInv ==
    ASSUME NEW t \in Tasks, Release(t)
    PROVE  HolderInv' /\ AnswerInv' /\ phase' = "enter"
BY DEF Release, HolderInv, AnswerInv

\* An evicted secret has no live entry, and its floor is its present version.
LEMMA EvictInv ==
    ASSUME TypeOK, FloorInv, NoStaleFill, BoundedStaleness,
           NEW t \in Tasks, Release(t), NEW names \in SUBSET Names, Evict(names),
           UNCHANGED vault
    PROVE  CacheInv'
<1>1. HolderInv' /\ AnswerInv' /\ phase' = "enter"
    BY ReleaseInv
<1>2. FloorInv'
    BY DEF FloorInv, Evict, TypeOK, Versions
<1>3. \A n \in Names : Live(n)' => Live(n) /\ cache'[n] = cache[n] /\ floor'[n] = floor[n]
    BY DEF Evict, Live, Absent
<1> QED BY <1>1, <1>2, <1>3 DEF CacheInv, NoStaleFill, BoundedStaleness

LEMMA CacheStep == TypeOK /\ CacheInv /\ [Next]_vars => CacheInv'
<1> SUFFICES ASSUME TypeOK, CacheInv, [Next]_vars PROVE CacheInv'
    OBVIOUS
<1> USE ConfigAssumption
<1>1. ASSUME NEW t \in Tasks, NEW o \in {"get", "rotate", "clear"}, NEW n \in Names,
             Call(t, o, n)
      PROVE  CacheInv'
    <2>1. ASSUME phase # "enter"
          PROVE  queue' # <<>> /\ Head(queue') = Head(queue) /\ Head(queue) \in Tasks \ {t}
        <3>1. queue \in Seq(Tasks) /\ queue # <<>> /\ op[Head(queue)] = "get"
            BY <2>1 DEF CacheInv, HolderInv, TypeOK
        <3>2. op[t] = "idle" /\ queue' = Append(queue, t)
            BY <1>1 DEF Call
        <3> QED BY <3>1, <3>2, HeadTailProperties
    <2>2. HolderInv'
        BY <1>1, <2>1 DEF Call, CacheInv, HolderInv, TypeOK
    <2>3. NoStaleFill'
        BY <1>1, <2>1 DEF Call, CacheInv, NoStaleFill, TypeOK, Live
    <2>4. AnswerInv' /\ FloorInv' /\ BoundedStaleness'
        BY <1>1 DEF Call, CacheInv, AnswerInv, FloorInv, BoundedStaleness, Live
    <2> QED BY <2>2, <2>3, <2>4 DEF CacheInv
<1>2. ASSUME NEW t \in Tasks, Release(t), UNCHANGED <<vault, cache, floor>>
      PROVE  CacheInv'
    BY <1>2, ReleaseInv DEF CacheInv, FloorInv, NoStaleFill, BoundedStaleness, Live
<1>3. ASSUME NEW t \in Tasks, Hit(t) \/ LoginFails(t) \/ ReadRejected(t) \/ ReadFails(t)
      PROVE  CacheInv'
    BY <1>2, <1>3 DEF Hit, LoginFails, ReadRejected, ReadFails
<1>4. ASSUME NEW t \in Tasks, Miss(t) \/ Login(t) PROVE CacheInv'
    BY <1>4 DEF Miss, Login, At, Holds, Move, CacheInv, HolderInv, AnswerInv, FloorInv,
                NoStaleFill, BoundedStaleness, Live
<1>5. ASSUME NEW t \in Tasks, Read(t) PROVE CacheInv'
    <2>1. HolderInv' /\ FloorInv' /\ BoundedStaleness'
        BY <1>5 DEF Read, At, Holds, Move, CacheInv, HolderInv, FloorInv,
                    BoundedStaleness, Live
    <2>2. /\ got'.version = vault[name[t]] /\ got'.age = 0 /\ got'.old = 0
          /\ Head(queue') = t /\ name'[t] = name[t] /\ name[t] \in Names
        BY <1>5 DEF Read, At, Holds, Move, TypeOK
    <2>3. AnswerInv'
        BY <2>2 DEF AnswerInv
    <2>4. NoStaleFill'
        BY <1>5, <2>2 DEF Read, Move, CacheInv, FloorInv, NoStaleFill, Live
    <2> QED BY <2>1, <2>3, <2>4 DEF CacheInv
<1>6. ASSUME NEW t \in Tasks, Fill(t) PROVE CacheInv'
    <2>1. /\ Holds(t) /\ phase = "fill" /\ Release(t) /\ UNCHANGED <<vault, floor>>
          /\ name[t] \in Names
        BY <1>6 DEF Fill, At, TypeOK
    <2>2. /\ cache'[name[t]].version = got.version
          /\ cache'[name[t]].left = TTL
          /\ cache'[name[t]].old = got.old
          /\ \A n \in Names \ {name[t]} : cache'[n] = cache[n]
        BY <1>6, <2>1 DEF Fill, TypeOK
    <2>3. got.version >= floor[name[t]] /\ got.old <= Timeout
        <3>1. got.age \in 0 .. Timeout /\ got.old \in Nat
            BY DEF TypeOK
        <3> QED BY <2>1, <3>1 DEF Holds, CacheInv, NoStaleFill, AnswerInv
    <2>4. NoStaleFill'
        BY <2>1, <2>2, <2>3, ReleaseInv DEF CacheInv, NoStaleFill, Live
    <2>5. BoundedStaleness'
        <3>1. TTL - TTL = 0 BY Z3
        <3> QED BY <2>2, <2>3, <3>1 DEF CacheInv, BoundedStaleness, Live
    <2> QED BY <2>1, <2>4, <2>5, ReleaseInv DEF CacheInv, FloorInv
<1>7. ASSUME NEW t \in Tasks, Rotate(t) PROVE CacheInv'
    <2>1. {name[t]} \in SUBSET Names BY DEF TypeOK
    <2> QED BY <1>7, <2>1, EvictInv DEF Rotate, CacheInv
<1>8. ASSUME NEW t \in Tasks, ClearCache(t) PROVE CacheInv'
    BY <1>8, EvictInv DEF ClearCache, CacheInv
<1>9. ASSUME NEW t \in Tasks, Cancel(t) PROVE CacheInv'
    <2>1. FloorInv' /\ BoundedStaleness'
        BY <1>9 DEF Cancel, CacheInv, FloorInv, BoundedStaleness, Live
    <2>2. CASE Holds(t)
        BY <1>9, <2>1, <2>2 DEF Cancel, CacheInv, HolderInv, AnswerInv, NoStaleFill, Live
    <2>3. CASE ~Holds(t)
        <3>1. phase # "enter" => /\ queue # <<>> /\ queue' # <<>>
                                 /\ Head(queue') = Head(queue) /\ Head(queue) # t
            BY <1>9, <2>3, LeaveTyped DEF Cancel, CacheInv, HolderInv, Holds
        <3>2. HolderInv' /\ NoStaleFill'
            BY <1>9, <2>3, <3>1 DEF Cancel, CacheInv, HolderInv, NoStaleFill, Live, TypeOK
        <3> QED BY <1>9, <2>1, <2>3, <3>2 DEF Cancel, CacheInv, AnswerInv
    <2> QED BY <2>2, <2>3
<1>10. ASSUME NEW n \in Names, Write(n) PROVE CacheInv'
    <2>1. FloorInv'
        BY <1>10 DEF Write, TypeOK, Versions, CacheInv, FloorInv
    <2> QED BY <1>10, <2>1 DEF Write, CacheInv, HolderInv, AnswerInv, NoStaleFill,
                               BoundedStaleness, Live
<1>11. CASE TokenExpires
    BY <1>11 DEF TokenExpires, CacheInv, HolderInv, AnswerInv, FloorInv, NoStaleFill,
                 BoundedStaleness, Live
<1>12. CASE Tick
    <2>1. HolderInv' /\ FloorInv'
        BY <1>12 DEF Tick, CacheInv, HolderInv, FloorInv
    <2>2. /\ got'.version = got.version
          /\ phase = "fill" => got'.age = got.age + 1 /\ got'.old <= got.old + 1
        <3>1. CASE phase = "fill"
            <4> DEFINE old == IF got.version < vault[name[Head(queue)]] THEN got.old + 1 ELSE 0
            <4>1. /\ got \in [version : Versions, age : 0 .. Timeout, old : Nat]
                  /\ got' = [got EXCEPT !.age = got.age + 1, !.old = old]
                BY <1>12, <3>1 DEF Tick, TypeOK
            <4>2. got.old \in Nat /\ old <= got.old + 1
                BY <4>1
            <4> HIDE DEF old
            <4> QED BY <4>1, <4>2
        <3>2. CASE phase # "fill"
            BY <1>12, <3>2 DEF Tick
        <3> QED BY <3>1, <3>2
    <2>3. AnswerInv'
        <3>1. got.age \in Int /\ got.old \in Int /\ got'.old \in Int
            BY TypeStep DEF TypeOK
        <3>2. phase' = phase
            BY <1>12 DEF Tick
        <3>3. phase = "fill" => got.old <= got.age
            BY DEF CacheInv, AnswerInv
        <3> QED BY <2>2, <3>1, <3>2, <3>3 DEF AnswerInv
    <2>4. ASSUME NEW n \in Names, Live(n)'
          PROVE  /\ Live(n)
                 /\ cache'[n].version = cache[n].version
                 /\ cache'[n].left = cache[n].left - 1
                 /\ cache'[n].old <= cache[n].old + 1
        <3> DEFINE old == IF cache[n].version < vault[n] THEN cache[n].old + 1 ELSE 0
        <3>1. ~(cache[n].left <= 1)
            <4>1. ASSUME cache[n].left <= 1 PROVE cache'[n] = Absent
                BY <1>12, <4>1 DEF Tick
            <4>2. cache'[n] # Absent
                BY <2>4 DEF Live, Absent
            <4> QED BY <4>1, <4>2
        <3>2. /\ cache[n] \in [version : Versions, left : 0 .. TTL, old : Nat]
              /\ cache'[n] = [cache[n] EXCEPT !.left = cache[n].left - 1, !.old = old]
            BY <1>12, <3>1 DEF Tick, TypeOK
        <3>3. old <= cache[n].old + 1 /\ cache[n].left > 0
            BY <3>1, <3>2
        <3> HIDE DEF old
        <3> QED BY <3>2, <3>3 DEF Live
    <2>5. NoStaleFill'
        BY <1>12, <2>2, <2>4 DEF Tick, CacheInv, NoStaleFill
    <2>6. BoundedStaleness'
        <3>1. TypeOK' BY TypeStep
        <3>2. ASSUME NEW n \in Names, Live(n)'
              PROVE  cache'[n].old <= (TTL - cache'[n].left) + Timeout
            <4>1. /\ cache[n].old \in Int /\ cache[n].left \in Int
                  /\ cache'[n].old \in Int /\ cache'[n].left \in Int
                BY <3>1 DEF TypeOK
            <4>2. cache[n].old <= (TTL - cache[n].left) + Timeout
                BY <2>4, <3>2 DEF CacheInv, BoundedStaleness
            <4> QED BY <2>4, <3>2, <4>1, <4>2
        <3> QED BY <3>2 DEF BoundedStaleness
    <2> QED BY <2>1, <2>3, <2>5, <2>6 DEF CacheInv
<1>13. CASE UNCHANGED vars
    BY <1>13 DEF vars, CacheInv, HolderInv, AnswerInv, FloorInv, NoStaleFill,
                 BoundedStaleness, Live
<1> QED BY <1>1, <1>3, <1>4, <1>5, <1>6, <1>7, <1>8, <1>9, <1>10, <1>11, <1>12, <1>13
        DEF Next, Proceed

\* No value read before an eviction is in the cache, or on its way into it,
\* after the eviction: the lock is held across the round trip.
THEOREM NoStaleFillHolds == Spec => []NoStaleFill
<1>1. CacheInv => NoStaleFill BY DEF CacheInv
<1> QED BY <1>1, TypeInit, TypeStep, CacheInit, CacheStep, PTL DEF Spec

\* A live entry was replaced in Vault at most the time it has been in the
\* cache, and one request, ago.
THEOREM StalenessIsBounded == Spec => []BoundedStaleness
<1>1. CacheInv => BoundedStaleness BY DEF CacheInv
<1> QED BY <1>1, TypeInit, TypeStep, CacheInit, CacheStep, PTL DEF Spec
=============================================================================
