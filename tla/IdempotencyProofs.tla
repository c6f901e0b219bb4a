-------------------------- MODULE IdempotencyProofs --------------------------
(***************************************************************************)
(* Proofs about Idempotency, for any requests, operations, time to live    *)
(* and number of chunks, with a cache that fails and forgets and requests  *)
(* that are cut anywhere.                                                  *)
(***************************************************************************)
EXTENDS Idempotency, SequenceTheorems, TLAPS

\* A key that is settled has a response that lives at least as long.
SettledInv == \A k \in Keys : settled[k] <= cache[k].left

\* A guarded request waits for a lookup, or is over without the application,
\* unless its cache hid a failure from it.
GuardInv ==
    \A r \in Slots : guarded[r] /\ ~blind[r] =>
        /\ settled[CacheKey(asked[r])] > 0
        /\ phase[r] \in {"idle", "lookup", "retry"}
        /\ answer[r] # "app"

\* Nothing has been hidden from a request that still waits.
BlindInv == \A r \in Slots : phase[r] \in {"lookup", "retry"} => ~blind[r]

\* What is stored, and what is about to be, is a whole 2xx response of an
\* operation of the key.
StoredInv == \A k \in Keys : Live(k) => CacheKey(cache[k].of) = k /\ cache[k].chunks = Chunks /\ cache[k].good
StoringInv == \A r \in Slots : phase[r] = "store" => sent[r] = Chunks /\ good[r]

IInv == TypeOK /\ SettledInv /\ GuardInv /\ BlindInv /\ StoredInv /\ StoringInv

LEMMA Numbers == Chunks \in Nat \ {0} /\ TTL \in Nat \ {0}
BY ConfigAssumption

LEMMA KeyOfAsked ==
    ASSUME NEW o \in LookedUp
    PROVE  CacheKey(o) \in Keys
BY DEF Keys

LEMMA SomeOperationType == SomeOperation \in LookedUp
<1>1. PICK o \in Operations : o.tenant # NoTenant /\ o.key # NoKey
      BY ConfigAssumption
<1>2. As(o, o.body) \in Received /\ Keyed(As(o, o.body))
      BY <1>1 DEF Received, As, Keyed
<1> QED BY <1>2 DEF LookedUp, SomeOperation

LEMMA AbsentType == Absent \in Entries /\ Absent.left = 0
BY SomeOperationType, Numbers DEF Absent, Entries

LEMMA InitIInv == Init => IInv
<1> SUFFICES ASSUME Init PROVE IInv
    OBVIOUS
<1>1. TypeOK
  <2>1. cache \in [Keys -> Entries]
        BY AbsentType DEF Init
  <2>2. 0 \in 0 .. Chunks /\ 0 \in 0 .. TTL
        BY Numbers
  <2> QED BY <2>1, <2>2, SomeOperationType DEF Init, TypeOK, Phases, Answers
<1>2. SettledInv /\ StoredInv
      BY AbsentType DEF Init, SettledInv, StoredInv, Live
<1>3. GuardInv /\ BlindInv /\ StoringInv
      BY DEF Init, GuardInv, BlindInv, StoringInv
<1> QED BY <1>1, <1>2, <1>3 DEF IInv

\* A request that ends without touching the cache, and without the answer of
\* the application if it is guarded.
LEMMA QuitStep ==
    ASSUME IInv, NEW r \in Slots, NEW a \in Answers, Quit(r, a),
           guarded[r] /\ ~blind[r] => a # "app",
           UNCHANGED <<ready, cache, settled>>
    PROVE  IInv'
<1>1. TypeOK'
      BY Numbers DEF IInv, TypeOK, Quit, To, Phases
<1>2. SettledInv' /\ StoredInv'
      BY DEF IInv, SettledInv, StoredInv, Live
<1>3. GuardInv' /\ BlindInv' /\ StoringInv'
      BY DEF IInv, TypeOK, GuardInv, BlindInv, StoringInv, Quit, To
<1> QED BY <1>1, <1>2, <1>3 DEF IInv

LEMMA ArriveStep ==
    ASSUME IInv, NEW r \in Slots, NEW o \in Operations, NEW b, Arrive(r, o, b)
    PROVE  IInv'
<1> DEFINE in == As(o, b)
<1>1. b \in {o.body, Partial} /\ UNCHANGED <<ready, cache, sent, good, settled>>
     /\ blind' = [blind EXCEPT ![r] = FALSE]
      BY DEF Arrive
<1>2. SettledInv' /\ StoredInv'
      BY <1>1 DEF IInv, SettledInv, StoredInv, Live
<1>3. CASE ready /\ Keyed(o) /\ To(r, "lookup") /\ asked' = [asked EXCEPT ![r] = in]
           /\ answer' = [answer EXCEPT ![r] = "none"]
           /\ guarded' = [guarded EXCEPT ![r] = settled[CacheKey(in)] > 0]
  <2>1. in \in LookedUp
        BY <1>1, <1>3 DEF LookedUp, Received, Keyed, As
  <2> HIDE DEF in
  <2>2. TypeOK'
        BY <1>1, <1>3, <2>1 DEF IInv, TypeOK, To, Phases, Answers
  <2>3. GuardInv' /\ BlindInv' /\ StoringInv'
        BY <1>1, <1>3, <2>1 DEF IInv, TypeOK, GuardInv, BlindInv, StoringInv, To
  <2> QED BY <1>2, <2>2, <2>3 DEF IInv
<1>4. CASE /\ phase' = [phase EXCEPT ![r] = "direct"] \/ UNCHANGED phase
           /\ UNCHANGED asked
           /\ \E a \in {"none", "unavailable"} : answer' = [answer EXCEPT ![r] = a]
           /\ guarded' = [guarded EXCEPT ![r] = FALSE]
  <2>1. TypeOK'
        BY <1>1, <1>4 DEF IInv, TypeOK, Phases, Answers
  <2>2. GuardInv' /\ BlindInv' /\ StoringInv'
        BY <1>1, <1>4 DEF IInv, TypeOK, GuardInv, BlindInv, StoringInv
  <2> QED BY <1>2, <2>1, <2>2 DEF IInv
<1> QED BY <1>3, <1>4 DEF Arrive, To

\* The key of a guarded request has a live response: if it misses, it is blind.
LEMMA MissStep ==
    ASSUME IInv, NEW r \in Slots, Miss(r)
    PROVE  IInv'
<1>1. phase[r] \in {"lookup", "retry"} /\ ~blind[r]
      BY DEF IInv, BlindInv, Miss
<1>2. TypeOK'
      BY DEF IInv, TypeOK, Miss, Live, To, Phases
<1>3. SettledInv' /\ StoredInv'
      BY DEF IInv, SettledInv, StoredInv, Live, Miss
<1>4. guarded[r] => Live(CacheKey(asked[r]))
      BY <1>1, KeyOfAsked, Numbers DEF IInv, TypeOK, Entries, GuardInv, SettledInv, Live
<1>5. GuardInv'
  <2> SUFFICES ASSUME NEW q \in Slots, guarded'[q] /\ ~blind'[q]
               PROVE  /\ settled'[CacheKey(asked'[q])] > 0
                      /\ phase'[q] \in {"idle", "lookup", "retry"}
                      /\ answer'[q] # "app"
      BY DEF GuardInv
  <2>1. guarded[q] /\ (q # r => ~blind[q])
        BY DEF IInv, TypeOK, Miss
  <2>2. q # r
    <3> SUFFICES ASSUME q = r PROVE FALSE
        OBVIOUS
    <3>1. ~Live(CacheKey(asked[r]))
          BY DEF IInv, TypeOK, Miss
    <3> QED BY <2>1, <3>1, <1>4
  <2> QED BY <2>1, <2>2 DEF IInv, TypeOK, GuardInv, Miss, To
<1>6. BlindInv' /\ StoringInv'
      BY <1>1 DEF IInv, TypeOK, BlindInv, StoringInv, Miss, To
<1> QED BY <1>2, <1>3, <1>5, <1>6 DEF IInv

LEMMA GetFailsStep ==
    ASSUME IInv, NEW r \in Slots, GetFails(r)
    PROVE  IInv'
<1>1. CASE phase[r] = "lookup" /\ To(r, "retry")
           /\ UNCHANGED <<ready, cache, asked, sent, good, answer, settled, guarded, blind>>
  <2>1. TypeOK'
        BY <1>1 DEF IInv, TypeOK, To, Phases
  <2>2. SettledInv' /\ StoredInv'
        BY <1>1 DEF IInv, SettledInv, StoredInv, Live
  <2>3. GuardInv' /\ BlindInv' /\ StoringInv'
        BY <1>1 DEF IInv, TypeOK, GuardInv, BlindInv, StoringInv, To
  <2> QED BY <2>1, <2>2, <2>3 DEF IInv
<1>2. CASE Quit(r, "unavailable") /\ UNCHANGED <<ready, cache, settled>>
      BY <1>2, QuitStep DEF Answers
<1> QED BY <1>1, <1>2 DEF GetFails

LEMMA RunStep ==
    ASSUME IInv, NEW r \in Slots, Run(r)
    PROVE  IInv'
<1>1. (guarded[r] => blind[r])
      BY DEF IInv, GuardInv, Run
<1>2. TypeOK'
      BY DEF IInv, TypeOK, Run, To, Phases
<1>3. SettledInv' /\ StoredInv'
      BY DEF IInv, SettledInv, StoredInv, Live, Run
<1>4. GuardInv' /\ BlindInv' /\ StoringInv'
      BY <1>1 DEF IInv, TypeOK, GuardInv, BlindInv, StoringInv, Run, To
<1> QED BY <1>2, <1>3, <1>4 DEF IInv

LEMMA SendStep ==
    ASSUME IInv, NEW r \in Slots, Send(r)
    PROVE  IInv'
<1>1. (guarded[r] => blind[r]) /\ phase[r] = "reply" /\ sent[r] < Chunks /\ UNCHANGED <<ready, cache, settled>>
      BY DEF IInv, GuardInv, Send
<1>2. CASE Quit(r, "app")
      BY <1>1, <1>2, QuitStep DEF Answers
<1>3. CASE /\ sent[r] + 1 < Chunks \/ good[r]
           /\ sent' = [sent EXCEPT ![r] = @ + 1]
           /\ To(r, IF sent[r] + 1 = Chunks THEN "store" ELSE "reply")
           /\ answer' = [answer EXCEPT ![r] = IF sent[r] + 1 = Chunks THEN "app" ELSE @]
           /\ UNCHANGED <<asked, good, guarded, blind>>
  <2>1. sent[r] \in Nat /\ sent[r] + 1 \in 0 .. Chunks
        BY <1>1, Numbers DEF IInv, TypeOK
  <2>2. TypeOK'
        BY <1>1, <1>3, <2>1 DEF IInv, TypeOK, To, Phases, Answers
  <2>3. SettledInv' /\ StoredInv'
        BY <1>1, <1>3 DEF IInv, SettledInv, StoredInv, Live
  <2>4. sent[r] + 1 = Chunks => good[r]
        BY <1>3, <2>1, Numbers
  <2>5. StoringInv'
        BY <1>3, <2>1, <2>4 DEF IInv, TypeOK, StoringInv, To
  <2>6. GuardInv' /\ BlindInv'
        BY <1>1, <1>3 DEF IInv, TypeOK, GuardInv, BlindInv, To
  <2> QED BY <2>2, <2>3, <2>5, <2>6 DEF IInv
<1> QED BY <1>2, <1>3 DEF Send

\* The write of a response, whether the request learns of it or not.
LEMMA Written ==
    ASSUME IInv, NEW r \in Slots, phase[r] = "store",
           NEW k, k = CacheKey(asked[r]),
           cache' = [cache EXCEPT ![k] =
               [of |-> asked[r], chunks |-> sent[r], good |-> good[r], left |-> TTL]]
    PROVE  /\ k \in Keys
           /\ cache' \in [Keys -> Entries]
           /\ StoredInv'
           /\ \A j \in Keys : settled[j] <= cache'[j].left
           /\ cache'[k].left = TTL
<1> DEFINE e == [of |-> asked[r], chunks |-> sent[r], good |-> good[r], left |-> TTL]
<1>1. k \in Keys /\ asked[r] \in LookedUp /\ sent[r] = Chunks /\ good[r]
      BY KeyOfAsked DEF IInv, TypeOK, StoringInv
<1>2. e \in Entries /\ e.of = asked[r] /\ e.chunks = Chunks /\ e.good /\ e.left = TTL
      BY <1>1, Numbers DEF IInv, TypeOK, Entries
<1>3. cache' = [cache EXCEPT ![k] = e] /\ cache \in [Keys -> Entries]
      BY DEF IInv, TypeOK
<1> HIDE DEF e
<1>4. cache' \in [Keys -> Entries] /\ cache'[k] = e /\ \A j \in Keys : j # k => cache'[j] = cache[j]
      BY <1>1, <1>2, <1>3
<1>5. StoredInv'
      BY <1>1, <1>2, <1>4 DEF IInv, StoredInv, Live
<1>6. \A j \in Keys : settled[j] <= cache'[j].left
  <2>1. settled[k] <= TTL
        BY <1>1, Numbers DEF IInv, TypeOK
  <2> QED BY <1>1, <1>2, <1>4, <2>1 DEF IInv, SettledInv
<1> QED BY <1>1, <1>2, <1>4, <1>5, <1>6

LEMMA StoreStep ==
    ASSUME IInv, NEW r \in Slots, Store(r) \/ StoreFails(r)
    PROVE  IInv'
<1> DEFINE k == CacheKey(asked[r])
<1>1. phase[r] = "store" /\ Quit(r, "app") /\ ready' = ready /\ (guarded[r] => blind[r])
      BY DEF Store, StoreFails, IInv, GuardInv
<1>2. CASE UNCHANGED <<cache, settled>>
      BY <1>1, <1>2, QuitStep DEF Answers
<1>3. CASE /\ cache' = [cache EXCEPT ![k] =
                  [of |-> asked[r], chunks |-> sent[r], good |-> good[r], left |-> TTL]]
           /\ settled' = settled \/ settled' = [settled EXCEPT ![k] = TTL]
  <2>1. /\ k \in Keys
        /\ cache' \in [Keys -> Entries]
        /\ StoredInv'
        /\ \A j \in Keys : settled[j] <= cache'[j].left
        /\ cache'[k].left = TTL
        BY <1>1, <1>3, Written
  <2> HIDE DEF k
  <2>2. settled' \in [Keys -> 0 .. TTL] /\ \A j \in Keys : settled'[j] = settled[j] \/ settled'[j] = TTL
        BY <1>3, <2>1, Numbers DEF IInv, TypeOK
  <2>3. TypeOK'
        BY <1>1, <2>1, <2>2, Numbers DEF IInv, TypeOK, Quit, To, Phases, Answers
  <2>4. SettledInv'
        BY <1>3, <2>1, Numbers DEF IInv, TypeOK, SettledInv
  <2>5. GuardInv'
    <3> SUFFICES ASSUME NEW q \in Slots, guarded'[q] /\ ~blind'[q]
                 PROVE  /\ settled'[CacheKey(asked'[q])] > 0
                        /\ phase'[q] \in {"idle", "lookup", "retry"}
                        /\ answer'[q] # "app"
        BY DEF GuardInv
    <3>1. guarded[q] /\ ~blind[q] /\ q # r /\ asked'[q] = asked[q] /\ phase'[q] = phase[q] /\ answer'[q] = answer[q]
          BY <1>1 DEF IInv, TypeOK, Quit, To
    <3>2. CacheKey(asked[q]) \in Keys
          BY KeyOfAsked DEF IInv, TypeOK
    <3> QED BY <3>1, <3>2, <2>2, Numbers DEF IInv, GuardInv
  <2>6. BlindInv' /\ StoringInv'
        BY <1>1 DEF IInv, TypeOK, BlindInv, StoringInv, Quit, To
  <2> QED BY <2>1, <2>3, <2>4, <2>5, <2>6 DEF IInv
<1> QED BY <1>2, <1>3 DEF Store, StoreFails

LEMMA AbortStep ==
    ASSUME IInv, NEW r \in Slots, Abort(r)
    PROVE  IInv'
<1>1. answer[r] \in Answers /\ (guarded[r] /\ ~blind[r] => answer[r] # "app")
      BY DEF IInv, TypeOK, GuardInv
<1> QED BY <1>1, QuitStep DEF Abort

LEMMA LoseStep ==
    ASSUME IInv, NEW k \in Keys, Lose(k)
    PROVE  IInv'
<1>1. /\ cache' \in [Keys -> Entries] /\ cache'[k].left = 0
      /\ \A j \in Keys : j # k => cache'[j] = cache[j]
      BY AbsentType DEF IInv, TypeOK, Lose
<1>2. /\ settled' \in [Keys -> 0 .. TTL] /\ settled'[k] = 0
      /\ \A j \in Keys : j # k => settled'[j] = settled[j]
      BY Numbers DEF IInv, TypeOK, Lose
<1>3. TypeOK'
      BY <1>1, <1>2 DEF IInv, TypeOK, Lose
<1>4. SettledInv' /\ StoredInv'
      BY <1>1, <1>2 DEF IInv, SettledInv, StoredInv, Live
<1>5. GuardInv'
  <2> SUFFICES ASSUME NEW q \in Slots, guarded'[q] /\ ~blind'[q]
               PROVE  /\ settled'[CacheKey(asked'[q])] > 0
                      /\ phase'[q] \in {"idle", "lookup", "retry"}
                      /\ answer'[q] # "app"
      BY DEF GuardInv
  <2>1. guarded[q] /\ ~blind[q] /\ CacheKey(asked[q]) # k /\ CacheKey(asked[q]) \in Keys
        BY KeyOfAsked DEF IInv, TypeOK, Lose
  <2> QED BY <2>1, <1>2 DEF IInv, GuardInv, Lose
<1>6. BlindInv' /\ StoringInv'
      BY DEF IInv, BlindInv, StoringInv, Lose
<1> QED BY <1>3, <1>4, <1>5, <1>6 DEF IInv

LEMMA TickStep ==
    ASSUME IInv, Tick
    PROVE  IInv'
<1>1. ASSUME NEW k \in Keys
      PROVE  /\ cache'[k] \in Entries
             /\ cache'[k].left > 0 => /\ cache'[k].of = cache[k].of
                                      /\ cache'[k].chunks = cache[k].chunks
                                      /\ cache'[k].good = cache[k].good
                                      /\ cache[k].left > 0
             /\ cache'[k].left = IF cache[k].left > 1 THEN cache[k].left - 1 ELSE 0
  <2> DEFINE e == [cache[k] EXCEPT !.left = @ - 1]
  <2>1. cache[k] \in Entries
        BY <1>1 DEF IInv, TypeOK
  <2>2. CASE cache[k].left > 1
    <3>1. e \in Entries /\ e.of = cache[k].of /\ e.chunks = cache[k].chunks
          /\ e.good = cache[k].good /\ e.left = cache[k].left - 1
          BY <2>1, <2>2, Numbers DEF Entries
    <3>2. cache'[k] = e
          BY <1>1, <2>2 DEF Tick
    <3> HIDE DEF e
    <3> QED
      <4>1. cache[k].left > 0
            BY <2>1, <2>2, Numbers DEF Entries
      <4> QED BY <3>1, <3>2, <2>2, <4>1
  <2>3. CASE ~(cache[k].left > 1)
    <3>1. cache'[k] = Absent
          BY <1>1, <2>3 DEF Tick
    <3> QED BY <3>1, <2>3, AbsentType
  <2> QED BY <2>2, <2>3
<1>2. cache' \in [Keys -> Entries]
      BY <1>1 DEF Tick
<1>3. settled' \in [Keys -> 0 .. TTL]
      BY Numbers DEF IInv, TypeOK, Tick
<1>4. TypeOK'
      BY <1>2, <1>3 DEF IInv, TypeOK, Tick
<1>5. SettledInv'
  <2> SUFFICES ASSUME NEW k \in Keys PROVE settled'[k] <= cache'[k].left
      BY DEF SettledInv
  <2>1. cache[k].left \in Nat /\ settled[k] \in Nat /\ settled[k] <= cache[k].left
        BY Numbers DEF IInv, TypeOK, Entries, SettledInv
  <2>2. settled'[k] = IF settled[k] > 0 THEN settled[k] - 1 ELSE 0
        BY DEF Tick
  <2> QED BY <1>1, <2>1, <2>2
<1>6. StoredInv'
      BY <1>1 DEF IInv, StoredInv, Live
<1>7. GuardInv'
      BY DEF IInv, TypeOK, GuardInv, Tick
<1>8. BlindInv' /\ StoringInv'
      BY DEF IInv, BlindInv, StoringInv, Tick
<1> QED BY <1>4, <1>5, <1>6, <1>7, <1>8 DEF IInv

LEMMA ConnectStep ==
    ASSUME IInv, Connect
    PROVE  IInv'
BY DEF IInv, TypeOK, SettledInv, GuardInv, BlindInv, StoredInv, StoringInv, Live, Connect

LEMMA IInvStep == IInv /\ [Next]_vars => IInv'
<1> SUFFICES ASSUME IInv, [Next]_vars PROVE IInv'
    OBVIOUS
<1>1. CASE UNCHANGED vars
      BY <1>1 DEF IInv, TypeOK, SettledInv, GuardInv, BlindInv, StoredInv, StoringInv, Live, vars
<1>2. CASE Connect
      BY <1>2, ConnectStep
<1>3. CASE Tick
      BY <1>3, TickStep
<1>4. ASSUME NEW r \in Slots, NEW o \in Operations, NEW b \in {o.body, Partial}, Arrive(r, o, b)
      PROVE  IInv'
      BY <1>4, ArriveStep
<1>5. ASSUME NEW r \in Slots, Serve(r)
      PROVE  IInv'
  <2>1. CASE Direct(r)
        BY <1>5, <2>1, QuitStep DEF Direct, Answers, IInv, GuardInv
  <2>2. CASE Hit(r)
        BY <1>5, <2>2, QuitStep DEF Hit, Answers
  <2>3. CASE Store(r) \/ StoreFails(r)
        BY <1>5, <2>3, StoreStep
  <2> QED BY <1>5, <2>1, <2>2, <2>3, MissStep, GetFailsStep, RunStep, SendStep DEF Serve
<1>6. ASSUME NEW r \in Slots, Abort(r)
      PROVE  IInv'
      BY <1>6, AbortStep
<1>7. ASSUME NEW k \in Keys, Lose(k)
      PROVE  IInv'
      BY <1>7, LoseStep
<1> QED BY <1>1, <1>2, <1>3, <1>4, <1>5, <1>6, <1>7 DEF Next

LEMMA Invariance == Spec => []IInv
BY InitIInv, IInvStep, PTL DEF Spec

\* The cache, the requests and their histories keep their types.
THEOREM TypeCorrect == Spec => []TypeOK
<1>1. IInv => TypeOK
      BY DEF IInv
<1> QED BY <1>1, Invariance, PTL

\* A request that comes in after the response of its key has been stored does
\* not run the application while that response has to live (NoReexecution), for
\* any number of requests and with every failure of the cache but one that the
\* cache itself hides from its lookup.
THEOREM NoReexecutionHolds == Spec => []NoReexecution
<1>1. IInv => NoReexecution
      BY DEF IInv, GuardInv, NoReexecution, RunsApplication
<1> QED BY <1>1, Invariance, PTL

\* What is replayed is a whole 2xx response (ReplayIsWhole).
THEOREM ReplayIsWholeHolds == Spec => []ReplayIsWhole
<1>1. IInv => ReplayIsWhole
      BY DEF IInv, StoredInv, ReplayIsWhole
<1> QED BY <1>1, Invariance, PTL

-----------------------------------------------------------------------------
\* What is joined to equal texts on one side is equal if the results are.
LEMMA CancelLeft ==
    ASSUME NEW s \in Seq(Chars), NEW t \in Seq(Chars), NEW v \in Seq(Chars), s \o t = s \o v
    PROVE  t = v
BY ConcatSimplifications

LEMMA CancelRight ==
    ASSUME NEW s \in Seq(Chars), NEW t \in Seq(Chars), NEW v \in Seq(Chars), s \o v = t \o v
    PROVE  s = t
BY ConcatSimplifications

\* A text of which no part before the first colon has one splits only there.
LEMMA SplitAtColon ==
    ASSUME NEW a \in Seq(Chars), NEW b \in Seq(Chars),
           NEW x \in Seq(Chars), NEW y \in Seq(Chars),
           Plain(a), Plain(b), a \o x = b \o y,
           Len(x) = 0 \/ x[1] = Colon, Len(y) = 0 \/ y[1] = Colon
    PROVE  a = b /\ x = y
<1>1. /\ Len(a) \in Nat /\ Len(b) \in Nat /\ Len(x) \in Nat /\ Len(y) \in Nat
      /\ Len(a) + Len(x) = Len(b) + Len(y)
      /\ \A i \in 1 .. Len(a) + Len(x) : (a \o x)[i] = IF i <= Len(a) THEN a[i] ELSE x[i - Len(a)]
      /\ \A i \in 1 .. Len(b) + Len(y) : (b \o y)[i] = IF i <= Len(b) THEN b[i] ELSE y[i - Len(b)]
  <2>1. Len(a \o x) = Len(a) + Len(x) /\ Len(b \o y) = Len(b) + Len(y)
        BY ConcatProperties
  <2> QED BY <2>1, ConcatProperties, LenProperties
<1>2. ~(Len(a) < Len(b))
  <2> SUFFICES ASSUME Len(a) < Len(b) PROVE FALSE
      OBVIOUS
  <2> DEFINE i == Len(a) + 1
  <2>1. i \in 1 .. Len(b) /\ i \in 1 .. Len(a) + Len(x) /\ ~(i <= Len(a)) /\ i - Len(a) = 1 /\ Len(x) # 0
        BY <1>1
  <2>2. (a \o x)[i] = x[1] /\ (b \o y)[i] = b[i]
        BY <1>1, <2>1
  <2> QED BY <2>1, <2>2 DEF Plain
<1>3. ~(Len(b) < Len(a))
  <2> SUFFICES ASSUME Len(b) < Len(a) PROVE FALSE
      OBVIOUS
  <2> DEFINE i == Len(b) + 1
  <2>1. i \in 1 .. Len(a) /\ i \in 1 .. Len(b) + Len(y) /\ ~(i <= Len(b)) /\ i - Len(b) = 1 /\ Len(y) # 0
        BY <1>1
  <2>2. (b \o y)[i] = y[1] /\ (a \o x)[i] = a[i]
        BY <1>1, <2>1
  <2> QED BY <2>1, <2>2 DEF Plain
<1>4. Len(a) = Len(b)
      BY <1>1, <1>2, <1>3
<1>5. \A i \in 1 .. Len(a) : a[i] = b[i]
  <2> TAKE i \in 1 .. Len(a)
  <2>1. i \in 1 .. Len(a) + Len(x) /\ i \in 1 .. Len(b) + Len(y) /\ i <= Len(a) /\ i <= Len(b)
        BY <1>1, <1>4
  <2> QED BY <1>1, <2>1
<1>6. a = b
      BY <1>4, <1>5, SeqEqual
<1>7. x = y
      BY <1>6, CancelLeft
<1> QED BY <1>6, <1>7

\* A part that is joined: the colon, then the part.
LEMMA PartIs ==
    ASSUME NEW s \in Seq(Chars)
    PROVE  /\ Part(s) \in Seq(Chars) /\ Len(Part(s)) = Len(s) + 1 /\ Part(s)[1] = Colon
           /\ \A i \in 2 .. Len(s) + 1 : Part(s)[i] = s[i - 1]
<1>1. <<Colon>> \in Seq(Chars) /\ Len(<<Colon>>) = 1 /\ <<Colon>>[1] = Colon
      BY ConfigAssumption
<1>2. /\ Part(s) \in Seq(Chars) /\ Len(Part(s)) = 1 + Len(s)
      /\ \A i \in 1 .. 1 + Len(s) : Part(s)[i] = IF i <= 1 THEN <<Colon>>[i] ELSE s[i - 1]
      BY <1>1, ConcatProperties DEF Part
<1>3. Len(s) \in Nat
      BY LenProperties
<1> QED BY <1>1, <1>2, <1>3

\* Parts are equal only if what they join is.
LEMMA PartsDiffer ==
    ASSUME NEW s \in Seq(Chars), NEW t \in Seq(Chars), Part(s) = Part(t)
    PROVE  s = t
<1>1. <<Colon>> \in Seq(Chars)
      BY ConfigAssumption
<1> QED BY <1>1, CancelLeft DEF Part

\* The query and the hash of the body, as they are joined to the target.
Query(o) == IF o.query = <<>> THEN <<>> ELSE Part(o.query)
Body(o) == IF o.body \in Oversize THEN <<>> ELSE Part(<<HashBody(o.body)>>)

\* What is looked up is made of characters.
LEMMA AskedTypes ==
    ASSUME NEW o \in LookedUp
    PROVE  /\ o.tenant \in Seq(Chars) /\ o.key \in Seq(Chars) /\ o.target \in Seq(Chars)
           /\ o.query \in Seq(Chars) /\ HashBody(o.body) \in Chars
           /\ Query(o) \in Seq(Chars) /\ Body(o) \in Seq(Chars)
           /\ Text(o) = o.target \o (Query(o) \o Body(o))
<1>1. PICK p \in Operations : o = As(p, p.body) \/ o = As(p, Partial)
      BY DEF LookedUp, Received
<1>2. /\ o.tenant = p.tenant /\ o.key = p.key /\ o.target = p.target /\ o.query = p.query
      /\ o.body = p.body \/ o.body = Partial
      BY <1>1 DEF As
<1>3. /\ o.tenant \in Seq(Chars) /\ o.key \in Seq(Chars) /\ o.target \in Seq(Chars)
      /\ o.query \in Seq(Chars) /\ HashBody(o.body) \in Chars
      BY <1>2, ConfigAssumption DEF LookedUp, Keyed
<1>4. Query(o) \in Seq(Chars)
      BY <1>3, PartIs, EmptySeq DEF Query
<1>5. Body(o) \in Seq(Chars)
  <2>1. <<HashBody(o.body)>> \in Seq(Chars)
        BY <1>3
  <2> QED BY <2>1, PartIs, EmptySeq DEF Body
<1>6. Text(o) = (o.target \o Query(o)) \o Body(o)
      BY DEF Text, Query, Body
<1>7. (o.target \o Query(o)) \o Body(o) = o.target \o (Query(o) \o Body(o))
  <2>1. \A t, u, v \in Seq(Chars) : (t \o u) \o v = t \o (u \o v)
        BY ConcatAssociative
  <2> QED BY <1>3, <1>4, <1>5, <2>1
<1> QED BY <1>3, <1>4, <1>5, <1>6, <1>7

\* What follows the target is nothing, or begins with a colon.
LEMMA RestBegins ==
    ASSUME NEW o \in LookedUp
    PROVE  LET rest == Query(o) \o Body(o) IN
           rest \in Seq(Chars) /\ (Len(rest) = 0 \/ rest[1] = Colon)
<1>1. o.query \in Seq(Chars) /\ HashBody(o.body) \in Chars /\ Query(o) \in Seq(Chars) /\ Body(o) \in Seq(Chars)
      BY AskedTypes
<1>2. Query(o) \o Body(o) \in Seq(Chars)
      BY <1>1, ConcatProperties
<1>3. CASE o.query # <<>>
  <2>1. Query(o)[1] = Colon /\ Len(Query(o)) \in Nat /\ Len(Query(o)) >= 1
        BY <1>1, <1>3, PartIs, LenProperties DEF Query
  <2>2. Len(Body(o)) \in Nat
        BY <1>1, LenProperties
  <2>3. 1 \in 1 .. Len(Query(o)) + Len(Body(o))
        BY <2>1, <2>2
  <2>4. (Query(o) \o Body(o))[1] = Query(o)[1]
        BY <1>1, <2>1, <2>3, ConcatProperties
  <2> QED BY <1>2, <2>1, <2>4
<1>4. CASE o.query = <<>> /\ o.body \notin Oversize
  <2>1. Query(o) \o Body(o) = Body(o)
        BY <1>1, <1>4, ConcatEmptySeq DEF Query
  <2>2. Body(o)[1] = Colon
    <3>1. <<HashBody(o.body)>> \in Seq(Chars)
          BY <1>1
    <3> QED BY <1>4, <3>1, PartIs DEF Body
  <2> QED BY <1>2, <2>1, <2>2
<1>5. CASE o.query = <<>> /\ o.body \in Oversize
  <2>1. Query(o) \o Body(o) = <<>>
        BY <1>1, <1>5, ConcatEmptySeq DEF Query, Body
  <2>2. Len(<<>>) = 0
        BY EmptySeq
  <2> QED BY <1>2, <2>1, <2>2
<1> QED BY <1>3, <1>4, <1>5

\* The last sixteen digits of a text whose body is hashed are that hash.
LEMMA BodyEnds ==
    ASSUME NEW o \in LookedUp, NEW q \in LookedUp,
           o.body \notin Oversize, q.body \notin Oversize,
           Query(o) \o Body(o) = Query(q) \o Body(q)
    PROVE  o.query = q.query /\ HashBody(o.body) = HashBody(q.body)
<1>1. ASSUME NEW p \in LookedUp, p.body \notin Oversize
      PROVE  /\ Query(p) \in Seq(Chars) /\ Body(p) \in Seq(Chars) /\ Len(Body(p)) = 2
             /\ Body(p)[2] = HashBody(p.body) /\ Len(Query(p)) \in Nat
             /\ Len(Query(p) \o Body(p)) = Len(Query(p)) + 2
             /\ (Query(p) \o Body(p))[Len(Query(p)) + 2] = HashBody(p.body)
  <2>1. Query(p) \in Seq(Chars) /\ Body(p) \in Seq(Chars) /\ HashBody(p.body) \in Chars
        BY <1>1, AskedTypes
  <2>2. Len(Query(p)) \in Nat
        BY <2>1, LenProperties
  <2> DEFINE h == <<HashBody(p.body)>>
  <2>3. h \in Seq(Chars) /\ Len(h) = 1 /\ h[1] = HashBody(p.body)
        BY <2>1
  <2>4. Body(p) = Part(h)
        BY <1>1 DEF Body
  <2> HIDE DEF h
  <2>5. Len(Body(p)) = 2 /\ Body(p)[2] = HashBody(p.body)
    <3>1. /\ Len(Part(h)) = Len(h) + 1 /\ \A i \in 2 .. Len(h) + 1 : Part(h)[i] = h[i - 1]
          BY <2>3, PartIs
    <3>2. 2 \in 2 .. Len(h) + 1 /\ 2 - 1 = 1
          BY <2>3
    <3> QED BY <2>3, <2>4, <3>1, <3>2
  <2>6. /\ Len(Query(p) \o Body(p)) = Len(Query(p)) + 2
        /\ \A i \in 1 .. Len(Query(p)) + 2 : (Query(p) \o Body(p))[i] =
               IF i <= Len(Query(p)) THEN Query(p)[i] ELSE Body(p)[i - Len(Query(p))]
    <3>1. \A u, v \in Seq(Chars) : /\ Len(u \o v) = Len(u) + Len(v)
                                  /\ \A i \in 1 .. Len(u) + Len(v) :
                                        (u \o v)[i] = IF i <= Len(u) THEN u[i] ELSE v[i - Len(u)]
          BY ConcatProperties
    <3> QED BY <2>1, <2>5, <3>1
  <2>7. /\ Len(Query(p)) + 2 \in 1 .. Len(Query(p)) + 2 /\ ~(Len(Query(p)) + 2 <= Len(Query(p)))
        /\ (Len(Query(p)) + 2) - Len(Query(p)) = 2
        BY <2>2
  <2> QED BY <2>1, <2>2, <2>5, <2>6, <2>7
<1>2. Len(Query(o)) = Len(Query(q))
  <2>1. Len(Query(o)) + 2 = Len(Query(q)) + 2 /\ Len(Query(o)) \in Nat /\ Len(Query(q)) \in Nat
        BY <1>1
  <2> QED BY <2>1
<1>3. HashBody(o.body) = HashBody(q.body)
      BY <1>1, <1>2
<1>4. Body(o) = Body(q)
      BY <1>3 DEF Body
<1>5. Query(o) = Query(q)
  <2>1. Query(o) \o Body(o) = Query(q) \o Body(o)
        BY <1>4
  <2> QED BY <1>1, <2>1, CancelRight
<1>6. o.query = q.query
  <2>1. /\ o.query \in Seq(Chars) /\ q.query \in Seq(Chars)
        BY AskedTypes
  <2>2. ASSUME NEW s \in Seq(Chars) PROVE Part(s) # <<>>
    <3>1. Len(Part(s)) = Len(s) + 1 /\ Len(s) \in Nat /\ Len(<<>>) = 0
          BY PartIs, LenProperties, EmptySeq
    <3> QED BY <3>1
  <2> QED BY <1>5, <2>1, <2>2, PartsDiffer DEF Query
<1> QED BY <1>3, <1>6

\* What a key stands for: two operations that share it, with tenants without a
\* colon, are of one tenant and one key.
LEMMA TenantsApart ==
    ASSUME NEW o \in LookedUp, NEW q \in LookedUp, CacheKey(o) = CacheKey(q),
           Plain(o.tenant), Plain(q.tenant)
    PROVE  o.tenant = q.tenant /\ o.key = q.key
<1>1. o.tenant \o Part(o.key) = q.tenant \o Part(q.key)
      BY DEF CacheKey
<1>2. /\ o.tenant \in Seq(Chars) /\ q.tenant \in Seq(Chars)
      /\ o.key \in Seq(Chars) /\ q.key \in Seq(Chars)
      BY AskedTypes
<1>3. /\ Part(o.key) \in Seq(Chars) /\ Part(o.key)[1] = Colon
      /\ Part(q.key) \in Seq(Chars) /\ Part(q.key)[1] = Colon
      BY <1>2, PartIs
<1>4. o.tenant = q.tenant /\ Part(o.key) = Part(q.key)
      BY <1>1, <1>2, <1>3, SplitAtColon
<1> QED BY <1>2, <1>4, PartsDiffer

\* Whatever the hashes are, tenants without a colon never get each other's
\* responses; and where neither a hash nor a colon in a target confuses two
\* requests, what is replayed answers the same request (ReplayIsOwn).
THEOREM ReplayIsOwnHolds == Spec => []ReplayIsOwn
<1>1. ASSUME IInv, NEW pair \in Replayable
      PROVE  LET of == pair[1] in == pair[2] IN
               /\ Plain(of.tenant) /\ Plain(in.tenant) =>
                      of.tenant = in.tenant /\ of.key = in.key
               /\ Plain(of.target) /\ Plain(in.target) /\ Text(of) = Text(in) =>
                      /\ of.target = in.target
                      /\ of.body \notin Oversize /\ in.body \notin Oversize =>
                             of.query = in.query /\ HashBody(of.body) = HashBody(in.body)
  <2>1. PICK r \in Slots : /\ pair = <<cache[CacheKey(asked[r])].of, asked[r]>>
                           /\ Live(CacheKey(asked[r]))
        BY <1>1 DEF Replayable
  <2> DEFINE in == asked[r]
             of == cache[CacheKey(in)].of
  <2>2. CacheKey(in) \in Keys /\ in \in LookedUp
        BY KeyOfAsked, <1>1 DEF IInv, TypeOK
  <2>3. CacheKey(of) = CacheKey(in) /\ of \in LookedUp
        BY <1>1, <2>1, <2>2 DEF IInv, StoredInv, TypeOK, Entries
  <2>4. pair[1] = of /\ pair[2] = in
        BY <2>1
  <2> HIDE DEF in, of
  <2>5. Plain(of.tenant) /\ Plain(in.tenant) => of.tenant = in.tenant /\ of.key = in.key
        BY <2>2, <2>3, TenantsApart
  <2>6. ASSUME Plain(of.target), Plain(in.target), Text(of) = Text(in)
        PROVE  of.target = in.target /\ Query(of) \o Body(of) = Query(in) \o Body(in)
    <3> DEFINE x == Query(of) \o Body(of)
               y == Query(in) \o Body(in)
    <3>1. of.target \o x = in.target \o y /\ of.target \in Seq(Chars) /\ in.target \in Seq(Chars)
          BY <2>2, <2>3, <2>6, AskedTypes
    <3>2. /\ x \in Seq(Chars) /\ (Len(x) = 0 \/ x[1] = Colon)
          /\ y \in Seq(Chars) /\ (Len(y) = 0 \/ y[1] = Colon)
          BY <2>2, <2>3, RestBegins
    <3> HIDE DEF x, y
    <3>3. of.target = in.target /\ x = y
          BY <2>6, <3>1, <3>2, SplitAtColon
    <3> QED BY <3>3 DEF x, y
  <2>7. ASSUME Plain(of.target), Plain(in.target), Text(of) = Text(in),
               of.body \notin Oversize, in.body \notin Oversize
        PROVE  of.query = in.query /\ HashBody(of.body) = HashBody(in.body)
        BY <2>2, <2>3, <2>6, <2>7, BodyEnds
  <2> QED BY <2>4, <2>5, <2>6, <2>7
<1>2. IInv => ReplayIsOwn
      BY <1>1 DEF ReplayIsOwn
<1> QED BY <1>2, Invariance, PTL
=============================================================================
