--------------------------- MODULE RateLimitProofs ---------------------------
(***************************************************************************)
(* Proofs about the three rate limiters in Redis, for any clients, limits, *)
(* windows and costs.                                                      *)
(*                                                                         *)
(* The fixed window: its counter, failing pipelines included, stays typed, *)
(* leaves room for what the window has granted, implements WindowBudget    *)
(* and never lets through more than two windows' worth.  The sliding       *)
(* window: the rolling bound and the wait of a denial.  The token bucket:  *)
(* the wait, and the rate with what late requests and short lifetimes add. *)
(* All for any delay.                                                      *)
(*                                                                         *)
(* Each theorem is about the behaviours of one limiter, which say nothing  *)
(* of the other limiters' variables.                                       *)
(***************************************************************************)
EXTENDS FixedWindow, SlidingWindow, TokenBucket, FiniteSetTheorems, TLAPS

-----------------------------------------------------------------------------
(* Sums: MapThenSumSet takes the elements of a set in an order of its own. *)

Sum(f, S) == MapThenSumSet(LAMBDA i : f[i], S)

\* The element that is added first, and the sums of all parts of S.
First(s) == CHOOSE i \in s : TRUE
IsSums(g, f, S) ==
    g = [s \in SUBSET S |-> IF s = {} THEN 0 ELSE f[First(s)] + g[s \ {First(s)}]]

LEMMA SumIs == \A f, S : Sum(f, S) = (CHOOSE g : IsSums(g, f, S))[S]
  BY DEF Sum, MapThenSumSet, MapThenFoldSet, IsSums, First

LEMMA FirstIn == \A s : s # {} => First(s) \in s
  BY DEF First

\* A collection of parts of a finite set has a smallest one: the induction.
LEMMA Smallest ==
    ASSUME NEW S, IsFiniteSet(S), NEW P, P \subseteq SUBSET S, P # {}
    PROVE  \E s \in P : \A t \in P : t \subseteq s => t = s
  <1>1. IsWellFoundedOn(StrictSubsetOrdering(S), SUBSET S)
    BY FS_StrictSubsetOrderingWellFounded, FS_FiniteSubsetsOfFinite
  <1>2. PICK s \in P : \A t \in P : <<t, s>> \notin StrictSubsetOrdering(S)
    BY <1>1, WFMin
  <1>3. ASSUME NEW t \in P, t \subseteq s, t # s PROVE FALSE
    BY <1>2, <1>3 DEF StrictSubsetOrdering
  <1> QED
    BY <1>3

\* Two tables of sums agree where both are defined.
LEMMA SumsAgree ==
    ASSUME NEW f, NEW S, IsFiniteSet(S), NEW T, NEW g, NEW h,
           IsSums(g, f, S), IsSums(h, f, T)
    PROVE  \A s \in (SUBSET S) \cap (SUBSET T) : g[s] = h[s]
  <1> DEFINE P == {s \in (SUBSET S) \cap (SUBSET T) : g[s] # h[s]}
  <1> SUFFICES ASSUME P # {} PROVE FALSE
    OBVIOUS
  <1>1. PICK s \in P : \A t \in P : t \subseteq s => t = s
    <2>1. P \subseteq SUBSET S
      OBVIOUS
    <2> HIDE DEF P
    <2> QED
      BY <2>1, Smallest
  <1>2. /\ g[s] = IF s = {} THEN 0 ELSE f[First(s)] + g[s \ {First(s)}]
        /\ h[s] = IF s = {} THEN 0 ELSE f[First(s)] + h[s \ {First(s)}]
    BY DEF IsSums
  <1>3. s # {} /\ First(s) \in s
    BY <1>2, FirstIn
  <1>4. s \ {First(s)} \subseteq s /\ s \ {First(s)} # s
    BY <1>3
  <1>5. s \ {First(s)} \in (SUBSET S) \cap (SUBSET T) /\ s \ {First(s)} \notin P
    BY <1>1, <1>4
  <1> QED
    BY <1>2, <1>3, <1>5

\* Every finite set has a table of the sums of its parts.
LEMMA SumsExist ==
    ASSUME NEW f, NEW S, IsFiniteSet(S)
    PROVE  \E g : IsSums(g, f, S)
  <1> DEFINE P == {s \in SUBSET S : ~ \E g : IsSums(g, f, s)}
             Table(s) == CHOOSE g : IsSums(g, f, s)
  <1> SUFFICES ASSUME P # {} PROVE FALSE
    OBVIOUS
  <1>1. PICK s \in P : \A t \in P : t \subseteq s => t = s
    <2>1. P \subseteq SUBSET S
      OBVIOUS
    <2> HIDE DEF P
    <2> QED
      BY <2>1, Smallest
  <1>2. ASSUME NEW t \in SUBSET s, t # s
        PROVE  IsFiniteSet(t) /\ IsSums(Table(t), f, t)
    <2>1. \E g : IsSums(g, f, t)
      BY <1>1, <1>2
    <2> QED
      BY <2>1, FS_Subset
  <1> DEFINE G(t) == IF t = {} THEN 0
                     ELSE f[First(t)] + Table(t \ {First(t)})[t \ {First(t)}]
  <1> HIDE DEF Table
  <1>3. ASSUME NEW t \in SUBSET s, t # s PROVE Table(t)[t] = G(t)
    <2>1. Table(t)[t] = IF t = {} THEN 0
                        ELSE f[First(t)] + Table(t)[t \ {First(t)}]
      BY <1>2, <1>3 DEF IsSums
    <2>2. CASE t # {}
      <3> DEFINE u == t \ {First(t)}
      <3>1. u \subseteq t /\ u \subseteq s /\ u # s
        BY <1>3, <2>2, FirstIn
      <3>2. Table(t)[u] = Table(u)[u]
        <4>1. IsSums(Table(t), f, t) /\ IsSums(Table(u), f, u) /\ IsFiniteSet(t)
          BY <1>2, <1>3, <3>1
        <4>2. u \in (SUBSET t) \cap (SUBSET u)
          BY <3>1
        <4> HIDE DEF u
        <4> QED
          BY <4>1, <4>2, SumsAgree
      <3> QED
        BY <2>1, <2>2, <3>2
    <2> QED
      BY <2>1, <2>2
  <1> DEFINE g == [t \in SUBSET s |-> G(t)]
  <1>4. ASSUME NEW t \in SUBSET s
        PROVE  g[t] = IF t = {} THEN 0 ELSE f[First(t)] + g[t \ {First(t)}]
    <2>1. CASE t # {}
      <3>1. t \ {First(t)} \in SUBSET s /\ t \ {First(t)} # s
        BY <2>1, FirstIn
      <3>2. Table(t \ {First(t)})[t \ {First(t)}] = g[t \ {First(t)}]
        BY <1>3, <3>1
      <3> QED
        BY <2>1, <3>2
    <2> QED
      BY <2>1
  <1>5. IsSums(g, f, s)
    BY <1>4 DEF IsSums
  <1> QED
    BY <1>5

\* The sum of a set is that of the rest and what its first element adds.
LEMMA SumFirst ==
    ASSUME NEW f, NEW S, IsFiniteSet(S)
    PROVE  Sum(f, S) = IF S = {} THEN 0 ELSE f[First(S)] + Sum(f, S \ {First(S)})
  <1> DEFINE R == S \ {First(S)}
             g == CHOOSE h : IsSums(h, f, S)
             k == CHOOSE h : IsSums(h, f, R)
  <1>1. IsFiniteSet(R) /\ R \subseteq S
    BY FS_Subset
  <1>2. IsSums(g, f, S) /\ IsSums(k, f, R)
    <2> HIDE DEF R
    <2> QED
      BY <1>1, SumsExist
  <1>3. Sum(f, S) = g[S] /\ Sum(f, R) = k[R]
    BY SumIs
  <1>4. g[R] = k[R]
    <2> HIDE DEF R, g, k
    <2> QED
      BY <1>1, <1>2, SumsAgree
  <1>5. g[S] = IF S = {} THEN 0 ELSE f[First(S)] + g[R]
    <2> HIDE DEF g
    <2> QED
      BY <1>2 DEF IsSums
  <1> HIDE DEF g, k
  <1> QED
    BY <1>3, <1>4, <1>5

\* It is a natural number if what is added is.
LEMMA SumType ==
    ASSUME NEW f, NEW S, IsFiniteSet(S), \A i \in S : f[i] \in Nat
    PROVE  Sum(f, S) \in Nat
  <1> DEFINE P == {s \in SUBSET S : Sum(f, s) \notin Nat}
  <1> SUFFICES ASSUME P # {} PROVE FALSE
    OBVIOUS
  <1>1. PICK s \in P : \A t \in P : t \subseteq s => t = s
    <2>1. P \subseteq SUBSET S
      OBVIOUS
    <2> HIDE DEF P
    <2> QED
      BY <2>1, Smallest
  <1>2. IsFiniteSet(s) /\ s \subseteq S /\ Sum(f, s) \notin Nat
    BY FS_Subset
  <1>3. s # {} /\ Sum(f, s) = f[First(s)] + Sum(f, s \ {First(s)})
    <2> HIDE DEF P
    <2>1. Sum(f, s) = IF s = {} THEN 0 ELSE f[First(s)] + Sum(f, s \ {First(s)})
      BY <1>2, SumFirst
    <2> QED
      BY <1>2, <2>1, SMT
  <1>4. First(s) \in s
    BY <1>3, FirstIn
  <1>5. Sum(f, s \ {First(s)}) \in Nat
    BY <1>1, <1>2, <1>4
  <1> QED
    BY <1>2, <1>3, <1>4, <1>5

\* The order does not matter: any element may be the one that is added last.
LEMMA SumSplit ==
    ASSUME NEW f, NEW S, IsFiniteSet(S), \A i \in S : f[i] \in Nat, NEW i \in S
    PROVE  Sum(f, S) = f[i] + Sum(f, S \ {i})
  <1> DEFINE P == {s \in SUBSET S : \E j \in s : Sum(f, s) # f[j] + Sum(f, s \ {j})}
  <1> SUFFICES ASSUME P # {} PROVE FALSE
    OBVIOUS
  <1>1. PICK s \in P : \A t \in P : t \subseteq s => t = s
    <2>1. P \subseteq SUBSET S
      OBVIOUS
    <2> HIDE DEF P
    <2> QED
      BY <2>1, Smallest
  <1>2. PICK j \in s : Sum(f, s) # f[j] + Sum(f, s \ {j})
    OBVIOUS
  <1> DEFINE k == First(s)
             b == s \ {j, k}
  <1>3. k \in s /\ s \subseteq S /\ IsFiniteSet(s)
    BY <1>2, FirstIn, FS_Subset
  <1> HIDE DEF k
  <1>4. Sum(f, s) = f[k] + Sum(f, s \ {k})
    BY <1>2, <1>3, SumFirst DEF k
  <1>5. j # k
    BY <1>2, <1>4
  <1>6. s \ {k} \notin P /\ s \ {j} \notin P
    BY <1>1, <1>2, <1>3
  <1>7. Sum(f, s \ {k}) = f[j] + Sum(f, b)
    <2>1. (s \ {k}) \ {j} = b /\ j \in s \ {k} /\ s \ {k} \in SUBSET S
      BY <1>2, <1>3, <1>5
    <2> HIDE DEF b
    <2> QED
      BY <1>6, <2>1
  <1>8. Sum(f, s \ {j}) = f[k] + Sum(f, b)
    <2>1. (s \ {j}) \ {k} = b /\ k \in s \ {j} /\ s \ {j} \in SUBSET S
      BY <1>2, <1>3, <1>5
    <2> HIDE DEF b
    <2> QED
      BY <1>6, <2>1
  <1>9. Sum(f, b) \in Nat /\ f[j] \in Nat /\ f[k] \in Nat
    <2>1. b \subseteq S /\ IsFiniteSet(b)
      BY <1>3, FS_Subset
    <2> HIDE DEF b
    <2> QED
      BY <2>1, <1>2, <1>3, SumType
  <1> HIDE DEF P, b
  <1> QED
    BY <1>2, <1>4, <1>7, <1>8, <1>9

\* What is added of fewer elements, and less of each, is less.
LEMMA SumLess ==
    ASSUME NEW f, NEW g, NEW S, IsFiniteSet(S), NEW T, T \subseteq S,
           \A i \in S : g[i] \in Nat, \A i \in T : f[i] \in Nat /\ f[i] <= g[i]
    PROVE  Sum(f, T) <= Sum(g, S)
  <1> DEFINE P == {s \in SUBSET T : ~ Sum(f, s) <= Sum(g, s)}
             Q == {s \in SUBSET S : T \subseteq s /\ ~ Sum(f, T) <= Sum(g, s)}
  <1>1. IsFiniteSet(T) /\ \A s \in SUBSET S : IsFiniteSet(s)
    BY FS_Subset
  <1>2. ASSUME P # {} PROVE FALSE
    <2>1. PICK s \in P : \A t \in P : t \subseteq s => t = s
      <3>1. P \subseteq SUBSET T
        OBVIOUS
      <3> HIDE DEF P
      <3> QED
        BY <1>1, <1>2, <3>1, Smallest
    <2>2. IsFiniteSet(s) /\ s \subseteq T /\ ~ Sum(f, s) <= Sum(g, s)
      BY <1>1
    <2>3. CASE s = {}
      <3>1. Sum(f, s) = 0 /\ Sum(g, s) = 0
        BY <2>2, <2>3, SumFirst
      <3> QED
        BY <2>2, <3>1, SMT
    <2>4. CASE s # {}
      <3>1. PICK i \in s : TRUE
        BY <2>4
      <3> DEFINE t == s \ {i}
      <3>2. t \subseteq T /\ IsFiniteSet(t) /\ t \notin P
        BY <1>1, <2>1, <2>2, <3>1
      <3>3. Sum(f, t) <= Sum(g, t)
        BY <3>2
      <3>4. \A j \in s : f[j] \in Nat /\ g[j] \in Nat /\ f[j] <= g[j]
        BY <2>2
      <3>5. Sum(f, s) = f[i] + Sum(f, t) /\ Sum(g, s) = g[i] + Sum(g, t)
        BY <2>2, <3>4, SumSplit
      <3>6. Sum(f, t) \in Nat /\ Sum(g, t) \in Nat
        <4>1. \A j \in t : f[j] \in Nat /\ g[j] \in Nat
          BY <3>4
        <4> HIDE DEF t
        <4> QED
          BY <3>2, <4>1, SumType
      <3> HIDE DEF t, P
      <3> QED
        BY <2>2, <3>3, <3>4, <3>5, <3>6, SMT
    <2> QED
      BY <2>3, <2>4
  <1>3. Sum(f, T) <= Sum(g, T)
    BY <1>2
  <1>4. ASSUME Q # {} PROVE FALSE
    <2>1. PICK s \in Q : \A t \in Q : t \subseteq s => t = s
      <3>1. Q \subseteq SUBSET S
        OBVIOUS
      <3> HIDE DEF Q
      <3> QED
        BY <1>4, <3>1, Smallest
    <2>2. PICK i \in s : i \notin T
      <3>1. T \subseteq s /\ s # T
        BY <1>3
      <3> HIDE DEF Q
      <3> QED
        BY <3>1
    <2> DEFINE t == s \ {i}
    <2>3. T \subseteq t /\ t \subseteq S /\ t # s /\ s \subseteq S /\ i \in s
      BY <2>1, <2>2
    <2>4. Sum(f, T) <= Sum(g, t)
      BY <2>1, <2>3
    <2>5. /\ Sum(g, s) = g[i] + Sum(g, t) /\ Sum(g, t) \in Nat
          /\ Sum(f, T) \in Nat /\ g[i] \in Nat
      <3>1. Sum(g, s) = g[i] + Sum(g, t)
        BY <1>1, <2>3, SumSplit
      <3> HIDE DEF t
      <3>2. Sum(g, t) \in Nat /\ Sum(f, T) \in Nat /\ g[i] \in Nat
        <4>1. IsFiniteSet(t) /\ \A j \in t : g[j] \in Nat
          BY <1>1, <2>3
        <4> QED
          BY <1>1, <2>3, <4>1, SumType
      <3> QED
        BY <3>1, <3>2
    <2>6. ~ Sum(f, T) <= Sum(g, s)
      OBVIOUS
    <2> HIDE DEF t, Q
    <2> QED
      BY <2>4, <2>5, <2>6, SMT
  <1> QED
    BY <1>1, <1>3, <1>4

\* What changes at one element changes the sum by as much.
LEMMA SumAdd ==
    ASSUME NEW f, NEW g, NEW S, IsFiniteSet(S), NEW i \in S, NEW d \in Nat,
           \A j \in S : f[j] \in Nat, g[i] = f[i] + d, \A j \in S \ {i} : g[j] = f[j]
    PROVE  Sum(g, S) = Sum(f, S) + d
  <1> DEFINE R == S \ {i}
  <1>1. /\ R \subseteq S /\ IsFiniteSet(R)
        /\ \A j \in R : f[j] \in Nat /\ g[j] \in Nat /\ f[j] <= g[j] /\ g[j] <= f[j]
        /\ \A j \in S : f[j] \in Nat /\ g[j] \in Nat
    <2>1. R \subseteq S /\ IsFiniteSet(R)
      BY FS_Subset
    <2>2. f[i] \in Nat /\ g[i] \in Nat
      BY SMT
    <2>3. \A j \in R : f[j] \in Nat /\ g[j] = f[j]
      OBVIOUS
    <2>4. \A j \in R : f[j] <= g[j] /\ g[j] <= f[j]
      BY <2>3, SMT
    <2> QED
      BY <2>1, <2>2, <2>3, <2>4
  <1>2. Sum(f, S) = f[i] + Sum(f, R) /\ Sum(g, S) = g[i] + Sum(g, R)
    BY <1>1, SumSplit
  <1> HIDE DEF R
  <1>3. Sum(f, R) \in Nat /\ Sum(g, R) \in Nat
    BY <1>1, SumType
  <1>4. Sum(f, R) <= Sum(g, R) /\ Sum(g, R) <= Sum(f, R)
    BY <1>1, SumLess
  <1> QED
    BY <1>1, <1>2, <1>3, <1>4, SMT

\* A set of numbers has a least one.
LEMMA LeastNumber ==
    ASSUME NEW P, P \subseteq Nat, P # {}
    PROVE  \E n \in P : \A m \in P : n <= m
  <1>1. PICK n \in P : \A m \in P : <<m, n>> \notin OpToRel(<, Nat)
    BY NatLessThanWellFounded, WFMin, Zenon
  <1>2. ASSUME NEW m \in P PROVE ~ m < n
    BY <1>1, <1>2 DEF OpToRel
  <1> QED
    BY <1>2, SMT

\* After a tick everything is one older: nothing is at age 0.
LEMMA SumShift ==
    ASSUME NEW n \in Nat, NEW f, NEW g, \A i \in 0 .. n : f[i] \in Nat,
           g[0] = 0, \A i \in 1 .. n : g[i] = f[i - 1]
    PROVE  Sum(g, 0 .. n) = Sum(f, 0 .. n - 1)
  <1>1. ASSUME NEW m \in 0 .. n
        PROVE  /\ 0 .. m \ {m} = 0 .. m - 1 /\ IsFiniteSet(0 .. m) /\ IsFiniteSet(0 .. m - 1)
               /\ \A i \in 0 .. m : f[i] \in Nat /\ g[i] \in Nat
    <2>1. m \in Int /\ m - 1 \in Int /\ 0 \in Int
      BY SMT
    <2>2. IsFiniteSet(0 .. m) /\ IsFiniteSet(0 .. m - 1)
      BY <2>1, FS_Interval
    <2>3. 0 .. m \ {m} = 0 .. m - 1
      BY SMT
    <2>4. \A i \in 0 .. m : i \in 0 .. n /\ (i = 0 \/ (i \in 1 .. n /\ i - 1 \in 0 .. n))
      BY SMT
    <2>5. \A i \in 0 .. m : f[i] \in Nat /\ g[i] \in Nat
      BY <2>4, SMT
    <2> QED
      BY <2>2, <2>3, <2>5
  <1>2. ASSUME NEW m \in 0 .. n
        PROVE  /\ Sum(g, 0 .. m) = g[m] + Sum(g, 0 .. m - 1)
               /\ Sum(f, 0 .. m) = f[m] + Sum(f, 0 .. m - 1)
               /\ Sum(f, 0 .. m) \in Nat /\ Sum(g, 0 .. m) \in Nat
    <2>1. m \in 0 .. m
      BY SMT
    <2> DEFINE I == 0 .. m
               J == 0 .. m - 1
    <2>2. /\ I \ {m} = J /\ IsFiniteSet(I) /\ m \in I
          /\ \A i \in I : f[i] \in Nat /\ g[i] \in Nat
      BY <1>1, <2>1
    <2> HIDE DEF I, J
    <2>3. Sum(g, I) = g[m] + Sum(g, I \ {m}) /\ Sum(f, I) = f[m] + Sum(f, I \ {m})
      BY <2>2, SumSplit, ZenonT(60)
    <2>4. Sum(f, I) \in Nat /\ Sum(g, I) \in Nat
      BY <2>2, SumType
    <2> QED
      BY <2>2, <2>3, <2>4 DEF I, J
  <1> DEFINE P == {m \in 0 .. n : Sum(g, 0 .. m) # Sum(f, 0 .. m - 1)}
  <1>3. ASSUME P # {} PROVE FALSE
    <2>1. PICK m \in P : \A k \in P : m <= k
      <3>1. P \subseteq Nat
        BY SMT
      <3> HIDE DEF P
      <3> QED
        BY <1>3, <3>1, LeastNumber
    <2>2. m \in 0 .. n /\ Sum(g, 0 .. m) # Sum(f, 0 .. m - 1)
      OBVIOUS
    <2>3. CASE m = 0
      <3>1. 0 .. m - 1 = {}
        BY <2>3, SMT
      <3>2. Sum(f, 0 .. m - 1) = 0 /\ Sum(g, 0 .. m - 1) = 0
        BY <3>1, FS_EmptySet, SumFirst
      <3>3. Sum(g, 0 .. m) = g[m] + Sum(g, 0 .. m - 1) /\ g[m] = 0
        BY <1>2, <2>2, <2>3
      <3> HIDE DEF P
      <3> QED
        BY <2>2, <3>2, <3>3, SMT
    <2>4. CASE m # 0
      <3>1. m - 1 \in 0 .. n /\ m \in 1 .. n /\ ~ m <= m - 1
        BY <2>2, <2>4, SMT
      <3>2. Sum(g, 0 .. m - 1) = Sum(f, 0 .. m - 1 - 1)
        BY <2>1, <3>1
      <3>3. Sum(f, 0 .. m - 1) = f[m - 1] + Sum(f, 0 .. m - 1 - 1)
        BY <1>2, <3>1
      <3>4. Sum(g, 0 .. m) = f[m - 1] + Sum(g, 0 .. m - 1)
        BY <1>2, <2>2, <3>1
      <3> QED
        BY <2>2, <3>2, <3>3, <3>4
    <2> QED
      BY <2>3, <2>4
  <1> QED
    BY <1>3, SMT

LEMMA SumMember ==
    ASSUME NEW f, NEW S, IsFiniteSet(S), \A i \in S : f[i] \in Nat, NEW i \in S
    PROVE  f[i] <= Sum(f, S)
  <1> DEFINE R == S \ {i}
  <1>1. IsFiniteSet(R) /\ R \subseteq S
    BY FS_Subset
  <1>2. Sum(f, S) = f[i] + Sum(f, R)
    BY SumSplit
  <1> HIDE DEF R
  <1>3. Sum(f, R) \in Nat
    BY <1>1, SumType
  <1> QED
    BY <1>2, <1>3, SMT

LEMMA SumZero ==
    ASSUME NEW f, NEW S, IsFiniteSet(S), \A i \in S : f[i] = 0
    PROVE  Sum(f, S) = 0
  <1>1. CASE S = {}
    BY <1>1, SumFirst
  <1>2. CASE S # {}
    <2> DEFINE P == {s \in SUBSET S : Sum(f, s) # 0}
    <2> SUFFICES ASSUME P # {} PROVE FALSE
      OBVIOUS
    <2>1. PICK s \in P : \A t \in P : t \subseteq s => t = s
      <3>1. P \subseteq SUBSET S
        OBVIOUS
      <3> HIDE DEF P
      <3> QED
        BY <3>1, Smallest
    <2>2. s \subseteq S /\ Sum(f, s) # 0 /\ IsFiniteSet(s)
      BY FS_Subset
    <2>3. s # {} /\ Sum(f, s) = f[First(s)] + Sum(f, s \ {First(s)})
      <3> HIDE DEF P
      <3> QED
        BY <2>2, SumFirst
    <2>4. f[First(s)] = 0 /\ Sum(f, s \ {First(s)}) = 0
      BY <2>1, <2>2, <2>3, FirstIn
    <2> HIDE DEF P
    <2> QED
      BY <2>2, <2>3, <2>4, SMT
  <1> QED
    BY <1>1, <1>2

-----------------------------------------------------------------------------
(* The fixed window.                                                       *)

\* The inductive invariant: the part of the types it needs, and CounterInv.
IInv ==
    /\ value \in Int /\ -Floor <= value /\ value <= Limit
    /\ ttl \in {NoKey, NoExpiry} \cup 1 .. Window
    /\ pending \in [Clients -> Costs \cup {0}]
    /\ granted \in 0 .. Limit
    /\ recent \in [0 .. Window - 1 -> 0 .. RecentCap]
    /\ CounterInv

\* A pending request has one of the positive costs.
LEMMA PendingCost ==
    ASSUME IInv, NEW c \in Clients, pending[c] # 0
    PROVE  pending[c] \in Costs /\ pending[c] \in Nat /\ pending[c] > 0
<1>1. pending[c] \in Costs
      BY DEF IInv
<1>2. Costs \subseteq Nat \ {0}
      BY LimitAssumption, FloorAssumption
<1>3. pending[c] \in Nat \ {0}
      BY <1>1, <1>2, Zenon
<1> QED BY <1>1, <1>3

LEMMA InitIInv == Init => IInv
BY LimitAssumption, FloorAssumption DEF Init, IInv, CounterInv, NoKey, NoExpiry, RecentCap

\* A request of a positive cost that is allowed fits in what the window has
\* left, and only a counter with a lifetime allows one.
LEMMA AllowedFits ==
    ASSUME IInv, NEW c \in Clients, pending[c] # 0, Allowed(value, pending[c])
    PROVE  /\ ttl > 0
           /\ pending[c] \in Costs
           /\ granted + pending[c] <= Limit
<1>1. pending[c] \in Costs /\ pending[c] \in Nat /\ pending[c] > 0
      BY PendingCost
<1>2. value > 0
      BY <1>1 DEF IInv, Allowed
<1>3. ttl # NoExpiry /\ ttl # NoKey
      BY <1>2 DEF IInv, CounterInv
<1>4. ttl > 0
      BY <1>3, LimitAssumption, FloorAssumption DEF IInv, NoKey, NoExpiry
<1>5. granted + value <= Limit /\ granted \in Int /\ value \in Int /\ Limit \in Int
      BY <1>4, LimitAssumption, FloorAssumption DEF IInv, CounterInv
<1>6. value - pending[c] >= 0
      BY DEF Allowed
<1> QED BY <1>1, <1>4, <1>5, <1>6

LEMMA SetStep ==
    ASSUME IInv, NEW c \in Clients, NEW k \in Costs, SetIfAbsent(c, k)
    PROVE  IInv'
BY LimitAssumption, FloorAssumption, SMTT(30) DEF IInv, CounterInv, SetIfAbsent, NoKey, NoExpiry

LEMMA DecrStep ==
    ASSUME IInv, NEW c \in Clients, DecrBy(c)
    PROVE  IInv'
<1> USE LimitAssumption, FloorAssumption DEF NoKey, NoExpiry
<1>1. pending[c] \in Costs /\ pending[c] \in Nat /\ pending[c] > 0
      BY PendingCost DEF DecrBy
<1>2. pending' \in [Clients -> Costs \cup {0}]
      BY DEF IInv, DecrBy
<1>3. ttl' \in {NoKey, NoExpiry} \cup 1 .. Window /\ ttl' # NoKey
      BY DEF IInv, DecrBy
<1>4. value' \in Int /\ -Floor <= value' /\ value' <= Limit
      BY <1>1 DEF IInv, DecrBy
<1>5. CASE Allowed(value, pending[c])
  <2>1. ttl > 0 /\ granted + pending[c] <= Limit
        BY <1>5, AllowedFits DEF DecrBy
  <2>2. value' = value - pending[c] /\ granted' = granted + pending[c] /\ ttl' = ttl
        BY <1>1, <1>5, <2>1 DEF IInv, DecrBy, Allowed
  <2>3. granted' \in 0 .. Limit
        BY <1>1, <2>1, <2>2 DEF IInv
  <2>4. recent' \in [0 .. Window - 1 -> 0 .. RecentCap]
        BY <1>1, <1>5 DEF IInv, DecrBy, RecentCap
  <2>5. CounterInv'
        BY <1>1, <2>1, <2>2 DEF IInv, CounterInv
  <2> QED BY <1>2, <1>3, <1>4, <2>3, <2>4, <2>5 DEF IInv
<1>6. CASE ~Allowed(value, pending[c])
  <2>1. value' < 0 /\ granted' = granted /\ recent' = recent
        BY <1>1, <1>6 DEF IInv, DecrBy, Allowed
  <2>2. CounterInv'
        BY <1>3, <2>1 DEF IInv, CounterInv, DecrBy
  <2> QED BY <1>2, <1>3, <1>4, <2>1, <2>2 DEF IInv
<1> QED BY <1>5, <1>6

LEMMA IInvStep == IInv /\ [Next]_vars => IInv'
<1> SUFFICES ASSUME IInv, [Next]_vars PROVE IInv'
    OBVIOUS
<1> USE LimitAssumption, FloorAssumption
<1>1. ASSUME NEW c \in Clients, NEW k \in Costs, SetIfAbsent(c, k) PROVE IInv'
      BY <1>1, SetStep
<1>2. ASSUME NEW c \in Clients, DecrBy(c) PROVE IInv'
      BY <1>2, DecrStep
<1>3. ASSUME NEW c \in Clients, Fail(c) PROVE IInv'
      BY <1>3 DEF Fail, IInv, CounterInv
<1>4. CASE Cleanup
      BY <1>4 DEF Cleanup, IInv, CounterInv, NoKey, NoExpiry, RecentCap
<1>5. CASE Tick
  <2>1. recent' \in [0 .. Window - 1 -> 0 .. RecentCap]
        BY <1>5 DEF Tick, IInv, RecentCap
  <2>2. value' \in Int /\ -Floor <= value' /\ value' <= Limit /\ granted' \in 0 .. Limit
        BY <1>5 DEF Tick, IInv
  <2>3. ttl' \in {NoKey, NoExpiry} \cup 1 .. Window
        BY <1>5 DEF Tick, IInv, NoKey, NoExpiry
  <2>4. CounterInv'
        BY <1>5 DEF Tick, IInv, CounterInv, NoKey, NoExpiry
  <2> QED BY <1>5, <2>1, <2>2, <2>3, <2>4 DEF Tick, IInv
<1>6. CASE UNCHANGED vars
      BY <1>6 DEF vars, IInv, CounterInv
<1> QED BY <1>1, <1>2, <1>3, <1>4, <1>5, <1>6 DEF Next

LEMMA Inductive == Spec => []IInv
BY InitIInv, IInvStep, PTL DEF Spec

\* The counter keeps its types: it is never above the limit.
THEOREM TypeCorrect == Spec => []TypeOK
<1>1. IInv => TypeOK
      BY DEF IInv, TypeOK
<1> QED BY <1>1, Inductive, PTL

\* Whatever commands interleave and whichever pipelines fail half way, the
\* counter leaves room for exactly what the window may still grant, and a
\* counter that lost its expiry grants nothing.
THEOREM CounterSound == Spec => []CounterInv
<1>1. IInv => CounterInv
      BY DEF IInv
<1> QED BY <1>1, Inductive, PTL

\* The pipelines implement the abstract budget: no window grants more than the
\* limit, and only scoped_cleanup cuts one short.
THEOREM Refinement == Spec => ImplementsBudget
<1> USE LimitAssumption, FloorAssumption DEF NoKey, NoExpiry
<1>1. Init => Budget!Init
      BY DEF Init, Budget!Init
<1>2. IInv /\ [Next]_vars => [Budget!Next]_(Budget!budget)
  <2> SUFFICES ASSUME IInv, [Next]_vars PROVE [Budget!Next]_(Budget!budget)
      OBVIOUS
  <2> USE DEF Budget!budget
  <2>1. ASSUME NEW c \in Clients, NEW k \in Costs, SetIfAbsent(c, k)
        PROVE  Budget!Open(0) \/ UNCHANGED Budget!budget
        BY <2>1 DEF SetIfAbsent, Budget!Open, IInv, CounterInv
  <2>2. ASSUME NEW c \in Clients, DecrBy(c)
        PROVE  (\E k \in Costs : Budget!Grant(k)) \/ UNCHANGED Budget!budget
    <3>1. CASE Allowed(value, pending[c])
      <4>1. ttl > 0 /\ pending[c] \in Costs /\ granted + pending[c] <= Limit
            BY <2>2, <3>1, AllowedFits DEF DecrBy
      <4>2. granted' = granted + pending[c] /\ ttl' = ttl
            BY <2>2, <3>1, <4>1 DEF DecrBy
      <4>3. Budget!Grant(pending[c])
            BY <4>1, <4>2 DEF Budget!Grant
      <4> QED BY <4>1, <4>3
    <3>2. CASE ~Allowed(value, pending[c])
          BY <2>2, <3>2 DEF DecrBy, IInv
    <3> QED BY <3>1, <3>2
  <2>3. ASSUME NEW c \in Clients, Fail(c) PROVE UNCHANGED Budget!budget
        BY <2>3 DEF Fail
  <2>4. CASE Cleanup
        BY <2>4 DEF Cleanup, Budget!Clean, Budget!Next
  <2>5. CASE Tick
        BY <2>5 DEF Tick, Budget!Tick, Budget!Next, IInv, CounterInv
  <2>6. CASE UNCHANGED vars
        BY <2>6 DEF vars
  <2> QED BY <2>1, <2>2, <2>3, <2>4, <2>5, <2>6 DEF Next, Budget!Next
<1> QED BY <1>1, <1>2, Inductive, PTL DEF Spec, ImplementsBudget, Budget!Spec

-----------------------------------------------------------------------------
(* Across the boundary of two windows.                                     *)

\* The ages up to Window - ttl are those of the window that is open, which has
\* granted what they hold; those before it hold what one window may grant.
BurstInv ==
    /\ ttl > 0 =>
          /\ Sum(recent, 0 .. Window - ttl) <= granted
          /\ Sum(recent, 0 .. Window - 1) <= Sum(recent, 0 .. Window - ttl) + Limit
    /\ ttl < 0 => Sum(recent, 0 .. Window - 1) <= Limit
    /\ ttl = NoKey => recent[0] = 0

\* The ages and their sums are natural numbers.
LEMMA BurstTypes ==
    ASSUME IInv, NEW n \in 0 .. Window - 1
    PROVE  /\ Window \in Nat /\ Window > 0 /\ Limit \in Nat /\ granted \in 0 .. Limit
           /\ 0 \in 0 .. n /\ 0 .. n \subseteq 0 .. Window - 1
           /\ IsFiniteSet(0 .. n) /\ \A i \in 0 .. n : recent[i] \in Nat
           /\ Sum(recent, 0 .. n) \in Nat
  <1>1. Window \in Nat /\ Window > 0 /\ Limit \in Nat /\ granted \in 0 .. Limit
    BY LimitAssumption, FloorAssumption, SMT DEF IInv
  <1>2. 0 \in 0 .. n /\ 0 .. n \subseteq 0 .. Window - 1 /\ n \in Int
    BY <1>1, SMT
  <1>3. \A i \in 0 .. Window - 1 : recent[i] \in Nat
    BY <1>1, SMT DEF IInv, RecentCap
  <1> DEFINE I == 0 .. n
  <1>4. IsFiniteSet(I) /\ \A i \in I : recent[i] \in Nat
    BY <1>2, <1>3, FS_Interval
  <1> HIDE DEF I
  <1>5. Sum(recent, I) \in Nat
    BY <1>4, SumType
  <1> QED
    BY <1>1, <1>2, <1>4, <1>5 DEF I

LEMMA BurstZero ==
    ASSUME NEW f, \A i \in 0 .. Window - 1 : f[i] = 0
    PROVE  Sum(f, 0 .. Window - 1) = 0
  <1>1. Window - 1 \in Int
    BY LimitAssumption, FloorAssumption, SMT
  <1>2. IsFiniteSet(0 .. Window - 1)
    BY <1>1, FS_Interval, SMT
  <1> DEFINE I == 0 .. Window - 1
  <1> HIDE DEF I
  <1>3. IsFiniteSet(I) /\ \A i \in I : f[i] = 0
    BY <1>2 DEF I
  <1>4. Sum(f, I) = 0
    BY <1>3, SumZero
  <1> QED
    BY <1>4 DEF I

\* Nothing is granted before a window is open.
LEMMA BurstSet ==
    ASSUME IInv, BurstInv, NEW c \in Clients, NEW k \in Costs, SetIfAbsent(c, k)
    PROVE  BurstInv'
  <1>1. recent' = recent /\ granted' = granted
    BY DEF SetIfAbsent
  <1>2. CASE ttl = NoKey
    <2>1. ttl' = Window /\ Window \in Nat /\ Window > 0 /\ Limit \in Nat /\ granted >= 0
      BY <1>2, LimitAssumption, FloorAssumption, SMT DEF SetIfAbsent, IInv
    <2>2. Window - ttl' = 0 /\ 0 \in 0 .. Window - 1 /\ ttl < 0
      BY <1>2, <2>1, SMT DEF NoKey
    <2>3. Sum(recent, 0 .. 0) = 0
      <3>1. IsFiniteSet(0 .. 0) /\ \A i \in 0 .. 0 : recent[i] = 0
        <4>1. 0 .. 0 = {0}
          BY SMT
        <4> QED
          BY <1>2, <4>1, FS_Singleton DEF BurstInv
      <3> QED
        BY <3>1, SumZero
    <2>4. Sum(recent, 0 .. Window - 1) <= Limit
      BY <2>2 DEF BurstInv
    <2>5. Sum(recent, 0 .. Window - ttl') = 0
      BY <2>2, <2>3
    <2>6. 0 + Limit = Limit /\ 0 <= granted
      BY <2>1, SMT DEF IInv
    <2>7. ~ ttl' < 0 /\ ttl' # NoKey
      BY <2>1, SMT DEF NoKey
    <2> QED
      BY <1>1, <2>1, <2>4, <2>5, <2>6, <2>7 DEF BurstInv
  <1>3. CASE ttl # NoKey
    BY <1>1, <1>3 DEF SetIfAbsent, BurstInv
  <1> QED
    BY <1>2, <1>3

\* A grant counts once in the open window and once in all.
LEMMA BurstDecr ==
    ASSUME IInv, BurstInv, NEW c \in Clients, DecrBy(c)
    PROVE  BurstInv'
  <1>1. CASE ~Allowed(value, pending[c])
    <2>1. recent' = recent /\ granted' = granted
      BY <1>1 DEF DecrBy
    <2>2. ttl' = ttl \/ (ttl < 0 /\ ttl' = NoExpiry)
      BY SMT DEF DecrBy, NoKey
    <2>3. NoExpiry < 0 /\ ~ NoExpiry > 0 /\ NoExpiry # NoKey
      BY SMT DEF NoExpiry, NoKey
    <2> QED
      BY <2>1, <2>2, <2>3 DEF BurstInv
  <1>2. CASE Allowed(value, pending[c])
    <2>1. ttl > 0 /\ pending[c] \in Nat /\ pending[c] > 0
      BY <1>2, AllowedFits, PendingCost DEF DecrBy
    <2>2. ttl' = ttl /\ granted' = granted + pending[c] /\ ttl \in 1 .. Window
      BY <1>2, <2>1, SMT DEF DecrBy, IInv, NoKey, NoExpiry
    <2>3. /\ recent' = [recent EXCEPT ![0] = IF @ + pending[c] < RecentCap
                                             THEN @ + pending[c] ELSE RecentCap]
          /\ recent \in [0 .. Window - 1 -> 0 .. RecentCap]
          /\ RecentCap \in Nat /\ 0 \in 0 .. Window - 1
      BY <1>2, LimitAssumption, FloorAssumption, SMT DEF DecrBy, IInv, RecentCap
    <2> DEFINE d == recent'[0] - recent[0]
    <2>4. /\ d \in Nat /\ d <= pending[c] /\ recent'[0] = recent[0] + d
          /\ \A i \in 0 .. Window - 1 : i # 0 => recent'[i] = recent[i]
      BY <2>1, <2>3, SMT
    <2> HIDE DEF d
    <2>5. ASSUME NEW n \in 0 .. Window - 1
          PROVE  /\ Sum(recent', 0 .. n) = Sum(recent, 0 .. n) + d
                 /\ Sum(recent, 0 .. n) \in Nat
      <3> DEFINE I == 0 .. n
      <3>1. /\ 0 \in I /\ I \subseteq 0 .. Window - 1 /\ IsFiniteSet(I)
            /\ \A i \in I : recent[i] \in Nat
            /\ Sum(recent, I) \in Nat
        BY BurstTypes
      <3>2. \A i \in I \ {0} : recent'[i] = recent[i]
        BY <2>4, <3>1
      <3> HIDE DEF I
      <3>3. Sum(recent', I) = Sum(recent, I) + d
        <4>1. PICK i \in I : i = 0
          BY <3>1
        <4>2. d \in Nat /\ recent'[i] = recent[i] + d /\ \A j \in I \ {i} : recent'[j] = recent[j]
          BY <2>4, <3>2, <4>1
        <4>3. IsFiniteSet(I) /\ \A j \in I : recent[j] \in Nat
          BY <3>1
        <4> QED
          BY <4>2, <4>3, SumAdd
      <3> QED
        BY <3>1, <3>3 DEF I
    <2>6. Window - ttl \in 0 .. Window - 1 /\ Window - 1 \in 0 .. Window - 1
      BY <2>2, LimitAssumption, FloorAssumption, SMT
    <2> DEFINE open == Sum(recent, 0 .. Window - ttl)
               all == Sum(recent, 0 .. Window - 1)
    <2>7. /\ Sum(recent', 0 .. Window - ttl') = open + d
          /\ Sum(recent', 0 .. Window - 1) = all + d
          /\ open \in Nat /\ all \in Nat
      BY <2>2, <2>5, <2>6
    <2>8. open <= granted /\ all <= open + Limit
      BY <2>1 DEF BurstInv
    <2> HIDE DEF open, all
    <2>9. open + d <= granted + pending[c] /\ all + d <= (open + d) + Limit
      BY <2>1, <2>4, <2>7, <2>8, LimitAssumption, FloorAssumption, SMT DEF IInv
    <2>10. ~ ttl' < 0 /\ ttl' # NoKey
      BY <2>1, <2>2, SMT DEF NoKey
    <2> QED
      BY <2>2, <2>7, <2>9, <2>10 DEF BurstInv
  <1> QED
    BY <1>1, <1>2

LEMMA BurstTick ==
    ASSUME IInv, BurstInv, Tick
    PROVE  BurstInv'
  <1>1. /\ Window \in Nat /\ Window > 0 /\ Limit \in Nat /\ granted \in 0 .. Limit
        /\ ttl \in {NoKey, NoExpiry} \cup 1 .. Window
    BY LimitAssumption, FloorAssumption, SMT DEF IInv
  <1>2. recent'[0] = 0 /\ \A i \in 1 .. Window - 1 : recent'[i] = recent[i - 1]
    BY <1>1, SMT DEF Tick
  <1>3. ASSUME NEW n \in 0 .. Window - 1
        PROVE  Sum(recent', 0 .. n) = Sum(recent, 0 .. n - 1)
    <2>1. n \in Nat /\ 1 .. n \subseteq 1 .. Window - 1
      BY <1>1, SMT
    <2>2. \A i \in 0 .. n : recent[i] \in Nat
      BY BurstTypes
    <2>3. \A i \in 1 .. n : recent'[i] = recent[i - 1]
      BY <1>2, <2>1
    <2> QED
      BY <1>2, <2>1, <2>2, <2>3, SumShift
  \* What was granted in the last tick of a window's length is forgotten.
  <1>4. Sum(recent', 0 .. Window - 1) <= Sum(recent, 0 .. Window - 1)
    <2> DEFINE I == 0 .. Window - 1 - 1
               J == 0 .. Window - 1
    <2>1. Window - 1 \in J /\ I \subseteq J
      BY <1>1, SMT
    <2>2. IsFiniteSet(J) /\ \A i \in J : recent[i] \in Nat
      BY <2>1, BurstTypes
    <2>3. \A i \in J : recent[i] <= recent[i]
      BY <2>2, SMT
    <2>4. Sum(recent', J) = Sum(recent, I)
      BY <1>3, <2>1
    <2> HIDE DEF I, J
    <2>5. Sum(recent, I) <= Sum(recent, J)
      BY <2>1, <2>2, <2>3, SumLess
    <2> QED
      BY <2>4, <2>5 DEF J
  <1>5. /\ Sum(recent, 0 .. Window - 1) \in Nat
        /\ Sum(recent', 0 .. Window - 1) \in Nat
    <2>1. Window - 1 \in 0 .. Window - 1
      BY <1>1, SMT
    <2>2. IInv'
      BY IInvStep DEF Next
    <2>3. Sum(recent, 0 .. Window - 1) \in Nat
      BY <2>1, BurstTypes
    <2> DEFINE J == 0 .. Window - 1
    <2>4. IsFiniteSet(J) /\ \A i \in J : recent'[i] \in Nat
      <3>1. IsFiniteSet(J)
        BY <2>1, BurstTypes
      <3>2. recent' \in [0 .. Window - 1 -> 0 .. RecentCap] /\ RecentCap \in Nat
        BY <2>2, <1>1, SMT DEF IInv, RecentCap
      <3> QED
        BY <3>1, <3>2, SMT
    <2> HIDE DEF J
    <2>5. Sum(recent', J) \in Nat
      BY <2>4, SumType
    <2> QED
      BY <2>3, <2>5 DEF J
  <1>6. CASE ttl = 1
    <2>1. ttl' = NoKey /\ Window - ttl = Window - 1
      BY <1>1, <1>6, SMT DEF Tick
    <2>2. Sum(recent, 0 .. Window - 1) <= granted
      BY <1>6, <2>1, SMT DEF BurstInv
    <2>3. Sum(recent', 0 .. Window - 1) <= Limit
      BY <1>1, <1>4, <1>5, <2>2, SMT
    <2>4. ~ ttl' > 0
      BY <2>1, SMT DEF NoKey
    <2> QED
      BY <1>2, <2>3, <2>4 DEF BurstInv
  <1>7. CASE ttl > 1
    <2>1. /\ ttl' = ttl - 1 /\ granted' = granted /\ ttl \in 1 .. Window
          /\ Window - ttl' \in 0 .. Window - 1 /\ Window - ttl' - 1 = Window - ttl
      BY <1>1, <1>7, SMT DEF Tick, NoKey, NoExpiry
    <2>2. Sum(recent', 0 .. Window - ttl') = Sum(recent, 0 .. Window - ttl)
      BY <1>3, <2>1
    <2> DEFINE open == Sum(recent, 0 .. Window - ttl)
               all == Sum(recent, 0 .. Window - 1)
    <2>3. open <= granted /\ all <= open + Limit /\ open \in Nat
      <3>1. ttl > 0 /\ Window - ttl \in 0 .. Window - 1
        BY <1>1, <1>7, <2>1, SMT
      <3> QED
        BY <3>1, BurstTypes DEF BurstInv
    <2> HIDE DEF open
    <2>4. Sum(recent', 0 .. Window - 1) <= open + Limit
      BY <1>1, <1>4, <1>5, <2>3, SMT
    <2>5. ~ ttl' < 0 /\ ttl' # NoKey
      BY <1>7, <2>1, SMT DEF NoKey
    <2> QED
      BY <2>1, <2>2, <2>3, <2>4, <2>5 DEF BurstInv, open
  <1>8. CASE ttl < 0
    <2>1. ttl' = ttl /\ ~ ttl' > 0
      BY <1>1, <1>8, SMT DEF Tick, NoKey, NoExpiry
    <2>2. Sum(recent, 0 .. Window - 1) <= Limit
      BY <1>8 DEF BurstInv
    <2>3. Sum(recent', 0 .. Window - 1) <= Limit
      BY <1>1, <1>4, <1>5, <2>2, SMT
    <2> QED
      BY <1>2, <2>1, <2>3 DEF BurstInv
  <1> QED
    BY <1>1, <1>6, <1>7, <1>8, SMT DEF NoKey, NoExpiry

LEMMA BurstAlways == Spec => [](IInv /\ BurstInv)
  <1>1. Init => BurstInv
    <2> SUFFICES ASSUME Init PROVE BurstInv
      OBVIOUS
    <2>1. Sum(recent, 0 .. Window - 1) = 0 /\ recent[0] = 0
      <3>1. \A i \in 0 .. Window - 1 : recent[i] = 0
        BY DEF Init
      <3>2. 0 \in 0 .. Window - 1
        BY LimitAssumption, FloorAssumption, SMT
      <3> QED
        BY <3>1, <3>2, BurstZero
    <2>2. ttl = NoKey /\ ~ ttl > 0 /\ 0 <= Limit
      BY LimitAssumption, FloorAssumption, SMT DEF Init, NoKey
    <2> QED
      BY <2>1, <2>2 DEF BurstInv
  <1>2. IInv /\ BurstInv /\ [Next]_vars => BurstInv'
    <2> SUFFICES ASSUME IInv, BurstInv, [Next]_vars PROVE BurstInv'
      OBVIOUS
    <2>1. ASSUME NEW c \in Clients, Fail(c) PROVE BurstInv'
      BY <2>1 DEF Fail, BurstInv
    <2>2. CASE Cleanup
      <3>1. Sum(recent', 0 .. Window - 1) = 0 /\ recent'[0] = 0
        <4>1. \A i \in 0 .. Window - 1 : recent'[i] = 0
          BY <2>2 DEF Cleanup
        <4>2. 0 \in 0 .. Window - 1
          BY LimitAssumption, FloorAssumption, SMT
        <4> QED
          BY <4>1, <4>2, BurstZero
      <3>2. ttl' = NoKey /\ ~ ttl' > 0 /\ 0 <= Limit
        BY <2>2, LimitAssumption, FloorAssumption, SMT DEF Cleanup, NoKey
      <3> QED
        BY <3>1, <3>2 DEF BurstInv
    <2>3. CASE UNCHANGED vars
      BY <2>3 DEF vars, BurstInv
    <2> QED
      BY <2>1, <2>2, <2>3, BurstSet, BurstDecr, BurstTick DEF Next
  <1> QED
    BY <1>1, <1>2, Inductive, PTL DEF Spec

\* Between two cleanups, no time of a window's length sees more than twice the
\* limit granted: two windows may meet in it, never three, however the
\* pipelines of atomic_fixed_window_check interleave and fail.
THEOREM BurstIsBounded == Spec => []BoundaryBurst
  <1>1. IInv /\ BurstInv => BoundaryBurst
    <2> SUFFICES ASSUME IInv, BurstInv PROVE BoundaryBurst
      OBVIOUS
    <2>1. Window - 1 \in 0 .. Window - 1 /\ Limit \in Nat /\ granted \in 0 .. Limit
          /\ ttl \in {NoKey, NoExpiry} \cup 1 .. Window
      BY LimitAssumption, FloorAssumption, SMT DEF IInv
    <2>2. Sum(recent, 0 .. Window - 1) \in Nat
      BY <2>1, BurstTypes
    <2>3. CASE ttl > 0
      <3> DEFINE open == Sum(recent, 0 .. Window - ttl)
                 all == Sum(recent, 0 .. Window - 1)
      <3>1. Window - ttl \in 0 .. Window - 1
        BY <2>1, <2>3, LimitAssumption, FloorAssumption, SMT DEF NoKey, NoExpiry
      <3>2. open \in Nat /\ open <= granted /\ all <= open + Limit /\ all \in Nat
        BY <2>2, <2>3, <3>1, BurstTypes DEF BurstInv
      <3> HIDE DEF open, all
      <3>3. all <= 2 * Limit
        BY <2>1, <3>2, SMT
      <3> QED
        BY <3>3 DEF BoundaryBurst, Sum, all
    <2>4. CASE ~ ttl > 0
      <3>1. ttl < 0
        BY <2>1, <2>4, SMT DEF NoKey, NoExpiry
      <3>2. Sum(recent, 0 .. Window - 1) <= 2 * Limit
        BY <2>1, <2>2, <3>1, SMT DEF BurstInv
      <3> QED
        BY <3>2 DEF BoundaryBurst, Sum
    <2> QED
      BY <2>3, <2>4
  <1> QED
    BY <1>1, BurstAlways, PTL

-----------------------------------------------------------------------------
(* The sliding window.                                                     *)
\* The members of the sorted set are within the limit, late members included,
\* and among the youngest there is one for whatever was granted lately: a
\* grant may be at most Delay younger than its member.  The key outlives both.
LogInv ==
    /\ Sum(entries, Ages) <= Limit
    /\ \A n \in 0 .. Window - Delay - 1 :
          Sum(grantedAt, 0 .. n) <= Sum(entries, 0 .. n + Delay)
    /\ \A a \in 0 .. Window - 1 : grantedAt[a] > 0 => life + a > Window

LEMMA LogTotal == \A f, S : Total(f, S) = Sum(f, S)
  BY DEF Sum, Total, MapThenSumSet, MapThenFoldSet

LEMMA LogNumbers ==
    /\ Limit \in Nat /\ Window \in Nat /\ Delay \in Nat /\ Limit > 0 /\ Window > 0
    /\ Ages \subseteq Nat /\ IsFiniteSet(Ages)
    /\ \A n \in 0 .. Window - Delay - 1 : 0 .. n + Delay \subseteq Ages
    /\ \A n \in Int : IsFiniteSet(0 .. n)
    /\ Costs \subseteq Nat
  <1>1. /\ Limit \in Nat /\ Window \in Nat /\ Delay \in Nat /\ Limit > 0 /\ Window > 0
        /\ Ages \subseteq Nat /\ Costs \subseteq Nat
    BY LimitAssumption, DelayAssumption, SMT DEF Ages
  <1>2. \A n \in 0 .. Window - Delay - 1 : 0 .. n + Delay \subseteq Ages
    BY <1>1, SMT DEF Ages
  <1>3. \A n \in Int : IsFiniteSet(0 .. n)
    BY FS_Interval, SMT
  <1>4. Window + Delay - 1 \in Int
    BY <1>1, SMT
  <1> QED
    BY <1>1, <1>2, <1>3, <1>4 DEF Ages

LEMMA LogInit == SlidingInit => SlidingTypeOK /\ LogInv
  <1> SUFFICES ASSUME SlidingInit PROVE SlidingTypeOK /\ LogInv
    OBVIOUS
  <1>1. SlidingTypeOK
    BY LogNumbers, SMT DEF SlidingInit, NoRequests, SlidingTypeOK, RequestsOK
  <1>2. (\A a \in Ages : entries[a] = 0) /\ (\A a \in 0 .. Window - 1 : grantedAt[a] = 0)
    BY DEF SlidingInit, NoRequests
  <1>3. Sum(entries, Ages) <= Limit
    <2>1. Sum(entries, Ages) = 0
      BY <1>2, LogNumbers, SumZero
    <2> QED
      BY <2>1, LogNumbers, SMT
  <1>4. ASSUME NEW n \in 0 .. Window - Delay - 1
        PROVE  Sum(grantedAt, 0 .. n) <= Sum(entries, 0 .. n + Delay)
    <2>1. 0 .. n \subseteq 0 .. Window - 1 /\ n \in Int /\ n + Delay \in Int
      BY LogNumbers, SMT
    <2> DEFINE I == 0 .. n
               J == 0 .. n + Delay
    <2>2. IsFiniteSet(I) /\ IsFiniteSet(J)
      BY <2>1, LogNumbers
    <2>3. (\A a \in I : grantedAt[a] = 0) /\ \A a \in J : entries[a] = 0
      BY <1>2, <2>1, LogNumbers
    <2> HIDE DEF I, J
    <2>4. Sum(grantedAt, I) = 0 /\ Sum(entries, J) = 0
      BY <2>2, <2>3, SumZero
    <2> QED
      BY <2>4, SMT DEF I, J
  <1>5. \A a \in 0 .. Window - 1 : grantedAt[a] > 0 => life + a > Window
    BY <1>2, SMT
  <1> QED
    BY <1>1, <1>3, <1>4, <1>5 DEF LogInv

\* What a script keeps: all members within the window.
LEMMA KeptFacts ==
    ASSUME SlidingTypeOK, LogInv, NEW c \in Clients
    PROVE  /\ Kept(c) \in [Ages -> 0 .. Limit]
           /\ \A a \in Ages : Kept(c)[a] \in Nat /\ entries[a] \in Nat
           /\ \A a \in Ages : Kept(c)[a] <= entries[a]
           /\ \A a \in Ages : a < Window => Kept(c)[a] = entries[a]
           /\ Sum(Kept(c), Ages) \in Nat
           /\ Sum(Kept(c), Ages) <= Limit
           /\ age[c] \in Ages /\ age[c] \in 0 .. Delay
           /\ cost[c] \in Nat
  <1>1. age[c] \in 0 .. Delay /\ cost[c] \in Nat
    <2>1. age[c] \in 0 .. Delay /\ cost[c] \in Costs \cup {0}
      BY DEF SlidingTypeOK, RequestsOK
    <2>2. Costs \subseteq Nat
      BY LogNumbers
    <2>3. 0 \in Nat
      BY SMT
    <2> QED
      BY <2>1, <2>2, <2>3
  <1>2. age[c] \in Ages
    BY <1>1, LogNumbers, SMT DEF Ages
  <1>3. /\ Kept(c) \in [Ages -> 0 .. Limit]
        /\ \A a \in Ages : Kept(c)[a] \in Nat /\ entries[a] \in Nat
        /\ \A a \in Ages : Kept(c)[a] <= entries[a]
        /\ \A a \in Ages : a < Window => Kept(c)[a] = entries[a]
    BY <1>1, LogNumbers, SMT DEF SlidingTypeOK, RequestsOK, Kept
  <1>4. Sum(Kept(c), Ages) <= Sum(entries, Ages)
    BY <1>3, LogNumbers, SumLess
  <1>5. Sum(Kept(c), Ages) \in Nat /\ Sum(entries, Ages) \in Nat
    BY <1>3, LogNumbers, SumType
  <1>6. Sum(entries, Ages) <= Limit /\ Limit \in Nat
    BY LogNumbers DEF LogInv
  <1>7. Sum(Kept(c), Ages) <= Limit
    BY <1>4, <1>5, <1>6, SMT
  <1> QED
    BY <1>1, <1>2, <1>3, <1>5, <1>7

\* The members that are kept are at least those any grantedAt grant needs.
LEMMA KeptEnough ==
    ASSUME SlidingTypeOK, LogInv, NEW c \in Clients,
           NEW n \in 0 .. Window - Delay - 1
    PROVE  /\ Sum(grantedAt, 0 .. n) <= Sum(Kept(c), 0 .. n + Delay)
           /\ Sum(grantedAt, 0 .. n) \in Nat /\ Sum(Kept(c), 0 .. n + Delay) \in Nat
           /\ \A i \in 0 .. n : grantedAt[i] \in Nat
           /\ IsFiniteSet(0 .. n) /\ IsFiniteSet(0 .. n + Delay)
           /\ age[c] \in 0 .. n + Delay /\ 0 \in 0 .. n
  <1> DEFINE I == 0 .. n
             J == 0 .. n + Delay
             K == Kept(c)
  <1>1. n \in Int /\ n + Delay \in Int /\ J \subseteq Ages /\ \A a \in J : a < Window
    <2>1. Delay \in Nat /\ Window \in Nat
      BY LogNumbers
    <2>2. n \in Int /\ n + Delay \in Int /\ \A a \in J : a < Window
      BY <2>1, SMT
    <2>3. J \subseteq Ages
      BY LogNumbers
    <2> QED
      BY <2>2, <2>3
  <1>2. IsFiniteSet(I) /\ IsFiniteSet(J)
    BY <1>1, LogNumbers
  <1>3. \A i \in I : grantedAt[i] \in Nat
    BY LogNumbers, SMT DEF SlidingTypeOK, RequestsOK
  <1>4. age[c] \in J /\ 0 \in I
    BY KeptFacts, LogNumbers, SMT
  <1>5. \A a \in J : K[a] \in Nat /\ entries[a] \in Nat /\ K[a] = entries[a]
    BY <1>1, KeptFacts
  <1>6. Sum(grantedAt, I) <= Sum(entries, J)
    BY DEF LogInv
  <1> HIDE DEF I, J, K
  <1>7. \A a \in J : entries[a] <= K[a]
    BY <1>5, SMT
  <1>8. Sum(entries, J) <= Sum(K, J)
    BY <1>2, <1>5, <1>7, SumLess
  <1>9. Sum(entries, J) \in Nat /\ Sum(K, J) \in Nat /\ Sum(grantedAt, I) \in Nat
    BY <1>2, <1>3, <1>5, SumType
  <1>10. Sum(grantedAt, I) <= Sum(K, J)
    BY <1>6, <1>8, <1>9, SMT
  <1> QED
    BY <1>2, <1>3, <1>4, <1>9, <1>10 DEF I, J, K

LEMMA LogCheck ==
    ASSUME SlidingTypeOK, LogInv, NEW c \in Clients, CheckAndAdd(c)
    PROVE  SlidingTypeOK' /\ LogInv'
  <1> DEFINE K == Kept(c)
  <1>1. cost' \in [Clients -> Costs \cup {0}] /\ age' \in [Clients -> 0 .. Delay]
    BY LogNumbers, SMT DEF CheckAndAdd, Over, SlidingTypeOK, RequestsOK
  <1>2. CASE ~SlidingFits(c)
    <2>1. entries' = K /\ life' = life /\ grantedAt' = grantedAt
      BY <1>2 DEF CheckAndAdd, Over
    <2>2. SlidingTypeOK'
      BY <1>1, <2>1, KeptFacts DEF SlidingTypeOK, RequestsOK
    <2>3. LogInv'
      BY <2>1, KeptFacts, KeptEnough DEF LogInv
    <2> QED
      BY <2>2, <2>3
  <1>3. CASE SlidingFits(c)
    <2>1. /\ entries' = [K EXCEPT ![age[c]] = @ + cost[c]]
          /\ life' = Window + 1
          /\ grantedAt' = [grantedAt EXCEPT ![0] = @ + cost[c]]
      BY <1>3 DEF CheckAndAdd, Over
    <2>2. Sum(K, Ages) + cost[c] <= Limit
      BY <1>3, LogTotal DEF SlidingFits
    <2>3. /\ entries'[age[c]] = K[age[c]] + cost[c]
          /\ \A a \in Ages \ {age[c]} : entries'[a] = K[a]
          /\ entries' \in [Ages -> Nat]
      BY <2>1, KeptFacts, LogNumbers, SMT
    <2>4. Sum(entries', Ages) = Sum(K, Ages) + cost[c]
      <3> HIDE DEF K
      <3>1. /\ \A a \in Ages : K[a] \in Nat
            /\ age[c] \in Ages /\ cost[c] \in Nat
        BY KeptFacts DEF K
      <3>2. IsFiniteSet(Ages)
        BY LogNumbers
      <3> QED
        BY <2>3, <3>1, <3>2, SumAdd, SMT
    <2>5. \A a \in Ages : entries'[a] <= Limit
      <3>1. \A a \in Ages : entries'[a] \in Nat /\ entries'[a] <= Sum(entries', Ages)
        BY <2>3, LogNumbers, SumMember
      <3>2. Sum(entries', Ages) \in Nat
        BY <3>1, LogNumbers, SumType
      <3> QED
        BY <2>2, <2>4, <3>1, <3>2, LogNumbers, SMT
    <2>6. SlidingTypeOK'
      <3>1. entries' \in [Ages -> 0 .. Limit]
        BY <2>3, <2>5, SMT
      <3>2. grantedAt' \in [0 .. Window - 1 -> Nat] /\ life' \in 0 .. Window + 1
        BY <2>1, KeptFacts, LogNumbers, SMTT(30) DEF SlidingTypeOK, RequestsOK
      <3> QED
        BY <1>1, <3>1, <3>2 DEF SlidingTypeOK, RequestsOK
    <2>7. ASSUME NEW n \in 0 .. Window - Delay - 1
          PROVE  Sum(grantedAt', 0 .. n) <= Sum(entries', 0 .. n + Delay)
      <3> DEFINE I == 0 .. n
                 J == 0 .. n + Delay
      <3>1. J \subseteq Ages /\ I \subseteq 0 .. Window - 1
        <4>1. J \subseteq Ages /\ Window \in Nat /\ Delay \in Nat
          BY LogNumbers
        <4> QED
          BY <4>1, SMT
      <3>2. /\ grantedAt'[0] = grantedAt[0] + cost[c]
            /\ \A i \in I \ {0} : grantedAt'[i] = grantedAt[i]
        BY <2>1, <3>1, KeptEnough, SMT DEF SlidingTypeOK, RequestsOK
      <3>3. /\ Sum(grantedAt, I) <= Sum(K, J) /\ Sum(grantedAt, I) \in Nat /\ Sum(K, J) \in Nat
            /\ \A i \in I : grantedAt[i] \in Nat
            /\ IsFiniteSet(I) /\ IsFiniteSet(J) /\ age[c] \in J /\ 0 \in I
        BY KeptEnough
      <3>4. (\A a \in J : K[a] \in Nat) /\ cost[c] \in Nat
        BY <3>1, KeptFacts
      <3>5. \A a \in J \ {age[c]} : entries'[a] = K[a]
        BY <2>3, <3>1
      <3> HIDE DEF I, J, K
      <3>6. Sum(grantedAt', I) = Sum(grantedAt, I) + cost[c]
        BY <3>2, <3>3, <3>4, SumAdd
      <3>7. Sum(entries', J) = Sum(K, J) + cost[c]
        <4>1. entries'[age[c]] = K[age[c]] + cost[c]
          BY <2>3
        <4> QED
          BY <3>3, <3>4, <3>5, <4>1, SumAdd
      <3>8. Sum(grantedAt', I) <= Sum(entries', J)
        BY <3>3, <3>4, <3>6, <3>7, SMT
      <3> QED
        BY <3>8 DEF I, J
    <2>8. \A a \in 0 .. Window - 1 : grantedAt'[a] > 0 => life' + a > Window
      BY <2>1, LogNumbers, SMT DEF LogInv, SlidingTypeOK, RequestsOK
    <2>9. Sum(entries', Ages) <= Limit
      BY <2>2, <2>4
    <2> QED
      BY <2>6, <2>7, <2>8, <2>9 DEF LogInv
  <1> QED
    BY <1>2, <1>3

LEMMA LogTick ==
    ASSUME SlidingTypeOK, LogInv, SlidingTick
    PROVE  SlidingTypeOK' /\ LogInv'
  <1> DEFINE last == Window + Delay - 1
  <1>1. /\ Ages = 0 .. last /\ last \in Nat /\ Ages \subseteq Nat
        /\ \A n \in Int : IsFiniteSet(0 .. n)
        /\ Window \in Nat /\ Delay \in Nat /\ Limit \in Nat
    <2>1. last \in Nat
      BY LogNumbers, SMT
    <2> QED
      BY <2>1, LogNumbers DEF Ages
  <1>2. /\ \A a \in Ages : entries[a] \in 0 .. Limit
        /\ \A a \in 0 .. Window - 1 : grantedAt[a] \in Nat
        /\ life \in Nat
    BY SMT DEF SlidingTypeOK, RequestsOK
  <1>3. /\ grantedAt' \in [0 .. Window - 1 -> Nat] /\ grantedAt'[0] = 0
        /\ \A a \in 1 .. Window - 1 : grantedAt'[a] = grantedAt[a - 1]
    BY LogNumbers, SMT DEF SlidingTick, Late, SlidingTypeOK, RequestsOK
  <1>4. entries' \in [Ages -> 0 .. Limit]
    <2>1. \A a \in 0 .. last : a = 0 \/ a - 1 \in 0 .. last
      BY <1>1, SMT
    <2>2. entries' = [a \in 0 .. last |-> IF a = 0 \/ life' = 0 THEN 0 ELSE entries[a - 1]]
      BY <1>1 DEF SlidingTick, Late
    <2>3. ASSUME NEW a \in 0 .. last PROVE entries'[a] \in 0 .. Limit
      BY <1>1, <1>2, <2>1, <2>2, SMT
    <2> QED
      BY <1>1, <2>2, <2>3
  <1>5. SlidingTypeOK'
    <2>1. cost' = cost /\ life' \in 0 .. Window + 1 /\ age' \in [Clients -> 0 .. Delay]
      BY LogNumbers, SMT DEF SlidingTick, Late, SlidingTypeOK, RequestsOK
    <2> QED
      BY <1>3, <1>4, <2>1 DEF SlidingTypeOK, RequestsOK
  <1>6. ASSUME NEW a \in 0 .. Window - 1, grantedAt'[a] > 0 PROVE life' + a > Window
    <2>1. a # 0 /\ a - 1 \in 0 .. Window - 1 /\ grantedAt[a - 1] > 0
      BY <1>1, <1>3, <1>6, SMT
    <2>2. life + (a - 1) > Window
      BY <2>1 DEF LogInv
    <2> QED
      BY <1>1, <1>2, <2>1, <2>2, SMT DEF SlidingTick, Late
  <1>7. \A i \in Ages : entries[i] \in Nat /\ entries'[i] \in Nat
    BY <1>1, <1>2, <1>4, SMT
  <1>8. CASE life' = 0
    <2>1. \A a \in Ages : entries'[a] = 0
      BY <1>8 DEF SlidingTick, Late
    <2>2. \A a \in 0 .. Window - 1 : grantedAt'[a] = 0
      BY <1>1, <1>3, <1>6, <1>8, SMT
    <2>3. Sum(entries', Ages) = 0
      BY <2>1, LogNumbers, SumZero
    <2>4. ASSUME NEW n \in 0 .. Window - Delay - 1
          PROVE  Sum(grantedAt', 0 .. n) <= Sum(entries', 0 .. n + Delay)
      <3> DEFINE I == 0 .. n
                 J == 0 .. n + Delay
      <3>1. I \subseteq 0 .. Window - 1 /\ n \in Int /\ n + Delay \in Int
        BY <1>1, SMT
      <3>2. J \subseteq Ages /\ IsFiniteSet(I) /\ IsFiniteSet(J)
        BY <1>1, <3>1, LogNumbers
      <3>3. (\A a \in I : grantedAt'[a] = 0) /\ \A a \in J : entries'[a] = 0
        BY <2>1, <2>2, <3>1, <3>2
      <3> HIDE DEF I, J
      <3>4. Sum(grantedAt', I) = 0 /\ Sum(entries', J) = 0
        BY <3>2, <3>3, SumZero
      <3> QED
        BY <3>4, SMT DEF I, J
    <2> QED
      BY <1>1, <1>5, <1>6, <2>3, <2>4, SMT DEF LogInv
  <1>9. CASE life' # 0
    <2>1. entries'[0] = 0 /\ \A a \in 1 .. last : entries'[a] = entries[a - 1]
      BY <1>1, <1>9, SMT DEF SlidingTick, Late
    \* The members up to some age are those that were up to the age before.
    <2>2. ASSUME NEW n \in 0 .. last
          PROVE  Sum(entries', 0 .. n) = Sum(entries, 0 .. n - 1)
      <3>1. n \in Nat /\ 0 .. n \subseteq Ages /\ 1 .. n \subseteq 1 .. last
        BY <1>1, SMT
      <3>2. \A i \in 0 .. n : entries[i] \in Nat
        BY <1>7, <3>1
      <3>3. \A i \in 1 .. n : entries'[i] = entries[i - 1]
        BY <2>1, <3>1
      <3> QED
        BY <2>1, <3>1, <3>2, <3>3, SumShift
    <2>3. Sum(entries', Ages) <= Limit
      <3> DEFINE I == 0 .. last - 1
      <3>1. last \in 0 .. last /\ last - 1 \in Int /\ I \subseteq 0 .. last
        BY <1>1, SMT
      <3>2. Sum(entries', Ages) = Sum(entries, I)
        <4> HIDE DEF last
        <4> QED
          BY <1>1, <2>2, <3>1
      <3>3. /\ I \subseteq Ages /\ IsFiniteSet(Ages) /\ IsFiniteSet(I)
            /\ \A i \in Ages : entries[i] \in Nat /\ entries[i] <= entries[i]
        <4>1. \A i \in Ages : entries[i] <= entries[i]
          BY <1>7, SMT
        <4>2. IsFiniteSet(I)
          BY <1>1, <3>1
        <4> QED
          BY <1>1, <1>7, <3>1, <4>1, <4>2, LogNumbers
      <3> HIDE DEF I
      <3>4. Sum(entries, I) <= Sum(entries, Ages)
        BY <3>3, SumLess
      <3>5. Sum(entries, I) \in Nat /\ Sum(entries, Ages) \in Nat
        BY <3>3, SumType
      <3>6. Sum(entries, Ages) <= Limit
        BY DEF LogInv
      <3> QED
        BY <1>1, <3>2, <3>4, <3>5, <3>6, SMT
    <2>4. ASSUME NEW n \in 0 .. Window - Delay - 1
          PROVE  Sum(grantedAt', 0 .. n) <= Sum(entries', 0 .. n + Delay)
      <3>1. n + Delay \in 0 .. last /\ n \in Nat /\ 0 .. n \subseteq 0 .. Window - 1
        BY <1>1, SMT
      <3>2. Sum(entries', 0 .. n + Delay) = Sum(entries, 0 .. n + Delay - 1)
        <4> DEFINE m == n + Delay
        <4>1. m \in 0 .. last
          BY <3>1
        <4>2. Sum(entries', 0 .. m) = Sum(entries, 0 .. m - 1)
          <5> HIDE DEF m, last
          <5> QED
            BY <2>2, <4>1
        <4> QED
          BY <3>1, <4>2, LogNumbers, SMT
      <3>3. Sum(grantedAt', 0 .. n) = Sum(grantedAt, 0 .. n - 1)
        <4>1. \A i \in 0 .. n : grantedAt[i] \in Nat
          BY <1>2, <3>1
        <4>2. \A i \in 1 .. n : grantedAt'[i] = grantedAt[i - 1]
          BY <1>1, <1>3, <3>1, SMT
        <4> QED
          BY <1>3, <3>1, <4>1, <4>2, SumShift
      <3>4. CASE n = 0
        <4> DEFINE J == 0 .. n + Delay - 1
        <4>1. Sum(grantedAt, 0 .. n - 1) = 0
          <5>1. 0 .. n - 1 = {}
            BY <3>4, SMT
          <5> QED
            BY <5>1, FS_EmptySet, SumFirst
        <4>2. J \subseteq 0 .. last /\ n + Delay - 1 \in Int
          BY <1>1, <3>1, SMT
        <4>3. IsFiniteSet(J) /\ \A i \in J : entries[i] \in Nat
          BY <1>1, <1>7, <4>2
        <4> HIDE DEF J
        <4>4. Sum(entries, J) \in Nat
          BY <4>3, SumType
        <4> QED
          BY <3>2, <3>3, <4>1, <4>4, SMT DEF J
      <3>5. CASE n # 0
        <4>1. n - 1 \in 0 .. Window - Delay - 1 /\ n - 1 + Delay = n + Delay - 1
          BY <1>1, <3>1, <3>5, SMT
        <4>2. Sum(grantedAt, 0 .. n - 1) <= Sum(entries, 0 .. n - 1 + Delay)
          BY <4>1 DEF LogInv
        <4> QED
          BY <3>2, <3>3, <4>1, <4>2
      <3> QED
        BY <3>4, <3>5
    <2> QED
      BY <1>5, <1>6, <2>3, <2>4 DEF LogInv
  <1> QED
    BY <1>8, <1>9

LEMMA LogStep ==
    ASSUME SlidingTypeOK, LogInv, [SlidingNext]_slidingVars
    PROVE  SlidingTypeOK' /\ LogInv'
  <1>1. ASSUME NEW c \in Clients, NEW k \in Costs, SlidingSend(c, k)
        PROVE  SlidingTypeOK' /\ LogInv'
    <2>1. entries' = entries /\ life' = life /\ grantedAt' = grantedAt
      BY <1>1 DEF SlidingSend, Sent
    <2>2. SlidingTypeOK'
      BY <1>1, LogNumbers, SMT DEF SlidingSend, Sent, SlidingTypeOK, RequestsOK
    <2> QED
      BY <2>1, <2>2 DEF LogInv
  <1>2. ASSUME NEW c \in Clients, SlidingFail(c)
        PROVE  SlidingTypeOK' /\ LogInv'
    <2>1. entries' = entries /\ life' = life /\ grantedAt' = grantedAt
      BY <1>2 DEF SlidingFail, Over
    <2>2. SlidingTypeOK'
      BY <1>2, LogNumbers, SMT DEF SlidingFail, Over, SlidingTypeOK, RequestsOK
    <2> QED
      BY <2>1, <2>2 DEF LogInv
  <1>3. CASE UNCHANGED slidingVars
    BY <1>3 DEF slidingVars, SlidingTypeOK, RequestsOK, LogInv
  <1> QED
    BY <1>1, <1>2, <1>3, LogCheck, LogTick DEF SlidingNext

LEMMA LogAlways == SlidingSpec => [](SlidingTypeOK /\ LogInv)
  <1>1. SlidingInit => SlidingTypeOK /\ LogInv
    BY LogInit
  <1>2. SlidingTypeOK /\ LogInv /\ [SlidingNext]_slidingVars => (SlidingTypeOK /\ LogInv)'
    BY LogStep
  <1> QED
    BY <1>1, <1>2, PTL DEF SlidingSpec

\* The sorted set never holds more than the limit at one age, and its key is never
\* given more than the window and the second that atomic_check_and_add adds to it.
THEOREM LogTypes == SlidingSpec => []SlidingTypeOK
  <1> QED
    BY LogAlways, PTL

\* However late requests arrive, no rolling window shortened by the delay
\* grants more than the limit: atomic_check_and_add, with the expiry of its key.
THEOREM RollingBoundHolds == SlidingSpec => []RollingBound
  <1>1. ASSUME SlidingTypeOK, LogInv, Delay < Window
        PROVE  RollingBound
    <2> DEFINE n == Window - Delay - 1
               I == 0 .. n
               J == 0 .. n + Delay
    <2>1. /\ n \in 0 .. Window - Delay - 1 /\ n \in Int /\ n + Delay \in Int
          /\ I \subseteq 0 .. Window - 1
      BY <1>1, LogNumbers, SMT
    <2>2. Sum(grantedAt, I) <= Sum(entries, J) /\ Sum(entries, Ages) <= Limit
      BY <1>1, <2>1 DEF LogInv
    <2>3. J \subseteq Ages /\ IsFiniteSet(J) /\ IsFiniteSet(I) /\ IsFiniteSet(Ages)
      BY <2>1, LogNumbers
    <2>4. \A i \in Ages : entries[i] \in Nat /\ entries[i] <= entries[i]
      BY <1>1, LogNumbers, SMT DEF SlidingTypeOK, RequestsOK
    <2>5. \A i \in I : grantedAt[i] \in Nat
      BY <1>1, <2>1 DEF SlidingTypeOK, RequestsOK
    <2> HIDE DEF J
    <2>6. Sum(entries, J) <= Sum(entries, Ages)
      BY <2>3, <2>4, SumLess
    <2>7. Sum(grantedAt, I) \in Nat /\ Sum(entries, J) \in Nat /\ Sum(entries, Ages) \in Nat
      <3> HIDE DEF I, n
      <3> QED
        BY <2>3, <2>4, <2>5, SumType
    <2>8. Sum(grantedAt, I) <= Limit
      <3> HIDE DEF I, n
      <3> QED
        BY <2>2, <2>6, <2>7, LogNumbers, SMT
    <2> QED
      BY <2>8, LogTotal DEF RollingBound
  <1>2. ASSUME ~ Delay < Window
        PROVE  RollingBound
    <2> DEFINE I == 0 .. Window - Delay - 1
    <2>1. I = {} /\ IsFiniteSet(I)
      BY <1>2, LogNumbers, FS_EmptySet, SMT
    <2>2. Sum(grantedAt, I) = 0
      <3> HIDE DEF I
      <3> QED
        BY <2>1, SumZero
    <2>3. Sum(grantedAt, I) <= Limit
      BY <2>2, LogNumbers, SMT
    <2> QED
      BY <2>3, LogTotal DEF RollingBound
  <1>3. SlidingTypeOK /\ LogInv => RollingBound
    BY <1>1, <1>2
  <1> QED
    BY <1>3, LogAlways, PTL

\* The greatest of two numbers, and of bounded natural numbers.
LEMMA MaxOfTwo ==
    ASSUME NEW x \in Int, NEW y \in Int
    PROVE  Max({x, y}) \in Int /\ Max({x, y}) >= x /\ Max({x, y}) >= y
  <1>1. \E m \in {x, y} : \A n \in {x, y} : m >= n
    <2>1. CASE x >= y
      BY <2>1, SMT
    <2>2. CASE ~ x >= y
      BY <2>2, SMT
    <2> QED
      BY <2>1, <2>2
  <1>2. Max({x, y}) \in {x, y} /\ \A n \in {x, y} : Max({x, y}) >= n
    BY <1>1 DEF Max
  <1> QED
    BY <1>2

LEMMA MaxOfSome ==
    ASSUME NEW n \in Nat, NEW T, T \subseteq 0 .. n, T # {}
    PROVE  Max(T) \in T /\ \A a \in T : Max(T) >= a
  <1> DEFINE P == {k \in 0 .. n : n - k \in T}
  <1>1. PICK a \in T : TRUE
    OBVIOUS
  <1>2. a \in 0 .. n /\ n - a \in 0 .. n /\ n - (n - a) = a
    BY <1>1, SMT
  <1>3. P \subseteq Nat /\ P # {}
    <2>1. n - a \in P
      BY <1>1, <1>2
    <2>2. 0 .. n \subseteq Nat
      BY SMT
    <2> QED
      BY <2>1, <2>2
  <1>4. PICK k \in P : \A j \in P : k <= j
    <2> HIDE DEF P
    <2> QED
      BY <1>3, LeastNumber
  <1>5. n - k \in T /\ k \in 0 .. n
    OBVIOUS
  <1>6. ASSUME NEW b \in T PROVE n - k >= b
    <2>1. b \in 0 .. n /\ n - b \in 0 .. n /\ n - (n - b) = b
      BY <1>6, SMT
    <2>2. k <= n - b
      BY <1>4, <1>6, <2>1
    <2> QED
      BY <1>5, <2>1, <2>2, SMT
  <1>7. \E m \in T : \A b \in T : m >= b
    BY <1>5, <1>6
  <1> QED
    BY <1>7 DEF Max

\* A denied request of cost one fits after the wait it was told, if nothing
\* else is granted meanwhile: the member the wait is for has made room by then.
THEOREM RetryAfterOne == SlidingSpec => RetryAfterSufficesForOne
  <1>1. ASSUME SlidingTypeOK, LogInv, NEW c \in Clients, CheckAndAdd(c), ~SlidingFits(c),
               cost[c] = 1
        PROVE  Suffices(c)
    <2> DEFINE K == Kept(c)
               used == {a \in Ages : K[a] > 0}
               m == Max(used)
               last == Window + Delay - 1
               B == {a \in Ages : a + SlidingRetryAfter(c) < Window}
               R == Ages \ {m}
    <2>1. ~ Sum(K, Ages) + 1 <= Limit
      BY <1>1, LogTotal DEF SlidingFits
    <2>2. used # {}
      <3> SUFFICES ASSUME used = {} PROVE FALSE
        OBVIOUS
      <3>1. \A a \in Ages : K[a] = 0
        <4>1. \A a \in Ages : K[a] \in Nat /\ ~ K[a] > 0
          BY <1>1, KeptFacts
        <4> HIDE DEF K
        <4> QED
          BY <4>1, SMT
      <3> HIDE DEF K, used
      <3>2. Sum(K, Ages) = 0
        BY <3>1, LogNumbers, SumZero
      <3> QED
        BY <2>1, <3>2, LogNumbers, SMT
    <2>3. m \in used
      <3>1. last \in Nat /\ Ages = 0 .. last
        BY LogNumbers, SMT DEF Ages
      <3>2. used \subseteq 0 .. last
        BY <3>1
      <3> HIDE DEF used, last
      <3> QED
        BY <2>2, <3>1, <3>2, MaxOfSome
    <2>4. m \in Ages /\ K[m] > 0 /\ m \in Nat
      BY <2>3, LogNumbers
    <2>5. SlidingRetryAfter(c) \in Int /\ SlidingRetryAfter(c) >= Window - m + age[c] + 1
      <3>1. Window - m + age[c] + 1 \in Int /\ 1 \in Int
        <4>1. age[c] \in 0 .. Delay /\ Window \in Nat /\ Delay \in Nat
          BY <1>1, KeptFacts, LogNumbers
        <4> HIDE DEF m
        <4> QED
          BY <2>4, <4>1, SMT
      <3>2. SlidingRetryAfter(c) = Max({1, Window - m + age[c] + 1})
        BY <2>2 DEF SlidingRetryAfter
      <3> HIDE DEF m
      <3> QED
        BY <3>1, <3>2, MaxOfTwo
    <2>6. \A a \in B : a < m
      <3>1. age[c] \in 0 .. Delay /\ Window \in Nat /\ Delay \in Nat /\ B \subseteq Nat
        BY <1>1, KeptFacts, LogNumbers
      <3>2. \A a \in B : a + SlidingRetryAfter(c) < Window
        OBVIOUS
      <3> HIDE DEF m, B
      <3> QED
        BY <2>4, <2>5, <3>1, <3>2, SMT
    <2>7. B \subseteq R /\ R \subseteq Ages
      <3>1. m \notin B
        BY <2>4, <2>6, SMT
      <3> QED
        BY <3>1
    <2>8. IsFiniteSet(R) /\ IsFiniteSet(B) /\ IsFiniteSet(Ages)
      <3> HIDE DEF R, B
      <3> QED
        BY <2>7, LogNumbers, FS_Subset
    <2>9. \A a \in Ages : entries[a] \in Nat /\ entries[a] <= entries[a]
      BY <1>1, LogNumbers, SMT DEF SlidingTypeOK, RequestsOK
    <2>10. Sum(entries, Ages) = entries[m] + Sum(entries, R)
      BY <2>4, <2>8, <2>9, SumSplit
    <2>11. entries[m] >= 1
      <3>1. K[m] \in Nat /\ K[m] <= entries[m] /\ entries[m] \in Nat
        BY <1>1, <2>4, KeptFacts
      <3> HIDE DEF K, m
      <3> QED
        BY <2>4, <3>1, SMT
    <2>12. Sum(entries, B) <= Sum(entries, R) /\ Sum(entries, B) \in Nat
           /\ Sum(entries, R) \in Nat /\ entries[m] \in Nat
      <3> HIDE DEF R, B, m
      <3>1. Sum(entries, B) <= Sum(entries, R)
        BY <2>7, <2>8, <2>9, SumLess
      <3>2. Sum(entries, B) \in Nat /\ Sum(entries, R) \in Nat
        BY <2>7, <2>8, <2>9, SumType
      <3> QED
        BY <2>4, <2>9, <3>1, <3>2
    <2>13. Sum(entries, Ages) <= Limit /\ Limit \in Nat
      BY <1>1, LogNumbers DEF LogInv
    <2>14. Sum(entries, B) + 1 <= Limit
      <3> HIDE DEF R, B, m
      <3> QED
        BY <2>10, <2>11, <2>12, <2>13, SMT
    <2> QED
      BY <1>1, <2>14, LogTotal DEF Suffices
  <1>2. SlidingTypeOK /\ LogInv =>
          [\A c \in Clients : CheckAndAdd(c) /\ ~SlidingFits(c) /\ cost[c] = 1
               => Suffices(c)]_slidingVars
    BY <1>1
  <1> QED
    BY <1>2, LogAlways, PTL DEF RetryAfterSufficesForOne

-----------------------------------------------------------------------------
(* The token bucket, whose requests are sent and delayed like those of the *)
(* sliding window.                                                         *)
\* The constants of a bucket.
LEMMA BucketNumbers ==
    /\ Capacity \in Nat \ {0} /\ Window \in Nat \ {0} /\ Timeout \in Nat \ {0}
    /\ Delay \in Nat /\ Full \in Nat /\ MaxAge \in Nat
    /\ MaxLate \in Nat /\ MaxEarly \in Nat
  <1>1. /\ Capacity \in Nat \ {0} /\ Window \in Nat \ {0} /\ Timeout \in Nat \ {0}
        /\ Delay \in Nat /\ MaxLate \in Nat /\ MaxEarly \in Nat
    BY LimitAssumption, DelayAssumption, TimeoutAssumption DEF Capacity
  <1>2. Capacity * Window \in Nat /\ Window + Delay \in Nat
    BY <1>1, SMT
  <1> QED
    BY <1>1, <1>2 DEF Full, MaxAge

\* A request that reaches the script, and the tokens it finds.
LEMMA BucketRequest ==
    ASSUME BucketTypeOK, NEW c \in Clients
    PROVE  /\ cost[c] \in Nat /\ Units(cost[c]) \in Nat /\ age[c] \in 0 .. Delay
           /\ tokens \in 0 .. Full /\ refillAge \in 0 .. MaxAge
           /\ Refilled(c) \in 0 .. Full
  <1>1. cost[c] \in Nat /\ age[c] \in 0 .. Delay
    <2>1. cost[c] \in Costs \cup {0} /\ age[c] \in 0 .. Delay
      BY DEF BucketTypeOK, RequestsOK
    <2>2. Costs \subseteq Nat \ {0} /\ 0 \in Nat
      BY LimitAssumption
    <2> QED
      BY <2>1, <2>2
  <1>2. Units(cost[c]) \in Nat
    <2>1. cost[c] * Window \in Nat
      BY <1>1, BucketNumbers, SMT
    <2> QED
      BY <2>1 DEF Units
  <1>3. tokens \in 0 .. Full /\ refillAge \in 0 .. MaxAge
    BY DEF BucketTypeOK, RequestsOK
  <1>4. Most(0, refillAge - age[c]) \in Nat
    BY <1>1, <1>3, BucketNumbers, SMT DEF Most
  <1>5. Most(0, refillAge - age[c]) * Capacity \in Nat
    BY <1>4, BucketNumbers, SMT
  <1>6. Refilled(c) \in 0 .. Full
    BY <1>3, <1>5, BucketNumbers, SMT DEF Refilled, Least
  <1> QED
    BY <1>1, <1>2, <1>3, <1>6

\* Every step keeps the bucket typed: the tokens between none and a full bucket.
LEMMA BucketStep ==
    ASSUME BucketTypeOK, [BucketNext]_bucketVars
    PROVE  BucketTypeOK'
  <1>1. ASSUME NEW c \in Clients, NEW k \in Costs, BucketSend(c, k)
        PROVE  BucketTypeOK'
    BY <1>1, BucketNumbers, SMT DEF BucketTypeOK, RequestsOK, BucketSend, Sent
  <1>2. ASSUME NEW c \in Clients, CheckBucket(c)
        PROVE  BucketTypeOK'
    <2>1. tokens' \in 0 .. Full /\ life' \in 0 .. Timeout
      BY <1>2, BucketNumbers, BucketRequest, SMT
         DEF BucketTypeOK, RequestsOK, CheckBucket, Over, BucketFits
    <2>2. refillAge' \in 0 .. MaxAge
      BY <1>2, BucketNumbers, BucketRequest, SMT DEF CheckBucket, Over, MaxAge
    <2>3. ideal' \in Int /\ ideal' <= Full
      BY <1>2, BucketNumbers, BucketRequest, SMT DEF BucketTypeOK, RequestsOK, CheckBucket, Over
    <2>4. cost' \in [Clients -> Costs \cup {0}] /\ age' \in [Clients -> 0 .. Delay]
      BY <1>2, BucketNumbers, SMT DEF BucketTypeOK, RequestsOK, CheckBucket, Over
    <2>5. late' \in 0 .. MaxLate /\ early' \in 0 .. MaxEarly
      BY <1>2, BucketNumbers, SMT DEF BucketTypeOK, RequestsOK, CheckBucket
    <2> QED
      BY <2>1, <2>2, <2>3, <2>4, <2>5 DEF BucketTypeOK, RequestsOK
  <1>3. ASSUME NEW c \in Clients, BucketFail(c)
        PROVE  BucketTypeOK'
    BY <1>3, BucketNumbers, SMT DEF BucketTypeOK, RequestsOK, BucketFail, Over
  <1>4. CASE BucketTick
    <2>1. tokens' \in 0 .. Full /\ refillAge' \in 0 .. MaxAge /\ life' \in 0 .. Timeout
      BY <1>4, BucketNumbers, SMT DEF BucketTypeOK, RequestsOK, BucketTick, Late, Least
    <2>2. ideal' \in Int /\ ideal' <= Full
      BY <1>4, BucketNumbers, SMT DEF BucketTypeOK, RequestsOK, BucketTick, Late, Least
    <2>3. age' \in [Clients -> 0 .. Delay]
      BY <1>4, BucketNumbers, SMT DEF BucketTypeOK, RequestsOK, BucketTick, Late
    <2>4. late' \in 0 .. MaxLate /\ early' \in 0 .. MaxEarly
      BY <1>4, BucketNumbers, SMT DEF BucketTypeOK, RequestsOK, BucketTick
    <2> QED
      BY <1>4, <2>1, <2>2, <2>3, <2>4 DEF BucketTypeOK, RequestsOK, BucketTick, Late
  <1>5. CASE UNCHANGED bucketVars
    BY <1>5 DEF bucketVars, BucketTypeOK, RequestsOK
  <1> QED
    BY <1>1, <1>2, <1>3, <1>4, <1>5 DEF BucketNext

\* The bucket never holds more than its capacity or less than nothing, whatever
\* the requests cost and however late they are: the script of atomic_token_bucket_check.
THEOREM BucketTypes == BucketSpec => []BucketTypeOK
  <1>1. BucketInit => BucketTypeOK
    BY BucketNumbers, SMT DEF BucketInit, NoRequests, BucketTypeOK, RequestsOK
  <1>2. BucketTypeOK /\ [BucketNext]_bucketVars => BucketTypeOK'
    BY BucketStep
  <1> QED
    BY <1>1, <1>2, PTL DEF BucketSpec

\* x divided by d, rounded up, is enough.
\* A wait is rounded up.
LEMMA CeilingIsEnough ==
    ASSUME NEW x \in Nat, NEW d \in Nat \ {0}
    PROVE  /\ (x + d - 1) \div d \in Nat
           /\ ((x + d - 1) \div d) * d >= x
  BY SMT

\* A denied request that its bucket can ever serve is granted after the wait it
\* was told, if nothing else takes tokens meanwhile: the retry_after of the script.
THEOREM BucketWait == BucketSpec => RetryAfterSuffices
  <1>1. ASSUME BucketTypeOK, NEW c \in Clients, cost[c] <= Capacity
        PROVE  Units(cost[c]) <=
                   Least(Full, tokens + (refillAge + BucketRetryAfter(c)) * Capacity)
    <2>1. /\ Capacity \in Nat \ {0} /\ Window \in Nat /\ cost[c] \in Nat
          /\ tokens \in Nat /\ refillAge \in Nat
      BY <1>1, BucketNumbers, BucketRequest
    <2> DEFINE u == Units(cost[c])
               w == BucketRetryAfter(c)
    <2>2. u \in Nat /\ u <= Full
      <3>1. cost[c] * Window \in Nat /\ cost[c] * Window <= Capacity * Window
        BY <1>1, <2>1, SMT
      <3> QED
        BY <3>1 DEF Units, Full
    <2>3. w \in Nat /\ w * Capacity >= u
      BY <2>1, <2>2, CeilingIsEnough DEF BucketRetryAfter
    <2> HIDE DEF u, w
    <2>4. tokens + (refillAge + w) * Capacity >= u
      <3>1. (refillAge + w) * Capacity = refillAge * Capacity + w * Capacity
        BY <2>1, <2>3, SMT
      <3>2. refillAge * Capacity \in Nat /\ w * Capacity \in Nat
        BY <2>1, <2>3, SMT
      <3> QED
        BY <2>1, <2>2, <2>3, <3>1, <3>2, SMT
    <2> QED
      BY <2>2, <2>4 DEF Least, u, w
  <1>2. BucketTypeOK /\ [BucketNext]_bucketVars =>
            \A c \in Clients : CheckBucket(c) /\ ~BucketFits(c) /\ cost[c] <= Capacity =>
                Units(cost[c]) <=
                    Least(Full, tokens + (refillAge + BucketRetryAfter(c)) * Capacity)
    BY <1>1
  <1>3. BucketSpec => []BucketTypeOK
    BY BucketTypes
  <1> QED
    BY <1>2, <1>3, PTL DEF BucketSpec, RetryAfterSuffices

\* What the script may find, now or with the latest timestamp there is.
Potential == Least(Full + Lateness, tokens + refillAge * Capacity)

\* What late timestamps and short lifetimes may have lent so far.
Lent == Lateness * (1 + late) + (Full + Lateness) * early

\* The tokens that were never granted, and those that were lent, cover those the
\* script may find, and a key that has ended is of a full bucket.
RateInv ==
    /\ ideal + Lent >= Potential
    /\ life = 0 => tokens = Full /\ refillAge = MaxAge

\* The tokens of one more tick.
LEMMA OneMoreTick ==
    ASSUME NEW a \in Nat, NEW k \in Nat
    PROVE  a * k \in Nat /\ (a + 1) * k = a * k + k
  BY SMT

\* What the numbers of the bucket are, and how much MaxAge refills.
LEMMA RateNumbers ==
    ASSUME BucketTypeOK
    PROVE  /\ Lateness \in Nat /\ Full \in Nat /\ Capacity \in Nat
           /\ MaxAge * Capacity = Full + Lateness
           /\ tokens \in 0 .. Full /\ refillAge \in 0 .. MaxAge /\ MaxAge \in Nat
           /\ refillAge * Capacity \in Nat /\ Lent \in Nat /\ ideal \in Int /\ ideal <= Full
           /\ late \in Nat /\ early \in Nat /\ Lent >= Lateness
           /\ Potential \in Nat
  <1>1. /\ Capacity \in Nat /\ Full \in Nat /\ Delay \in Nat /\ Window \in Nat /\ MaxAge \in Nat
        /\ tokens \in 0 .. Full /\ refillAge \in 0 .. MaxAge /\ ideal \in Int /\ ideal <= Full
        /\ late \in Nat /\ early \in Nat
    BY BucketNumbers, SMT DEF BucketTypeOK, RequestsOK
  <1>2. Lateness \in Nat /\ MaxAge * Capacity = Full + Lateness
    BY <1>1, SMT DEF Lateness, MaxAge, Full
  <1>3. refillAge * Capacity \in Nat
    BY <1>1, SMT
  <1>4. Lateness * late \in Nat /\ (Full + Lateness) * early \in Nat
    BY <1>1, <1>2, SMT
  <1>5. Lateness * (1 + late) = Lateness + Lateness * late
    BY <1>1, <1>2, SMT
  <1>6. Lent \in Nat /\ Lent >= Lateness
    BY <1>2, <1>4, <1>5, SMT DEF Lent
  <1>7. Potential \in Nat
    BY <1>1, <1>2, <1>3, SMT DEF Potential, Least
  <1> QED
    BY <1>1, <1>2, <1>3, <1>6, <1>7

\* A script that moves last_refill back lends what its client gained; every other
\* one takes what it grants.
LEMMA RateCheck ==
    ASSUME BucketTypeOK, RateInv, NEW c \in Clients, CheckBucket(c)
    PROVE  RateInv'
  <1> DEFINE gain == refillAge * Capacity
             back == age[c] * Capacity
             u == Units(cost[c])
  <1>1. /\ Capacity \in Nat /\ Full \in Nat /\ Lateness \in Nat /\ Timeout \in Nat \ {0}
        /\ tokens \in 0 .. Full /\ refillAge \in Nat /\ u \in Nat /\ age[c] \in Nat
        /\ gain \in Nat /\ Refilled(c) \in 0 .. Full /\ ideal \in Int /\ Lent \in Nat
        /\ Potential \in Nat /\ late \in Nat /\ early \in Nat
    BY BucketNumbers, BucketRequest, RateNumbers
  <1>2. back \in Nat /\ back <= Lateness
    <2>1. age[c] <= Delay /\ Delay \in Nat
      BY BucketRequest, BucketNumbers
    <2> QED
      BY <1>1, <2>1, SMT DEF Lateness
  <1>3. CASE UNCHANGED <<tokens, refillAge, life, late>> /\ ~BucketFits(c)
    BY <1>3 DEF CheckBucket, RateInv, Potential, Lent, Full, Lateness
  <1>4. CASE ~(UNCHANGED <<tokens, refillAge, life, late>> /\ ~BucketFits(c))
    <2>1. /\ tokens' = IF BucketFits(c) THEN Refilled(c) - u ELSE Refilled(c)
          /\ refillAge' = age[c] /\ life' = Timeout
          /\ late' = late + (IF age[c] > refillAge THEN 1 ELSE 0)
          /\ ideal' = IF BucketFits(c) THEN ideal - u ELSE ideal
          /\ early' = early
      BY <1>4 DEF CheckBucket
    <2>2. Lent' = IF age[c] > refillAge THEN Lent + Lateness ELSE Lent
      <3>1. CASE age[c] > refillAge
        <4>1. Lateness * (1 + (late + 1)) = Lateness * (1 + late) + Lateness
          BY <1>1, SMT
        <4>2. late' = late + 1
          BY <2>1, <3>1
        <4>3. /\ Lateness * (1 + late) \in Nat /\ (Full + Lateness) * early \in Nat
          BY <1>1, SMT
        <4>4. Lent' = Lateness * (1 + (late + 1)) + (Full + Lateness) * early
          BY <2>1, <4>2 DEF Lent, Lateness, Full
        <4>5. Lent = Lateness * (1 + late) + (Full + Lateness) * early
          BY DEF Lent
        <4> QED
          BY <1>1, <3>1, <4>1, <4>3, <4>4, <4>5, SMT
      <3>2. CASE ~(age[c] > refillAge)
        <4>1. late' = late
          BY <1>1, <2>1, <3>2, SMT
        <4> QED
          BY <2>1, <3>2, <4>1 DEF Lent, Lateness, Full
      <3> QED
        BY <3>1, <3>2
    <2>3. Refilled(c) + back <= (IF age[c] > refillAge THEN Potential + Lateness ELSE Potential)
      <3>1. CASE age[c] > refillAge
        <4>1. Refilled(c) = tokens
          <5>1. Most(0, refillAge - age[c]) = 0
            BY <1>1, <3>1, SMT DEF Most
          <5>2. 0 * Capacity = 0
            BY <1>1, SMT
          <5> QED
            BY <1>1, <5>1, <5>2, SMT DEF Refilled, Least
        <4>2. tokens <= Potential
          BY <1>1, SMT DEF Potential, Least
        <4> HIDE DEF back
        <4> QED
          BY <1>1, <1>2, <3>1, <4>1, <4>2, SMT
      <3>2. CASE ~(age[c] > refillAge)
        <4>1. Most(0, refillAge - age[c]) * Capacity = gain - back
          <5>1. Most(0, refillAge - age[c]) = refillAge - age[c]
            BY <1>1, <3>2, SMT DEF Most
          <5> QED
            BY <1>1, <5>1, SMT
        <4>2. Refilled(c) = Least(Full, tokens + (gain - back))
          BY <4>1 DEF Refilled
        <4>3. Potential = Least(Full + Lateness, tokens + gain)
          BY DEF Potential
        <4> HIDE DEF gain, back
        <4> QED
          BY <1>1, <1>2, <3>2, <4>2, <4>3, SMT DEF Least
      <3> QED
        BY <3>1, <3>2
    <2>4. tokens' \in Int
      <3> HIDE DEF u
      <3> QED
        BY <1>1, <2>1, SMT
    <2>5. Potential' \in Int /\ Potential' <= tokens' + back
      <3>1. Potential' = Least(Full + Lateness, tokens' + back)
        BY <2>1 DEF Potential, Full, Lateness
      <3>2. Full + Lateness \in Int /\ tokens' + back \in Int
        BY <1>1, <1>2, <2>4
      <3> HIDE DEF back
      <3> QED
        BY <3>1, <3>2, SMT DEF Least
    <2>6. ideal' + Lent' >= Potential'
      <3>1. ideal + Lent >= Potential
        BY DEF RateInv
      <3> HIDE DEF back, u
      <3> QED
        BY <1>1, <1>2, <2>1, <2>2, <2>3, <2>4, <2>5, <3>1, SMT
    <2> QED
      BY <1>1, <2>1, <2>6, SMT DEF RateInv
  <1> QED
    BY <1>3, <1>4

\* A tick refills the bucket as it refills the ideal one; a key that ends before
\* its bucket is full lends a bucket.
LEMMA RateTick ==
    ASSUME BucketTypeOK, RateInv, BucketTick
    PROVE  RateInv'
  <1> DEFINE gain == refillAge * Capacity
  <1>1. /\ Capacity \in Nat /\ Full \in Nat /\ Lateness \in Nat /\ MaxAge \in Nat
        /\ MaxAge * Capacity = Full + Lateness
        /\ tokens \in 0 .. Full /\ refillAge \in 0 .. MaxAge /\ gain \in Nat
        /\ ideal \in Int /\ ideal <= Full /\ Lent \in Nat /\ Lent >= Lateness
        /\ Potential \in Nat /\ late \in Nat /\ early \in Nat
    BY RateNumbers
  <1>2. life \in Nat
    BY BucketNumbers, SMT DEF BucketTypeOK, RequestsOK
  <1>3. /\ ideal' = Least(Full, ideal + Capacity) /\ late' = late
        /\ early' = early + (IF life = 1 /\ refillAge + 1 < MaxAge THEN 1 ELSE 0)
    BY DEF BucketTick
  <1>4. (refillAge + 1) * Capacity = gain + Capacity
    BY <1>1, OneMoreTick
  <1>5. Potential = Least(Full + Lateness, tokens + gain) /\ ideal + Lent >= Potential
    BY DEF Potential, RateInv
  <1>6. ASSUME NEW p \in Int, p <= Full + Lateness, p <= Potential + Capacity
        PROVE  ideal' + Lent >= p
    <2> HIDE DEF gain
    <2> QED
      BY <1>1, <1>3, <1>5, <1>6, SMT DEF Least
  <1>7. CASE life > 1
    <2>1. /\ life' = life - 1 /\ life' # 0 /\ tokens' = tokens
          /\ refillAge' = Least(MaxAge, refillAge + 1)
      BY <1>2, <1>7, SMT DEF BucketTick
    <2>2. Lent' = Lent
      <3>1. early' = early
        BY <1>1, <1>3, <1>7, SMT
      <3> QED
        BY <1>3, <3>1 DEF Lent, Lateness, Full
    <2>3. /\ Potential' \in Int /\ Potential' <= Full + Lateness
          /\ Potential' <= Potential + Capacity
      <3>1. CASE refillAge = MaxAge
        <4>1. refillAge' = refillAge
          BY <1>1, <2>1, <3>1, SMT DEF Least
        <4>2. Potential' = Potential
          BY <2>1, <4>1 DEF Potential, Full, Lateness
        <4> HIDE DEF gain
        <4> QED
          BY <1>1, <1>5, <4>2, SMT DEF Least
      <3>2. CASE refillAge # MaxAge
        <4>1. refillAge' = refillAge + 1
          BY <1>1, <2>1, <3>2, SMT DEF Least
        <4>2. Potential' = Least(Full + Lateness, tokens + (gain + Capacity))
          BY <1>4, <2>1, <4>1 DEF Potential, Full, Lateness
        <4> HIDE DEF gain
        <4> QED
          BY <1>1, <1>5, <4>2, SMT DEF Least
      <3> QED
        BY <3>1, <3>2
    <2> QED
      BY <1>6, <2>1, <2>2, <2>3 DEF RateInv
  <1>8. CASE ~(life > 1)
    <2>1. life' = 0 /\ tokens' = Full /\ refillAge' = MaxAge
      BY <1>2, <1>8, SMT DEF BucketTick
    <2>2. Potential' = Full + Lateness
      <3>1. Potential' = Least(Full + Lateness, Full + MaxAge * Capacity)
        BY <2>1 DEF Potential, Full, Lateness
      <3> QED
        BY <1>1, <3>1, SMT DEF Least
    <2>3. ideal' + Lent' >= Full + Lateness
      <3>1. CASE life = 1 /\ refillAge + 1 < MaxAge
        <4>1. early' = early + 1
          BY <1>3, <3>1
        <4>2. Lent' = Lent + (Full + Lateness)
          <5>1. (Full + Lateness) * (early + 1) = (Full + Lateness) * early + (Full + Lateness)
            BY <1>1, SMT
          <5>2. Lateness * (1 + late) \in Nat /\ (Full + Lateness) * early \in Nat
            BY <1>1, SMT
          <5>3. Lent' = Lateness * (1 + late) + (Full + Lateness) * (early + 1)
            BY <1>3, <4>1 DEF Lent, Lateness, Full
          <5>4. Lent = Lateness * (1 + late) + (Full + Lateness) * early
            BY DEF Lent
          <5> QED
            BY <1>1, <5>1, <5>2, <5>3, <5>4, SMT
        <4> HIDE DEF gain
        <4> QED
          BY <1>1, <1>3, <1>5, <4>2, SMT DEF Least
      <3>2. CASE ~(life = 1 /\ refillAge + 1 < MaxAge)
        <4>1. Lent' = Lent
          <5>1. early' = early
            BY <1>1, <1>3, <3>2, SMT
          <5> QED
            BY <1>3, <5>1 DEF Lent, Lateness, Full
        <4>2. Full + Lateness <= Potential + Capacity
          <5>1. CASE life = 0
            <6>1. gain = Full + Lateness
              BY <1>1, <5>1 DEF RateInv
            <6> HIDE DEF gain
            <6> QED
              BY <1>1, <1>5, <6>1, SMT DEF Least
          <5>2. CASE life # 0
            <6>1. refillAge + 1 >= MaxAge
              BY <1>1, <1>2, <1>8, <3>2, <5>2, SMT
            <6>2. (refillAge + 1) * Capacity >= MaxAge * Capacity
              BY <1>1, <6>1, SMT
            <6>3. gain + Capacity >= Full + Lateness
              BY <1>1, <1>4, <6>2
            <6> HIDE DEF gain
            <6> QED
              BY <1>1, <1>5, <6>3, SMT DEF Least
          <5> QED
            BY <5>1, <5>2
        <4>3. Full + Lateness \in Int /\ Full + Lateness <= Full + Lateness
          BY <1>1, SMT
        <4>4. ideal' + Lent >= Full + Lateness
          BY <1>6, <4>2, <4>3
        <4> QED
          BY <4>1, <4>4
      <3> QED
        BY <3>1, <3>2
    <2> QED
      BY <2>1, <2>2, <2>3 DEF RateInv, MaxAge
  <1> QED
    BY <1>7, <1>8

\* Whatever the capacity, the costs, the lifetime of the key and the delay of the
\* requests, no more is granted than one bucket and the constant rate of its
\* refill, and what each late script and each key that ended early lends: neither
\* the rounding, nor a denial that stores what it computed, nor a key that ends
\* when its bucket is full makes tokens.
THEOREM BucketRate == BucketSpec => []ConstantRate
  <1>1. BucketInit => RateInv
    <2> SUFFICES ASSUME BucketInit
                 PROVE  RateInv
      OBVIOUS
    <2>1. BucketTypeOK
      BY BucketNumbers, SMT DEF BucketInit, NoRequests, BucketTypeOK, RequestsOK
    <2>2. /\ ideal = Full /\ tokens = Full /\ refillAge = MaxAge
      BY DEF BucketInit
    <2>3. Potential = Full + Lateness
      <3>1. Potential = Least(Full + Lateness, Full + MaxAge * Capacity)
        BY <2>2 DEF Potential
      <3> QED
        BY <2>1, <3>1, RateNumbers, SMT DEF Least
    <2>4. ideal + Lent >= Potential
      BY <2>1, <2>2, <2>3, RateNumbers, SMT
    <2> QED
      BY <2>2, <2>4 DEF RateInv
  <1>2. ASSUME BucketTypeOK, RateInv, [BucketNext]_bucketVars
        PROVE  RateInv'
    <2>1. ASSUME NEW c \in Clients, NEW k \in Costs, BucketSend(c, k)
          PROVE  RateInv'
      BY <1>2, <2>1 DEF RateInv, Potential, Lent, Full, Lateness, MaxAge, BucketSend
    <2>2. ASSUME NEW c \in Clients, BucketFail(c)
          PROVE  RateInv'
      BY <1>2, <2>2 DEF RateInv, Potential, Lent, Full, Lateness, MaxAge, BucketFail
    <2>3. CASE UNCHANGED bucketVars
      BY <1>2, <2>3 DEF RateInv, Potential, Lent, Full, Lateness, MaxAge, bucketVars
    <2> QED
      BY <1>2, <2>1, <2>2, <2>3, RateCheck, RateTick DEF BucketNext
  <1>3. BucketTypeOK /\ RateInv => ConstantRate
    <2> SUFFICES ASSUME BucketTypeOK, RateInv
                 PROVE  ConstantRate
      OBVIOUS
    <2>1. ideal \in Int /\ Lent \in Nat /\ Potential \in Nat
      BY RateNumbers
    <2>2. ideal + Lent >= Potential
      BY DEF RateInv
    <2>3. ideal >= -Lent
      BY <2>1, <2>2, SMT
    <2> QED
      BY <2>3 DEF ConstantRate, Lent
  <1>4. BucketSpec => []BucketTypeOK
    BY BucketTypes
  <1> QED
    BY <1>1, <1>2, <1>3, <1>4, PTL DEF BucketSpec

\* A key that still lives has not been written for longer than its lifetime is
\* short of Timeout.
LifeInv == NoEarlyEnd /\ (life # 0 => refillAge >= Least(MaxAge, Timeout - life))

\* A lifetime of the window and the longest delay, as the default of two windows
\* is when no request is later than a window: the bucket lends to no expiry.
THEOREM BucketLives == BucketSpec => []NoEarlyEnd
  <1>1. BucketInit => LifeInv
    BY DEF BucketInit, LifeInv, NoEarlyEnd
  <1>2. ASSUME BucketTypeOK, LifeInv, [BucketNext]_bucketVars
        PROVE  LifeInv'
    <2>1. /\ MaxAge \in Nat /\ Timeout \in Nat \ {0} /\ refillAge \in 0 .. MaxAge
          /\ life \in 0 .. Timeout /\ early \in Nat
      BY <1>2, BucketNumbers, SMT DEF BucketTypeOK
    <2>2. ASSUME NEW c \in Clients, NEW k \in Costs, BucketSend(c, k)
          PROVE  LifeInv'
      BY <1>2, <2>2 DEF LifeInv, NoEarlyEnd, Least, MaxAge, BucketSend
    <2>3. ASSUME NEW c \in Clients, BucketFail(c)
          PROVE  LifeInv'
      BY <1>2, <2>3 DEF LifeInv, NoEarlyEnd, Least, MaxAge, BucketFail
    <2>4. ASSUME NEW c \in Clients, CheckBucket(c)
          PROVE  LifeInv'
      <3>1. age[c] \in Nat /\ early' = early
        BY <1>2, <2>4, BucketRequest, SMT DEF CheckBucket
      <3>2. CASE UNCHANGED <<refillAge, life>>
        BY <1>2, <3>1, <3>2 DEF LifeInv, NoEarlyEnd, Least, MaxAge
      <3>3. CASE refillAge' = age[c] /\ life' = Timeout
        BY <1>2, <2>1, <3>1, <3>3, SMT DEF LifeInv, NoEarlyEnd, Least, MaxAge
      <3> QED
        BY <2>4, <3>2, <3>3 DEF CheckBucket
    <2>5. CASE BucketTick
      <3>1. Timeout >= MaxAge => early' = 0
        <4>1. ASSUME Timeout >= MaxAge, life = 1
              PROVE  ~(refillAge + 1 < MaxAge)
          <5>1. refillAge >= Least(MaxAge, Timeout - 1)
            BY <1>2, <4>1, SMT DEF LifeInv
          <5> QED
            BY <2>1, <4>1, <5>1, SMT DEF Least
        <4> QED
          BY <1>2, <2>1, <2>5, <4>1, SMT DEF BucketTick, LifeInv, NoEarlyEnd
      <3>2. life' # 0 => refillAge' >= Least(MaxAge, Timeout - life')
        <4>1. CASE life > 1
          BY <1>2, <2>1, <2>5, <4>1, SMT DEF BucketTick, LifeInv, Least
        <4>2. CASE ~(life > 1)
          BY <2>1, <2>5, <4>2, SMT DEF BucketTick
        <4> QED
          BY <4>1, <4>2
      <3> QED
        BY <3>1, <3>2 DEF LifeInv, NoEarlyEnd, MaxAge, Least
    <2>6. CASE UNCHANGED bucketVars
      BY <1>2, <2>6 DEF LifeInv, NoEarlyEnd, Least, MaxAge, bucketVars
    <2> QED
      BY <1>2, <2>2, <2>3, <2>4, <2>5, <2>6 DEF BucketNext
  <1>3. LifeInv => NoEarlyEnd
    BY DEF LifeInv
  <1>4. BucketSpec => []BucketTypeOK
    BY BucketTypes
  <1> QED
    BY <1>1, <1>2, <1>3, <1>4, PTL DEF BucketSpec
==============================================================================
