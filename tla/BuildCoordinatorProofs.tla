----------------------- MODULE BuildCoordinatorProofs -----------------------
(***************************************************************************)
(* What holds of the build for any packages, any graph of them, any        *)
(* sources and keys, and any number of workers, edits and runs.            *)
(***************************************************************************)
EXTENDS BuildCoordinator, TLAPS

\* How many workers are busy is a guard that no proof needs.
LEMMA TypeInit == Init => TypeOK
  <1> SUFFICES ASSUME Init PROVE TypeOK
    OBVIOUS
  <1>1. \A p \in Packages : src[p] \in Sources /\ KeyOf[src[p]] \in Keys
    BY DEF Init, Keys
  <1>2. 0 \in 0 .. MaxRuns
    BY ConfigAssumption, SMT
  <1> QED
    BY <1>1, <1>2 DEF Init, TypeOK, Wheels, Steps, Results

\* The levels are taken from what remains.
LEMMA NextLevelsRemain ==
    ASSUME NEW next \in NextLevels
    PROVE next \subseteq remaining
  BY DEF NextLevels

\* A step of a build, and its end, keep the types.
LEMMA TypeGoto ==
    ASSUME TypeOK, NEW p \in Packages
    PROVE /\ \A s \in Steps : Goto(p, s) => pc' \in [Packages -> Steps]
          /\ \A r \in Results :
                Return(p, r) => pc' \in [Packages -> Steps] /\ result' \in [Packages -> Results]
  <1>1. "done" \in Steps
    BY DEF Steps
  <1>2. \A s \in Steps : Goto(p, s) => pc' \in [Packages -> Steps]
    BY DEF TypeOK, Goto
  <1>3. \A r \in Results :
           Return(p, r) => pc' \in [Packages -> Steps] /\ result' \in [Packages -> Results]
    BY <1>1, <1>2 DEF TypeOK, Return
  <1> QED
    BY <1>2, <1>3

LEMMA TypeBuild ==
    ASSUME TypeOK, NEW p \in Packages, Build(p)
    PROVE TypeOK'
  <1> USE DEF TypeOK
  <1>1. CASE ComputeKey(p)
    <2>1. src[p] \in Sources /\ KeyOf[src[p]] \in Keys
      BY DEF Keys
    <2> QED
      BY <1>1, <2>1 DEF ComputeKey, Goto, Steps
  <1>2. CASE RestoreFromCache(p)
    <2>1. cache[p][key[p]] \in Wheels /\ Torn \in Wheels
      BY DEF Wheels
    <2>2. dist' \in [Packages -> Wheels] /\ pc' \in [Packages -> Steps]
      BY <1>2, <2>1 DEF RestoreFromCache, Goto, Steps
    <2> QED
      BY <1>2, <2>2 DEF RestoreFromCache, histories
  <1>0. /\ "sync" \in Steps /\ "contracts" \in Steps /\ "done" \in Steps
        /\ "failed" \in Results /\ "hit" \in Results /\ "none" \in Results
        /\ None \in Wheels /\ Torn \in Wheels
    BY DEF Steps, Results, Wheels
  <1>3. CASE BuildWheel(p)
    <2>1. \A s \in since[p] : s \in Wheels
      BY DEF Wheels
    <2>2. dist' \in [Packages -> Wheels]
      BY <1>0, <1>3, <2>1 DEF BuildWheel
    <2>3. (Goto(p, "sync") /\ result' = result) \/ Return(p, "failed")
      BY <1>3 DEF BuildWheel
    <2>4. pc' \in [Packages -> Steps] /\ result' \in [Packages -> Results]
      BY <1>0, <2>3, TypeGoto
    <2> QED
      BY <1>3, <2>2, <2>4 DEF BuildWheel, histories
  <1>4. CASE SyncWheel(p)
    <2>1. \E w \in Wheels : repo' = [repo EXCEPT ![p] = w]
      <3>1. dist[p] \in Wheels /\ repo[p] \in Wheels
        OBVIOUS
      <3> QED
        BY <1>0, <1>4, <3>1 DEF SyncWheel
    <2>2. repo' \in [Packages -> Wheels]
      BY <2>1
    <2>3. \/ Goto(p, "contracts") /\ result' = result
          \/ \E r \in {"hit", "failed", "none"} : Return(p, r)
      BY <1>4 DEF SyncWheel
    <2>4. pc' \in [Packages -> Steps] /\ result' \in [Packages -> Results]
      BY <1>0, <2>3, TypeGoto
    <2> QED
      BY <1>4, <2>2, <2>4 DEF SyncWheel, histories
  <1>5. CASE RunContracts(p)
    BY <1>5 DEF RunContracts, Return, Goto, Steps, Results, histories
  <1>6. CASE SaveToCache(p)
    <2>1. cache' \in [Packages -> [Keys -> Wheels]]
      BY <1>0, <1>6 DEF SaveToCache
    <2>2. spoilt' \in [Packages -> SUBSET Keys]
      BY <1>6 DEF SaveToCache, Spoil, Mend
    <2>3. "built" \in Results /\ Return(p, "built")
      BY <1>6 DEF SaveToCache, Results
    <2>4. pc' \in [Packages -> Steps] /\ result' \in [Packages -> Results]
      BY <2>3, TypeGoto
    <2> QED
      BY <1>6, <2>1, <2>2, <2>4 DEF SaveToCache
  <1> QED
    BY <1>1, <1>2, <1>3, <1>4, <1>5, <1>6 DEF Build

\* The packages whose save is cut.
KillsSaving(saving) ==
    /\ cache' = [p \in Packages |->
                   [cache[p] EXCEPT ![key[p]] = IF p \in saving THEN Torn ELSE @]]
    /\ spoilt' = [p \in Packages |->
                    spoilt[p] \cup IF p \in saving THEN {key[p]} ELSE {}]

LEMMA KillSaves ==
    ASSUME TypeOK, Kill
    PROVE \E saving \in SUBSET Packages : KillsSaving(saving)
  <1>1. PICK torn \in SUBSET Busy : KillsSaving({p \in torn : pc[p] = "save"})
    BY DEF Kill, KillsSaving
  <1>2. {p \in torn : pc[p] = "save"} \in SUBSET Packages
    BY DEF Busy, TypeOK
  <1> QED
    BY <1>1, <1>2

LEMMA TypeKill == ASSUME TypeOK, Kill PROVE TypeOK'
  <1> USE DEF TypeOK
  <1>1. dist' \in [Packages -> Wheels] /\ repo' \in [Packages -> Wheels]
    BY DEF Kill, Cut, Wheels
  <1>2. cache' \in [Packages -> [Keys -> Wheels]] /\ spoilt' \in [Packages -> SUBSET Keys]
    <2>1. PICK saving \in SUBSET Packages : KillsSaving(saving)
      BY KillSaves
    <2>2. \A p \in Packages :
             [cache[p] EXCEPT ![key[p]] = IF p \in saving THEN Torn ELSE @] \in [Keys -> Wheels]
      BY DEF Wheels
    <2> QED
      BY <2>1, <2>2 DEF KillsSaving
  <1> QED
    BY <1>1, <1>2 DEF Kill, Steps

LEMMA TypeStep == ASSUME TypeOK, [Next]_vars PROVE TypeOK'
  <1>1. CASE UNCHANGED vars
    BY <1>1 DEF TypeOK, vars, histories
  <1>2. CASE \E f \in BOOLEAN : Run(f)
    <2>1. runs' \in 0 .. MaxRuns
      BY <1>2, ConfigAssumption, SMT DEF Run, TypeOK
    <2> QED
      BY <1>2, <2>1 DEF Run, TypeOK, Results, histories
  <1>3. CASE StartLevel
    <2>1. PICK next \in NextLevels :
            /\ level' = next
            /\ remaining' = remaining \ next
            /\ pc' = [p \in Packages |-> IF p \in next THEN "queued" ELSE pc[p]]
      BY <1>3 DEF StartLevel
    <2> QED
      BY <1>3, <2>1, NextLevelsRemain DEF StartLevel, TypeOK, Steps, histories
  <1>4. CASE Report
    BY <1>4 DEF Report, TypeOK, histories
  <1>5. CASE \E p \in Packages : Build(p)
    BY <1>5, TypeBuild
  <1>6. ASSUME NEW p \in Packages, Edit(p) PROVE TypeOK'
    BY <1>6 DEF Edit, TypeOK
  <1>7. CASE Kill
    BY <1>7, TypeKill
  <1> QED
    BY <1>1, <1>2, <1>3, <1>4, <1>5, <1>6, <1>7 DEF Next

\* Every variable keeps its type, for any packages, sources, keys, workers and bounds.
THEOREM TypeCorrect == Spec => []TypeOK
  <1>1. Init => TypeOK
    BY TypeInit
  <1>2. TypeOK /\ [Next]_vars => TypeOK'
    BY TypeStep
  <1> QED
    BY <1>1, <1>2, PTL DEF Spec

-----------------------------------------------------------------------------
(* The order. *)

LEMMA EdgesStep == ASSUME TypeOK, EdgesFirst, [Next]_vars PROVE EdgesFirst'
  <1>1. CASE StartLevel
    <2>1. PICK next \in NextLevels : level' = next /\ remaining' = remaining \ next
      BY <1>1 DEF StartLevel
    <2>2. next \subseteq remaining /\ remaining \subseteq Packages /\ graph' = graph
      BY <1>1, NextLevelsRemain DEF StartLevel, TypeOK
    <2>3. ASSUME NEW p \in level', NEW d \in graph'[p]
          PROVE \/ d \in Attempted'
                \/ \E S \in SUBSET Packages :
                      d \in S /\ \A q \in S : graph'[q] \cap S # {}
      <3>1. p \in Packages /\ d \in Packages
        BY <2>1, <2>2 DEF TypeOK
      <3>2. CASE d \notin remaining
        BY <2>1, <2>2, <3>1, <3>2 DEF Attempted
      <3>3. CASE d \in remaining
        <4>1. {q \in remaining : graph[q] \cap remaining = {}} = {}
          BY <2>1, <2>2, <3>3 DEF NextLevels
        <4>2. \A q \in remaining : graph'[q] \cap remaining # {}
          BY <2>2, <4>1
        <4> QED
          BY <2>2, <3>3, <4>2
      <3> QED
        BY <3>2, <3>3
    <2> QED
      BY <2>3 DEF EdgesFirst, Endless
  <1>2. CASE /\ graph' = graph
             /\ \/ level' = {}
                \/ level' = level /\ remaining' = remaining
    BY <1>2 DEF EdgesFirst, Attempted, Endless
  <1>3. [Next]_vars /\ ~StartLevel =>
          /\ graph' = graph
          /\ \/ level' = {}
             \/ level' = level /\ remaining' = remaining
    BY DEF Next, vars, histories, Run, Report, Build, ComputeKey, RestoreFromCache, BuildWheel,
           SyncWheel, RunContracts, SaveToCache, Edit, Kill
  <1> QED
    BY <1>1, <1>2, <1>3

\* Every package is built after what it needs, but for what needs itself:
\* topological_sort together with the pool that waits for a level to end.
THEOREM EdgesComeFirst == Spec => []EdgesFirst
  <1>1. Init => TypeOK /\ EdgesFirst
    BY TypeInit DEF Init, EdgesFirst
  <1>2. TypeOK /\ EdgesFirst /\ [Next]_vars => (TypeOK /\ EdgesFirst)'
    BY TypeStep, EdgesStep
  <1> QED
    BY <1>1, <1>2, PTL DEF Spec

-----------------------------------------------------------------------------
(* The wheels. *)

\* A whole wheel of sources that have this key.
Fits(w, k) == w \in Sources /\ KeyOf[w] = k

\* What a package's wheels are at each step of execute_build: the entry of a
\* key that is not spoilt is empty or fits, and so does what is on its way from
\* it to the repository; what a build makes is of sources of its time.
WheelInv(p) ==
    /\ \A k \in Keys \ spoilt[p] : cache[p][k] = None \/ Fits(cache[p][k], k)
    /\ pc[p] = "restore" => cache[p][key[p]] # None
    /\ pc[p] = "syncHit" /\ key[p] \notin spoilt[p] => Fits(dist[p], key[p])
    /\ pc[p] \in {"sync", "contracts", "save"} => dist[p] \in since[p]
    /\ pc[p] \in {"contracts", "save"} => repo[p] = dist[p]
    /\ pc[p] # "done" => p \in level
    /\ result[p] # "none" => pc[p] = "done" /\ p \notin remaining
    /\ result[p] = "built" => repo[p] \in since[p]
    /\ result[p] = "hit" /\ key[p] \notin spoilt[p] => Fits(repo[p], key[p])

WheelsInv == \A p \in Packages : WheelInv(p)

LEMMA WheelsInit == Init => WheelsInv
  BY DEF Init, WheelsInv, WheelInv

\* A package that a step does not touch keeps its part.
LEMMA WheelKept ==
    ASSUME NEW p \in Packages, WheelInv(p),
           key'[p] = key[p], cache'[p] = cache[p], dist'[p] = dist[p],
           repo'[p] = repo[p], pc'[p] = pc[p], result'[p] = result[p],
           since[p] \subseteq since'[p], spoilt'[p] = spoilt[p],
           pc[p] # "done" => p \in level',
           remaining' \subseteq remaining
    PROVE WheelInv(p)'
  BY DEF WheelInv, Fits

\* Each step of execute_build keeps the part of its package.
LEMMA WheelBuild ==
    ASSUME TypeOK, NEW p \in Packages, WheelInv(p), Build(p)
    PROVE WheelInv(p)'
  <1>1. key[p] \in Keys /\ src[p] \in Sources /\ KeyOf[src[p]] \in Keys
    BY DEF TypeOK, Keys
  <1>2. level' = level /\ remaining' = remaining
    BY DEF Build, ComputeKey, RestoreFromCache, BuildWheel, SyncWheel, RunContracts,
           SaveToCache
  <1>3. pc[p] # "done" => p \in level /\ p \notin remaining
    BY DEF WheelInv, TypeOK
  <1>4. CASE ComputeKey(p)
    <2>1. /\ key'[p] = KeyOf[src[p]] /\ cache' = cache /\ result' = result /\ spoilt' = spoilt
          /\ pc[p] = "queued" /\ result[p] = "none"
          /\ \/ pc'[p] = "build"
             \/ pc'[p] = "restore" /\ cache[p][KeyOf[src[p]]] # None
      BY <1>4 DEF ComputeKey, Goto, TypeOK, WheelInv, HasCache
    <2> QED
      BY <1>2, <1>3, <2>1 DEF WheelInv, Fits
  <1>5. CASE RestoreFromCache(p)
    <2>1. /\ key' = key /\ cache' = cache /\ result' = result /\ pc[p] = "restore"
          /\ since' = since /\ spoilt' = spoilt
          /\ \/ pc'[p] = "syncHit" /\ dist'[p] = cache[p][key[p]]
             \/ pc'[p] = "build"
      BY <1>5 DEF RestoreFromCache, Goto, TypeOK, histories
    <2> QED
      BY <1>1, <1>2, <1>3, <2>1 DEF WheelInv, Fits
  <1>6. CASE BuildWheel(p)
    <2>1. /\ key' = key /\ cache' = cache /\ pc[p] = "build"
          /\ since' = since /\ spoilt' = spoilt
          /\ \/ pc'[p] = "sync" /\ dist'[p] \in since[p] /\ result' = result
             \/ pc'[p] = "done" /\ result'[p] = "failed"
      BY <1>6 DEF BuildWheel, Return, Goto, TypeOK, histories
    <2> QED
      BY <1>2, <1>3, <2>1 DEF WheelInv, Fits
  <1>7. CASE SyncWheel(p)
    <2>1. /\ key' = key /\ cache' = cache /\ dist' = dist
          /\ since' = since /\ spoilt' = spoilt
          /\ \/ /\ pc[p] = "sync" /\ pc'[p] = "contracts"
                /\ repo'[p] = dist[p] /\ result' = result
             \/ /\ pc[p] = "syncHit" /\ pc'[p] = "done"
                /\ repo'[p] = dist[p] /\ result'[p] = "hit"
             \/ /\ pc[p] \in {"syncHit", "sync"} /\ pc'[p] = "done"
                /\ result'[p] \in {"failed", "none"}
      BY <1>7 DEF SyncWheel, Return, Goto, TypeOK, histories
    <2> QED
      BY <1>2, <1>3, <2>1 DEF WheelInv, Fits
  <1>8. CASE RunContracts(p)
    <2>1. /\ key' = key /\ cache' = cache /\ dist' = dist /\ repo' = repo
          /\ since' = since /\ spoilt' = spoilt /\ pc[p] = "contracts"
          /\ \/ pc'[p] = "save" /\ result' = result
             \/ pc'[p] = "done" /\ result'[p] = "failed"
      BY <1>8 DEF RunContracts, Return, Goto, TypeOK, histories
    <2> QED
      BY <1>2, <1>3, <2>1 DEF WheelInv, Fits
  <1>9. CASE SaveToCache(p)
    <2>1. /\ key' = key /\ dist' = dist /\ repo' = repo /\ since' = since
          /\ pc[p] = "save" /\ pc'[p] = "done" /\ result'[p] = "built"
      BY <1>9 DEF SaveToCache, Return, Goto, TypeOK
    <2>2. repo[p] = dist[p] /\ dist[p] \in since[p] /\ since[p] \subseteq Sources
      BY <2>1 DEF WheelInv, TypeOK
    <2>3. \A k \in Keys \ spoilt'[p] : cache'[p][k] = None \/ Fits(cache'[p][k], k)
      <3>1. CASE cache' = [cache EXCEPT ![p][key[p]] = dist[p]] /\ ~Changed(p) /\ Mend(p, key[p])
        <4>1. Fits(dist[p], key[p])
          BY <2>2, <3>1 DEF Changed, Fits
        <4>2. cache'[p][key[p]] = dist[p] /\ spoilt'[p] = spoilt[p] \ {key[p]}
          BY <1>1, <3>1 DEF Mend, TypeOK
        <4>3. \A k \in Keys \ {key[p]} : cache'[p][k] = cache[p][k]
          BY <1>1, <3>1 DEF TypeOK
        <4> QED
          BY <4>1, <4>2, <4>3 DEF WheelInv, Fits
      <3>2. CASE /\ \E w : cache' = [cache EXCEPT ![p][key[p]] = w]
                 /\ Spoil(p, key[p])
        <4>1. spoilt'[p] = spoilt[p] \cup {key[p]}
          BY <3>2 DEF Spoil, TypeOK
        <4>2. \A k \in Keys \ {key[p]} : cache'[p][k] = cache[p][k]
          BY <1>1, <3>2 DEF TypeOK
        <4> QED
          BY <4>1, <4>2 DEF WheelInv, Fits
      <3>3. CASE UNCHANGED <<cache, spoilt>>
        BY <3>3 DEF WheelInv, Fits
      <3> QED
        BY <1>9, <3>1, <3>2, <3>3 DEF SaveToCache
    <2> QED
      BY <1>2, <1>3, <2>1, <2>2, <2>3 DEF WheelInv
  <1> QED
    BY <1>4, <1>5, <1>6, <1>7, <1>8, <1>9 DEF Build

\* It leaves the parts of the others alone.
LEMMA WheelOthers ==
    ASSUME TypeOK, NEW p \in Packages, NEW q \in Packages \ {p}, WheelInv(q), Build(p)
    PROVE WheelInv(q)'
  <1>1. /\ level' = level /\ remaining' = remaining
        /\ key'[q] = key[q] /\ cache'[q] = cache[q] /\ dist'[q] = dist[q]
        /\ repo'[q] = repo[q] /\ pc'[q] = pc[q] /\ result'[q] = result[q]
        /\ since'[q] = since[q] /\ spoilt'[q] = spoilt[q]
    BY DEF Build, ComputeKey, RestoreFromCache, BuildWheel, SyncWheel, RunContracts,
           SaveToCache, Return, Goto, TypeOK, histories, Spoil, Mend
  <1>2. pc[q] # "done" => q \in level
    BY DEF WheelInv
  <1> QED
    BY <1>1, <1>2, WheelKept

\* A worker that dies leaves half a wheel at most, in an entry that is spoilt
\* by it, and no result.
LEMMA WheelKill == ASSUME TypeOK, NEW p \in Packages, WheelInv(p), Kill PROVE WheelInv(p)'
  <1>1. /\ key' = key /\ result' = result /\ since' = since /\ pc'[p] = "done"
        /\ remaining' \subseteq remaining
    BY DEF Kill
  <1>2. result[p] # "none" => repo'[p] = repo[p]
    <2>1. PICK torn \in SUBSET Busy, half \in {None, Torn} :
            repo' = Cut(repo, {"syncHit", "sync"}, torn, half)
      BY DEF Kill
    <2> QED
      BY <2>1 DEF Cut, WheelInv
  <1>3. /\ \A k \in Keys \ spoilt'[p] : cache'[p][k] = None \/ Fits(cache'[p][k], k)
        /\ spoilt[p] \subseteq spoilt'[p]
    <2>1. PICK saving \in SUBSET Packages : KillsSaving(saving)
      BY KillSaves
    <2>2. cache'[p] = [cache[p] EXCEPT ![key[p]] = IF p \in saving THEN Torn ELSE @]
      BY <2>1 DEF KillsSaving
    <2>3. spoilt'[p] = spoilt[p] \cup IF p \in saving THEN {key[p]} ELSE {}
      BY <2>1 DEF KillsSaving
    <2>4. \A k \in Keys \ spoilt'[p] : cache'[p][k] = cache[p][k]
      BY <2>2, <2>3 DEF TypeOK
    <2> QED
      BY <2>3, <2>4 DEF WheelInv, Fits
  <1> QED
    BY <1>1, <1>2, <1>3 DEF WheelInv, Fits

LEMMA WheelsStep == ASSUME TypeOK, WheelsInv, [Next]_vars PROVE WheelsInv'
  <1> SUFFICES ASSUME NEW p \in Packages PROVE WheelInv(p)'
    BY DEF WheelsInv
  <1>0. WheelInv(p) /\ (pc[p] # "done" => p \in level)
    BY DEF WheelsInv, WheelInv
  <1>1. CASE UNCHANGED vars
    BY <1>0, <1>1, WheelKept DEF vars, histories
  <1>2. CASE \E f \in BOOLEAN : Run(f)
    BY <1>0, <1>2 DEF Run, WheelInv, Fits, histories
  <1>3. CASE StartLevel
    <2>1. PICK next \in NextLevels :
            /\ level' = next
            /\ remaining' = remaining \ next
            /\ pc' = [q \in Packages |-> IF q \in next THEN "queued" ELSE pc[q]]
      BY <1>3 DEF StartLevel
    <2>2. next \subseteq remaining /\ pc[p] = "done"
      BY <1>0, <1>3, NextLevelsRemain DEF StartLevel
    <2>3. p \in next => result[p] = "none"
      BY <1>0, <2>2 DEF WheelInv
    <2> QED
      BY <1>0, <1>3, <2>1, <2>2, <2>3 DEF StartLevel, WheelInv, Fits, histories
  <1>4. CASE Report
    BY <1>0, <1>4, WheelKept DEF Report, histories
  <1>5. ASSUME NEW q \in Packages, Build(q) PROVE WheelInv(p)'
    BY <1>0, <1>5, WheelBuild, WheelOthers
  <1>6. ASSUME NEW q \in Packages, Edit(q) PROVE WheelInv(p)'
    <2>1. since[p] \subseteq since'[p]
      BY <1>6 DEF Edit, TypeOK
    <2> QED
      BY <1>0, <1>6, <2>1, WheelKept DEF Edit
  <1>7. CASE Kill
    BY <1>0, <1>7, WheelKill
  <1> QED
    BY <1>1, <1>2, <1>3, <1>4, <1>5, <1>6, <1>7 DEF Next

\* A package that is reported as built has a whole wheel of sources of its
\* time in the repository's dist/, and one that is reported as a hit a whole
\* wheel of sources with its key, unless that key's last save was disturbed:
\* execute_build with its cache, while sources are edited and edits taken back,
\* copies are cut and workers die, whatever the key leaves out.
THEOREM SuccessIsCurrentHolds == Spec => []SuccessIsCurrent
  <1>1. Init => TypeOK /\ WheelsInv
    BY TypeInit, WheelsInit
  <1>2. (TypeOK /\ WheelsInv) /\ [Next]_vars => (TypeOK /\ WheelsInv)'
    BY TypeStep, WheelsStep
  <1>3. WheelsInv => SuccessIsCurrent
    BY DEF WheelsInv, WheelInv, SuccessIsCurrent, Fits
  <1> QED
    BY <1>1, <1>2, <1>3, PTL DEF Spec
=============================================================================
