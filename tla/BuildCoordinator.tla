-------------------------- MODULE BuildCoordinator --------------------------
(***************************************************************************)
(* The build of a repository's packages: coordinator.py orders them into   *)
(* levels by dependency.py, gives each level to a pool of worker processes *)
(* and restores a package from the cache of cache.py, or builds it and     *)
(* saves it there.  Developers edit sources meanwhile, commands fail, and  *)
(* workers or the coordinator are killed.                                  *)
(*                                                                         *)
(* A wheel is named by the sources it was built from; Torn is the part of  *)
(* one that a cut copy leaves.  Sources are a package's whole tree, as far *)
(* as the wheel or the key depends on it: with its inodes and times in the *)
(* default mode, of contents alone with --verify-cache.  KeyOf is the key  *)
(* that compute_cache_key finds for them, any function at all: it leaves   *)
(* out modules that lie in the package's root, and setup.py, so that two   *)
(* trees may have one key.  An edit is that of one file, so that a key is  *)
(* computed at once.  The graph is what build_dependency_graph finds,      *)
(* which misses a dependency whose directory is not named as its project   *)
(* (topological_sort then looks for neoaxios-x among directories).  A      *)
(* package keeps one wheel name, and the branch-wide wheel cache, whose    *)
(* errors change no result, is left out.                                   *)
(***************************************************************************)
EXTENDS Integers, FiniteSets

CONSTANTS
    Packages,    \* the directories of the packages: BuildPackage.name
    Workers,     \* the size of the pool
    Sources,     \* what the sources of a package may be
    KeyOf,       \* the cache key of each
    MaxRuns,     \* bound on the runs of the command
    None, Torn   \* no wheel; half a wheel

ASSUME ConfigAssumption ==
    /\ Workers \in Nat \ {0}
    /\ Sources # {} /\ DOMAIN KeyOf = Sources
    /\ MaxRuns \in Nat \ {0}
    /\ None \notin Sources /\ Torn \notin Sources /\ None # Torn

VARIABLES
    graph,      \* the packages that build_dependency_graph has each depend on
    src,        \* the sources of each package
    dist,       \* the wheel in each package's dist/
    repo,       \* the wheel of each package in the repository's dist/
    cache,      \* the wheel in the cache entry of each package and key
    runs,       \* how many runs of the command have started
    force,      \* whether this run is one with --force
    remaining,  \* the packages of the levels that have not begun
    level,      \* the packages of the current level
    pc,         \* how far execute_build is with each package
    key,        \* the cache key it computed first
    result,     \* the result of each package in this run
    since,      \* history: the sources it had from then until its build ended
    spoilt      \* history: the keys last saved by halves, or while sources changed

histories == <<since, spoilt>>
vars == <<graph, src, dist, repo, cache, runs, force, remaining, level, pc, key, result,
          since, spoilt>>

Keys == {KeyOf[s] : s \in Sources}
Wheels == Sources \cup {None, Torn}
Steps == {"queued", "restore", "syncHit", "build", "sync", "contracts", "save", "done"}
Results == {"none", "built", "hit", "failed"}

TypeOK ==
    /\ graph \in [Packages -> SUBSET Packages]
    /\ src \in [Packages -> Sources]
    /\ dist \in [Packages -> Wheels]
    /\ repo \in [Packages -> Wheels]
    /\ cache \in [Packages -> [Keys -> Wheels]]
    /\ runs \in 0 .. MaxRuns
    /\ force \in BOOLEAN
    /\ remaining \subseteq Packages
    /\ level \subseteq Packages \ remaining
    /\ pc \in [Packages -> Steps]
    /\ key \in [Packages -> Keys]
    /\ result \in [Packages -> Results]
    /\ since \in [Packages -> SUBSET Sources]
    /\ spoilt \in [Packages -> SUBSET Keys]

Init ==
    /\ graph \in [Packages -> SUBSET Packages]
    /\ src \in [Packages -> Sources]
    /\ dist = [p \in Packages |-> None]
    /\ repo = [p \in Packages |-> None]
    /\ cache = [p \in Packages |-> [k \in Keys |-> None]]
    /\ runs = 0
    /\ force = FALSE
    /\ remaining = {}
    /\ level = {}
    /\ pc = [p \in Packages |-> "done"]
    /\ key = [p \in Packages |-> KeyOf[src[p]]]
    /\ result = [p \in Packages |-> "none"]
    /\ since = [p \in Packages |-> {}]
    /\ spoilt = [p \in Packages |-> {}]

-----------------------------------------------------------------------------
(* The order. *)

\* Bug: a package is ready when nothing that remains depends on it.
ReversedNextLevels ==
    LET ready == {p \in remaining : \A q \in remaining : p \notin graph[q]} IN
    IF ready # {} THEN {ready} ELSE {{p} : p \in remaining}

\* The next level: all that depend on nothing that remains; if there is no
\* such package, any one that remains.
NextLevels ==
    LET ready == {p \in remaining : graph[p] \cap remaining = {}} IN
    IF ready # {} THEN {ready} ELSE {{p} : p \in remaining}

\* The command is run.
Run(f) ==
    /\ runs < MaxRuns
    /\ level = {} /\ remaining = {}
    /\ runs' = runs + 1
    /\ force' = f
    /\ remaining' = Packages
    /\ result' = [p \in Packages |-> "none"]
    /\ UNCHANGED <<graph, src, dist, repo, cache, level, pc, key, histories>>

\* execute_parallel_by_levels submits a level when the one before has ended,
\* however it ended.
StartLevel ==
    /\ remaining # {}
    /\ \A p \in level : pc[p] = "done"
    /\ \E next \in NextLevels :
          /\ level' = next
          /\ remaining' = remaining \ next
          /\ pc' = [p \in Packages |-> IF p \in next THEN "queued" ELSE pc[p]]
    /\ UNCHANGED <<graph, src, dist, repo, cache, runs, force, key, result, histories>>

\* The last level has ended: the command reports.
Report ==
    /\ level # {} /\ remaining = {}
    /\ \A p \in level : pc[p] = "done"
    /\ level' = {}
    /\ UNCHANGED <<graph, src, dist, repo, cache, runs, force, remaining, pc, key, result, histories>>

-----------------------------------------------------------------------------
(* execute_build, in a worker. *)

Busy == {p \in level : pc[p] \notin {"queued", "done"}}

Goto(p, step) == pc' = [pc EXCEPT ![p] = step]
Return(p, r) == Goto(p, "done") /\ result' = [result EXCEPT ![p] = r]

\* Any *.whl in the entry will do.
HasCache(p, k) == cache[p][k] # None

\* The key is computed; with --force the cache is not looked up.
ComputeKey(p) ==
    /\ pc[p] = "queued"
    /\ Cardinality(Busy) < Workers
    /\ key' = [key EXCEPT ![p] = KeyOf[src[p]]]
    /\ since' = [since EXCEPT ![p] = {src[p]}]
    /\ Goto(p, IF ~force /\ HasCache(p, KeyOf[src[p]]) THEN "restore" ELSE "build")
    /\ UNCHANGED <<graph, src, dist, repo, cache, runs, force, remaining, level, result, spoilt>>

\* A hit: the entry is copied to dist/; an error is a miss.
RestoreFromCache(p) ==
    /\ pc[p] = "restore"
    /\ \/ dist' = [dist EXCEPT ![p] = cache[p][key[p]]] /\ Goto(p, "syncHit")
       \/ dist' = [dist EXCEPT ![p] = Torn] /\ Goto(p, "build")
    /\ UNCHANGED <<graph, src, repo, cache, runs, force, remaining, level, key, result, histories>>

\* python -m build reads the sources at some time since the key was computed,
\* or fails, or is killed by its timeout; --force has removed dist/ before.
BuildWheel(p) ==
    /\ pc[p] = "build"
    /\ \/ /\ \E s \in since[p] : dist' = [dist EXCEPT ![p] = s]
          /\ Goto(p, "sync")
          /\ UNCHANGED result
       \/ /\ \E w \in {IF force THEN None ELSE dist[p], Torn} : dist' = [dist EXCEPT ![p] = w]
          /\ Return(p, "failed")
    /\ UNCHANGED <<graph, src, repo, cache, runs, force, remaining, level, key, histories>>

\* _sync_wheel_to_repo_dist: the old wheel is removed and the new one copied.
\* The try of execute_build begins after a hit: an error of the copy then
\* escapes it, and the package has no result.
SyncWheel(p) ==
    /\ pc[p] \in {"syncHit", "sync"}
    /\ \/ /\ repo' = [repo EXCEPT ![p] = dist[p]]
          /\ IF pc[p] = "sync" THEN Goto(p, "contracts") /\ UNCHANGED result ELSE Return(p, "hit")
       \/ /\ \E w \in {repo[p], None, Torn} : repo' = [repo EXCEPT ![p] = w]
          /\ Return(p, IF pc[p] = "sync" THEN "failed" ELSE "none")
    /\ UNCHANGED <<graph, src, dist, cache, runs, force, remaining, level, key, histories>>

\* make validate, generate and publish, of a wheel that is already published.
RunContracts(p) ==
    /\ pc[p] = "contracts"
    /\ \/ Goto(p, "save") /\ UNCHANGED result
       \/ Return(p, "failed")
    /\ UNCHANGED <<graph, src, dist, repo, cache, runs, force, remaining, level, key, histories>>

\* Whether sources changed, as far as the key shows, before the wheel was built.
Changed(p) == \E s \in since[p] : KeyOf[s] # key[p]

Spoil(p, k) == spoilt' = [spoilt EXCEPT ![p] = @ \cup {k}]
Mend(p, k) == spoilt' = [spoilt EXCEPT ![p] = @ \ {k}]

\* Bug: the key is computed again for the save.
FreshSaveToCache(p) ==
    /\ pc[p] = "save"
    /\ cache' = [cache EXCEPT ![p][KeyOf[src[p]]] = dist[p]]
    /\ IF Changed(p) THEN Spoil(p, KeyOf[src[p]]) ELSE Mend(p, KeyOf[src[p]])
    /\ Return(p, "built")
    /\ UNCHANGED <<graph, src, dist, repo, runs, force, remaining, level, key, since>>

\* save_to_cache, under the key from before the build; its errors are its own,
\* and leave what was copied.
SaveToCache(p) ==
    /\ pc[p] = "save"
    /\ \/ /\ cache' = [cache EXCEPT ![p][key[p]] = dist[p]]
          /\ IF Changed(p) THEN Spoil(p, key[p]) ELSE Mend(p, key[p])
       \/ cache' = [cache EXCEPT ![p][key[p]] = Torn] /\ Spoil(p, key[p])
       \/ UNCHANGED <<cache, spoilt>>
    /\ Return(p, "built")
    /\ UNCHANGED <<graph, src, dist, repo, runs, force, remaining, level, key, since>>

-----------------------------------------------------------------------------
(* The environment. *)

\* A developer edits a package, or takes an edit back.
Edit(p) ==
    /\ \E s \in Sources \ {src[p]} :
          /\ src' = [src EXCEPT ![p] = s]
          /\ since' = [since EXCEPT ![p] =
                         IF pc[p] \in {"restore", "build"} THEN @ \cup {s} ELSE @]
    /\ UNCHANGED <<graph, dist, repo, cache, runs, force, remaining, level, pc, key, result, spoilt>>

\* What the packages in torn were copying to files, if at one of these steps.
Cut(files, steps, torn, half) ==
    [p \in Packages |-> IF p \in torn /\ pc[p] \in steps THEN half ELSE files[p]]

\* A worker dies, and the pool with it: no package of the level that is not
\* done has a result.  When the command is interrupted the levels that remain
\* are dropped too.
Kill ==
    /\ Busy # {}
    /\ \E torn \in SUBSET Busy, half \in {None, Torn} :
          LET saving == {p \in torn : pc[p] = "save"} IN
          /\ dist' = Cut(dist, {"restore", "build"}, torn, Torn)
          /\ repo' = Cut(repo, {"syncHit", "sync"}, torn, half)
          /\ cache' = [p \in Packages |->
                         [cache[p] EXCEPT ![key[p]] = IF p \in saving THEN Torn ELSE @]]
          /\ spoilt' = [p \in Packages |->
                          spoilt[p] \cup IF p \in saving THEN {key[p]} ELSE {}]
    /\ pc' = [p \in Packages |-> "done"]
    /\ \/ UNCHANGED <<level, remaining>>
       \/ level' = {} /\ remaining' = {}
    /\ UNCHANGED <<graph, src, runs, force, key, result, since>>

-----------------------------------------------------------------------------
Build(p) ==
    \/ ComputeKey(p) \/ RestoreFromCache(p) \/ BuildWheel(p) \/ SyncWheel(p)
    \/ RunContracts(p) \/ SaveToCache(p)

Next ==
    \/ \E f \in BOOLEAN : Run(f)
    \/ StartLevel \/ Report
    \/ \E p \in Packages : Build(p) \/ Edit(p)
    \/ Kill

Spec == Init /\ [][Next]_vars

-----------------------------------------------------------------------------
\* A success publishes what its name says, whatever was edited, cut or killed
\* before and meanwhile: a package reported as built has in the repository's
\* dist/ a whole wheel of sources it had between the time its key was computed
\* and the end of its build; one restored from the cache has a whole wheel of
\* sources with the key it has asked for, but for a key whose last save was cut
\* or came from a build during which the sources had changed.
SuccessIsCurrent ==
    \A p \in Packages :
       /\ result[p] = "built" => repo[p] \in since[p]
       /\ result[p] = "hit" /\ key[p] \notin spoilt[p] =>
             repo[p] \in Sources /\ KeyOf[repo[p]] = key[p]

\* Every package of the set needs another of it: none is ever ready.
Endless(S) == \A p \in S : graph[p] \cap S # {}

Attempted == {p \in Packages : p \notin remaining \cup level}

\* topological_sort: "a list of package names that can be built in parallel
\* (all dependencies from previous levels)".  So it is for every edge of the
\* graph, in whatever way the levels before have ended, but for the edges to a
\* package on, or behind, a cycle.
EdgesFirst ==
    \A p \in level : \A d \in graph[p] :
       d \in Attempted \/ \E S \in SUBSET Packages : d \in S /\ Endless(S)
=============================================================================
