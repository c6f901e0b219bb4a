------------------------- MODULE MCBuildCoordinator -------------------------
(***************************************************************************)
(* A small instance of BuildCoordinator: every dependency graph over two   *)
(* packages, and three trees of sources, of which two have one key.        *)
(***************************************************************************)
EXTENDS BuildCoordinator, TLC
CONSTANTS a, b, s1, s2, s3, k1, k2
MCPackages == {a, b}
MCSources == {s1, s2, s3}
MCKeys == [s \in Sources |-> IF s = s3 THEN k2 ELSE k1]

\* The packages are alike, and so are the two trees with one key.
Symmetry == Permutations({a, b}) \cup Permutations({s1, s2})

\* Nothing of the package has been edited, has failed or was cut.
Quiet(p) ==
    /\ src[p] = s3 /\ since[p] \subseteq {s3}
    /\ result[p] # "failed"
    /\ dist[p] # Torn /\ repo[p] # Torn /\ cache[p][k2] # Torn

\* Trouble meets one package at a time.
OneInTrouble == \E p \in Packages : \A q \in Packages \ {p} : Quiet(q)
=============================================================================
