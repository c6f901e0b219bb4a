------------------------ MODULE MCRateLimitEnforcer ------------------------
(* Three clients of a limiter, which are alike. *)
EXTENDS RateLimitEnforcer, TLC

CONSTANTS c1, c2, c3

Symmetry == Permutations(Clients)
=============================================================================
