-------------------------- MODULE RateLimitEnforcer --------------------------
(***************************************************************************)
(* A rate limit as its callers have it: resilience-kit,                    *)
(* ratelimit/enforcer.py.  A RateLimitEnforcer is given one algorithm for  *)
(* good and hands every check to it, and what the algorithm raises is      *)
(* raised again: a request that gets no answer is not let through.         *)
(*                                                                         *)
(* A process of the service has the enforcer of its configuration, and the *)
(* clients here are those of one configuration, hence of one algorithm on  *)
(* one key.                                                                *)
(***************************************************************************)
EXTENDS FixedWindow, SlidingWindow, TokenBucket

VARIABLE algorithm

logOnly == <<entries, grantedAt>>
bucketOnly == <<tokens, refillAge, ideal, late, early>>
enforcerVars == <<algorithm, vars, slidingVars, bucketVars>>

\* RateLimitEnforcer(backend, algorithm, config)
EnforcerInit ==
    /\ algorithm \in {"fixed_window", "sliding_window", "token_bucket"}
    /\ Init /\ SlidingInit /\ BucketInit

\* self.algorithm.check
CheckAndRecord ==
    \/ algorithm = "fixed_window" /\ Next /\ UNCHANGED <<slidingVars, bucketVars>>
    \/ algorithm = "sliding_window" /\ SlidingNext /\ UNCHANGED <<vars, bucketOnly>>
    \/ algorithm = "token_bucket" /\ BucketNext /\ UNCHANGED <<vars, logOnly>>

EnforcerNext == CheckAndRecord /\ UNCHANGED algorithm

EnforcerSpec == EnforcerInit /\ [][EnforcerNext]_enforcerVars
==============================================================================
