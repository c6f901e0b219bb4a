-------------------------- MODULE MCCircuitBreaker --------------------------
(* Instances of CircuitBreaker for TLC. *)
EXTENDS CircuitBreaker

CONSTANTS w1, w2, w3, b1, b2

\* All the workers in one process, sharing a breaker object.
SharedHome == [w \in Workers |-> b1]
=============================================================================
