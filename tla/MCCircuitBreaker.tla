-------------------------- MODULE MCCircuitBreaker --------------------------
(* Model values for the run of CircuitBreaker. *)
EXTENDS CircuitBreaker

CONSTANTS c1, c2, c3, c4
=============================================================================
