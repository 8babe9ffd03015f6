-------------------------- MODULE MCCircuitBreaker --------------------------
(***************************************************************************)
(* The instance of CircuitBreaker for TLC: one call more than the threshold *)
(* of failures, so that calls are left over when the breaker trips.        *)
(***************************************************************************)
EXTENDS CircuitBreaker
=============================================================================
