-------------------------- MODULE MCCircuitBreaker --------------------------
(* Finite instances of CircuitBreaker for TLC. *)
EXTENDS CircuitBreaker, TLC

=============================================================================
