-------------------------- MODULE MCCircuitBreaker --------------------------
(***************************************************************************)
(* CircuitBreaker with enough tasks for a full half-open episode to        *)
(* overlap a call that was admitted before the breaker opened.             *)
(***************************************************************************)
EXTENDS CircuitBreaker, TLC

=============================================================================
