-------------------------- MODULE MCCircuitBreaker --------------------------
(***************************************************************************)
(* Instances of CircuitBreaker for TLC.  Liveness is among the properties, *)
(* so there is no symmetry.                                                *)
(***************************************************************************)
EXTENDS CircuitBreaker
=============================================================================
