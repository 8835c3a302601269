-------------------------- MODULE MCCircuitBreaker --------------------------
(***************************************************************************)
(* Two datasources, three requests, a threshold of two: reports overlap    *)
(* with trips, probes and each other.                                      *)
(***************************************************************************)
EXTENDS CircuitBreaker
=============================================================================
