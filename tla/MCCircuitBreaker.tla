-------------------------- MODULE MCCircuitBreaker --------------------------
(***************************************************************************)
(* CircuitBreaker for TLC.  The cfg files give the constants; the runs     *)
(* differ in the time a caller may lose between the two locks of is_open.  *)
(***************************************************************************)
EXTENDS CircuitBreaker

(* The code's own proportions: a call times out (30 s) well before the reset
   timeout (60 s) is over. *)
ASSUME CallsEndBeforeReset == CallTimeout <= ResetTimeout
=============================================================================
