--------------------------- MODULE MCSpendLedger ----------------------------
(***************************************************************************)
(* SpendLedger for TLC.  Requests are interchangeable.                     *)
(***************************************************************************)
EXTENDS SpendLedger, TLC

Symmetry == Permutations(Requests) \cup Permutations(Clients)
=============================================================================
