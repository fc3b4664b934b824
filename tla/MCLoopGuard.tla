---------------------------- MODULE MCLoopGuard -----------------------------
(***************************************************************************)
(* LoopGuard for TLC.  Prompts are interchangeable, and so are callers.    *)
(***************************************************************************)
EXTENDS LoopGuard, TLC

Symmetry == Permutations(Prompts) \cup Permutations(Callers)
=============================================================================
