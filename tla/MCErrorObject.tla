---------------------------- MODULE MCErrorObject ----------------------------
(* The instance of ErrorObject for TLC. *)
EXTENDS ErrorObject, TLC

Symmetry == Permutations(Blocks) \cup Permutations(Errors)
===============================================================================
