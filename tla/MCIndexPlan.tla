---------------------------- MODULE MCIndexPlan ----------------------------
(* Instances of IndexPlan for TLC. *)
EXTENDS IndexPlan, TLC

(* Index data are interchangeable. *)
Symmetric == Permutations(Data)
=============================================================================
