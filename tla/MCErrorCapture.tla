--------------------------- MODULE MCErrorCapture ---------------------------
(* Instances of ErrorCapture for TLC. *)
EXTENDS ErrorCapture, TLC

Symmetric == Permutations(Threads)
===============================================================================
