--------------------------- MODULE MCFunctionCall ---------------------------
(* Instances of FunctionCall for TLC. *)
EXTENDS FunctionCall, TLC

(* Copies have no part in what happens to the data: they are explored before *)
(* any datum is handed over.                                                *)
CopiesWithoutData == cell["copy"] # NullCell => given = {}

DataSymmetry == Permutations(Data)
===============================================================================
