--------------------------- MODULE MCStatementUse ---------------------------
(* Instances of StatementUse for TLC. *)
EXTENDS StatementUse, TLC

CONSTANTS s1, s2

(* One statement without rows would do for most uses, two rows can be left. *)
TwoAndOne == (s1 :> 2) @@ (s2 :> 1)

Symmetric == Permutations(Guards) \cup Permutations(Values)
===============================================================================
