---------------------------- MODULE MCConnection ----------------------------
(* Instances of Connection for TLC.                                        *)
EXTENDS Connection, TLC

Symmetry == Permutations(Handles) \cup Permutations(Marks) \cup Permutations(Rows)

=============================================================================
