--------------------------- MODULE MCVtabLifecycle ---------------------------
(* Instances of VtabLifecycle for TLC. *)
EXTENDS VtabLifecycle, TLC

(* Connections, statements and exceptions are interchangeable. *)
Symmetric == Permutations(VTabs) \cup Permutations(Stmts) \cup Permutations(Exceptions)
===============================================================================
