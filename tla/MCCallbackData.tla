--------------------------- MODULE MCCallbackData ---------------------------
(* Instances of CallbackData for TLC. *)
EXTENDS CallbackData

(* bind_reference with more than INT_MAX bytes throws before SQLite is      *)
(* called and leaks the value: it is left out, as in the theorems.          *)
OrdinarySizes == {"null", "fits", "toobig"}
===============================================================================
