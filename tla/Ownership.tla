------------------------------ MODULE Ownership ------------------------------
(****************************************************************************)
(* What thinsqlitepp promises about a piece of user data that is handed to  *)
(* a connection or a statement together with a deleter: the pointer of a    *)
(* function, collation or module, client data, a bound pointer, text or     *)
(* blob, a deserialised image.  The datum belongs to the caller, then to    *)
(* the library, then to nobody, and the deleter runs when and only when the *)
(* library gives it up.                                                     *)
(****************************************************************************)
EXTENDS Naturals

CONSTANT Data

VARIABLES owner,      \* who is responsible for each datum
          deletions   \* how often the deleter of each datum has run

Owners == {"caller", "library", "nobody"}

Init == /\ owner = [d \in Data |-> "caller"]
        /\ deletions = [d \in Data |-> 0]

(****************************************************************************)
(* One call: the caller offers the data in "offered" (one datum, or none),  *)
(* and the library runs the deleter of the data in "dropped".  An offered   *)
(* datum that the call refuses is dropped by the same call.                 *)
(****************************************************************************)
Transfer(offered, dropped) ==
  /\ \A d \in offered : owner[d] = "caller"
  /\ \A d \in dropped : owner[d] = "library" \/ d \in offered
  /\ owner' = [d \in Data |-> IF d \in dropped THEN "nobody"
                              ELSE IF d \in offered THEN "library"
                              ELSE owner[d]]
  /\ deletions' = [d \in Data |-> IF d \in dropped THEN deletions[d] + 1
                                  ELSE deletions[d]]

Next == \E offered, dropped \in SUBSET Data : Transfer(offered, dropped)

Spec == Init /\ [][Next]_<<owner, deletions>>

(* The deleter of a datum has run once if nobody owns it and never before. *)
DeletedOnceGivenUp ==
  \A d \in Data : deletions[d] = IF owner[d] = "nobody" THEN 1 ELSE 0
===============================================================================
