----------------------------- MODULE AtomicCopy -----------------------------
(***************************************************************************)
(* What a backup promises: at some instant, chosen by nobody, the copy     *)
(* becomes what the source is at that instant, all of it or nothing; and   *)
(* a backup that has failed never touches the copy.                        *)
(***************************************************************************)
CONSTANTS Contents

VARIABLES source, copy, result

Init ==
    /\ source \in Contents
    /\ copy \in Contents
    /\ result = "idle"

Start == result = "idle" /\ result' = "running" /\ UNCHANGED <<source, copy>>

Change == source' \in Contents /\ UNCHANGED <<copy, result>>

Copy ==
    /\ result = "running" /\ result' = "done"
    /\ copy' = source
    /\ UNCHANGED source

Fail == result = "running" /\ result' = "failed" /\ UNCHANGED <<source, copy>>

End == result # "idle" /\ result' = "idle" /\ UNCHANGED <<source, copy>>

Next == Start \/ Change \/ Copy \/ Fail \/ End

Spec == Init /\ [][Next]_<<source, copy, result>>

=============================================================================
