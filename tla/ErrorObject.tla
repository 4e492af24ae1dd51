----------------------------- MODULE ErrorObject -----------------------------
(****************************************************************************)
(* Objects of class error, alone or inside an exception, after they have    *)
(* been constructed: they are copied, moved, assigned and swapped on their  *)
(* way to a handler, and give their message away.  A message is a pointer   *)
(* with an optional deleter: to a text that lives for ever, such as what    *)
(* sqlite3_errstr returns, or to a block that sqlite3_free must release.    *)
(*                                                                          *)
(* A failure stands for one failed call, its code, its errno, its offset    *)
(* and its text; a field of an object is the failure it was taken from.     *)
(* _system_error_code and _offset are always treated alike: "details".      *)
(****************************************************************************)
EXTENDS Naturals, FiniteSets

CONSTANTS Errors,     \* variables of type error, or exceptions holding one
          Pointers,   \* variables of type message_ptr
          Failures,   \* failed calls
          Blocks,     \* blocks of memory
          None        \* no failure

ASSUME ErrorObjectAssumption == None \notin Failures

VARIABLES error,    \* each error object
          pointer,  \* each message_ptr outside of the error objects
          heap      \* the text in each block; None when it is not allocated

vars == <<error, pointer, heap>>

(****************************************************************************)
(* message_ptr: where it points and whether it has a deleter.               *)
(****************************************************************************)
Null      == [kind |-> "null",  at |-> None]
Static(f) == [kind |-> "text",  at |-> f]
Heap(b)   == [kind |-> "block", at |-> b]

Places   == {Null} \cup {Static(f) : f \in Failures} \cup {Heap(b) : b \in Blocks}
Messages == [to : Places, deleter : BOOLEAN]

NoMessage == [to |-> Null, deleter |-> FALSE]

(* A unique_ptr that was moved from is null and keeps its deleter. *)
MovedFrom(m) == [m EXCEPT !.to = Null]

NoError == [alive |-> FALSE, code |-> None, details |-> None, message |-> NoMessage]

Objects == [alive : {TRUE}, code : Failures, details : Failures \cup {None},
            message : Messages]

TypeOK ==
  /\ error \in [Errors -> Objects \cup {NoError}]
  /\ pointer \in [Pointers -> Messages]
  /\ heap \in [Blocks -> Failures \cup {None}]

Init ==
  /\ error = [x \in Errors |-> NoError]
  /\ pointer = [p \in Pointers |-> NoMessage]
  /\ heap = [b \in Blocks |-> None]

(****************************************************************************)
(* Memory.  free_message calls the deleter, if there is one; unique_ptr     *)
(* does so only for a pointer that is not null.                             *)
(****************************************************************************)
Text(m) == CASE m.to.kind = "null"  -> None
             [] m.to.kind = "text"  -> m.to.at
             [] m.to.kind = "block" -> heap[m.to.at]

Freed(m) == IF m.deleter THEN {b \in Blocks : m.to = Heap(b)} ELSE {}

After(h, freed) == [b \in Blocks |-> IF b \in freed THEN None ELSE h[b]]

Unused == {b \in Blocks : heap[b] = None}

(****************************************************************************)
(* copy_message: a new block with the same text, or a null pointer if there *)
(* is no memory or no text.  Each result is [message, heap].                *)
(****************************************************************************)
copy_message(text) ==
  {[message |-> NoMessage, heap |-> heap]} \cup
  (IF text = None THEN {}
   ELSE {[message |-> [to |-> Heap(b), deleter |-> TRUE],
          heap    |-> [heap EXCEPT ![b] = text]] : b \in Unused})

\* A mutant: the compiler's copy of the pointer and its deleter.
CopyShares(m) == {[message |-> m, heap |-> heap]}

(* The copy constructor shares a text that nobody frees. *)
CopyOf(m) ==
  IF m.deleter THEN copy_message(Text(m))
  ELSE {[message |-> [to |-> m.to, deleter |-> FALSE], heap |-> heap]}

(****************************************************************************)
(* Construction: from a code, from the last error of a connection, whose    *)
(* text is copied unless it is the static one, and from a code with the     *)
(* message that goes with it.                                               *)
(****************************************************************************)
\* A mutant: the members have no initialisers.
WithoutInitialiser(f, d, m) ==
  [alive |-> TRUE, code |-> f, details |-> IF d = None THEN Null ELSE d, message |-> m]

Object(f, d, m) == [alive |-> TRUE, code |-> f, details |-> d, message |-> m]

Vacant(x) == ~error[x].alive

FromCode(x, f) ==
  /\ Vacant(x)
  /\ error' = [error EXCEPT ![x] =
                 Object(f, None, [to |-> Static(f), deleter |-> FALSE])]
  /\ UNCHANGED <<pointer, heap>>

FromDatabase(x, f) ==
  /\ Vacant(x)
  /\ \E c \in copy_message(f) \cup
              {[message |-> [to |-> Static(f), deleter |-> FALSE], heap |-> heap]} :
       /\ error' = [error EXCEPT ![x] = Object(f, f, c.message)]
       /\ heap' = c.heap
  /\ UNCHANGED pointer

FromMessage(x, f, p) ==
  /\ Vacant(x) /\ Text(pointer[p]) \in {f, None}
  /\ error' = [error EXCEPT ![x] = Object(f, None, pointer[p])]
  /\ pointer' = [pointer EXCEPT ![p] = MovedFrom(@)]
  /\ UNCHANGED heap

(****************************************************************************)
(* Copying and moving take the code and the message along; the details of   *)
(* the new object are the default ones.  exception(const error &) and the   *)
(* copy of a thrown exception copy, exception(error &&) and error() && move.*)
(****************************************************************************)
Copy(x, y) ==
  /\ Vacant(x) /\ error[y].alive
  /\ \E c \in CopyOf(error[y].message) :
       /\ error' = [error EXCEPT ![x] = Object(error[y].code, None, c.message)]
       /\ heap' = c.heap
  /\ UNCHANGED pointer

Move(x, y) ==
  /\ Vacant(x) /\ error[y].alive
  /\ error' = [error EXCEPT ![x] = Object(error[y].code, None, error[y].message),
                            ![y].message = MovedFrom(@)]
  /\ UNCHANGED <<pointer, heap>>

\* A mutant: the message is forgotten, too.
SwapCodesOnly(a, b) == [a EXCEPT !.code = b.code]

(* swap exchanges the code and the message; the details stay. *)
Swapped(a, b) == [a EXCEPT !.code = b.code, !.message = b.message]

swap(x, y) ==
  /\ error[x].alive /\ error[y].alive
  /\ error' = [error EXCEPT ![x] = Swapped(@, error[y]), ![y] = Swapped(@, error[x])]
  /\ UNCHANGED <<pointer, heap>>

(****************************************************************************)
(* operator= takes its argument by value, as a copy or moved into it, swaps *)
(* with it, and destroys it, which now has the old message.                 *)
(****************************************************************************)
AssignCopy(x, y) ==
  /\ error[x].alive /\ error[y].alive
  /\ \E c \in CopyOf(error[y].message) :
       LET src == Object(error[y].code, None, c.message) IN
       /\ error' = [error EXCEPT ![x] = Swapped(@, src)]
       /\ heap' = After(c.heap, Freed(Swapped(src, error[x]).message))
  /\ UNCHANGED pointer

AssignMove(x, y) ==
  /\ error[x].alive /\ error[y].alive
  /\ LET src  == Object(error[y].code, None, error[y].message)
         left == [error EXCEPT ![y].message = MovedFrom(@)]
     IN /\ error' = [left EXCEPT ![x] = Swapped(@, src)]
        /\ heap' = After(heap, Freed(Swapped(src, left[x]).message))
  /\ UNCHANGED pointer

(****************************************************************************)
(* extract_message into a message_ptr, which drops what it had; a           *)
(* message_ptr made of a literal; the destructors.                          *)
(****************************************************************************)
extract_message(x, p) ==
  /\ error[x].alive
  /\ error' = [error EXCEPT ![x].message = MovedFrom(@)]
  /\ pointer' = [pointer EXCEPT ![p] = error[x].message]
  /\ heap' = After(heap, Freed(pointer[p]))

Literal(p, f) ==
  /\ pointer' = [pointer EXCEPT ![p] = [to |-> Static(f), deleter |-> FALSE]]
  /\ heap' = After(heap, Freed(pointer[p]))
  /\ UNCHANGED error

Destroy(x) ==
  /\ error[x].alive
  /\ error' = [error EXCEPT ![x] = NoError]
  /\ heap' = After(heap, Freed(error[x].message))
  /\ UNCHANGED pointer

Next ==
  \/ \E x \in Errors, f \in Failures :
       \/ FromCode(x, f)
       \/ FromDatabase(x, f)
       \/ \E p \in Pointers : FromMessage(x, f, p)
  \/ \E x, y \in Errors : \/ Copy(x, y) \/ Move(x, y) \/ swap(x, y)
                          \/ AssignCopy(x, y) \/ AssignMove(x, y)
  \/ \E x \in Errors, p \in Pointers : extract_message(x, p)
  \/ \E p \in Pointers, f \in Failures : Literal(p, f)
  \/ \E x \in Errors : Destroy(x)

Spec == Init /\ [][Next]_vars

-----------------------------------------------------------------------------
(****************************************************************************)
(* Properties                                                               *)
(****************************************************************************)
InErrors(b)   == {x \in Errors : error[x].message.to = Heap(b)}
InPointers(b) == {p \in Pointers : pointer[p].to = Heap(b)}

(* Every block that holds a message belongs to exactly one message_ptr, one *)
(* whose deleter will free it, and nobody points to a block that is gone or *)
(* would free a static text: no chain of copies, moves, assignments, swaps  *)
(* and extractions frees a text twice, leaks it or leaves message() or      *)
(* what() with a dangling pointer.                                          *)
MessageOwnership ==
  /\ \A b \in Blocks : Cardinality(InErrors(b)) + Cardinality(InPointers(b))
                         = IF heap[b] = None THEN 0 ELSE 1
  /\ \A m \in {error[x].message : x \in Errors} \cup {pointer[p] : p \in Pointers} :
       /\ m.to.kind = "block" => m.deleter
       /\ m.to.kind = "text" => ~m.deleter

(* what() and the codes of an object speak of the same failure, through any *)
(* chain of copies, moves, assignments and swaps.                           *)
CodeAndMessageAgree ==
  \A x \in Errors : error[x].alive => Text(error[x].message) \in {error[x].code, None}
===============================================================================
