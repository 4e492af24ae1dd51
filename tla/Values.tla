------------------------------- MODULE Values -------------------------------
(****************************************************************************)
(* What reading a value does to it.  SQLite keeps a value in a cell that    *)
(* can have several representations at once, and converts on demand: a      *)
(* reading function of value, statement or cell may give a number a text,   *)
(* expand a zero blob, change the encoding or append a terminator, and each *)
(* of these may move the content to another place or give up the user's     *)
(* buffer it was in.  Operators only: FunctionCall has the cells.           *)
(*                                                                          *)
(* Of a cell the model keeps which representations are valid, the encoding  *)
(* of its text, whose buffer the content is in, and two counters: "place"   *)
(* goes up when the content moves, "length" when its size in bytes changes. *)
(* Memory does not run out in a conversion, and no value is empty.          *)
(****************************************************************************)
EXTENDS Naturals

CONSTANTS Data,   \* user data with a deleter that can back a value
          None    \* no datum

Flags     == {"null", "number", "text", "blob", "zero", "term"}
Encodings == {"utf8", "utf16"}
Counters  == 0..6

Cells == [flags : SUBSET Flags, encoding : Encodings, backing : Data \cup {None},
          place : Counters, length : Counters]

Cell(flags, encoding, backing) ==
  [flags |-> flags, encoding |-> encoding, backing |-> backing, place |-> 0, length |-> 0]

(* sqlite3VdbeMemGrow: the content is copied elsewhere and the buffer it was *)
(* in is given up.                                                           *)
Moved(cell) == [cell EXCEPT !.place = @ + 1, !.backing = None]

(* sqlite3VdbeMemExpandBlob. *)
Expanded(cell) ==
  IF "zero" \in cell.flags THEN Moved([cell EXCEPT !.flags = @ \ {"zero", "term"}])
  ELSE cell

(* sqlite3VdbeChangeEncoding, which only converts what is a text. *)
InEncoding(cell, encoding) ==
  IF cell.encoding = encoding \/ "text" \notin cell.flags
  THEN [cell EXCEPT !.encoding = encoding]
  ELSE Moved([cell EXCEPT !.flags = @ \cup {"term"}, !.encoding = encoding,
                          !.length = @ + 1])

\* A mutant: the terminator is not remembered.
TerminatorForgotten(cell) == IF "term" \in cell.flags THEN cell ELSE Moved(cell)

(* sqlite3VdbeMemNulTerminate. *)
Terminated(cell) ==
  IF "term" \in cell.flags THEN cell
  ELSE Moved([cell EXCEPT !.flags = @ \cup {"term"}])

(* sqlite3VdbeMemStringify: a number gets a text and stays a number. *)
Stringified(cell) ==
  Moved([cell EXCEPT !.flags = @ \cup {"text", "term"}, !.encoding = "utf8",
                     !.length = @ + 1])

(****************************************************************************)
(* The cell after sqlite3_value_text, sqlite3_value_bytes and               *)
(* sqlite3_value_blob.                                                      *)
(****************************************************************************)
\* A mutant: the text that a number has already got is not used.
NumbersAgain(cell) ==
  IF "number" \in cell.flags THEN Stringified(cell)
  ELSE IF "null" \in cell.flags THEN cell
  ELSE Terminated(InEncoding([Expanded(cell) EXCEPT !.flags = @ \cup {"text"}], "utf8"))

AfterText(cell) ==
  IF {"text", "term"} \subseteq cell.flags /\ cell.encoding = "utf8" THEN cell
  ELSE IF "null" \in cell.flags THEN cell
  ELSE IF {"text", "blob"} \cap cell.flags # {}
  THEN Terminated(InEncoding([Expanded(cell) EXCEPT !.flags = @ \cup {"text"}], "utf8"))
  ELSE Stringified(cell)

AfterBytes(cell) ==
  IF \/ "text" \in cell.flags /\ cell.encoding = "utf8"
     \/ {"blob", "null"} \cap cell.flags # {}
  THEN cell ELSE AfterText(cell)

AfterBlob(cell) ==
  IF {"text", "blob"} \cap cell.flags # {}
  THEN [Expanded(cell) EXCEPT !.flags = @ \cup {"blob"}]
  ELSE AfterText(cell)

(****************************************************************************)
(* A view is made of the pointer of one call and the size of the next one.  *)
(* ViewOf(first, second): the cell after each of them.                      *)
(****************************************************************************)
ViewOf(kind, first, second) == [kind |-> kind, place |-> first.place, length |-> second.length]

\* A mutant: the size is fetched first.
SizeFirst(kind, cell) ==
  LET first == AfterBytes(cell)
      second == IF kind = "string_view" THEN AfterText(first) ELSE AfterBlob(first)
  IN [cell |-> second, view |-> ViewOf(kind, second, first)]

(* value::get and statement::column_value of a string_view or a blob_view. *)
Get(kind, cell) ==
  LET first  == IF kind = "string_view" THEN AfterText(cell) ELSE AfterBlob(cell)
      second == AfterBytes(first)
  IN [cell |-> second, view |-> ViewOf(kind, first, second)]

(* sqlite3_value_numeric_type: a text that looks like a number becomes one. *)
AfterNumericType(cell) ==
  IF "text" \in cell.flags /\ "number" \notin cell.flags
  THEN {cell, [cell EXCEPT !.flags = (@ \ {"text"}) \cup {"number"}]}
  ELSE {cell}

(* value::dup and context::result of a value: a copy in memory of its own. *)
Duplicate(cell) ==
  LET copy == [cell EXCEPT !.backing = None, !.place = 0, !.length = 0]
  IN IF "zero" \in cell.flags THEN [copy EXCEPT !.flags = @ \ {"zero", "term"}]
     ELSE IF {"text", "blob"} \cap cell.flags # {}
     THEN [copy EXCEPT !.flags = @ \cup {"term"}]
     ELSE copy
===============================================================================
