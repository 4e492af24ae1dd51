---------------------------- MODULE FunctionCall ----------------------------
(****************************************************************************)
(* A statement that calls an SQL function for each of its rows.  The        *)
(* callback gets a context and a value, the argument: it reads the value,   *)
(* copies it, attaches auxiliary data to its arguments, and sets a result,  *)
(* by copy, by reference with a function that lets go of it, or by pointer. *)
(* The result is a column of the row, which the program reads.              *)
(*                                                                          *)
(* A datum is an object with its deleter, as in Ownership.  It is handed    *)
(* over as auxiliary data or as a result, and given up by SQLite when it is *)
(* replaced, when a conversion moves the content of the column elsewhere,   *)
(* or at the end of the call or of the statement.  Sizes above INT_MAX end  *)
(* the program and are left out.                                            *)
(****************************************************************************)
EXTENDS Values, FiniteSets

CONSTANT Views    \* variables of type string_view or blob_view

ASSUME FunctionCallAssumption == None \notin Data

(* The second argument is the same in all rows: SQLite knows it is constant. *)
AuxArgs == {"varying", "constant"}

Sources == {"argument", "column", "copy"}

VARIABLES phase,      \* "idle", in the callback ("call"), or at a "row"
          database,   \* encoding of the database
          cell,       \* the argument, the result, and a copy made with dup
          view,       \* each view: whose content it shows and where that was
          aux,        \* auxiliary data of each argument of the function
          isError,    \* sqlite3_context.isError: 0, -1 ("auxdata") or a code
          given,      \* data handed over so far
          destroyed   \* how often the deleter of each datum has run

vars == <<phase, database, cell, view, aux, isError, given, destroyed>>
data == <<given, destroyed>>

NullCell == Cell({"null"}, "utf8", None)
NoView   == [kind |-> "none", place |-> 0, length |-> 0, source |-> "none"]

TypeOK ==
  /\ phase \in {"idle", "call", "row"}
  /\ database \in Encodings
  /\ cell \in [Sources -> Cells]
  /\ view \in [Views -> {NoView} \cup [kind : {"string_view", "blob_view"}, place : Counters,
                                       length : Counters, source : Sources]]
  /\ aux \in [AuxArgs -> Data \cup {None}]
  /\ isError \in {"none", "auxdata", "failed"}
  /\ given \subseteq Data
  /\ destroyed \in [Data -> Nat]

Init ==
  /\ phase = "idle"
  /\ database \in Encodings
  /\ cell = [s \in Sources |-> NullCell]
  /\ view = [v \in Views |-> NoView]
  /\ aux = [a \in AuxArgs |-> None]
  /\ isError = "none"
  /\ given = {}
  /\ destroyed = [d \in Data |-> 0]

(****************************************************************************)
(* The deleters of the data in "dropped" run; None stands for no datum.     *)
(****************************************************************************)
Fresh == Data \ given

Destroy(dropped) ==
  destroyed' = [d \in Data |-> IF d \in dropped THEN destroyed[d] + 1 ELSE destroyed[d]]

(* Views of these sources are not used any more: their values end. *)
Forget(sources) ==
  view' = [v \in Views |-> IF view[v].source \in sources THEN NoView ELSE view[v]]

(****************************************************************************)
(* The next row: SQLite evaluates the argument and calls the callback.      *)
(* OP_Function marks the register of the result as null, and leaves in it   *)
(* what has to be released.                                                 *)
(****************************************************************************)
ZeroBlob == Cell({"blob", "zero"}, database, None)

Arguments == {Cell({"null"}, database, None), Cell({"number"}, database, None),
              Cell({"text"}, database, None), Cell({"text", "term"}, database, None),
              Cell({"blob"}, database, None), ZeroBlob}

Call ==
  /\ phase \in {"idle", "row"}
  /\ \E a \in Arguments :
       cell' = [cell EXCEPT !["argument"] = a, !["column"].flags = {"null"}]
  /\ phase' = "call"
  /\ Forget({"column"})
  /\ UNCHANGED <<database, aux, isError, data>>

(****************************************************************************)
(* Halt, when the last row was reached, the statement is reset or finalized,*)
(* or the function failed: all auxiliary data and all registers go.         *)
(****************************************************************************)
HaltDrops == {aux[a] : a \in AuxArgs} \cup {cell["column"].backing}

Halt ==
  /\ cell' = [cell EXCEPT !["argument"] = NullCell, !["column"] = NullCell]
  /\ aux' = [a \in AuxArgs |-> None]
  /\ isError' = "none"
  /\ phase' = "idle"
  /\ Forget({"argument", "column"})
  /\ Destroy(HaltDrops)
  /\ UNCHANGED <<database, given>>

EndStatement == phase = "row" /\ Halt

\* Mutants: auxiliary data is kept as long as the statement; an entry stays
\* in the list after its datum was deleted.
KeptForStatement == {}
StillLinked(gone) == aux

(* The auxiliary data that goes at the end of a call that has set some: the *)
(* argument need not be the same next time.                                 *)
Volatile == {"varying"}

Unlinked(gone) == [a \in AuxArgs |-> IF a \in gone THEN None ELSE aux[a]]

Return ==
  /\ phase = "call" /\ isError # "failed"
  /\ LET gone == IF isError = "none" THEN {} ELSE Volatile IN
       /\ aux' = Unlinked(gone)
       /\ Destroy({aux[a] : a \in gone})
  /\ cell' = [cell EXCEPT !["argument"] = NullCell]
  /\ isError' = "none"
  /\ phase' = "row"
  /\ Forget({"argument"})
  /\ UNCHANGED <<database, given>>

ReturnFailed == phase = "call" /\ isError = "failed" /\ Halt

(****************************************************************************)
(* Reading: value::get in the callback, or of a copy at any time;           *)
(* statement::column_value, cell::value and raw_column_value at a row.  The *)
(* program may keep the view it gets.                                       *)
(****************************************************************************)
Readable(source) ==
  CASE source = "argument" -> phase = "call"
    [] source = "column"   -> phase = "row"
    [] source = "copy"     -> cell["copy"] # NullCell

Read(source, kind, keep) ==
  /\ Readable(source)
  /\ "null" \notin cell[source].flags
  /\ LET got == Get(kind, cell[source]) IN
       /\ cell' = [cell EXCEPT ![source] = got.cell]
       /\ view' = [v \in Views |->
                     IF v \in keep THEN [source |-> source, kind |-> got.view.kind,
                                         place |-> got.view.place, length |-> got.view.length]
                     ELSE view[v]]
       /\ Destroy({cell[source].backing} \ {got.cell.backing})
  /\ UNCHANGED <<phase, database, aux, isError, given>>

(* value::numeric_type; SQLite uses the connection of the value, which a    *)
(* copy does not have.                                                      *)
NumericType(source) ==
  /\ Readable(source) /\ source # "copy"
  /\ \E c \in AfterNumericType(cell[source]) : cell' = [cell EXCEPT ![source] = c]
  /\ UNCHANGED <<phase, database, view, aux, isError, data>>

(* value::dup of the argument or of raw_column_value; ~value. *)
Dup(source) ==
  /\ Readable(source) /\ source # "copy" /\ cell["copy"] = NullCell
  /\ "null" \notin cell[source].flags
  /\ cell' = [cell EXCEPT !["copy"] = Duplicate(cell[source])]
  /\ UNCHANGED <<phase, database, view, aux, isError, data>>

FreeCopy ==
  /\ cell["copy"] # NullCell
  /\ cell' = [cell EXCEPT !["copy"] = NullCell]
  /\ Forget({"copy"})
  /\ UNCHANGED <<phase, database, aux, isError, data>>

(****************************************************************************)
(* context::set_auxdata.  What was there before is deleted.  Without memory *)
(* for a new entry the new datum is deleted.  A new entry marks the call,   *)
(* unless the function has failed.                                          *)
(****************************************************************************)
SetAuxdata(a, d) ==
  /\ phase = "call" /\ d \in Fresh
  /\ \/ /\ aux' = [aux EXCEPT ![a] = d]
        /\ isError' = IF aux[a] = None /\ isError = "none" THEN "auxdata" ELSE isError
        /\ Destroy({aux[a]})
     \/ /\ aux[a] = None
        /\ Destroy({d})
        /\ UNCHANGED <<aux, isError>>
  /\ given' = given \cup {d}
  /\ UNCHANGED <<phase, database, cell, view>>

(****************************************************************************)
(* Results.  Each releases what the register of the result held before.     *)
(****************************************************************************)
Result(new, dropped, error) ==
  /\ phase = "call"
  /\ cell' = [cell EXCEPT !["column"] = new]
  /\ isError' = error
  /\ Destroy({cell["column"].backing} \cup dropped)
  /\ UNCHANGED <<phase, database, view, aux>>

Text(backing) == InEncoding(Cell({"text"}, "utf8", backing), database)
Blob(backing) == Cell({"blob"}, database, backing)
Failure       == Cell({"text", "term"}, "utf8", None)

(* context::result of a number or nullptr, a text, a blob, a zero blob, and *)
(* result_reference without a deleter.                                      *)
ResultCopied ==
  /\ \E new \in {NullCell, Cell({"number"}, database, None), Text(None), Blob(None),
                 ZeroBlob} : Result(new, {}, isError)
  /\ UNCHANGED given

ResultValue ==
  /\ Result(InEncoding(Duplicate(cell["argument"]), database), {}, isError)
  /\ UNCHANGED given

(* Too long a text or blob, or no memory for a copy of it, and               *)
(* context::error, error_nomem and error_toobig: the function fails.         *)
ResultError ==
  /\ \E new \in {Failure, NullCell} : Result(new, {}, "failed")
  /\ UNCHANGED given

(* context::error with a code leaves a result that is there as the message. *)
(* SQLITE_OK takes an earlier error back.                                    *)
ResultErrorCode ==
  /\ phase = "call"
  /\ isError' \in {"failed", "auxdata"}
  /\ cell' = IF "null" \in cell["column"].flags
             THEN [cell EXCEPT !["column"] = InEncoding(Failure, database)] ELSE cell
  /\ Destroy(IF "null" \in cell["column"].flags THEN {cell["column"].backing} ELSE {})
  /\ UNCHANGED <<phase, database, view, aux, given>>

\* A mutant: the wrapper does not call unref when there is nothing to keep.
UnrefForgotten(d) == {}

(* result_reference of a view without data lets go of it itself. *)
UnrefOnNull(d) == {d}

(* context::result_reference with unref: nothing to refer to; a text or a   *)
(* blob within the limits, given up at once if the text has to be converted;*)
(* more than SQLITE_LIMIT_LENGTH, which SQLite gives up.                    *)
ResultReference(d) ==
  /\ d \in Fresh
  /\ \/ \E new \in {Text(None), ZeroBlob} : Result(new, UnrefOnNull(d), isError)
     \/ \E new \in {Text(d), Blob(d)} : Result(new, {d} \ {new.backing}, isError)
     \/ Result(Failure, {d}, "failed")
  /\ given' = given \cup {d}

(* context::result of a pointer with a deleter, or of a unique_ptr. *)
ResultPointer(d) ==
  /\ d \in Fresh
  /\ Result(Cell({"null"}, database, d), {}, isError)
  /\ given' = given \cup {d}

Callback ==
  \/ \E a \in AuxArgs, d \in Data : SetAuxdata(a, d)
  \/ ResultCopied \/ ResultValue \/ ResultError \/ ResultErrorCode
  \/ \E d \in Data : ResultReference(d) \/ ResultPointer(d)

Reading ==
  \/ \E source \in Sources, kind \in {"string_view", "blob_view"},
        keep \in {{}} \cup {{v} : v \in Views} : Read(source, kind, keep)
  \/ \E source \in Sources : NumericType(source) \/ Dup(source)
  \/ FreeCopy

Next == Call \/ Return \/ ReturnFailed \/ EndStatement \/ Callback \/ Reading

Spec == Init /\ [][Next]_vars

-----------------------------------------------------------------------------
(****************************************************************************)
(* Properties                                                               *)
(****************************************************************************)
Valid(v) == view[v].kind # "none" => cell[view[v].source].place = view[v].place

(* A view that a read returns points to where the content is after the read,*)
(* and has the size of what is there: the second of the two calls of get    *)
(* and column_value never undoes the first one.                             *)
ViewFits ==
  [][\A v \in Views : view'[v] # view[v] /\ view'[v] # NoView =>
       /\ Valid(v)'
       /\ view'[v].length = cell'[view'[v].source].length]_vars

(* A string_view is good for as long as its value is: no later read of the  *)
(* value as a text, a blob or a number makes it dangle, with one exception, *)
(* a numeric_type that has turned the text into a number.  (A blob_view is  *)
(* lost when its value is read as a text.)                                  *)
StringViewsLast ==
  [][\A v \in Views :
       view[v].kind = "string_view" /\ view'[v] = view[v] /\ Valid(v) =>
         Valid(v)' \/ {"text", "blob"} \cap cell[view[v].source].flags = {}]_vars

Holds(d) == cell["column"].backing = d \/ \E a \in AuxArgs : aux[a] = d

(* No auxiliary data of an argument that may change survives its call: the  *)
(* next call must not find what belongs to another value.                   *)
AuxdataOfThisCall == phase # "call" => aux["varying"] = None

(* A datum is the library's while it is held, and nobody's once deleted. *)
owner == [d \in Data |-> IF Holds(d) THEN "library"
                         ELSE IF destroyed[d] > 0 THEN "nobody"
                         ELSE IF d \in given THEN "lost" ELSE "caller"]

Abstract == INSTANCE Ownership WITH owner <- owner, deletions <- destroyed

(* Calls of functions implement the ownership protocol: no result that is   *)
(* overwritten, refused or converted and no auxiliary datum is lost or      *)
(* deleted while it is held.                                                *)
ImplementsOwnership == Abstract!Spec
===============================================================================
