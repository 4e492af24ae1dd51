------------------------------ MODULE IndexPlan ------------------------------
(****************************************************************************)
(* How a query of a virtual table gets its rows.  While the statement is    *)
(* compiled SQLite calls best_index once or more, each time with another    *)
(* part of the WHERE clause usable; each answer says which constraints the  *)
(* table takes over, in which order it wants their values, and leaves index *)
(* data for filter.  SQLite keeps the answers that are worth it, compiles   *)
(* one of them, and runs it: filter, eof, column, next of the cursor.       *)
(*                                                                          *)
(* The derived class is one that does what it says: its index data lists    *)
(* the constraints it has taken over, and filter applies each of them to    *)
(* the argument in its place (as samples/vtab/map-table.cpp does).          *)
(****************************************************************************)
EXTENDS Integers, Sequences, FiniteSets, SequencesExt

CONSTANTS Rows,         \* rowids of the table
          Constraints,  \* of the WHERE clause on this table
          Data,         \* index data the class makes
          None

ASSUME RowsAssumption     == Rows \subseteq Nat /\ IsFiniteSet(Rows)

VARIABLES where,    \* rows that satisfy each constraint, for its present value
          stage,    \* "idle", "planning", or in the callback ("best_index")
          usable,   \* constraints that are usable in this call
          info,     \* what the call has put into sqlite3_index_info
          plans,    \* answers kept: WhereLoop
          program,  \* the answer the statement is compiled for
          listed,   \* constraints each index data lists
          owned,    \* index data that was set with allocated = TRUE
          freed,    \* calls of sqlite3_free for each index data
          cursor,   \* "closed", "open", at a "row", "done" with it, at "eof"
          rest,     \* rows the cursor has not passed yet
          found     \* rows the query has returned since filter

plan == <<stage, usable, info, plans, program, listed, owned, freed>>
scan == <<where, cursor, rest, found>>
queryVars == <<plan, scan>>

-----------------------------------------------------------------------------
(* index_info *)

(* The constraints with an argvIndex, in its order; those with omit; the    *)
(* data and whether SQLite is to free it.                                   *)
Answers == [args : SetToAllKPermutations(Constraints), omit : SUBSET Constraints,
            idxStr : Data \cup {None}, needToFree : BOOLEAN]

ASSUME IndexNoneAssumption ==
  None \notin Data \cup Answers \cup SetToAllKPermutations(Constraints)

(* Before filter no constraint has been compared with anything. *)
NoValues == [c \in Constraints |-> {}]

NoAnswer == [args |-> <<>>, omit |-> {}, idxStr |-> None, needToFree |-> FALSE]

QueryTypeOK ==
  /\ where \in [Constraints -> SUBSET Rows]
  /\ stage \in {"idle", "planning", "best_index"}
  /\ usable \subseteq Constraints
  /\ info \in Answers
  /\ plans \subseteq Answers
  /\ program \in Answers \cup {None}
  /\ listed \in [Data -> SetToAllKPermutations(Constraints) \cup {None}]
  /\ owned \subseteq Data
  /\ freed \in [Data -> 0..1]
  /\ cursor \in {"closed", "open", "row", "done", "eof"}
  /\ rest \subseteq Rows
  /\ found \subseteq Rows

QueryInit ==
  /\ where = NoValues
  /\ stage = "idle"
  /\ usable = {}
  /\ info = NoAnswer
  /\ plans = {}
  /\ program = None
  /\ listed = [d \in Data |-> None]
  /\ owned = {}
  /\ freed = [d \in Data |-> 0]
  /\ cursor = "closed"
  /\ rest = {}
  /\ found = {}

-----------------------------------------------------------------------------
(* Planning *)

(* These answers go, and with them the data that is to be freed, which      *)
(* lists nothing any more.                                                  *)
Free(answers) ==
  LET gone == {a.idxStr : a \in {b \in answers : b.needToFree}} IN
    /\ freed' = [d \in Data |-> IF d \in gone THEN freed[d] + 1 ELSE freed[d]]
    /\ listed' = [d \in Data |-> IF d \in gone THEN <<>> ELSE listed[d]]
    /\ UNCHANGED owned

(* A statement is compiled, or compiled again before its first step. *)
Prepare ==
  /\ stage = "idle" /\ cursor = "closed"
  /\ stage' = "planning"
  /\ UNCHANGED <<usable, info, plans, program, listed, owned, freed, scan>>

(* The next call of best_index, with the output fields cleared. *)
CallBestIndex ==
  /\ stage = "planning"
  /\ stage' = "best_index"
  /\ usable' \in SUBSET Constraints
  /\ info' = NoAnswer
  /\ UNCHANGED <<plans, program, listed, owned, freed, scan>>

\* A mutant: the flag is not set.
NotAllocated(d, allocated) == [info EXCEPT !.idxStr = d]

(* set_index_data with allocated = TRUE or a unique_ptr, or with FALSE:     *)
(* data that the class keeps itself.  What was set before is not freed.     *)
set_index_data(d, allocated) == [info EXCEPT !.idxStr = d, !.needToFree = allocated]

SetIndexData(d, allocated, order) ==
  /\ stage = "best_index"
  /\ listed[d] = None
  /\ listed' = [listed EXCEPT ![d] = order]
  /\ owned' = IF allocated THEN owned \cup {d} ELSE owned
  /\ info' = set_index_data(d, allocated)
  /\ UNCHANGED <<stage, usable, plans, program, freed, scan>>

(* What a reader of the data finds. *)
Contents(d) == IF d = None THEN <<>> ELSE listed[d]

\* A mutant: the answer of the class is not looked at.
AlwaysOK(res) == "SQLITE_OK"

best_index_impl(res) == IF res THEN "SQLITE_OK" ELSE "SQLITE_CONSTRAINT"

(* An answer worth keeping replaces any that it beats; which it is depends  *)
(* on the costs, the order and the flags best_index has set, and on SQLite. *)
Kept(new) == {plans} \cup {(plans \ beaten) \cup {new} : beaten \in SUBSET plans}

\* A mutant: the data of an answer that is kept is freed as well.
KeptOrNot(new, kept) == plans \cup {new}

(* The answers SQLite does not keep. *)
Dropped(new, kept) == (plans \cup {new}) \ kept

(* best_index returns.  With true, the class stands by what it has set; if  *)
(* it returns false what it has set means nothing.  SQLite may check a      *)
(* constraint in spite of omit.                                             *)
Return(args, res) ==
  /\ stage = "best_index"
  /\ res => args = Contents(info.idxStr)
  /\ IF best_index_impl(res) = "SQLITE_OK"
     THEN \E omit \in SUBSET ToSet(args) :
            LET new == [info EXCEPT !.args = args, !.omit = omit] IN
              /\ plans' \in Kept(new)
              /\ Free(Dropped(new, plans'))
     ELSE Free({info}) /\ UNCHANGED plans
  /\ info' = NoAnswer
  /\ usable' = {}
  /\ stage' = "planning"
  /\ UNCHANGED <<program, scan>>

(* best_index throws, the answer makes no sense to SQLite, no answer was    *)
(* kept, or the statement cannot be compiled for another reason.            *)
PlanningFails ==
  /\ stage # "idle"
  /\ Free(plans \cup {info})
  /\ plans' = {}
  /\ info' = NoAnswer
  /\ usable' = {}
  /\ stage' = "idle"
  /\ UNCHANGED <<program, scan>>

(* One answer is compiled: its data goes to the program, the other data and *)
(* that of the program it replaces is freed.                                *)
Programs == {program} \ {None}

Compile ==
  /\ stage = "planning"
  /\ program' \in plans
  /\ Free((plans \ {program'}) \cup Programs)
  /\ plans' = {}
  /\ stage' = "idle"
  /\ UNCHANGED <<usable, info, scan>>

-----------------------------------------------------------------------------
(* Running *)

(* open_impl *)
Open ==
  /\ stage = "idle" /\ program # None
  /\ cursor = "closed"
  /\ cursor' = "open"
  /\ UNCHANGED <<plan, where, rest, found>>

(* eof of a cursor with these rows left. *)
eof(left) == left = {}

(* The rows a cursor goes through: those for which each constraint listed   *)
(* in the data holds, compared with the argument in the same place.         *)
Selected(data, argv, values) ==
  {r \in Rows : \A k \in DOMAIN data :
     k \in DOMAIN argv /\ argv[k] = data[k] /\ r \in values[data[k]]}

At(left) == IF eof(left) THEN "eof" ELSE "row"

(* The data filter_impl passes to filter, as filter reads it. *)
filter_impl(idxStr) == Contents(idxStr)

(* Each filter may come with other values to compare with, those of the     *)
(* next row of another table or of the next element of an IN.               *)
Filter ==
  /\ stage = "idle" /\ cursor # "closed"
  /\ where' \in [Constraints -> SUBSET Rows]
  /\ rest' = Selected(filter_impl(program.idxStr), program.args, where')
  /\ cursor' = At(rest')
  /\ found' = {}
  /\ UNCHANGED plan

(* The row the cursor is at. *)
Current == Min(rest)

(* column, rowid: SQLite checks what it has not left to the table.          *)
Column ==
  /\ stage = "idle" /\ cursor = "row"
  /\ found' = IF \A c \in Constraints \ program.omit : Current \in where[c]
              THEN found \cup {Current} ELSE found
  /\ cursor' = "done"
  /\ UNCHANGED <<plan, where, rest>>

NextRow ==
  /\ stage = "idle" /\ cursor = "done"
  /\ rest' = rest \ {Current}
  /\ cursor' = At(rest')
  /\ UNCHANGED <<plan, where, found>>

(* The statement is reset, or one of the methods has thrown. *)
Closed == cursor' = "closed" /\ where' = NoValues /\ rest' = {} /\ found' = {}

CloseCursor ==
  /\ cursor # "closed"
  /\ Closed
  /\ UNCHANGED plan

(* ~statement *)
Finalize ==
  /\ stage = "idle" /\ program # None
  /\ Closed
  /\ Free(Programs)
  /\ program' = None
  /\ UNCHANGED <<stage, usable, info, plans>>

Orders == SetToAllKPermutations(usable)

QueryNext ==
  \/ Prepare
  \/ CallBestIndex
  \/ \E d \in Data, allocated \in BOOLEAN, order \in Orders : SetIndexData(d, allocated, order)
  \/ \E args \in Orders, res \in BOOLEAN : Return(args, res)
  \/ PlanningFails
  \/ Compile
  \/ Open
  \/ Filter
  \/ Column
  \/ NextRow
  \/ CloseCursor
  \/ Finalize

QuerySpec == QueryInit /\ [][QueryNext]_queryVars

-----------------------------------------------------------------------------
(****************************************************************************)
(* Properties                                                               *)
(****************************************************************************)
(* A scan that has come to its end has returned the rows that satisfy all   *)
(* constraints, each of them checked by the table or by SQLite: the data    *)
(* filter gets is that of the answer SQLite has compiled, whatever other    *)
(* calls of best_index came before and after, and is still there.           *)
RightRows ==
  cursor = "eof" => found = {r \in Rows : \A c \in Constraints : r \in where[c]}

(* An answer that may still be used has this data. *)
Referenced(d) == \E a \in plans \cup Programs \cup {info} : a.idxStr = d

(* No data is freed while an answer refers to it, none that the class keeps *)
(* itself is ever freed, and all other data is freed when the last answer   *)
(* lets go of it, unless a second set_index_data of the same call has put   *)
(* other data in its place.                                                 *)
DataLifetimes ==
  /\ [](\A d \in Data : Referenced(d) \/ d \notin owned => freed[d] = 0)
  /\ [][\A d \in owned : Referenced(d) =>
           \/ Referenced(d)'
           \/ freed'[d] = 1
           \/ stage = "best_index" /\ info.idxStr = d /\ info'.idxStr \notin {d, None}]_queryVars
=============================================================================
