-------------------------------- MODULE Exec --------------------------------
(****************************************************************************)
(* database::exec and statement_parser::next: a script is cut into          *)
(* statements one at a time, each is stepped, each row goes to a callback   *)
(* that may stop the statement or throw.                                    *)
(*                                                                          *)
(* The script is a sequence of pieces, as SQLite's tokenizer sees them:     *)
(*   stmt   a complete statement, that yields "rows" rows and then ends, or *)
(*          throws if it "fails"                                            *)
(*   empty  a comment, or a semicolon with no statement before it           *)
(*   space  white space                                                     *)
(*   bad    text that does not compile                                      *)
(*   nul    a NUL character, which a std::string_view can contain           *)
(****************************************************************************)
EXTENDS Naturals, Sequences, FiniteSetsExt

CONSTANT Scripts        \* the scripts the program may execute

Kinds == {"stmt", "empty", "space", "bad", "nul"}

ASSUME ScriptsAssumption ==
  \A sc \in Scripts : sc \in Seq([kind: Kinds, rows: Nat, fails: BOOLEAN])

VARIABLES script,           \* the text passed to exec
          sql,              \* statement_parser::_sql: first piece not read yet
          pc,               \* where exec is
          stmt,             \* exec's local "stmt": a piece, or 0 for nullptr
          row,              \* rows of stmt stepped so far
          statement_count,  \* exec's local of that name
          calls             \* invocations of the callback so far

vars == <<script, sql, pc, stmt, row, statement_count, calls>>

Results == {"true", "false", "throw"}

(* Pieces of a script that are statements and come before piece i. *)
StatementsBefore(sc, i) == {j \in 1..(i - 1) : sc[j].kind = "stmt"}

TypeOK ==
  /\ script \in Scripts
  /\ sql \in 1..(Len(script) + 1)
  /\ pc \in {"next", "create", "step", "callback", "done", "threw"}
  /\ stmt \in 0..Len(script)
  /\ row \in Nat
  /\ statement_count \in Nat
  /\ \A n \in DOMAIN calls : calls[n].result \in Results

Init ==
  /\ script \in Scripts
  /\ sql = 1
  /\ pc = "next"
  /\ stmt = 0
  /\ row = 0
  /\ statement_count = 0
  /\ calls = << >>

-----------------------------------------------------------------------------
(* First piece from i on that is of no kind in S, or the end of the script. *)
Skip(i, S) == Min({j \in i..(Len(script) + 1) :
                     j = Len(script) + 1 \/ script[j].kind \notin S})

(****************************************************************************)
(* The piece where sqlite3_prepare_v3 finds a statement, an error or the    *)
(* end of the text.  A NUL ends the text, and nothing moves past it.        *)
(****************************************************************************)
Found == Skip(sql, {"space", "empty"})
AtEnd(i) == IF i = Len(script) + 1 THEN TRUE ELSE script[i].kind = "nul"

(* next: the text is used up, so the loop of exec ends. *)
NoMoreText ==
  /\ pc = "next"
  /\ sql = Len(script) + 1
  /\ pc' = "done"
  /\ stmt' = 0
  /\ UNCHANGED <<script, sql, row, statement_count, calls>>

(* next has text left and calls statement::create on it. *)
TextLeft ==
  /\ pc = "next"
  /\ sql <= Len(script)
  /\ pc' = "create"
  /\ UNCHANGED <<script, sql, stmt, row, statement_count, calls>>

(* A mutant of NoStatement: the text is not consumed. *)
NothingConsumed ==
  /\ pc = "create"
  /\ AtEnd(Found)
  /\ pc' = "next"
  /\ UNCHANGED <<script, sql, stmt, row, statement_count, calls>>

(* statement::create found no statement: next goes round its loop. *)
NoStatement ==
  /\ pc = "create"
  /\ AtEnd(Found)
  /\ sql' = Found
  /\ pc' = "next"
  /\ UNCHANGED <<script, stmt, row, statement_count, calls>>

(* statement::create throws before it moves on in the text. *)
CompileError ==
  /\ pc = "create"
  /\ ~AtEnd(Found)
  /\ script[Found].kind = "bad"
  /\ pc' = "threw"
  /\ stmt' = 0
  /\ UNCHANGED <<script, sql, row, statement_count, calls>>

(* Mutants of AfterStatement: one piece too many, or none, is consumed. *)
TrimOneMore(i) == Skip(i + 1, {"space"}) + 1
TextNotAdvanced(i) == i

(* next trims the white space behind a statement. *)
AfterStatement(i) == Skip(i + 1, {"space"})

(* A mutant of CountNext: the count goes up before the first statement. *)
CountFromOne == statement_count + 1

(* The for loop counts the statements it has left behind. *)
CountNext == IF stmt = 0 THEN statement_count ELSE statement_count + 1

(* next returns a statement; the previous one is finalized after that. *)
NextStatement ==
  /\ pc = "create"
  /\ ~AtEnd(Found)
  /\ script[Found].kind = "stmt"
  /\ sql' = AfterStatement(Found)
  /\ stmt' = Found
  /\ row' = 0
  /\ statement_count' = CountNext
  /\ pc' = "step"
  /\ UNCHANGED <<script, calls>>

(* step returns true. *)
StepRow ==
  /\ pc = "step"
  /\ row < script[stmt].rows
  /\ row' = row + 1
  /\ pc' = "callback"
  /\ UNCHANGED <<script, sql, stmt, statement_count, calls>>

(* step returns false, or throws, and the statement is finalized. *)
StepDone ==
  /\ pc = "step"
  /\ row = script[stmt].rows
  /\ ~script[stmt].fails
  /\ pc' = "next"
  /\ UNCHANGED <<script, sql, stmt, row, statement_count, calls>>

StepThrows ==
  /\ pc = "step"
  /\ row = script[stmt].rows
  /\ script[stmt].fails
  /\ pc' = "threw"
  /\ stmt' = 0
  /\ UNCHANGED <<script, sql, row, statement_count, calls>>

(* Mutants of AfterCallback: one row only; an exception that is swallowed. *)
OneRowEach == [true |-> "next", false |-> "next", throw |-> "threw"]
Swallowed  == [true |-> "step", false |-> "next", throw |-> "next"]

(* Where exec goes on when the callback returned, by what it returned. *)
AfterCallback == [true |-> "step", false |-> "next", throw |-> "threw"]

Callback(result) ==
  /\ pc = "callback"
  /\ calls' = Append(calls, [count |-> statement_count, stmt |-> stmt,
                             row |-> row, result |-> result])
  /\ pc' = AfterCallback[result]
  /\ stmt' = IF result = "throw" THEN 0 ELSE stmt
  /\ UNCHANGED <<script, sql, row, statement_count>>

Next ==
  \/ NoMoreText
  \/ TextLeft
  \/ NoStatement
  \/ CompileError
  \/ NextStatement
  \/ StepRow
  \/ StepDone
  \/ StepThrows
  \/ \E result \in Results : Callback(result)

Spec == Init /\ [][Next]_vars

(* One thread runs exec, and its callback returns or throws. *)
FairSpec == Spec /\ WF_vars(Next)

-----------------------------------------------------------------------------
(****************************************************************************)
(* The statement_count a callback sees is the number of the statement among *)
(* the statements of the script: comments, stray semicolons and white space *)
(* do not count, and a statement stopped early does.                        *)
(****************************************************************************)
CountIsOrdinal ==
  \A n \in DOMAIN calls :
    calls[n].count = Cardinality(StatementsBefore(script, calls[n].stmt))

(* No row reaches the callback twice, or after a later row. *)
RowsInOrder ==
  \A m, n \in DOMAIN calls : m < n =>
    \/ calls[m].stmt < calls[n].stmt
    \/ calls[m].stmt = calls[n].stmt /\ calls[m].row < calls[n].row

(* What the callback sees: each row once, in order, with its number. *)
CallsInOrder == CountIsOrdinal /\ RowsInOrder

(* The rows of statement i up to where the callback stopped it, if it did. *)
Delivered(i, r) == \E n \in DOMAIN calls : calls[n].stmt = i /\ calls[n].row = r
StoppedBefore(i, r) ==
  \E n \in DOMAIN calls : /\ calls[n].stmt = i /\ calls[n].row < r
                          /\ calls[n].result = "false"
Completed(i) == \A r \in 1..script[i].rows : Delivered(i, r) \/ StoppedBefore(i, r)

(* The callback has stopped a statement before piece i by returning false.  *)
StoppedAhead(i) ==
  \E n \in DOMAIN calls : calls[n].stmt < i /\ calls[n].result = "false"

(****************************************************************************)
(* exec returns only when every statement of the script has run, each to    *)
(* its end or to where the callback stopped it.  Of what comes after a      *)
(* stopped statement nothing is claimed: the code goes on with it, and the  *)
(* documentation of exec says that it is skipped.                           *)
(****************************************************************************)
AllStatementsRun ==
  pc = "done" =>
    \A i \in DOMAIN script :
      \/ StoppedAhead(i)
      \/ /\ script[i].kind # "bad"
         /\ script[i].kind = "stmt" => Completed(i)

(****************************************************************************)
(* exec throws at the first thing that goes wrong: what comes before has    *)
(* run, with the same reservation, and nothing after it has.                *)
(****************************************************************************)
WentWrong(i) ==
  \/ script[i].kind = "bad"
  \/ /\ script[i].kind = "stmt" /\ script[i].fails
     /\ Completed(i) /\ ~StoppedBefore(i, script[i].rows + 1)
  \/ \E n \in DOMAIN calls : calls[n].stmt = i /\ calls[n].result = "throw"

ThrowsAtFirstFailure ==
  pc = "threw" =>
    \E i \in DOMAIN script :
      /\ WentWrong(i)
      /\ \A j \in 1..(i - 1) :
           ~WentWrong(j) /\ (script[j].kind = "stmt" => Completed(j) \/ StoppedAhead(j))
      /\ \A n \in DOMAIN calls : calls[n].stmt <= i

(* exec runs the whole script, or all of it up to the first failure; but    *)
(* for what comes after a statement that the callback has stopped.          *)
RunsToFirstFailure == AllStatementsRun /\ ThrowsAtFirstFailure

(* exec comes to an end. *)
Terminates == <>(pc \in {"done", "threw"})

===============================================================================
