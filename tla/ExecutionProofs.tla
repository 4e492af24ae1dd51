-------------------------- MODULE ExecutionProofs --------------------------
(****************************************************************************)
(* Proofs about the two specifications of how SQL is run.                   *)
(*                                                                          *)
(* Exec, for any set of scripts, those with a NUL included.  The invariant  *)
(* says how far exec has come: all that lies before it is done, blank       *)
(* pieces lie between its statement and the text that is left, and the rows *)
(* of its statement have been delivered one by one.                         *)
(*                                                                          *)
(* IndexPlan, for any table, any constraints and any amount of index data.  *)
(* Two arguments meet there.  Each datum belongs to one answer, so that its *)
(* text is there, unchanged, as long as the answer may be used; and a       *)
(* cursor that goes through the rows its data selects, checked by SQLite    *)
(* for the rest, has found what it has passed of the rows that satisfy all. *)
(****************************************************************************)
EXTENDS Exec, IndexPlan, FiniteSetTheorems, WellFoundedInduction, TLAPS

-----------------------------------------------------------------------------
(****************************************************************************)
(* The execution of scripts.                                                *)
(****************************************************************************)
Invocations == [count: Nat, stmt: Nat, row: Nat, result: Results]

Typed ==
  /\ script \in Scripts
  /\ sql \in 1..(Len(script) + 1)
  /\ pc \in {"next", "create", "step", "callback", "done", "threw"}
  /\ stmt \in 0..Len(script)
  /\ row \in Nat
  /\ statement_count \in Nat
  /\ calls \in Seq(Invocations)

Blank(i) == script[i].kind \in {"space", "empty"}

(* The statement exec holds is the last one of the text behind it, and its  *)
(* number is right.                                                         *)
Placed ==
  /\ pc \in {"step", "callback"} => stmt # 0
  /\ pc = "callback" => row > 0
  /\ stmt # 0 => /\ script[stmt].kind = "stmt" /\ row <= script[stmt].rows
                 /\ statement_count = Cardinality(StatementsBefore(script, stmt))
  /\ pc \in {"next", "create", "step", "callback"} =>
       /\ stmt < sql
       /\ \A i \in (stmt + 1)..(sql - 1) : Blank(i)
       /\ stmt = 0 => statement_count = 0
  /\ pc = "done" => sql = Len(script) + 1

(* The callbacks so far were for rows that exec has come to. *)
CallsBehind ==
  \A n \in DOMAIN calls :
    /\ pc \in {"next", "create", "done"} => calls[n].stmt < sql
    /\ pc \in {"step", "callback"} =>
         \/ calls[n].stmt < stmt
         \/ /\ calls[n].stmt = stmt /\ calls[n].result = "true"
            /\ calls[n].row <= row
            /\ pc = "callback" => calls[n].row < row

(* Piece i has been dealt with, and nothing went wrong. *)
Passed(i) ==
  /\ script[i].kind # "bad"
  /\ script[i].kind = "stmt" =>
       Completed(i) /\ (script[i].fails => StoppedBefore(i, script[i].rows + 1))
  /\ \A n \in DOMAIN calls : calls[n].stmt = i => calls[n].result # "throw"

Behind ==
  /\ pc \in {"next", "create", "done"} => \A i \in 1..(sql - 1) : Passed(i)
  /\ pc \in {"step", "callback"} =>
       /\ \A i \in 1..(stmt - 1) : Passed(i)
       /\ \A r \in 1..(row - 1) : Delivered(stmt, r)
       /\ pc = "step" /\ row > 0 => Delivered(stmt, row)

(* exec has thrown at a piece before which all others have run, those after *)
(* a statement that the callback stopped included, as the code has it.      *)
ThrownAtFirst ==
  pc = "threw" =>
    \E i \in DOMAIN script :
      /\ WentWrong(i)
      /\ \A j \in 1..(i - 1) : ~WentWrong(j) /\ (script[j].kind = "stmt" => Completed(j))
      /\ \A n \in DOMAIN calls : calls[n].stmt <= i

Consistent ==
  /\ Typed /\ Placed /\ CallsBehind
  /\ CallsInOrder /\ Behind /\ ThrownAtFirst

-----------------------------------------------------------------------------
(****************************************************************************)
(* Lemmas about the operators of the model.                                 *)
(****************************************************************************)
(* A set of natural numbers has a least element. *)
LEMMA MinFacts ==
  ASSUME NEW S \in SUBSET Nat, S # {}
  PROVE  Min(S) \in S /\ \A y \in S : Min(S) <= y
<1>1. IsWellFoundedOn(OpToRel(<, Nat), Nat)
  BY NatLessThanWellFounded
<1>2. \E x \in S : \A y \in S : ~ (<<y, x>> \in OpToRel(<, Nat))
  BY <1>1, WFMin
<1>3. \E x \in S : \A y \in S : x <= y
  <2>1. PICK x \in S : \A y \in S : ~ (<<y, x>> \in OpToRel(<, Nat))
    BY <1>2
  <2>2. ASSUME NEW y \in S
        PROVE  x <= y
    <3>1. ~ (y < x)
      BY <2>1 DEF OpToRel
    <3> QED
      BY <3>1
  <2> QED
    BY <2>2
<1> QED
  BY <1>3 DEF Min

(* A script is a sequence of pieces. *)
LEMMA ScriptFacts ==
  ASSUME Typed
  PROVE  /\ Len(script) \in Nat /\ DOMAIN script = 1..Len(script)
         /\ \A i \in 1..Len(script) : /\ script[i].kind \in Kinds
                                      /\ script[i].rows \in Nat
                                      /\ script[i].fails \in BOOLEAN
<1> DEFINE Pieces == [kind: Kinds, rows: Nat, fails: BOOLEAN]
<1>1. script \in Seq(Pieces)
  BY ScriptsAssumption DEF Typed
<1> HIDE DEF Pieces
<1>2. /\ Len(script) \in Nat /\ DOMAIN script = 1..Len(script)
      /\ \A i \in 1..Len(script) : script[i] \in Pieces
  BY <1>1
<1> QED
  BY <1>2 DEF Pieces

(* So are the callbacks, in what is recorded of them. *)
LEMMA CallFacts ==
  ASSUME Typed
  PROVE  /\ Len(calls) \in Nat /\ DOMAIN calls = 1..Len(calls)
         /\ \A n \in DOMAIN calls : /\ calls[n].stmt \in Nat
                                   /\ calls[n].row \in Nat
                                   /\ calls[n].result \in Results
<1>1. /\ Len(calls) \in Nat /\ DOMAIN calls = 1..Len(calls)
      /\ \A n \in DOMAIN calls : calls[n] \in Invocations
  BY DEF Typed
<1> QED
  BY <1>1 DEF Invocations

(* What is skipped, and where the reading goes on. *)
LEMMA SkipFacts ==
  ASSUME Typed, NEW i \in 1..(Len(script) + 1), NEW S
  PROVE  /\ Skip(i, S) \in i..(Len(script) + 1)
         /\ \A j \in i..(Skip(i, S) - 1) : script[j].kind \in S
         /\ Skip(i, S) # Len(script) + 1 => script[Skip(i, S)].kind \notin S
<1> DEFINE T == {j \in i..(Len(script) + 1) : j = Len(script) + 1 \/ script[j].kind \notin S}
<1>1. Len(script) \in Nat
  BY ScriptFacts
<1>2. T \in SUBSET Nat /\ Len(script) + 1 \in T
  BY <1>1
<1>3. Min(T) \in T /\ \A y \in T : Min(T) <= y
  BY <1>2, MinFacts
<1>4. Skip(i, S) = Min(T)
  BY DEF Skip
<1>5. Min(T) \in i..(Len(script) + 1)
  BY <1>3
<1>6. \A j \in i..(Min(T) - 1) : script[j].kind \in S
  <2> SUFFICES ASSUME NEW j \in i..(Min(T) - 1), script[j].kind \notin S
               PROVE  FALSE
    OBVIOUS
  <2>1. j \in T
    BY <1>1, <1>5
  <2> QED
    BY <1>1, <1>3, <1>5, <2>1
<1> QED
  BY <1>3, <1>4, <1>5, <1>6

(* The statement found is the next one after the one exec holds. *)
LEMMA FoundFacts ==
  ASSUME Typed, Placed, pc \in {"next", "create"}
  PROVE  /\ Found \in sql..(Len(script) + 1)
         /\ \A j \in (stmt + 1)..(Found - 1) : Blank(j)
         /\ ~AtEnd(Found) => Found \in 1..Len(script)
<1>1. Len(script) \in Nat /\ sql \in 1..(Len(script) + 1) /\ stmt \in 0..Len(script)
  BY ScriptFacts DEF Typed
<1>2. /\ Found \in sql..(Len(script) + 1)
      /\ \A j \in sql..(Found - 1) : script[j].kind \in {"space", "empty"}
  BY <1>1, SkipFacts DEF Found
<1>3. stmt < sql /\ \A j \in (stmt + 1)..(sql - 1) : Blank(j)
  BY DEF Placed
<1>4. \A j \in (stmt + 1)..(Found - 1) : Blank(j)
  BY <1>1, <1>2, <1>3 DEF Blank
<1>5. ~AtEnd(Found) => Found \in 1..Len(script)
  BY <1>1, <1>2 DEF AtEnd
<1> QED
  BY <1>2, <1>4, <1>5

(* The statements before a piece are finitely many. *)
LEMMA StatementsFinite ==
  ASSUME NEW sc, NEW i \in Nat
  PROVE  /\ IsFiniteSet(StatementsBefore(sc, i))
         /\ Cardinality(StatementsBefore(sc, i)) \in Nat
<1>1. IsFiniteSet(1..(i - 1))
  BY FS_Interval
<1>2. StatementsBefore(sc, i) \in SUBSET (1..(i - 1))
  BY DEF StatementsBefore
<1>3. IsFiniteSet(StatementsBefore(sc, i))
  BY <1>1, <1>2, FS_Subset
<1> QED
  BY <1>3, FS_CardinalityType

(* The count of the next statement, when only blanks lie in between. *)
LEMMA CountFacts ==
  ASSUME Typed, Placed, pc \in {"next", "create"}, ~AtEnd(Found)
  PROVE  /\ CountNext \in Nat
         /\ CountNext = Cardinality(StatementsBefore(script, Found))
<1>1. /\ Len(script) \in Nat /\ sql \in 1..(Len(script) + 1) /\ stmt \in 0..Len(script)
      /\ statement_count \in Nat /\ stmt < sql
  BY ScriptFacts DEF Typed, Placed
<1>2. /\ Found \in sql..(Len(script) + 1)
      /\ \A j \in (stmt + 1)..(Found - 1) : Blank(j)
  BY FoundFacts
<1>3. CASE stmt = 0
  <2>1. StatementsBefore(script, Found) = {}
    BY <1>1, <1>2, <1>3 DEF StatementsBefore, Blank
  <2>2. Cardinality(StatementsBefore(script, Found)) = 0
    BY <2>1, FS_EmptySet
  <2>3. CountNext = 0
    BY <1>3 DEF CountNext, Placed
  <2> QED
    BY <2>2, <2>3
<1>4. CASE stmt # 0
  <2>1. script[stmt].kind = "stmt" /\ statement_count = Cardinality(StatementsBefore(script, stmt))
    BY <1>4 DEF Placed
  <2>2. StatementsBefore(script, Found) = StatementsBefore(script, stmt) \cup {stmt}
    BY <1>1, <1>2, <1>4, <2>1 DEF StatementsBefore, Blank
  <2>3. IsFiniteSet(StatementsBefore(script, stmt)) /\ stmt \notin StatementsBefore(script, stmt)
    BY <1>1, StatementsFinite DEF StatementsBefore
  <2>4. Cardinality(StatementsBefore(script, stmt) \cup {stmt}) = statement_count + 1
    BY <2>1, <2>3, FS_AddElement
  <2>5. CountNext = statement_count + 1
    BY <1>4 DEF CountNext
  <2> QED
    BY <1>1, <2>2, <2>4, <2>5
<1> QED
  BY <1>3, <1>4


(* A row delivered stays delivered, and a statement stopped stays stopped.  *)
Extended == \E c \in Invocations : calls' = Append(calls, c)

(* One more invocation at the end of the list. *)
LEMMA AppendFacts ==
  ASSUME Typed, NEW c \in Invocations, calls' = Append(calls, c)
  PROVE  /\ calls' \in Seq(Invocations)
         /\ Len(calls) \in Nat
         /\ DOMAIN calls = 1..Len(calls)
         /\ DOMAIN calls' = 1..(Len(calls) + 1)
         /\ \A n \in 1..Len(calls) : calls'[n] = calls[n]
         /\ calls'[Len(calls) + 1] = c
BY DEF Typed

(* What has reached the callback stays so when another row does. *)
LEMMA StaysDone ==
  ASSUME Typed, Extended, script' = script, NEW i \in 1..Len(script)
  PROVE  /\ \A r \in Nat : Delivered(i, r) => Delivered(i, r)'
         /\ \A r \in Nat : StoppedBefore(i, r) => StoppedBefore(i, r)'
         /\ Completed(i) => Completed(i)'
<1>1. PICK c \in Invocations : calls' = Append(calls, c)
  BY DEF Extended
<1>2. \A n \in DOMAIN calls : n \in DOMAIN calls' /\ calls'[n] = calls[n]
  BY <1>1, AppendFacts
<1>3. \A r \in Nat : Delivered(i, r) => Delivered(i, r)'
  BY <1>2 DEF Delivered
<1>4. \A r \in Nat : StoppedBefore(i, r) => StoppedBefore(i, r)'
  BY <1>2 DEF StoppedBefore
<1>5. Completed(i) => Completed(i)'
  BY <1>3, <1>4, ScriptFacts DEF Completed
<1> QED
  BY <1>3, <1>4, <1>5

(* What has passed is not undone by a callback for another piece. *)
LEMMA StaysPassed ==
  ASSUME Typed, script' = script, NEW i \in 1..Len(script), Passed(i),
         NEW c \in Invocations, calls' = Append(calls, c), c.stmt # i
  PROVE  Passed(i)'
<1>1. Extended
  BY DEF Extended
<1>2. script[i].rows + 1 \in Nat
  BY ScriptFacts
<1>3. /\ Completed(i) => Completed(i)'
      /\ StoppedBefore(i, script[i].rows + 1) => StoppedBefore(i, script[i].rows + 1)'
  BY <1>1, <1>2, StaysDone
<1>4. \A n \in DOMAIN calls' : calls'[n].stmt = i => calls'[n].result # "throw"
  BY AppendFacts DEF Passed
<1> QED
  BY <1>3, <1>4 DEF Passed

(* A blank that no callback was for has passed. *)
LEMMA BlankPasses ==
  ASSUME NEW i, Blank(i), \A n \in DOMAIN calls : calls[n].stmt # i
  PROVE  Passed(i)
BY DEF Blank, Passed

(* What has passed did not go wrong. *)
LEMMA PassedIsRight ==
  ASSUME Typed, NEW i \in 1..Len(script), Passed(i)
  PROVE  ~WentWrong(i) /\ (script[i].kind = "stmt" => Completed(i))
BY DEF Passed, WentWrong

-----------------------------------------------------------------------------
(****************************************************************************)
(* The operations.                                                          *)
(****************************************************************************)
LEMMA InitConsistent ==
  ASSUME Init
  PROVE  Consistent
<1>1. calls = << >> /\ calls \in Seq(Invocations) /\ DOMAIN calls = {}
  BY DEF Init
<1>2. script \in Seq([kind: Kinds, rows: Nat, fails: BOOLEAN])
  BY ScriptsAssumption DEF Init
<1>3. Typed
  BY <1>1, <1>2 DEF Init, Typed
<1>4. Placed
  BY DEF Init, Placed
<1>5. CallsBehind /\ CallsInOrder
  BY <1>1 DEF CallsBehind, CallsInOrder, CountIsOrdinal, RowsInOrder
<1>6. Behind /\ ThrownAtFirst
  BY DEF Init, Behind, ThrownAtFirst
<1> QED
  BY <1>3, <1>4, <1>5, <1>6 DEF Consistent

(* Where nothing is delivered the order of the callbacks stays.             *)
LEMMA SameCalls ==
  ASSUME CallsInOrder, calls' = calls, script' = script
  PROVE  CallsInOrder'
BY DEF CallsInOrder, CountIsOrdinal, RowsInOrder

(* A statement that has passed is not touched by later ones. *)
LEMMA SamePassed ==
  ASSUME calls' = calls, script' = script, NEW i, Passed(i)
  PROVE  Passed(i)'
BY DEF Passed, Completed, Delivered, StoppedBefore

(* exec looks whether any text is left. *)
LEMMA TextStep ==
  ASSUME Consistent, NoMoreText \/ TextLeft
  PROVE  Consistent'
<1>1. /\ pc = "next" /\ pc' \in {"create", "done"}
      /\ (pc' = "done" => sql = Len(script) + 1 /\ stmt' = 0)
      /\ (pc' # "done" => stmt' = stmt)
      /\ UNCHANGED <<script, sql, row, statement_count, calls>>
  BY DEF NoMoreText, TextLeft
<1>2. Typed'
  BY <1>1, ScriptFacts DEF Consistent, Typed
<1>3. Placed'
  BY <1>1 DEF Consistent, Placed, Blank
<1>4. CallsBehind' /\ CallsInOrder'
  BY <1>1, SameCalls DEF Consistent, CallsBehind
<1>5. Behind' /\ ThrownAtFirst'
  BY <1>1, SamePassed DEF Consistent, Behind, ThrownAtFirst
<1> QED
  BY <1>2, <1>3, <1>4, <1>5 DEF Consistent

(* Text without a statement is passed over. *)
LEMMA NoStatementStep ==
  ASSUME Consistent, NoStatement
  PROVE  Consistent'
<1>1. /\ pc = "create" /\ pc' = "next" /\ sql' = Found
      /\ UNCHANGED <<script, stmt, row, statement_count, calls>>
  BY DEF NoStatement
<1>2. /\ Found \in sql..(Len(script) + 1)
      /\ \A j \in (stmt + 1)..(Found - 1) : Blank(j)
      /\ Len(script) \in Nat /\ sql \in 1..(Len(script) + 1) /\ stmt \in 0..Len(script)
  BY <1>1, FoundFacts, ScriptFacts DEF Consistent, Typed
<1>3. Typed'
  BY <1>1, <1>2 DEF Consistent, Typed
<1>4. stmt < sql
  BY <1>1 DEF Consistent, Placed
<1>5. Placed'
  BY <1>1, <1>2, <1>4 DEF Consistent, Placed, Blank
<1>6. \A n \in DOMAIN calls : calls[n].stmt < sql /\ calls[n].stmt \in Nat
  BY <1>1, CallFacts DEF Consistent, CallsBehind
<1>7. CallsBehind' /\ CallsInOrder'
  BY <1>1, <1>2, <1>6, SameCalls DEF Consistent, CallsBehind
<1>8. \A i \in 1..(Found - 1) : Passed(i)
  <2> SUFFICES ASSUME NEW i \in 1..(Found - 1)
               PROVE  Passed(i)
    OBVIOUS
  <2>1. CASE i < sql
    BY <1>1, <1>2, <2>1 DEF Consistent, Behind
  <2>2. CASE i >= sql
    BY <1>2, <1>4, <1>6, <2>2, BlankPasses
  <2> QED
    BY <1>2, <2>1, <2>2
<1>9. Behind' /\ ThrownAtFirst'
  BY <1>1, <1>8, SamePassed DEF Behind, ThrownAtFirst
<1> QED
  BY <1>3, <1>5, <1>7, <1>9 DEF Consistent

(* All pieces before the statement found have passed. *)
LEMMA FoundAfterPassed ==
  ASSUME Consistent, pc = "create", ~AtEnd(Found)
  PROVE  /\ \A i \in 1..(Found - 1) : Passed(i)
         /\ \A n \in DOMAIN calls : calls[n].stmt < Found
<1>1. /\ Found \in sql..(Len(script) + 1)
      /\ \A j \in (stmt + 1)..(Found - 1) : Blank(j)
      /\ Len(script) \in Nat /\ sql \in 1..(Len(script) + 1) /\ stmt \in 0..Len(script)
  BY FoundFacts, ScriptFacts DEF Consistent, Typed
<1>2. stmt < sql
  BY DEF Consistent, Placed
<1>3. \A n \in DOMAIN calls : calls[n].stmt < sql /\ calls[n].stmt \in Nat
  BY CallFacts DEF Consistent, CallsBehind
<1>4. ASSUME NEW i \in 1..(Found - 1)
      PROVE  Passed(i)
  <2>1. CASE i < sql
    BY <1>1, <2>1 DEF Consistent, Behind
  <2>2. CASE i >= sql
    BY <1>1, <1>2, <1>3, <2>2, BlankPasses
  <2> QED
    BY <1>1, <2>1, <2>2
<1> QED
  BY <1>1, <1>3, <1>4

(* The piece that cannot be compiled is the first failure. *)
LEMMA CompileErrorStep ==
  ASSUME Consistent, CompileError
  PROVE  Consistent'
<1>1. /\ pc = "create" /\ ~AtEnd(Found) /\ script[Found].kind = "bad"
      /\ pc' = "threw" /\ stmt' = 0
      /\ UNCHANGED <<script, sql, row, statement_count, calls>>
  BY DEF CompileError
<1>2. Found \in 1..Len(script) /\ Len(script) \in Nat /\ DOMAIN script = 1..Len(script)
  BY <1>1, FoundFacts, ScriptFacts DEF Consistent
<1>3. /\ \A i \in 1..(Found - 1) : Passed(i)
      /\ \A n \in DOMAIN calls : calls[n].stmt < Found
  BY <1>1, FoundAfterPassed
<1>4. Typed'
  BY <1>1, <1>2 DEF Consistent, Typed
<1>5. Placed' /\ CallsBehind' /\ CallsInOrder' /\ Behind'
  BY <1>1, SameCalls DEF Consistent, Placed, CallsBehind, Behind
<1>6. WentWrong(Found)
  BY <1>1 DEF WentWrong
<1>7. \A j \in 1..(Found - 1) : ~WentWrong(j) /\ (script[j].kind = "stmt" => Completed(j))
  BY <1>2, <1>3, PassedIsRight DEF Consistent
<1>8. \A n \in DOMAIN calls : calls[n].stmt <= Found
  BY <1>2, <1>3, CallFacts DEF Consistent
<1>9. ThrownAtFirst'
  BY <1>1, <1>2, <1>6, <1>7, <1>8
  DEF ThrownAtFirst, WentWrong, Completed, Delivered, StoppedBefore
<1> QED
  BY <1>4, <1>5, <1>9 DEF Consistent

(* A statement begins: none of its rows has been delivered. *)
LEMMA NextStatementStep ==
  ASSUME Consistent, NextStatement
  PROVE  Consistent'
<1>1. /\ pc = "create" /\ ~AtEnd(Found) /\ script[Found].kind = "stmt"
      /\ sql' = Skip(Found + 1, {"space"}) /\ stmt' = Found /\ row' = 0
      /\ statement_count' = CountNext /\ pc' = "step"
      /\ UNCHANGED <<script, calls>>
  BY DEF NextStatement, AfterStatement
<1>2. /\ Found \in 1..Len(script) /\ Len(script) \in Nat
      /\ script[Found].rows \in Nat
  BY <1>1, FoundFacts, ScriptFacts DEF Consistent
<1>3. /\ \A i \in 1..(Found - 1) : Passed(i)
      /\ \A n \in DOMAIN calls : calls[n].stmt < Found
  BY <1>1, FoundAfterPassed
<1>4. Found + 1 \in 1..(Len(script) + 1)
  BY <1>2
<1>5. /\ sql' \in (Found + 1)..(Len(script) + 1)
      /\ \A j \in (Found + 1)..(sql' - 1) : script[j].kind \in {"space"}
  BY <1>1, <1>4, SkipFacts DEF Consistent
<1>6. CountNext \in Nat /\ CountNext = Cardinality(StatementsBefore(script, Found))
  BY <1>1, CountFacts DEF Consistent
<1>7. Typed'
  BY <1>1, <1>2, <1>5, <1>6 DEF Consistent, Typed
<1>8. Placed'
  BY <1>1, <1>2, <1>5, <1>6 DEF Placed, Blank
<1>9. CallsBehind' /\ CallsInOrder'
  BY <1>1, <1>3, SameCalls DEF Consistent, CallsBehind
<1>10. Behind' /\ ThrownAtFirst'
  BY <1>1, <1>2, <1>3, SamePassed DEF Behind, ThrownAtFirst
<1> QED
  BY <1>7, <1>8, <1>9, <1>10 DEF Consistent

(* The next row goes to the callback. *)
LEMMA StepRowStep ==
  ASSUME Consistent, StepRow
  PROVE  Consistent'
<1>1. /\ pc = "step" /\ row < script[stmt].rows /\ row' = row + 1 /\ pc' = "callback"
      /\ UNCHANGED <<script, sql, stmt, statement_count, calls>>
  BY DEF StepRow
<1>2. /\ stmt \in 1..Len(script) /\ Len(script) \in Nat
      /\ script[stmt].rows \in Nat /\ row \in Nat
  BY <1>1, ScriptFacts DEF Consistent, Typed, Placed
<1>3. Typed'
  BY <1>1, <1>2 DEF Consistent, Typed
<1>4. Placed'
  BY <1>1, <1>2 DEF Consistent, Placed, Blank
<1>5. CallsBehind' /\ CallsInOrder'
  BY <1>1, <1>2, CallFacts, SameCalls DEF Consistent, CallsBehind
<1>6. \A r \in 1..row : Delivered(stmt, r)
  BY <1>1, <1>2 DEF Consistent, Behind
<1>7. Behind'
  <2>1. \A i \in 1..(stmt' - 1) : Passed(i)'
    BY <1>1, SamePassed DEF Consistent, Behind
  <2>2. \A r \in 1..(row' - 1) : Delivered(stmt, r)'
    BY <1>1, <1>2, <1>6 DEF Delivered
  <2> QED
    BY <1>1, <2>1, <2>2 DEF Behind
<1>8. ThrownAtFirst'
  BY <1>1 DEF ThrownAtFirst
<1> QED
  BY <1>3, <1>4, <1>5, <1>7, <1>8 DEF Consistent

(* The statement has come to its end: its rows have all been delivered. *)
LEMMA EndedIsCompleted ==
  ASSUME Consistent, pc = "step", row = script[stmt].rows
  PROVE  /\ stmt \in 1..Len(script)
         /\ \A r \in 1..row : Delivered(stmt, r)
         /\ Completed(stmt)
         /\ \A n \in DOMAIN calls : calls[n].stmt = stmt => calls[n].result = "true"
<1>1. /\ stmt \in 1..Len(script) /\ Len(script) \in Nat
      /\ script[stmt].rows \in Nat /\ row \in Nat
  BY ScriptFacts DEF Consistent, Typed, Placed
<1>2. \A r \in 1..row : Delivered(stmt, r)
  BY <1>1 DEF Consistent, Behind
<1>3. \A n \in DOMAIN calls : calls[n].stmt = stmt => calls[n].result = "true"
  BY <1>1, CallFacts DEF Consistent, CallsBehind
<1> QED
  BY <1>1, <1>2, <1>3 DEF Completed

(* All rows of the statement have been delivered, so it has completed. *)
LEMMA StepDoneStep ==
  ASSUME Consistent, StepDone
  PROVE  Consistent'
<1>1. /\ pc = "step" /\ row = script[stmt].rows /\ ~script[stmt].fails /\ pc' = "next"
      /\ UNCHANGED <<script, sql, stmt, row, statement_count, calls>>
  BY DEF StepDone
<1>2. /\ stmt \in 1..Len(script) /\ Len(script) \in Nat /\ sql \in Nat
      /\ stmt < sql /\ sql <= Len(script) + 1
      /\ script[stmt].kind = "stmt"
      /\ \A i \in (stmt + 1)..(sql - 1) : Blank(i)
  BY <1>1, ScriptFacts DEF Consistent, Typed, Placed
<1>3. /\ Completed(stmt)
      /\ \A n \in DOMAIN calls : calls[n].stmt = stmt => calls[n].result = "true"
  BY <1>1, EndedIsCompleted
<1>4. Typed' /\ Placed'
  BY <1>1 DEF Consistent, Typed, Placed, Blank
<1>5. \A n \in DOMAIN calls : calls[n].stmt \in Nat /\ calls[n].stmt <= stmt
  BY <1>1, <1>2, CallFacts DEF Consistent, CallsBehind
<1>6. CallsBehind' /\ CallsInOrder'
  BY <1>1, <1>2, <1>5, SameCalls DEF Consistent, CallsBehind
<1>7. Passed(stmt)
  BY <1>1, <1>2, <1>3 DEF Passed
<1>8. ASSUME NEW i \in 1..(sql - 1)
      PROVE  Passed(i)
  <2>1. CASE i < stmt
    BY <1>1, <1>2, <2>1 DEF Consistent, Behind
  <2>2. CASE i = stmt
    BY <1>7, <2>2
  <2>3. CASE i > stmt
    BY <1>2, <1>5, <2>3, BlankPasses
  <2> QED
    BY <1>2, <2>1, <2>2, <2>3
<1>9. Behind' /\ ThrownAtFirst'
  BY <1>1, <1>8, SamePassed DEF Behind, ThrownAtFirst
<1> QED
  BY <1>4, <1>6, <1>9 DEF Consistent

(* A step that fails comes after all the rows of its statement. *)
LEMMA StepThrowsStep ==
  ASSUME Consistent, StepThrows
  PROVE  Consistent'
<1>1. /\ pc = "step" /\ row = script[stmt].rows /\ script[stmt].fails
      /\ pc' = "threw" /\ stmt' = 0
      /\ UNCHANGED <<script, sql, row, statement_count, calls>>
  BY DEF StepThrows
<1>2. /\ stmt \in 1..Len(script) /\ Len(script) \in Nat /\ DOMAIN script = 1..Len(script)
      /\ script[stmt].kind = "stmt"
  BY <1>1, ScriptFacts DEF Consistent, Typed, Placed
<1>3. /\ Completed(stmt)
      /\ \A n \in DOMAIN calls : calls[n].stmt = stmt => calls[n].result = "true"
  BY <1>1, EndedIsCompleted
<1>4. Typed'
  BY <1>1, <1>2 DEF Consistent, Typed
<1>5. Placed' /\ CallsBehind' /\ CallsInOrder' /\ Behind'
  BY <1>1, SameCalls DEF Consistent, Placed, CallsBehind, Behind
<1>6. WentWrong(stmt)
  BY <1>1, <1>2, <1>3 DEF WentWrong, StoppedBefore
<1>7. \A j \in 1..(stmt - 1) : ~WentWrong(j) /\ (script[j].kind = "stmt" => Completed(j))
  BY <1>1, <1>2, PassedIsRight DEF Consistent, Behind
<1>8. \A n \in DOMAIN calls : calls[n].stmt <= stmt
  BY <1>1, <1>2, CallFacts DEF Consistent, CallsBehind
<1>9. ThrownAtFirst'
  BY <1>1, <1>2, <1>6, <1>7, <1>8
  DEF ThrownAtFirst, WentWrong, Completed, Delivered, StoppedBefore
<1> QED
  BY <1>4, <1>5, <1>9 DEF Consistent

(* One more invocation, of the row that exec has just come to. *)
LEMMA CallbackCalls ==
  ASSUME Consistent, NEW result \in Results, Callback(result)
  PROVE  /\ CallsInOrder'
         /\ \A n \in DOMAIN calls' : calls'[n].stmt <= stmt
         /\ \A i \in 1..(stmt - 1) : Passed(i)'
         /\ \A r \in 1..row : \E n \in DOMAIN calls' : calls'[n].stmt = stmt /\ calls'[n].row = r
         /\ \A n \in DOMAIN calls' :
              \/ calls'[n].stmt < stmt
              \/ /\ calls'[n].stmt = stmt /\ calls'[n].row < row /\ calls'[n].result = "true"
              \/ /\ n = Len(calls) + 1 /\ calls'[n].stmt = stmt /\ calls'[n].row = row
                 /\ calls'[n].result = result
         /\ \E n \in DOMAIN calls' : /\ calls'[n].stmt = stmt /\ calls'[n].row = row
                                     /\ calls'[n].result = result
<1> DEFINE c == [count |-> statement_count, stmt |-> stmt, row |-> row, result |-> result]
<1>1. /\ pc = "callback" /\ calls' = Append(calls, c)
      /\ UNCHANGED <<script, sql, row, statement_count>>
  BY DEF Callback
<1>2. /\ c \in Invocations /\ c.count = statement_count /\ c.stmt = stmt /\ c.row = row
      /\ c.result = result
  <2>1. statement_count \in Nat /\ stmt \in Nat /\ row \in Nat
    BY ScriptFacts DEF Consistent, Typed
  <2> QED
    BY <2>1 DEF Invocations
<1> HIDE DEF c
<1>3. /\ Len(calls) \in Nat /\ DOMAIN calls = 1..Len(calls)
      /\ DOMAIN calls' = 1..(Len(calls) + 1)
      /\ \A n \in 1..Len(calls) : calls'[n] = calls[n]
      /\ calls'[Len(calls) + 1] = c
  BY <1>1, <1>2, AppendFacts DEF Consistent
<1>4. /\ stmt \in 1..Len(script) /\ Len(script) \in Nat /\ row \in Nat /\ row > 0
      /\ statement_count = Cardinality(StatementsBefore(script, stmt))
  BY <1>1, ScriptFacts DEF Consistent, Typed, Placed
<1>5. \A n \in DOMAIN calls : /\ calls[n].stmt \in Nat /\ calls[n].row \in Nat
                              /\ \/ calls[n].stmt < stmt
                                 \/ /\ calls[n].stmt = stmt /\ calls[n].row < row
                                    /\ calls[n].result = "true"
  BY <1>1, CallFacts DEF Consistent, CallsBehind
<1>6. CountIsOrdinal'
  <2>1. \A n \in DOMAIN calls : calls[n].count = Cardinality(StatementsBefore(script, calls[n].stmt))
    BY DEF Consistent, CallsInOrder, CountIsOrdinal
  <2> SUFFICES ASSUME NEW n \in DOMAIN calls'
               PROVE  calls'[n].count = Cardinality(StatementsBefore(script, calls'[n].stmt))
    BY <1>1 DEF CountIsOrdinal
  <2>2. CASE n \in 1..Len(calls)
    BY <1>3, <2>1, <2>2
  <2>3. CASE n = Len(calls) + 1
    BY <1>2, <1>3, <1>4, <2>3
  <2> QED
    BY <1>3, <2>2, <2>3
<1>7. RowsInOrder'
  <2> SUFFICES ASSUME NEW m \in DOMAIN calls', NEW n \in DOMAIN calls', m < n
               PROVE  \/ calls'[m].stmt < calls'[n].stmt
                      \/ calls'[m].stmt = calls'[n].stmt /\ calls'[m].row < calls'[n].row
    BY DEF RowsInOrder
  <2>1. m \in 1..Len(calls) /\ calls'[m] = calls[m]
    BY <1>3
  <2>2. CASE n \in 1..Len(calls)
    BY <1>3, <2>1, <2>2 DEF Consistent, CallsInOrder, RowsInOrder
  <2>3. CASE n = Len(calls) + 1
    BY <1>2, <1>3, <1>5, <2>1, <2>3
  <2> QED
    BY <1>3, <2>2, <2>3
<1>8. \A n \in DOMAIN calls' :
        \/ calls'[n].stmt < stmt
        \/ /\ calls'[n].stmt = stmt /\ calls'[n].row < row /\ calls'[n].result = "true"
        \/ /\ n = Len(calls) + 1 /\ calls'[n].stmt = stmt /\ calls'[n].row = row
           /\ calls'[n].result = result
  BY <1>2, <1>3, <1>5
<1>9. \A n \in DOMAIN calls' : calls'[n].stmt <= stmt
  <2> TAKE n \in DOMAIN calls'
  <2>1. CASE n \in 1..Len(calls)
    BY <1>3, <1>4, <1>5, <2>1
  <2>2. CASE n = Len(calls) + 1
    BY <1>2, <1>3, <1>4, <2>2
  <2> QED
    BY <1>3, <2>1, <2>2
<1>10. \A i \in 1..(stmt - 1) : Passed(i)'
  <2> TAKE i \in 1..(stmt - 1)
  <2>1. i \in 1..Len(script) /\ c.stmt # i /\ Passed(i)
    BY <1>1, <1>2, <1>4 DEF Consistent, Behind
  <2> QED
    BY <1>1, <1>2, <2>1, StaysPassed DEF Consistent
<1>11. \A r \in 1..row : \E n \in DOMAIN calls' : calls'[n].stmt = stmt /\ calls'[n].row = r
  <2> TAKE r \in 1..row
  <2>1. CASE r = row
    BY <1>2, <1>3, <2>1
  <2>2. CASE r < row
    <3>1. Delivered(stmt, r)
      BY <1>1, <1>4, <2>2 DEF Consistent, Behind
    <3> QED
      BY <1>3, <3>1 DEF Delivered
  <2> QED
    BY <1>4, <2>1, <2>2
<1>12. \E n \in DOMAIN calls' : calls'[n].stmt = stmt /\ calls'[n].row = row /\ calls'[n].result = result
  BY <1>2, <1>3
<1> QED
  BY <1>6, <1>7, <1>8, <1>9, <1>10, <1>11, <1>12 DEF CallsInOrder

(* The callback asks for the next row, ends its statement, or throws. *)
LEMMA CallbackStep ==
  ASSUME Consistent, NEW result \in Results, Callback(result)
  PROVE  Consistent'
<1>1. /\ pc = "callback"
      /\ UNCHANGED <<script, sql, row, statement_count>>
  BY DEF Callback
<1>2. \/ result = "true" /\ pc' = "step" /\ stmt' = stmt
      \/ result = "false" /\ pc' = "next" /\ stmt' = stmt
      \/ result = "throw" /\ pc' = "threw" /\ stmt' = 0
  BY DEF Callback, AfterCallback, Results
<1>3. /\ stmt \in 1..Len(script) /\ Len(script) \in Nat /\ DOMAIN script = 1..Len(script)
      /\ sql \in Nat /\ stmt < sql /\ sql <= Len(script) + 1
      /\ row \in Nat /\ row > 0
      /\ script[stmt].rows \in Nat /\ row <= script[stmt].rows /\ script[stmt].kind = "stmt"
      /\ \A i \in (stmt + 1)..(sql - 1) : Blank(i)
  BY <1>1, ScriptFacts DEF Consistent, Typed, Placed
<1>4. calls' \in Seq(Invocations)
  <2> DEFINE c == [count |-> statement_count, stmt |-> stmt, row |-> row, result |-> result]
  <2>1. statement_count \in Nat /\ stmt \in Nat /\ row \in Nat
    BY ScriptFacts DEF Consistent, Typed
  <2>2. c \in Invocations
    BY <2>1 DEF Invocations
  <2>3. calls' = Append(calls, c)
    BY DEF Callback
  <2> HIDE DEF c
  <2> QED
    BY <2>2, <2>3, AppendFacts DEF Consistent
<1>5. Typed'
  BY <1>1, <1>2, <1>3, <1>4 DEF Consistent, Typed
<1>6. Placed'
  BY <1>1, <1>2, <1>3 DEF Consistent, Placed, Blank
<1>7. /\ CallsInOrder'
      /\ \A n \in DOMAIN calls' : calls'[n].stmt <= stmt
      /\ \A i \in 1..(stmt - 1) : Passed(i)'
      /\ \A r \in 1..row : \E n \in DOMAIN calls' : calls'[n].stmt = stmt /\ calls'[n].row = r
      /\ \A n \in DOMAIN calls' :
           \/ calls'[n].stmt < stmt
           \/ /\ calls'[n].stmt = stmt /\ calls'[n].row < row /\ calls'[n].result = "true"
           \/ /\ n = Len(calls) + 1 /\ calls'[n].stmt = stmt /\ calls'[n].row = row
              /\ calls'[n].result = result
      /\ \E n \in DOMAIN calls' : /\ calls'[n].stmt = stmt /\ calls'[n].row = row
                                  /\ calls'[n].result = result
  BY CallbackCalls
<1>8. \A n \in DOMAIN calls' : calls'[n].stmt \in Nat /\ calls'[n].row \in Nat
  <2>1. \A n \in DOMAIN calls' : calls'[n] \in Invocations
    BY <1>4
  <2> QED
    BY <2>1 DEF Invocations
<1>9. CASE result = "true"
  <2>1. CallsBehind'
    BY <1>1, <1>2, <1>7, <1>8, <1>9, <1>3 DEF CallsBehind
  <2>2. \A r \in 1..row : Delivered(stmt, r)'
    BY <1>2, <1>7, <1>9 DEF Delivered
  <2>3. Behind'
    BY <1>1, <1>2, <1>3, <1>7, <1>9, <2>2 DEF Behind
  <2>4. ThrownAtFirst'
    BY <1>2, <1>9 DEF ThrownAtFirst
  <2> QED
    BY <1>5, <1>6, <1>7, <2>1, <2>3, <2>4 DEF Consistent
<1>10. CASE result = "false"
  <2>1. CallsBehind'
    BY <1>1, <1>2, <1>3, <1>7, <1>8, <1>10 DEF CallsBehind
  <2>2. \A r \in row + 1..(script[stmt].rows + 1) : StoppedBefore(stmt, r)'
    BY <1>2, <1>3, <1>7, <1>10 DEF StoppedBefore
  <2>3. Completed(stmt)'
    BY <1>1, <1>2, <1>3, <1>7, <1>10, <2>2 DEF Completed, Delivered
  <2>4. Passed(stmt)'
    BY <1>1, <1>2, <1>3, <1>7, <1>8, <1>10, <2>2, <2>3 DEF Passed
  <2>5. ASSUME NEW i \in 1..(sql - 1)
        PROVE  Passed(i)'
    <3>1. CASE i < stmt
      BY <1>3, <1>7, <3>1
    <3>2. CASE i = stmt
      BY <1>2, <1>10, <2>4, <3>2 DEF Passed, Completed, Delivered, StoppedBefore
    <3>3. CASE i > stmt
      <4>1. Blank(i) /\ \A n \in DOMAIN calls' : calls'[n].stmt # i
        BY <1>3, <1>7, <1>8, <3>3
      <4> QED
        BY <1>1, <4>1 DEF Blank, Passed
    <3> QED
      BY <1>3, <3>1, <3>2, <3>3
  <2>6. Behind'
    BY <1>1, <1>2, <1>10, <2>5 DEF Behind
  <2>7. ThrownAtFirst'
    BY <1>2, <1>10 DEF ThrownAtFirst
  <2> QED
    BY <1>5, <1>6, <1>7, <2>1, <2>6, <2>7 DEF Consistent
<1>11. CASE result = "throw"
  <2>1. CallsBehind' /\ Behind'
    BY <1>2, <1>11 DEF CallsBehind, Behind
  <2>2. ASSUME NEW i \in 1..(stmt - 1)
        PROVE  ~WentWrong(i)' /\ (script[i].kind = "stmt" => Completed(i)')
    <3>1. Passed(i)'
      BY <1>7
    <3> QED
      BY <1>1, <3>1 DEF Passed, WentWrong
  <2>3. \E i \in DOMAIN script' :
          /\ \/ script'[i].kind = "bad"
             \/ /\ script'[i].kind = "stmt" /\ script'[i].fails
                /\ Completed(i)' /\ ~StoppedBefore(i, script[i].rows + 1)'
             \/ \E n \in DOMAIN calls' : calls'[n].stmt = i /\ calls'[n].result = "throw"
          /\ \A j \in 1..(i - 1) : ~WentWrong(j)' /\ (script'[j].kind = "stmt" => Completed(j)')
          /\ \A n \in DOMAIN calls' : calls'[n].stmt <= i
    BY <1>1, <1>3, <1>7, <1>11, <2>2
  <2>4. ThrownAtFirst'
    BY <1>1, <2>3 DEF ThrownAtFirst, WentWrong
  <2> QED
    BY <1>5, <1>6, <1>7, <2>1, <2>4 DEF Consistent
<1> QED
  BY <1>2, <1>9, <1>10, <1>11

(* Every step keeps the invariant. *)
LEMMA NextConsistent ==
  ASSUME Consistent, [Next]_vars
  PROVE  Consistent'
<1>1. CASE UNCHANGED vars
  <2>1. UNCHANGED <<script, sql, pc, stmt, row, statement_count, calls>>
    BY <1>1 DEF vars
  <2>2. Typed' /\ Placed' /\ CallsBehind'
    BY <2>1 DEF Consistent, Typed, Placed, CallsBehind, Blank
  <2>3. CallsInOrder' /\ Behind' /\ ThrownAtFirst'
    BY <2>1
    DEF Consistent, CallsInOrder, CountIsOrdinal, RowsInOrder, Behind, Passed,
        ThrownAtFirst, WentWrong, Completed, Delivered, StoppedBefore
  <2> QED
    BY <2>2, <2>3 DEF Consistent
<1>2. CASE Next
  BY <1>2, TextStep, NoStatementStep, CompileErrorStep, NextStatementStep, StepRowStep,
     StepDoneStep, StepThrowsStep, CallbackStep DEF Next
<1> QED
  BY <1>1, <1>2

-----------------------------------------------------------------------------
(****************************************************************************)
(* The theorems.                                                            *)
(****************************************************************************)
(* The inductive invariant: where exec is says what has been done.          *)
THEOREM AlwaysConsistent == Spec => []Consistent
<1>1. Init => Consistent
  BY InitConsistent
<1>2. Consistent /\ [Next]_vars => Consistent'
  BY NextConsistent
<1> QED
  BY <1>1, <1>2, PTL DEF Spec

(* The parser never moves past the end of the text, and the statement of    *)
(* exec is a piece of the script or none.                                   *)
THEOREM ExecTypeCorrect == Spec => []TypeOK
<1>1. Consistent => TypeOK
  BY CallFacts DEF Consistent, Typed, TypeOK
<1> QED
  BY <1>1, AlwaysConsistent, PTL

(* Whatever the script and whatever the callback returns, each row reaches  *)
(* it once and in order, with the number of its statement in the script.    *)
THEOREM RowsReachCallbackInOrder == Spec => []CallsInOrder
<1>1. Consistent => CallsInOrder
  BY DEF Consistent
<1> QED
  BY <1>1, AlwaysConsistent, PTL

(* exec returns after the whole script has run, and throws at the first     *)
(* failure, when all that comes before has run and nothing after it; but    *)
(* for what comes after a statement that the callback has stopped.          *)
THEOREM ExecRunsToFirstFailure == Spec => []RunsToFirstFailure
<1>1. Consistent => AllStatementsRun
  <2> SUFFICES ASSUME Consistent, pc = "done", NEW i \in DOMAIN script
               PROVE  script[i].kind # "bad" /\ (script[i].kind = "stmt" => Completed(i))
    BY DEF AllStatementsRun
  <2>1. i \in 1..(sql - 1)
    BY ScriptFacts DEF Consistent, Placed
  <2> QED
    BY <2>1 DEF Consistent, Behind, Passed
<1>2. Consistent => ThrowsAtFirstFailure
  BY DEF Consistent, ThrownAtFirst, ThrowsAtFirstFailure
<1>3. Consistent => RunsToFirstFailure
  BY <1>1, <1>2 DEF RunsToFirstFailure
<1> QED
  BY <1>3, AlwaysConsistent, PTL

-----------------------------------------------------------------------------
(****************************************************************************)
(* Queries of virtual tables.                                               *)
(****************************************************************************)
InUse == plans \cup Programs \cup {info}

(* Data nobody has set is not listed, and only data that SQLite owns goes.  *)
DataKnown ==
  \A d \in Data : /\ listed[d] = None => d \notin owned /\ freed[d] = 0
                  /\ freed[d] # 0 => d \in owned

(* An answer that may be used has its data, and frees it if SQLite owns it. *)
HasData(a) ==
  /\ a.needToFree => a.idxStr \in Data
  /\ a.idxStr \in Data => /\ listed[a.idxStr] # None
                          /\ freed[a.idxStr] = 0
                          /\ a.needToFree <=> a.idxStr \in owned

AnswersHaveData == \A a \in InUse : HasData(a)

(* Two answers do not share data. *)
Apart(a, b) == a.idxStr \in Data => a.idxStr # b.idxStr

OneAnswer ==
  /\ \A a, b \in plans : a # b => Apart(a, b)
  /\ \A a \in plans, p \in Programs : Apart(a, p)
  /\ \A a \in plans \cup Programs : Apart(a, info)

(* The constraints of an answer are those its data lists, in that order,    *)
(* and only those are left unchecked.                                       *)
Lists(a) == a.args = Contents(a.idxStr) /\ a.omit \subseteq ToSet(a.args)

AnswersList == \A a \in plans \cup Programs : Lists(a)

(* There is an answer in the making only during best_index, and a cursor    *)
(* only while nothing is compiled.                                          *)
Phases ==
  /\ stage # "best_index" => info = NoAnswer
  /\ cursor # "closed" => stage = "idle" /\ program # None

Planned ==
  /\ QueryTypeOK
  /\ DataKnown
  /\ AnswersHaveData
  /\ OneAnswer
  /\ AnswersList
  /\ Phases

(* The rows of the result, and those a cursor of this answer goes through.  *)
Satisfying == {r \in Rows : \A c \in Constraints : r \in where[c]}
Taken(a)   == {r \in Rows : \A c \in ToSet(a.args) : r \in where[c]}

Scanned ==
  /\ cursor \in {"row", "done"} => rest # {} /\ rest \subseteq Taken(program)
  /\ cursor = "row" => found = Satisfying \ rest
  /\ cursor = "done" => found = Satisfying \ (rest \ {Current})
  /\ cursor = "eof" => found = Satisfying

-----------------------------------------------------------------------------
(****************************************************************************)
(* Lemmas about the operators of the model.                                 *)
(****************************************************************************)
(* An order of constraints names constraints, and none is one. *)
LEMMA OrderFacts ==
  /\ <<>> \in SetToAllKPermutations(Constraints)
  /\ \A S \in SUBSET Constraints :
       SetToAllKPermutations(S) \subseteq SetToAllKPermutations(Constraints)
  /\ \A f \in SetToAllKPermutations(Constraints) : ToSet(f) \subseteq Constraints
<1>1. <<>> \in SetToAllKPermutations(Constraints)
  <2>1. <<>> \in SetToSeqs({})
    <3>1. Cardinality({}) = 0
      BY FS_EmptySet
    <3> QED
      BY <3>1 DEF SetToSeqs
  <2> QED
    BY <2>1 DEF SetToAllKPermutations
<1>2. ASSUME NEW f \in SetToAllKPermutations(Constraints)
      PROVE  ToSet(f) \subseteq Constraints
  <2>1. PICK S \in SUBSET Constraints : f \in SetToSeqs(S)
    BY DEF SetToAllKPermutations
  <2>2. f \in [1..Cardinality(S) -> S]
    BY <2>1 DEF SetToSeqs
  <2> QED
    BY <2>2 DEF ToSet
<1>3. ASSUME NEW S \in SUBSET Constraints
      PROVE  SetToAllKPermutations(S) \subseteq SetToAllKPermutations(Constraints)
  BY DEF SetToAllKPermutations
<1> QED
  BY <1>1, <1>2, <1>3

(* The answer to begin with is one, and has no data. *)
LEMMA NoAnswerFacts ==
  NoAnswer \in Answers /\ NoAnswer.idxStr \notin Data /\ ~NoAnswer.needToFree
BY OrderFacts, IndexNoneAssumption DEF NoAnswer, Answers

-----------------------------------------------------------------------------
(****************************************************************************)
(* What the operations that free answers have in common.  Those in gone go, *)
(* the others keep their data, and no answer is forgotten.                  *)
(****************************************************************************)
SameData(a, b) == a.idxStr = b.idxStr /\ a.needToFree = b.needToFree

Settles(gone) ==
  /\ Free(gone)
  /\ info' = NoAnswer
  /\ \A a \in gone : HasData(a)
  /\ \A a \in plans' \cup Programs' : HasData(a) /\ Lists(a)
  /\ \A a \in plans' \cup Programs', b \in gone : Apart(a, b)
  /\ \A a, b \in plans' : a # b => Apart(a, b)
  /\ \A a \in plans', p \in Programs' : Apart(a, p)
  /\ \A a \in InUse : a.idxStr \in Data =>
       \E b \in gone \cup plans' \cup Programs' : SameData(a, b)

(* Freeing answers frees their data once, and leaves all other data alone. *)
LEMMA FreeFacts ==
  ASSUME QueryTypeOK, DataKnown, NEW gone, Free(gone), \A a \in gone : HasData(a)
  PROVE  /\ freed' \in [Data -> 0..1]
         /\ listed' \in [Data -> SetToAllKPermutations(Constraints) \cup {None}]
         /\ owned' = owned
         /\ DataKnown'
         /\ \A a \in gone : a.needToFree => freed'[a.idxStr] = 1
         /\ \A d \in Data : (\A a \in gone : a.idxStr # d)
                              => freed'[d] = freed[d] /\ listed'[d] = listed[d]
<1> DEFINE data == {a.idxStr : a \in {b \in gone : b.needToFree}}
<1>1. /\ freed' = [d \in Data |-> IF d \in data THEN freed[d] + 1 ELSE freed[d]]
      /\ listed' = [d \in Data |-> IF d \in data THEN <<>> ELSE listed[d]]
      /\ owned' = owned
  BY DEF Free
<1>2. \A d \in data : d \in Data /\ freed[d] = 0 /\ d \in owned
  BY DEF HasData
<1>3. \A a \in gone : a.needToFree => a.idxStr \in data
  OBVIOUS
<1>4. \A d \in Data : (\A a \in gone : a.idxStr # d) => d \notin data
  OBVIOUS
<1> HIDE DEF data
<1>5. \A d \in Data : freed[d] \in 0..1
  BY DEF QueryTypeOK
<1>6. freed' \in [Data -> 0..1]
  BY <1>1, <1>2, <1>5
<1>7. listed' \in [Data -> SetToAllKPermutations(Constraints) \cup {None}]
  BY <1>1, OrderFacts DEF QueryTypeOK
<1>8. <<>> # None
  BY OrderFacts, IndexNoneAssumption
<1>9. DataKnown'
  <2> SUFFICES ASSUME NEW d \in Data
               PROVE  /\ listed'[d] = None => d \notin owned /\ freed'[d] = 0
                      /\ freed'[d] # 0 => d \in owned
    BY <1>1 DEF DataKnown
  <2>1. CASE d \in data
    BY <1>1, <1>2, <1>8, <2>1
  <2>2. CASE d \notin data
    BY <1>1, <2>2 DEF DataKnown
  <2> QED
    BY <2>1, <2>2
<1>10. \A a \in gone : a.needToFree => freed'[a.idxStr] = 1
  BY <1>1, <1>2, <1>3
<1>11. \A d \in Data : (\A a \in gone : a.idxStr # d)
                         => freed'[d] = freed[d] /\ listed'[d] = listed[d]
  BY <1>1, <1>4
<1> QED
  BY <1>1, <1>6, <1>7, <1>9, <1>10, <1>11

(* The answers that stay have their data, and list what they listed. *)
LEMMA SettlesKeeps ==
  ASSUME Planned, NEW gone, Settles(gone), QueryTypeOK'
  PROVE  DataKnown' /\ AnswersHaveData' /\ OneAnswer' /\ AnswersList'
<1>1. /\ owned' = owned
      /\ DataKnown'
      /\ \A d \in Data : (\A a \in gone : a.idxStr # d)
                           => freed'[d] = freed[d] /\ listed'[d] = listed[d]
  BY FreeFacts DEF Planned, Settles
<1>2. /\ NoAnswer.idxStr \notin Data
      /\ NoAnswer.needToFree = FALSE
  BY NoAnswerFacts
<1>3. ASSUME NEW a \in plans' \cup Programs'
      PROVE  HasData(a)' /\ Lists(a)'
  <2>1. a.idxStr \in Data => /\ freed'[a.idxStr] = freed[a.idxStr]
                             /\ listed'[a.idxStr] = listed[a.idxStr]
    BY <1>1 DEF Settles, Apart
  <2>2. HasData(a) /\ Lists(a)
    BY DEF Settles
  <2>3. HasData(a)'
    BY <1>1, <2>1, <2>2 DEF HasData
  <2>4. a.idxStr = None \/ a.idxStr \in Data
    BY DEF QueryTypeOK, Answers, Programs
  <2> QED
    BY <2>1, <2>2, <2>3, <2>4, IndexNoneAssumption DEF Lists, Contents
<1>4. AnswersHaveData' /\ AnswersList'
  <2>1. HasData(info)'
    BY <1>2 DEF Settles, HasData
  <2> QED
    BY <1>3, <2>1 DEF AnswersHaveData, AnswersList, InUse
<1>5. OneAnswer'
  <2>1. \A a \in plans' \cup Programs' : Apart(a, info')
    BY <1>2 DEF Settles, Apart
  <2> QED
    BY <2>1 DEF Settles, OneAnswer, Apart
<1> QED
  BY <1>1, <1>4, <1>5

(* Data that SQLite owns is still referred to, or has been freed. *)
LEMMA SettlesAccounts ==
  ASSUME Planned, NEW gone, Settles(gone), NEW d \in owned, Referenced(d)
  PROVE  Referenced(d)' \/ freed'[d] = 1
<1>1. PICK a \in InUse : a.idxStr = d
  BY DEF Referenced, InUse
<1>2. d \in Data /\ HasData(a)
  BY <1>1 DEF Planned, QueryTypeOK, AnswersHaveData
<1>3. PICK b \in gone \cup plans' \cup Programs' : SameData(a, b)
  BY <1>1, <1>2 DEF Settles
<1>4. b.idxStr = d /\ b.needToFree
  BY <1>1, <1>2, <1>3 DEF HasData, SameData
<1>5. CASE b \in gone
  BY <1>4, <1>5, FreeFacts DEF Planned, Settles
<1>6. CASE b \in plans' \cup Programs'
  BY <1>4, <1>6 DEF Referenced
<1> QED
  BY <1>3, <1>5, <1>6
-----------------------------------------------------------------------------
(* What planning answers for: all but the cursor. *)
PlanTyped ==
  /\ stage \in {"idle", "planning", "best_index"}
  /\ usable \subseteq Constraints
  /\ info \in Answers
  /\ plans \subseteq Answers
  /\ program \in Answers \cup {None}

(* best_index returns: its answer is kept with the order its data lists, or *)
(* its data is freed. *)
LEMMA ReturnSettles ==
  ASSUME Planned, NEW args \in Orders, NEW res \in BOOLEAN, Return(args, res)
  PROVE  PlanTyped' /\ \E gone : Settles(gone)
<1>1. /\ args \in SetToAllKPermutations(Constraints) /\ ToSet(args) \subseteq Constraints
      /\ info \in Answers
  BY OrderFacts DEF Orders, Planned, QueryTypeOK
<1>2. info' = NoAnswer /\ info' \in Answers /\ Programs' = Programs /\ Programs \subseteq Answers
  BY NoAnswerFacts DEF Return, Programs, Planned, QueryTypeOK
<1>3. CASE best_index_impl(res) = "SQLITE_OK"
  <2>1. PICK omit \in SUBSET ToSet(args) :
          LET new == [info EXCEPT !.args = args, !.omit = omit] IN
            /\ plans' \in Kept(new)
            /\ Free(Dropped(new, plans'))
    BY <1>3 DEF Return
  <2> DEFINE new  == [info EXCEPT !.args = args, !.omit = omit]
             gone == Dropped(new, plans')
  <2>2. plans' \in Kept(new) /\ Free(gone)
    BY <2>1
  <2>3. /\ new \in Answers /\ SameData(info, new)
        /\ new.args = args /\ new.omit = omit
    BY <1>1 DEF Answers, SameData
  <2>4. args = Contents(info.idxStr)
    BY <1>3 DEF Return, best_index_impl
  <2> HIDE DEF new
  <2>5. HasData(new) /\ Lists(new)
    <3>1. HasData(info)
      BY DEF Planned, AnswersHaveData, InUse
    <3> QED
      BY <2>3, <2>4, <3>1 DEF HasData, Lists, SameData
  <2>6. \A a \in plans \cup Programs : Apart(a, new) /\ Apart(new, a)
    BY <2>3 DEF Planned, OneAnswer, Apart, SameData
  <2>7. plans' \cup gone = plans \cup {new} /\ plans' \cap gone = {}
    BY <2>2 DEF Kept, Dropped
  <2>8. \A a \in plans \cup {new} \cup Programs : HasData(a) /\ Lists(a)
    BY <2>5 DEF Planned, AnswersHaveData, AnswersList, InUse
  <2>9. \A a, b \in plans \cup {new} : a # b => Apart(a, b)
    BY <2>6 DEF Planned, OneAnswer
  <2>10. \A a \in plans \cup {new}, p \in Programs : Apart(a, p) /\ Apart(p, a)
    BY <2>6 DEF Planned, OneAnswer, Apart
  <2>11. \A a \in InUse : \E b \in gone \cup plans' \cup Programs' : SameData(a, b)
    BY <1>2, <2>3, <2>7 DEF InUse, SameData
  <2>12. plans' \subseteq Answers
    BY <2>3, <2>7 DEF Planned, QueryTypeOK
  <2>13. Settles(gone)
    BY <1>2, <2>2, <2>7, <2>8, <2>9, <2>10, <2>11 DEF Settles
  <2>14. PlanTyped'
    BY <1>2, <2>12 DEF PlanTyped, Return, Planned, QueryTypeOK
  <2> QED
    BY <2>13, <2>14
<1>4. CASE best_index_impl(res) # "SQLITE_OK"
  <2>1. Free({info}) /\ plans' = plans
    BY <1>4 DEF Return
  <2>2. Settles({info})
    BY <1>2, <2>1
       DEF Settles, Planned, AnswersHaveData, AnswersList, OneAnswer, InUse, SameData
  <2> QED
    BY <1>2, <2>1, <2>2 DEF PlanTyped, Return, Planned, QueryTypeOK
<1> QED
  BY <1>3, <1>4

(* Planning fails: no answer stays but the one that runs. *)
LEMMA PlanningFailsSettles ==
  ASSUME Planned, PlanningFails
  PROVE  PlanTyped' /\ Settles(plans \cup {info})
<1>1. /\ Free(plans \cup {info})
      /\ plans' = {} /\ info' = NoAnswer /\ usable' = {} /\ stage' = "idle"
      /\ program' = program /\ Programs' = Programs
  BY DEF PlanningFails, Programs
<1>2. PlanTyped'
  BY <1>1, NoAnswerFacts DEF PlanTyped, Planned, QueryTypeOK
<1>3. \A a \in Programs, b \in plans \cup {info} : Apart(a, b)
  BY DEF Planned, OneAnswer, Apart
<1>4. \A a \in InUse : SameData(a, a)
  BY DEF SameData
<1> QED
  BY <1>1, <1>2, <1>3, <1>4
     DEF Settles, Planned, AnswersHaveData, AnswersList, InUse

(* An answer is compiled, and is the only one that stays. *)
LEMMA CompileSettles ==
  ASSUME Planned, Compile
  PROVE  PlanTyped' /\ Settles((plans \ {program'}) \cup Programs)
<1> DEFINE gone == (plans \ {program'}) \cup Programs
<1>1. /\ Free(gone) /\ program' \in plans
      /\ plans' = {} /\ stage' = "idle" /\ UNCHANGED <<usable, info>>
  BY DEF Compile
<1>2. info = NoAnswer
  BY DEF Compile, Planned, Phases
<1>3. program' \in Answers /\ Programs' = {program'}
  BY <1>1, IndexNoneAssumption DEF Planned, QueryTypeOK, Programs
<1>4. PlanTyped'
  BY <1>1, <1>3 DEF PlanTyped, Planned, QueryTypeOK
<1>5. \A b \in gone : Apart(program', b)
  BY <1>1 DEF Planned, OneAnswer
<1>6. \A a \in InUse : a # info => a \in gone \cup {program'}
  BY DEF InUse
<1>7. \A a \in InUse : a.idxStr \in Data =>
        \E b \in gone \cup plans' \cup Programs' : SameData(a, b)
  BY <1>2, <1>3, <1>6, NoAnswerFacts DEF SameData
<1>8. \A a \in gone : HasData(a)
  BY DEF Planned, AnswersHaveData, InUse
<1>9. HasData(program') /\ Lists(program')
  BY <1>1 DEF Planned, AnswersHaveData, AnswersList, InUse
<1>10. Settles(gone)
  <2> HIDE DEF gone
  <2> QED
    BY <1>1, <1>2, <1>3, <1>5, <1>7, <1>8, <1>9 DEF Settles
<1> QED
  BY <1>4, <1>10
(* The statement goes, and its answer with it. *)
LEMMA FinalizeSettles ==
  ASSUME Planned, Finalize
  PROVE  PlanTyped' /\ Settles(Programs)
<1>1. /\ Free(Programs)
      /\ program' = None /\ Programs' = {}
      /\ UNCHANGED <<stage, usable, info, plans>>
  BY DEF Finalize, Programs
<1>2. info = NoAnswer
  BY DEF Finalize, Planned, Phases
<1>3. PlanTyped'
  BY <1>1 DEF PlanTyped, Planned, QueryTypeOK
<1>4. \A a \in InUse : a.idxStr \in Data =>
        \E b \in Programs \cup plans' \cup Programs' : SameData(a, b)
  BY <1>1, <1>2, NoAnswerFacts DEF InUse, SameData
<1>5. /\ \A a \in plans \cup Programs : HasData(a) /\ Lists(a)
      /\ \A a \in plans, b \in Programs : Apart(a, b)
      /\ \A a, b \in plans : a # b => Apart(a, b)
  BY DEF Planned, AnswersHaveData, AnswersList, OneAnswer, InUse
<1> HIDE DEF Programs
<1> QED
  BY <1>1, <1>2, <1>3, <1>4, <1>5 DEF Settles

-----------------------------------------------------------------------------
(* The cursor's part of the type invariant. *)
ScanTyped ==
  /\ where \in [Constraints -> SUBSET Rows]
  /\ cursor \in {"closed", "open", "row", "done", "eof"}
  /\ rest \subseteq Rows
  /\ found \subseteq Rows

(* What the operations that free answers leave of the cursor. *)
ScanApart ==
  /\ ScanTyped'
  /\ (stage # "best_index" => info = NoAnswer)'
  /\ cursor' # "closed" => stage' = "idle" /\ program' # None

(* Planning keeps what it keeps. *)
LEMMA SettlesPlanned ==
  ASSUME Planned, NEW gone, Settles(gone), PlanTyped', ScanApart
  PROVE  Planned'
<1>1. QueryTypeOK'
  BY FreeFacts DEF PlanTyped, ScanApart, ScanTyped, Planned, QueryTypeOK, Settles
<1>2. Phases'
  BY DEF ScanApart, Phases
<1> QED
  BY <1>1, <1>2, SettlesKeeps DEF Planned

(* What an operation that frees nothing and sets nothing keeps. *)
LEMMA PlanUnchanged ==
  ASSUME Planned, UNCHANGED <<plans, program, listed, owned, freed>>,
         info' = info \/ info' = NoAnswer, PlanTyped', ScanTyped', Phases'
  PROVE  Planned'
<1>1. QueryTypeOK'
  BY DEF PlanTyped, ScanTyped, Planned, QueryTypeOK
<1>2. DataKnown' /\ AnswersList' /\ Programs' = Programs
  BY DEF Planned, DataKnown, AnswersList, Lists, Contents, Programs
<1>3. info'.idxStr \in Data \/ info'.needToFree => info' = info
  BY NoAnswerFacts
<1>4. AnswersHaveData'
  <2>1. \A a \in plans \cup Programs : HasData(a)'
    BY DEF Planned, AnswersHaveData, InUse, HasData
  <2>2. HasData(info)'
    BY <1>3 DEF Planned, AnswersHaveData, InUse, HasData
  <2> QED
    BY <1>2, <2>1, <2>2 DEF AnswersHaveData, InUse
<1>5. OneAnswer'
  BY <1>2, NoAnswerFacts DEF Planned, OneAnswer, Apart
<1> QED
  BY <1>1, <1>2, <1>4, <1>5 DEF Planned

(* New data belongs to the answer in the making, and to no other. *)
LEMMA SetIndexDataKeeps ==
  ASSUME Planned, NEW d \in Data, NEW allocated \in BOOLEAN, NEW order \in Orders,
         SetIndexData(d, allocated, order)
  PROVE  Planned'
<1>1. /\ stage = "best_index" /\ listed[d] = None
      /\ listed' = [listed EXCEPT ![d] = order]
      /\ owned' = IF allocated THEN owned \cup {d} ELSE owned
      /\ info' = [info EXCEPT !.idxStr = d, !.needToFree = allocated]
      /\ UNCHANGED <<stage, usable, plans, program, freed, scan>>
  BY DEF SetIndexData, set_index_data
<1>2. order \in SetToAllKPermutations(Constraints) /\ order # None
  BY OrderFacts, IndexNoneAssumption DEF Orders, Planned, QueryTypeOK
<1>3. /\ info' \in Answers /\ info'.idxStr = d /\ info'.needToFree = allocated
  BY <1>1 DEF Planned, QueryTypeOK, Answers
<1>4. /\ d \notin owned /\ freed[d] = 0
      /\ \A a \in InUse : a.idxStr # d
  BY <1>1 DEF Planned, DataKnown, AnswersHaveData, HasData
<1>5. /\ listed' \in [Data -> SetToAllKPermutations(Constraints) \cup {None}]
      /\ listed'[d] = order
      /\ \A e \in Data \ {d} : listed'[e] = listed[e] /\ (e \in owned' <=> e \in owned)
      /\ d \in owned' <=> allocated
  BY <1>1, <1>2, <1>4 DEF Planned, QueryTypeOK
<1>6. QueryTypeOK'
  BY <1>1, <1>3, <1>5 DEF Planned, QueryTypeOK, scan
<1>7. DataKnown'
  BY <1>1, <1>2, <1>4, <1>5 DEF Planned, DataKnown
<1>8. Programs' = Programs
  BY <1>1 DEF Programs
<1>9. AnswersHaveData'
  <2>1. \A a \in plans \cup Programs : HasData(a)'
    BY <1>1, <1>4, <1>5 DEF Planned, AnswersHaveData, InUse, HasData
  <2>2. HasData(info)'
    BY <1>1, <1>2, <1>3, <1>4, <1>5 DEF HasData
  <2> QED
    BY <1>1, <1>8, <2>1, <2>2 DEF AnswersHaveData, InUse
<1>10. OneAnswer'
  BY <1>1, <1>3, <1>4, <1>8 DEF Planned, OneAnswer, Apart, InUse
<1>11. AnswersList'
  <2> SUFFICES ASSUME NEW a \in plans \cup Programs
               PROVE  Lists(a)'
    BY <1>1, <1>8 DEF AnswersList
  <2>1. a.idxStr # d /\ a.idxStr \in Data \cup {None}
    BY <1>4 DEF InUse, Planned, QueryTypeOK, Answers, Programs
  <2> QED
    BY <1>5, <2>1 DEF Planned, AnswersList, Lists, Contents
<1>12. Phases'
  BY <1>1 DEF Planned, Phases, scan
<1> QED
  BY <1>6, <1>7, <1>9, <1>10, <1>11, <1>12 DEF Planned
(* The operations that free answers keep the plan. *)
LEMMA FreeingKeeps ==
  ASSUME Planned,
         \/ \E args \in Orders, res \in BOOLEAN : Return(args, res)
         \/ PlanningFails \/ Compile \/ Finalize
  PROVE  /\ \E gone : Settles(gone)
         /\ Planned'
         /\ cursor' = "closed"
<1>1. /\ PlanTyped'
      /\ \E gone : Settles(gone)
  BY ReturnSettles, PlanningFailsSettles, CompileSettles, FinalizeSettles
<1>2. /\ ScanTyped'
      /\ cursor' = "closed"
  <2>1. CASE Finalize
    BY <2>1 DEF Finalize, Closed, NoValues, ScanTyped
  <2>2. CASE ~Finalize
    <3>1. stage # "idle" /\ UNCHANGED scan
      BY <2>2 DEF Return, PlanningFails, Compile
    <3> QED
      BY <3>1 DEF Planned, QueryTypeOK, Phases, ScanTyped, scan
  <2> QED
    BY <2>1, <2>2
<1>3. ScanApart
  <2>1. (stage # "best_index" => info = NoAnswer)'
    BY DEF Return, PlanningFails, Compile, Finalize, Planned, Phases
  <2> QED
    BY <1>2, <2>1 DEF ScanApart
<1> QED
  BY <1>1, <1>2, <1>3, SettlesPlanned

(* A statement begins to be compiled, and best_index is called. *)
LEMMA BeginKeeps ==
  ASSUME Planned, Prepare \/ CallBestIndex
  PROVE  Planned' /\ cursor' = "closed"
<1>1. /\ UNCHANGED <<plans, program, listed, owned, freed, scan>>
      /\ info' = info \/ info' = NoAnswer
      /\ cursor = "closed"
  BY DEF Prepare, CallBestIndex, Planned, Phases
<1>2. PlanTyped'
  BY NoAnswerFacts DEF Prepare, CallBestIndex, Planned, QueryTypeOK, PlanTyped
<1>3. ScanTyped' /\ Phases'
  BY <1>1 DEF Prepare, CallBestIndex, Planned, QueryTypeOK, ScanTyped, Phases, scan
<1> QED
  BY <1>1, <1>2, <1>3, PlanUnchanged DEF scan

(* The cursor is at one of the rows it has left. *)
LEMMA CurrentRow ==
  ASSUME Planned, rest # {}
  PROVE  Current \in rest /\ Current \in Rows
BY RowsAssumption, MinFacts DEF Planned, QueryTypeOK, Current

(* The cursor moves, and the plan stays. *)
LEMMA CursorKeeps ==
  ASSUME Planned, Scanned, Open \/ Filter \/ Column \/ NextRow \/ CloseCursor
  PROVE  Planned'
<1>1. UNCHANGED plan
  BY DEF Open, Filter, Column, NextRow, CloseCursor
<1>2. cursor' # "closed" => stage = "idle" /\ program # None
  BY DEF Open, Filter, Column, NextRow, CloseCursor, Closed, Planned, Phases
<1>3. ScanTyped'
  <2>1. CASE Open \/ CloseCursor
    BY <2>1 DEF Open, CloseCursor, Closed, NoValues, Planned, QueryTypeOK, ScanTyped
  <2>2. CASE Filter
    BY <2>2 DEF Filter, Selected, At, Planned, QueryTypeOK, ScanTyped
  <2>3. CASE NextRow
    BY <2>3 DEF NextRow, At, Planned, QueryTypeOK, ScanTyped
  <2>4. CASE Column
    <3>1. Current \in Rows
      BY <2>4, CurrentRow DEF Column, Scanned
    <3> QED
      BY <2>4, <3>1 DEF Column, Planned, QueryTypeOK, ScanTyped
  <2> QED
    BY <2>1, <2>2, <2>3, <2>4
<1> QED
  BY <1>1, <1>2, <1>3, PlanUnchanged DEF plan, Planned, QueryTypeOK, PlanTyped, Phases
-----------------------------------------------------------------------------
(* The rows a cursor goes through are those its answer has taken: its data  *)
(* lists the constraints the arguments are for, in that order. *)
LEMMA SelectedRows ==
  ASSUME Planned, program # None, NEW values
  PROVE  Selected(filter_impl(program.idxStr), program.args, values) =
           {r \in Rows : \A c \in ToSet(program.args) : r \in values[c]}
<1>1. program.args = Contents(program.idxStr)
  BY DEF Planned, AnswersList, Lists, Programs
<1> QED
  BY <1>1 DEF Selected, filter_impl, ToSet

(* What SQLite does not check was taken by the table. *)
LEMMA CheckedRows ==
  ASSUME Planned, program # None
  PROVE  /\ Satisfying \subseteq Taken(program)
         /\ \A r \in Taken(program) :
              r \in Satisfying <=> \A c \in Constraints \ program.omit : r \in where[c]
<1>1. ToSet(program.args) \subseteq Constraints /\ program.omit \subseteq ToSet(program.args)
  BY OrderFacts DEF Planned, QueryTypeOK, Answers, AnswersList, Lists, Programs
<1> QED
  BY <1>1 DEF Satisfying, Taken

(* What the cursor has passed of the rows of the result has been found. *)
LEMMA CursorScans ==
  ASSUME Planned, Scanned, Open \/ Filter \/ Column \/ NextRow \/ CloseCursor
  PROVE  Scanned'
<1>1. CASE Open \/ CloseCursor
  BY <1>1 DEF Open, CloseCursor, Closed, Scanned
<1>2. CASE Filter
  <2>1. program # None /\ program' = program
    BY <1>2 DEF Filter, Planned, Phases, plan
  <2>2. rest' = Taken(program)'
    BY <1>2, <2>1, SelectedRows DEF Filter, Taken
  <2>3. Planned'
    BY <1>2, CursorKeeps
  <2>4. Satisfying' \subseteq Taken(program)'
    BY <2>1, <2>3, CheckedRows, OrderFacts DEF Planned, QueryTypeOK, Answers, Satisfying, Taken
  <2>5. /\ cursor' = IF rest' = {} THEN "eof" ELSE "row"
        /\ found' = {}
    BY <1>2 DEF Filter, At, eof
  <2> QED
    BY <2>1, <2>2, <2>4, <2>5 DEF Scanned, Taken
<1>3. CASE Column
  <2>1. /\ cursor = "row" /\ cursor' = "done"
        /\ UNCHANGED <<plan, where, rest>>
        /\ found' = IF \A c \in Constraints \ program.omit : Current \in where[c]
                    THEN found \cup {Current} ELSE found
    BY <1>3 DEF Column
  <2>2. /\ program # None /\ rest # {} /\ rest \subseteq Taken(program)
        /\ found = Satisfying \ rest
    BY <2>1 DEF Planned, Phases, Scanned
  <2>3. Current \in rest
    BY <2>2, CurrentRow
  <2>4. Current \in Satisfying <=> \A c \in Constraints \ program.omit : Current \in where[c]
    BY <2>2, <2>3, CheckedRows
  <2>5. found' = Satisfying \ (rest \ {Current})
    BY <2>1, <2>2, <2>3, <2>4
  <2>6. Satisfying' = Satisfying /\ Current' = Current /\ Taken(program)' = Taken(program)
    BY <2>1 DEF Satisfying, Current, Taken, plan
  <2> QED
    BY <2>1, <2>2, <2>5, <2>6 DEF Scanned
<1>4. CASE NextRow
  <2>1. /\ cursor = "done"
        /\ rest' = rest \ {Current}
        /\ cursor' = IF rest' = {} THEN "eof" ELSE "row"
        /\ UNCHANGED <<plan, where, found>>
    BY <1>4 DEF NextRow, At, eof
  <2>2. Satisfying' = Satisfying /\ Taken(program)' = Taken(program)
    BY <2>1 DEF Satisfying, Taken, plan
  <2> QED
    BY <2>1, <2>2 DEF Scanned
<1> QED
  BY <1>1, <1>2, <1>3, <1>4

-----------------------------------------------------------------------------
(* At first there are no answers. *)
LEMMA InitPlanned == QueryInit => Planned /\ Scanned
<1> SUFFICES ASSUME QueryInit PROVE Planned /\ Scanned
  OBVIOUS
<1>1. QueryTypeOK
  BY NoAnswerFacts DEF QueryInit, QueryTypeOK, NoValues
<1>2. DataKnown
  BY DEF QueryInit, DataKnown
<1>3. InUse = {NoAnswer} /\ Programs = {}
  BY DEF QueryInit, InUse, Programs
<1>4. AnswersHaveData /\ OneAnswer /\ AnswersList
  BY <1>3, NoAnswerFacts DEF QueryInit, AnswersHaveData, HasData, OneAnswer, AnswersList
<1>5. Phases /\ Scanned
  BY DEF QueryInit, Phases, Scanned
<1> QED
  BY <1>1, <1>2, <1>4, <1>5 DEF Planned

(* Every step keeps the plan and the scan. *)
LEMMA NextPlanned == Planned /\ Scanned /\ [QueryNext]_queryVars => Planned' /\ Scanned'
<1> SUFFICES ASSUME Planned, Scanned, [QueryNext]_queryVars PROVE Planned' /\ Scanned'
  OBVIOUS
<1>1. CASE \/ \E args \in Orders, res \in BOOLEAN : Return(args, res)
           \/ PlanningFails \/ Compile \/ Finalize
  BY <1>1, FreeingKeeps DEF Scanned
<1>2. CASE Prepare \/ CallBestIndex
  BY <1>2, BeginKeeps DEF Scanned
<1>3. CASE \E d \in Data, allocated \in BOOLEAN, order \in Orders :
             SetIndexData(d, allocated, order)
  <2>1. cursor' = "closed"
    BY <1>3 DEF SetIndexData, scan, Planned, Phases
  <2> QED
    BY <1>3, <2>1, SetIndexDataKeeps DEF Scanned
<1>4. CASE Open \/ Filter \/ Column \/ NextRow \/ CloseCursor
  BY <1>4, CursorKeeps, CursorScans
<1>5. CASE UNCHANGED queryVars
  <2>1. Planned'
    BY <1>5, PlanUnchanged
       DEF queryVars, plan, scan, Planned, QueryTypeOK, PlanTyped, ScanTyped, Phases
  <2> QED
    BY <1>5, <2>1 DEF queryVars, plan, scan, Scanned, Satisfying, Taken, Current
<1> QED
  BY <1>1, <1>2, <1>3, <1>4, <1>5 DEF QueryNext

(* Every datum belongs to one answer at most, which lists what it says, and *)
(* a scan has found what it has passed. *)
THEOREM AlwaysPlanned == QuerySpec => [](Planned /\ Scanned)
BY InitPlanned, NextPlanned, PTL DEF QuerySpec

(* What the planner and the cursor hold is what it should be, and no data   *)
(* is freed twice. *)
THEOREM QueryTypeCorrect == QuerySpec => []QueryTypeOK
<1>1. Planned /\ Scanned => QueryTypeOK
  BY DEF Planned
<1> QED
  BY <1>1, AlwaysPlanned, PTL

(* A scan that has come to its end has returned the rows that satisfy all   *)
(* constraints, whichever of its answers SQLite has compiled. *)
THEOREM ScansReturnTheRightRows == QuerySpec => []RightRows
<1>1. Planned /\ Scanned => RightRows
  BY DEF Scanned, RightRows, Satisfying
<1> QED
  BY <1>1, AlwaysPlanned, PTL

(* Index data is freed when the last answer lets go of it, and not before,  *)
(* but for data that a second call of set_index_data has replaced. *)
THEOREM IndexDataLifetimes == QuerySpec => DataLifetimes
<1> DEFINE NotFreed == \A d \in Data : Referenced(d) \/ d \notin owned => freed[d] = 0
           Freed == \A d \in owned : Referenced(d) =>
                      \/ Referenced(d)'
                      \/ freed'[d] = 1
                      \/ stage = "best_index" /\ info.idxStr = d /\ info'.idxStr \notin {d, None}
<1>1. Planned /\ Scanned => NotFreed
  BY DEF Planned, DataKnown, AnswersHaveData, HasData, InUse, Referenced
<1>2. Planned /\ Scanned /\ [QueryNext]_queryVars => [Freed]_queryVars
  <2> SUFFICES ASSUME Planned, Scanned, QueryNext, NEW d \in owned, Referenced(d)
               PROVE  \/ Referenced(d)'
                      \/ freed'[d] = 1
                      \/ stage = "best_index" /\ info.idxStr = d /\ info'.idxStr \notin {d, None}
    OBVIOUS
  <2>1. CASE \/ \E args \in Orders, res \in BOOLEAN : Return(args, res)
             \/ PlanningFails \/ Compile \/ Finalize
    BY <2>1, FreeingKeeps, SettlesAccounts
  <2>2. CASE UNCHANGED <<plans, program, info>>
    BY <2>2 DEF Referenced, Programs
  <2>3. CASE CallBestIndex
    <3>1. info = NoAnswer /\ info' = NoAnswer /\ UNCHANGED <<plans, program>>
      BY <2>3 DEF CallBestIndex, Planned, Phases
    <3> QED
      BY <3>1 DEF Referenced, Programs
  <2>4. CASE \E e \in Data, allocated \in BOOLEAN, order \in Orders :
               SetIndexData(e, allocated, order)
    <3>1. PICK e \in Data, allocated \in BOOLEAN, order \in Orders :
            SetIndexData(e, allocated, order)
      BY <2>4
    <3>2. /\ stage = "best_index" /\ listed[e] = None
          /\ info'.idxStr = e
          /\ UNCHANGED <<plans, program>>
      BY <3>1 DEF SetIndexData, set_index_data, Planned, QueryTypeOK, Answers
    <3>3. PICK a \in InUse : a.idxStr = d
      BY DEF Referenced, InUse
    <3>4. CASE a = info
      <4>1. d # e /\ e # None
        BY <3>2, IndexNoneAssumption DEF Planned, DataKnown
      <4> QED
        BY <3>2, <3>3, <3>4, <4>1
    <3>5. CASE a \in plans \cup Programs
      BY <3>2, <3>3, <3>5 DEF Referenced, Programs
    <3> QED
      BY <3>4, <3>5 DEF InUse
  <2>5. CASE Prepare \/ Open \/ Filter \/ Column \/ NextRow \/ CloseCursor
    BY <2>2, <2>5 DEF Prepare, Open, Filter, Column, NextRow, CloseCursor, plan
  <2> QED
    BY <2>1, <2>3, <2>4, <2>5 DEF QueryNext
<1> QED
  BY <1>1, <1>2, AlwaysPlanned, PTL DEF QuerySpec, DataLifetimes

==============================================================================
