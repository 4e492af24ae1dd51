------------------------- MODULE StatementUseProofs -------------------------
(****************************************************************************)
(* Proofs about StatementUse, for any number of statements, guards, rows    *)
(* and values.  A statement belongs to one guard at a time, and a loop to   *)
(* the guard's statement: what happens through one guard leaves the         *)
(* statements of the others alone.                                          *)
(****************************************************************************)
EXTENDS StatementUse, TLAPS

(* No two guards refer to the same statement. *)
OneGuard == \A g, h \in Guards : st[g] \in Stmts /\ st[g] = st[h] => g = h

(* A loop runs over the statement of its guard. *)
LoopOverGuarded ==
  \A g \in Guards :
    \/ range[g] = NoObject /\ it[g] = NoObject
    \/ /\ st[g] \in Stmts
       /\ range[g] \in {st[g], Null}
       /\ it[g] \in {st[g], Null}
       /\ passes[g] > 0

Exclusive ==
  /\ TypeOK
  /\ OneGuard
  /\ LoopOverGuarded
  /\ FirstPassHasRow

(* A statement that no guard refers to has no bindings left. *)
UnboundWhenUnguarded == \A s \in Stmts : ~Guarded(s) => param[s] = Null

Fresh   == ReadyWhenUnguarded /\ EachRowOnce
Cleared == UnboundWhenUnguarded /\ NoForeignValue

(****************************************************************************)
(* What a step of the statement s does: other statements keep their state,  *)
(* and rows are counted as they come.                                       *)
(****************************************************************************)
Advances(s) ==
  /\ state' \in [Stmts -> {"ready", "run", "halt"}]
  /\ pos' \in [Stmts -> Nat]
  /\ got' \in [Stmts -> Nat]
  /\ \A r \in Stmts \ {s} : state'[r] = state[r] /\ pos'[r] = pos[r] /\ got'[r] = got[r]
  /\ got[s] = pos[s] => got'[s] = pos'[s]
  /\ UNCHANGED <<param, bound>>

(* Stepping a statement, whatever comes of it, advances that statement. *)
LEMMA StepAdvances ==
  ASSUME TypeOK, NEW s \in Stmts, StepRow(s) \/ StepDone(s) \/ StepThrows(s)
  PROVE  Advances(s)
<1> USE RowsAssumption DEF TypeOK, Advances, Resumed
<1>1. CASE StepRow(s)
  BY <1>1 DEF StepRow
<1>2. CASE StepDone(s)
  BY <1>2 DEF StepDone
<1>3. CASE StepFails(s)
  BY <1>3 DEF StepFails
<1>4. CASE StepBusy(s)
  BY <1>4 DEF StepBusy
<1> QED
  BY <1>1, <1>2, <1>3, <1>4 DEF StepThrows

(* A call made through a guard that runs no loop, on its own statement. *)
Through(g) ==
  /\ Usable(g)
  /\ state' \in [Stmts -> {"ready", "run", "halt"}]
  /\ pos' \in [Stmts -> Nat]
  /\ param' \in [Stmts -> Values \cup {Null}]
  /\ got' \in [Stmts -> Nat]
  /\ bound' \in [Stmts -> BOOLEAN]
  /\ \A r \in Stmts \ {st[g]} : /\ state'[r] = state[r]
                                /\ pos'[r] = pos[r]
                                /\ param'[r] = param[r]
                                /\ got'[r] = got[r]
                                /\ bound'[r] = bound[r]
  /\ got[st[g]] = pos[st[g]] => got'[st[g]] = pos'[st[g]]
  /\ (param[st[g]] # Null => bound[st[g]]) => (param'[st[g]] # Null => bound'[st[g]])
  /\ UNCHANGED <<st, loop>>

(* step is such a call. *)
LEMMA StepThrough ==
  ASSUME TypeOK, NEW g \in Guards, Step(g)
  PROVE  Through(g)
<1>1. Usable(g) /\ st[g] \in Stmts /\ UNCHANGED <<st, loop>>
  BY DEF Step, Usable
<1>2. Advances(st[g])
  BY <1>1, StepAdvances DEF Step
<1> QED
  BY <1>1, <1>2 DEF Through, Advances, TypeOK

(* reset is such a call. *)
LEMMA ResetThrough ==
  ASSUME TypeOK, NEW g \in Guards, Reset(g)
  PROVE  Through(g)
  BY DEF Reset, Through, Usable, TypeOK

(* bind is such a call. *)
LEMMA BindThrough ==
  ASSUME TypeOK, NEW g \in Guards, NEW v \in Values, Bind(g, v)
  PROVE  Through(g)
  BY DEF Bind, Through, Usable, TypeOK

(* clear_bindings is such a call. *)
LEMMA ClearBindingsThrough ==
  ASSUME TypeOK, NEW g \in Guards, ClearBindings(g)
  PROVE  Through(g)
  BY DEF ClearBindings, Through, Usable, TypeOK

(* Such a call preserves everything: no other guard, and no loop, sees it. *)
LEMMA ThroughKeeps ==
  ASSUME Exclusive, NEW g \in Guards, Through(g)
  PROVE  /\ Exclusive'
         /\ Fresh => Fresh'
         /\ Cleared => Cleared'
<1> USE NullAssumption DEF Through, Usable, loop
<1>1. TypeOK'
  BY DEF Exclusive, TypeOK, Iterators
<1>2. OneGuard' /\ LoopOverGuarded'
  BY DEF Exclusive, OneGuard, LoopOverGuarded
<1>3. FirstPassHasRow'
  BY DEF Exclusive, OneGuard, LoopOverGuarded, FirstPassHasRow, HasRow
<1>4. \A s \in Stmts : Guarded(s)' <=> Guarded(s)
  BY DEF Guarded
<1>5. Fresh => Fresh'
  BY <1>4 DEF Fresh, ReadyWhenUnguarded, EachRowOnce, Guarded
<1>6. Cleared => Cleared'
  BY <1>4 DEF Cleared, UnboundWhenUnguarded, NoForeignValue, Guarded
<1> QED
  BY <1>1, <1>2, <1>3, <1>5, <1>6 DEF Exclusive

-----------------------------------------------------------------------------
(* A new guard refers to a statement that had none. *)
LEMMA ConstructKeeps ==
  ASSUME Exclusive, NEW g \in Guards, NEW s \in Stmts, Construct(g, s)
  PROVE  /\ Exclusive'
         /\ Fresh => Fresh'
         /\ Cleared => Cleared'
<1> USE NullAssumption DEF Construct, loop
<1>1. TypeOK'
  BY DEF Exclusive, TypeOK, Iterators
<1>2. OneGuard' /\ LoopOverGuarded'
  BY DEF Exclusive, OneGuard, LoopOverGuarded, TypeOK, Guarded
<1>3. FirstPassHasRow'
  BY DEF Exclusive, FirstPassHasRow, HasRow
<1>4. \A r \in Stmts : Guarded(r)' <=> Guarded(r) \/ r = s
  BY DEF Guarded, Exclusive, TypeOK
<1>5. Fresh => Fresh'
  BY <1>4 DEF Fresh, ReadyWhenUnguarded, EachRowOnce, Exclusive, TypeOK
<1>6. Cleared => Cleared'
  BY <1>4 DEF Cleared, UnboundWhenUnguarded, NoForeignValue, Exclusive, TypeOK
<1> QED
  BY <1>1, <1>2, <1>3, <1>5, <1>6 DEF Exclusive

(* A guard without a statement changes nothing for anybody. *)
LEMMA ConstructEmptyKeeps ==
  ASSUME Exclusive, NEW g \in Guards, ConstructEmpty(g)
  PROVE  /\ Exclusive'
         /\ Fresh => Fresh'
         /\ Cleared => Cleared'
<1> USE NullAssumption DEF ConstructEmpty, loop, statement
<1>1. TypeOK'
  BY DEF Exclusive, TypeOK, Iterators
<1>2. OneGuard' /\ LoopOverGuarded' /\ FirstPassHasRow'
  BY DEF Exclusive, OneGuard, LoopOverGuarded, TypeOK, FirstPassHasRow, HasRow
<1>3. \A r \in Stmts : Guarded(r)' <=> Guarded(r)
  BY DEF Guarded, Exclusive, TypeOK
<1>4. (Fresh => Fresh') /\ (Cleared => Cleared')
  BY <1>3 DEF Fresh, ReadyWhenUnguarded, EachRowOnce, Cleared, UnboundWhenUnguarded,
              NoForeignValue
<1> QED
  BY <1>1, <1>2, <1>4 DEF Exclusive

(****************************************************************************)
(* destroy, when no loop runs under the guard g whose statement it gets:    *)
(* the other statements keep everything.                                    *)
(****************************************************************************)
LEMMA DestroyFacts ==
  ASSUME TypeOK, NEW g \in Guards, destroy(st[g])
  PROVE  /\ state' \in [Stmts -> {"ready", "run", "halt"}]
         /\ pos' \in [Stmts -> Nat]
         /\ param' \in [Stmts -> Values \cup {Null}]
         /\ UNCHANGED <<got, bound>>
         /\ \A r \in Stmts \ {st[g]} : /\ state'[r] = state[r]
                                       /\ pos'[r] = pos[r]
                                       /\ param'[r] = param[r]
         /\ st[g] \in Stmts /\ "reset" \in Flags =>
              state'[st[g]] = "ready" /\ pos'[st[g]] = 0
         /\ st[g] \in Stmts /\ "clear_bindings" \in Flags => param'[st[g]] = Null
  BY DEF destroy, ToReset, ToClear, TypeOK

(* A guard that goes leaves its statement clean, as its flags say. *)
LEMMA DestructKeeps ==
  ASSUME Exclusive, NEW g \in Guards, Destruct(g)
  PROVE  /\ Exclusive'
         /\ "reset" \in Flags /\ Fresh => Fresh'
         /\ "clear_bindings" \in Flags /\ Cleared => Cleared'
<1> USE NullAssumption DEF loop
<1>1. destroy(st[g]) /\ UNCHANGED loop /\ st' = [st EXCEPT ![g] = NoObject]
      /\ range[g] = NoObject /\ it[g] = NoObject
  BY DEF Destruct, Exclusive, LoopOverGuarded
<1>2. TypeOK'
  BY <1>1, DestroyFacts DEF Exclusive, TypeOK, Iterators
<1>3. OneGuard' /\ LoopOverGuarded'
  BY <1>1 DEF Exclusive, OneGuard, LoopOverGuarded, TypeOK
<1>4. FirstPassHasRow'
  BY <1>1, DestroyFacts DEF Exclusive, FirstPassHasRow, HasRow, OneGuard, LoopOverGuarded
<1>5. \A r \in Stmts : Guarded(r)' <=> Guarded(r) /\ r # st[g]
  BY <1>1 DEF Guarded, Exclusive, TypeOK, OneGuard
<1>6. "reset" \in Flags /\ Fresh => Fresh'
  BY <1>1, <1>5, DestroyFacts DEF Fresh, ReadyWhenUnguarded, EachRowOnce, Exclusive
<1>7. "clear_bindings" \in Flags /\ Cleared => Cleared'
  BY <1>1, <1>5, DestroyFacts DEF Cleared, UnboundWhenUnguarded, NoForeignValue, Exclusive
<1> QED
  BY <1>2, <1>3, <1>4, <1>6, <1>7 DEF Exclusive

(* A move takes the statement along. *)
LEMMA MoveConstructKeeps ==
  ASSUME Exclusive, NEW g \in Guards, NEW h \in Guards, MoveConstruct(g, h)
  PROVE  /\ Exclusive'
         /\ Fresh => Fresh'
         /\ Cleared => Cleared'
<1> USE NullAssumption DEF MoveConstruct, MovedFrom, loop, statement
<1>1. TypeOK'
  BY DEF Exclusive, TypeOK, Iterators
<1>2. it[g] = NoObject /\ it[h] = NoObject /\ range[g] = NoObject
  BY DEF Exclusive, LoopOverGuarded
<1>3. OneGuard' /\ LoopOverGuarded'
  BY <1>2 DEF Exclusive, OneGuard, LoopOverGuarded, TypeOK
<1>4. FirstPassHasRow'
  BY DEF Exclusive, FirstPassHasRow, HasRow
<1>5. \A r \in Stmts : Guarded(r)' <=> Guarded(r)
  BY DEF Guarded, Exclusive, TypeOK
<1>6. (Fresh => Fresh') /\ (Cleared => Cleared')
  BY <1>5 DEF Fresh, ReadyWhenUnguarded, EachRowOnce, Cleared, UnboundWhenUnguarded,
              NoForeignValue
<1> QED
  BY <1>1, <1>3, <1>4, <1>6 DEF Exclusive

(* An assignment leaves one statement clean and takes the other along. *)
LEMMA MoveAssignKeeps ==
  ASSUME Exclusive, NEW g \in Guards, NEW h \in Guards, MoveAssign(g, h)
  PROVE  /\ Exclusive'
         /\ "reset" \in Flags /\ Fresh => Fresh'
         /\ "clear_bindings" \in Flags /\ Cleared => Cleared'
<1> USE NullAssumption DEF loop, MovedFrom
<1>1. /\ destroy(st[g]) /\ UNCHANGED loop
      /\ st' = [st EXCEPT ![g] = st[h], ![h] = Null]
      /\ g # h /\ st[h] # NoObject
      /\ range[g] = NoObject /\ it[g] = NoObject /\ range[h] = NoObject /\ it[h] = NoObject
  BY DEF MoveAssign, Exclusive, LoopOverGuarded
<1>2. TypeOK'
  BY <1>1, DestroyFacts DEF Exclusive, TypeOK, Iterators
<1>3. OneGuard' /\ LoopOverGuarded'
  BY <1>1 DEF Exclusive, OneGuard, LoopOverGuarded, TypeOK
<1>4. FirstPassHasRow'
  BY <1>1, DestroyFacts DEF Exclusive, FirstPassHasRow, HasRow, OneGuard, LoopOverGuarded
<1>5. \A r \in Stmts : Guarded(r)' <=> Guarded(r) /\ r # st[g]
  BY <1>1 DEF Guarded, Exclusive, TypeOK, OneGuard
<1>6. "reset" \in Flags /\ Fresh => Fresh'
  BY <1>1, <1>5, DestroyFacts DEF Fresh, ReadyWhenUnguarded, EachRowOnce, Exclusive
<1>7. "clear_bindings" \in Flags /\ Cleared => Cleared'
  BY <1>1, <1>5, DestroyFacts DEF Cleared, UnboundWhenUnguarded, NoForeignValue, Exclusive
<1> QED
  BY <1>2, <1>3, <1>4, <1>6, <1>7 DEF Exclusive

-----------------------------------------------------------------------------
(* A step of the statement of guard g that a loop makes: what it may do to  *)
(* the loop is for the range and the iterator of g only.                    *)
InLoop(g) ==
  /\ st[g] \in Stmts
  /\ Advances(st[g])
  /\ range' \in [Guards -> Iterators]
  /\ it' \in [Guards -> Iterators]
  /\ passes' \in [Guards -> 0..Passes]
  /\ \A h \in Guards \ {g} : /\ range'[h] = range[h]
                             /\ it'[h] = it[h]
                             /\ passes'[h] = passes[h]
  /\ \/ range'[g] = NoObject /\ it'[g] = NoObject
     \/ range'[g] \in {st[g], Null} /\ it'[g] \in {st[g], Null} /\ passes'[g] > 0
  /\ it'[g] \in Stmts /\ passes'[g] = 1 => state'[st[g]] = "run" /\ pos'[st[g]] > 0
  /\ UNCHANGED st

(* Making a range is such a step. *)
LEMMA BeginLoopInLoop ==
  ASSUME Exclusive, NEW g \in Guards, BeginLoop(g)
  PROVE  InLoop(g)
<1> USE NullAssumption, PassesAssumption
<1>1. st[g] \in Stmts /\ UNCHANGED st /\ range[g] = NoObject /\ it[g] = NoObject
  BY DEF BeginLoop, Usable, Exclusive, LoopOverGuarded
<1>2. Advances(st[g])
  BY <1>1, StepAdvances DEF BeginLoop, Exclusive
<1>3. CASE StepRow(st[g]) /\ range' = [range EXCEPT ![g] = st[g]]
           /\ it' = [it EXCEPT ![g] = st[g]] /\ passes' = [passes EXCEPT ![g] = 1]
  <2>1. state'[st[g]] = "run" /\ pos'[st[g]] > 0
    BY <1>1, <1>3 DEF StepRow, Exclusive, TypeOK, Resumed
  <2> QED
    BY <1>1, <1>2, <1>3, <2>1 DEF InLoop, Exclusive, TypeOK, Iterators
<1>4. CASE range' = [range EXCEPT ![g] = Null] /\ it' = [it EXCEPT ![g] = Null]
           /\ passes' = [passes EXCEPT ![g] = 1]
  BY <1>1, <1>2, <1>4 DEF InLoop, Exclusive, TypeOK, Iterators
<1>5. CASE UNCHANGED loop
  BY <1>1, <1>2, <1>5 DEF InLoop, Exclusive, TypeOK, loop
<1> QED
  BY <1>3, <1>4, <1>5 DEF BeginLoop, Owner

(* ++ is such a step. *)
LEMMA IncrementInLoop ==
  ASSUME Exclusive, NEW g \in Guards, Increment(g)
  PROVE  InLoop(g)
<1> USE NullAssumption
<1>1. st[g] \in Stmts /\ it[g] = st[g] /\ range[g] \in {st[g], Null} /\ UNCHANGED st
      /\ passes[g] > 0
  BY DEF Increment, Exclusive, LoopOverGuarded
<1>2. Advances(st[g])
  BY <1>1, StepAdvances DEF Increment, Exclusive
<1>3. CASE StepRow(st[g]) /\ UNCHANGED loop
  <2>1. state'[st[g]] = "run" /\ pos'[st[g]] > 0
    BY <1>1, <1>3 DEF StepRow, Exclusive, TypeOK, Resumed
  <2> QED
    BY <1>1, <1>2, <1>3, <2>1 DEF InLoop, Exclusive, TypeOK, loop
<1>4. CASE it' = [it EXCEPT ![g] = Null] /\ UNCHANGED <<range, passes>>
  BY <1>1, <1>2, <1>4 DEF InLoop, Exclusive, TypeOK, Iterators
<1>5. CASE range' = [range EXCEPT ![g] = NoObject] /\ it' = [it EXCEPT ![g] = NoObject]
           /\ passes' = [passes EXCEPT ![g] = 0]
  BY <1>1, <1>2, <1>5, PassesAssumption DEF InLoop, Exclusive, TypeOK, Iterators
<1> QED
  BY <1>1, <1>3, <1>4, <1>5 DEF Increment, Owner

(* Another loop runs over another statement, and does not see this step. *)
LEMMA InLoopKeeps ==
  ASSUME Exclusive, NEW g \in Guards, InLoop(g)
  PROVE  /\ Exclusive'
         /\ Fresh => Fresh'
         /\ Cleared => Cleared'
<1> USE NullAssumption DEF InLoop, Advances
<1>1. TypeOK'
  BY DEF Exclusive, TypeOK
<1>2. OneGuard' /\ LoopOverGuarded'
  BY DEF Exclusive, OneGuard, LoopOverGuarded
<1>3. FirstPassHasRow'
  <2> SUFFICES ASSUME NEW h \in Guards, it'[h] \in Stmts, passes'[h] = 1
               PROVE  state'[it'[h]] = "run" /\ pos'[it'[h]] > 0
    BY DEF FirstPassHasRow, HasRow
  <2>1. CASE h = g
    BY <2>1
  <2>2. CASE h # g
    <3>1. it[h] = st[h] /\ it'[h] = st[h] /\ st[h] # st[g] /\ st[h] \in Stmts
      BY <2>2 DEF Exclusive, OneGuard, LoopOverGuarded
    <3> QED
      BY <2>2, <3>1 DEF Exclusive, FirstPassHasRow, HasRow
  <2> QED
    BY <2>1, <2>2
<1>4. \A s \in Stmts : Guarded(s)' <=> Guarded(s)
  BY DEF Guarded
<1>5. Guarded(st[g])
  BY DEF Guarded
<1>6. Fresh => Fresh'
  BY <1>4, <1>5 DEF Fresh, ReadyWhenUnguarded, EachRowOnce
<1>7. Cleared => Cleared'
  BY <1>4 DEF Cleared, UnboundWhenUnguarded, NoForeignValue
<1> QED
  BY <1>1, <1>2, <1>3, <1>6, <1>7 DEF Exclusive

(* Going round once more, or leaving, changes only the loop. *)
LEMMA BeginAgainKeeps ==
  ASSUME Exclusive, NEW g \in Guards, BeginAgain(g)
  PROVE  /\ Exclusive'
         /\ Fresh => Fresh'
         /\ Cleared => Cleared'
<1> USE NullAssumption, PassesAssumption DEF BeginAgain, statement
<1>1. TypeOK'
  BY DEF Exclusive, TypeOK, Iterators
<1>2. OneGuard' /\ LoopOverGuarded'
  BY DEF Exclusive, OneGuard, LoopOverGuarded, TypeOK
<1>3. passes[g] > 0 /\ passes'[g] = passes[g] + 1
  BY DEF Exclusive, LoopOverGuarded, TypeOK
<1>4. FirstPassHasRow'
  BY <1>3 DEF Exclusive, TypeOK, FirstPassHasRow, HasRow
<1>5. (Fresh => Fresh') /\ (Cleared => Cleared')
  BY DEF Fresh, ReadyWhenUnguarded, EachRowOnce, Cleared, UnboundWhenUnguarded,
         NoForeignValue, Guarded
<1> QED
  BY <1>1, <1>2, <1>4, <1>5 DEF Exclusive

(* Leaving a loop, however it is left, changes only the loop. *)
LEMMA EndLoopKeeps ==
  ASSUME Exclusive, NEW g \in Guards, EndLoop(g)
  PROVE  /\ Exclusive'
         /\ Fresh => Fresh'
         /\ Cleared => Cleared'
<1> USE NullAssumption, PassesAssumption DEF EndLoop, statement
<1>1. TypeOK'
  BY DEF Exclusive, TypeOK, Iterators
<1>2. OneGuard' /\ LoopOverGuarded' /\ FirstPassHasRow'
  BY DEF Exclusive, OneGuard, LoopOverGuarded, TypeOK, FirstPassHasRow, HasRow
<1>3. (Fresh => Fresh') /\ (Cleared => Cleared')
  BY DEF Fresh, ReadyWhenUnguarded, EachRowOnce, Cleared, UnboundWhenUnguarded,
         NoForeignValue, Guarded
<1> QED
  BY <1>1, <1>2, <1>3 DEF Exclusive

-----------------------------------------------------------------------------
(* Init establishes all of it. *)
LEMMA InitHolds == Init => Exclusive /\ Fresh /\ Cleared
  BY NullAssumption, PassesAssumption
  DEF Init, Exclusive, TypeOK, Iterators, OneGuard, LoopOverGuarded, FirstPassHasRow, Fresh,
      ReadyWhenUnguarded, EachRowOnce, Cleared, UnboundWhenUnguarded, NoForeignValue, Guarded

(* Every step preserves it, as far as the flags ask for it. *)
LEMMA NextKeeps ==
  ASSUME Exclusive, [Next]_vars
  PROVE  /\ Exclusive'
         /\ "reset" \in Flags /\ Fresh => Fresh'
         /\ "clear_bindings" \in Flags /\ Cleared => Cleared'
<1>1. CASE Next
  <2> PICK g \in Guards :
        \/ \E s \in Stmts : Construct(g, s)
        \/ ConstructEmpty(g)
        \/ Destruct(g)
        \/ \E h \in Guards : MoveConstruct(g, h)
        \/ \E h \in Guards : MoveAssign(g, h)
        \/ Step(g)
        \/ Reset(g)
        \/ \E v \in Values : Bind(g, v)
        \/ ClearBindings(g)
        \/ BeginLoop(g)
        \/ Increment(g)
        \/ BeginAgain(g)
        \/ EndLoop(g)
    BY <1>1 DEF Next
  <2>1. CASE \/ Step(g) \/ Reset(g) \/ ClearBindings(g)
             \/ \E v \in Values : Bind(g, v)
    BY <2>1, StepThrough, ResetThrough, BindThrough, ClearBindingsThrough, ThroughKeeps
    DEF Exclusive
  <2>2. CASE BeginLoop(g) \/ Increment(g)
    BY <2>2, BeginLoopInLoop, IncrementInLoop, InLoopKeeps
  <2>3. CASE BeginAgain(g) \/ EndLoop(g)
    BY <2>3, BeginAgainKeeps, EndLoopKeeps
  <2>4. CASE (\E s \in Stmts : Construct(g, s)) \/ ConstructEmpty(g) \/ Destruct(g)
    BY <2>4, ConstructKeeps, ConstructEmptyKeeps, DestructKeeps
  <2>5. CASE \E h \in Guards : MoveConstruct(g, h) \/ MoveAssign(g, h)
    BY <2>5, MoveConstructKeeps, MoveAssignKeeps
  <2> QED
    BY <2>1, <2>2, <2>3, <2>4, <2>5
<1>2. CASE UNCHANGED vars
  BY <1>2 DEF vars, Exclusive, TypeOK, OneGuard, LoopOverGuarded, FirstPassHasRow, HasRow,
     Fresh, ReadyWhenUnguarded, EachRowOnce, Cleared, UnboundWhenUnguarded, NoForeignValue,
     Guarded
<1> QED
  BY <1>1, <1>2

-----------------------------------------------------------------------------
(****************************************************************************)
(* In every reachable state guards do not share statements, loops run over  *)
(* their guards' statements, and the variables have their types.            *)
(****************************************************************************)
THEOREM AlwaysExclusive == Spec => []Exclusive
<1>1. Init => Exclusive
  BY InitHolds
<1>2. Exclusive /\ [Next]_vars => Exclusive'
  BY NextKeeps
<1> QED
  BY <1>1, <1>2, PTL DEF Spec

(* The variables keep their types. *)
THEOREM UseTypeCorrect == Spec => []TypeOK
<1>1. Exclusive => TypeOK
  BY DEF Exclusive
<1> QED
  BY <1>1, AlwaysExclusive, PTL

(* In the first pass of a loop the iterator is at a row or at the end. *)
THEOREM FirstPassSafe == Spec => []FirstPassHasRow
<1>1. Exclusive => FirstPassHasRow
  BY DEF Exclusive
<1> QED
  BY <1>1, AlwaysExclusive, PTL

(* Guards that reset leave their statements ready, and rows start afresh. *)
LEMMA AlwaysFresh ==
  ASSUME "reset" \in Flags
  PROVE  Spec => [](Exclusive /\ Fresh)
<1>1. Init => Exclusive /\ Fresh
  BY InitHolds
<1>2. Exclusive /\ Fresh /\ [Next]_vars => (Exclusive /\ Fresh)'
  BY NextKeeps
<1> QED
  BY <1>1, <1>2, PTL DEF Spec

(****************************************************************************)
(* If the guards reset, a statement that no guard refers to is ready and at *)
(* its first row, however its last use ended.                               *)
(****************************************************************************)
THEOREM GuardsLeaveReady ==
  ASSUME "reset" \in Flags
  PROVE  Spec => []ReadyWhenUnguarded
<1>1. Exclusive /\ Fresh => ReadyWhenUnguarded
  BY DEF Fresh
<1> QED
  BY <1>1, AlwaysFresh, PTL

(* If the guards reset, each use gets its rows from the first, each once. *)
THEOREM RowsOfOneUse ==
  ASSUME "reset" \in Flags
  PROVE  Spec => []EachRowOnce
<1>1. Exclusive /\ Fresh => EachRowOnce
  BY DEF Fresh
<1> QED
  BY <1>1, AlwaysFresh, PTL

(* If the guards clear the bindings, no use sees a value of another. *)
THEOREM ValuesOfOneUse ==
  ASSUME "clear_bindings" \in Flags
  PROVE  Spec => []NoForeignValue
<1>1. Init => Exclusive /\ Cleared
  BY InitHolds
<1>2. Exclusive /\ Cleared /\ [Next]_vars => (Exclusive /\ Cleared)'
  BY NextKeeps
<1>3. Exclusive /\ Cleared => NoForeignValue
  BY DEF Cleared
<1> QED
  BY <1>1, <1>2, <1>3, PTL DEF Spec
===============================================================================
