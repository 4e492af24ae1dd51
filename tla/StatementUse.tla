---------------------------- MODULE StatementUse ----------------------------
(****************************************************************************)
(* Prepared statements that are kept and used again: each use goes through  *)
(* an auto_reset guard, binds a parameter, and reads rows with step or with *)
(* a row_range.  A use may be abandoned half way, by a break or by an       *)
(* exception; the guard is to leave the statement as good as new.           *)
(*                                                                          *)
(* A guard is the only way to its statement while it lives.  A loop owns    *)
(* its guard's statement: its body does not step or reset it.               *)
(****************************************************************************)
EXTENDS Naturals, FiniteSets

CONSTANTS Stmts,      \* prepared statements
          Guards,     \* auto_reset objects
          Values,     \* values bound to the parameter of a statement
          Rows,       \* rows an execution of each statement yields
          Flags,      \* template parameter of auto_reset
          Passes,     \* calls of begin() on a row_range
          Null,       \* nullptr, and the NULL of an unbound parameter
          NoObject    \* a guard, range or iterator that does not exist

AutoResetFlags == SUBSET {"reset", "clear_bindings"}

ASSUME RowsAssumption  == Rows \in [Stmts -> Nat]
ASSUME FlagsAssumption == Flags \in AutoResetFlags
ASSUME PassesAssumption == Passes \in Nat \ {0}
ASSUME NullAssumption  == /\ Null \notin Stmts \cup Values
                          /\ NoObject \notin Stmts \cup {Null}

VARIABLES state,    \* of each statement: "ready", "run" or "halt"
          pos,      \* row each statement stands on, 0 before the first
          param,    \* value of each statement's parameter
          st,       \* auto_reset::_st of each guard
          range,    \* row_range::_it of the loop under each guard
          it,       \* iterator of that loop
          passes,   \* calls of begin() on that range
          got,      \* rows this use has got from its current execution
          bound     \* whether this use has bound the parameter

vars == <<state, pos, param, st, range, it, passes, got, bound>>

statement == <<state, pos, param, got, bound>>
loop      == <<range, it, passes>>

Iterators == Stmts \cup {Null, NoObject}

TypeOK ==
  /\ state \in [Stmts -> {"ready", "run", "halt"}]
  /\ pos \in [Stmts -> Nat]
  /\ param \in [Stmts -> Values \cup {Null}]
  /\ st \in [Guards -> Stmts \cup {Null, NoObject}]
  /\ range \in [Guards -> Iterators]
  /\ it \in [Guards -> Iterators]
  /\ passes \in [Guards -> 0..Passes]
  /\ got \in [Stmts -> Nat]
  /\ bound \in [Stmts -> BOOLEAN]

Init ==
  /\ state = [s \in Stmts |-> "ready"]
  /\ pos = [s \in Stmts |-> 0]
  /\ param = [s \in Stmts |-> Null]
  /\ st = [g \in Guards |-> NoObject]
  /\ range = [g \in Guards |-> NoObject]
  /\ it = [g \in Guards |-> NoObject]
  /\ passes = [g \in Guards |-> 0]
  /\ got = [s \in Stmts |-> 0]
  /\ bound = [s \in Stmts |-> FALSE]

Guarded(s) == \E g \in Guards : st[g] = s

(* Guard g holds a statement, and no loop is under way. *)
Usable(g) == st[g] \in Stmts /\ range[g] = NoObject

-----------------------------------------------------------------------------
(* statement *)

(* Where an execution goes on: a halted statement starts again. *)
Resumed(s, n) == IF state[s] = "halt" THEN 0 ELSE n

(* step found one more row. *)
StepRow(s) ==
  /\ Resumed(s, pos[s]) < Rows[s]
  /\ state' = [state EXCEPT ![s] = "run"]
  /\ pos' = [pos EXCEPT ![s] = Resumed(s, @) + 1]
  /\ got' = [got EXCEPT ![s] = Resumed(s, @) + 1]
  /\ UNCHANGED <<param, bound>>

(* step found no more rows. *)
StepDone(s) ==
  /\ Resumed(s, pos[s]) = Rows[s]
  /\ state' = [state EXCEPT ![s] = "halt"]
  /\ pos' = [pos EXCEPT ![s] = Resumed(s, @)]
  /\ got' = [got EXCEPT ![s] = Resumed(s, @)]
  /\ UNCHANGED <<param, bound>>

(* step throws, and the execution is over. *)
StepFails(s) ==
  /\ state' = [state EXCEPT ![s] = "halt"]
  /\ pos' = [pos EXCEPT ![s] = 0]
  /\ got' = [got EXCEPT ![s] = 0]
  /\ UNCHANGED <<param, bound>>

(* step throws SQLITE_BUSY at its commit, which can be tried again. *)
StepBusy(s) ==
  /\ Resumed(s, pos[s]) = Rows[s]
  /\ state' = [state EXCEPT ![s] = "run"]
  /\ pos' = [pos EXCEPT ![s] = Rows[s]]
  /\ got' = [got EXCEPT ![s] = Resumed(s, @)]
  /\ UNCHANGED <<param, bound>>

StepThrows(s) == StepFails(s) \/ StepBusy(s)

Step(g) ==
  /\ Usable(g)
  /\ \E s \in {st[g]} : StepRow(s) \/ StepDone(s) \/ StepThrows(s)
  /\ UNCHANGED <<st, loop>>

Reset(g) ==
  /\ Usable(g)
  /\ state' = [state EXCEPT ![st[g]] = "ready"]
  /\ pos' = [pos EXCEPT ![st[g]] = 0]
  /\ got' = [got EXCEPT ![st[g]] = 0]
  /\ UNCHANGED <<param, bound, st, loop>>

(* bind throws unless the statement is ready. *)
Bind(g, v) ==
  /\ Usable(g)
  /\ state[st[g]] = "ready"
  /\ param' = [param EXCEPT ![st[g]] = v]
  /\ bound' = [bound EXCEPT ![st[g]] = TRUE]
  /\ UNCHANGED <<state, pos, got, st, loop>>

(* clear_bindings does not ask whether the statement is running. *)
ClearBindings(g) ==
  /\ Usable(g)
  /\ param' = [param EXCEPT ![st[g]] = Null]
  /\ bound' = [bound EXCEPT ![st[g]] = FALSE]
  /\ UNCHANGED <<state, pos, got, st, loop>>

-----------------------------------------------------------------------------
(* auto_reset *)

(* A guard is made for a statement: a use begins. *)
Construct(g, s) ==
  /\ st[g] = NoObject
  /\ ~Guarded(s)
  /\ st' = [st EXCEPT ![g] = s]
  /\ got' = [got EXCEPT ![s] = 0]
  /\ bound' = [bound EXCEPT ![s] = FALSE]
  /\ UNCHANGED <<state, pos, param, loop>>

(* A guard without a statement, to be assigned to later. *)
ConstructEmpty(g) ==
  /\ st[g] = NoObject
  /\ st' = [st EXCEPT ![g] = Null]
  /\ UNCHANGED <<statement, loop>>

(****************************************************************************)
(* auto_reset::destroy: reset, then clear_bindings, as the flags say, for   *)
(* the statement x or for none.                                             *)
(****************************************************************************)
\* Mutants: a loop that was left is not reset; "==" for "&" in the flags test.
ResetHaltedOnly(x) == {s \in {x} \cap Stmts : state[s] = "halt"}
ClearIfEqual(x) == IF Flags = {"clear_bindings"} THEN {x} \cap Stmts ELSE {}

ToReset(x) == IF "reset" \in Flags THEN {x} \cap Stmts ELSE {}
ToClear(x) == IF "clear_bindings" \in Flags THEN {x} \cap Stmts ELSE {}

destroy(x) ==
  /\ state' = [s \in Stmts |-> IF s \in ToReset(x) THEN "ready" ELSE state[s]]
  /\ pos' = [s \in Stmts |-> IF s \in ToReset(x) THEN 0 ELSE pos[s]]
  /\ param' = [s \in Stmts |-> IF s \in ToClear(x) THEN Null ELSE param[s]]
  /\ UNCHANGED <<got, bound>>

(* ~auto_reset: at the end of its scope, or because of an exception. *)
Destruct(g) ==
  /\ st[g] # NoObject
  /\ range[g] = NoObject
  /\ destroy(st[g])
  /\ st' = [st EXCEPT ![g] = NoObject]
  /\ UNCHANGED loop

\* Mutants: the source keeps its statement, or is left with rubbish.
SourceKept(h) == st[h]
SourceRubbish(h) == h

(* What a move leaves in its source. *)
MovedFrom(h) == Null

MoveConstruct(g, h) ==
  /\ st[g] = NoObject
  /\ st[h] # NoObject /\ range[h] = NoObject
  /\ st' = [st EXCEPT ![g] = st[h], ![h] = MovedFrom(h)]
  /\ UNCHANGED <<statement, loop>>

(* The target's own statement is left clean before it takes the other. *)
MoveAssign(g, h) ==
  /\ g # h
  /\ \A x \in {g, h} : st[x] # NoObject /\ range[x] = NoObject
  /\ destroy(st[g])
  /\ st' = [st EXCEPT ![g] = st[h], ![h] = MovedFrom(h)]
  /\ UNCHANGED loop

-----------------------------------------------------------------------------
(* row_range and row_iterator *)

\* A mutant: the iterator does not notice the end.
NeverEnds(s, found) == s

(* row_iterator::_owner after its step. *)
Owner(s, found) == IF found THEN s ELSE Null

(* row_range(st): its iterator steps once, and begin() copies it. *)
BeginLoop(g) ==
  /\ Usable(g)
  /\ \E s \in {st[g]} :
       \/ /\ StepRow(s)
          /\ range' = [range EXCEPT ![g] = Owner(s, TRUE)]
          /\ it' = [it EXCEPT ![g] = Owner(s, TRUE)]
          /\ passes' = [passes EXCEPT ![g] = 1]
       \/ /\ StepDone(s)
          /\ range' = [range EXCEPT ![g] = Owner(s, FALSE)]
          /\ it' = [it EXCEPT ![g] = Owner(s, FALSE)]
          /\ passes' = [passes EXCEPT ![g] = 1]
       \/ /\ StepThrows(s)      \* there is no range
          /\ UNCHANGED loop
  /\ UNCHANGED st

(* ++it; an exception ends the loop. *)
Increment(g) ==
  /\ it[g] \in Stmts
  /\ \E s \in {it[g]} :
       \/ StepRow(s) /\ UNCHANGED loop
       \/ /\ StepDone(s)
          /\ it' = [it EXCEPT ![g] = Owner(s, FALSE)]
          /\ UNCHANGED <<range, passes>>
       \/ /\ StepThrows(s)
          /\ range' = [range EXCEPT ![g] = NoObject]
          /\ it' = [it EXCEPT ![g] = NoObject]
          /\ passes' = [passes EXCEPT ![g] = 0]
  /\ UNCHANGED st

(* begin() once more on a range whose loop has come to its end. *)
BeginAgain(g) ==
  /\ it[g] = Null
  /\ passes[g] < Passes
  /\ it' = [it EXCEPT ![g] = range[g]]
  /\ passes' = [passes EXCEPT ![g] = @ + 1]
  /\ UNCHANGED <<statement, st, range>>

(* The loop is over, or left by a break. *)
EndLoop(g) ==
  /\ range[g] # NoObject
  /\ range' = [range EXCEPT ![g] = NoObject]
  /\ it' = [it EXCEPT ![g] = NoObject]
  /\ passes' = [passes EXCEPT ![g] = 0]
  /\ UNCHANGED <<statement, st>>

Next ==
  \E g \in Guards :
    \/ \E s \in Stmts : Construct(g, s)
    \/ ConstructEmpty(g)
    \/ Destruct(g)
    \/ \E h \in Guards : MoveConstruct(g, h)
    \/ \E h \in Guards : MoveAssign(g, h)
    \/ Step(g)
    \/ Reset(g)
    \/ \E v \in Values : Bind(g, v)
    \/ ClearBindings(g)
    \/ BeginLoop(g)
    \/ Increment(g)
    \/ BeginAgain(g)
    \/ EndLoop(g)

Spec == Init /\ [][Next]_vars

-----------------------------------------------------------------------------
(****************************************************************************)
(* A statement no guard refers to is ready to be bound and starts at its    *)
(* first row, however its last use ended and wherever its guard was moved.  *)
(****************************************************************************)
ReadyWhenUnguarded ==
  \A s \in Stmts : ~Guarded(s) => state[s] = "ready" /\ pos[s] = 0

(* A use never runs with a value that an earlier use has bound. *)
NoForeignValue ==
  \A s \in Stmts : Guarded(s) /\ param[s] # Null => bound[s]

(****************************************************************************)
(* A use gets the rows of an execution from the first, each once, even if   *)
(* its guard is moved on the way and other guards are destroyed meanwhile.  *)
(****************************************************************************)
EachRowOnce == \A s \in Stmts : Guarded(s) => got[s] = pos[s]

HasRow(g) == state[it[g]] = "run" /\ pos[it[g]] > 0

(* In the first pass over a range, an iterator that is not its end is at a  *)
(* row of the statement, which nobody has reset under it.                   *)
FirstPassHasRow ==
  \A g \in Guards : it[g] \in Stmts /\ passes[g] = 1 => HasRow(g)
===============================================================================
