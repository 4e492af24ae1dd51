---------------------------- MODULE VtabLifecycle ----------------------------
(****************************************************************************)
(* A virtual table written in C++: vtab<Derived> turns SQLite's callbacks   *)
(* into calls of methods, and the exceptions these throw into codes and     *)
(* into zErrMsg, a text that the next reader is to free.  SQLite makes an   *)
(* object of the class for each CREATE or connection to the table, and has  *)
(* it deleted when neither the schema nor a transaction nor a statement     *)
(* refers to it, or when the table is dropped.                              *)
(****************************************************************************)
EXTENDS Integers, FiniteSets

CONSTANTS VTabs,       \* connections made to the table, in sqlite3.c: VTable
          Stmts,       \* statements
          Exceptions,  \* exceptions thrown by methods of Derived and its cursor
          Kinds,       \* what kinds they are of
          None

(****************************************************************************)
(* The text an exception brings along: one from sqlite3_malloc, a static    *)
(* one (as in exception(SQLITE_CORRUPT)), or none.  The text of a           *)
(* std::exception is copied to the heap, if there is memory.                *)
(****************************************************************************)
Texts == {"heap", "static", "none"}

ASSUME KindsAssumption == Kinds \subseteq Texts

(****************************************************************************)
(* Whether SQLite fetches zErrMsg after the callback that throws.  It does  *)
(* not after commit, rollback, savepoint, release, rollback_to, integrity.  *)
(****************************************************************************)
Hearing == {"heard", "unheard"}

ASSUME NoneAssumption  == None \notin VTabs \cup Exceptions \cup Hearing
ASSUME StmtsAssumption == {"schema", "transaction"} \cap Stmts = {}

VARIABLES open,      \* whether the connection is open
          declared,  \* whether the schema has the table
          saved,     \* whether it had it at the last commit
          changed,   \* whether this transaction has changed the schema
          current,   \* the schema's connection to the table
          ending,    \* the transaction: "no", or the callbacks under way
          pVtab,     \* of each connection: "unused", "live", "gone" (null)
          refs,      \* who refers to it: VTable.nRef
          objects,   \* objects of Derived that exist for it
          on,        \* connection each statement was compiled for
          st,        \* "none", "ready", "reading" or "writing"
          cursors,   \* objects of Derived::cursor that exist for it
          zErrMsg,   \* exception whose text each table object holds
          thrown,    \* whether each exception was heard of, and its text
          frees,     \* calls of sqlite3_free with its text
          vmsg,      \* text SQLite has copied for each statement
          report     \* last failure of each statement

schema == <<open, declared, saved, changed, current>>
tables == <<pVtab, refs, objects>>
stmts  == <<on, st, cursors>>
errors == <<zErrMsg, thrown, frees, vmsg, report>>
vars   == <<schema, ending, tables, stmts, errors>>

Holders == {"schema", "transaction"} \cup Stmts

TypeOK ==
  /\ open \in BOOLEAN /\ declared \in BOOLEAN /\ saved \in BOOLEAN /\ changed \in BOOLEAN
  /\ current \in VTabs \cup {None}
  /\ ending \in {"no", "commit", "rollback"}
  /\ pVtab \in [VTabs -> {"unused", "live", "gone"}]
  /\ refs \in [VTabs -> SUBSET Holders]
  /\ objects \in [VTabs -> 0..1]
  /\ on \in [Stmts -> VTabs \cup {None}]
  /\ st \in [Stmts -> {"none", "ready", "reading", "writing"}]
  /\ cursors \in [Stmts -> 0..1]
  /\ zErrMsg \in [VTabs -> Exceptions \cup {None}]
  /\ thrown \in [Exceptions -> [by: Hearing \cup {None}, text: Texts]]
  /\ frees \in [Exceptions -> Nat]
  /\ vmsg \in [Stmts -> Exceptions \cup {None}]
  /\ report \in [Stmts -> [by: Exceptions \cup {None}, msg: Exceptions \cup {None}]]

NoReport == [by |-> None, msg |-> None]

Init ==
  /\ open = TRUE /\ declared = FALSE /\ saved = FALSE /\ changed = FALSE
  /\ current = None /\ ending = "no"
  /\ pVtab = [v \in VTabs |-> "unused"]
  /\ refs = [v \in VTabs |-> {}]
  /\ objects = [v \in VTabs |-> 0]
  /\ on = [s \in Stmts |-> None]
  /\ st = [s \in Stmts |-> "none"]
  /\ cursors = [s \in Stmts |-> 0]
  /\ zErrMsg = [v \in VTabs |-> None]
  /\ thrown = [x \in Exceptions |-> [by |-> None, text |-> "none"]]
  /\ frees = [x \in Exceptions |-> 0]
  /\ vmsg = [s \in Stmts |-> None]
  /\ report = [s \in Stmts |-> NoReport]

Idle == ending = "no"

(* A statement that is prepared, run and finalised in one go. *)
OneShot(s) == Idle /\ open /\ st[s] = "none"

Running(s) == Idle /\ st[s] \in {"reading", "writing"}

-----------------------------------------------------------------------------
(* Exceptions, and who frees their texts *)

Raise(x, k, how) ==
  /\ thrown[x].by = None
  /\ thrown' = [thrown EXCEPT ![x] = [by |-> how, text |-> k]]

(* sqlite3_free(NULL) does nothing. *)
Freed(f, x) == IF x = None THEN f ELSE [f EXCEPT ![x] = @ + 1]

\* Mutants: no memory for the new text, and the old pointer stays;
\* an older text is thought more important.
OldPointerStays(v, x, k) == IF k = "none" THEN zErrMsg[v] ELSE x
FirstTextWins(v, x, k) == IF zErrMsg[v] # None \/ k = "none" THEN zErrMsg[v] ELSE x

(* vtab::set_error_message: frees the text there is, and leaves this one. *)
set_error_message(v, x, k) == IF k = "none" THEN None ELSE x

(* A callback on v has thrown x: SQLite reports it for s and frees zErrMsg. *)
Heard(s, v, x, k) ==
  LET new == set_error_message(v, x, k)
  IN /\ Raise(x, k, "heard")
     /\ frees' = Freed(Freed(frees, zErrMsg[v]), new)
     /\ zErrMsg' = [zErrMsg EXCEPT ![v] = None]
     /\ report' = [report EXCEPT ![s] =
                    [by |-> x, msg |-> IF new = None THEN vmsg[s] ELSE new]]
     /\ vmsg' = [vmsg EXCEPT ![s] = None]

(* SQLite frees zErrMsg. *)
Discard(v) ==
  /\ frees' = Freed(frees, zErrMsg[v])
  /\ zErrMsg' = [zErrMsg EXCEPT ![v] = None]

(* A callback on v has not thrown: SQLite copies what is in zErrMsg, if      *)
(* anything, and frees it (sqlite3VtabImportErrmsg).                         *)
Quiet(s, v) ==
  /\ Discard(v)
  /\ vmsg' = [vmsg EXCEPT ![s] = IF zErrMsg[v] = None THEN @ ELSE zErrMsg[v]]
  /\ UNCHANGED <<thrown, report>>

(* A callback on v has thrown x, and nobody looks at zErrMsg. *)
NotHeard(v, x, k) ==
  /\ Raise(x, k, "unheard")
  /\ frees' = Freed(frees, zErrMsg[v])
  /\ zErrMsg' = [zErrMsg EXCEPT ![v] = set_error_message(v, x, k)]

\* A mutant: the text is taken from the exception and not handed over.
NothingOut(x, k) == None

(* What create_impl and connect_impl leave in *err. *)
err(x, k) == IF k = "none" THEN None ELSE x

(* The constructor throws; there is no object, and SQLite frees *err. *)
ConstructorThrows(s) ==
  \E x \in Exceptions, k \in Kinds :
    /\ Raise(x, k, "heard")
    /\ frees' = Freed(frees, err(x, k))
    /\ report' = [report EXCEPT ![s] = [by |-> x, msg |-> err(x, k)]]
    /\ UNCHANGED <<zErrMsg, vmsg>>

-----------------------------------------------------------------------------
(* Objects of Derived *)

\* Mutants: the pointer is released and not deleted, or not released.
ReleasedOnly == 0
DeletedTwice == 2

(* Objects deleted by disconnect_impl and by destroy_impl. *)
disconnect_impl == 1
destroy_impl    == 1

(* refs becomes r: a table object nobody refers to is disconnected. *)
Unlock(r) ==
  LET unused == {v \in VTabs : pVtab[v] = "live" /\ r[v] = {}}
  IN /\ refs' = r
     /\ pVtab' = [v \in VTabs |-> IF v \in unused THEN "gone" ELSE pVtab[v]]
     /\ objects' = [v \in VTabs |-> IF v \in unused THEN objects[v] - disconnect_impl
                                    ELSE objects[v]]

Without(v, holder) == [refs EXCEPT ![v] = @ \ {holder}]

(* create_impl or connect_impl has made an object for the schema. *)
Connected(v, holders) ==
  /\ pVtab[v] = "unused"
  /\ pVtab' = [pVtab EXCEPT ![v] = "live"]
  /\ objects' = [objects EXCEPT ![v] = @ + 1]
  /\ refs' = [refs EXCEPT ![v] = holders]
  /\ current' = v

(* The constructor has not called declare_vtab: the object goes at once. *)
Undeclared(s, v) ==
  /\ pVtab[v] = "unused"
  /\ pVtab' = [pVtab EXCEPT ![v] = "gone"]
  /\ objects' = [objects EXCEPT ![v] = @ + 1 - disconnect_impl]
  /\ report' = [report EXCEPT ![s] = NoReport]
  /\ UNCHANGED <<refs, zErrMsg, thrown, frees, vmsg>>

(* CREATE VIRTUAL TABLE *)
Create(s, v) ==
  /\ OneShot(s) /\ ~declared
  /\ \/ /\ Connected(v, {"schema", "transaction"})
        /\ declared' = TRUE /\ changed' = TRUE
        /\ UNCHANGED <<open, saved, errors>>
     \/ Undeclared(s, v) /\ UNCHANGED schema
     \/ ConstructorThrows(s) /\ UNCHANGED <<schema, tables>>
  /\ UNCHANGED <<ending, stmts>>

(* The parser meets a table of the schema that has no connection yet. *)
Connect(s, v) ==
  /\ OneShot(s) /\ declared /\ current = None
  /\ \/ /\ Connected(v, {"schema"})
        /\ UNCHANGED <<open, declared, saved, changed, errors>>
     \/ Undeclared(s, v) /\ UNCHANGED schema
     \/ ConstructorThrows(s) /\ UNCHANGED <<schema, tables>>
  /\ UNCHANGED <<ending, stmts>>

\* A mutant: an open cursor does not keep the table.
NotInUse(v) == FALSE

(* sqlite3_vtab.nRef > 0 *)
InUse(v) == \E s \in Stmts : on[s] = v /\ cursors[s] = 1

(* DROP TABLE; others may still refer to the connection, which is now null. *)
Drop(s) ==
  /\ OneShot(s) /\ current # None
  /\ ~InUse(current)
  /\ pVtab' = [pVtab EXCEPT ![current] = "gone"]
  /\ objects' = [objects EXCEPT ![current] = @ - destroy_impl]
  /\ refs' = Without(current, "schema")
  /\ current' = None
  /\ declared' = FALSE /\ changed' = TRUE
  /\ UNCHANGED <<open, saved, ending, stmts, errors>>

(* The schema is thrown away, to be read again. *)
ResetSchema ==
  /\ Idle /\ current # None
  /\ Unlock(Without(current, "schema"))
  /\ current' = None
  /\ UNCHANGED <<open, declared, saved, changed, ending, stmts, errors>>

(* ~database: the tables are disconnected and the transaction is rolled back. *)
Close ==
  /\ Idle /\ open
  /\ open' = FALSE
  /\ IF current = None THEN UNCHANGED tables
     ELSE Unlock(Without(current, "schema"))
  /\ current' = None
  /\ ending' = "rollback"
  /\ UNCHANGED <<declared, saved, changed, stmts, errors>>

-----------------------------------------------------------------------------
(* Statements *)

(* Compiled for the current connection, after best_index. *)
Prepare(s) ==
  /\ OneShot(s) /\ current # None
  /\ \/ /\ Discard(current)
        /\ st' = [st EXCEPT ![s] = "ready"]
        /\ on' = [on EXCEPT ![s] = current]
        /\ refs' = [refs EXCEPT ![current] = @ \cup {s}]
        /\ UNCHANGED <<pVtab, objects, cursors, thrown, vmsg, report>>
     \/ /\ \E x \in Exceptions, k \in Kinds : Heard(s, current, x, k)
        /\ UNCHANGED <<tables, stmts>>
  /\ UNCHANGED <<schema, ending>>

(* A statement starts only as long as the schema is that of its compilation. *)
MayStart(s) == open /\ st[s] = "ready" /\ on[s] = current

(* A failed statement is reset: its cursor is closed. *)
Halt(s) ==
  /\ st' = [st EXCEPT ![s] = "ready"]
  /\ cursors' = [cursors EXCEPT ![s] = 0]
  /\ UNCHANGED on

(* xOpen, then SQLite's own cursor, for which there may be no memory. *)
Open(s) ==
  /\ Idle /\ (MayStart(s) \/ Running(s))
  /\ cursors[s] = 0 /\ pVtab[on[s]] = "live"
  /\ \/ /\ Quiet(s, on[s])
        /\ cursors' = [cursors EXCEPT ![s] = 1]
        /\ st' = [st EXCEPT ![s] = IF @ = "ready" THEN "reading" ELSE @]
        /\ UNCHANGED on
     \/ /\ Halt(s)
        /\ \E x \in Exceptions, k \in Kinds : Heard(s, on[s], x, k)
     \/ /\ Halt(s)      \* no memory: xClose
        /\ Discard(on[s])
        /\ report' = [report EXCEPT ![s] = NoReport]
        /\ vmsg' = [vmsg EXCEPT ![s] = None]
        /\ UNCHANGED thrown
  /\ UNCHANGED <<schema, ending, tables>>

(* filter, next, column, rowid *)
Fetch(s) ==
  /\ Running(s) /\ cursors[s] = 1
  /\ \/ Quiet(s, on[s]) /\ UNCHANGED stmts
     \/ /\ \E x \in Exceptions, k \in Kinds : Heard(s, on[s], x, k)
        /\ Halt(s)
  /\ UNCHANGED <<schema, ending, tables>>

(* xBegin and, within a savepoint, xSavepoint. *)
Begin(s) ==
  LET v == on[s]
      joined == [refs EXCEPT ![v] = @ \cup {"transaction"}]
  IN /\ Idle /\ MayStart(s)
     /\ \/ /\ Quiet(s, v)
           /\ refs' = joined
           /\ st' = [st EXCEPT ![s] = "writing"]
        \/ /\ "transaction" \notin refs[v]
           /\ \E x \in Exceptions, k \in Kinds : Heard(s, v, x, k)
           /\ refs' \in {refs, joined}
           /\ UNCHANGED st
     /\ UNCHANGED <<schema, ending, pVtab, objects, on, cursors>>

(* update, rename *)
Update(s) ==
  /\ Idle /\ st[s] = "writing"
  /\ pVtab[on[s]] = "live" /\ "transaction" \in refs[on[s]]
  /\ \/ Quiet(s, on[s]) /\ UNCHANGED stmts
     \/ /\ \E x \in Exceptions, k \in Kinds : Heard(s, on[s], x, k)
        /\ Halt(s)
  /\ UNCHANGED <<schema, ending, tables>>

(* SQLite fails for a reason of its own, and has no text for it. *)
OtherFailure(s) ==
  /\ Running(s)
  /\ Halt(s)
  /\ report' = [report EXCEPT ![s] = [by |-> None, msg |-> vmsg[s]]]
  /\ vmsg' = [vmsg EXCEPT ![s] = None]
  /\ UNCHANGED <<schema, ending, tables, zErrMsg, thrown, frees>>

(* The statement comes to its end or is reset. *)
End(s) ==
  /\ Running(s)
  /\ Halt(s)
  /\ vmsg' = [vmsg EXCEPT ![s] = None]
  /\ UNCHANGED <<schema, ending, tables, zErrMsg, thrown, frees, report>>

(* ~statement; also when it is compiled again for a new schema. *)
Finalize(s) ==
  /\ Idle /\ st[s] # "none"
  /\ st' = [st EXCEPT ![s] = "none"]
  /\ on' = [on EXCEPT ![s] = None]
  /\ cursors' = [cursors EXCEPT ![s] = 0]
  /\ Unlock(Without(on[s], s))
  /\ vmsg' = [vmsg EXCEPT ![s] = None]
  /\ UNCHANGED <<schema, ending, zErrMsg, thrown, frees, report>>

-----------------------------------------------------------------------------
(* Transactions *)

Joined == {v \in VTabs : "transaction" \in refs[v]}
Live   == {v \in VTabs : pVtab[v] = "live"}

(* savepoint, release, rollback_to for the tables in the transaction, and   *)
(* integrity for that of the schema.                                        *)
SavepointOrCheck(s, v, method) ==
  /\ OneShot(s)
  /\ v \in Live
  /\ IF method = "savepoint" THEN v \in Joined ELSE v = current
  /\ \E x \in Exceptions, k \in Kinds :
       /\ NotHeard(v, x, k)
       /\ report' = [report EXCEPT ![s] = [by |-> x, msg |-> None]]
  /\ UNCHANGED <<schema, ending, tables, stmts, vmsg>>

(* xSync of all tables; if one throws the transaction is rolled back. *)
Commit(s) ==
  /\ OneShot(s)
  /\ \A t \in Stmts : st[t] # "writing"
  /\ \/ ending' = "commit" /\ UNCHANGED errors
     \/ /\ ending' = "rollback"
        /\ \E v \in Joined \cap Live, x \in Exceptions, k \in Kinds :
             Heard(s, v, x, k)
  /\ UNCHANGED <<schema, tables, stmts>>

Rollback ==
  /\ Idle /\ open
  /\ ending' = "rollback"
  /\ UNCHANGED <<schema, tables, stmts, errors>>

(* xCommit or xRollback; the code it returns is not looked at either. *)
Finalise(v) ==
  /\ ending # "no" /\ v \in Joined
  /\ \/ UNCHANGED errors
     \/ /\ v \in Live
        /\ \E x \in Exceptions, k \in Kinds : NotHeard(v, x, k)
        /\ UNCHANGED <<vmsg, report>>
  /\ Unlock(Without(v, "transaction"))
  /\ UNCHANGED <<schema, ending, stmts>>

(* After a rollback that changes the schema, the schema is read again. *)
EndTransaction ==
  /\ ending # "no" /\ Joined = {}
  /\ ending' = "no" /\ changed' = FALSE
  /\ IF ending = "commit"
     THEN saved' = declared /\ UNCHANGED <<declared, current, tables>>
     ELSE /\ declared' = saved
          /\ IF changed /\ current # None
             THEN Unlock(Without(current, "schema")) /\ current' = None
             ELSE UNCHANGED <<current, tables>>
          /\ UNCHANGED saved
  /\ UNCHANGED <<open, stmts, errors>>

Next ==
  \/ \E s \in Stmts, v \in VTabs :
       \/ Create(s, v)
       \/ Connect(s, v)
       \/ \E method \in {"savepoint", "integrity"} : SavepointOrCheck(s, v, method)
  \/ \E s \in Stmts :
       \/ Prepare(s)
       \/ Open(s)
       \/ Fetch(s)
       \/ Begin(s)
       \/ Update(s)
       \/ OtherFailure(s)
       \/ End(s)
       \/ Finalize(s)
       \/ Drop(s)
       \/ Commit(s)
  \/ \E v \in VTabs : Finalise(v)
  \/ ResetSchema
  \/ Rollback
  \/ EndTransaction
  \/ Close

Spec == Init /\ [][Next]_vars

-----------------------------------------------------------------------------
(****************************************************************************)
(* There is one object of Derived for each connection that the schema, a    *)
(* transaction or a statement still refers to, and none for any other.      *)
(****************************************************************************)
TableObjects ==
  \A v \in VTabs :
    objects[v] = IF pVtab[v] = "live" /\ refs[v] # {} THEN 1 ELSE 0

(* A cursor never outlives its table object, whoever drops the table, reads *)
(* the schema again, rolls back or closes the connection meanwhile.         *)
CursorsHaveTables ==
  \A s \in Stmts : cursors[s] = 1 => on[s] # None /\ objects[on[s]] = 1

(* When the connection and all statements are gone no object is left. *)
NothingLeft ==
  ~open /\ Idle /\ (\A s \in Stmts : st[s] = "none") =>
    \A v \in VTabs : objects[v] = 0

(* Table objects and cursors live exactly as long as they are needed. *)
ObjectLifetimes == TableObjects /\ CursorsHaveTables /\ NothingLeft

(****************************************************************************)
(* No text is freed twice, and zErrMsg never points to a freed one,         *)
(* although vtab and SQLite both free it.                                   *)
(****************************************************************************)
TextsFreedOnce ==
  /\ \A x \in Exceptions : frees[x] <= 1
  /\ \A v \in VTabs : zErrMsg[v] # None => frees[zErrMsg[v]] = 0

(****************************************************************************)
(* A text from the heap gets freed, unless a method has thrown it after     *)
(* which SQLite does not fetch zErrMsg: vtab has no destructor to free it.  *)
(****************************************************************************)
LostOnlyIfUnheard ==
  \A x \in Exceptions :
    thrown[x].text = "heap" /\ frees[x] = 0 => thrown[x].by = "unheard"

(****************************************************************************)
(* A failure is reported with the text of the exception that caused it.  If *)
(* there is no such text, the text of an earlier exception may appear, but  *)
(* only of one that SQLite has not heard of when it was thrown.             *)
(****************************************************************************)
OwnReport ==
  \A s \in Stmts :
    LET by == report[s].by  msg == report[s].msg
    IN IF by # None /\ thrown[by].text # "none" /\ thrown[by].by = "heard"
       THEN msg = by
       ELSE msg # None => thrown[msg].by = "unheard"

(****************************************************************************)
(* The guide lets methods throw any exception and promises that zErrMsg is  *)
(* set properly: what SQLite frees comes from sqlite3_malloc.               *)
(****************************************************************************)
OnlyHeapFreed == \A x \in Exceptions : frees[x] > 0 => thrown[x].text = "heap"
===============================================================================
