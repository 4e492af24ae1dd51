---------------------------- MODULE CallbackData ----------------------------
(****************************************************************************)
(* The life of user data handed to SQLite through thinsqlitepp, on one      *)
(* connection (database) and its prepared statements (statement).           *)
(*                                                                          *)
(* A datum is an object together with its deleter.  A slot is a place where *)
(* SQLite keeps a datum: a function or a collation under one text encoding, *)
(* a virtual table module, the table connected to a module, the tables a    *)
(* prepared statement uses, a client data key, a deserialised schema, a     *)
(* parameter of a statement.  Each operation is a method of the wrapper     *)
(* with the SQLite call inside it: SQLite runs some deleters, the wrapper   *)
(* runs others, and between them every deleter must run exactly once.       *)
(*                                                                          *)
(* Only calls that pass a datum with a deleter, or that remove a            *)
(* registration, are modelled: data without a deleter stays the caller's.   *)
(****************************************************************************)
EXTENDS Naturals, FiniteSets

CONSTANTS Data,         \* the data the program creates
          Functions,    \* SQL function names (with their argument count)
          Collations,   \* collation names
          Modules,      \* virtual table module names
          Keys,         \* client data names
          Schemas,      \* schema names that can be deserialised
          Stmts,        \* handles of prepared statements
          Params,       \* indices of statement parameters
          BindSizes,    \* kinds of size the program binds by reference
          None          \* no datum

Encodings == {"utf8", "utf16le", "utf16be"}

(* sqlite3CreateFunc registers the encodings of SQLITE_ANY in this order. *)
Rank == [utf8 |-> 1, utf16le |-> 2, utf16be |-> 3]

(* One encoding, or all three of them: SQLITE_ANY. *)
EncodingArgs == {{e} : e \in Encodings} \cup {Encodings}

FunctionSlot  == Functions \X Encodings
CollationSlot == Collations \X Encodings
ModuleSlot    == Modules \X {"module"}
TableSlot     == Modules \X {"table"}
KeySlot       == Keys \X {"clientdata"}
ImageSlot     == Schemas \X {"image"}
ParamSlot     == Stmts \X Params
CursorSlot    == Stmts \X {"vtab"}

DatabaseSlot  == FunctionSlot \cup CollationSlot \cup ModuleSlot \cup TableSlot
                   \cup ImageSlot
StatementSlot == ParamSlot \cup CursorSlot
Slot          == DatabaseSlot \cup KeySlot \cup StatementSlot

(****************************************************************************)
(* Size of what bind_reference gets: no data pointer, within the limits,    *)
(* above SQLITE_LIMIT_LENGTH, above INT_MAX.                                *)
(****************************************************************************)
Sizes == {"null", "fits", "toobig", "huge"}

ASSUME NoneAssumption  == None \notin Data
ASSUME SizesAssumption == BindSizes \subseteq Sizes
ASSUME NamesAssumption ==
  /\ "vtab" \notin Params
  /\ Functions \cap Collations = {}
  /\ Stmts \cap (Functions \cup Collations \cup Modules \cup Keys \cup Schemas) = {}

VARIABLES conn,       \* the connection: "open", "zombie" or "freed"
          stmt,       \* state of each statement
          holder,     \* the datum in each slot
          given,      \* data handed over so far
          destroyed   \* how often the deleter of each datum has run

vars == <<conn, stmt, holder, given, destroyed>>

StmtStates == {"none", "ready", "run", "halt"}

TypeOK ==
  /\ conn \in {"open", "zombie", "freed"}
  /\ stmt \in [Stmts -> StmtStates]
  /\ holder \in [Slot -> Data \cup {None}]
  /\ given \subseteq Data
  /\ destroyed \in [Data -> Nat]

Init ==
  /\ conn = "open"
  /\ stmt = [s \in Stmts |-> "none"]
  /\ holder = [x \in Slot |-> None]
  /\ given = {}
  /\ destroyed = [d \in Data |-> 0]

-----------------------------------------------------------------------------
(* The library's part of a call. *)

\* A mutant: functions and collations change under a running statement.
NotRunning == FALSE

Running == \E s \in Stmts : stmt[s] = "run"

Holds(h, d) == \E x \in Slot : h[x] = d

(* Contents h with the datum d in the slots of S. *)
Put(h, S, d) == [x \in Slot |-> IF x \in S THEN d ELSE h[x]]

(****************************************************************************)
(* SQLite ends a call with contents h: it runs the deleter of each datum it *)
(* was offered or held, and that no slot holds any more.                    *)
(****************************************************************************)
LetGo(h, offered) ==
  {d \in Data : /\ Holds(holder, d) \/ d \in offered
                /\ ~Holds(h, d)}

(* A mutant of Settle: a null pointer is taken for a datum. *)
NullTakenForData(h, offered, library, wrapper) ==
  /\ holder' = h
  /\ given' = given \cup offered
  /\ destroyed' = [d \in Data |-> destroyed[d] + (IF d \in library \cup wrapper THEN 1 ELSE 0)]

(* A call is over: contents h, deleters run by SQLite and by the wrapper. *)
Settle(h, offered, library, wrapper) ==
  /\ holder' = h
  /\ given' = given \cup (offered \cap Data)
  /\ destroyed' = [d \in Data |-> destroyed[d]
                     + (IF d \in library THEN 1 ELSE 0)
                     + (IF d \in wrapper THEN 1 ELSE 0)]

Offer(d) == d \in (Data \ given) \cup {None}

-----------------------------------------------------------------------------
(* database *)

(****************************************************************************)
(* create_function, create_window_function: SQLite takes the encodings in   *)
(* turn and stops at the first one it refuses, because a statement is       *)
(* running and the function exists, or because memory runs out at encoding  *)
(* "oom".  Encodings done before stay done.  SQLite runs the deleter when   *)
(* it has kept nothing.  A null function removes the registration.          *)
(****************************************************************************)
CreateFunction(f, encs, d, oom) ==
  LET Refused(e) == e = oom \/ (Running /\ holder[<<f, e>>] # None)
      done == {e \in encs : \A p \in encs : Rank[p] <= Rank[e] => ~Refused(p)}
      h == Put(holder, {f} \X done, d)
  IN /\ conn = "open"
     /\ Offer(d)
     /\ Settle(h, {d}, LetGo(h, {d}), {})
     /\ UNCHANGED <<conn, stmt>>

(****************************************************************************)
(* create_collation: SQLite refuses to change an existing collation while a *)
(* statement runs (and may run out of memory).  It never runs the deleter   *)
(* of a collation it refuses: the wrapper does, before it throws.           *)
(****************************************************************************)
\* Mutants: the wrapper deletes whatever SQLite answers, or leaves it to SQLite.
CollationAlwaysDeleted(d, failed) == {d} \cap Data
CollationNeverDeleted(d, failed) == {}

CollationDeleter(d, failed) == IF failed THEN {d} \cap Data ELSE {}

CreateCollation(c, e, d, oom) ==
  LET refused == oom \/ (Running /\ holder[<<c, e>>] # None)
      h == IF refused THEN holder ELSE Put(holder, {<<c, e>>}, d)
  IN /\ conn = "open"
     /\ Offer(d)
     /\ Settle(h, {d}, LetGo(h, {}), CollationDeleter(d, refused))
     /\ UNCHANGED <<conn, stmt>>

(* create_module: the module is replaced at once, even while in use. *)
CreateModule(m, d, oom) ==
  LET h == IF oom THEN holder ELSE Put(holder, {<<m, "module">>}, d)
  IN /\ conn = "open"
     /\ Offer(d)
     /\ Settle(h, {d}, LetGo(h, {d}), {})
     /\ UNCHANGED <<conn, stmt>>

(****************************************************************************)
(* DROP TABLE disconnects the module's table.  SQLite refuses while a       *)
(* running statement reads that table; a statement that is only prepared    *)
(* keeps the module's data alive, not the table.                            *)
(****************************************************************************)
DropTable(m) ==
  LET h == Put(holder, {<<m, "table">>}, None)
  IN /\ conn = "open"
     /\ holder[<<m, "table">>] # None
     /\ \A s \in Stmts : stmt[s] = "run" => holder[<<s, "vtab">>] # holder[<<m, "table">>]
     /\ Settle(h, {}, LetGo(h, {}), {})
     /\ UNCHANGED <<conn, stmt>>

(* set_clientdata: memory can run out only for a name not seen before. *)
SetClientData(k, d, oom) ==
  LET refused == oom /\ d # None /\ holder[<<k, "clientdata">>] = None
      h == IF refused THEN holder ELSE Put(holder, {<<k, "clientdata">>}, d)
  IN /\ conn = "open"
     /\ Offer(d)
     /\ Settle(h, {d}, LetGo(h, {d}), {})
     /\ UNCHANGED <<conn, stmt>>

(****************************************************************************)
(* deserialize with an owned buffer: a size that does not fit throws before *)
(* the call, while the buffer is still the argument's, which frees it.      *)
(* After the call the argument is released: SQLite frees the buffer, at     *)
(* once when it fails and when the schema is closed or replaced otherwise.  *)
(****************************************************************************)
\* A mutant: the argument is not released after the call.
BufferNotReleased(d, fits) == {d}

BufferFreedByArgument(d, fits) == IF fits THEN {} ELSE {d}

Deserialize(c, d, fits, refused) ==
  LET h == IF fits /\ ~refused THEN Put(holder, {<<c, "image">>}, d) ELSE holder
      offered == IF fits THEN {d} ELSE {}
  IN /\ conn = "open"
     /\ d \in Data \ given
     /\ Settle(h, {d}, LetGo(h, offered), BufferFreedByArgument(d, fits))
     /\ UNCHANGED <<conn, stmt>>

(****************************************************************************)
(* ~database calls sqlite3_close_v2: tables are disconnected and client     *)
(* data goes at once, the rest when no statement is left.  Until then the   *)
(* connection is a zombie.                                                  *)
(****************************************************************************)
\* Mutants: statements left at close are ignored, or are never all gone.
NothingOutstanding(st) == FALSE
ForeverOutstanding(st) == TRUE

Outstanding(st) == \E s \in Stmts : st[s] # "none"

Close ==
  LET gone == KeySlot \cup TableSlot
                \cup (IF Outstanding(stmt) THEN {} ELSE DatabaseSlot)
      h == Put(holder, gone, None)
  IN /\ conn = "open"
     /\ conn' = IF Outstanding(stmt) THEN "zombie" ELSE "freed"
     /\ Settle(h, {}, LetGo(h, {}), {})
     /\ UNCHANGED stmt

-----------------------------------------------------------------------------
(* statement *)

(* statement::create; "used" is the modules whose tables the SQL names. *)
Prepare(s, used) ==
  LET Table(m) == IF holder[<<m, "table">>] # None THEN holder[<<m, "table">>]
                  ELSE holder[<<m, "module">>]
      h == [x \in Slot |->
              IF x \in used \X {"table"} THEN Table(x[1])
              ELSE IF x = <<s, "vtab">> /\ used # {}
                   THEN Table(CHOOSE m \in used : TRUE)
              ELSE holder[x]]
  IN /\ conn = "open"
     /\ stmt[s] = "none"
     /\ \A m \in used : Table(m) # None
     /\ stmt' = [stmt EXCEPT ![s] = "ready"]
     /\ Settle(h, {}, LetGo(h, {}), {})
     /\ UNCHANGED conn

(* step: a halted statement is reset and started again. *)
Step(s, res) ==
  /\ stmt[s] # "none"
  /\ stmt' = [stmt EXCEPT ![s] = res]
  /\ UNCHANGED <<conn, holder, given, destroyed>>

Reset(s) ==
  /\ stmt[s] \in {"run", "halt"}
  /\ stmt' = [stmt EXCEPT ![s] = "ready"]
  /\ UNCHANGED <<conn, holder, given, destroyed>>

(* clear_bindings does not ask whether the statement is running. *)
ClearBindings(s) ==
  LET h == Put(holder, {s} \X Params, None)
  IN /\ stmt[s] # "none"
     /\ Settle(h, {}, LetGo(h, {}), {})
     /\ UNCHANGED <<conn, stmt>>

(****************************************************************************)
(* Every sqlite3_bind_xxx: a statement that is not ready refuses, and the   *)
(* deleter of the value runs.  Otherwise the old value goes first, then a   *)
(* value that is too big is refused as well.                                *)
(****************************************************************************)
Bind(s, p, d, tooBig, wrapper, argument) ==
  LET kept == IF tooBig THEN None ELSE d
      h == IF stmt[s] = "ready" THEN Put(holder, {<<s, p>>}, kept) ELSE holder
  IN /\ stmt[s] # "none"
     /\ Settle(h, {argument}, LetGo(h, {d}), wrapper)
     /\ UNCHANGED <<conn, stmt>>

(****************************************************************************)
(* bind of a pointer or of a unique_ptr, and carray_bind: SQLite runs the   *)
(* deleter on every failure.                                                *)
(****************************************************************************)
BindPointer(s, p, d) ==
  /\ d \in Data \ given
  /\ Bind(s, p, d, FALSE, {}, d)

(* carray_bind can also fail before it looks at the statement. *)
CArrayBindFails(s, d) ==
  /\ stmt[s] # "none"
  /\ d \in Data \ given
  /\ Settle(holder, {d}, LetGo(holder, {d}), {})
  /\ UNCHANGED <<conn, stmt>>

(****************************************************************************)
(* bind_reference with an unref function.  No data: the wrapper calls unref *)
(* itself and binds an empty value.  More than INT_MAX bytes: int_size      *)
(* throws while the arguments of the SQLite call are evaluated.             *)
(****************************************************************************)
\* A mutant: an empty value is bound without a word to its owner.
UnrefForgotten(d) == {}

UnrefOnNull(d) == {d}
UnrefOnHuge(d) == {}

BindReference(s, p, d, size) ==
  /\ d \in Data \ given
  /\ \/ /\ size \in {"fits", "toobig"}
        /\ Bind(s, p, d, size = "toobig", {}, d)
     \/ /\ size = "null"
        /\ Bind(s, p, None, FALSE, UnrefOnNull(d), d)
     \/ /\ size = "huge"
        /\ stmt[s] # "none"
        /\ Settle(holder, {d}, {}, UnrefOnHuge(d))
        /\ UNCHANGED <<conn, stmt>>

(* Any other bind, or bind with a null pointer: the old value is replaced. *)
BindValue(s, p) == Bind(s, p, None, FALSE, {}, None)

(****************************************************************************)
(* ~statement calls sqlite3_finalize, which also frees a zombie connection  *)
(* when this was its last statement.                                        *)
(****************************************************************************)
Finalize(s) ==
  LET st == [stmt EXCEPT ![s] = "none"]
      last == conn = "zombie" /\ ~Outstanding(st)
      h == Put(holder, ({s} \X (Params \cup {"vtab"}))
                         \cup (IF last THEN DatabaseSlot ELSE {}), None)
  IN /\ stmt[s] # "none"
     /\ stmt' = st
     /\ conn' = IF last THEN "freed" ELSE conn
     /\ Settle(h, {}, LetGo(h, {}), {})

-----------------------------------------------------------------------------
MaybeData == Data \cup {None}

DatabaseNext ==
  \/ \E d \in MaybeData, f \in Functions, encs \in EncodingArgs, oom \in Encodings \cup {None} :
       CreateFunction(f, encs, d, oom)
  \/ \E d \in MaybeData, c \in Collations, e \in Encodings, oom \in BOOLEAN :
       CreateCollation(c, e, d, oom)
  \/ \E d \in MaybeData, m \in Modules, oom \in BOOLEAN : CreateModule(m, d, oom)
  \/ \E d \in MaybeData, k \in Keys, oom \in BOOLEAN : SetClientData(k, d, oom)
  \/ \E c \in Schemas, d \in Data, fits, refused \in BOOLEAN :
       Deserialize(c, d, fits, refused)
  \/ \E m \in Modules : DropTable(m)
  \/ Close

StatementNext ==
  \E s \in Stmts :
    \/ \E used \in {{}} \cup {{m} : m \in Modules} : Prepare(s, used)
    \/ \E res \in {"run", "halt"} : Step(s, res)
    \/ Reset(s)
    \/ ClearBindings(s)
    \/ \E p \in Params :
         \/ BindValue(s, p)
         \/ \E d \in Data : \/ BindPointer(s, p, d)
                            \/ \E size \in BindSizes : BindReference(s, p, d, size)
    \/ \E d \in Data : CArrayBindFails(s, d)
    \/ Finalize(s)

Next == DatabaseNext \/ StatementNext

Spec == Init /\ [][Next]_vars

(****************************************************************************)
(* The owners of the database and of the statements are unique_ptrs, whose  *)
(* scopes end: ~database and ~statement run at some point.                  *)
(****************************************************************************)
Fairness == WF_vars(Close) /\ \A s \in Stmts : WF_vars(Finalize(s))

FairSpec == Spec /\ Fairness

-----------------------------------------------------------------------------
(* No deleter runs twice, whichever of SQLite and the wrapper calls it. *)
DestroyedAtMostOnce == \A d \in Data : destroyed[d] <= 1

(* SQLite never keeps, and so never passes to a callback, a deleted datum. *)
NoDanglingRegistration ==
  \A x \in Slot : holder[x] # None => destroyed[holder[x]] = 0

(****************************************************************************)
(* A datum that was handed over is still held by SQLite or was deleted, no  *)
(* matter how the calls it was passed to ended.                             *)
(****************************************************************************)
NothingLeaked == \A d \in given : destroyed[d] > 0 \/ Holds(holder, d)

(* No datum is deleted twice, kept after its deletion, or lost. *)
EachDatumAccounted == DestroyedAtMostOnce /\ NoDanglingRegistration /\ NothingLeaked

(* A freed connection has no statement and holds nothing. *)
FreedHoldsNothing ==
  conn = "freed" => /\ \A s \in Stmts : stmt[s] = "none"
                    /\ \A x \in Slot : holder[x] = None

(****************************************************************************)
(* While a statement keeps running, the data of the functions and the       *)
(* collations that existed, which it may be calling, are not deleted: not   *)
(* by a replacement, and not by closing the database first.                 *)
(****************************************************************************)
HeldIn(S, d) == \E x \in S : holder[x] = d

RunningKeepsCallbacks ==
  [][(\E s \in Stmts : stmt[s] = "run" /\ stmt'[s] = "run")
       => \A d \in Data : HeldIn(FunctionSlot \cup CollationSlot, d)
                            => destroyed'[d] = destroyed[d]]_vars

(* Everything handed over is deleted in the end. *)
EventuallyDestroyed == \A d \in Data : (d \in given) ~> (destroyed[d] = 1)

-----------------------------------------------------------------------------
(* A datum is the library's while it is held, and nobody's once deleted. *)
owner == [d \in Data |-> IF Holds(holder, d) THEN "library"
                         ELSE IF destroyed[d] > 0 THEN "nobody"
                         ELSE IF d \in given THEN "lost" ELSE "caller"]

Abstract == INSTANCE Ownership WITH owner <- owner, deletions <- destroyed

(* The calls implement the ownership protocol. *)
ImplementsOwnership == Abstract!Spec
===============================================================================
