---------------------------- MODULE ErrorCapture ----------------------------
(****************************************************************************)
(* How a failed call becomes an exception.  SQLite returns a code and keeps *)
(* the details in the connection, where the constructor of error fetches    *)
(* them with four more calls.  Other threads may use the connection between *)
(* any two of these calls, unless the program holds the connection's mutex  *)
(* with lock_adapter from before the call until it has the exception.       *)
(*                                                                          *)
(* A detail is represented by the call it belongs to.                       *)
(****************************************************************************)
EXTENDS Naturals, FiniteSets

CONSTANTS Threads,      \* threads that use the connection
          MaxCalls,     \* bound: calls each thread makes
          Kinds,        \* kinds of calls they make
          DeleterKinds, \* what a collation's deleter calls, "none" for nothing
          NoCall,       \* no detail: a null message, errno 0, offset -1
          NoThread,     \* an unlocked mutex
          Freed         \* what is read through a dangling pointer

(****************************************************************************)
(* ok         succeeds and clears the error                                 *)
(* row, done  step succeeds: only the code changes                          *)
(* error      sqlite3Error: a code, and no message                          *)
(* text       sqlite3ErrorWithMsg: a code and a message                     *)
(* compile    a failed prepare: also the offset in the SQL                  *)
(* step       a failed step: a code and a message, and no offset            *)
(* io         sqlite3Error, with errno                                      *)
(* unready    bind to a running statement: SQLITE_MISUSE, recorded          *)
(* misuse     SQLITE_MISUSE, with the connection left alone                 *)
(* silent     any other failure that leaves it alone, as in status,         *)
(*            file_control and config                                       *)
(* collation  create_collation refused: text, and the deleter runs          *)
(****************************************************************************)
AllKinds == {"ok", "row", "done", "error", "text", "compile", "step", "io",
             "unready", "misuse", "silent", "collation"}

ASSUME KindsAssumption == Kinds \subseteq AllKinds
ASSUME CallsAssumption == MaxCalls \in Nat
ASSUME ThreadsAssumption == NoThread \notin Threads

VARIABLES locking,   \* whether the program locks around its calls
          mutex,     \* the thread that holds the connection's mutex
          db,        \* the error the connection remembers
          pc,        \* where each thread is
          call,      \* the call each thread makes
          err,       \* the error object it builds
          text       \* its local db_message

vars == <<locking, mutex, db, pc, call, err, text>>

Successes == {"OK", "ROW", "DONE"}
Codes     == Successes \cup {"ERROR", "IOERR", "MISUSE"}

(* The n-th call of a thread, and the one a deleter makes within it. *)
Calls == Threads \X (1..MaxCalls) \X {"call", "deleter"}
Own(t) == <<t, call[t].n, "call">>

(* The text sqlite3_errstr returns for a code, which is static. *)
errstr(code) == <<"errstr", code>>
StaticTexts == {errstr(c) : c \in Codes}
Texts == Calls \cup StaticTexts \cup {Freed, NoCall}

ASSUME NamesAssumption ==
  NoCall \notin Calls /\ Freed \notin Calls \cup StaticTexts \cup {NoCall}

TypeOK ==
  /\ locking \in BOOLEAN
  /\ mutex \in Threads \cup {NoThread}
  /\ db \in [code: Codes, by: Calls \cup {NoCall}, msg: Calls \cup {NoCall},
             offset: Calls \cup {NoCall}, sys: Calls \cup {NoCall}]
  /\ pc \in [Threads -> {"idle", "call", "deleter", "code", "system", "offset",
                         "message", "copy", "thrown", "leave"}]
  /\ call \in [Threads -> [n: 0..MaxCalls, kind: Kinds \cup {"none"}, res: Codes,
                           nested: BOOLEAN]]
  /\ err \in [Threads -> [code: Codes, by: Calls \cup {NoCall}, copied: BOOLEAN,
                          offset: Calls \cup {NoCall}, sys: Calls \cup {NoCall},
                          msg: Texts]]
  /\ text \in [Threads -> Texts]

NoError == [code |-> "OK", by |-> NoCall, copied |-> FALSE,
            offset |-> NoCall, sys |-> NoCall, msg |-> errstr("OK")]

Init ==
  /\ locking \in BOOLEAN
  /\ mutex = NoThread
  /\ db = [code |-> "OK", by |-> NoCall, msg |-> NoCall, offset |-> NoCall,
           sys |-> NoCall]
  /\ pc = [t \in Threads |-> "idle"]
  /\ call = [t \in Threads |-> [n |-> 0, kind |-> "none", res |-> "OK", nested |-> FALSE]]
  /\ err = [t \in Threads |-> NoError]
  /\ text = [t \in Threads |-> errstr("OK")]

-----------------------------------------------------------------------------
(* SQLite *)

Result(k) == IF k = "ok" THEN "OK"
             ELSE IF k = "row" THEN "ROW"
             ELSE IF k = "done" THEN "DONE"
             ELSE IF k = "io" THEN "IOERR"
             ELSE IF k \in {"unready", "misuse"} THEN "MISUSE"
             ELSE "ERROR"

Recorded == AllKinds \ {"misuse", "silent"}

(* The error the connection remembers after the call c of kind k. *)
Remember(k, c) ==
  [code   |-> IF k \in Recorded THEN Result(k) ELSE db.code,
   by     |-> IF k \in Recorded THEN c ELSE db.by,
   msg    |-> IF k \in {"text", "compile", "step", "collation"} THEN c
              ELSE IF k \in {"ok", "error", "io", "unready"} THEN NoCall
              ELSE db.msg,
   offset |-> IF k = "compile" THEN c ELSE IF k = "step" THEN NoCall ELSE db.offset,
   sys    |-> IF k = "io" THEN c ELSE db.sys]

(* sqlite3_errmsg: a pointer into the connection, or a static text. *)
errmsg == IF db.code # "OK" /\ db.msg # NoCall THEN db.msg ELSE errstr(db.code)

-----------------------------------------------------------------------------
Goto(t, label) == pc' = [pc EXCEPT ![t] = label]

(* The program makes a call, inside the lock if it uses one. *)
Enter(t) ==
  /\ pc[t] = "idle"
  /\ call[t].n < MaxCalls
  /\ locking => mutex = NoThread
  /\ mutex' = IF locking THEN t ELSE mutex
  /\ call' = [call EXCEPT ![t].n = @ + 1]
  /\ Goto(t, "call")
  /\ UNCHANGED <<locking, db, err, text>>

\* A mutant: the lock covers the call only.
LockCoversCall(t) == NoThread

(* Whoever holds the mutex once SQLite has returned. *)
LockAfterCall(t) == mutex

(****************************************************************************)
(* SQLite does the call, under its own mutex.  A failure becomes error(int) *)
(* first: its code and the static text.                                     *)
(****************************************************************************)
Call(t, k) ==
  /\ pc[t] = "call"
  /\ db' = Remember(k, Own(t))
  /\ call' = [call EXCEPT ![t].kind = k, ![t].res = Result(k), ![t].nested = FALSE]
  /\ IF Result(k) \in Successes
     THEN Goto(t, "leave") /\ UNCHANGED err
     ELSE /\ Goto(t, IF k = "collation" THEN "deleter" ELSE "code")
          /\ err' = [err EXCEPT ![t] =
               [NoError EXCEPT !.code = Result(k), !.msg = errstr(Result(k))]]
  /\ mutex' = LockAfterCall(t)
  /\ UNCHANGED <<locking, text>>

(* create_collation runs the deleter before it looks at the error. *)
Deleter(t, k) ==
  /\ pc[t] = "deleter"
  /\ IF k = "none" THEN UNCHANGED <<db, call>>
     ELSE /\ db' = Remember(k, <<t, call[t].n, "deleter">>)
          /\ call' = [call EXCEPT ![t].nested = TRUE]
  /\ Goto(t, "code")
  /\ UNCHANGED <<locking, mutex, err, text>>

\* Mutants: one of the two reasons not to use the connection is forgotten.
OnlyIfMisuse(res) == res = "MISUSE" /\ db.code # "MISUSE"
OnlyIfOK(res) == db.code = "OK"

(* When the constructor of error keeps to the code the call returned. *)
KeepsResult(res) == (res = "MISUSE" /\ db.code # "MISUSE") \/ db.code = "OK"

ReadCode(t) ==
  /\ pc[t] = "code"
  /\ IF KeepsResult(call[t].res)
     THEN Goto(t, "thrown") /\ UNCHANGED err
     ELSE /\ Goto(t, "system")
          /\ err' = [err EXCEPT ![t].code = db.code, ![t].by = db.by]
  /\ UNCHANGED <<locking, mutex, db, call, text>>

ReadSystem(t) ==
  /\ pc[t] = "system"
  /\ err' = [err EXCEPT ![t].sys = db.sys]
  /\ Goto(t, "offset")
  /\ UNCHANGED <<locking, mutex, db, call, text>>

\* A mutant: the wrong field is read.
CodeForOffset == db.code

error_offset == IF db.code = "OK" THEN NoCall ELSE db.offset

ReadOffset(t) ==
  /\ pc[t] = "offset"
  /\ err' = [err EXCEPT ![t].offset = error_offset]
  /\ Goto(t, "message")
  /\ UNCHANGED <<locking, mutex, db, call, text>>

ReadMessage(t) ==
  /\ pc[t] = "message"
  /\ text' = [text EXCEPT ![t] = errmsg]
  /\ Goto(t, "copy")
  /\ UNCHANGED <<locking, mutex, db, call, err>>

(* A message of the connection is there until the next one, or none, is set. *)
Readable(m) == m \in Calls => m = db.msg

\* A mutant: the pointer is kept.
PointerKept(t) == [err[t] EXCEPT !.msg = text[t]]

(* copy_message, unless it is the text that error(int) has put there. *)
WithMessage(t) ==
  IF text[t] = err[t].msg THEN err[t]
  ELSE [err[t] EXCEPT !.msg = IF Readable(text[t]) THEN text[t] ELSE Freed,
                      !.copied = TRUE]

(* copy_message has no memory: the exception has no message. *)
WithoutMessage(t) ==
  IF text[t] = err[t].msg THEN err[t]
  ELSE [err[t] EXCEPT !.msg = NoCall, !.copied = TRUE]

CopyMessage(t) ==
  /\ pc[t] = "copy"
  /\ \E e \in {WithMessage(t), WithoutMessage(t)} : err' = [err EXCEPT ![t] = e]
  /\ Goto(t, "thrown")
  /\ UNCHANGED <<locking, mutex, db, call, text>>

(* The exception, or the return, leaves the scope of the lock. *)
Leave(t) ==
  /\ pc[t] \in {"thrown", "leave"}
  /\ mutex' = IF mutex = t THEN NoThread ELSE mutex
  /\ Goto(t, "idle")
  /\ UNCHANGED <<locking, db, call, err, text>>

Next ==
  \E t \in Threads :
    \/ Enter(t)
    \/ \E k \in Kinds : Call(t, k)
    \/ \E k \in DeleterKinds : Deleter(t, k)
    \/ ReadCode(t)
    \/ ReadSystem(t)
    \/ ReadOffset(t)
    \/ ReadMessage(t)
    \/ CopyMessage(t)
    \/ Leave(t)

Spec == Init /\ [][Next]_vars

-----------------------------------------------------------------------------
Thrown(t) == pc[t] = "thrown"

(****************************************************************************)
(* An exception never says SQLITE_OK, although another thread may clear the *)
(* connection's error, and some calls never set it.                         *)
(****************************************************************************)
NeverOK == \A t \in Threads : Thrown(t) => err[t].code # "OK"

(****************************************************************************)
(* SQLITE_MISUSE is reported as such, although the connection is usually    *)
(* not told and remembers another error, or another thread's.               *)
(****************************************************************************)
MisuseIsReported ==
  \A t \in Threads : Thrown(t) /\ call[t].res = "MISUSE" => err[t].code = "MISUSE"

(* The code of an exception as far as the result of the call decides it. *)
CodeKeepsToResult == NeverOK /\ MisuseIsReported

(****************************************************************************)
(* With the lock held, an error that SQLite recorded is described by its    *)
(* own code and message, by its own offset if it is about SQL, and by its   *)
(* own errno if it is about a file, unless a deleter used the connection.   *)
(* Without memory there is no message, rather than another call's.          *)
(****************************************************************************)
OwnError ==
  \A t \in Threads :
    locking /\ Thrown(t) /\ call[t].kind \in Recorded /\ ~call[t].nested =>
      /\ err[t].code = Result(call[t].kind)
      /\ err[t].by = Own(t)
      /\ err[t].msg \in {Own(t), errstr(err[t].code), NoCall}
      /\ call[t].kind \in {"text", "compile", "step"} =>
           err[t].msg \in {Own(t), NoCall}
      /\ call[t].kind = "compile" => err[t].offset = Own(t)
      /\ call[t].kind = "io" => err[t].sys = Own(t)

(****************************************************************************)
(* With the lock held, what an exception says was read while it was there,  *)
(* and can still be read later, whatever the connection is used for.        *)
(****************************************************************************)
MessageOutlivesCall ==
  \A t \in Threads :
    locking /\ pc[t] \in {"thrown", "idle"} =>
      /\ err[t].msg # Freed
      /\ err[t].copied \/ Readable(err[t].msg)
===============================================================================
