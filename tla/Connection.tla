----------------------------- MODULE Connection -----------------------------
(***************************************************************************)
(* The transactions of one connection as the program behind the wrapper    *)
(* sees them: statements run by exec, the blobs of open_blob, the hooks    *)
(* that database_impl.hpp installs, and another connection to the same     *)
(* file.  An open blob is a statement in progress, so it takes part in the *)
(* decision when a transaction ends; the destructor of a blob discards the *)
(* code sqlite3_blob_close returns.                                        *)
(*                                                                         *)
(* A call is split at the points where another connection may come in      *)
(* between: taking the lock ("lock"), ending the statement ("halt"), the   *)
(* notification of the WAL ("done") and the return to the program.         *)
(* Staying at "lock" or "halt" is the busy handler asking to try again.    *)
(***************************************************************************)
EXTENDS FiniteSets

CONSTANTS
    Rows,       \* the rows whose values are looked at
    Marks,      \* texts and blobs, told apart only by being different
    NoValue,    \* a value that is neither: open_blob and reopen refuse it
    Handles,    \* blob objects
    Slots,      \* the callbacks this instance may install
    None

AllSlots == {"busy", "commit", "rollback", "update", "wal"}

ASSUME SlotsAssumption == Slots \subseteq AllSlots
ASSUME ValuesAssumption == NoValue \notin Marks /\ Marks # {}

VARIABLES
    mode,       \* the journal of the file: "rollback" or "wal"
    disk,       \* what is committed
    foreign,    \* what the other connection is doing
    hooks,      \* what each slot of the connection holds
    db,         \* the connection and its blobs
    call        \* the call in progress, and what the program heard during it

vars == <<mode, disk, foreign, hooks, db, call>>

Cells == Marks \cup {NoValue}
Contents == [Rows -> Cells]

(* What a statement ends with.  "fail" and "rollback" are the constraints  *)
(* of OR FAIL and OR ROLLBACK, and of RAISE in a trigger.  "fatal" stands  *)
(* for the codes for which sqlite3VdbeHalt gives everything up: an i/o     *)
(* error, an interrupted writer, which a progress handler can ask for, and *)
(* out of memory or disk; with a statement journal the last two are        *)
(* "other", which is every other error.                                    *)
Codes == {"ok", "busy", "veto", "other", "fail", "rollback", "fatal"}

(***************************************************************************)
(* Blobs                                                                   *)
(***************************************************************************)
Blob(is, r, w) ==
    [is |-> is, row |-> r, writes |-> w, cursor |-> "valid", rc |-> "ok"]
Closed == Blob("closed", None, FALSE)
Aborted == Blob("aborted", None, FALSE)

Blobs == [is : {"closed", "open", "aborted"}, row : Rows \cup {None},
          writes : BOOLEAN, cursor : {"valid", "expired", "tripped"},
          rc : Codes]

Open(b) == {h \in Handles : b[h].is = "open"}
Writers(b) == {h \in Open(b) : b[h].writes}

(* A changed row expires the blobs that are open on it.                    *)
Expired(b, r) ==
    [h \in Handles |-> IF b[h].is = "open" /\ b[h].row = r
                       THEN [b[h] EXCEPT !.cursor = "expired"] ELSE b[h]]

(* A rollback trips the blobs that are open for writing.                   *)
Tripped(b) ==
    [h \in Handles |-> IF h \in Writers(b)
                       THEN [b[h] EXCEPT !.cursor = "tripped"] ELSE b[h]]

(***************************************************************************)
(* The connection                                                          *)
(***************************************************************************)
Connections ==
    [auto : BOOLEAN,                      \* autocommit
     txn : {"none", "read", "write"},     \* the lock it holds
     pages : Contents,                    \* what it reads
     dirty : BOOLEAN,                     \* its transaction has written
     stale : BOOLEAN,                     \* a commit is missing from pages
     news : BOOLEAN,                      \* the WAL has an unreported commit
     blobs : [Handles -> Blobs]]

Heard == {"commit", "rollback", "update", "wal", "written"}

Operations == {"idle", "read", "write", "begin", "commit", "rollback",
               "open", "close", "blob"}
Calls == [op : Operations, at : {"idle", "lock", "halt", "done", "return"},
          blob : Handles \cup {None}, rc : Codes,
          threw : {"none", "error", "abort", "hook"} \cup (Codes \ {"ok"}),
          before : Contents \cup {None}, heard : SUBSET Heard]

Idle == [op |-> "idle", at |-> "idle", blob |-> None, rc |-> "ok",
         threw |-> "none", before |-> None, heard |-> {}]

Statements == {"read", "write", "begin", "commit", "rollback"}

(* A call by its name, the stage it is at, and the result so far.  before  *)
(* is what the connection read when its statement began to run, and None   *)
(* when the statement keeps no journal that could bring that back.         *)
At(op, at, code, thrown) ==
    [Idle EXCEPT !.op = op, !.at = at, !.rc = code, !.threw = thrown,
                 !.before = IF op \in Statements THEN db.pages ELSE None]

TypeOK ==
    /\ mode \in {"rollback", "wal"}
    /\ disk \in Contents
    /\ foreign \in {"idle", "reading", "writing"}
    /\ hooks \in [AllSlots -> {None, "callback", "builtin"}]
    /\ db \in Connections
    /\ call \in Calls

(* A new connection has autocommit on, and a checkpoint as its WAL hook.   *)
Init ==
    /\ mode \in {"rollback", "wal"}
    /\ disk \in Contents
    /\ foreign = "idle"
    /\ hooks = [s \in AllSlots |-> IF s = "wal" THEN "builtin" ELSE None]
    /\ db = [auto |-> TRUE, txn |-> "none", pages |-> disk, dirty |-> FALSE,
             stale |-> FALSE, news |-> FALSE,
             blobs |-> [h \in Handles |-> Closed]]
    /\ call = Idle

Answers(slot) == hooks[slot] = "callback"

(* busy_timeout takes the slot of busy_handler, wal_autocheckpoint that of *)
(* wal_hook; each of the others holds a callback or nothing.               *)
SetHook(slot, to) ==
    /\ call = Idle
    /\ to \in {None, "callback"} \cup
              (IF slot \in {"busy", "wal"} THEN {"builtin"} ELSE {})
    /\ hooks' = [hooks EXCEPT ![slot] = to]
    /\ UNCHANGED <<mode, disk, foreign, db, call>>

(***************************************************************************)
(* How a transaction ends                                                  *)
(***************************************************************************)
(* The lock is given back when no other statement is running.              *)
Released(s) ==
    LET last == Open(s.blobs) = {} IN
    [s EXCEPT !.txn = IF last THEN "none" ELSE "read", !.dirty = FALSE,
              !.stale = @ /\ ~last /\ s.txn = "read",
              !.pages = IF last \/ s.txn = "write" THEN disk ELSE @]

RolledBack(s, trip) ==
    [Released(s) EXCEPT !.blobs = IF trip THEN Tripped(@) ELSE @]

(* The bug of a rollback that is not told to the program.                  *)
HeardNothing(s) == {}
RollbackHeard(s) ==
    IF Answers("rollback") /\ (s.txn = "write" \/ ~s.auto)
    THEN {"rollback"} ELSE {}

(* A commit needs every reader gone in rollback mode; then the commit hook *)
(* is asked; then the file is written, which may fail.                     *)
CommitCodes ==
    IF db.txn # "write" THEN {"ok"}
    ELSE IF mode = "rollback" /\ foreign = "reading" THEN {"busy"}
    ELSE {"ok"} \cup (IF Answers("commit") THEN {"veto"} ELSE {})
                \cup (IF db.dirty THEN {"fatal"} ELSE {})

CommitHeard(code) ==
    (IF Answers("commit") /\ db.txn = "write" /\ code # "busy"
     THEN {"commit"} ELSE {})
    \cup (IF db.dirty /\ code = "ok" THEN {"written"} ELSE {})

Committed ==
    [db EXCEPT !.txn = IF Open(db.blobs) = {} THEN "none" ELSE "read",
               !.dirty = FALSE,
               !.stale = @ /\ db.txn = "read" /\ Open(db.blobs) # {},
               !.pages = IF db.txn = "write" \/ Open(db.blobs) # {}
                         THEN @ ELSE disk,
               !.news = @ \/ (mode = "wal" /\ db.dirty)]

(* The bug of a statement that commits although a blob is being written.   *)
EndsIfAutocommit == db.auto
EndsTransaction == db.auto /\ Writers(db.blobs) = {}

(* The call goes on with the code its statement ended with.                *)
After(code, heard) ==
    call' = [call EXCEPT !.at = IF call.op \in Statements /\ code = "ok"
                                THEN "done" ELSE "return",
                         !.rc = code, !.before = None,
                         !.threw = IF call.op \in Statements /\ code # "ok"
                                   THEN code ELSE @,
                         !.heard = @ \cup heard]

(* A fatal code rolls everything back, explicit transaction included.      *)
HaltFatal ==
    /\ call.at = "halt" /\ call.rc = "fatal"
    /\ db' = [RolledBack(db, TRUE) EXCEPT !.auto = TRUE]
    /\ After(call.rc, RollbackHeard(db))
    /\ UNCHANGED <<mode, disk, foreign, hooks>>

(* The bug of keeping what a failed statement has changed.                 *)
KeptAnyway == db

(* The journal of a failed statement is played back.                       *)
Undone ==
    IF call.op = "write" /\ db.txn = "write" /\ call.before # None
    THEN [db EXCEPT !.pages = call.before] ELSE db

(* A transaction or a blob goes on: OR FAIL keeps what the statement has   *)
(* changed, OR ROLLBACK gives all up, any other error undoes its statement.*)
HaltWithin ==
    /\ call.at = "halt" /\ call.rc # "fatal" /\ ~EndsTransaction
    /\ db' = CASE call.rc \in {"ok", "fail"} -> db
               [] call.rc = "rollback" ->
                     [RolledBack(db, TRUE) EXCEPT !.auto = TRUE]
               [] OTHER -> Undone
    /\ After(call.rc, IF call.rc = "rollback" THEN RollbackHeard(db) ELSE {})
    /\ UNCHANGED <<mode, disk, foreign, hooks>>

Commits == call.at = "halt" /\ call.rc \in {"ok", "fail"} /\ EndsTransaction

HaltFailed ==
    /\ call.at = "halt" /\ call.rc \notin {"ok", "fail", "fatal"}
    /\ EndsTransaction
    /\ db' = RolledBack(db, FALSE)
    /\ After(call.rc, RollbackHeard(db))
    /\ UNCHANGED <<mode, disk, foreign, hooks>>

(* The bug of asking the commit hook when the file is written already.     *)
AskedTooLate(code) ==
    /\ Commits /\ code \in CommitCodes \ {"busy", "fatal"}
    /\ disk' = IF db.txn = "write" THEN db.pages ELSE disk
    /\ db' = Committed
    /\ After(code, CommitHeard("ok"))
    /\ UNCHANGED <<mode, foreign, hooks>>

(* OR FAIL commits what its statement has changed, and still is an error.  *)
(* COMMIT that finds the file busy leaves the transaction open; any other  *)
(* failure gives the transaction up.                                       *)
HaltCommit(code) ==
    /\ Commits /\ code \in CommitCodes
    /\ disk' = IF db.txn = "write" /\ code = "ok" THEN db.pages ELSE disk
    /\ db' = IF code = "ok" THEN Committed
             ELSE IF code = "busy" /\ call.op = "commit"
             THEN [db EXCEPT !.auto = FALSE]
             ELSE RolledBack(db, FALSE)
    /\ After(IF code = "ok" THEN call.rc ELSE code,
             CommitHeard(code) \cup
                   IF code = "ok" \/ (code = "busy" /\ call.op = "commit")
                   THEN {} ELSE RollbackHeard(db))
    /\ UNCHANGED <<mode, foreign, hooks>>

(* A statement that is done in autocommit reports the commits of the WAL;  *)
(* what the wal hook throws becomes the error of that statement.           *)
Notify(thrown) ==
    /\ call.at = "done"
    /\ IF db.auto /\ db.news
       THEN /\ thrown \in IF Answers("wal") THEN {"none", "hook"} ELSE {"none"}
            /\ call' = [call EXCEPT !.at = "return", !.threw = thrown,
                                    !.heard = @ \cup
                                        IF Answers("wal") THEN {"wal"} ELSE {}]
            /\ db' = [db EXCEPT !.news = FALSE]
       ELSE /\ thrown = "none"
            /\ call' = [call EXCEPT !.at = "return"]
            /\ db' = db
    /\ UNCHANGED <<mode, disk, foreign, hooks>>

Return ==
    /\ call.at = "return"
    /\ call' = Idle
    /\ UNCHANGED <<mode, disk, foreign, hooks, db>>

(***************************************************************************)
(* Statements                                                              *)
(***************************************************************************)
Reading(s) == [s EXCEPT !.txn = IF @ = "none" THEN "read" ELSE @]
Writing(s) == [s EXCEPT !.txn = "write"]

Read(code) ==
    /\ call = Idle
    /\ code \in {"ok", "other", "fatal"}
    /\ db' = Reading(db)
    /\ call' = At("read", "halt", code, "none")
    /\ UNCHANGED <<mode, disk, foreign, hooks>>

Write ==
    /\ call = Idle
    /\ call' = At("write", "lock", "ok", "none")
    /\ UNCHANGED <<mode, disk, foreign, hooks, db>>

(* BEGIN, COMMIT and ROLLBACK change the mode and then end as statements.  *)
Begin ==
    /\ call = Idle
    /\ call' = At("begin", "halt", IF db.auto THEN "ok" ELSE "other", "none")
    /\ db' = [db EXCEPT !.auto = FALSE]
    /\ UNCHANGED <<mode, disk, foreign, hooks>>

Commit ==
    /\ call = Idle
    /\ IF db.auto \/ Writers(db.blobs) # {}
       THEN /\ call' = At("commit", "halt",
                          IF db.auto THEN "other" ELSE "busy", "none")
            /\ db' = db
       ELSE /\ call' = At("commit", "halt", "ok", "none")
            /\ db' = [db EXCEPT !.auto = TRUE]
    /\ UNCHANGED <<mode, disk, foreign, hooks>>

Rollback ==
    /\ call = Idle
    /\ IF db.auto
       THEN /\ call' = At("rollback", "halt", "other", "none")
            /\ db' = db
       ELSE /\ call' = [At("rollback", "halt", "ok", "none")
                            EXCEPT !.heard = RollbackHeard(db)]
            /\ db' = [RolledBack(db, TRUE) EXCEPT !.auto = TRUE]
    /\ UNCHANGED <<mode, disk, foreign, hooks>>

(* The write lock; a reader whose snapshot is old cannot have it.          *)
Lockable == db.txn = "write" \/ (foreign # "writing" /\ ~db.stale)

(* The handler is not asked when the connection is reading already.        *)
Refused ==
    /\ call.at = "lock" /\ ~Lockable
    /\ call' = [call EXCEPT !.at = "halt", !.rc = "busy", !.threw = "busy",
                            !.before = db.pages]
    /\ UNCHANGED <<mode, disk, foreign, hooks, db>>

Failures == {"other", "fail", "rollback", "fatal"}

(* A statement changes a row, and ends or fails when it has done so.  Not  *)
(* every statement that may fail has a journal of its own.                 *)
Change(r, c) ==
    /\ call.at = "lock" /\ call.op = "write" /\ Lockable
    /\ db' = [Writing(db) EXCEPT !.pages[r] = c, !.dirty = TRUE,
                                 !.blobs = Expired(@, r)]
    /\ \E code \in Failures \cup {"ok"}, undo \in BOOLEAN :
          /\ undo \/ code = "other"
          /\ call' = [call EXCEPT !.at = "halt", !.rc = code,
                             !.before = IF undo THEN db.pages ELSE None,
                             !.heard = IF Answers("update")
                                       THEN {"update"} ELSE {}]
    /\ UNCHANGED <<mode, disk, foreign, hooks>>

(* A statement that fails before it has changed anything.                  *)
ChangeFails(code) ==
    /\ call.at = "lock" /\ call.op = "write" /\ Lockable
    /\ code \in Failures
    /\ db' = Writing(db)
    /\ call' = [call EXCEPT !.at = "halt", !.rc = code, !.before = db.pages]
    /\ UNCHANGED <<mode, disk, foreign, hooks>>

(***************************************************************************)
(* Blobs                                                                   *)
(***************************************************************************)
(* blobSeekToRow: a row without text or blob ends the statement.           *)
Seek(op, s, h, r, w) ==
    IF s.pages[r] \in Marks
    THEN /\ db' = [s EXCEPT !.blobs[h] = Blob("open", r, w)]
         /\ call' = At(op, "return", "ok", "none")
    ELSE /\ db' = [s EXCEPT !.blobs[h] = IF op = "open" THEN Closed
                                         ELSE Aborted]
         /\ call' = At(op, "halt", "ok", "error")

OpenToRead(h, r) ==
    /\ call = Idle /\ db.blobs[h] = Closed
    /\ Seek("open", Reading(db), h, r, FALSE)
    /\ UNCHANGED <<mode, disk, foreign, hooks>>

OpenToWrite(h) ==
    /\ call = Idle /\ db.blobs[h] = Closed
    /\ call' = [At("open", "lock", "ok", "none") EXCEPT !.blob = h]
    /\ UNCHANGED <<mode, disk, foreign, hooks, db>>

Opened(r) ==
    /\ call.at = "lock" /\ call.op = "open" /\ Lockable
    /\ Seek("open", Writing(db), call.blob, r, TRUE)
    /\ UNCHANGED <<mode, disk, foreign, hooks>>

(* The statement of a blob is ended with the code its last call left.      *)
Finalize(op, h, left, code, thrown) ==
    /\ db' = [db EXCEPT !.blobs[h] = left]
    /\ call' = At(op, "halt", code, thrown)

(* ~blob: what the end of the statement reports is not looked at.          *)
Close(h) ==
    /\ call = Idle /\ db.blobs[h] # Closed
    /\ IF db.blobs[h].is = "open"
       THEN Finalize("close", h, Closed, db.blobs[h].rc, "none")
       ELSE /\ db' = [db EXCEPT !.blobs[h] = Closed]
            /\ call' = At("close", "return", "ok", "none")
    /\ UNCHANGED <<mode, disk, foreign, hooks>>

Reopen(h, r) ==
    /\ call = Idle /\ db.blobs[h].is = "open"
    /\ IF db.blobs[h].cursor = "tripped"
       THEN Finalize("blob", h, Aborted, "other", "other")
       ELSE Seek("blob", db, h, r, db.blobs[h].writes)
    /\ UNCHANGED <<mode, disk, foreign, hooks>>

(* read and write on an expired blob abort it, on a tripped one fail.      *)
Unusable(h) ==
    /\ call = Idle /\ db.blobs[h].is = "open"
    /\ \/ /\ db.blobs[h].cursor = "expired"
          /\ Finalize("blob", h, Aborted, db.blobs[h].rc, "abort")
       \/ /\ db.blobs[h].cursor = "tripped"
          /\ db' = [db EXCEPT !.blobs[h].rc = "other"]
          /\ call' = At("blob", "return", "ok", "other")
    /\ UNCHANGED <<mode, disk, foreign, hooks>>

(* A range outside the blob and an aborted blob only throw.                *)
OnlyThrows(h, thrown) ==
    /\ call = Idle
    /\ \/ db.blobs[h].is = "open" /\ thrown = "error"
       \/ db.blobs[h].is = "aborted" /\ thrown \in {"error", "abort"}
    /\ call' = At("blob", "return", "ok", thrown)
    /\ UNCHANGED <<mode, disk, foreign, hooks, db>>

(* The bug of throwing whatever the code is.                               *)
ThrowsAnyway(h, code) ==
    /\ call' = At("blob", "return", "ok", code)
    /\ UNCHANGED <<mode, disk, foreign, hooks>>

(* The statement keeps the code of the last read or write.                 *)
Used(h, code) ==
    /\ call' = At("blob", "return", "ok",
                  IF code = "ok" THEN "none" ELSE code)
    /\ UNCHANGED <<mode, disk, foreign, hooks>>

ReadBlob(h, code) ==
    /\ call = Idle
    /\ db.blobs[h].is = "open" /\ db.blobs[h].cursor = "valid"
    /\ code \in {"ok", "other", "fatal"}
    /\ db' = [db EXCEPT !.blobs[h].rc = code]
    /\ Used(h, code)

(* A write that fails may have written some of the pages.                  *)
WriteBlob(h, m, code) ==
    /\ call = Idle
    /\ db.blobs[h].is = "open" /\ db.blobs[h].cursor = "valid"
    /\ IF db.blobs[h].writes
       THEN /\ code \in {"ok", "fatal"}
            /\ db' = [db EXCEPT !.blobs[h].rc = code, !.dirty = TRUE,
                                !.pages[db.blobs[h].row] = m]
       ELSE /\ code = "other"
            /\ db' = [db EXCEPT !.blobs[h].rc = code]
    /\ Used(h, code)

(***************************************************************************)
(* The other connection                                                    *)
(***************************************************************************)
ForeignStarts(what) ==
    /\ foreign = "idle"
    /\ what = "writing" => db.txn # "write"
    /\ foreign' = what
    /\ UNCHANGED <<mode, disk, hooks, db, call>>

ForeignEnds ==
    /\ foreign # "idle"
    /\ foreign' = "idle"
    /\ UNCHANGED <<mode, disk, hooks, db, call>>

ForeignCommits(r, c) ==
    /\ foreign = "writing"
    /\ mode = "rollback" => db.txn = "none"
    /\ foreign' = "idle"
    /\ disk' = [disk EXCEPT ![r] = c]
    /\ db' = IF db.txn = "none" THEN [db EXCEPT !.pages = disk']
             ELSE [db EXCEPT !.stale = TRUE]
    /\ UNCHANGED <<mode, hooks, call>>

Halt == HaltFatal \/ HaltWithin \/ HaltFailed \/ \E c \in Codes : HaltCommit(c)

Next ==
    \/ \E s \in Slots, to \in {None, "callback", "builtin"} : SetHook(s, to)
    \/ \E c \in Codes : Read(c)
    \/ Write \/ Begin \/ Commit \/ Rollback \/ Refused
    \/ \E r \in Rows, c \in Cells : Change(r, c)
    \/ \E c \in Codes : ChangeFails(c)
    \/ Halt
    \/ \E t \in {"none", "hook"} : Notify(t)
    \/ Return
    \/ \E h \in Handles :
          \/ \E r \in Rows : OpenToRead(h, r) \/ Reopen(h, r)
          \/ OpenToWrite(h) \/ Close(h) \/ Unusable(h)
          \/ \E t \in {"error", "abort"} : OnlyThrows(h, t)
          \/ \E c \in Codes :
                ReadBlob(h, c) \/ \E m \in Marks : WriteBlob(h, m, c)
    \/ \E r \in Rows : Opened(r)
    \/ \E w \in {"reading", "writing"} : ForeignStarts(w)
    \/ ForeignEnds
    \/ \E r \in Rows, c \in Cells : ForeignCommits(r, c)

Spec == Init /\ [][Next]_vars

(***************************************************************************)
(* Properties                                                              *)
(***************************************************************************)
(* A blob that can still be written holds the write lock whatever other    *)
(* statements, rollbacks and failures came in between; and once the call   *)
(* has returned, with autocommit on and no blob open for writing, nothing  *)
(* is left uncommitted: an idle connection never blocks other writers.     *)
LockMatchesUse ==
    /\ \A h \in Writers(db.blobs) :
          db.blobs[h].cursor # "tripped" => db.txn = "write"
    /\ call = Idle /\ EndsTransaction => db.txn # "write" /\ ~db.dirty

(* A write transaction ends in one of two ways, and the hooks say which:   *)
(* its changes are committed, the commit hook having allowed it and the    *)
(* rollback hook being silent, or they are undone and the rollback hook    *)
(* has been called.  This also holds for the transactions that the         *)
(* destructor of a blob ends, whose result nobody sees.                    *)
EndHeard ==
    [][db.txn = "write" /\ db'.txn # "write" =>
         IF disk' = db.pages /\ "written" \in call'.heard
         THEN /\ Answers("commit") => "commit" \in call'.heard
              /\ "rollback" \notin call'.heard
         ELSE db.dirty /\ Answers("rollback") => "rollback" \in call'.heard]_vars

(* A statement that throws has committed nothing, and what the connection  *)
(* reads then is what it read before the statement, or what is committed,  *)
(* the whole transaction being given up.  The exceptions are the error of  *)
(* a wal hook, which comes when the data are already committed, OR FAIL,   *)
(* which is meant to keep what was changed, and a statement without a      *)
(* journal inside a transaction, of which a half may stay.                 *)
ThrownIsUndone ==
    [][call'.at = "return" /\ call.at # "return" /\ call.op \in Statements
         /\ call'.threw \notin {"none", "hook", "fail"} =>
         /\ disk' = disk
         /\ \/ db'.pages = call.before
            \/ db'.pages = disk /\ ~db'.dirty
            \/ call.before = None /\ ~EndsTransaction]_vars

=============================================================================
