--------------------------- MODULE DatabaseProofs ---------------------------
(****************************************************************************)
(* Proofs about the two specifications of what happens to a database file.  *)
(*                                                                          *)
(* Connection, for any number of blobs and rows and whatever hooks are      *)
(* installed.  The invariant follows a call through its stages: between two *)
(* calls and at each stage but "halt" nothing is left uncommitted unless a  *)
(* transaction or a blob keeps it.                                          *)
(*                                                                          *)
(* Backup, for any page contents, any bound on the size of the source, any  *)
(* page counts passed to step and any number of changes in between.  The    *)
(* invariant says what the pages that are copied already are copies of.     *)
(****************************************************************************)
EXTENDS Connection, Backup, SequenceTheorems, TLAPS

-----------------------------------------------------------------------------
(****************************************************************************)
(* The connection.                                                          *)
(****************************************************************************)
(* A blob that can be written has the lock, and what is not committed was   *)
(* written with the lock.                                                   *)
WritersHoldLock ==
  /\ \A h \in Writers(db.blobs) : db.blobs[h].cursor # "tripped" => db.txn = "write"
  /\ \A h \in Open(db.blobs) : db.blobs[h].row \in Rows
  /\ db.dirty => db.txn = "write"

(* The transaction ends with the statement that is the last to need it. *)
NothingPending == call.at # "halt" /\ EndsTransaction => db.txn # "write"

(* What a call has heard and thrown at each of its stages. *)
Stages ==
  /\ call.at = "idle" <=> call = Idle
  /\ call.at = "lock" => /\ call.op \in {"write", "open"} /\ call.heard = {}
                         /\ call.rc = "ok" /\ call.threw = "none"
                         /\ call.op = "open" => call.blob \in Handles
  /\ call.at = "halt" => /\ "written" \notin call.heard
                         /\ call.rc = "ok" /\ call.op \in Statements => call.threw = "none"
                         /\ "rollback" \in call.heard => db.txn # "write"
  /\ call.at = "done" => call.threw = "none"

Consistent ==
  /\ TypeOK
  /\ WritersHoldLock /\ NothingPending /\ Stages

-----------------------------------------------------------------------------
(****************************************************************************)
(* Lemmas about the operators of the model.                                 *)
(****************************************************************************)
(* The fields of a connection. *)
LEMMA ConnectionFacts ==
  ASSUME NEW s \in Connections
  PROVE  /\ s.auto \in BOOLEAN /\ s.txn \in {"none", "read", "write"} /\ s.pages \in Contents
         /\ s.dirty \in BOOLEAN /\ s.stale \in BOOLEAN /\ s.news \in BOOLEAN
         /\ s.blobs \in [Handles -> Blobs]
BY DEF Connections

(* A call by its fields. *)
LEMMA AtFacts ==
  ASSUME NEW op \in Operations, NEW at \in {"idle", "lock", "halt", "done", "return"},
         NEW code \in Codes, db \in Connections,
         NEW thrown \in {"none", "error", "abort", "hook"} \cup (Codes \ {"ok"})
  PROVE  /\ At(op, at, code, thrown) \in Calls
         /\ At(op, at, code, thrown).op = op
         /\ At(op, at, code, thrown).at = at
         /\ At(op, at, code, thrown).rc = code
         /\ At(op, at, code, thrown).threw = thrown
         /\ At(op, at, code, thrown).heard = {}
         /\ op \in Statements => At(op, at, code, thrown).before = db.pages
BY ConnectionFacts DEF At, Idle, Calls

(* Giving the lock back. *)
LEMMA ReleasedFacts ==
  ASSUME NEW s \in Connections, disk \in Contents
  PROVE  /\ Released(s) \in Connections
         /\ Released(s).auto = s.auto /\ Released(s).blobs = s.blobs
         /\ Released(s).txn # "write" /\ Released(s).dirty = FALSE
BY ConnectionFacts DEF Released, Connections

(* A tripped blob stays open, on its row and for writing. *)
LEMMA TrippedFacts ==
  ASSUME NEW b \in [Handles -> Blobs]
  PROVE  /\ Tripped(b) \in [Handles -> Blobs]
         /\ Open(Tripped(b)) = Open(b) /\ Writers(Tripped(b)) = Writers(b)
         /\ \A h \in Writers(b) : Tripped(b)[h].cursor = "tripped"
         /\ \A h \in Open(b) : Tripped(b)[h].row = b[h].row
BY DEF Tripped, Blobs, Open, Writers

(* A rollback ends the write transaction and trips the writers. *)
LEMMA RolledBackFacts ==
  ASSUME NEW s \in Connections, disk \in Contents, NEW trip \in BOOLEAN
  PROVE  /\ RolledBack(s, trip) \in Connections
         /\ RolledBack(s, trip).auto = s.auto
         /\ RolledBack(s, trip).txn # "write" /\ RolledBack(s, trip).dirty = FALSE
         /\ RolledBack(s, trip).blobs = IF trip THEN Tripped(s.blobs) ELSE s.blobs
BY ReleasedFacts, TrippedFacts, ConnectionFacts DEF RolledBack, Connections

(* An expired blob stays open, on its row and for writing as before. *)
LEMMA ExpiredFacts ==
  ASSUME NEW b \in [Handles -> Blobs], NEW r
  PROVE  /\ Expired(b, r) \in [Handles -> Blobs]
         /\ Open(Expired(b, r)) = Open(b) /\ Writers(Expired(b, r)) = Writers(b)
         /\ \A h \in Open(b) : Expired(b, r)[h].row = b[h].row
BY DEF Expired, Blobs, Open, Writers

(* A commit ends the write transaction and leaves the blobs as they are. *)
LEMMA CommittedFacts ==
  ASSUME db \in Connections, disk \in Contents
  PROVE  /\ Committed \in Connections
         /\ Committed.auto = db.auto /\ Committed.blobs = db.blobs
         /\ Committed.txn # "write" /\ Committed.dirty = FALSE
<1> DEFINE txn == IF Open(db.blobs) = {} THEN "none" ELSE "read"
           stale == db.stale /\ db.txn = "read" /\ Open(db.blobs) # {}
           pages == IF db.txn = "write" \/ Open(db.blobs) # {} THEN db.pages ELSE disk
           news == db.news \/ (mode = "wal" /\ db.dirty)
<1>1. Committed = [db EXCEPT !.txn = txn, !.dirty = FALSE, !.stale = stale,
                             !.pages = pages, !.news = news]
  BY DEF Committed
<1>2. txn \in {"none", "read"} /\ stale \in BOOLEAN /\ pages \in Contents /\ news \in BOOLEAN
  BY ConnectionFacts
<1> HIDE DEF txn, stale, pages, news
<1> QED
  BY <1>1, <1>2 DEF Connections

(* Starting to read or to write changes the lock only. *)
LEMMA ReadingFacts ==
  ASSUME NEW s \in Connections
  PROVE  /\ Reading(s) \in Connections /\ Writing(s) \in Connections
         /\ Reading(s).auto = s.auto /\ Reading(s).dirty = s.dirty
         /\ Reading(s).blobs = s.blobs /\ Reading(s).pages = s.pages
         /\ Reading(s).txn = "write" <=> s.txn = "write"
         /\ Writing(s).auto = s.auto /\ Writing(s).dirty = s.dirty
         /\ Writing(s).blobs = s.blobs /\ Writing(s).pages = s.pages
         /\ Writing(s).txn = "write"
BY ConnectionFacts DEF Reading, Writing, Connections


(* The three states of a blob object. *)
LEMMA BlobFacts ==
  /\ Closed \in Blobs /\ Aborted \in Blobs
  /\ Closed.is = "closed" /\ Aborted.is = "aborted"
  /\ \A r \in Rows, w \in BOOLEAN : /\ Blob("open", r, w) \in Blobs
                                    /\ Blob("open", r, w).is = "open"
                                    /\ Blob("open", r, w).row = r
                                    /\ Blob("open", r, w).writes = w
                                    /\ Blob("open", r, w).cursor = "valid"
BY DEF Closed, Aborted, Blob, Blobs, Codes

(* One blob of a connection changes. *)
LEMMA OneBlobFacts ==
  ASSUME NEW s \in Connections, NEW h \in Handles, NEW b \in Blobs,
         db' = [s EXCEPT !.blobs[h] = b]
  PROVE  /\ db' \in Connections
         /\ db'.auto = s.auto /\ db'.txn = s.txn /\ db'.dirty = s.dirty /\ db'.pages = s.pages
         /\ db'.blobs[h] = b
         /\ \A g \in Handles : g # h => db'.blobs[g] = s.blobs[g]
<1>1. s.blobs \in [Handles -> Blobs]
  BY ConnectionFacts
<1>2. db' = [s EXCEPT !.blobs = [s.blobs EXCEPT ![h] = b]]
  BY <1>1
<1>3. [s.blobs EXCEPT ![h] = b] \in [Handles -> Blobs]
  BY <1>1
<1>4. /\ db' \in Connections
      /\ db'.auto = s.auto /\ db'.txn = s.txn /\ db'.dirty = s.dirty /\ db'.pages = s.pages
      /\ db'.blobs = [s.blobs EXCEPT ![h] = b]
  BY <1>2, <1>3 DEF Connections
<1> QED
  BY <1>1, <1>4

(* The fields of a call. *)
LEMMA CallFacts ==
  ASSUME call \in Calls
  PROVE  /\ call.op \in Operations /\ call.at \in {"idle", "lock", "halt", "done", "return"}
         /\ call.blob \in Handles \cup {None} /\ call.rc \in Codes
         /\ call.threw \in {"none", "error", "abort", "hook"} \cup (Codes \ {"ok"})
         /\ call.heard \in SUBSET Heard
BY DEF Calls

(* The call goes on behind the end of its statement. *)
LEMMA AfterFacts ==
  ASSUME call \in Calls, NEW code \in Codes, NEW heard \in SUBSET Heard, After(code, heard)
  PROVE  /\ call' \in Calls
         /\ call'.op = call.op /\ call'.rc = code /\ call'.heard = call.heard \cup heard
         /\ call'.at = IF call.op \in Statements /\ code = "ok" THEN "done" ELSE "return"
         /\ call'.threw = IF call.op \in Statements /\ code # "ok" THEN code ELSE call.threw
<1>1. /\ call.threw \in {"none", "error", "abort", "hook"} \cup (Codes \ {"ok"})
      /\ call.heard \cup heard \in SUBSET Heard
  BY CallFacts
<1> DEFINE at == IF call.op \in Statements /\ code = "ok" THEN "done" ELSE "return"
           threw == IF call.op \in Statements /\ code # "ok" THEN code ELSE call.threw
           all == call.heard \cup heard
<1>2. /\ at \in {"idle", "lock", "halt", "done", "return"}
      /\ threw \in {"none", "error", "abort", "hook"} \cup (Codes \ {"ok"})
      /\ all \in SUBSET Heard
  BY <1>1
<1>3. call' = [call EXCEPT !.at = at, !.rc = code, !.before = None, !.threw = threw,
                           !.heard = all]
  BY DEF After
<1> HIDE DEF at, threw, all
<1>4. /\ call' \in Calls
      /\ call'.op = call.op /\ call'.rc = code /\ call'.heard = all
      /\ call'.at = at /\ call'.threw = threw
  BY <1>2, <1>3 DEF Calls
<1> QED
  BY <1>4 DEF at, threw, all

-----------------------------------------------------------------------------
(****************************************************************************)
(* The operations.                                                          *)
(****************************************************************************)
(* What a new call has to show. *)
LEMMA NewCall ==
  ASSUME Consistent, NEW op \in Operations \ {"idle"},
         NEW at \in {"lock", "halt", "return"}, NEW code \in Codes,
         NEW thrown \in {"none", "error", "abort", "hook"} \cup (Codes \ {"ok"}),
         call' = At(op, at, code, thrown),
         at = "lock" => op = "write" /\ code = "ok" /\ thrown = "none",
         at = "halt" /\ op \in Statements => thrown = "none"
  PROVE  call' \in Calls /\ Stages' /\ call'.at = at
<1> db \in Connections
  BY DEF Consistent, TypeOK
<1>1. /\ call' \in Calls
      /\ call'.op = op /\ call'.at = at /\ call'.rc = code /\ call'.threw = thrown
      /\ call'.heard = {}
  BY AtFacts
<1>2. call' # Idle
  BY <1>1 DEF Idle
<1>3. Stages'
  BY <1>1, <1>2 DEF Stages
<1> QED
  BY <1>1, <1>3

(* A call whose statement has ended. *)
LEMMA EndedCall ==
  ASSUME Consistent, call.at = "halt", NEW code \in Codes, NEW heard \in SUBSET Heard,
         After(code, heard), code = "ok" => call.rc = "ok"
  PROVE  /\ call' \in Calls /\ Stages'
         /\ call'.at # "halt" /\ call'.heard = call.heard \cup heard
<1>1. /\ call' \in Calls
      /\ call'.op = call.op /\ call'.rc = code /\ call'.heard = call.heard \cup heard
      /\ call'.at = IF call.op \in Statements /\ code = "ok" THEN "done" ELSE "return"
      /\ call'.threw = IF call.op \in Statements /\ code # "ok" THEN code ELSE call.threw
  BY AfterFacts DEF Consistent, TypeOK
<1>2. /\ "written" \notin call.heard
      /\ call.rc = "ok" /\ call.op \in Statements => call.threw = "none"
  BY DEF Consistent, Stages
<1>3. call' # Idle
  BY <1>1 DEF Idle
<1>4. Stages'
  BY <1>1, <1>2, <1>3 DEF Stages
<1> QED
  BY <1>1, <1>4

(* Nothing happens to the connection. *)
LEMMA SameConnection ==
  ASSUME WritersHoldLock, db' = db
  PROVE  WritersHoldLock' /\ (EndsTransaction' <=> EndsTransaction)
BY DEF WritersHoldLock, EndsTransaction

(* A transaction that is given up. *)
LEMMA GivenUp ==
  ASSUME Consistent, NEW trip \in BOOLEAN, NEW s \in Connections,
         s.txn # "write", s.dirty = FALSE,
         s.blobs = IF trip THEN Tripped(db.blobs) ELSE db.blobs,
         trip \/ Writers(db.blobs) = {}, db' = s
  PROVE  WritersHoldLock' /\ db'.txn # "write"
<1>1. db.blobs \in [Handles -> Blobs]
  BY ConnectionFacts DEF Consistent, TypeOK
<1>2. \A h \in Open(db.blobs) : db.blobs[h].row \in Rows
  BY DEF Consistent, WritersHoldLock
<1>3. CASE trip
  BY <1>1, <1>2, <1>3, TrippedFacts DEF WritersHoldLock
<1>4. CASE ~trip
  BY <1>2, <1>4 DEF WritersHoldLock
<1> QED
  BY <1>3, <1>4

(* Calling the rollback hook tells of no commit. *)
LEMMA RollbackHeardFacts ==
  RollbackHeard(db) \in SUBSET Heard /\ "written" \notin RollbackHeard(db)
BY DEF RollbackHeard, Heard

(* After a fatal code the transaction is gone and its blobs are tripped. *)
LEMMA HaltFatalStep ==
  ASSUME Consistent, HaltFatal
  PROVE  Consistent'
<1> DEFINE s == RolledBack(db, TRUE)
<1>1. /\ call.at = "halt" /\ call.rc = "fatal" /\ db' = [s EXCEPT !.auto = TRUE]
      /\ After(call.rc, RollbackHeard(db))
      /\ UNCHANGED <<mode, disk, foreign, hooks>>
  BY DEF HaltFatal
<1>2. /\ s \in Connections /\ s.txn # "write" /\ s.dirty = FALSE /\ s.blobs = Tripped(db.blobs)
  BY RolledBackFacts DEF Consistent, TypeOK
<1> HIDE DEF s
<1>3. /\ db' \in Connections /\ db'.txn # "write" /\ db'.dirty = FALSE
      /\ db'.blobs = Tripped(db.blobs)
  BY <1>1, <1>2 DEF Connections
<1>4. WritersHoldLock' /\ db'.txn # "write"
  BY <1>3, GivenUp
<1>5. /\ call' \in Calls /\ Stages' /\ call'.at # "halt"
  BY <1>1, RollbackHeardFacts, EndedCall, CallFacts DEF Consistent, TypeOK
<1>6. TypeOK'
  BY <1>1, <1>3, <1>5 DEF Consistent, TypeOK
<1> QED
  BY <1>4, <1>5, <1>6 DEF Consistent, NothingPending

(* Playing a statement journal back changes what is read, and nothing else. *)
LEMMA UndoneFacts ==
  ASSUME db \in Connections, call \in Calls
  PROVE  /\ Undone \in Connections /\ Undone.auto = db.auto /\ Undone.txn = db.txn
         /\ Undone.dirty = db.dirty /\ Undone.blobs = db.blobs
         /\ Undone.pages = IF call.op = "write" /\ db.txn = "write" /\ call.before # None
                           THEN call.before ELSE db.pages
<1>1. call.before # None => call.before \in Contents
  BY DEF Calls
<1> QED
  BY <1>1 DEF Undone, Connections

(* A transaction or a writer goes on, or OR ROLLBACK has given all of it up. *)
LEMMA HaltWithinStep ==
  ASSUME Consistent, HaltWithin
  PROVE  Consistent'
<1> DEFINE heard == IF call.rc = "rollback" THEN RollbackHeard(db) ELSE {}
<1>1. /\ call.at = "halt" /\ ~EndsTransaction /\ After(call.rc, heard)
      /\ UNCHANGED <<mode, disk, foreign, hooks>>
  BY DEF HaltWithin
<1>2. heard \in SUBSET Heard
  BY RollbackHeardFacts
<1> HIDE DEF heard
<1>3. /\ call' \in Calls /\ Stages' /\ call'.at # "halt"
  BY <1>1, <1>2, EndedCall, CallFacts DEF Consistent, TypeOK
<1>4. CASE call.rc = "rollback"
  <2> DEFINE s == RolledBack(db, TRUE)
  <2>1. db' = [s EXCEPT !.auto = TRUE]
    BY <1>4 DEF HaltWithin
  <2>2. s \in Connections /\ s.txn # "write" /\ s.dirty = FALSE /\ s.blobs = Tripped(db.blobs)
    BY RolledBackFacts DEF Consistent, TypeOK
  <2> HIDE DEF s
  <2>3. /\ db' \in Connections /\ db'.txn # "write" /\ db'.dirty = FALSE
        /\ db'.blobs = Tripped(db.blobs)
    BY <2>1, <2>2 DEF Connections
  <2>4. WritersHoldLock' /\ db'.txn # "write"
    BY <2>3, GivenUp
  <2>5. TypeOK'
    BY <1>1, <1>3, <2>3 DEF Consistent, TypeOK
  <2> QED
    BY <1>3, <2>4, <2>5 DEF Consistent, NothingPending
<1>5. CASE call.rc # "rollback"
  <2>1. db' = db \/ db' = Undone
    BY <1>5 DEF HaltWithin
  <2>2. /\ db' \in Connections /\ db'.auto = db.auto /\ db'.txn = db.txn
        /\ db'.dirty = db.dirty /\ db'.blobs = db.blobs
    BY <2>1, UndoneFacts DEF Consistent, TypeOK
  <2>3. WritersHoldLock' /\ ~EndsTransaction'
    BY <1>1, <2>2 DEF Consistent, WritersHoldLock, EndsTransaction
  <2>4. TypeOK'
    BY <1>1, <1>3, <2>2 DEF Consistent, TypeOK
  <2> QED
    BY <1>3, <2>3, <2>4 DEF Consistent, NothingPending
<1> QED
  BY <1>4, <1>5

(* The failed statement was the last one: its transaction is given up. *)
LEMMA HaltFailedStep ==
  ASSUME Consistent, HaltFailed
  PROVE  Consistent'
<1>1. /\ call.at = "halt" /\ call.rc \notin {"ok", "fail", "fatal"} /\ EndsTransaction
      /\ db' = RolledBack(db, FALSE) /\ After(call.rc, RollbackHeard(db))
      /\ UNCHANGED <<mode, disk, foreign, hooks>>
  BY DEF HaltFailed
<1>2. /\ db' \in Connections /\ db'.txn # "write" /\ db'.dirty = FALSE /\ db'.blobs = db.blobs
  BY <1>1, RolledBackFacts DEF Consistent, TypeOK
<1>3. WritersHoldLock'
  BY <1>1, <1>2, GivenUp DEF EndsTransaction
<1>4. /\ call' \in Calls /\ Stages' /\ call'.at # "halt"
  BY <1>1, RollbackHeardFacts, EndedCall, CallFacts DEF Consistent, TypeOK
<1>5. TypeOK'
  BY <1>1, <1>2, <1>4 DEF Consistent, TypeOK
<1> QED
  BY <1>2, <1>3, <1>4, <1>5 DEF Consistent, NothingPending

(* The codes a commit can end with are codes, and the hooks heard are too. *)
LEMMA CommitFacts ==
  ASSUME NEW code \in CommitCodes
  PROVE  /\ code \in Codes
         /\ CommitHeard(code) \in SUBSET Heard
         /\ "written" \in CommitHeard(code) => code = "ok"
BY DEF CommitCodes, Codes, CommitHeard, Heard

(* The last statement commits, or is refused and gives up, or is a COMMIT that waits. *)
LEMMA HaltCommitStep ==
  ASSUME Consistent, NEW code \in Codes, HaltCommit(code)
  PROVE  Consistent'
<1> DEFINE heard == CommitHeard(code) \cup
                    IF code = "ok" \/ (code = "busy" /\ call.op = "commit")
                    THEN {} ELSE RollbackHeard(db)
<1>1. /\ call.at = "halt" /\ call.rc \in {"ok", "fail"} /\ EndsTransaction
      /\ code \in CommitCodes
      /\ disk' = IF db.txn = "write" /\ code = "ok" THEN db.pages ELSE disk
      /\ db' = IF code = "ok" THEN Committed
               ELSE IF code = "busy" /\ call.op = "commit"
               THEN [db EXCEPT !.auto = FALSE]
               ELSE RolledBack(db, FALSE)
      /\ After(IF code = "ok" THEN call.rc ELSE code, heard)
      /\ UNCHANGED <<mode, foreign, hooks>>
  BY DEF HaltCommit, Commits
<1>2. /\ db \in Connections /\ disk \in Contents /\ db.pages \in Contents
      /\ Writers(db.blobs) = {}
  BY <1>1, ConnectionFacts DEF Consistent, TypeOK, EndsTransaction
<1>3. disk' \in Contents
  BY <1>1, <1>2
<1>4. heard \in SUBSET Heard
  BY <1>1, CommitFacts, RollbackHeardFacts
<1> HIDE DEF heard
<1>5. /\ call' \in Calls /\ Stages' /\ call'.at # "halt"
  <2> DEFINE last == IF code = "ok" THEN call.rc ELSE code
  <2>1. last \in Codes /\ (last = "ok" => call.rc = "ok") /\ After(last, heard)
    BY <1>1, CallFacts DEF Consistent, TypeOK
  <2> HIDE DEF last
  <2> QED
    BY <1>1, <1>4, <2>1, EndedCall
<1>6. CASE code = "busy" /\ call.op = "commit"
  <2>1. /\ db' \in Connections /\ db'.auto = FALSE /\ db'.txn = db.txn
        /\ db'.dirty = db.dirty /\ db'.blobs = db.blobs
    BY <1>1, <1>2, <1>6 DEF Connections
  <2>2. WritersHoldLock' /\ ~EndsTransaction'
    BY <2>1 DEF Consistent, WritersHoldLock, EndsTransaction
  <2>3. TypeOK'
    BY <1>1, <1>3, <1>5, <2>1 DEF Consistent, TypeOK
  <2> QED
    BY <1>5, <2>2, <2>3 DEF Consistent, NothingPending
<1>7. CASE ~(code = "busy" /\ call.op = "commit")
  <2>1. /\ db' \in Connections /\ db'.txn # "write" /\ db'.dirty = FALSE
        /\ db'.blobs = db.blobs
    BY <1>1, <1>2, <1>7, CommittedFacts, RolledBackFacts
  <2>2. WritersHoldLock'
    BY <1>2, <2>1, GivenUp
  <2>3. TypeOK'
    BY <1>1, <1>3, <1>5, <2>1 DEF Consistent, TypeOK
  <2> QED
    BY <1>5, <2>1, <2>2, <2>3 DEF Consistent, NothingPending
<1> QED
  BY <1>6, <1>7

(* The wal hook comes after the commit and does not touch the lock. *)
LEMMA NotifyStep ==
  ASSUME Consistent, NEW thrown \in {"none", "hook"}, Notify(thrown)
  PROVE  Consistent'
<1>1. call.at = "done" /\ call \in Calls /\ db \in Connections /\ call.threw = "none"
      /\ UNCHANGED <<mode, disk, foreign, hooks>>
  BY DEF Notify, Consistent, TypeOK, Stages
<1>2. db' = [db EXCEPT !.news = FALSE] \/ db' = db
  BY DEF Notify
<1>3. db' \in Connections /\ WritersHoldLock' /\ (EndsTransaction' => db'.txn # "write")
  <2>1. /\ db' \in Connections /\ db'.auto = db.auto /\ db'.txn = db.txn
        /\ db'.dirty = db.dirty /\ db'.blobs = db.blobs
    BY <1>1, <1>2 DEF Connections
  <2>2. WritersHoldLock' /\ (EndsTransaction' <=> EndsTransaction)
    BY <2>1 DEF Consistent, WritersHoldLock, EndsTransaction
  <2> QED
    BY <1>1, <2>1, <2>2 DEF Consistent, NothingPending
<1>4. /\ call' \in Calls /\ call'.at = "return"
      /\ call'.threw \in {"none", "hook"}
  <2> DEFINE all == call.heard \cup IF Answers("wal") THEN {"wal"} ELSE {}
  <2>1. all \in SUBSET Heard
    BY <1>1, CallFacts DEF Heard
  <2>2. \/ call' = [call EXCEPT !.at = "return", !.threw = thrown, !.heard = all]
        \/ call' = [call EXCEPT !.at = "return"]
    BY DEF Notify
  <2> HIDE DEF all
  <2>3. CASE call' = [call EXCEPT !.at = "return", !.threw = thrown, !.heard = all]
    BY <1>1, <2>1, <2>3 DEF Calls
  <2>4. CASE call' = [call EXCEPT !.at = "return"]
    BY <1>1, <2>4 DEF Calls
  <2> QED
    BY <2>2, <2>3, <2>4
<1>5. call' # Idle
  BY <1>4 DEF Idle
<1>6. Stages'
  BY <1>4, <1>5 DEF Stages
<1>7. TypeOK'
  BY <1>1, <1>3, <1>4 DEF Consistent, TypeOK
<1> QED
  BY <1>3, <1>6, <1>7 DEF Consistent, NothingPending

(* The fields of no call. *)
LEMMA IdleFacts ==
  /\ Idle \in Calls /\ Idle.op = "idle" /\ Idle.at = "idle" /\ Idle.heard = {}
  /\ Idle.rc = "ok" /\ Idle.threw = "none" /\ Idle.blob = None
BY DEF Idle, Calls, Operations, Codes

(* The program gets back what "return" has promised. *)
LEMMA ReturnStep ==
  ASSUME Consistent, Return
  PROVE  Consistent'
<1>1. /\ call.at = "return" /\ call' = Idle
      /\ UNCHANGED <<mode, disk, foreign, hooks, db>>
  BY DEF Return
<1>2. WritersHoldLock' /\ (EndsTransaction' <=> EndsTransaction)
  BY <1>1, SameConnection DEF Consistent
<1>3. TypeOK'
  BY <1>1, IdleFacts DEF Consistent, TypeOK
<1>4. Stages'
  BY <1>1, IdleFacts DEF Stages
<1> QED
  BY <1>1, <1>2, <1>3, <1>4 DEF Consistent, NothingPending

(* The hooks and the other connection do not touch what the invariant says. *)
LEMMA OutsideStep ==
  ASSUME Consistent, call' = call, db' \in Connections,
         db'.auto = db.auto, db'.txn = db.txn, db'.dirty = db.dirty, db'.blobs = db.blobs,
         mode' \in {"rollback", "wal"}, disk' \in Contents,
         foreign' \in {"idle", "reading", "writing"},
         hooks' \in [AllSlots -> {None, "callback", "builtin"}]
  PROVE  Consistent'
<1>1. TypeOK'
  BY DEF Consistent, TypeOK
<1>2. WritersHoldLock' /\ NothingPending'
  BY DEF Consistent, WritersHoldLock, NothingPending, EndsTransaction
<1>3. Stages'
  BY DEF Consistent, Stages
<1> QED
  BY <1>1, <1>2, <1>3 DEF Consistent

(* Installing a hook between two calls. *)
LEMMA SetHookStep ==
  ASSUME Consistent, NEW slot \in Slots, NEW to \in {None, "callback", "builtin"},
         SetHook(slot, to)
  PROVE  Consistent'
<1>1. /\ hooks' = [hooks EXCEPT ![slot] = to]
      /\ UNCHANGED <<mode, disk, foreign, db, call>>
  BY DEF SetHook
<1>2. hooks' \in [AllSlots -> {None, "callback", "builtin"}]
  BY <1>1 DEF Consistent, TypeOK
<1> QED
  BY <1>1, <1>2, OutsideStep DEF Consistent, TypeOK

(* What the other connection does. *)
LEMMA ForeignStep ==
  ASSUME Consistent,
         \/ \E w \in {"reading", "writing"} : ForeignStarts(w)
         \/ ForeignEnds
         \/ \E r \in Rows, c \in Cells : ForeignCommits(r, c)
  PROVE  Consistent'
<1>1. CASE (\E w \in {"reading", "writing"} : ForeignStarts(w)) \/ ForeignEnds
  <2>1. /\ foreign' \in {"idle", "reading", "writing"}
        /\ UNCHANGED <<mode, disk, hooks, db, call>>
    BY <1>1 DEF ForeignStarts, ForeignEnds
  <2> QED
    BY <2>1, OutsideStep DEF Consistent, TypeOK
<1>2. CASE \E r \in Rows, c \in Cells : ForeignCommits(r, c)
  <2>1. PICK r \in Rows, c \in Cells : ForeignCommits(r, c)
    BY <1>2
  <2>2. /\ foreign' = "idle" /\ disk' = [disk EXCEPT ![r] = c]
        /\ db' = IF db.txn = "none" THEN [db EXCEPT !.pages = disk'] ELSE [db EXCEPT !.stale = TRUE]
        /\ UNCHANGED <<mode, hooks, call>>
    BY <2>1 DEF ForeignCommits
  <2>3. disk' \in Contents
    BY <2>2 DEF Consistent, TypeOK, Contents
  <2>4. /\ db' \in Connections
        /\ db'.auto = db.auto /\ db'.txn = db.txn /\ db'.dirty = db.dirty /\ db'.blobs = db.blobs
    BY <2>2, <2>3 DEF Consistent, TypeOK, Connections
  <2> QED
    BY <2>2, <2>3, <2>4, OutsideStep DEF Consistent, TypeOK
<1> QED
  BY <1>1, <1>2

(* Between two calls no transaction is open that nobody needs. *)
LEMMA IdleHolds ==
  ASSUME Consistent, call = Idle
  PROVE  /\ call.at = "idle" /\ call.heard = {}
         /\ EndsTransaction => db.txn # "write"
BY IdleFacts DEF Consistent, NothingPending

(* A statement that reads goes to its end at once. *)
LEMMA ReadStep ==
  ASSUME Consistent, NEW code \in Codes, Read(code)
  PROVE  Consistent'
<1>1. /\ db' = Reading(db) /\ call' = At("read", "halt", code, "none")
      /\ UNCHANGED <<mode, disk, foreign, hooks>>
  BY DEF Read
<1>2. /\ db' \in Connections /\ db'.dirty = db.dirty /\ db'.blobs = db.blobs
      /\ (db'.txn = "write" <=> db.txn = "write")
  BY <1>1, ReadingFacts DEF Consistent, TypeOK
<1>3. WritersHoldLock'
  BY <1>2 DEF Consistent, WritersHoldLock
<1>4. call' \in Calls /\ Stages' /\ call'.at = "halt"
  BY <1>1, NewCall DEF Operations, Statements
<1>5. TypeOK'
  BY <1>1, <1>2, <1>4 DEF Consistent, TypeOK
<1> QED
  BY <1>3, <1>4, <1>5 DEF Consistent, NothingPending

(* A statement that writes waits for the lock. *)
LEMMA WriteStep ==
  ASSUME Consistent, Write
  PROVE  Consistent'
<1>1. /\ call = Idle /\ call' = At("write", "lock", "ok", "none")
      /\ UNCHANGED <<mode, disk, foreign, hooks, db>>
  BY DEF Write
<1>2. WritersHoldLock' /\ (EndsTransaction' => db'.txn # "write")
  BY <1>1, SameConnection, IdleHolds DEF Consistent
<1>3. call' \in Calls /\ Stages' /\ call'.at = "lock"
  BY <1>1, NewCall DEF Operations, Codes
<1>4. TypeOK'
  BY <1>1, <1>3 DEF Consistent, TypeOK
<1> QED
  BY <1>2, <1>3, <1>4 DEF Consistent, NothingPending

(* BEGIN and COMMIT switch autocommit, and ROLLBACK does after it has given  *)
(* the transaction up.                                                       *)
LEMMA BeginCommitStep ==
  ASSUME Consistent, Begin \/ Commit
  PROVE  Consistent'
<1>1. UNCHANGED <<mode, disk, foreign, hooks>>
  BY DEF Begin, Commit
<1>2. \E op \in {"begin", "commit"}, code \in {"ok", "other", "busy"} :
        call' = At(op, "halt", code, "none")
  BY DEF Begin, Commit
<1>3. db' \in {db, [db EXCEPT !.auto = FALSE], [db EXCEPT !.auto = TRUE]}
  BY DEF Begin, Commit
<1>4. /\ db' \in Connections /\ db'.txn = db.txn /\ db'.dirty = db.dirty
      /\ db'.blobs = db.blobs
  BY <1>3 DEF Consistent, TypeOK, Connections
<1>5. WritersHoldLock'
  BY <1>4 DEF Consistent, WritersHoldLock
<1>6. call' \in Calls /\ Stages' /\ call'.at = "halt"
  BY <1>2, NewCall, ZenonT(40) DEF Operations, Codes
<1>7. TypeOK'
  BY <1>1, <1>4, <1>6 DEF Consistent, TypeOK
<1> QED
  BY <1>5, <1>6, <1>7 DEF Consistent, NothingPending

(* ROLLBACK gives the transaction up before its statement ends. *)
LEMMA RollbackStep ==
  ASSUME Consistent, Rollback
  PROVE  Consistent'
<1>1. call = Idle /\ UNCHANGED <<mode, disk, foreign, hooks>>
  BY DEF Rollback
<1>2. CASE db.auto
  <2>1. call' = At("rollback", "halt", "other", "none") /\ db' = db
    BY <1>2 DEF Rollback
  <2>2. WritersHoldLock'
    BY <2>1, SameConnection DEF Consistent
  <2>3. call' \in Calls /\ Stages' /\ call'.at = "halt"
    BY <2>1, NewCall DEF Operations, Codes
  <2>4. TypeOK'
    BY <1>1, <2>1, <2>3 DEF Consistent, TypeOK
  <2> QED
    BY <2>2, <2>3, <2>4 DEF Consistent, NothingPending
<1>3. CASE ~db.auto
  <2> DEFINE s == RolledBack(db, TRUE)
             c == At("rollback", "halt", "ok", "none")
             heard == RollbackHeard(db)
  <2>1. call' = [c EXCEPT !.heard = heard] /\ db' = [s EXCEPT !.auto = TRUE]
    BY <1>3 DEF Rollback
  <2>2. /\ s \in Connections /\ s.txn # "write" /\ s.dirty = FALSE /\ s.blobs = Tripped(db.blobs)
    BY RolledBackFacts DEF Consistent, TypeOK
  <2>3. /\ c \in Calls /\ c.op = "rollback" /\ c.at = "halt" /\ c.rc = "ok" /\ c.threw = "none"
    BY AtFacts DEF Consistent, TypeOK, Operations, Codes
  <2>4. heard \in SUBSET Heard /\ "written" \notin heard
    BY RollbackHeardFacts
  <2> HIDE DEF s, c, heard
  <2>5. /\ db' \in Connections /\ db'.txn # "write" /\ db'.dirty = FALSE
        /\ db'.blobs = Tripped(db.blobs)
    BY <2>1, <2>2 DEF Connections
  <2>6. WritersHoldLock'
    BY <2>5, GivenUp
  <2>7. /\ call' \in Calls /\ call'.op = "rollback" /\ call'.at = "halt" /\ call'.rc = "ok"
        /\ call'.threw = "none" /\ call'.heard = heard
    BY <2>1, <2>3, <2>4 DEF Calls
  <2>8. call' # Idle
    BY <2>7, IdleFacts
  <2>9. Stages'
    BY <2>4, <2>5, <2>7, <2>8 DEF Stages
  <2>10. TypeOK'
    BY <1>1, <2>5, <2>7 DEF Consistent, TypeOK
  <2> QED
    BY <2>6, <2>7, <2>9, <2>10 DEF Consistent, NothingPending
<1> QED
  BY <1>2, <1>3

(* The call leaves the stage at which it takes the lock. *)
LEMMA LockedCall ==
  ASSUME Consistent, call.at = "lock", NEW code \in Codes,
         NEW thrown \in {"none", "error", "abort", "hook"} \cup (Codes \ {"ok"}),
         NEW heard \in SUBSET Heard, "written" \notin heard, "rollback" \notin heard,
         code = "ok" => thrown = "none", NEW before \in Contents \cup {None},
         call' = [call EXCEPT !.at = "halt", !.rc = code, !.threw = thrown,
                              !.before = before, !.heard = heard]
  PROVE  call' \in Calls /\ Stages' /\ call'.at = "halt"
<1>1. /\ call' \in Calls /\ call'.at = "halt" /\ call'.rc = code /\ call'.threw = thrown
      /\ call'.heard = heard
  BY DEF Consistent, TypeOK, Calls
<1>2. call' # Idle
  BY <1>1, IdleFacts
<1>3. Stages'
  BY <1>1, <1>2 DEF Stages
<1> QED
  BY <1>1, <1>3

(* A call at the lock, as a record of which only some fields change. *)
LEMMA LockStage ==
  ASSUME Consistent, call.at = "lock"
  PROVE  /\ call.rc = "ok" /\ call.threw = "none" /\ call.heard = {}
         /\ \A code, thrown, before :
              [call EXCEPT !.at = "halt", !.rc = code, !.threw = thrown, !.before = before] =
              [call EXCEPT !.at = "halt", !.rc = code, !.threw = thrown, !.before = before,
                           !.heard = {}]
         /\ \A code, before :
              [call EXCEPT !.at = "halt", !.rc = code, !.before = before] =
              [call EXCEPT !.at = "halt", !.rc = code, !.threw = "none", !.before = before,
                           !.heard = {}]
         /\ \A code, before, heard :
              [call EXCEPT !.at = "halt", !.rc = code, !.before = before, !.heard = heard] =
              [call EXCEPT !.at = "halt", !.rc = code, !.threw = "none", !.before = before,
                           !.heard = heard]
<1>1. call.rc = "ok" /\ call.threw = "none" /\ call.heard = {} /\ call \in Calls
  BY DEF Consistent, Stages, TypeOK
<1>2. \A code, thrown, before :
        [call EXCEPT !.at = "halt", !.rc = code, !.threw = thrown, !.before = before] =
        [call EXCEPT !.at = "halt", !.rc = code, !.threw = thrown, !.before = before,
                     !.heard = {}]
  BY <1>1 DEF Calls
<1>3. \A code, before :
        [call EXCEPT !.at = "halt", !.rc = code, !.before = before] =
        [call EXCEPT !.at = "halt", !.rc = code, !.threw = "none", !.before = before,
                     !.heard = {}]
  BY <1>1 DEF Calls
<1>4. \A code, before, heard :
        [call EXCEPT !.at = "halt", !.rc = code, !.before = before, !.heard = heard] =
        [call EXCEPT !.at = "halt", !.rc = code, !.threw = "none", !.before = before,
                     !.heard = heard]
  BY <1>1 DEF Calls
<1> QED
  BY <1>1, <1>2, <1>3, <1>4

(* The lock is refused. *)
LEMMA RefusedStep ==
  ASSUME Consistent, Refused
  PROVE  Consistent'
<1>1. /\ call.at = "lock"
      /\ call' = [call EXCEPT !.at = "halt", !.rc = "busy", !.threw = "busy",
                              !.before = db.pages, !.heard = {}]
      /\ UNCHANGED <<mode, disk, foreign, hooks, db>>
  BY LockStage DEF Refused
<1> DEFINE heard == {}
<1>h. heard \in SUBSET Heard /\ "written" \notin heard /\ "rollback" \notin heard
  OBVIOUS
<1>p. db.pages \in Contents \cup {None} /\ "busy" \in Codes
  BY ConnectionFacts DEF Consistent, TypeOK, Codes
<1>2. call' \in Calls /\ Stages' /\ call'.at = "halt"
  BY <1>1, <1>h, <1>p, LockedCall
<1>3. WritersHoldLock'
  BY <1>1, SameConnection DEF Consistent
<1>4. TypeOK'
  BY <1>1, <1>2 DEF Consistent, TypeOK
<1> QED
  BY <1>2, <1>3, <1>4 DEF Consistent, NothingPending

(* A statement writes with the lock, and expires the blobs of its row. *)
LEMMA ChangeStep ==
  ASSUME Consistent, NEW r \in Rows, NEW c \in Cells, Change(r, c)
  PROVE  Consistent'
<1> DEFINE s == Writing(db)
           heard == IF Answers("update") THEN {"update"} ELSE {}
           pages == [s.pages EXCEPT ![r] = c]
           blobs == Expired(s.blobs, r)
<1>1. /\ call.at = "lock"
      /\ db' = [s EXCEPT !.pages[r] = c, !.dirty = TRUE, !.blobs = Expired(@, r)]
      /\ \E code \in Failures \cup {"ok"}, before \in {db.pages, None} :
            call' = [call EXCEPT !.at = "halt", !.rc = code, !.before = before,
                                 !.heard = heard]
      /\ UNCHANGED <<mode, disk, foreign, hooks>>
  BY DEF Change
<1>2. s \in Connections /\ s.txn = "write" /\ s.blobs = db.blobs /\ s.pages = db.pages
  BY ReadingFacts DEF Consistent, TypeOK
<1>3. db.pages \in Contents /\ db.blobs \in [Handles -> Blobs]
  BY ConnectionFacts DEF Consistent, TypeOK
<1>4. pages \in Contents
  BY <1>2, <1>3 DEF Contents
<1>5. /\ blobs \in [Handles -> Blobs] /\ Open(blobs) = Open(db.blobs)
      /\ \A h \in Open(db.blobs) : blobs[h].row = db.blobs[h].row
  BY <1>2, <1>3, ExpiredFacts
<1>6. db' = [s EXCEPT !.pages = pages, !.dirty = TRUE, !.blobs = blobs]
  BY <1>1
<1>7. heard \in SUBSET Heard /\ "written" \notin heard /\ "rollback" \notin heard
  BY DEF Heard
<1> HIDE DEF s, heard, pages, blobs
<1>8. /\ db' \in Connections /\ db'.txn = "write" /\ db'.blobs = blobs
  BY <1>2, <1>4, <1>5, <1>6 DEF Connections
<1>9. WritersHoldLock'
  BY <1>5, <1>8 DEF Consistent, WritersHoldLock
<1>10. PICK code \in Failures \cup {"ok"}, before \in {db.pages, None} :
         call' = [call EXCEPT !.at = "halt", !.rc = code, !.before = before,
                              !.heard = heard]
  BY <1>1
<1>11. call' \in Calls /\ Stages' /\ call'.at = "halt"
  <2>1. code \in Codes /\ before \in Contents \cup {None}
    BY <1>3, <1>10 DEF Codes, Failures
  <2>2. call' = [call EXCEPT !.at = "halt", !.rc = code, !.threw = "none",
                             !.before = before, !.heard = heard]
    BY <1>1, <1>10, LockStage
  <2> QED
    BY <1>1, <1>7, <2>1, <2>2, LockedCall
<1>12. TypeOK'
  BY <1>1, <1>8, <1>11 DEF Consistent, TypeOK
<1> QED
  BY <1>9, <1>11, <1>12 DEF Consistent, NothingPending

(* A statement that has the lock fails. *)
LEMMA ChangeFailsStep ==
  ASSUME Consistent, NEW code \in Codes, ChangeFails(code)
  PROVE  Consistent'
<1> DEFINE heard == {}
<1>1. /\ call.at = "lock" /\ db' = Writing(db) /\ code # "ok"
      /\ call' = [call EXCEPT !.at = "halt", !.rc = code, !.threw = "none",
                              !.before = db.pages, !.heard = heard]
      /\ UNCHANGED <<mode, disk, foreign, hooks>>
  BY LockStage DEF ChangeFails, Failures
<1>h. heard \in SUBSET Heard /\ "written" \notin heard /\ "rollback" \notin heard
  OBVIOUS
<1>p. db.pages \in Contents \cup {None}
  BY ConnectionFacts DEF Consistent, TypeOK
<1>2. /\ db' \in Connections /\ db'.txn = "write" /\ db'.blobs = db.blobs
  BY <1>1, ReadingFacts DEF Consistent, TypeOK
<1>3. WritersHoldLock'
  BY <1>2 DEF Consistent, WritersHoldLock
<1>4. call' \in Calls /\ Stages' /\ call'.at = "halt"
  BY <1>1, <1>h, <1>p, LockedCall
<1>5. TypeOK'
  BY <1>1, <1>2, <1>4 DEF Consistent, TypeOK
<1> QED
  BY <1>3, <1>4, <1>5 DEF Consistent, NothingPending

(* One blob changes and keeps to the lock that its cursor needs. *)
LEMMA BlobChanged ==
  ASSUME Consistent, NEW s \in Connections, NEW h \in Handles, NEW b \in Blobs,
         s.auto = db.auto, s.dirty = db.dirty, s.blobs = db.blobs,
         db.txn = "write" => s.txn = "write",
         b.is = "open" => b.row \in Rows,
         b.is = "open" /\ b.writes /\ b.cursor # "tripped" => s.txn = "write",
         db' = [s EXCEPT !.blobs[h] = b]
  PROVE  /\ db' \in Connections /\ db'.txn = s.txn /\ WritersHoldLock'
         /\ b.is = "open" /\ b.writes => ~EndsTransaction'
         /\ (h \in Writers(db.blobs) => b.is = "open" /\ b.writes)
              => (EndsTransaction' => EndsTransaction)
<1>1. /\ db' \in Connections
      /\ db'.auto = db.auto /\ db'.txn = s.txn /\ db'.dirty = db.dirty
      /\ db'.blobs[h] = b
      /\ \A g \in Handles : g # h => db'.blobs[g] = db.blobs[g]
  BY OneBlobFacts
<1>2. /\ Open(db'.blobs) \subseteq Open(db.blobs) \cup {h}
      /\ h \in Open(db'.blobs) <=> b.is = "open"
      /\ Writers(db'.blobs) \subseteq Writers(db.blobs) \cup {h}
      /\ Writers(db.blobs) \ {h} \subseteq Writers(db'.blobs)
      /\ h \in Writers(db'.blobs) <=> b.is = "open" /\ b.writes
  BY <1>1 DEF Open, Writers
<1>3. Open(db'.blobs) \subseteq Handles /\ Writers(db'.blobs) \subseteq Handles
  BY DEF Open, Writers
<1>4. \A g \in Open(db'.blobs) : db'.blobs[g].row \in Rows
  BY <1>1, <1>2, <1>3 DEF Consistent, WritersHoldLock
<1>5. \A g \in Writers(db'.blobs) : db'.blobs[g].cursor # "tripped" => db'.txn = "write"
  BY <1>1, <1>2, <1>3 DEF Consistent, WritersHoldLock
<1>6. db'.dirty => db'.txn = "write"
  BY <1>1 DEF Consistent, WritersHoldLock
<1>7. WritersHoldLock'
  BY <1>4, <1>5, <1>6 DEF WritersHoldLock
<1>8. b.is = "open" /\ b.writes => ~EndsTransaction'
  BY <1>2 DEF EndsTransaction
<1>9. (h \in Writers(db.blobs) => b.is = "open" /\ b.writes)
        => (EndsTransaction' => EndsTransaction)
  BY <1>1, <1>2 DEF EndsTransaction
<1> QED
  BY <1>1, <1>7, <1>8, <1>9

(* A blob that is sought reads or writes its row, or its statement ends. *)
LEMMA SeekStep ==
  ASSUME Consistent, NEW op \in {"open", "blob"}, NEW s \in Connections,
         NEW h \in Handles, NEW r \in Rows, NEW w \in BOOLEAN,
         s.auto = db.auto, s.dirty = db.dirty, s.blobs = db.blobs,
         db.txn = "write" => s.txn = "write",
         w => s.txn = "write",
         ~w => h \notin Writers(db.blobs) /\ (EndsTransaction => s.txn # "write"),
         Seek(op, s, h, r, w), UNCHANGED <<mode, disk, foreign, hooks>>
  PROVE  Consistent'
<1>1. CASE s.pages[r] \in Marks
  <2> DEFINE b == Blob("open", r, w)
  <2>1. db' = [s EXCEPT !.blobs[h] = b] /\ call' = At(op, "return", "ok", "none")
    BY <1>1 DEF Seek
  <2>2. /\ b \in Blobs /\ b.is = "open" /\ b.row = r /\ b.writes = w
    BY BlobFacts
  <2> HIDE DEF b
  <2>3. /\ db' \in Connections /\ db'.txn = s.txn /\ WritersHoldLock'
        /\ w => ~EndsTransaction'
        /\ (h \in Writers(db.blobs) => w) => (EndsTransaction' => EndsTransaction)
    BY <2>1, <2>2, BlobChanged
  <2>4. call' \in Calls /\ Stages'
    BY <2>1, NewCall DEF Operations, Codes
  <2>5. EndsTransaction' => db'.txn # "write"
    BY <2>3
  <2>6. TypeOK'
    BY <2>3, <2>4 DEF Consistent, TypeOK
  <2> QED
    BY <2>3, <2>4, <2>5, <2>6 DEF Consistent, NothingPending
<1>2. CASE s.pages[r] \notin Marks
  <2> DEFINE b == IF op = "open" THEN Closed ELSE Aborted
  <2>1. db' = [s EXCEPT !.blobs[h] = b] /\ call' = At(op, "halt", "ok", "error")
    BY <1>2 DEF Seek
  <2>2. b \in Blobs /\ b.is # "open"
    BY BlobFacts
  <2> HIDE DEF b
  <2>3. db' \in Connections /\ WritersHoldLock'
    BY <2>1, <2>2, BlobChanged
  <2>4. call' \in Calls /\ Stages' /\ call'.at = "halt"
    BY <2>1, NewCall DEF Operations, Codes, Statements
  <2>5. TypeOK'
    BY <2>3, <2>4 DEF Consistent, TypeOK
  <2> QED
    BY <2>3, <2>4, <2>5 DEF Consistent, NothingPending
<1> QED
  BY <1>1, <1>2

(* A blob that only reads leaves the lock to those who hold it. *)
LEMMA OpenToReadStep ==
  ASSUME Consistent, NEW h \in Handles, NEW r \in Rows, OpenToRead(h, r)
  PROVE  Consistent'
<1> DEFINE s == Reading(db)
<1>1. /\ call = Idle /\ db.blobs[h] = Closed /\ Seek("open", s, h, r, FALSE)
      /\ UNCHANGED <<mode, disk, foreign, hooks>>
  BY DEF OpenToRead
<1>2. /\ s \in Connections /\ s.auto = db.auto /\ s.dirty = db.dirty
      /\ s.blobs = db.blobs /\ (s.txn = "write" <=> db.txn = "write")
  BY ReadingFacts DEF Consistent, TypeOK
<1>3. h \notin Writers(db.blobs)
  BY <1>1, BlobFacts DEF Writers, Open
<1>4. EndsTransaction => s.txn # "write"
  BY <1>1, <1>2, IdleHolds
<1> HIDE DEF s
<1> QED
  BY <1>1, <1>2, <1>3, <1>4, SeekStep

(* A blob that is to be written waits for the lock. *)
LEMMA OpenToWriteStep ==
  ASSUME Consistent, NEW h \in Handles, OpenToWrite(h)
  PROVE  Consistent'
<1> DEFINE c == At("open", "lock", "ok", "none")
<1>1. /\ call = Idle /\ call' = [c EXCEPT !.blob = h]
      /\ UNCHANGED <<mode, disk, foreign, hooks, db>>
  BY DEF OpenToWrite
<1>2. /\ c \in Calls /\ c.op = "open" /\ c.at = "lock" /\ c.rc = "ok" /\ c.threw = "none"
      /\ c.heard = {}
  <2>1. db \in Connections
    BY DEF Consistent, TypeOK
  <2>2. "open" \in Operations /\ "ok" \in Codes /\ "none" \in {"none", "error", "abort", "hook"}
    BY DEF Operations, Codes
  <2> QED
    BY <2>1, <2>2, AtFacts
<1> HIDE DEF c
<1>3. /\ call' \in Calls /\ call'.op = "open" /\ call'.at = "lock" /\ call'.rc = "ok"
      /\ call'.threw = "none" /\ call'.heard = {} /\ call'.blob = h
  BY <1>1, <1>2 DEF Calls
<1>4. call' # Idle
  BY <1>3, IdleFacts
<1>5. Stages'
  BY <1>3, <1>4 DEF Stages
<1>6. WritersHoldLock' /\ (EndsTransaction' => db'.txn # "write")
  BY <1>1, SameConnection, IdleHolds DEF Consistent
<1>7. TypeOK'
  BY <1>1, <1>3 DEF Consistent, TypeOK
<1> QED
  BY <1>5, <1>6, <1>7 DEF Consistent, NothingPending

(* A blob that is opened for writing has the lock. *)
LEMMA OpenedStep ==
  ASSUME Consistent, NEW r \in Rows, Opened(r)
  PROVE  Consistent'
<1> DEFINE s == Writing(db)
           h == call.blob
<1>1. /\ call.at = "lock" /\ call.op = "open" /\ Seek("open", s, h, r, TRUE)
      /\ UNCHANGED <<mode, disk, foreign, hooks>>
  BY DEF Opened
<1>2. /\ s \in Connections /\ s.auto = db.auto /\ s.dirty = db.dirty
      /\ s.blobs = db.blobs /\ s.txn = "write"
  BY ReadingFacts DEF Consistent, TypeOK
<1>3. h \in Handles
  BY <1>1 DEF Consistent, Stages
<1> HIDE DEF s
<1> QED
  BY <1>1, <1>2, <1>3, SeekStep

(* The statement of a blob that is closed or aborted goes to its end. *)
LEMMA FinalizeStep ==
  ASSUME Consistent, NEW op \in {"close", "blob"}, NEW h \in Handles,
         NEW left \in {Closed, Aborted}, NEW code \in Codes,
         NEW thrown \in {"none", "error", "abort", "hook"} \cup (Codes \ {"ok"}),
         Finalize(op, h, left, code, thrown), UNCHANGED <<mode, disk, foreign, hooks>>
  PROVE  Consistent'
<1>1. /\ db' = [db EXCEPT !.blobs[h] = left]
      /\ call' = At(op, "halt", code, thrown)
  BY DEF Finalize
<1>2. db \in Connections /\ db.blobs[h] \in Blobs
  BY ConnectionFacts DEF Consistent, TypeOK
<1>3. db.blobs[h].writes \in BOOLEAN
  BY <1>2 DEF Blobs
<1>4. left \in Blobs /\ left.is # "open"
  BY BlobFacts
<1>5. db' \in Connections /\ WritersHoldLock'
  BY <1>1, <1>2, <1>4, BlobChanged
<1>6. call' \in Calls /\ Stages' /\ call'.at = "halt"
  BY <1>1, <1>3, NewCall DEF Operations, Statements
<1>7. TypeOK'
  BY <1>5, <1>6 DEF Consistent, TypeOK
<1> QED
  BY <1>5, <1>6, <1>7 DEF Consistent, NothingPending

(* A call between two others that ends no statement. *)
LEMMA BlobCallStep ==
  ASSUME Consistent, call = Idle, db' \in Connections, WritersHoldLock',
         EndsTransaction' => EndsTransaction /\ db'.txn = db.txn,
         NEW op \in {"close", "blob"},
         NEW thrown \in {"none", "error", "abort", "hook"} \cup (Codes \ {"ok"}),
         call' = At(op, "return", "ok", thrown),
         UNCHANGED <<mode, disk, foreign, hooks>>
  PROVE  Consistent'
<1>1. call' \in Calls /\ Stages'
  BY NewCall DEF Operations, Codes
<1>2. EndsTransaction' => db'.txn # "write"
  BY IdleHolds
<1>3. TypeOK'
  BY <1>1 DEF Consistent, TypeOK
<1> QED
  BY <1>1, <1>2, <1>3 DEF Consistent, NothingPending

(* Closing ends the statement of an open blob, and does nothing for an aborted one. *)
LEMMA CloseStep ==
  ASSUME Consistent, NEW h \in Handles, Close(h)
  PROVE  Consistent'
<1>1. call = Idle /\ UNCHANGED <<mode, disk, foreign, hooks>>
  BY DEF Close
<1>2. db \in Connections /\ db.blobs[h] \in Blobs
  BY ConnectionFacts DEF Consistent, TypeOK
<1>3. db.blobs[h].rc \in Codes /\ db.blobs[h].writes \in BOOLEAN
  BY <1>2 DEF Blobs
<1>4. CASE db.blobs[h].is = "open"
  <2>1. Finalize("close", h, Closed, db.blobs[h].rc, "none")
    BY <1>4 DEF Close
  <2> QED
    BY <1>1, <1>3, <2>1, FinalizeStep
<1>5. CASE db.blobs[h].is # "open"
  <2>1. /\ db' = [db EXCEPT !.blobs[h] = Closed]
        /\ call' = At("close", "return", "ok", "none")
    BY <1>5 DEF Close
  <2>2. h \notin Writers(db.blobs)
    BY <1>5 DEF Writers, Open
  <2>3. Closed \in Blobs /\ Closed.is # "open"
    BY BlobFacts
  <2>4. /\ db' \in Connections /\ db'.txn = db.txn /\ WritersHoldLock'
        /\ EndsTransaction' => EndsTransaction
    BY <1>2, <2>1, <2>2, <2>3, BlobChanged
  <2> QED
    BY <1>1, <2>1, <2>4, BlobCallStep
<1> QED
  BY <1>4, <1>5

(* A blob that has not been tripped still has its lock on another row. *)
LEMMA ReopenStep ==
  ASSUME Consistent, NEW h \in Handles, NEW r \in Rows, Reopen(h, r)
  PROVE  Consistent'
<1>1. /\ call = Idle /\ db.blobs[h].is = "open"
      /\ UNCHANGED <<mode, disk, foreign, hooks>>
  BY DEF Reopen
<1>2. db \in Connections /\ db.blobs[h] \in Blobs
  BY ConnectionFacts DEF Consistent, TypeOK
<1>3. db.blobs[h].writes \in BOOLEAN
  BY <1>2 DEF Blobs
<1>4. CASE db.blobs[h].cursor = "tripped"
  <2>1. Finalize("blob", h, Aborted, "other", "other")
    BY <1>4 DEF Reopen
  <2> QED
    BY <1>1, <2>1, FinalizeStep DEF Codes
<1>5. CASE db.blobs[h].cursor # "tripped"
  <2> DEFINE w == db.blobs[h].writes
  <2>1. Seek("blob", db, h, r, w)
    BY <1>5 DEF Reopen
  <2>2. h \in Writers(db.blobs) <=> w
    BY <1>1, <1>3 DEF Writers, Open
  <2>3. w => db.txn = "write"
    BY <1>5, <2>2 DEF Consistent, WritersHoldLock
  <2>4. EndsTransaction => db.txn # "write"
    BY <1>1, IdleHolds
  <2>5. w \in BOOLEAN
    BY <1>3
  <2> HIDE DEF w
  <2> QED
    BY <1>1, <1>2, <2>1, <2>2, <2>3, <2>4, <2>5, SeekStep
<1> QED
  BY <1>4, <1>5

(* Only the code of a blob changes. *)
LEMMA CodeChanged ==
  ASSUME Consistent, NEW h \in Handles, NEW code \in Codes, db.blobs[h].is = "open"
  PROVE  LET blobs == [db.blobs EXCEPT ![h].rc = code] IN
         /\ blobs \in [Handles -> Blobs]
         /\ Open(blobs) = Open(db.blobs) /\ Writers(blobs) = Writers(db.blobs)
         /\ \A g \in Open(blobs) : /\ blobs[g].row = db.blobs[g].row
                                   /\ blobs[g].cursor = db.blobs[g].cursor
<1> DEFINE blobs == [db.blobs EXCEPT ![h].rc = code]
<1>1. db.blobs \in [Handles -> Blobs]
  BY ConnectionFacts DEF Consistent, TypeOK
<1>2. blobs \in [Handles -> Blobs]
  BY <1>1 DEF Blobs
<1>3. \A g \in Handles : /\ blobs[g].is = db.blobs[g].is
                         /\ blobs[g].writes = db.blobs[g].writes
                         /\ blobs[g].row = db.blobs[g].row
                         /\ blobs[g].cursor = db.blobs[g].cursor
  BY <1>1 DEF Blobs
<1> HIDE DEF blobs
<1>4. /\ Open(blobs) = Open(db.blobs) /\ Writers(blobs) = Writers(db.blobs)
      /\ \A g \in Open(blobs) : /\ blobs[g].row = db.blobs[g].row
                                /\ blobs[g].cursor = db.blobs[g].cursor
  BY <1>3 DEF Open, Writers
<1> QED
  BY <1>2, <1>4 DEF blobs

(* A call of a blob that leaves its code there and keeps it open. *)
LEMMA CodeStep ==
  ASSUME Consistent, NEW h \in Handles, NEW code \in Codes, call = Idle,
         db.blobs[h].is = "open", db' = [db EXCEPT !.blobs[h].rc = code],
         NEW thrown \in {"none", "error", "abort", "hook"} \cup (Codes \ {"ok"}),
         call' = At("blob", "return", "ok", thrown),
         UNCHANGED <<mode, disk, foreign, hooks>>
  PROVE  Consistent'
<1> DEFINE blobs == [db.blobs EXCEPT ![h].rc = code]
<1>1. /\ blobs \in [Handles -> Blobs]
      /\ Open(blobs) = Open(db.blobs) /\ Writers(blobs) = Writers(db.blobs)
      /\ \A g \in Open(blobs) : /\ blobs[g].row = db.blobs[g].row
                                /\ blobs[g].cursor = db.blobs[g].cursor
  BY CodeChanged
<1>2. db \in Connections /\ db' = [db EXCEPT !.blobs = blobs]
  BY DEF Consistent, TypeOK
<1> HIDE DEF blobs
<1>3. /\ db' \in Connections /\ db'.auto = db.auto /\ db'.txn = db.txn
      /\ db'.dirty = db.dirty /\ db'.blobs = blobs
  BY <1>1, <1>2 DEF Connections
<1>4. Writers(blobs) \subseteq Open(blobs)
  BY DEF Writers
<1>5. WritersHoldLock'
  BY <1>1, <1>3, <1>4 DEF Consistent, WritersHoldLock
<1>6. EndsTransaction' => EndsTransaction
  BY <1>1, <1>3 DEF EndsTransaction
<1> QED
  BY <1>3, <1>5, <1>6, BlobCallStep

(* An expired blob is aborted, a tripped one stays as it is. *)
LEMMA UnusableStep ==
  ASSUME Consistent, NEW h \in Handles, Unusable(h)
  PROVE  Consistent'
<1>1. /\ call = Idle /\ db.blobs[h].is = "open"
      /\ UNCHANGED <<mode, disk, foreign, hooks>>
  BY DEF Unusable
<1>2. db.blobs[h] \in Blobs
  BY ConnectionFacts DEF Consistent, TypeOK
<1>3. db.blobs[h].rc \in Codes
  BY <1>2 DEF Blobs
<1>4. CASE Finalize("blob", h, Aborted, db.blobs[h].rc, "abort")
  BY <1>1, <1>3, <1>4, FinalizeStep
<1>5. CASE /\ db' = [db EXCEPT !.blobs[h].rc = "other"]
           /\ call' = At("blob", "return", "ok", "other")
  BY <1>1, <1>5, CodeStep DEF Codes
<1> QED
  BY <1>4, <1>5 DEF Unusable

(* A call that throws and changes nothing. *)
LEMMA OnlyThrowsStep ==
  ASSUME Consistent, NEW h \in Handles, NEW thrown \in {"error", "abort"},
         OnlyThrows(h, thrown)
  PROVE  Consistent'
<1>1. /\ call = Idle /\ call' = At("blob", "return", "ok", thrown)
      /\ UNCHANGED <<mode, disk, foreign, hooks, db>>
  BY DEF OnlyThrows
<1>2. /\ db' \in Connections /\ WritersHoldLock'
      /\ EndsTransaction' => EndsTransaction /\ db'.txn = db.txn
  BY <1>1, SameConnection DEF Consistent, TypeOK
<1> QED
  BY <1>1, <1>2, BlobCallStep

(* A read leaves its code in the blob. *)
LEMMA ReadBlobStep ==
  ASSUME Consistent, NEW h \in Handles, NEW code \in Codes, ReadBlob(h, code)
  PROVE  Consistent'
<1>1. /\ call = Idle /\ db.blobs[h].is = "open" /\ db' = [db EXCEPT !.blobs[h].rc = code]
      /\ call' = At("blob", "return", "ok", IF code = "ok" THEN "none" ELSE code)
      /\ UNCHANGED <<mode, disk, foreign, hooks>>
  BY DEF ReadBlob, Used
<1> QED
  BY <1>1, CodeStep

(* A blob that can be written has the lock, so what it writes is covered by it. *)
LEMMA WriteBlobStep ==
  ASSUME Consistent, NEW h \in Handles, NEW m \in Marks, NEW code \in Codes,
         WriteBlob(h, m, code)
  PROVE  Consistent'
<1> DEFINE thrown == IF code = "ok" THEN "none" ELSE code
           blobs == [db.blobs EXCEPT ![h].rc = code]
           pages == [db.pages EXCEPT ![db.blobs[h].row] = m]
<1>1. /\ call = Idle /\ db.blobs[h].is = "open" /\ db.blobs[h].cursor = "valid"
      /\ call' = At("blob", "return", "ok", thrown)
      /\ UNCHANGED <<mode, disk, foreign, hooks>>
  BY DEF WriteBlob, Used
<1>2. thrown \in {"none", "error", "abort", "hook"} \cup (Codes \ {"ok"})
  OBVIOUS
<1> HIDE DEF thrown
<1>3. CASE db.blobs[h].writes
  <2>1. db' = [db EXCEPT !.blobs = blobs, !.dirty = TRUE, !.pages = pages]
    BY <1>3 DEF WriteBlob
  <2>2. /\ blobs \in [Handles -> Blobs]
        /\ Open(blobs) = Open(db.blobs) /\ Writers(blobs) = Writers(db.blobs)
        /\ \A g \in Open(blobs) : /\ blobs[g].row = db.blobs[g].row
                                  /\ blobs[g].cursor = db.blobs[g].cursor
    BY <1>1, CodeChanged
  <2>3. h \in Writers(db.blobs)
    BY <1>1, <1>3 DEF Writers, Open
  <2>4. db.txn = "write"
    BY <1>1, <2>3 DEF Consistent, WritersHoldLock
  <2>5. db \in Connections /\ db.pages \in Contents
    BY ConnectionFacts DEF Consistent, TypeOK
  <2>6. pages \in Contents
    BY <2>5 DEF Contents, Cells
  <2> HIDE DEF blobs, pages
  <2>7. /\ db' \in Connections /\ db'.auto = db.auto /\ db'.txn = "write" /\ db'.blobs = blobs
    BY <2>1, <2>2, <2>4, <2>5, <2>6 DEF Connections
  <2>8. WritersHoldLock'
    BY <2>2, <2>7 DEF Consistent, WritersHoldLock
  <2>9. ~EndsTransaction'
    BY <2>2, <2>3, <2>7 DEF EndsTransaction
  <2> QED
    BY <1>1, <1>2, <2>7, <2>8, <2>9, BlobCallStep
<1>4. CASE ~db.blobs[h].writes
  <2>1. db' = [db EXCEPT !.blobs[h].rc = code]
    BY <1>4 DEF WriteBlob
  <2> QED
    BY <1>1, <1>2, <2>1, CodeStep
<1> QED
  BY <1>3, <1>4

(* Every step keeps the invariant. *)
LEMMA NextConsistent ==
  ASSUME Consistent, [Next]_vars
  PROVE  Consistent'
<1>1. CASE UNCHANGED vars
  <2>1. UNCHANGED <<mode, disk, foreign, hooks, db, call>>
    BY <1>1 DEF vars
  <2> QED
    BY <2>1, OutsideStep DEF Consistent, TypeOK
<1>2. CASE Halt
  BY <1>2, HaltFatalStep, HaltWithinStep, HaltFailedStep, HaltCommitStep DEF Halt
<1>3. CASE \E h \in Handles :
              \/ \E r \in Rows : OpenToRead(h, r) \/ Reopen(h, r)
              \/ OpenToWrite(h) \/ Close(h) \/ Unusable(h)
              \/ \E t \in {"error", "abort"} : OnlyThrows(h, t)
              \/ \E c \in Codes :
                    ReadBlob(h, c) \/ \E m \in Marks : WriteBlob(h, m, c)
  BY <1>3, OpenToReadStep, ReopenStep, OpenToWriteStep, CloseStep, UnusableStep,
     OnlyThrowsStep, ReadBlobStep, WriteBlobStep
<1>4. CASE \/ \E s \in Slots, to \in {None, "callback", "builtin"} : SetHook(s, to)
           \/ \E c \in Codes : Read(c)
           \/ Write \/ Begin \/ Commit \/ Rollback \/ Refused
           \/ \E r \in Rows, c \in Cells : Change(r, c)
           \/ \E c \in Codes : ChangeFails(c)
           \/ \E t \in {"none", "hook"} : Notify(t)
           \/ Return
           \/ \E r \in Rows : Opened(r)
  BY <1>4, SetHookStep, ReadStep, WriteStep, BeginCommitStep, RollbackStep, RefusedStep,
     ChangeStep, ChangeFailsStep, NotifyStep, ReturnStep, OpenedStep
<1>5. CASE \/ \E w \in {"reading", "writing"} : ForeignStarts(w)
           \/ ForeignEnds
           \/ \E r \in Rows, c \in Cells : ForeignCommits(r, c)
  BY <1>5, ForeignStep
<1> QED
  BY <1>1, <1>2, <1>3, <1>4, <1>5 DEF Next

(* A new connection has no blob and no transaction. *)
LEMMA InitConsistent ==
  ASSUME Init
  PROVE  Consistent
<1>1. /\ db.auto = TRUE /\ db.txn = "none" /\ db.pages = disk /\ db.dirty = FALSE
      /\ db.stale = FALSE /\ db.news = FALSE /\ db.blobs = [h \in Handles |-> Closed]
      /\ call = Idle
  BY DEF Init
<1>2. db.blobs \in [Handles -> Blobs]
  BY <1>1, BlobFacts
<1>3. db \in Connections
  BY <1>2 DEF Init, Connections
<1>4. hooks \in [AllSlots -> {None, "callback", "builtin"}]
  BY DEF Init
<1>5. TypeOK
  BY <1>3, <1>4, IdleFacts DEF Init, TypeOK
<1>6. Open(db.blobs) = {} /\ Writers(db.blobs) = {}
  BY <1>1, BlobFacts DEF Open, Writers
<1>7. WritersHoldLock /\ NothingPending
  BY <1>1, <1>6 DEF WritersHoldLock, NothingPending
<1>8. Stages
  BY <1>1, IdleFacts DEF Stages
<1> QED
  BY <1>5, <1>7, <1>8 DEF Consistent

-----------------------------------------------------------------------------
(****************************************************************************)
(* The theorems.                                                            *)
(****************************************************************************)
(* The inductive invariant: at each stage of a call, what may be pending.   *)
THEOREM AlwaysConsistent == Spec => []Consistent
<1>1. Init => Consistent
  BY InitConsistent
<1>2. Consistent /\ [Next]_vars => Consistent'
  BY NextConsistent
<1> QED
  BY <1>1, <1>2, PTL DEF Spec

(* The connection, its blobs, its hooks and the call in progress keep their *)
(* types.                                                                   *)
THEOREM ConnectionTypeCorrect == Spec => []TypeOK
<1>1. Consistent => TypeOK
  BY DEF Consistent
<1> QED
  BY <1>1, AlwaysConsistent, PTL

(* A blob that can still be written has the lock of the file, and between   *)
(* two calls the lock is held only by a transaction or a blob that needs    *)
(* it: whatever statements, rollbacks and failures came before.             *)
THEOREM LockIsHeldWhenNeeded == Spec => []LockMatchesUse
<1>1. Consistent => LockMatchesUse
  <2> SUFFICES ASSUME Consistent
               PROVE  LockMatchesUse
    OBVIOUS
  <2>1. \A h \in Writers(db.blobs) : db.blobs[h].cursor # "tripped" => db.txn = "write"
    BY DEF Consistent, WritersHoldLock
  <2>2. call = Idle /\ EndsTransaction => db.txn # "write" /\ ~db.dirty
    BY IdleHolds DEF Consistent, WritersHoldLock
  <2> QED
    BY <2>1, <2>2 DEF LockMatchesUse
<1> QED
  BY <1>1, AlwaysConsistent, PTL

-----------------------------------------------------------------------------
(****************************************************************************)
(* How a write transaction ends, and what the hooks hear of it.             *)
(****************************************************************************)
(* A step ends a write transaction only as the hooks are told. *)
EndIsHeard ==
  db.txn = "write" /\ db'.txn # "write" =>
    IF disk' = db.pages /\ "written" \in call'.heard
    THEN /\ Answers("commit") => "commit" \in call'.heard
         /\ "rollback" \notin call'.heard
    ELSE db.dirty /\ Answers("rollback") => "rollback" \in call'.heard

(* A transaction that is given up is told to the rollback hook. *)
LEMMA GivenUpHeard ==
  ASSUME Consistent, call.at = "halt", NEW code \in Codes, NEW heard \in SUBSET Heard,
         "written" \notin heard, RollbackHeard(db) \subseteq heard, After(code, heard)
  PROVE  EndIsHeard
<1>1. call'.heard = call.heard \cup heard
  BY AfterFacts DEF Consistent, TypeOK
<1>2. "written" \notin call'.heard
  BY <1>1 DEF Consistent, Stages
<1>3. db.txn = "write" /\ Answers("rollback") => "rollback" \in call'.heard
  BY <1>1 DEF RollbackHeard
<1> QED
  BY <1>2, <1>3 DEF EndIsHeard

(* A commit has asked the commit hook; a refused one tells the rollback hook. *)
LEMMA HaltCommitHeard ==
  ASSUME Consistent, NEW code \in Codes, HaltCommit(code)
  PROVE  EndIsHeard
<1>1. /\ call.at = "halt" /\ call.rc \in {"ok", "fail"} /\ EndsTransaction
      /\ code \in CommitCodes
      /\ disk' = IF db.txn = "write" /\ code = "ok" THEN db.pages ELSE disk
      /\ db' = IF code = "ok" THEN Committed
               ELSE IF code = "busy" /\ call.op = "commit"
               THEN [db EXCEPT !.auto = FALSE]
               ELSE RolledBack(db, FALSE)
      /\ After(IF code = "ok" THEN call.rc ELSE code,
               CommitHeard(code) \cup
                     IF code = "ok" \/ (code = "busy" /\ call.op = "commit")
                     THEN {} ELSE RollbackHeard(db))
  BY DEF HaltCommit, Commits
<1>2. /\ CommitHeard(code) \in SUBSET Heard /\ ("written" \in CommitHeard(code) => code = "ok")
      /\ RollbackHeard(db) \in SUBSET Heard /\ "written" \notin RollbackHeard(db)
  BY <1>1, CommitFacts, RollbackHeardFacts
<1>3. CASE code = "ok"
  <2> SUFFICES ASSUME db.txn = "write"
               PROVE  EndIsHeard
    BY DEF EndIsHeard
  <2>1. call'.heard = call.heard \cup CommitHeard(code)
    BY <1>1, <1>2, <1>3, CallFacts, AfterFacts DEF Consistent, TypeOK
  <2>2. "written" \notin call.heard /\ "rollback" \notin call.heard
    BY <1>1 DEF Consistent, Stages
  <2>3. "rollback" \notin CommitHeard(code) /\ (Answers("commit") => "commit" \in CommitHeard(code))
    BY <1>3 DEF CommitHeard
  <2>4. db.dirty => "written" \in call'.heard /\ disk' = db.pages
    BY <1>1, <1>3, <2>1 DEF CommitHeard
  <2> QED
    BY <2>1, <2>2, <2>3, <2>4 DEF EndIsHeard
<1>4. CASE code = "busy" /\ call.op = "commit"
  <2>1. db'.txn = db.txn
    BY <1>1, <1>4 DEF Consistent, TypeOK, Connections
  <2> QED
    BY <2>1 DEF EndIsHeard
<1>5. CASE code # "ok" /\ ~(code = "busy" /\ call.op = "commit")
  <2> DEFINE heard == CommitHeard(code) \cup RollbackHeard(db)
  <2>1. After(code, heard) /\ heard \in SUBSET Heard /\ "written" \notin heard
        /\ RollbackHeard(db) \subseteq heard
    BY <1>1, <1>2, <1>5
  <2> HIDE DEF heard
  <2> QED
    BY <1>1, <2>1, GivenUpHeard
<1> QED
  BY <1>3, <1>4, <1>5

(* ROLLBACK tells the hook, for it ends a transaction that BEGIN started. *)
LEMMA RollbackIsHeard ==
  ASSUME Consistent, Rollback
  PROVE  EndIsHeard
<1>1. CASE db.auto
  <2>1. db' = db
    BY <1>1 DEF Rollback
  <2> QED
    BY <2>1 DEF EndIsHeard
<1>2. CASE ~db.auto
  <2> DEFINE c == At("rollback", "halt", "ok", "none")
             heard == RollbackHeard(db)
  <2>1. call' = [c EXCEPT !.heard = heard]
    BY <1>2 DEF Rollback
  <2>2. c \in Calls
    BY AtFacts DEF Consistent, TypeOK, Operations, Codes
  <2>3. "written" \notin heard /\ (Answers("rollback") => "rollback" \in heard)
    BY <1>2, RollbackHeardFacts DEF RollbackHeard
  <2> HIDE DEF c, heard
  <2>4. call'.heard = heard
    BY <2>1, <2>2 DEF Calls
  <2> QED
    BY <2>3, <2>4 DEF EndIsHeard
<1> QED
  BY <1>1, <1>2

(* The steps that leave the lock as it is, or take it. *)
LEMMA KeepsTxn ==
  ASSUME Consistent,
         \/ UNCHANGED vars
         \/ HaltWithin /\ call.rc # "rollback"
         \/ \E s \in Slots, to \in {None, "callback", "builtin"} : SetHook(s, to)
         \/ \E c \in Codes : Read(c)
         \/ Write \/ Begin \/ Commit \/ Refused
         \/ \E r \in Rows, c \in Cells : Change(r, c)
         \/ \E c \in Codes : ChangeFails(c)
         \/ \E t \in {"none", "hook"} : Notify(t)
         \/ Return
         \/ \E h \in Handles :
               \/ \E r \in Rows : OpenToRead(h, r) \/ Reopen(h, r)
               \/ OpenToWrite(h) \/ Close(h) \/ Unusable(h)
               \/ \E t \in {"error", "abort"} : OnlyThrows(h, t)
               \/ \E c \in Codes :
                     ReadBlob(h, c) \/ \E m \in Marks : WriteBlob(h, m, c)
         \/ \E r \in Rows : Opened(r)
         \/ \E w \in {"reading", "writing"} : ForeignStarts(w)
         \/ ForeignEnds
         \/ \E r \in Rows, c \in Cells : ForeignCommits(r, c)
  PROVE  db.txn = "write" => db'.txn = "write"
<1>1. db \in Connections
  BY DEF Consistent, TypeOK
<1>2. /\ Reading(db) \in Connections /\ (Reading(db).txn = "write" <=> db.txn = "write")
      /\ Writing(db) \in Connections /\ Writing(db).txn = "write"
  BY <1>1, ReadingFacts
<1>3. CASE UNCHANGED db
  BY <1>3
<1>4. CASE \E c \in Codes : Read(c)
  BY <1>2, <1>4 DEF Read
<1>5. CASE Begin \/ Commit \/ \E t \in {"none", "hook"} : Notify(t)
  BY <1>1, <1>5 DEF Begin, Commit, Notify, Connections
<1>6. CASE \E r \in Rows, c \in Cells : Change(r, c)
  BY <1>2, <1>6 DEF Change, Connections
<1>7. CASE \E c \in Codes : ChangeFails(c)
  BY <1>2, <1>7 DEF ChangeFails
<1>8. CASE \E h \in Handles, r \in Rows : OpenToRead(h, r)
  BY <1>2, <1>8 DEF OpenToRead, Seek, Connections
<1>9. CASE \E h \in Handles, r \in Rows : Reopen(h, r)
  BY <1>1, <1>9 DEF Reopen, Finalize, Seek, Connections
<1>10. CASE \E h \in Handles : Close(h) \/ Unusable(h)
  BY <1>1, <1>10 DEF Close, Unusable, Finalize, Connections
<1>11. CASE \E h \in Handles, c \in Codes : ReadBlob(h, c)
  BY <1>1, <1>11 DEF ReadBlob, Connections
<1>12. CASE \E h \in Handles, m \in Marks, c \in Codes : WriteBlob(h, m, c)
  BY <1>1, <1>12 DEF WriteBlob, Connections
<1>13. CASE \E r \in Rows : Opened(r)
  BY <1>2, <1>13 DEF Opened, Seek, Connections
<1>14. CASE \E r \in Rows, c \in Cells : ForeignCommits(r, c)
  BY <1>1, <1>14 DEF ForeignCommits, Connections
<1>15. CASE HaltWithin /\ call.rc # "rollback"
  <2>1. db' = db \/ db' = Undone
    BY <1>15 DEF HaltWithin
  <2> QED
    BY <2>1, UndoneFacts DEF Consistent, TypeOK
<1> QED
  BY <1>3, <1>4, <1>5, <1>6, <1>7, <1>8, <1>9, <1>10, <1>11, <1>12, <1>13, <1>14, <1>15
  DEF vars, SetHook, Write, Refused, Return, OpenToWrite, OnlyThrows,
      ForeignStarts, ForeignEnds

(* Every step keeps to the promise about the hooks. *)
LEMMA NextHeard ==
  ASSUME Consistent, [Next]_vars
  PROVE  EndIsHeard
<1>1. CASE HaltFatal
  <2>1. call.at = "halt" /\ call.rc \in Codes /\ After(call.rc, RollbackHeard(db))
    BY <1>1, CallFacts DEF HaltFatal, Consistent, TypeOK
  <2> QED
    BY <2>1, RollbackHeardFacts, GivenUpHeard
<1>2. CASE HaltFailed
  <2>1. call.at = "halt" /\ call.rc \in Codes /\ After(call.rc, RollbackHeard(db))
    BY <1>2, CallFacts DEF HaltFailed, Consistent, TypeOK
  <2> QED
    BY <2>1, RollbackHeardFacts, GivenUpHeard
<1>3. CASE \E c \in Codes : HaltCommit(c)
  BY <1>3, HaltCommitHeard
<1>4. CASE Rollback
  BY <1>4, RollbackIsHeard
<1>5. CASE HaltWithin /\ call.rc = "rollback"
  <2>1. call.at = "halt" /\ call.rc \in Codes /\ After(call.rc, RollbackHeard(db))
    BY <1>5, CallFacts DEF HaltWithin, Consistent, TypeOK
  <2> QED
    BY <2>1, RollbackHeardFacts, GivenUpHeard
<1>6. CASE db.txn = "write" => db'.txn = "write"
  BY <1>6 DEF EndIsHeard
<1> QED
  BY <1>1, <1>2, <1>3, <1>4, <1>5, <1>6, KeepsTxn DEF Next, Halt

(* A write transaction is committed with the consent of the commit hook and *)
(* without a word to the rollback hook, or undone and the rollback hook     *)
(* told: also when the destructor of a blob is what ends it.                *)
THEOREM EndsAreHeard == Spec => EndHeard
<1>1. Consistent /\ [Next]_vars => [EndIsHeard]_vars
  BY NextHeard
<1>2. [EndIsHeard]_vars <=>
        [db.txn = "write" /\ db'.txn # "write" =>
           IF disk' = db.pages /\ "written" \in call'.heard
           THEN /\ Answers("commit") => "commit" \in call'.heard
                /\ "rollback" \notin call'.heard
           ELSE db.dirty /\ Answers("rollback") => "rollback" \in call'.heard]_vars
  BY DEF EndIsHeard
<1> QED
  BY <1>1, <1>2, AlwaysConsistent, PTL DEF Spec, EndHeard

-----------------------------------------------------------------------------
(****************************************************************************)
(* What a statement that throws leaves behind.                              *)
(****************************************************************************)
(* A connection without a lock reads what is committed. *)
FreeReads == db.txn = "none" => db.pages = disk

(* What a failed statement reads is what it began with, unless it has       *)
(* written; and so it is for COMMIT, which may find the file busy.          *)
Remembered ==
  call.at = "halt" /\ call.op \in Statements /\ (call.rc # "ok" \/ call.op = "commit") =>
    \/ db.txn = "none" \/ db.pages = call.before
    \/ call.op = "write" /\ db.txn = "write"

(* One step keeps to the promise about the statements that throw. *)
UndoneStep ==
  call'.at = "return" /\ call.at # "return" /\ call.op \in Statements
    /\ call'.threw \notin {"none", "hook", "fail"} =>
    /\ disk' = disk
    /\ \/ db'.pages = call.before
       \/ db'.pages = disk /\ ~db'.dirty
       \/ call.before = None /\ ~EndsTransaction

(* What is read after a transaction is given up. *)
LEMMA GivenUpReads ==
  ASSUME NEW s \in Connections, disk \in Contents, NEW trip \in BOOLEAN
  PROVE  /\ RolledBack(s, trip) \in Connections /\ RolledBack(s, trip).dirty = FALSE
         /\ RolledBack(s, trip).txn = "none" => RolledBack(s, trip).pages = disk
         /\ s.txn = "write" => RolledBack(s, trip).pages = disk
         /\ RolledBack(s, trip).pages \in {disk, s.pages}
<1> DEFINE last == Open(s.blobs) = {}
           txn == IF last THEN "none" ELSE "read"
           stale == s.stale /\ ~last /\ s.txn = "read"
           pages == IF last \/ s.txn = "write" THEN disk ELSE s.pages
<1>1. /\ Released(s) \in Connections
      /\ Released(s).txn = "none" => Released(s).pages = disk
      /\ s.txn = "write" => Released(s).pages = disk
      /\ Released(s).pages \in {disk, s.pages}
  <2>1. Released(s) = [s EXCEPT !.txn = txn, !.dirty = FALSE, !.stale = stale, !.pages = pages]
    BY DEF Released
  <2>2. /\ txn = "none" => pages = disk
        /\ s.txn = "write" => pages = disk
        /\ pages \in {disk, s.pages}
    OBVIOUS
  <2> HIDE DEF txn, stale, pages
  <2>3. Released(s).txn = txn /\ Released(s).pages = pages
    BY <2>1 DEF Connections
  <2> QED
    BY <2>2, <2>3, ReleasedFacts
<1>2. /\ RolledBack(s, trip).txn = Released(s).txn
      /\ RolledBack(s, trip).pages = Released(s).pages
  BY <1>1 DEF RolledBack, Connections
<1> QED
  BY <1>1, <1>2, RolledBackFacts

(* Without the lock what is read changes only with what is committed. *)
LEMMA FreeReadsKept ==
  ASSUME Consistent, FreeReads, [Next]_vars
  PROVE  FreeReads'
<1>1. /\ db \in Connections /\ db.pages \in Contents /\ disk \in Contents
  BY ConnectionFacts DEF Consistent, TypeOK
<1>2. CASE UNCHANGED <<disk, db>>
  BY <1>2 DEF FreeReads
<1>3. CASE \/ \E c \in Codes : Read(c)
           \/ \E r \in Rows, c \in Cells : Change(r, c)
           \/ \E c \in Codes : ChangeFails(c)
           \/ \E h \in Handles, r \in Rows : OpenToRead(h, r)
           \/ \E r \in Rows : Opened(r)
  <2>1. /\ Reading(db) \in Connections /\ Reading(db).txn # "none"
        /\ Writing(db) \in Connections /\ Writing(db).txn # "none"
    BY <1>1 DEF Reading, Writing, Connections
  <2>2. db'.txn # "none"
    BY <1>3, <2>1 DEF Read, Change, ChangeFails, OpenToRead, Opened, Seek, Connections
  <2> QED
    BY <2>2 DEF FreeReads
<1>4. CASE \/ Begin \/ Commit \/ \E t \in {"none", "hook"} : Notify(t)
           \/ \E h \in Handles : \/ \E r \in Rows : Reopen(h, r)
                                 \/ Close(h) \/ Unusable(h)
                                 \/ \E c \in Codes : ReadBlob(h, c)
  <2>1. db'.txn = db.txn /\ db'.pages = db.pages /\ disk' = disk
    BY <1>1, <1>4 DEF Begin, Commit, Notify, Reopen, Seek, Close, Unusable, Finalize,
                      ReadBlob, Used, Connections
  <2> QED
    BY <2>1 DEF FreeReads
<1>5. CASE \E h \in Handles, m \in Marks, c \in Codes : WriteBlob(h, m, c)
  <2>1. PICK h \in Handles, m \in Marks, c \in Codes : WriteBlob(h, m, c)
    BY <1>5
  <2>2. CASE db.blobs[h].writes
    <3>1. h \in Writers(db.blobs) /\ db.blobs[h].cursor = "valid"
      BY <2>1, <2>2 DEF WriteBlob, Writers, Open
    <3>2. db.txn = "write"
      BY <3>1 DEF Consistent, WritersHoldLock
    <3>3. db'.txn = "write"
      BY <1>1, <2>1, <2>2, <3>2 DEF WriteBlob, Connections
    <3> QED
      BY <3>3 DEF FreeReads
  <2>3. CASE ~db.blobs[h].writes
    <3>1. db'.txn = db.txn /\ db'.pages = db.pages /\ disk' = disk
      BY <1>1, <2>1, <2>3 DEF WriteBlob, Used, Connections
    <3> QED
      BY <3>1 DEF FreeReads
  <2> QED
    BY <2>2, <2>3
<1>6. ASSUME NEW trip \in BOOLEAN, disk' = disk,
             db'.txn = RolledBack(db, trip).txn, db'.pages = RolledBack(db, trip).pages
      PROVE  FreeReads'
  BY <1>1, <1>6, GivenUpReads DEF FreeReads
<1>7. CASE HaltFatal \/ HaltFailed \/ (Rollback /\ ~db.auto)
           \/ (HaltWithin /\ call.rc = "rollback")
  <2>1. PICK trip \in BOOLEAN : \/ db' = RolledBack(db, trip)
                                \/ db' = [RolledBack(db, trip) EXCEPT !.auto = TRUE]
    BY <1>7 DEF HaltFatal, HaltFailed, Rollback, HaltWithin
  <2>2. disk' = disk
    BY <1>7 DEF HaltFatal, HaltFailed, Rollback, HaltWithin
  <2>3. db'.txn = RolledBack(db, trip).txn /\ db'.pages = RolledBack(db, trip).pages
    <3>1. RolledBack(db, trip) \in Connections
      BY <1>1, GivenUpReads
    <3> QED
      BY <2>1, <3>1 DEF Connections
  <2> QED
    BY <1>6, <2>2, <2>3
<1>8. CASE HaltWithin /\ call.rc # "rollback"
  <2>1. disk' = disk /\ (db' = db \/ db' = Undone)
    BY <1>8 DEF HaltWithin
  <2>2. db.txn # "write" => db'.pages = db.pages
    BY <2>1, UndoneFacts DEF Consistent, TypeOK
  <2>3. db'.txn = db.txn
    BY <2>1, UndoneFacts DEF Consistent, TypeOK
  <2> QED
    BY <2>1, <2>2, <2>3 DEF FreeReads
<1>9. CASE \E c \in Codes : HaltCommit(c)
  <2>1. PICK c \in Codes : HaltCommit(c)
    BY <1>9
  <2>2. /\ disk' = IF db.txn = "write" /\ c = "ok" THEN db.pages ELSE disk
        /\ db' = IF c = "ok" THEN Committed
                 ELSE IF c = "busy" /\ call.op = "commit"
                 THEN [db EXCEPT !.auto = FALSE]
                 ELSE RolledBack(db, FALSE)
    BY <2>1 DEF HaltCommit
  <2>3. CASE c = "ok"
    BY <1>1, <2>2, <2>3 DEF Committed, FreeReads, Connections
  <2>4. CASE c = "busy" /\ call.op = "commit"
    BY <1>1, <2>2, <2>4 DEF FreeReads, Connections
  <2>5. CASE c # "ok" /\ ~(c = "busy" /\ call.op = "commit")
    BY <1>6, <2>2, <2>5
  <2> QED
    BY <2>3, <2>4, <2>5
<1>10. CASE \E r \in Rows, c \in Cells : ForeignCommits(r, c)
  BY <1>1, <1>10 DEF ForeignCommits, FreeReads, Connections
<1> QED
  BY <1>2, <1>3, <1>4, <1>5, <1>7, <1>8, <1>9, <1>10
  DEF Next, Halt, vars, SetHook, Write, Rollback, Refused, Return, OpenToWrite, OnlyThrows,
      ForeignStarts, ForeignEnds

(* A statement goes to its end with what it began with remembered. *)
LEMMA StatementBegins ==
  ASSUME Consistent, NEW op \in Statements, NEW code \in Codes,
         call' = At(op, "halt", code, "none"), db'.pages = db.pages
  PROVE  Remembered'
<1>1. call'.before = db.pages
  BY AtFacts DEF Consistent, TypeOK, Statements, Operations
<1> QED
  BY <1>1 DEF Remembered

(* A call whose statement is not at its end has nothing to remember. *)
LEMMA NothingRemembered ==
  ASSUME call'.at # "halt" \/ call'.op \notin Statements
  PROVE  Remembered'
BY DEF Remembered

(* What the statement began with is remembered until its end. *)
LEMMA RememberedKept ==
  ASSUME Consistent, Remembered, [Next]_vars
  PROVE  Remembered'
<1>1. db \in Connections /\ call \in Calls
  BY DEF Consistent, TypeOK
<1>2. CASE UNCHANGED vars \/ (\E w \in {"reading", "writing"} : ForeignStarts(w)) \/ ForeignEnds
  BY <1>2 DEF vars, ForeignStarts, ForeignEnds, Remembered
<1>3. CASE \E s \in Slots, to \in {None, "callback", "builtin"} : SetHook(s, to)
  BY <1>3 DEF SetHook, Remembered
<1>4. CASE \E r \in Rows, c \in Cells : ForeignCommits(r, c)
  <2>1. /\ call' = call /\ db'.txn = db.txn
        /\ db.txn # "none" => db'.pages = db.pages
    BY <1>1, <1>4 DEF ForeignCommits, Connections
  <2> QED
    BY <2>1 DEF Remembered
<1>5. CASE \E c \in Codes : Read(c)
  <2>1. PICK c \in Codes : call' = At("read", "halt", c, "none") /\ db' = Reading(db)
    BY <1>5 DEF Read
  <2>2. db'.pages = db.pages
    BY <1>1, <2>1, ReadingFacts
  <2> QED
    BY <2>1, <2>2, StatementBegins DEF Statements
<1>6. CASE Begin \/ Commit
  <2>1. \E op \in {"begin", "commit"}, code \in {"ok", "other", "busy"} :
           call' = At(op, "halt", code, "none")
    BY <1>6 DEF Begin, Commit
  <2>2. db'.pages = db.pages
    BY <1>1, <1>6 DEF Begin, Commit, Connections
  <2>3. PICK op \in Statements, code \in Codes : call' = At(op, "halt", code, "none")
    BY <2>1 DEF Statements, Codes
  <2> QED
    BY <2>2, <2>3, StatementBegins
<1>7. CASE Rollback
  <2>1. CASE db.auto
    <3>1. call' = At("rollback", "halt", "other", "none") /\ db' = db
      BY <1>7, <2>1 DEF Rollback
    <3> QED
      BY <3>1, StatementBegins DEF Statements, Codes
  <2>2. CASE ~db.auto
    <3> DEFINE c == At("rollback", "halt", "ok", "none")
               heard == RollbackHeard(db)
    <3>1. call' = [c EXCEPT !.heard = heard]
      BY <1>7, <2>2 DEF Rollback
    <3>2. c \in Calls /\ c.op = "rollback" /\ c.rc = "ok"
      BY <1>1, AtFacts DEF Operations, Codes
    <3> HIDE DEF c, heard
    <3>3. call'.op = "rollback" /\ call'.rc = "ok"
      BY <3>1, <3>2 DEF Calls
    <3> QED
      BY <3>3 DEF Remembered
  <2> QED
    BY <2>1, <2>2
<1>8. CASE Refused
  <2>1. call'.before = db.pages /\ db' = db
    BY <1>1, <1>8 DEF Refused, Calls
  <2> QED
    BY <2>1 DEF Remembered
<1>9. CASE (\E r \in Rows, c \in Cells : Change(r, c)) \/ \E c \in Codes : ChangeFails(c)
  <2>1. call.op = "write" /\ call'.op = call.op
    BY <1>1, <1>9 DEF Change, ChangeFails, Calls
  <2>2. Writing(db) \in Connections /\ Writing(db).txn = "write"
    BY <1>1, ReadingFacts
  <2>3. db'.txn = "write"
    BY <1>9, <2>2 DEF Change, ChangeFails, Connections
  <2> QED
    BY <2>1, <2>3 DEF Remembered
<1>10. CASE Write \/ Return
  <2>1. Write => call'.at = "lock"
    <3>1. At("write", "lock", "ok", "none").at = "lock"
      BY <1>1, AtFacts DEF Operations, Codes
    <3> QED
      BY <3>1 DEF Write
  <2>2. Return => call'.at = "idle"
    BY IdleFacts DEF Return
  <2> QED
    BY <1>10, <2>1, <2>2, NothingRemembered
<1>11. CASE Halt
  <2>1. \E code, heard : After(code, heard)
    BY <1>11 DEF Halt, HaltFatal, HaltWithin, HaltFailed, HaltCommit
  <2>2. call'.at # "halt"
    BY <1>1, <2>1 DEF After, Calls
  <2> QED
    BY <2>2, NothingRemembered
<1>12. CASE \E t \in {"none", "hook"} : Notify(t)
  <2>1. call'.at # "halt"
    BY <1>1, <1>12 DEF Notify, Calls
  <2> QED
    BY <2>1, NothingRemembered
<1>13. CASE \/ \E r \in Rows : Opened(r)
            \/ \E h \in Handles :
                  \/ \E r \in Rows : OpenToRead(h, r) \/ Reopen(h, r)
                  \/ OpenToWrite(h) \/ Close(h) \/ Unusable(h)
                  \/ \E t \in {"error", "abort"} : OnlyThrows(h, t)
                  \/ \E c \in Codes :
                        ReadBlob(h, c) \/ \E m \in Marks : WriteBlob(h, m, c)
  <2>1. \A h : [At("open", "lock", "ok", "none") EXCEPT !.blob = h].op = "open"
    BY DEF At, Idle
  <2>2. \A op, at, code, thrown : call' = At(op, at, code, thrown) => call'.op = op
    <3>1. \A op, at, code, thrown : At(op, at, code, thrown).op = op
      BY DEF At, Idle
    <3> QED
      BY <3>1
  <2>3. \A op, t, h, r, w : Seek(op, t, h, r, w) => call'.op = op
    BY <2>2 DEF Seek
  <2>4. \A op, h, left, code, thrown : Finalize(op, h, left, code, thrown) => call'.op = op
    BY <2>2 DEF Finalize
  <2>5. \A h, code : Used(h, code) => call'.op = "blob"
    BY <2>2 DEF Used
  <2>6. \A h, r : /\ OpenToRead(h, r) => call'.op = "open"
                  /\ Opened(r) => call'.op = "open"
                  /\ Reopen(h, r) => call'.op = "blob"
    BY <2>3, <2>4 DEF OpenToRead, Opened, Reopen
  <2>7. \A h, c, m : /\ ReadBlob(h, c) => call'.op = "blob"
                     /\ WriteBlob(h, m, c) => call'.op = "blob"
    BY <2>5 DEF ReadBlob, WriteBlob
  <2>8. \A h : OpenToWrite(h) => call'.op = "open"
    BY <2>1 DEF OpenToWrite
  <2>9. \A h, t : /\ Close(h) => call'.op = "close"
                  /\ Unusable(h) => call'.op = "blob"
                  /\ OnlyThrows(h, t) => call'.op = "blob"
    BY <2>2, <2>4 DEF Close, Unusable, OnlyThrows
  <2>10. call'.op \in {"open", "close", "blob"}
    BY <1>13, <2>6, <2>7, <2>8, <2>9
  <2> QED
    BY <2>10, NothingRemembered DEF Statements
<1> QED
  BY <1>2, <1>3, <1>4, <1>5, <1>6, <1>7, <1>8, <1>9, <1>10, <1>11, <1>12, <1>13 DEF Next

(* A statement whose transaction is given up leaves nothing of itself. *)
LEMMA GivenUpIsUndone ==
  ASSUME Consistent, FreeReads, Remembered, call.at = "halt",
         call.rc # "ok" \/ db.txn = "write", NEW trip \in BOOLEAN, disk' = disk,
         \/ db' = RolledBack(db, trip)
         \/ db' = [RolledBack(db, trip) EXCEPT !.auto = TRUE]
  PROVE  UndoneStep
<1>1. db \in Connections /\ disk \in Contents
  BY DEF Consistent, TypeOK
<1> DEFINE s == RolledBack(db, trip)
<1>2. /\ s \in Connections /\ s.dirty = FALSE /\ s.pages \in {disk, db.pages}
      /\ db.txn = "write" => s.pages = disk
  BY <1>1, GivenUpReads
<1> HIDE DEF s
<1>3. /\ ~db'.dirty /\ db'.pages \in {disk, db.pages}
      /\ db.txn = "write" => db'.pages = disk
  <2>1. db' = s \/ db' = [s EXCEPT !.auto = TRUE]
    BY DEF s
  <2> QED
    BY <1>2, <2>1 DEF Connections
<1> SUFFICES ASSUME call.op \in Statements
             PROVE  db'.pages = call.before \/ db'.pages = disk
  BY <1>3 DEF UndoneStep
<1>4. CASE db.txn = "write"
  BY <1>3, <1>4
<1>5. CASE db.txn # "write"
  BY <1>3, <1>5 DEF Remembered, FreeReads
<1> QED
  BY <1>4, <1>5

(* Every step keeps to the promise about the statements that throw. *)
LEMMA NextUndoes ==
  ASSUME Consistent, FreeReads, Remembered, [Next]_vars
  PROVE  UndoneStep
<1>1. db \in Connections /\ call \in Calls /\ disk \in Contents
  BY DEF Consistent, TypeOK
<1>2. CASE HaltFatal \/ HaltFailed \/ (HaltWithin /\ call.rc = "rollback")
  <2>1. /\ call.at = "halt" /\ call.rc # "ok" /\ disk' = disk
        /\ \E trip \in BOOLEAN : \/ db' = RolledBack(db, trip)
                                 \/ db' = [RolledBack(db, trip) EXCEPT !.auto = TRUE]
    BY <1>2 DEF HaltFatal, HaltFailed, HaltWithin
  <2> QED
    BY <2>1, GivenUpIsUndone
<1>3. CASE HaltWithin /\ call.rc # "rollback"
  <2>1. /\ call.at = "halt" /\ ~EndsTransaction /\ disk' = disk /\ After(call.rc, {})
        /\ db' = IF call.rc \in {"ok", "fail"} THEN db ELSE Undone
    BY <1>3 DEF HaltWithin
  <2>2. call'.threw = IF call.op \in Statements /\ call.rc # "ok" THEN call.rc ELSE call.threw
    BY <1>1, <2>1, AfterFacts, CallFacts
  <2>3. call'.at = IF call.op \in Statements /\ call.rc = "ok" THEN "done" ELSE "return"
    BY <1>1, <2>1, AfterFacts, CallFacts
  <2> SUFFICES ASSUME call.op \in Statements, call.rc \notin {"ok", "fail"}
               PROVE  \/ db'.pages = call.before
                      \/ db'.pages = disk /\ ~db'.dirty
                      \/ call.before = None
    BY <2>1, <2>2, <2>3 DEF UndoneStep
  <2>4. /\ db'.pages = IF call.op = "write" /\ db.txn = "write" /\ call.before # None
                       THEN call.before ELSE db.pages
        /\ db'.dirty = db.dirty
    BY <1>1, <2>1, UndoneFacts
  <2>5. CASE db.txn = "none"
    BY <2>4, <2>5 DEF FreeReads, Consistent, WritersHoldLock
  <2>6. CASE db.txn # "none"
    BY <2>1, <2>4, <2>6 DEF Remembered
  <2> QED
    BY <2>5, <2>6
<1>4. CASE \E c \in Codes : HaltCommit(c)
  <2>1. PICK code \in Codes : HaltCommit(code)
    BY <1>4
  <2> DEFINE last == IF code = "ok" THEN call.rc ELSE code
             heard == CommitHeard(code) \cup
                      IF code = "ok" \/ (code = "busy" /\ call.op = "commit")
                      THEN {} ELSE RollbackHeard(db)
  <2>2. /\ call.at = "halt" /\ call.rc \in {"ok", "fail"} /\ code \in CommitCodes
        /\ disk' = IF db.txn = "write" /\ code = "ok" THEN db.pages ELSE disk
        /\ db' = IF code = "ok" THEN Committed
                 ELSE IF code = "busy" /\ call.op = "commit"
                 THEN [db EXCEPT !.auto = FALSE]
                 ELSE RolledBack(db, FALSE)
        /\ After(last, heard)
    BY <2>1 DEF HaltCommit, Commits
  <2>3. last \in Codes /\ heard \in SUBSET Heard
    BY <1>1, <2>2, CallFacts, CommitFacts, RollbackHeardFacts
  <2> HIDE DEF heard
  <2>4. CASE code = "ok"
    <3>1. last \in {"ok", "fail"}
      BY <2>2, <2>4
    <3> HIDE DEF last
    <3>2. call.op \in Statements => call'.at = "done" \/ call'.threw = "fail"
      BY <1>1, <2>2, <2>3, <3>1, AfterFacts
    <3> QED
      BY <3>2 DEF UndoneStep
  <2>5. CASE code # "ok" /\ code = "busy" /\ call.op = "commit"
    <3>1. disk' = disk /\ db'.pages = db.pages /\ db.txn = "write"
      BY <1>1, <2>2, <2>5 DEF Connections, CommitCodes
    <3>2. db.pages = call.before
      BY <2>2, <2>5, <3>1 DEF Remembered, Statements
    <3> QED
      BY <3>1, <3>2 DEF UndoneStep
  <2>6. CASE code # "ok" /\ ~(code = "busy" /\ call.op = "commit")
    <3>1. db.txn = "write" /\ disk' = disk /\ db' = RolledBack(db, FALSE)
      BY <2>2, <2>6 DEF CommitCodes
    <3> QED
      BY <2>2, <3>1, GivenUpIsUndone
  <2> QED
    BY <2>4, <2>5, <2>6
<1>5. CASE \E t \in {"none", "hook"} : Notify(t)
  <2>1. call.at = "done" /\ call.threw = "none"
    BY <1>5 DEF Notify, Consistent, Stages
  <2>2. call'.threw \in {"none", "hook"}
    BY <1>1, <1>5, <2>1 DEF Notify, Calls
  <2> QED
    BY <2>2 DEF UndoneStep
<1>6. CASE call = Idle \/ UNCHANGED call \/ call' = Idle
  BY <1>6, IdleFacts DEF UndoneStep, Statements
<1>7. CASE Refused \/ (\E r \in Rows, c \in Cells : Change(r, c)) \/ \E c \in Codes : ChangeFails(c)
  <2>1. call'.at = "halt"
    BY <1>1, <1>7 DEF Refused, Change, ChangeFails, Calls
  <2> QED
    BY <2>1 DEF UndoneStep
<1>8. CASE \E r \in Rows : Opened(r)
  BY <1>8 DEF Opened, UndoneStep, Statements
<1> QED
  BY <1>2, <1>3, <1>4, <1>5, <1>6, <1>7, <1>8
  DEF Next, Halt, vars, SetHook, Read, Write, Begin, Commit, Rollback, Return, OpenToRead,
      OpenToWrite, Close, Reopen, Unusable, OnlyThrows, ReadBlob, WriteBlob,
      ForeignStarts, ForeignEnds, ForeignCommits

(* The second invariant: what a failed statement began with is still what   *)
(* the connection reads, or is known, until the statement is at its end.    *)
THEOREM AlwaysRemembered == Spec => [](FreeReads /\ Remembered)
<1>1. Init => FreeReads /\ Remembered
  BY IdleFacts DEF Init, FreeReads, Remembered
<1>2. Consistent /\ FreeReads /\ Remembered /\ [Next]_vars => (FreeReads /\ Remembered)'
  BY FreeReadsKept, RememberedKept
<1> QED
  BY <1>1, <1>2, AlwaysConsistent, PTL DEF Spec

(* A statement that throws has committed nothing, and leaves what was there *)
(* before it or gives its transaction up: but for the exception of a wal    *)
(* hook, for OR FAIL, and for a statement without a journal inside a        *)
(* transaction.                                                             *)
THEOREM FailedStatementsAreUndone == Spec => ThrownIsUndone
<1>1. Consistent /\ FreeReads /\ Remembered /\ [Next]_vars => [UndoneStep]_vars
  BY NextUndoes
<1>2. [UndoneStep]_vars <=>
        [call'.at = "return" /\ call.at # "return" /\ call.op \in Statements
           /\ call'.threw \notin {"none", "hook", "fail"} =>
           /\ disk' = disk
           /\ \/ db'.pages = call.before
              \/ db'.pages = disk /\ ~db'.dirty
              \/ call.before = None /\ ~EndsTransaction]_vars
  BY DEF UndoneStep
<1> QED
  BY <1>1, <1>2, AlwaysConsistent, AlwaysRemembered, PTL DEF Spec, ThrownIsUndone

-----------------------------------------------------------------------------
(****************************************************************************)
(* The backup.                                                              *)
(****************************************************************************)
(* What the connection of the source reads is what is committed, unless    *)
(* it writes, or another has committed since it began to read.             *)
SourceSeen ==
    /\ src.txn = "none" => src.pages = source
    /\ src.txn = "read" /\ ~src.changed => src.pages = source
    /\ src.txn = "write" => ~src.changed

(* A backup that has copied something hears of changes.                    *)
Hearing == CanStep /\ ~bk.attached => bk.next = 1

(* The pages copied already are those of the view.  While the connection   *)
(* writes, that holds for those it has not written; and nothing holds      *)
(* when another has committed and the next transaction will find out.      *)
WrittenApart ==
    \A i \in Pages :
        /\ i < bk.next /\ i \in DOMAIN src.pages /\ i \in DOMAIN source
        /\ src.pages[i] = source[i]
        => dest.work[i] = source[i]

SoFar ==
    \A i \in Pages : i < bk.next /\ i \in DOMAIN src.pages
                        => dest.work[i] = src.pages[i]

CopiedSoFar ==
    CanStep => /\ src.txn = "write" => WrittenApart
               /\ src.txn = "read" \/ (src.txn = "none" /\ ~src.changed) => SoFar

BackupConsistent == BackupTypeOK /\ SourceSeen /\ Hearing /\ CopiedSoFar

(* A page sequence has one page at least, and a version on each.           *)
LEMMA ContentsPages ==
  ASSUME NEW p \in Images
  PROVE  /\ Len(p) \in 1..MaxPages
         /\ DOMAIN p = 1..Len(p)
         /\ DOMAIN p \subseteq Pages
         /\ \A i \in DOMAIN p : p[i] \in Versions
<1>1. PICK n \in 1..MaxPages : p \in [1..n -> Versions]
  BY DEF Images
<1>2. n \in Nat /\ n >= 1 /\ n <= MaxPages
  BY <1>1, SizesAssumption
<1>3. p \in Seq(Versions) /\ Len(p) = n
  BY <1>1, <1>2
<1> QED
  BY <1>1, <1>2, <1>3, SizesAssumption DEF Pages

(* What the destination holds, padded to the size of its pages.            *)
LEMMA ExtendedType ==
  ASSUME NEW d \in Images \cup {<<Old>>}
  PROVE  Extended(d) \in [Pages -> Versions \cup {Old}]
<1>1. \A i \in DOMAIN d : d[i] \in Versions \cup {Old}
  <2>1. CASE d \in Images
    BY <2>1, ContentsPages
  <2>2. CASE d = <<Old>>
    BY <2>2
  <2> QED
    BY <2>1, <2>2
<1> QED
  BY <1>1 DEF Extended

(* A backup that starts again changes nothing but its next page.           *)
LEMMA RestartedBackup ==
  ASSUME bk \in Backups
  PROVE  /\ Restarted(bk) \in Backups
         /\ Restarted(bk).is = bk.is
         /\ Restarted(bk).rc = bk.rc
         /\ Restarted(bk).attached = bk.attached
         /\ Restarted(bk).next = IF bk.attached THEN 1 ELSE bk.next
<1>1. 1 \in 1..MaxPages + 1
  BY SizesAssumption
<1> QED
  BY <1>1 DEF Restarted, Backups

(* So does the beginning of a transaction, and only after a foreign commit. *)
LEMMA NoticedBackup ==
  ASSUME bk \in Backups, Hearing
  PROVE  /\ Noticed \in Backups
         /\ Noticed.is = bk.is
         /\ Noticed.rc = bk.rc
         /\ Noticed.attached = bk.attached
         /\ src.changed /\ CanStep => Noticed.next = 1
         /\ ~src.changed => Noticed = bk
         /\ CanStep /\ ~Noticed.attached => Noticed.next = 1
BY RestartedBackup DEF Noticed, Hearing, Backups

(* Copying written pages again leaves the pages what they may be.          *)
LEMMA UpdatedType ==
  ASSUME NEW work \in [Pages -> Versions \cup {Old}], NEW p \in Images, NEW at
  PROVE  Updated(work, p, at) \in [Pages -> Versions \cup {Old}]
BY ContentsPages DEF Updated

(* While the backup can go on, it copies those again that it has copied.   *)
LEMMA UpdatedPages ==
  ASSUME Hearing, CanStep, bk \in Backups,
         NEW work, NEW p, NEW at, NEW i \in Pages, i < bk.next
  PROVE  Updated(work, p, at)[i] =
           IF i \in at /\ i \in DOMAIN p THEN p[i] ELSE work[i]
<1>1. bk.attached
  BY DEF Hearing, Backups, Pages
<1> QED
  BY <1>1 DEF Updated, CanStep
-----------------------------------------------------------------------------
(* At first nothing is copied.                                             *)
LEMMA BackupInitConsistent == BackupInit => BackupConsistent
<1> SUFFICES ASSUME BackupInit PROVE BackupConsistent
  OBVIOUS
<1> USE DEF BackupInit
<1>1. bk \in Backups /\ events \in 0..Events
  BY SizesAssumption DEF NoBackup, Backups, Results
<1>2. dest \in Destinations
  BY ExtendedType DEF Destinations
<1>3. src \in Sources
  BY DEF Sources
<1> QED
  BY <1>1, <1>2, <1>3, SizesAssumption
     DEF BackupConsistent, BackupTypeOK, SourceSeen, Hearing, CopiedSoFar, CanStep, NoBackup

(* A transaction begins: what is copied already stays, or the backup       *)
(* starts again.                                                           *)
LEMMA OwnReadKeeps == BackupConsistent /\ OwnRead => BackupConsistent'
<1> SUFFICES ASSUME BackupConsistent, OwnRead PROVE BackupConsistent'
  OBVIOUS
<1> USE DEF BackupConsistent, OwnRead
<1>1. BackupTypeOK'
  BY NoticedBackup DEF BackupTypeOK, Sources
<1>2. SourceSeen' /\ Hearing'
  BY NoticedBackup DEF SourceSeen, Hearing, CanStep, BackupTypeOK
<1>3. CopiedSoFar'
  BY NoticedBackup DEF BackupTypeOK, SourceSeen, CopiedSoFar, SoFar, WrittenApart, CanStep, Pages
<1> QED
  BY <1>1, <1>2, <1>3

(* A write begins: all that is copied is as committed.                     *)
LEMMA OwnWriteKeeps ==
  ASSUME BackupConsistent, NEW p \in Images, OwnWrite(p) PROVE BackupConsistent'
<1> USE DEF BackupConsistent, OwnWrite, Spend
<1>1. BackupTypeOK'
  BY SizesAssumption, NoticedBackup DEF BackupTypeOK, Sources
<1>2. SourceSeen' /\ Hearing'
  BY NoticedBackup DEF SourceSeen, Hearing, CanStep, BackupTypeOK
<1>3. CopiedSoFar'
  BY NoticedBackup DEF BackupTypeOK, SourceSeen, CopiedSoFar, SoFar, WrittenApart, CanStep, Pages
<1> QED
  BY <1>1, <1>2, <1>3

(* A page spilt is one that the transaction has written.                   *)
LEMMA OwnSpillKeeps ==
  ASSUME BackupConsistent, NEW i \in Pages, OwnSpill(i) PROVE BackupConsistent'
<1> USE DEF BackupConsistent, OwnSpill
<1>1. BackupTypeOK'
  BY UpdatedType DEF BackupTypeOK, Sources, Destinations
<1>2. SourceSeen' /\ Hearing'
  BY DEF SourceSeen, Hearing, CanStep
<1>3. CopiedSoFar'
  <2>1. \A j \in Pages \ {i} : dest'.work[j] = dest.work[j]
    BY DEF Updated, BackupTypeOK, Destinations
  <2> QED
    BY <2>1 DEF CopiedSoFar, WrittenApart, CanStep, Differing
<1> QED
  BY <1>1, <1>2, <1>3

(* What the transaction has written is copied when it commits.             *)
LEMMA OwnCommitKeeps == BackupConsistent /\ OwnCommit => BackupConsistent'
<1> SUFFICES ASSUME BackupConsistent, OwnCommit PROVE BackupConsistent'
  OBVIOUS
<1> USE DEF BackupConsistent, OwnCommit
<1>1. BackupTypeOK'
  BY UpdatedType DEF BackupTypeOK, Sources, Destinations
<1>2. SourceSeen' /\ Hearing'
  BY DEF SourceSeen, Hearing, CanStep, BackupTypeOK, Sources
<1>3. CopiedSoFar'
  <2> SUFFICES ASSUME CanStep PROVE SoFar'
    BY DEF CopiedSoFar, CanStep, BackupTypeOK, Sources
  <2> SUFFICES ASSUME NEW i \in Pages, i < bk.next, i \in DOMAIN src.pages
               PROVE  dest'.work[i] = src.pages[i]
    BY DEF SoFar, BackupTypeOK, Sources
  <2>1. dest'.work[i] = IF i \in Differing(src.pages, source)
                        THEN src.pages[i] ELSE dest.work[i]
    BY UpdatedPages DEF BackupTypeOK, Destinations
  <2>2. i \notin Differing(src.pages, source) => dest.work[i] = src.pages[i]
    BY DEF Differing, CopiedSoFar, WrittenApart
  <2> QED
    BY <2>1, <2>2
<1> QED
  BY <1>1, <1>2, <1>3

(* What it has spilt is overwritten when it rolls back, or copied again.   *)
LEMMA OwnRollbackKeeps == BackupConsistent /\ OwnRollback => BackupConsistent'
<1> SUFFICES ASSUME BackupConsistent, OwnRollback PROVE BackupConsistent'
  OBVIOUS
<1> USE DEF BackupConsistent, OwnRollback
<1>1. BackupTypeOK'
  <2>1. src' \in Sources
    BY DEF BackupTypeOK, Sources
  <2>2. bk' \in Backups
    BY RestartedBackup DEF BackupTypeOK
  <2>3. dest' \in Destinations
    BY UpdatedType DEF BackupTypeOK, Destinations
  <2> QED
    BY <2>1, <2>2, <2>3 DEF BackupTypeOK
<1>2. SourceSeen' /\ Hearing'
  BY RestartedBackup DEF SourceSeen, Hearing, CanStep, BackupTypeOK, Sources
<1>3. CopiedSoFar'
  <2> SUFFICES ASSUME CanStep' PROVE SoFar'
    BY DEF CopiedSoFar, BackupTypeOK, Sources
  <2>1. CanStep /\ src'.pages = source
    BY RestartedBackup DEF CanStep, BackupTypeOK, Sources
  <2>2. CASE journal = "wal"
    BY <2>1, <2>2, RestartedBackup DEF SoFar, Hearing, BackupTypeOK, Pages
  <2>3. CASE journal # "wal"
    <3> SUFFICES ASSUME NEW i \in Pages, i < bk.next, i \in DOMAIN source
                 PROVE  dest'.work[i] = source[i]
      BY <2>1, <2>3 DEF SoFar
    <3>1. dest'.work[i] = IF i \in Differing(source, src.pages)
                          THEN source[i] ELSE dest.work[i]
      BY <2>1, <2>3, UpdatedPages DEF BackupTypeOK, Destinations
    <3>2. i \notin Differing(source, src.pages) => dest.work[i] = source[i]
      BY <2>1 DEF Differing, CopiedSoFar, WrittenApart
    <3> QED
      BY <3>1, <3>2
  <2> QED
    BY <2>2, <2>3
<1> QED
  BY <1>1, <1>2, <1>3

(* After a read the connection has the committed pages before it.          *)
LEMMA OwnEndReadKeeps == BackupConsistent /\ OwnEndRead => BackupConsistent'
<1> SUFFICES ASSUME BackupConsistent, OwnEndRead PROVE BackupConsistent'
  OBVIOUS
<1> USE DEF BackupConsistent, OwnEndRead
<1>1. BackupTypeOK'
  BY DEF BackupTypeOK, Sources
<1>2. SourceSeen' /\ Hearing'
  BY DEF SourceSeen, Hearing, CanStep, BackupTypeOK, Sources
<1>3. CopiedSoFar'
  BY DEF BackupTypeOK, Sources, SourceSeen, CopiedSoFar, SoFar, WrittenApart, CanStep
<1> QED
  BY <1>1, <1>2, <1>3

(* A commit of another leaves a reader its view, and marks the others.     *)
LEMMA ForeignCommitKeeps ==
  ASSUME BackupConsistent, NEW p \in Images, ForeignCommit(p) PROVE BackupConsistent'
<1> USE DEF BackupConsistent, ForeignCommit, Spend
<1>1. BackupTypeOK'
  <2>1. src' \in Sources
    BY DEF BackupTypeOK, Sources
  <2> QED
    BY <2>1, SizesAssumption DEF BackupTypeOK
<1>2. SourceSeen' /\ Hearing'
  BY DEF SourceSeen, Hearing, CanStep, BackupTypeOK, Sources
<1>3. CopiedSoFar'
  BY DEF BackupTypeOK, Sources, SourceSeen, CopiedSoFar, SoFar, WrittenApart, CanStep
<1> QED
  BY <1>1, <1>2, <1>3

(* Who uses the destination is nothing to the pages that are copied.       *)
LEMMA DestinationKeeps ==
  ASSUME BackupConsistent, UseDestination \/ LeaveDestination PROVE BackupConsistent'
<1> USE DEF BackupConsistent, UseDestination, LeaveDestination, Spend
<1>1. BackupTypeOK'
  <2>1. dest' \in Destinations /\ dest'.work = dest.work
    BY DEF BackupTypeOK, Destinations
  <2> QED
    BY <2>1, SizesAssumption DEF BackupTypeOK
<1>2. SourceSeen' /\ Hearing'
  BY DEF SourceSeen, Hearing, CanStep
<1>3. CopiedSoFar'
  BY DEF BackupTypeOK, Destinations, CopiedSoFar, SoFar, WrittenApart, CanStep
<1> QED
  BY <1>1, <1>2, <1>3

-----------------------------------------------------------------------------
(* A new backup has copied nothing, and an old one cannot go on.           *)
LEMMA CreateFinishKeep ==
  ASSUME BackupConsistent, Create \/ Finish PROVE BackupConsistent'
<1> USE DEF BackupConsistent, Create, Finish
<1>1. bk' \in Backups /\ bk'.next = 1
  <2>1. NoBackup \in Backups
    BY SizesAssumption DEF NoBackup, Backups, Results
  <2>2. CASE Create
    BY <2>1, <2>2 DEF NoBackup, Backups
  <2>3. CASE Finish
    BY <2>1, <2>3 DEF NoBackup
  <2> QED
    BY <2>2, <2>3
<1>2. dest' \in Destinations
  <2>1. Extended(dest.disk) \in [Pages -> Versions \cup {Old}]
    BY ExtendedType DEF BackupTypeOK, Destinations
  <2>2. CASE Create
    BY <2>1, <2>2 DEF BackupTypeOK, Destinations
  <2>3. CASE Finish
    BY <2>1, <2>3 DEF BackupTypeOK, Destinations
  <2> QED
    BY <2>2, <2>3
<1>3. BackupTypeOK' /\ SourceSeen'
  BY <1>1, <1>2 DEF BackupTypeOK, SourceSeen
<1>4. Hearing' /\ CopiedSoFar'
  BY <1>1 DEF Hearing, CopiedSoFar, SoFar, WrittenApart, Pages
<1> QED
  BY <1>3, <1>4

(* The source as a step leaves it.                                         *)
LEMMA SourceReadView ==
  ASSUME BackupTypeOK, SourceSeen
  PROVE  /\ SourceRead \in Sources
         /\ SourceRead.txn = src.txn
         /\ SourceRead.pages = src.pages
         /\ src.txn = "none" => ~SourceRead.changed
         /\ src.txn # "none" => SourceRead.changed = src.changed
BY DEF SourceRead, BackupTypeOK, Sources

(* The backup as a step finds it: up to its next page, the pages of the    *)
(* view are copied.                                                        *)
LEMMA AtStepSoFar ==
  ASSUME BackupConsistent, CanStep, src.txn # "write"
  PROVE  /\ AtStep \in Backups
         /\ AtStep.is = bk.is
         /\ AtStep.rc = bk.rc
         /\ AtStep.attached = bk.attached
         /\ ~AtStep.attached => AtStep.next = 1
         /\ \A i \in Pages : i < AtStep.next /\ i \in DOMAIN View
                               => dest.work[i] = View[i]
<1> USE DEF BackupConsistent
<1>1. CASE src.txn = "none"
  BY <1>1, NoticedBackup DEF AtStep, BackupTypeOK, CopiedSoFar, SoFar, View, Pages
<1>2. CASE src.txn = "read"
  BY <1>2 DEF AtStep, BackupTypeOK, CopiedSoFar, SoFar, View, Hearing
<1> QED
  BY <1>1, <1>2 DEF BackupTypeOK, Sources

(* A step that finds the source or the destination busy copies nothing.    *)
LEMMA StepBusyKeeps == BackupConsistent /\ StepBusy => BackupConsistent'
<1> SUFFICES ASSUME BackupConsistent, StepBusy PROVE BackupConsistent'
  OBVIOUS
<1>1. CASE src.txn = "write"
  <2>1. bk' = [bk EXCEPT !.rc = "busy"] /\ UNCHANGED <<journal, source, src, dest, events>>
    BY <1>1 DEF StepBusy
  <2>2. bk' \in Backups /\ bk'.next = bk.next /\ bk'.attached = bk.attached
    BY <2>1 DEF BackupConsistent, BackupTypeOK, Backups, Results
  <2>3. CanStep
    BY DEF StepBusy
  <2> QED
    BY <1>1, <2>1, <2>2, <2>3
       DEF BackupConsistent, BackupTypeOK, SourceSeen, Hearing, CopiedSoFar, WrittenApart
<1>2. CASE src.txn # "write"
  <2>1. /\ bk' = [AtStep EXCEPT !.rc = "busy"]
        /\ src' = SourceRead
        /\ UNCHANGED <<journal, source, dest, events>>
        /\ CanStep
    BY <1>2 DEF StepBusy
  <2>2. /\ bk' \in Backups /\ bk'.next = AtStep.next
        /\ bk'.attached = AtStep.attached
    BY <1>2, <2>1, AtStepSoFar DEF Backups, Results
  <2>3. src' \in Sources /\ SourceSeen' /\ src'.txn # "write" /\ src'.pages = src.pages
    BY <1>2, <2>1, SourceReadView DEF BackupConsistent, SourceSeen
  <2>4. BackupTypeOK'
    BY <2>1, <2>2, <2>3 DEF BackupConsistent, BackupTypeOK
  <2>5. Hearing'
    BY <1>2, <2>1, <2>2, AtStepSoFar DEF Hearing, Backups
  <2>6. SoFar'
    BY <1>2, <2>1, <2>2, <2>3, AtStepSoFar DEF SoFar, View
  <2> QED
    BY <2>3, <2>4, <2>5, <2>6 DEF BackupConsistent, CopiedSoFar
<1> QED
  BY <1>1, <1>2

(* A step that fails ends the copying.                                     *)
LEMMA StepFailsKeeps == BackupConsistent /\ StepFails => BackupConsistent'
<1> SUFFICES ASSUME BackupConsistent, StepFails PROVE BackupConsistent'
  OBVIOUS
<1>1. src.txn # "write" /\ CanStep
  BY DEF StepFails
<1>2. bk' \in Backups /\ bk'.rc = "fatal"
  BY <1>1, AtStepSoFar DEF StepFails, Backups, Results
<1>3. src' \in Sources /\ SourceSeen'
  BY <1>1, SourceReadView DEF StepFails, BackupConsistent, SourceSeen
<1>4. dest' \in Destinations
  BY DEF StepFails, BackupConsistent, BackupTypeOK, Destinations
<1> QED
  BY <1>2, <1>3, <1>4
     DEF StepFails, BackupConsistent, BackupTypeOK, Hearing, CopiedSoFar, CanStep

(* Where a step of n pages stops.                                          *)
LEMMA NextPageRange ==
  ASSUME View \in Images, NEW from \in 1..MaxPages + 1, NEW n \in Int
  PROVE  /\ NextPage(from, n) \in 1..MaxPages + 1
         /\ NextPage(from, n) >= from
         /\ \/ NextPage(from, n) = from
            \/ NextPage(from, n) <= Len(View) + 1
BY ContentsPages, SizesAssumption DEF NextPage

(* A step copies all pages from the next one to where it stops, and so all *)
(* pages up to there are those of the view.                                *)
LEMMA StepCopies ==
  ASSUME BackupConsistent, CanStep, src.txn # "write", NEW n \in Int,
         NEW to, to = NextPage(AtStep.next, n),
         NEW work, work = Copied(AtStep.next, to)
  PROVE  /\ to \in 1..MaxPages + 1
         /\ RemainingAfter(to) \in -MaxPages..MaxPages
         /\ Len(View) \in 1..MaxPages
         /\ work \in [Pages -> Versions \cup {Old}]
         /\ \A i \in Pages : i < to /\ i \in DOMAIN View => work[i] = View[i]
<1> DEFINE from == AtStep.next
<1>1. from \in 1..MaxPages + 1
  BY AtStepSoFar DEF Backups
<1>2. View \in Images
  BY DEF BackupConsistent, BackupTypeOK, Sources, View
<1>3. /\ to \in 1..MaxPages + 1
      /\ to >= from
      /\ to = from \/ to <= Len(View) + 1
  BY <1>1, <1>2, NextPageRange
<1>4. /\ Len(View) \in 1..MaxPages
      /\ DOMAIN View = 1..Len(View)
      /\ \A i \in DOMAIN View : View[i] \in Versions
  BY <1>2, ContentsPages
<1>5. RemainingAfter(to) \in -MaxPages..MaxPages
  BY <1>3, <1>4, SizesAssumption DEF RemainingAfter
<1>6. work = [i \in Pages |-> IF i \in from..(to - 1) THEN View[i] ELSE dest.work[i]]
  BY DEF Copied
<1>7. work \in [Pages -> Versions \cup {Old}]
  <2>1. \A i \in Pages : i \in from..(to - 1) => i \in DOMAIN View
    BY <1>1, <1>3, <1>4, SizesAssumption DEF Pages
  <2> QED
    BY <1>4, <1>6, <2>1 DEF BackupConsistent, BackupTypeOK, Destinations
<1>8. \A i \in Pages : i < to /\ i \in DOMAIN View => work[i] = View[i]
  BY <1>1, <1>3, <1>6, AtStepSoFar, SizesAssumption DEF Pages
<1> QED
  BY <1>3, <1>4, <1>5, <1>7, <1>8

(* The pages of a finished copy are those of the view, and no more.        *)
LEMMA WholeCopy ==
  ASSUME View \in Images, NEW work \in [Pages -> Versions \cup {Old}],
         \A i \in 1..Len(View) : work[i] = View[i]
  PROVE  SubSeq(work, 1, Len(View)) = View
<1>1. Len(View) \in Nat /\ View \in Seq(Versions)
  BY ContentsPages, SizesAssumption DEF Images
<1>2. \A i \in 1..Len(View) : work[i] \in Versions
  BY <1>1, ContentsPages
<1> DEFINE copy == SubSeq(work, 1, Len(View))
<1>3. /\ copy \in Seq(Versions)
      /\ Len(copy) = Len(View)
      /\ \A i \in 1..Len(View) : copy[i] = work[i]
  BY <1>1, <1>2, SubSeqProperties
<1> QED
  BY <1>1, <1>3
(* A step that is not the last one has copied what it says, and the last   *)
(* one makes the destination what the source is.                           *)
LEMMA StepKeeps ==
  ASSUME BackupConsistent, NEW n \in Sizes, Step(n)
  PROVE  /\ BackupConsistent'
         /\ bk'.is = "open"
         /\ \/ bk'.rc = "ok" /\ dest'.disk = dest.disk
            \/ bk'.rc = "done" /\ dest'.disk = View
<1> DEFINE to == NextPage(AtStep.next, n)
           work == Copied(AtStep.next, to)
           complete == to > Len(View)
           whole == SubSeq(work, 1, Len(View))
<1>1. /\ CanStep /\ src.txn # "write"
      /\ bk' = [bk EXCEPT !.next = to, !.remaining = RemainingAfter(to),
                          !.pagecount = Len(View),
                          !.attached = @ \/ ~complete,
                          !.rc = IF complete THEN "done" ELSE "ok"]
      /\ dest' = IF complete
                 THEN [disk |-> whole, work |-> Extended(whole), held |-> "none"]
                 ELSE [dest EXCEPT !.work = work, !.held = "backup"]
      /\ src' = SourceRead
      /\ UNCHANGED <<journal, source, events>>
  BY DEF Step
<1>2. View \in Images /\ n \in Int
  BY SizesAssumption DEF BackupConsistent, BackupTypeOK, Sources, View
<1>3. /\ to \in 1..MaxPages + 1
      /\ RemainingAfter(to) \in -MaxPages..MaxPages
      /\ Len(View) \in 1..MaxPages
      /\ work \in [Pages -> Versions \cup {Old}]
      /\ \A i \in Pages : i < to /\ i \in DOMAIN View => work[i] = View[i]
  BY <1>1, <1>2, StepCopies
<1>4. complete => whole = View
  <2> SUFFICES ASSUME complete PROVE whole = View
    OBVIOUS
  <2>1. \A i \in 1..Len(View) : work[i] = View[i]
    BY <1>2, <1>3, ContentsPages, SizesAssumption DEF Pages
  <2> HIDE DEF work
  <2> QED
    BY <1>2, <1>3, <2>1, WholeCopy
<1> HIDE DEF to, work, whole
<1>5. Extended(View) \in [Pages -> Versions \cup {Old}]
  BY <1>2, ExtendedType
<1>6. src' \in Sources /\ SourceSeen' /\ src'.txn # "write" /\ src'.pages = src.pages
  BY <1>1, SourceReadView DEF BackupConsistent, SourceSeen
<1>7. bk.is \in {"none", "open"} /\ bk.attached \in BOOLEAN /\ Len(View) \in 0..MaxPages
  BY <1>3, SizesAssumption DEF BackupConsistent, BackupTypeOK, Backups
<1>8. bk.is = "open" /\ UNCHANGED <<journal, source, events>>
  BY <1>1 DEF CanStep
<1>9. CASE complete
  <2>1. dest' = [disk |-> View, work |-> Extended(View), held |-> "none"]
    BY <1>1, <1>4, <1>9
  <2>2. dest' \in Destinations /\ dest'.disk = View
    BY <1>2, <1>5, <2>1 DEF Destinations
  <2>3. bk' = [bk EXCEPT !.next = to, !.remaining = RemainingAfter(to),
                         !.pagecount = Len(View), !.attached = bk.attached, !.rc = "done"]
    BY <1>1, <1>9 DEF BackupConsistent, BackupTypeOK, Backups
  <2>4. bk' = [is |-> bk.is, next |-> to, attached |-> bk.attached, rc |-> "done",
               remaining |-> RemainingAfter(to), pagecount |-> Len(View)]
    BY <2>3 DEF BackupConsistent, BackupTypeOK, Backups
  <2>5. bk' \in Backups
    BY <1>3, <1>7, <2>4 DEF Backups, Results
  <2>6. bk'.is = "open" /\ bk'.rc = "done"
    BY <1>8, <2>4
  <2>7. BackupTypeOK' /\ Hearing' /\ CopiedSoFar'
    BY <1>6, <1>8, <2>2, <2>5, <2>6
       DEF BackupConsistent, BackupTypeOK, Hearing, CopiedSoFar, CanStep
  <2> QED
    BY <1>6, <2>2, <2>6, <2>7 DEF BackupConsistent
<1>10. CASE ~complete
  <2>1. dest' = [dest EXCEPT !.work = work, !.held = "backup"]
    BY <1>1, <1>10
  <2>2. dest' \in Destinations /\ dest'.disk = dest.disk /\ dest'.work = work
    BY <1>3, <2>1 DEF BackupConsistent, BackupTypeOK, Destinations
  <2>3. bk' = [bk EXCEPT !.next = to, !.remaining = RemainingAfter(to),
                         !.pagecount = Len(View), !.attached = TRUE, !.rc = "ok"]
    BY <1>1, <1>10 DEF BackupConsistent, BackupTypeOK, Backups
  <2>4. bk' = [is |-> bk.is, next |-> to, attached |-> TRUE, rc |-> "ok",
               remaining |-> RemainingAfter(to), pagecount |-> Len(View)]
    BY <2>3 DEF BackupConsistent, BackupTypeOK, Backups
  <2>5. bk' \in Backups
    BY <1>3, <1>7, <2>4 DEF Backups, Results
  <2>6. /\ bk'.is = "open" /\ bk'.rc = "ok"
        /\ bk'.next = to /\ bk'.attached = TRUE
    BY <1>8, <2>4
  <2>7. SoFar'
    BY <1>3, <1>6, <2>2, <2>6 DEF SoFar, View
  <2>8. BackupTypeOK' /\ Hearing' /\ CopiedSoFar'
    BY <1>6, <1>8, <2>2, <2>5, <2>6, <2>7 DEF BackupConsistent, BackupTypeOK, Hearing, CopiedSoFar
  <2> QED
    BY <1>6, <2>2, <2>6, <2>8 DEF BackupConsistent
<1> QED
  BY <1>9, <1>10

-----------------------------------------------------------------------------
(* Every step keeps what is copied apart from what is not.                 *)
LEMMA BackupNextConsistent == BackupConsistent /\ [BackupNext]_backupVars => BackupConsistent'
<1> SUFFICES ASSUME BackupConsistent, [BackupNext]_backupVars PROVE BackupConsistent'
  OBVIOUS
<1>1. CASE OwnRead \/ OwnCommit \/ OwnRollback \/ OwnEndRead
  BY <1>1, OwnReadKeeps, OwnCommitKeeps, OwnRollbackKeeps, OwnEndReadKeeps
<1>2. CASE \E p \in Images : OwnWrite(p) \/ ForeignCommit(p)
  BY <1>2, OwnWriteKeeps, ForeignCommitKeeps
<1>3. CASE \E i \in Pages : OwnSpill(i)
  BY <1>3, OwnSpillKeeps
<1>4. CASE UseDestination \/ LeaveDestination \/ Create \/ Finish
  BY <1>4, DestinationKeeps, CreateFinishKeep
<1>5. CASE StepBusy \/ StepFails
  BY <1>5, StepBusyKeeps, StepFailsKeeps
<1>6. CASE \E n \in Sizes : Step(n)
  BY <1>6, StepKeeps
<1>7. CASE UNCHANGED backupVars
  BY <1>7 DEF backupVars, BackupConsistent, BackupTypeOK, SourceSeen, Hearing, CopiedSoFar,
              WrittenApart, SoFar, CanStep
<1> QED
  BY <1>1, <1>2, <1>3, <1>4, <1>5, <1>6, <1>7 DEF BackupNext

(* Between any two steps of a backup, whatever others have done, the pages *)
(* it has copied are those of one version of the source: the one it will   *)
(* end with, or none because it will start again.                          *)
THEOREM BackupAlwaysConsistent == BackupSpec => []BackupConsistent
BY BackupInitConsistent, BackupNextConsistent, PTL DEF BackupSpec

(* A finished copy holds pages of the source only, as many as it had.      *)
THEOREM BackupTypeCorrect == BackupSpec => []BackupTypeOK
<1>1. BackupConsistent => BackupTypeOK
  BY DEF BackupConsistent
<1> QED
  BY <1>1, BackupAlwaysConsistent, PTL

-----------------------------------------------------------------------------
(***************************************************************************)
(* The refinement: the copy is made by the last step of a backup, of what  *)
(* the source is for its connection; all else changes the source or        *)
(* nothing.                                                                *)
(***************************************************************************)
Seen == IF src.txn = "read" THEN src.pages ELSE source

Outcome == IF bk.is = "none" THEN "idle"
           ELSE IF bk.rc = "done" THEN "done"
           ELSE IF bk.rc = "fatal" THEN "failed" ELSE "running"

(* What a reader of Snapshot sees: its variables are these three.          *)
LEMMA SnapshotNext ==
  ASSUME \/ UNCHANGED <<Seen, dest.disk, Outcome>>
         \/ Seen' \in Images /\ UNCHANGED <<dest.disk, Outcome>>
         \/ Outcome = "idle" /\ Outcome' = "running" /\ UNCHANGED <<Seen, dest.disk>>
         \/ /\ Outcome = "running" /\ Outcome' = "done"
            /\ dest'.disk = Seen /\ UNCHANGED Seen
         \/ Outcome = "running" /\ Outcome' = "failed" /\ UNCHANGED <<Seen, dest.disk>>
         \/ Outcome # "idle" /\ Outcome' = "idle" /\ UNCHANGED <<Seen, dest.disk>>
  PROVE  Snapshot!Next \/ UNCHANGED <<Seen, dest.disk, Outcome>>
BY DEF Snapshot!Next, Snapshot!Start, Snapshot!Change, Snapshot!Copy,
       Snapshot!Fail, Snapshot!End, Seen, Outcome
(* The outcome of a backup that can go on is not known yet.                *)
LEMMA RunningOutcome ==
  /\ CanStep => Outcome = "running"
  /\ bk.is = "open" => Outcome # "idle"
BY DEF CanStep, Outcome

(* What others do with the source changes what is seen, and nothing else.  *)
LEMMA OthersChange ==
  ASSUME BackupConsistent,
         \/ OwnRead \/ OwnCommit \/ OwnRollback \/ OwnEndRead
         \/ \E p \in Images : OwnWrite(p) \/ ForeignCommit(p)
         \/ \E i \in Pages : OwnSpill(i)
         \/ UseDestination \/ LeaveDestination
  PROVE  Seen' \in Images /\ UNCHANGED <<dest.disk, Outcome>>
<1>1. source' \in Images /\ src'.pages \in Images
  <2>1. BackupConsistent'
    BY BackupNextConsistent DEF BackupNext
  <2> QED
    BY <2>1 DEF BackupConsistent, BackupTypeOK, Sources
<1>2. Seen' \in Images
  BY <1>1 DEF Seen
<1>3. bk'.is = bk.is /\ bk'.rc = bk.rc
  BY NoticedBackup, RestartedBackup
     DEF BackupConsistent, BackupTypeOK, OwnRead, OwnWrite, OwnSpill, OwnCommit, OwnRollback,
         OwnEndRead, ForeignCommit, UseDestination, LeaveDestination
<1>4. dest'.disk = dest.disk
  BY DEF BackupConsistent, BackupTypeOK, Destinations, OwnRead, OwnWrite, OwnSpill, OwnCommit,
         OwnRollback, OwnEndRead, ForeignCommit, UseDestination, LeaveDestination
<1> QED
  BY <1>2, <1>3, <1>4 DEF Outcome

(* A step of a backup sees what the connection sees.                       *)
LEMMA ViewSeen ==
  ASSUME BackupConsistent, src.txn # "write"
  PROVE  View = Seen
BY DEF BackupConsistent, BackupTypeOK, Sources, SourceSeen, View, Seen

(* What is seen is the same for a step that only begins to read.           *)
LEMMA ReadUnseen ==
  ASSUME BackupConsistent, src' = src \/ src' = SourceRead, source' = source
  PROVE  Seen' = Seen
BY SourceReadView DEF BackupConsistent, Seen

(* A step copies what is seen, fails, or has not come to the end.          *)
LEMMA StepsRefine ==
  ASSUME BackupConsistent, StepBusy \/ StepFails \/ (\E n \in Sizes : Step(n))
  PROVE  Snapshot!Next \/ UNCHANGED <<Seen, dest.disk, Outcome>>
<1>1. CanStep /\ Outcome = "running"
  BY RunningOutcome DEF StepBusy, StepFails, Step
<1>2. Seen' = Seen
  BY ReadUnseen DEF StepBusy, StepFails, Step
<1>3. CASE StepBusy
  <2>1. \/ bk' = [bk EXCEPT !.rc = "busy"]
        \/ src.txn # "write" /\ bk' = [AtStep EXCEPT !.rc = "busy"]
    BY <1>3 DEF StepBusy
  <2>2. bk'.is = "open" /\ bk'.rc = "busy"
    BY <1>1, <2>1, AtStepSoFar DEF BackupConsistent, BackupTypeOK, Backups, CanStep
  <2> QED
    BY <1>1, <1>2, <1>3, <2>2 DEF StepBusy, Outcome
<1>4. CASE StepFails
  <2>1. bk' = [AtStep EXCEPT !.rc = "fatal"] /\ src.txn # "write"
    BY <1>4 DEF StepFails
  <2>2. bk'.is = "open" /\ bk'.rc = "fatal"
    BY <1>1, <2>1, AtStepSoFar DEF Backups, CanStep
  <2>3. dest'.disk = dest.disk
    BY <1>4 DEF StepFails, BackupConsistent, BackupTypeOK, Destinations
  <2>4. Outcome' = "failed"
    BY <2>2 DEF Outcome
  <2> QED
    BY <1>1, <1>2, <2>3, <2>4, SnapshotNext
<1>5. CASE \E n \in Sizes : Step(n)
  <2>1. View = Seen
    BY <1>5, ViewSeen DEF Step
  <2>2. CASE bk'.is = "open" /\ bk'.rc = "ok" /\ dest'.disk = dest.disk
    BY <1>1, <1>2, <2>2 DEF Outcome
  <2>3. CASE bk'.is = "open" /\ bk'.rc = "done" /\ dest'.disk = View
    <3>1. Outcome' = "done"
      BY <2>3 DEF Outcome
    <3> QED
      BY <1>1, <1>2, <2>1, <2>3, <3>1, SnapshotNext
  <2> QED
    BY <1>5, <2>2, <2>3, StepKeeps
<1> QED
  BY <1>3, <1>4, <1>5

(* A backup starts and ends.                                               *)
LEMMA CreateFinishRefine ==
  ASSUME BackupConsistent, Create \/ Finish
  PROVE  Snapshot!Next
<1>1. Seen' = Seen
  BY ReadUnseen DEF Create, Finish
<1>2. dest'.disk = dest.disk
  BY DEF Create, Finish, BackupConsistent, BackupTypeOK, Destinations
<1>3. CASE Create
  <2>1. Outcome = "idle" /\ Outcome' = "running"
    BY <1>3 DEF Create, NoBackup, Outcome
  <2> QED
    BY <1>1, <1>2, <2>1 DEF Snapshot!Next, Snapshot!Start, Seen, Outcome
<1>4. CASE Finish
  <2>1. Outcome # "idle" /\ Outcome' = "idle"
    BY <1>4 DEF Finish, NoBackup, Outcome
  <2> QED
    BY <1>1, <1>2, <2>1 DEF Snapshot!Next, Snapshot!End, Seen, Outcome
<1> QED
  BY <1>3, <1>4

(* The destination goes from its old content to a committed content of the *)
(* source in one move, by the step that returns done, and a backup that    *)
(* has failed or is given up leaves it alone.                              *)
THEOREM BackupIsAtomicCopy == BackupSpec => ImplementsCopy
<1>1. BackupInit => Snapshot!Init
  <2> SUFFICES ASSUME BackupInit PROVE Snapshot!Init
    OBVIOUS
  <2>1. Seen \in Images /\ dest.disk = <<Old>> /\ Outcome = "idle"
    BY DEF BackupInit, NoBackup, Seen, Outcome
  <2> QED
    BY <2>1 DEF Snapshot!Init, Seen, Outcome
<1>2. BackupConsistent /\ [BackupNext]_backupVars => [Snapshot!Next]_<<Seen, dest.disk, Outcome>>
  <2> SUFFICES ASSUME BackupConsistent, [BackupNext]_backupVars
               PROVE  Snapshot!Next \/ UNCHANGED <<Seen, dest.disk, Outcome>>
    OBVIOUS
  <2>1. CASE UNCHANGED backupVars
    BY <2>1 DEF backupVars, Seen, Outcome
  <2>2. CASE StepBusy \/ StepFails \/ \E n \in Sizes : Step(n)
    BY <2>2, StepsRefine
  <2>3. CASE Create \/ Finish
    BY <2>3, CreateFinishRefine
  <2>4. CASE \/ OwnRead \/ OwnCommit \/ OwnRollback \/ OwnEndRead
             \/ \E p \in Images : OwnWrite(p) \/ ForeignCommit(p)
             \/ \E i \in Pages : OwnSpill(i)
             \/ UseDestination \/ LeaveDestination
    BY <2>4, OthersChange, SnapshotNext
  <2> QED
    BY <2>1, <2>2, <2>3, <2>4 DEF BackupNext
<1> QED
  BY <1>1, <1>2, BackupAlwaysConsistent, PTL
     DEF BackupSpec, ImplementsCopy, Snapshot!Spec, Seen, Outcome

==============================================================================
