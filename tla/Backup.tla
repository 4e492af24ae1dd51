------------------------------- MODULE Backup -------------------------------
(***************************************************************************)
(* The backup object: pages are copied step by step from a source that its *)
(* own connection and other connections may change in between.  The        *)
(* wrapper turns busy and locked into values a caller retries on, and any  *)
(* other code into an exception; its destructor gives the rest up.         *)
(***************************************************************************)
EXTENDS Integers, Sequences

CONSTANTS
    Versions,   \* what a page of the source may hold
    Old,        \* what the pages of the destination hold at first
    MaxPages,   \* bound on the size of the source
    Sizes,      \* page counts the program passes to step, -1 for all
    Events      \* bound on the number of times others come in between

ASSUME SizesAssumption ==
    MaxPages \in Nat \ {0} /\ Events \in Nat /\ Sizes \subseteq Int

VARIABLES
    journal,    \* of the source: "rollback" or "wal"
    source,     \* what is committed to the source
    src,        \* the connection to the source that the backup uses
    dest,       \* the destination
    bk,         \* the backup object
    events      \* how many more times others will come in between

backupVars == <<journal, source, src, dest, bk, events>>

Images == UNION {[1..n -> Versions] : n \in 1..MaxPages}
Pages == 1..MaxPages

Sources ==
    [txn : {"none", "read", "write"},
     pages : Images,            \* what it reads; source when it has no lock
     changed : BOOLEAN]         \* its cache has not noticed another's commit

Destinations ==
    [disk : Images \cup {<<Old>>},
     work : [Pages -> Versions \cup {Old}],     \* its pages, uncommitted
     held : {"none", "backup", "other"}]

Results == {"ok", "busy", "done", "fatal"}

Backups ==
    [is : {"none", "open"}, next : 1..MaxPages + 1, attached : BOOLEAN,
     rc : Results, remaining : -MaxPages..MaxPages, pagecount : 0..MaxPages]

NoBackup == [is |-> "none", next |-> 1, attached |-> FALSE, rc |-> "ok",
             remaining |-> 0, pagecount |-> 0]

BackupTypeOK ==
    /\ journal \in {"rollback", "wal"}
    /\ source \in Images
    /\ src \in Sources
    /\ dest \in Destinations
    /\ bk \in Backups
    /\ events \in 0..Events

Extended(d) == [i \in Pages |-> IF i \in DOMAIN d THEN d[i] ELSE Old]

BackupInit ==
    /\ journal \in {"rollback", "wal"}
    /\ source \in Images
    /\ src = [txn |-> "none", pages |-> source, changed |-> FALSE]
    /\ dest = [disk |-> <<Old>>, work |-> Extended(<<Old>>), held |-> "none"]
    /\ bk = NoBackup
    /\ events = Events

(***************************************************************************)
(* How a change of the source reaches the backup                           *)
(***************************************************************************)
Restarted(b) == [b EXCEPT !.next = IF b.attached THEN 1 ELSE @]

(* The bug of a cache that takes every transaction for a change.           *)
AlwaysNoticed == Restarted(bk)

(* A transaction that begins finds out whether another connection has      *)
(* committed, and then the backup starts again.                            *)
Noticed == IF src.changed THEN Restarted(bk) ELSE bk

(* The bug of a backup that is not told of what its source writes.         *)
NotUpdated(work, pages, at) == work

(* Pages copied already are copied again when they are written.            *)
Updated(work, pages, at) ==
    [i \in Pages |-> IF /\ bk.attached /\ bk.rc \in {"ok", "busy"}
                        /\ i \in at /\ i \in DOMAIN pages /\ i < bk.next
                     THEN pages[i] ELSE work[i]]

Differing(p, q) ==
    {i \in Pages : i \in DOMAIN p /\ (i \notin DOMAIN q \/ p[i] # q[i])}

(***************************************************************************)
(* Others that use the source and the destination                          *)
(***************************************************************************)
Spend == events > 0 /\ events' = events - 1

OwnRead ==
    /\ src.txn = "none"
    /\ src' = [txn |-> "read", pages |-> source, changed |-> FALSE]
    /\ bk' = Noticed
    /\ UNCHANGED <<journal, source, dest, events>>

OwnWrite(p) ==
    /\ Spend
    /\ \/ src.txn = "none"
       \/ src.txn = "read" /\ ~src.changed
    /\ p # source
    /\ src' = [txn |-> "write", pages |-> p, changed |-> FALSE]
    /\ bk' = Noticed
    /\ UNCHANGED <<journal, source, dest>>

(* A cache under pressure writes a page before the transaction commits.    *)
OwnSpill(i) ==
    /\ src.txn = "write" /\ i \in Differing(src.pages, source)
    /\ dest' = [dest EXCEPT !.work = Updated(@, src.pages, {i})]
    /\ UNCHANGED <<journal, source, src, bk, events>>

OwnCommit ==
    /\ src.txn = "write"
    /\ source' = src.pages
    /\ \E after \in {"none", "read"} : src' = [src EXCEPT !.txn = after]
    /\ dest' = [dest EXCEPT !.work =
                    Updated(@, src.pages, Differing(src.pages, source))]
    /\ UNCHANGED <<journal, bk, events>>

(* Rolling back copies the journal over what was spilt; with a WAL there   *)
(* is none to copy, and the backup starts again.                           *)
OwnRollback ==
    /\ src.txn = "write"
    /\ \E after \in {"none", "read"} :
          src' = [src EXCEPT !.txn = after, !.pages = source]
    /\ IF journal = "wal"
       THEN bk' = Restarted(bk) /\ dest' = dest
       ELSE /\ dest' = [dest EXCEPT !.work =
                            Updated(@, source, Differing(source, src.pages))]
            /\ bk' = bk
    /\ UNCHANGED <<journal, source, events>>

OwnEndRead ==
    /\ src.txn = "read"
    /\ src' = [src EXCEPT !.txn = "none", !.pages = source]
    /\ UNCHANGED <<journal, source, dest, bk, events>>

ForeignCommit(p) ==
    /\ Spend
    /\ src.txn # "write" /\ (journal = "rollback" => src.txn = "none")
    /\ p # source
    /\ source' = p
    /\ src' = [src EXCEPT !.changed = TRUE,
                          !.pages = IF src.txn = "none" THEN p ELSE @]
    /\ UNCHANGED <<journal, dest, bk>>

UseDestination ==
    /\ Spend
    /\ dest.held = "none"
    /\ dest' = [dest EXCEPT !.held = "other"]
    /\ UNCHANGED <<journal, source, src, bk>>

LeaveDestination ==
    /\ dest.held = "other"
    /\ dest' = [dest EXCEPT !.held = "none"]
    /\ UNCHANGED <<journal, source, src, bk, events>>

(***************************************************************************)
(* The backup                                                              *)
(***************************************************************************)
Create ==
    /\ bk.is = "none"
    /\ bk' = [NoBackup EXCEPT !.is = "open"]
    /\ dest' = [dest EXCEPT !.work = Extended(dest.disk)]
    /\ UNCHANGED <<journal, source, src, events>>

(* What the connection of the source reads now.                            *)
View == src.pages

CanStep == bk.is = "open" /\ bk.rc \in {"ok", "busy"}

(* A step that begins a read transaction ends it before it returns.        *)
AtStep == IF src.txn = "none" THEN Noticed ELSE bk
SourceRead == IF src.txn = "none" THEN [src EXCEPT !.changed = FALSE] ELSE src

StepBusy ==
    /\ CanStep
    /\ \/ src.txn = "write" /\ bk' = [bk EXCEPT !.rc = "busy"] /\ src' = src
       \/ /\ src.txn # "write" /\ dest.held = "other"
          /\ bk' = [AtStep EXCEPT !.rc = "busy"]
          /\ src' = SourceRead
    /\ UNCHANGED <<journal, source, dest, events>>

(* The first page after those that a step of n pages copies.               *)
NextPage(from, n) ==
    IF n < 0 \/ from + n > Len(View) + 1
    THEN IF from > Len(View) THEN from ELSE Len(View) + 1
    ELSE from + n

Copied(from, to) ==
    [i \in Pages |-> IF i \in from..(to - 1) THEN View[i] ELSE dest.work[i]]

(* The bug of counting from the wrong end.                                 *)
RemainingFromStart(next) == Len(View) + next

(* The count of pages left, which the source may have fallen below.        *)
RemainingAfter(next) == Len(View) + 1 - next

Step(n) ==
    /\ CanStep /\ src.txn # "write" /\ dest.held # "other"
    /\ LET from == AtStep.next
           to == NextPage(from, n)
           work == Copied(from, to)
           complete == to > Len(View)
       IN
       /\ bk' = [bk EXCEPT !.next = to, !.remaining = RemainingAfter(to),
                           !.pagecount = Len(View),
                           !.attached = @ \/ ~complete,
                           !.rc = IF complete THEN "done" ELSE "ok"]
       /\ dest' = IF complete
                  THEN LET disk == SubSeq(work, 1, Len(View)) IN
                       [disk |-> disk, work |-> Extended(disk), held |-> "none"]
                  ELSE [dest EXCEPT !.work = work, !.held = "backup"]
    /\ src' = SourceRead
    /\ UNCHANGED <<journal, source, events>>

(* Memory, the disk or a lock code the wrapper does not know: step throws, *)
(* and every later step throws the same.                                   *)
StepFails ==
    /\ CanStep /\ src.txn # "write" /\ dest.held # "other"
    /\ bk' = [AtStep EXCEPT !.rc = "fatal"]
    /\ \E held \in {dest.held, "backup"} : dest' = [dest EXCEPT !.held = held]
    /\ src' = SourceRead
    /\ UNCHANGED <<journal, source, events>>

(* ~backup: what is not committed to the destination is rolled back.       *)
Finish ==
    /\ bk.is = "open"
    /\ bk' = NoBackup
    /\ dest' = [dest EXCEPT !.work = Extended(dest.disk),
                            !.held = IF @ = "backup" THEN "none" ELSE @]
    /\ UNCHANGED <<journal, source, src, events>>

BackupNext ==
    \/ OwnRead \/ OwnCommit \/ OwnRollback \/ OwnEndRead
    \/ \E p \in Images : OwnWrite(p) \/ ForeignCommit(p)
    \/ \E i \in Pages : OwnSpill(i)
    \/ UseDestination \/ LeaveDestination
    \/ Create \/ StepBusy \/ StepFails \/ Finish
    \/ \E n \in Sizes : Step(n)

BackupSpec == BackupInit /\ [][BackupNext]_backupVars

(* The program keeps calling step with a page count that is not 0, it ends *)
(* its own transactions, and others leave the destination again.           *)
BackupFairSpec ==
    /\ BackupSpec
    /\ WF_backupVars(\E n \in Sizes \ {0} : Step(n))
    /\ WF_backupVars(OwnCommit \/ OwnRollback)
    /\ WF_backupVars(LeaveDestination)

(***************************************************************************)
(* Properties                                                              *)
(***************************************************************************)
(* Whatever changes the source between two steps, the destination goes     *)
(* from its old content to one committed content of the source in a single *)
(* move, at the step that returns done; an uncommitted page, a mixture of  *)
(* two versions or half of a copy is never seen in it.                     *)
Snapshot == INSTANCE AtomicCopy WITH
    Contents <- Images \cup {<<Old>>},
    source <- IF src.txn = "read" THEN src.pages ELSE source,
    copy <- dest.disk,
    result <- IF bk.is = "none" THEN "idle"
              ELSE IF bk.rc = "done" THEN "done"
              ELSE IF bk.rc = "fatal" THEN "failed" ELSE "running"

ImplementsCopy == Snapshot!Spec

(* A program that calls step again whenever it is told that the database   *)
(* is busy, or that pages are left, comes to an end once the others do not *)
(* come in between any more.                                               *)
StepsEnd == bk.is = "open" ~> bk.is = "none" \/ bk.rc \in {"done", "fatal"}

=============================================================================
