------------------------- MODULE ErrorCaptureProofs -------------------------
(****************************************************************************)
(* Proofs about ErrorCapture, for any number of threads and calls.          *)
(****************************************************************************)
EXTENDS ErrorCapture, TLAPS

(* Where a thread builds an error, before and after it has read the code. *)
Unread   == {"deleter", "code"}
Building == {"system", "offset", "message", "copy"}
Failed   == Unread \cup Building \cup {"thrown"}

(* A thread that is in a call has made one. *)
InCall == \A t \in Threads : pc[t] # "idle" => call[t].n >= 1

(* What the error holds before and after the code of the connection is read. *)
CodeSoFar ==
  \A t \in Threads :
    /\ pc[t] \in Unread => err[t].code = call[t].res
    /\ pc[t] \in Failed => err[t].code # "OK"
    /\ pc[t] \in Building \cup {"thrown"} /\ call[t].res = "MISUSE" => err[t].code = "MISUSE"

Sound == TypeOK /\ InCall /\ CodeSoFar

(* The sets of records the variables range over. *)
CallRecords == [n: 0..MaxCalls, kind: Kinds \cup {"none"}, res: Codes, nested: BOOLEAN]
ErrorRecords == [code: Codes, by: Calls \cup {NoCall}, copied: BOOLEAN,
                 offset: Calls \cup {NoCall}, sys: Calls \cup {NoCall}, msg: Texts]
DbRecords == [code: Codes, by: Calls \cup {NoCall}, msg: Calls \cup {NoCall},
              offset: Calls \cup {NoCall}, sys: Calls \cup {NoCall}]

(* Every call ends with a code of SQLite. *)
LEMMA ResultType == \A k : Result(k) \in Codes
  BY DEF Result, Codes, Successes

(* The text of a code is not the message of a call. *)
LEMMA TextsDiffer == \A c : errstr(c) \notin Calls
  BY DEF errstr, Calls

(* What the connection remembers after a call has its type. *)
LEMMA RememberType ==
  ASSUME TypeOK, NEW k, NEW c \in Calls
  PROVE  Remember(k, c) \in [code: Codes, by: Calls \cup {NoCall}, msg: Calls \cup {NoCall},
                             offset: Calls \cup {NoCall}, sys: Calls \cup {NoCall}]
  BY ResultType DEF TypeOK, Remember

(* sqlite3_errmsg returns a message of a call or a static text. *)
LEMMA errmsgType ==
  ASSUME TypeOK
  PROVE  errmsg \in Calls \cup StaticTexts
  BY DEF TypeOK, errmsg, StaticTexts

(* The call a thread is in has a name of its own. *)
LEMMA OwnType ==
  ASSUME TypeOK, InCall, NEW t \in Threads, pc[t] # "idle"
  PROVE  Own(t) \in Calls /\ <<t, call[t].n, "deleter">> \in Calls
<1>1. call[t].n \in 1..MaxCalls
  BY CallsAssumption DEF TypeOK, InCall
<1> QED
  BY <1>1 DEF Own, Calls

(* Init establishes it. *)
LEMMA InitSound == Init => Sound
<1> SUFFICES ASSUME Init PROVE Sound
  OBVIOUS
<1>1. TypeOK
  BY CallsAssumption DEF Init, TypeOK, NoError, Texts, StaticTexts, Codes, Successes
<1> QED
  BY <1>1 DEF Init, Sound, InCall, CodeSoFar, Failed, Unread, Building

-----------------------------------------------------------------------------
(* One lemma per action: it preserves the types and the code so far. *)
LEMMA EnterSound ==
  ASSUME Sound, NEW t \in Threads, Enter(t)
  PROVE  Sound'
<1>1. /\ call' = [call EXCEPT ![t].n = @ + 1]
      /\ pc' = [pc EXCEPT ![t] = "call"]
      /\ mutex' = IF locking THEN t ELSE mutex
      /\ UNCHANGED <<locking, db, err, text>>
  BY DEF Enter, Goto
<1>2. call[t].n + 1 \in 0..MaxCalls /\ call[t].n + 1 >= 1
  BY CallsAssumption DEF Sound, TypeOK, Enter
<1>3. call' \in [Threads -> CallRecords]
  BY <1>1, <1>2 DEF Sound, TypeOK, CallRecords
<1>4. TypeOK'
  <2>1. mutex' \in Threads \cup {NoThread}
    BY <1>1 DEF Sound, TypeOK
  <2>2. pc' \in [Threads -> {"idle", "call", "deleter", "code", "system", "offset",
                             "message", "copy", "thrown", "leave"}]
    BY <1>1 DEF Sound, TypeOK
  <2> QED
    BY <1>1, <1>3, <2>1, <2>2 DEF Sound, TypeOK, CallRecords
<1>5. \A u \in Threads \ {t} : call'[u] = call[u] /\ pc'[u] = pc[u]
  BY <1>1 DEF Sound, TypeOK
<1>6. call'[t].n >= 1 /\ pc'[t] = "call"
  BY <1>1, <1>2 DEF Sound, TypeOK
<1>7. InCall' /\ CodeSoFar'
  BY <1>1, <1>5, <1>6 DEF Sound, InCall, CodeSoFar, Failed, Unread, Building
<1> QED
  BY <1>4, <1>7 DEF Sound

(* A call that fails leaves its own code in the new error. *)
LEMMA CallSound ==
  ASSUME Sound, NEW t \in Threads, NEW k \in Kinds, Call(t, k)
  PROVE  Sound'
<1> DEFINE res == Result(k)
           new == [NoError EXCEPT !.code = res, !.msg = errstr(res)]
<1>1. db' \in DbRecords
  BY RememberType, OwnType DEF Sound, Call, DbRecords
<1>2. res \in Codes /\ errstr(res) \in Texts
  BY ResultType DEF Texts, StaticTexts
<1>3. /\ call' = [call EXCEPT ![t].kind = k, ![t].res = res, ![t].nested = FALSE]
      /\ UNCHANGED <<locking, text, mutex>>
      /\ pc' = [pc EXCEPT ![t] = IF res \in Successes THEN "leave"
                                 ELSE IF k = "collation" THEN "deleter" ELSE "code"]
      /\ err' = IF res \in Successes THEN err ELSE [err EXCEPT ![t] = new]
  BY DEF Call, Goto, LockAfterCall
<1>4. new \in ErrorRecords /\ new.code = res
  BY <1>2 DEF NoError, ErrorRecords, Codes, Successes
<1>5. call' \in [Threads -> CallRecords] /\ call'[t].res = res /\ call'[t].n = call[t].n
  <2> DEFINE made == [call[t] EXCEPT !.kind = k, !.res = res, !.nested = FALSE]
  <2> HIDE DEF res
  <2>1. call \in [Threads -> CallRecords]
    BY DEF Sound, TypeOK, CallRecords
  <2>2. made \in CallRecords
    BY <1>2, <2>1 DEF CallRecords
  <2>3. made.res = res /\ made.n = call[t].n
    BY <2>1 DEF CallRecords
  <2>4. call' = [call EXCEPT ![t] = made]
    BY <1>3
  <2> HIDE DEF made
  <2> QED
    BY <2>1, <2>2, <2>3, <2>4
<1>6. err' \in [Threads -> ErrorRecords]
  <2>1. err \in [Threads -> ErrorRecords]
    BY DEF Sound, TypeOK, ErrorRecords
  <2> HIDE DEF new, res
  <2> QED
    BY <1>3, <1>4, <2>1
<1>7. pc' \in [Threads -> {"idle", "call", "deleter", "code", "system", "offset",
                           "message", "copy", "thrown", "leave"}]
  <2> HIDE DEF res
  <2> QED
    BY <1>3 DEF Sound, TypeOK
<1>8. TypeOK'
  BY <1>1, <1>3, <1>5, <1>6, <1>7 DEF Sound, TypeOK, DbRecords, CallRecords, ErrorRecords
<1>9. \A u \in Threads \ {t} : call'[u] = call[u] /\ pc'[u] = pc[u] /\ err'[u] = err[u]
  <2> HIDE DEF res, new
  <2> QED
    BY <1>3 DEF Sound, TypeOK
<1>10. pc'[t] # "leave" => err'[t].code = res /\ res \notin Successes
  <2> HIDE DEF res, new
  <2> QED
    BY <1>3, <1>4 DEF Sound, TypeOK
<1>11. pc[t] = "call" /\ pc'[t] \in {"leave", "deleter", "code"}
  <2> HIDE DEF res
  <2>1. pc[t] = "call"
    BY DEF Call
  <2> QED
    BY <1>3, <2>1 DEF Sound, TypeOK
<1>12. InCall'
  BY <1>5, <1>9, <1>11 DEF Sound, InCall
<1>13. CodeSoFar'
  <2> HIDE DEF res
  <2> QED
    BY <1>5, <1>9, <1>10, <1>11 DEF Sound, CodeSoFar, Failed, Unread, Building, Successes
<1> QED
  BY <1>8, <1>12, <1>13 DEF Sound

(* A deleter changes the connection and marks the call, nothing else. *)
LEMMA DeleterSound ==
  ASSUME Sound, NEW t \in Threads, NEW k \in DeleterKinds, Deleter(t, k)
  PROVE  Sound'
<1>1. db' \in DbRecords
  <2>1. CASE k = "none"
    BY <2>1 DEF Deleter, Sound, TypeOK, DbRecords
  <2>2. CASE k # "none"
    <3>1. db' = Remember(k, <<t, call[t].n, "deleter">>) /\ pc[t] # "idle"
      BY <2>2 DEF Deleter
    <3> QED
      BY <3>1, RememberType, OwnType DEF Sound, DbRecords
  <2> QED
    BY <2>1, <2>2
<1>2. /\ call' = call \/ call' = [call EXCEPT ![t].nested = TRUE]
      /\ pc[t] = "deleter"
      /\ pc' = [pc EXCEPT ![t] = "code"]
      /\ UNCHANGED <<locking, mutex, err, text>>
  BY DEF Deleter, Goto
<1>3. /\ call' \in [Threads -> CallRecords]
      /\ \A u \in Threads : call'[u].n = call[u].n /\ call'[u].res = call[u].res
  <2>1. CASE call' = call
    BY <2>1 DEF Sound, TypeOK, CallRecords
  <2>2. CASE call' = [call EXCEPT ![t].nested = TRUE]
    <3> DEFINE made == [call[t] EXCEPT !.nested = TRUE]
    <3>1. call \in [Threads -> CallRecords]
      BY DEF Sound, TypeOK, CallRecords
    <3>2. made \in CallRecords
      BY <3>1 DEF CallRecords
    <3>3. made.res = call[t].res /\ made.n = call[t].n
      BY <3>1 DEF CallRecords
    <3>4. call' = [call EXCEPT ![t] = made]
      BY <2>2
    <3> HIDE DEF made
    <3> QED
      BY <3>1, <3>2, <3>3, <3>4
  <2> QED
    BY <1>2, <2>1, <2>2
<1>4. /\ pc' \in [Threads -> {"idle", "call", "deleter", "code", "system", "offset",
                              "message", "copy", "thrown", "leave"}]
      /\ \A u \in Threads \ {t} : pc'[u] = pc[u]
      /\ pc'[t] = "code"
  BY <1>2 DEF Sound, TypeOK
<1>5. TypeOK'
  BY <1>1, <1>2, <1>3, <1>4 DEF Sound, TypeOK, DbRecords, CallRecords
<1>6. InCall' /\ CodeSoFar'
  BY <1>2, <1>3, <1>4 DEF Sound, InCall, CodeSoFar, Failed, Unread, Building
<1> QED
  BY <1>5, <1>6 DEF Sound

(****************************************************************************)
(* The steps that fetch a detail change the error of one thread, in fields  *)
(* other than its code, except for the first.                               *)
(****************************************************************************)
Fetches(t) ==
  /\ err' \in [Threads -> ErrorRecords]
  /\ text' \in [Threads -> Texts]
  /\ \A u \in Threads \ {t} : err'[u].code = err[u].code
  /\ pc[t] \in {"code"} \cup Building
  /\ \E label \in Building \cup {"thrown"} : pc' = [pc EXCEPT ![t] = label]
  /\ err'[t].code # "OK"
  /\ call[t].res = "MISUSE" => err'[t].code = "MISUSE"
  /\ UNCHANGED <<locking, mutex, db, call>>

(* Such a step preserves the types and the code so far. *)
LEMMA FetchesSound ==
  ASSUME Sound, NEW t \in Threads, Fetches(t)
  PROVE  Sound'
<1>1. PICK label \in Building \cup {"thrown"} : pc' = [pc EXCEPT ![t] = label]
  BY DEF Fetches
<1>2. /\ pc' \in [Threads -> {"idle", "call", "deleter", "code", "system", "offset",
                              "message", "copy", "thrown", "leave"}]
      /\ \A u \in Threads \ {t} : pc'[u] = pc[u]
      /\ pc'[t] = label
  BY <1>1 DEF Sound, TypeOK, Building
<1>3. TypeOK'
  BY <1>2 DEF Fetches, Sound, TypeOK, ErrorRecords
<1>4. InCall' /\ CodeSoFar'
  BY <1>2 DEF Fetches, Sound, InCall, CodeSoFar, Failed, Unread, Building
<1> QED
  BY <1>3, <1>4 DEF Sound

(* What is known of the error and of the connection when a detail is read. *)
LEMMA ErrorFacts ==
  ASSUME Sound, NEW t \in Threads, pc[t] \in {"code"} \cup Building
  PROVE  /\ err \in [Threads -> ErrorRecords] /\ text \in [Threads -> Texts]
         /\ db.code \in Codes /\ db.by \in Calls \cup {NoCall}
         /\ db.sys \in Calls \cup {NoCall} /\ error_offset \in Calls \cup {NoCall}
         /\ err[t].code # "OK"
         /\ call[t].res = "MISUSE" => err[t].code = "MISUSE"
<1>1. err \in [Threads -> ErrorRecords] /\ text \in [Threads -> Texts]
  BY DEF Sound, TypeOK, ErrorRecords
<1>2. /\ db.code \in Codes /\ db.by \in Calls \cup {NoCall}
      /\ db.sys \in Calls \cup {NoCall} /\ error_offset \in Calls \cup {NoCall}
  BY DEF Sound, TypeOK, error_offset
<1>3. /\ err[t].code # "OK"
      /\ call[t].res = "MISUSE" => err[t].code = "MISUSE"
  BY DEF Sound, CodeSoFar, Failed, Unread, Building
<1> QED
  BY <1>1, <1>2, <1>3

(* The code is replaced only by one that is no SQLITE_OK and hides no SQLITE_MISUSE. *)
LEMMA ReadCodeFetches ==
  ASSUME Sound, NEW t \in Threads, ReadCode(t)
  PROVE  Fetches(t)
<1>1. pc[t] = "code" /\ UNCHANGED <<locking, mutex, db, call, text>>
  BY DEF ReadCode
<1>2. CASE KeepsResult(call[t].res)
  <2>1. pc' = [pc EXCEPT ![t] = "thrown"] /\ err' = err
    BY <1>2 DEF ReadCode, Goto
  <2> QED
    BY <1>1, <2>1, ErrorFacts DEF Fetches, Building
<1>3. CASE ~KeepsResult(call[t].res)
  <2>1. /\ pc' = [pc EXCEPT ![t] = "system"]
        /\ err' = [err EXCEPT ![t].code = db.code, ![t].by = db.by]
    BY <1>3 DEF ReadCode, Goto
  <2>2. /\ err' \in [Threads -> ErrorRecords]
        /\ err'[t].code = db.code
        /\ \A u \in Threads \ {t} : err'[u].code = err[u].code
    BY <1>1, <2>1, ErrorFacts DEF ErrorRecords
  <2>3. db.code # "OK" /\ (call[t].res = "MISUSE" => db.code = "MISUSE")
    BY <1>3 DEF KeepsResult
  <2> QED
    BY <1>1, <2>1, <2>2, <2>3, ErrorFacts DEF Fetches, Building
<1> QED
  BY <1>2, <1>3

(* The errno is fetched. *)
LEMMA ReadSystemFetches ==
  ASSUME Sound, NEW t \in Threads, ReadSystem(t)
  PROVE  Fetches(t)
<1>1. /\ pc[t] = "system" /\ UNCHANGED <<locking, mutex, db, call, text>>
      /\ pc' = [pc EXCEPT ![t] = "offset"]
      /\ err' = [err EXCEPT ![t].sys = db.sys]
  BY DEF ReadSystem, Goto
<1>2. /\ err' \in [Threads -> ErrorRecords]
      /\ \A u \in Threads : err'[u].code = err[u].code
  BY <1>1, ErrorFacts DEF ErrorRecords, Building
<1> QED
  BY <1>1, <1>2, ErrorFacts DEF Fetches, Building

(* The offset is fetched. *)
LEMMA ReadOffsetFetches ==
  ASSUME Sound, NEW t \in Threads, ReadOffset(t)
  PROVE  Fetches(t)
<1>1. /\ pc[t] = "offset" /\ UNCHANGED <<locking, mutex, db, call, text>>
      /\ pc' = [pc EXCEPT ![t] = "message"]
      /\ err' = [err EXCEPT ![t].offset = error_offset]
  BY DEF ReadOffset, Goto
<1>2. /\ err' \in [Threads -> ErrorRecords]
      /\ \A u \in Threads : err'[u].code = err[u].code
  BY <1>1, ErrorFacts DEF ErrorRecords, Building
<1> QED
  BY <1>1, <1>2, ErrorFacts DEF Fetches, Building

(* The pointer to the message is fetched. *)
LEMMA ReadMessageFetches ==
  ASSUME Sound, NEW t \in Threads, ReadMessage(t)
  PROVE  Fetches(t)
<1>1. /\ pc[t] = "message" /\ UNCHANGED <<locking, mutex, db, call, err>>
      /\ pc' = [pc EXCEPT ![t] = "copy"]
      /\ text' = [text EXCEPT ![t] = errmsg]
  BY DEF ReadMessage, Goto
<1>2. errmsg \in Texts
  BY errmsgType DEF Texts, Sound
<1> QED
  BY <1>1, <1>2, ErrorFacts DEF Fetches, Building

(* The message is copied, or left as it is. *)
LEMMA CopyMessageFetches ==
  ASSUME Sound, NEW t \in Threads, CopyMessage(t)
  PROVE  Fetches(t)
<1>1. /\ pc[t] = "copy" /\ UNCHANGED <<locking, mutex, db, call, text>>
      /\ pc' = [pc EXCEPT ![t] = "thrown"]
  BY DEF CopyMessage, Goto
<1>2. PICK e \in {WithMessage(t), WithoutMessage(t)} : err' = [err EXCEPT ![t] = e]
  BY DEF CopyMessage
<1>3. WithMessage(t) \in ErrorRecords /\ WithMessage(t).code = err[t].code
  BY ZenonT(30), <1>1, ErrorFacts DEF WithMessage, ErrorRecords, Building, Texts
<1>4. WithoutMessage(t) \in ErrorRecords /\ WithoutMessage(t).code = err[t].code
  BY ZenonT(30), <1>1, ErrorFacts DEF WithoutMessage, ErrorRecords, Building, Texts
<1>5. e \in ErrorRecords /\ e.code = err[t].code
  BY <1>2, <1>3, <1>4
<1> QED
  BY <1>1, <1>2, <1>5, ErrorFacts DEF Fetches, Building

(* Leaving the call changes the mutex only. *)
LEMMA LeaveSound ==
  ASSUME Sound, NEW t \in Threads, Leave(t)
  PROVE  Sound'
<1>1. TypeOK'
  BY DEF Sound, TypeOK, Leave, Goto
<1>2. InCall' /\ CodeSoFar'
  BY DEF Sound, TypeOK, InCall, CodeSoFar, Leave, Goto, Failed, Unread, Building
<1> QED
  BY <1>1, <1>2 DEF Sound

(* Every step preserves it. *)
LEMMA NextSound ==
  ASSUME Sound, [Next]_vars
  PROVE  Sound'
<1>1. CASE Next
  BY <1>1, EnterSound, CallSound, DeleterSound, LeaveSound, FetchesSound,
     ReadCodeFetches, ReadSystemFetches, ReadOffsetFetches, ReadMessageFetches,
     CopyMessageFetches DEF Next
<1>2. CASE UNCHANGED vars
  BY <1>2 DEF vars, Sound, TypeOK, InCall, CodeSoFar
<1> QED
  BY <1>1, <1>2

(* What an error holds is well typed and has the right code so far. *)
THEOREM AlwaysSound == Spec => []Sound
<1>1. Init => Sound
  BY InitSound
<1>2. Sound /\ [Next]_vars => Sound'
  BY NextSound
<1> QED
  BY <1>1, <1>2, PTL DEF Spec

(* The variables keep their types. *)
THEOREM ErrorTypeCorrect == Spec => []TypeOK
<1>1. Sound => TypeOK
  BY DEF Sound
<1> QED
  BY <1>1, AlwaysSound, PTL

(* No exception says SQLITE_OK, locked or not. *)
THEOREM ExceptionIsNeverOK == Spec => []NeverOK
<1>1. Sound => NeverOK
  BY DEF Sound, CodeSoFar, NeverOK, Thrown, Failed
<1> QED
  BY <1>1, AlwaysSound, PTL

(* SQLITE_MISUSE is reported as such, locked or not. *)
THEOREM MisuseIsNeverHidden == Spec => []MisuseIsReported
<1>1. Sound => MisuseIsReported
  BY DEF Sound, CodeSoFar, MisuseIsReported, Thrown
<1> QED
  BY <1>1, AlwaysSound, PTL

(****************************************************************************)
(* The two together: whatever the threads do to the error the connection    *)
(* remembers, the code of an exception keeps to the result of its call.     *)
(****************************************************************************)
THEOREM CodeIsRight == Spec => []CodeKeepsToResult
<1>1. NeverOK /\ MisuseIsReported => CodeKeepsToResult
  BY DEF CodeKeepsToResult
<1>. QED
  BY <1>1, ExceptionIsNeverOK, MisuseIsNeverHidden, PTL

-----------------------------------------------------------------------------
(****************************************************************************)
(* With the lock held.  A thread that is in a call has the mutex, so nobody *)
(* else is in one, and what the connection remembers is what the call has   *)
(* left there.  OwnError and MessageOutlivesCall are not inductive: they    *)
(* speak of the exception only, and these invariants of how it comes about. *)
(****************************************************************************)
Held == \A t \in Threads : pc[t] # "idle" => mutex = t

(* From the return of the call to the end of the constructor. *)
Reading == Unread \cup Building

(* The calls OwnError is about, and those of them that leave a message. *)
Plain(t)     == call[t].kind \in Recorded /\ ~call[t].nested
Speaking(t)  == call[t].kind \in {"text", "compile", "step"}

(* The connection still has the details of the call. *)
InDatabase(t) ==
  pc[t] \in Reading /\ Plain(t) =>
    /\ db.code = Result(call[t].kind)
    /\ db.by = Own(t)
    /\ db.msg \in {Own(t), NoCall}
    /\ Speaking(t) => db.msg = Own(t)
    /\ call[t].kind = "compile" => db.offset = Own(t)
    /\ call[t].kind = "io" => db.sys = Own(t)

(* The details that have been fetched are those of the call. *)
InError(t) ==
  /\ pc[t] \in Reading => call[t].res = Result(call[t].kind)
  /\ Plain(t) =>
       /\ pc[t] \in Building \cup {"thrown"} =>
            err[t].code = Result(call[t].kind) /\ err[t].by = Own(t)
       /\ pc[t] \in {"offset", "message", "copy", "thrown"} =>
            (call[t].kind = "io" => err[t].sys = Own(t))
       /\ pc[t] \in {"message", "copy", "thrown"} =>
            (call[t].kind = "compile" => err[t].offset = Own(t))
       /\ pc[t] = "copy" =>
            /\ text[t] \in {Own(t), errstr(err[t].code)}
            /\ Speaking(t) => text[t] = Own(t)
       /\ pc[t] = "thrown" =>
            /\ err[t].msg \in {Own(t), errstr(err[t].code), NoCall}
            /\ Speaking(t) => err[t].msg \in {Own(t), NoCall}

(* A message that is not a copy is static, and a copy is of a text that was  *)
(* there when it was made.                                                  *)
InMessage(t) ==
  /\ ~err[t].copied => err[t].msg \in StaticTexts
  /\ err[t].msg # Freed
  /\ pc[t] \in Reading => ~err[t].copied /\ err[t].msg = errstr(call[t].res)
  /\ pc[t] = "copy" => text[t] \in Calls \cup StaticTexts /\ Readable(text[t])

Traced(t) == InDatabase(t) /\ InError(t) /\ InMessage(t)

Covered == locking => Held /\ \A t \in Threads : Traced(t)

(* A step of one thread leaves the others alone, for they are not in a call. *)
LEMMA OnlyOwn ==
  ASSUME Covered, locking, UNCHANGED locking,
         NEW t \in Threads,
         pc[t] # "idle" \/ mutex = NoThread,
         \A u \in Threads \ {t} : pc'[u] = pc[u] /\ err'[u] = err[u],
         mutex' = t \/ pc'[t] = "idle",
         Traced(t)'
  PROVE  Covered'
<1>1. \A u \in Threads \ {t} : pc[u] = "idle"
  BY ThreadsAssumption DEF Covered, Held
<1>2. \A u \in Threads \ {t} : pc'[u] = "idle"
  BY <1>1
<1>3. Held'
  BY <1>2 DEF Held
<1>4. ASSUME NEW u \in Threads \ {t} PROVE Traced(u)'
  <2>1. pc'[u] = "idle" /\ err'[u] = err[u]
    BY <1>2
  <2>2. (~err[u].copied => err[u].msg \in StaticTexts) /\ err[u].msg # Freed
    BY DEF Covered, Traced, InMessage
  <2>3. InMessage(u)'
    BY <2>1, <2>2 DEF InMessage, Reading, Unread, Building
  <2>4. InDatabase(u)' /\ InError(u)'
    BY <2>1 DEF InDatabase, InError, Reading, Unread, Building
  <2> QED
    BY <2>3, <2>4 DEF Traced
<1> QED
  BY <1>3, <1>4 DEF Covered

(* What is known of a thread that holds the lock. *)
LEMMA HoldsLock ==
  ASSUME Covered, locking, NEW t \in Threads, pc[t] # "idle"
  PROVE  mutex = t /\ InDatabase(t) /\ InError(t) /\ InMessage(t)
  BY DEF Covered, Held, Traced

-----------------------------------------------------------------------------
(* One lemma per action again. *)
LEMMA EnterCovered ==
  ASSUME Sound, Covered, locking, NEW t \in Threads, Enter(t)
  PROVE  Covered'
<1>1. /\ mutex = NoThread /\ mutex' = t
      /\ pc' = [pc EXCEPT ![t] = "call"]
      /\ UNCHANGED <<locking, db, err, text>>
  BY DEF Enter, Goto
<1>2. pc'[t] = "call" /\ \A u \in Threads \ {t} : pc'[u] = pc[u]
  BY <1>1 DEF Sound, TypeOK
<1>3. InMessage(t)'
  BY <1>1, <1>2 DEF Covered, Traced, InMessage, Reading, Unread, Building
<1>4. InDatabase(t)' /\ InError(t)'
  BY <1>2 DEF InDatabase, InError, Reading, Unread, Building
<1> QED
  BY <1>1, <1>2, <1>3, <1>4, OnlyOwn DEF Traced

(* What a call of a kind that is recorded leaves in the connection. *)
LEMMA RememberPlain ==
  ASSUME NEW k \in Recorded, NEW c, Result(k) \notin Successes
  PROVE  /\ Remember(k, c).code = Result(k) /\ Remember(k, c).by = c
         /\ Remember(k, c).msg \in {c, NoCall}
         /\ k \in {"text", "compile", "step"} => Remember(k, c).msg = c
         /\ k = "compile" => Remember(k, c).offset = c
         /\ k = "io" => Remember(k, c).sys = c
  BY DEF Remember, Recorded, AllKinds, Result, Successes

(* The call leaves its details in the connection. *)
LEMMA CallCovered ==
  ASSUME Sound, Covered, locking, NEW t \in Threads, NEW k \in Kinds, Call(t, k)
  PROVE  Covered'
<1> DEFINE res == Result(k)
           new == [NoError EXCEPT !.code = res, !.msg = errstr(res)]
<1>1. /\ pc[t] = "call"
      /\ call' = [call EXCEPT ![t].kind = k, ![t].res = res, ![t].nested = FALSE]
      /\ db' = Remember(k, Own(t))
      /\ UNCHANGED <<locking, text, mutex>>
      /\ pc' = [pc EXCEPT ![t] = IF res \in Successes THEN "leave"
                                 ELSE IF k = "collation" THEN "deleter" ELSE "code"]
      /\ err' = IF res \in Successes THEN err ELSE [err EXCEPT ![t] = new]
  BY DEF Call, Goto, LockAfterCall
<1>2. mutex = t /\ InMessage(t)
  BY <1>1, HoldsLock
<1>3. /\ new.code = res /\ new.msg = errstr(res) /\ ~new.copied
  BY DEF NoError
<1>4. res \in Codes /\ errstr(res) \in StaticTexts /\ errstr(res) # Freed
  BY ResultType, NamesAssumption DEF StaticTexts
<1>5. \A u \in Threads \ {t} : pc'[u] = pc[u] /\ err'[u] = err[u]
  <2> HIDE DEF res, new
  <2> QED
    BY <1>1 DEF Sound, TypeOK
<1>6. call'[t].kind = k /\ call'[t].res = res /\ Own(t)' = Own(t)
  <2> DEFINE made == [call[t] EXCEPT !.kind = k, !.res = res, !.nested = FALSE]
  <2> HIDE DEF res
  <2>1. call \in [Threads -> CallRecords]
    BY DEF Sound, TypeOK, CallRecords
  <2>2. made.kind = k /\ made.res = res /\ made.n = call[t].n
    BY <2>1 DEF CallRecords
  <2>3. call' = [call EXCEPT ![t] = made]
    BY <1>1
  <2> HIDE DEF made
  <2>4. call'[t] = made
    BY <2>1, <2>3
  <2> QED
    BY <2>2, <2>4 DEF Own
<1>7. CASE res \in Successes
  <2>1. pc'[t] = "leave" /\ err'[t] = err[t]
    BY <1>1, <1>7 DEF Sound, TypeOK
  <2>2. InDatabase(t)' /\ InError(t)'
    BY <2>1 DEF InDatabase, InError, Reading, Unread, Building
  <2>3. InMessage(t)'
    BY <1>2, <2>1 DEF InMessage, Reading, Unread, Building
  <2> QED
    BY <1>1, <1>2, <1>5, <2>2, <2>3, OnlyOwn DEF Traced
<1>8. CASE res \notin Successes
  <2>1. pc'[t] \in Unread /\ err'[t] = new
    <3> HIDE DEF res, new
    <3> QED
      BY <1>1, <1>8 DEF Sound, TypeOK, Unread
  <2>2. InDatabase(t)'
    <3>1. SUFFICES ASSUME k \in Recorded
                   PROVE  /\ db'.code = Result(k) /\ db'.by = Own(t)
                          /\ db'.msg \in {Own(t), NoCall}
                          /\ k \in {"text", "compile", "step"} => db'.msg = Own(t)
                          /\ k = "compile" => db'.offset = Own(t)
                          /\ k = "io" => db'.sys = Own(t)
      BY <1>6 DEF InDatabase, Plain, Speaking
    <3> QED
      BY <1>1, <1>8, <3>1, RememberPlain
  <2>3. InError(t)'
    BY <1>6, <2>1 DEF InError, Unread, Building
  <2>4. InMessage(t)'
    BY <1>3, <1>4, <1>6, <2>1 DEF InMessage, Unread
  <2> QED
    BY <1>1, <1>2, <1>5, <2>2, <2>3, <2>4, OnlyOwn DEF Traced
<1> QED
  BY <1>7, <1>8

(* After a deleter has used the connection the call is no longer plain. *)
LEMMA DeleterCovered ==
  ASSUME Sound, Covered, locking, NEW t \in Threads, NEW k \in DeleterKinds, Deleter(t, k)
  PROVE  Covered'
<1>1. /\ pc[t] = "deleter"
      /\ pc' = [pc EXCEPT ![t] = "code"]
      /\ UNCHANGED <<locking, mutex, err, text>>
  BY DEF Deleter, Goto
<1>2. mutex = t /\ InDatabase(t) /\ InError(t) /\ InMessage(t)
  BY <1>1, HoldsLock
<1>3. pc'[t] = "code" /\ \A u \in Threads \ {t} : pc'[u] = pc[u]
  BY <1>1 DEF Sound, TypeOK
<1>4. /\ call'[t].kind = call[t].kind /\ call'[t].res = call[t].res
      /\ \/ db' = db /\ call' = call
         \/ call'[t].nested
  <2>1. CASE k = "none"
    BY <2>1 DEF Deleter
  <2>2. CASE k # "none"
    <3> DEFINE made == [call[t] EXCEPT !.nested = TRUE]
    <3>1. call \in [Threads -> CallRecords]
      BY DEF Sound, TypeOK, CallRecords
    <3>2. made.res = call[t].res /\ made.kind = call[t].kind /\ made.nested
      BY <3>1 DEF CallRecords
    <3>3. call' = [call EXCEPT ![t] = made]
      BY <2>2 DEF Deleter
    <3> HIDE DEF made
    <3>4. call'[t] = made
      BY <3>1, <3>3
    <3> QED
      BY <3>2, <3>4
  <2> QED
    BY <2>1, <2>2
<1>5. InDatabase(t)'
  BY <1>1, <1>2, <1>4 DEF InDatabase, Plain, Speaking, Own, Reading, Unread
<1>6. InError(t)' /\ InMessage(t)'
  BY <1>1, <1>2, <1>3, <1>4 DEF InError, InMessage, Reading, Unread, Building
<1> QED
  BY <1>1, <1>2, <1>3, <1>5, <1>6, OnlyOwn DEF Traced

(* A plain call that has failed is always asked for its details. *)
LEMMA PlainIsRead ==
  ASSUME Sound, NEW t \in Threads, pc[t] = "code",
         InDatabase(t), InError(t), Plain(t)
  PROVE  ~KeepsResult(call[t].res)
<1>1. call[t].res = Result(call[t].kind) /\ call[t].res # "OK"
  BY DEF InError, Reading, Unread, Sound, CodeSoFar, Failed
<1>2. db.code = call[t].res
  BY <1>1 DEF InDatabase, Reading, Unread
<1> QED
  BY <1>1, <1>2 DEF KeepsResult

(****************************************************************************)
(* The steps that fetch a detail write to the error and the text of one     *)
(* thread, which still holds the lock.                                      *)
(****************************************************************************)
Reads(t, from) ==
  /\ pc[t] = from /\ mutex = t
  /\ InDatabase(t) /\ InError(t) /\ InMessage(t)
  /\ \A u \in Threads \ {t} : pc'[u] = pc[u] /\ err'[u] = err[u]
  /\ UNCHANGED <<locking, mutex, db, call>>

(* They need only be shown to keep what is known of that thread's details. *)
LEMMA ReadsCovered ==
  ASSUME Covered, locking, NEW t \in Threads, NEW from, from # "idle", Reads(t, from),
         InError(t)', InMessage(t)',
         pc[t] \in Reading, pc'[t] \in Reading \cup {"thrown"}
  PROVE  Covered'
<1>1. InDatabase(t)'
  BY DEF Reads, InDatabase, Plain, Speaking, Own, Reading, Unread, Building
<1> QED
  BY <1>1, OnlyOwn DEF Reads, Traced

(* The code is taken from the connection, or the call keeps its own. *)
LEMMA ReadCodeCovered ==
  ASSUME Sound, Covered, locking, NEW t \in Threads, ReadCode(t)
  PROVE  Covered'
<1>1. pc[t] = "code" /\ UNCHANGED <<locking, mutex, db, call, text>>
  BY DEF ReadCode
<1>2. mutex = t /\ InDatabase(t) /\ InError(t) /\ InMessage(t)
  BY <1>1, HoldsLock
<1>3. ~err[t].copied /\ err[t].msg = errstr(call[t].res)
      /\ err[t].msg \in StaticTexts /\ err[t].msg # Freed
  BY <1>1, <1>2 DEF InMessage, Reading, Unread
<1>4. CASE KeepsResult(call[t].res)
  <2>1. pc' = [pc EXCEPT ![t] = "thrown"] /\ err' = err
    BY <1>4 DEF ReadCode, Goto
  <2>2. pc'[t] = "thrown" /\ \A u \in Threads \ {t} : pc'[u] = pc[u]
    BY <2>1 DEF Sound, TypeOK
  <2>3. ~Plain(t)
    BY <1>1, <1>2, <1>4, PlainIsRead
  <2>4. InError(t)'
    BY <1>1, <2>2, <2>3 DEF InError, Plain, Reading, Unread, Building
  <2>5. InMessage(t)'
    BY <1>3, <2>1, <2>2 DEF InMessage, Reading, Unread, Building
  <2> QED
    BY <1>1, <1>2, <2>1, <2>2, <2>4, <2>5, ReadsCovered DEF Reads, Reading, Unread
<1>5. CASE ~KeepsResult(call[t].res)
  <2>1. /\ pc' = [pc EXCEPT ![t] = "system"]
        /\ err' = [err EXCEPT ![t].code = db.code, ![t].by = db.by]
    BY <1>5 DEF ReadCode, Goto
  <2>2. pc'[t] = "system" /\ \A u \in Threads \ {t} : pc'[u] = pc[u]
    BY <2>1 DEF Sound, TypeOK
  <2>3. /\ err'[t].code = db.code /\ err'[t].by = db.by
        /\ err'[t].copied = err[t].copied /\ err'[t].msg = err[t].msg
        /\ \A u \in Threads \ {t} : err'[u] = err[u]
    BY <1>1, <2>1, ErrorFacts DEF ErrorRecords
  <2>4. InError(t)'
    <3>1. call'[t].res = Result(call[t].kind) /\ call' = call
      BY <1>1, <1>2 DEF InError, Reading, Unread
    <3>2. Plain(t) => db.code = Result(call[t].kind) /\ db.by = Own(t)
      BY <1>1, <1>2 DEF InDatabase, Reading, Unread
    <3> QED
      BY <2>2, <2>3, <3>1, <3>2 DEF InError, Plain, Own
  <2>5. InMessage(t)'
    BY <1>1, <1>3, <2>2, <2>3 DEF InMessage
  <2> QED
    BY <1>1, <1>2, <2>2, <2>3, <2>4, <2>5, ReadsCovered
    DEF Reads, Reading, Unread, Building
<1> QED
  BY <1>4, <1>5

(* The errno is that of the call. *)
LEMMA ReadSystemCovered ==
  ASSUME Sound, Covered, locking, NEW t \in Threads, ReadSystem(t)
  PROVE  Covered'
<1>1. /\ pc[t] = "system" /\ UNCHANGED <<locking, mutex, db, call, text>>
      /\ pc' = [pc EXCEPT ![t] = "offset"]
      /\ err' = [err EXCEPT ![t].sys = db.sys]
  BY DEF ReadSystem, Goto
<1>2. mutex = t /\ InDatabase(t) /\ InError(t) /\ InMessage(t)
  BY <1>1, HoldsLock
<1>3. pc'[t] = "offset" /\ \A u \in Threads \ {t} : pc'[u] = pc[u]
  BY <1>1 DEF Sound, TypeOK
<1>4. /\ err'[t].code = err[t].code /\ err'[t].by = err[t].by /\ err'[t].sys = db.sys
      /\ err'[t].copied = err[t].copied /\ err'[t].msg = err[t].msg
      /\ \A u \in Threads \ {t} : err'[u] = err[u]
  BY <1>1, ErrorFacts DEF ErrorRecords, Building
<1>5. Plain(t) /\ call[t].kind = "io" => db.sys = Own(t)
  BY <1>1, <1>2 DEF InDatabase, Reading, Building
<1>6. InError(t)'
  BY <1>1, <1>2, <1>3, <1>4, <1>5 DEF InError, Plain, Own, Reading, Building
<1>7. InMessage(t)'
  BY <1>1, <1>2, <1>3, <1>4 DEF InMessage, Reading, Building
<1> QED
  BY <1>1, <1>2, <1>3, <1>4, <1>6, <1>7, ReadsCovered DEF Reads, Reading, Building

(* The offset is that of the call, whose code is no SQLITE_OK. *)
LEMMA ReadOffsetCovered ==
  ASSUME Sound, Covered, locking, NEW t \in Threads, ReadOffset(t)
  PROVE  Covered'
<1>1. /\ pc[t] = "offset" /\ UNCHANGED <<locking, mutex, db, call, text>>
      /\ pc' = [pc EXCEPT ![t] = "message"]
      /\ err' = [err EXCEPT ![t].offset = error_offset]
  BY DEF ReadOffset, Goto
<1>2. mutex = t /\ InDatabase(t) /\ InError(t) /\ InMessage(t)
  BY <1>1, HoldsLock
<1>3. pc'[t] = "message" /\ \A u \in Threads \ {t} : pc'[u] = pc[u]
  BY <1>1 DEF Sound, TypeOK
<1>4. /\ err'[t].code = err[t].code /\ err'[t].by = err[t].by
      /\ err'[t].sys = err[t].sys /\ err'[t].offset = error_offset
      /\ err'[t].copied = err[t].copied /\ err'[t].msg = err[t].msg
      /\ \A u \in Threads \ {t} : err'[u] = err[u]
  BY <1>1, ErrorFacts DEF ErrorRecords, Building
<1>5. Plain(t) /\ call[t].kind = "compile" => error_offset = Own(t)
  <2>1. SUFFICES ASSUME Plain(t), call[t].kind = "compile" PROVE error_offset = Own(t)
    OBVIOUS
  <2>2. db.code = "ERROR" /\ db.offset = Own(t)
    BY <1>1, <1>2, <2>1 DEF InDatabase, Reading, Building, Result
  <2> QED
    BY <2>2 DEF error_offset
<1>6. InError(t)'
  BY <1>1, <1>2, <1>3, <1>4, <1>5 DEF InError, Plain, Own, Reading, Building
<1>7. InMessage(t)'
  BY <1>1, <1>2, <1>3, <1>4 DEF InMessage, Reading, Building
<1> QED
  BY <1>1, <1>2, <1>3, <1>4, <1>6, <1>7, ReadsCovered DEF Reads, Reading, Building

(* The pointer is to the message of the call, or to the text of its code. *)
LEMMA ReadMessageCovered ==
  ASSUME Sound, Covered, locking, NEW t \in Threads, ReadMessage(t)
  PROVE  Covered'
<1>1. /\ pc[t] = "message" /\ UNCHANGED <<locking, mutex, db, call, err>>
      /\ pc' = [pc EXCEPT ![t] = "copy"]
      /\ text' = [text EXCEPT ![t] = errmsg]
  BY DEF ReadMessage, Goto
<1>2. mutex = t /\ InDatabase(t) /\ InError(t) /\ InMessage(t)
  BY <1>1, HoldsLock
<1>3. /\ pc'[t] = "copy" /\ \A u \in Threads \ {t} : pc'[u] = pc[u]
      /\ text'[t] = errmsg
  BY <1>1 DEF Sound, TypeOK
<1>4. ASSUME Plain(t)
      PROVE  /\ errmsg \in {Own(t), errstr(err[t].code)}
             /\ Speaking(t) => errmsg = Own(t)
  <2>1. /\ db.code = Result(call[t].kind)
        /\ db.msg \in {Own(t), NoCall}
        /\ Speaking(t) => db.msg = Own(t)
        /\ err[t].code = Result(call[t].kind)
    BY <1>1, <1>2, <1>4 DEF InDatabase, InError, Reading, Building
  <2>2. Own(t) # NoCall
    BY <1>1, OwnType, NamesAssumption DEF Sound
  <2>3. db.code # "OK"
    BY <1>1, <2>1 DEF Sound, CodeSoFar, Failed, Building
  <2> QED
    BY <2>1, <2>2, <2>3 DEF errmsg
<1>5. errmsg \in Calls \cup StaticTexts /\ Readable(errmsg)
  BY errmsgType, TextsDiffer DEF Sound, errmsg, Readable
<1>6. InError(t)'
  BY <1>1, <1>2, <1>3, <1>4 DEF InError, Plain, Speaking, Own, Reading, Building
<1>7. InMessage(t)'
  BY <1>1, <1>2, <1>3, <1>5 DEF InMessage, Readable, Reading, Building
<1> QED
  BY <1>1, <1>2, <1>3, <1>6, <1>7, ReadsCovered DEF Reads, Reading, Building

(* What is copied is there, and is never the freed message of another call. *)
LEMMA CopyMessageCovered ==
  ASSUME Sound, Covered, locking, NEW t \in Threads, CopyMessage(t)
  PROVE  Covered'
<1>1. /\ pc[t] = "copy" /\ UNCHANGED <<locking, mutex, db, call, text>>
      /\ pc' = [pc EXCEPT ![t] = "thrown"]
  BY DEF CopyMessage, Goto
<1>2. mutex = t /\ InDatabase(t) /\ InError(t) /\ InMessage(t)
  BY <1>1, HoldsLock
<1>3. pc'[t] = "thrown" /\ \A u \in Threads \ {t} : pc'[u] = pc[u]
  BY <1>1 DEF Sound, TypeOK
<1>4. PICK e \in {WithMessage(t), WithoutMessage(t)} : err' = [err EXCEPT ![t] = e]
  BY DEF CopyMessage
<1>5. /\ err[t] \in ErrorRecords /\ err \in [Threads -> ErrorRecords]
      /\ text[t] \in Calls \cup StaticTexts /\ Readable(text[t])
      /\ ~err[t].copied /\ err[t].msg \in StaticTexts /\ err[t].msg # Freed
  BY <1>1, <1>2, ErrorFacts DEF InMessage, Reading, Building
<1>6. /\ e.code = err[t].code /\ e.by = err[t].by /\ e.sys = err[t].sys
      /\ e.offset = err[t].offset
      /\ \/ e.msg = text[t] /\ (e.copied \/ e.msg \in StaticTexts)
         \/ e.msg = NoCall /\ e.copied
  BY <1>4, <1>5 DEF WithMessage, WithoutMessage, ErrorRecords
<1>7. err'[t] = e /\ \A u \in Threads \ {t} : err'[u] = err[u]
  BY <1>4, <1>5
<1>8. InError(t)'
  BY <1>1, <1>2, <1>3, <1>6, <1>7 DEF InError, Plain, Speaking, Own, Reading, Building
<1>9. InMessage(t)'
  <2>1. e.msg # Freed
    BY <1>5, <1>6, NamesAssumption
  <2> QED
    BY <1>3, <1>6, <1>7, <2>1 DEF InMessage, Reading, Unread, Building
<1> QED
  BY <1>1, <1>2, <1>3, <1>7, <1>8, <1>9, ReadsCovered DEF Reads, Reading, Building

(* The lock goes with the call. *)
LEMMA LeaveCovered ==
  ASSUME Sound, Covered, locking, NEW t \in Threads, Leave(t)
  PROVE  Covered'
<1>1. /\ pc[t] # "idle" /\ UNCHANGED <<locking, db, call, err, text>>
      /\ pc' = [pc EXCEPT ![t] = "idle"]
  BY DEF Leave, Goto
<1>2. InMessage(t)
  BY <1>1, HoldsLock
<1>3. pc'[t] = "idle" /\ \A u \in Threads \ {t} : pc'[u] = pc[u]
  BY <1>1 DEF Sound, TypeOK
<1>4. InDatabase(t)' /\ InError(t)' /\ InMessage(t)'
  BY <1>1, <1>2, <1>3 DEF InDatabase, InError, InMessage, Reading, Unread, Building
<1> QED
  BY <1>1, <1>3, <1>4, OnlyOwn DEF Traced

(* Every step preserves it. *)
LEMMA NextCovered ==
  ASSUME Sound, Covered, [Next]_vars
  PROVE  Covered'
<1>1. CASE Next /\ locking
  BY <1>1, EnterCovered, CallCovered, DeleterCovered, ReadCodeCovered, ReadSystemCovered,
     ReadOffsetCovered, ReadMessageCovered, CopyMessageCovered, LeaveCovered DEF Next
<1>2. CASE Next /\ ~locking
  <2>1. locking' = locking
    BY <1>2 DEF Next, Enter, Call, Deleter, ReadCode, ReadSystem, ReadOffset,
                ReadMessage, CopyMessage, Leave
  <2> QED
    BY <1>2, <2>1 DEF Covered
<1>3. CASE UNCHANGED vars
  BY <1>3 DEF vars, Covered, Held, Traced, InDatabase, InError, InMessage, Plain,
              Speaking, Own, Readable
<1> QED
  BY <1>1, <1>2, <1>3

(* Init establishes it. *)
LEMMA InitCovered == Init => Covered
<1> SUFFICES ASSUME Init PROVE Covered
  OBVIOUS
<1>1. errstr("OK") \in StaticTexts
  BY DEF StaticTexts, Codes, Successes
<1>2. \A t \in Threads : pc[t] = "idle" /\ err[t].msg = errstr("OK") /\ ~err[t].copied
  BY DEF Init, NoError
<1>3. \A t \in Threads : InMessage(t)
  BY <1>1, <1>2, NamesAssumption DEF InMessage, Reading, Unread, Building
<1>4. \A t \in Threads : InDatabase(t) /\ InError(t)
  BY <1>2 DEF InDatabase, InError, Reading, Unread, Building
<1> QED
  BY <1>2, <1>3, <1>4 DEF Covered, Held, Traced

(* With the lock held, every detail is traced to its call. *)
THEOREM AlwaysCovered == Spec => []Covered
<1>1. Init => Covered
  BY InitCovered
<1>2. Sound /\ Covered /\ [Next]_vars => Covered'
  BY NextCovered
<1> QED
  BY <1>1, <1>2, AlwaysSound, PTL DEF Spec

(****************************************************************************)
(* With the lock held, an error that SQLite recorded is described by its    *)
(* own code, message, offset and errno.                                     *)
(****************************************************************************)
THEOREM ErrorIsOwn == Spec => []OwnError
<1>1. Covered => OwnError
  BY DEF Covered, Traced, InError, Plain, Speaking, OwnError, Thrown
<1> QED
  BY <1>1, AlwaysCovered, PTL

(****************************************************************************)
(* With the lock held, the message of an exception was read while it was    *)
(* there, and stays readable after the call.                                *)
(****************************************************************************)
THEOREM MessageStaysReadable == Spec => []MessageOutlivesCall
<1>1. Covered => MessageOutlivesCall
  <2>1. \A m \in StaticTexts : Readable(m)
    BY TextsDiffer DEF StaticTexts, Readable
  <2> QED
    BY <2>1 DEF Covered, Traced, InMessage, MessageOutlivesCall
<1> QED
  BY <1>1, AlwaysCovered, PTL
===============================================================================
