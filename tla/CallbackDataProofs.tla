------------------------- MODULE CallbackDataProofs -------------------------
(****************************************************************************)
(* Proofs about CallbackData, for any number of data, slots and statements. *)
(* Every operation ends in Settle, so the lemmas say once what Settle does  *)
(* to the bookkeeping of a datum, and each operation only has to show which *)
(* data it offers and who deletes them.                                     *)
(****************************************************************************)
EXTENDS CallbackData, TLAPS

(* A datum that was not handed over is not held and not deleted. *)
UntouchedUntilGiven ==
  \A d \in Data : d \notin given => destroyed[d] = 0 /\ ~Holds(holder, d)

(* The bookkeeping that every operation preserves. *)
Consistent ==
  /\ TypeOK
  /\ UntouchedUntilGiven
  /\ DestroyedAtMostOnce
  /\ NoDanglingRegistration

(****************************************************************************)
(* The conditions under which a call settles well: it offers data that are  *)
(* new, it keeps nothing but data it held or was offered, and the wrapper   *)
(* deletes only offered data, that SQLite neither keeps nor deletes.        *)
(****************************************************************************)
FairCall(h, offered, seen, wrapper) ==
  /\ h \in [Slot -> Data \cup {None}]
  /\ offered \cap given = {}
  /\ seen \cap Data \subseteq offered
  /\ wrapper \subseteq (offered \cap Data) \ seen
  /\ \A x \in Slot : h[x] \in Data => Holds(holder, h[x]) \/ h[x] \in offered
  /\ \A d \in wrapper : ~Holds(h, d)

(* Settle keeps the types of the variables it changes. *)
LEMMA SettleType ==
  ASSUME TypeOK, NEW h, NEW offered, NEW seen, NEW wrapper,
         FairCall(h, offered, seen, wrapper),
         Settle(h, offered, LetGo(h, seen), wrapper)
  PROVE  /\ holder' \in [Slot -> Data \cup {None}]
         /\ given' \subseteq Data
         /\ destroyed' \in [Data -> Nat]
  BY DEF TypeOK, FairCall, Settle

(* What Settle does to one datum. *)
LEMMA SettleOne ==
  ASSUME Consistent, NEW h, NEW offered, NEW seen, NEW wrapper,
         FairCall(h, offered, seen, wrapper),
         Settle(h, offered, LetGo(h, seen), wrapper),
         NEW d \in Data
  PROVE  /\ d \in LetGo(h, seen) \cup wrapper =>
              destroyed[d] = 0 /\ destroyed'[d] = 1 /\ ~Holds(h, d)
         /\ d \notin LetGo(h, seen) \cup wrapper => destroyed'[d] = destroyed[d]
         /\ Holds(h, d) => destroyed[d] = 0 /\ d \notin LetGo(h, seen) \cup wrapper
<1>1. destroyed'[d] = destroyed[d] + (IF d \in LetGo(h, seen) THEN 1 ELSE 0)
                                   + (IF d \in wrapper THEN 1 ELSE 0)
  BY DEF Settle
<1>2. destroyed[d] \in Nat
  BY DEF Consistent, TypeOK
<1>3. Holds(holder, d) => destroyed[d] = 0
  BY NoneAssumption DEF Consistent, NoDanglingRegistration, Holds
<1>4. d \in offered => destroyed[d] = 0 /\ ~Holds(holder, d)
  BY DEF Consistent, UntouchedUntilGiven, FairCall
<1>5. d \in LetGo(h, seen) => ~Holds(h, d) /\ destroyed[d] = 0
  BY <1>3, <1>4 DEF LetGo, FairCall
<1>6. d \in wrapper => ~Holds(h, d) /\ destroyed[d] = 0 /\ d \notin LetGo(h, seen)
  BY <1>4 DEF LetGo, FairCall
<1>7. Holds(h, d) => destroyed[d] = 0
  BY <1>3, <1>4 DEF Holds, FairCall
<1> QED
  BY <1>1, <1>2, <1>5, <1>6, <1>7

(* Settle preserves the bookkeeping. *)
LEMMA SettleConsistent ==
  ASSUME Consistent, NEW h, NEW offered, NEW seen, NEW wrapper,
         FairCall(h, offered, seen, wrapper),
         Settle(h, offered, LetGo(h, seen), wrapper),
         conn' \in {"open", "zombie", "freed"},
         stmt' \in [Stmts -> StmtStates]
  PROVE  Consistent'
<1>1. holder' = h /\ given' = given \cup (offered \cap Data)
  BY DEF Settle
<1>2. TypeOK'
  BY SettleType DEF TypeOK, Consistent
<1>3. UntouchedUntilGiven'
  <2> SUFFICES ASSUME NEW d \in Data, d \notin given'
               PROVE  destroyed'[d] = 0 /\ ~Holds(h, d)
    BY <1>1 DEF UntouchedUntilGiven, Holds
  <2>1. d \notin given /\ d \notin offered
    BY <1>1
  <2>2. destroyed[d] = 0 /\ ~Holds(holder, d)
    BY <2>1 DEF Consistent, UntouchedUntilGiven
  <2>3. ~Holds(h, d)
    BY <2>1, <2>2 DEF Holds, FairCall
  <2>4. d \notin LetGo(h, seen) \cup wrapper
    BY <2>1, <2>2 DEF LetGo, FairCall
  <2> QED
    BY <2>2, <2>3, <2>4, SettleOne
<1>4. DestroyedAtMostOnce'
  <2> SUFFICES ASSUME NEW d \in Data PROVE destroyed'[d] <= 1
    BY DEF DestroyedAtMostOnce
  <2>1. destroyed[d] <= 1
    BY DEF Consistent, DestroyedAtMostOnce
  <2> QED
    BY <2>1, SettleOne
<1>5. NoDanglingRegistration'
  <2> SUFFICES ASSUME NEW x \in Slot, h[x] # None PROVE destroyed'[h[x]] = 0
    BY <1>1 DEF NoDanglingRegistration
  <2>1. h[x] \in Data /\ Holds(h, h[x])
    BY DEF FairCall, Holds
  <2> QED
    BY <2>1, SettleOne
<1> QED
  BY <1>2, <1>3, <1>4, <1>5 DEF Consistent

(* Settle leaks nothing that it was offered, if SQLite or the wrapper saw it. *)
LEMMA SettleNoLeak ==
  ASSUME Consistent, NothingLeaked, NEW h, NEW offered, NEW seen, NEW wrapper,
         FairCall(h, offered, seen, wrapper),
         Settle(h, offered, LetGo(h, seen), wrapper),
         offered \cap Data \subseteq seen \cup wrapper
  PROVE  NothingLeaked'
<1>1. holder' = h /\ given' = given \cup (offered \cap Data)
  BY DEF Settle
<1> SUFFICES ASSUME NEW d \in given' PROVE destroyed'[d] > 0 \/ Holds(h, d)
  BY <1>1 DEF NothingLeaked, Holds
<1>2. d \in Data
  BY <1>1 DEF Consistent, TypeOK
<1>3. destroyed[d] \in Nat
  BY <1>2 DEF Consistent, TypeOK
<1>4. d \in LetGo(h, seen) \cup wrapper => destroyed'[d] > 0
  BY <1>2, SettleOne
<1>5. d \notin LetGo(h, seen) \cup wrapper => destroyed'[d] = destroyed[d]
  BY <1>2, SettleOne
<1>6. CASE d \in offered
  BY <1>2, <1>4, <1>6 DEF LetGo
<1>7. CASE d \notin offered
  <2>1. d \in given
    BY <1>1, <1>7
  <2>2. destroyed[d] > 0 \/ Holds(holder, d)
    BY <2>1 DEF NothingLeaked
  <2> QED
    BY <1>2, <1>3, <1>4, <1>5, <2>2 DEF LetGo
<1> QED
  BY <1>6, <1>7

-----------------------------------------------------------------------------
(****************************************************************************)
(* Every operation is a fair call.  "seen" is what SQLite was offered: all  *)
(* of it, except what the wrapper deletes itself and, for sizes above       *)
(* INT_MAX, what bind_reference forgets.                                    *)
(****************************************************************************)
FairStep ==
  \E h, offered, seen, wrapper :
    /\ FairCall(h, offered, seen, wrapper)
    /\ Settle(h, offered, LetGo(h, seen), wrapper)
    /\ "huge" \notin BindSizes => offered \cap Data \subseteq seen \cup wrapper

StateTypes == /\ conn' \in {"open", "zombie", "freed"}
              /\ stmt' \in [Stmts -> StmtStates]

(* Filling slots with a datum, or emptying them, keeps the type of the contents. *)
LEMMA PutType ==
  ASSUME TypeOK, NEW S, NEW d \in Data \cup {None}
  PROVE  /\ Put(holder, S, d) \in [Slot -> Data \cup {None}]
         /\ \A x \in Slot : Put(holder, S, d)[x] = IF x \in S THEN d ELSE holder[x]
  BY DEF TypeOK, Put

(* Putting an offered datum, or nothing, somewhere is a fair call. *)
LEMMA PutFair ==
  ASSUME Consistent, NEW S, NEW d \in Data \cup {None}, NEW offered, NEW seen,
         d \in offered \/ d = None,
         offered \cap given = {}, seen \cap Data \subseteq offered
  PROVE  FairCall(Put(holder, S, d), offered, seen, {})
  BY PutType, NoneAssumption DEF FairCall, Consistent, TypeOK, Holds

(* Leaving the slots alone is a fair call, whoever deletes what is offered. *)
LEMMA KeepFair ==
  ASSUME Consistent, NEW offered, NEW seen, NEW wrapper,
         offered \cap given = {}, seen \cap Data \subseteq offered,
         wrapper \subseteq (offered \cap Data) \ seen
  PROVE  FairCall(holder, offered, seen, wrapper)
  BY DEF FairCall, Consistent, TypeOK, UntouchedUntilGiven, Holds

(* None is not a datum, so it was never handed over. *)
LEMMA OfferNew ==
  ASSUME Consistent, NEW d, Offer(d)
  PROVE  /\ {d} \cap given = {}
         /\ d \in Data \cup {None}
  BY NoneAssumption DEF Offer, Consistent, TypeOK

(* create_function and create_window_function are fair calls of their datum. *)
LEMMA CreateFunctionFair ==
  ASSUME Consistent,
         NEW f \in Functions, NEW encs \in EncodingArgs, NEW d,
         NEW oom, CreateFunction(f, encs, d, oom)
  PROVE  FairStep /\ StateTypes
<1> DEFINE Refused(e) == e = oom \/ (Running /\ holder[<<f, e>>] # None)
           done == {e \in encs : \A p \in encs : Rank[p] <= Rank[e] => ~Refused(p)}
           h == Put(holder, {f} \X done, d)
<1>1. Offer(d) /\ Settle(h, {d}, LetGo(h, {d}), {})
  BY DEF CreateFunction
<1>2. FairCall(h, {d}, {d}, {})
  BY <1>1, OfferNew, PutFair
<1>3. FairStep
  BY <1>1, <1>2 DEF FairStep
<1> QED
  BY <1>3 DEF StateTypes, CreateFunction, Consistent, TypeOK

(* create_collation is one too: the wrapper deletes what SQLite refused. *)
LEMMA CreateCollationFair ==
  ASSUME Consistent,
         NEW c \in Collations, NEW e \in Encodings, NEW d,
         NEW oom \in BOOLEAN, CreateCollation(c, e, d, oom)
  PROVE  FairStep /\ StateTypes
<1> DEFINE refused == oom \/ (Running /\ holder[<<c, e>>] # None)
           put == Put(holder, {<<c, e>>}, d)
<1>1. Offer(d) /\ {d} \cap given = {} /\ d \in Data \cup {None}
  BY OfferNew DEF CreateCollation
<1>2. CASE refused
  <2>1. Settle(holder, {d}, LetGo(holder, {}), {d} \cap Data)
    BY <1>2 DEF CreateCollation, CollationDeleter
  <2>2. FairCall(holder, {d}, {}, {d} \cap Data)
    BY <1>1, KeepFair
  <2> QED
    BY <2>1, <2>2 DEF FairStep, StateTypes, CreateCollation, Consistent, TypeOK
<1>3. CASE ~refused
  <2>1. Settle(put, {d}, LetGo(put, {}), {})
    BY <1>3 DEF CreateCollation, CollationDeleter
  <2>2. FairCall(put, {d}, {d}, {})
    BY <1>1, PutFair
  <2>3. CollationSlot \subseteq Slot /\ <<c, e>> \in Slot
    BY DEF CollationSlot, DatabaseSlot, Slot
  <2>4. d \in Data => Holds(put, d)
    BY <2>3, <1>1, PutType DEF Holds, Consistent
  <2>5. LetGo(put, {}) = LetGo(put, {d})
    BY <2>4 DEF LetGo
  <2>6. Settle(put, {d}, LetGo(put, {d}), {})
    BY <2>1, <2>5
  <2> QED
    BY <2>2, <2>6 DEF FairStep, StateTypes, CreateCollation, Consistent, TypeOK
<1> QED
  BY <1>2, <1>3

(* create_module is a fair call of its datum. *)
LEMMA CreateModuleFair ==
  ASSUME Consistent, NEW m \in Modules, NEW d,
         NEW oom \in BOOLEAN, CreateModule(m, d, oom)
  PROVE  FairStep /\ StateTypes
<1> DEFINE h == IF oom THEN holder ELSE Put(holder, {<<m, "module">>}, d)
<1>1. Offer(d) /\ Settle(h, {d}, LetGo(h, {d}), {})
  BY DEF CreateModule
<1>2. FairCall(h, {d}, {d}, {})
  BY <1>1, OfferNew, PutFair, KeepFair
<1>3. FairStep
  BY <1>1, <1>2 DEF FairStep
<1> QED
  BY <1>3 DEF StateTypes, CreateModule, Consistent, TypeOK

(* set_clientdata is a fair call of its datum. *)
LEMMA SetClientDataFair ==
  ASSUME Consistent, NEW k \in Keys, NEW d,
         NEW oom \in BOOLEAN, SetClientData(k, d, oom)
  PROVE  FairStep /\ StateTypes
<1> DEFINE refused == oom /\ d # None /\ holder[<<k, "clientdata">>] = None
           h == IF refused THEN holder ELSE Put(holder, {<<k, "clientdata">>}, d)
<1>1. Offer(d) /\ Settle(h, {d}, LetGo(h, {d}), {})
  BY DEF SetClientData
<1>2. FairCall(h, {d}, {d}, {})
  BY <1>1, OfferNew, PutFair, KeepFair
<1>3. FairStep
  BY <1>1, <1>2 DEF FairStep
<1> QED
  BY <1>3 DEF StateTypes, SetClientData, Consistent, TypeOK

(* deserialize is one too: the buffer is freed by the argument or by SQLite. *)
LEMMA DeserializeFair ==
  ASSUME Consistent, NEW c \in Schemas, NEW d \in Data,
         NEW fits \in BOOLEAN, NEW refused \in BOOLEAN,
         Deserialize(c, d, fits, refused)
  PROVE  FairStep /\ StateTypes
<1> DEFINE h == IF fits /\ ~refused THEN Put(holder, {<<c, "image">>}, d) ELSE holder
           seen == IF fits THEN {d} ELSE {}
<1>1. /\ d \notin given
      /\ Settle(h, {d}, LetGo(h, seen), BufferFreedByArgument(d, fits))
  BY DEF Deserialize
<1>2. FairCall(h, {d}, seen, BufferFreedByArgument(d, fits))
  BY <1>1, PutFair, KeepFair DEF BufferFreedByArgument
<1>3. {d} \cap Data \subseteq seen \cup BufferFreedByArgument(d, fits)
  BY DEF BufferFreedByArgument
<1>4. FairStep
  <2> HIDE DEF h, seen
  <2> QED
    BY <1>1, <1>2, <1>3 DEF FairStep
<1> QED
  BY <1>4 DEF StateTypes, Deserialize, Consistent, TypeOK

(* Emptying slots is a fair call that offers nothing. *)
LEMMA EmptyFair ==
  ASSUME Consistent, NEW S, LET h == Put(holder, S, None) IN Settle(h, {}, LetGo(h, {}), {})
  PROVE  FairStep
<1> DEFINE h == Put(holder, S, None)
<1>1. FairCall(h, {}, {}, {})
  BY PutFair
<1> QED
  BY <1>1 DEF FairStep

(* Disconnecting a table empties one slot. *)
LEMMA DropTableFair ==
  ASSUME Consistent, NEW m \in Modules, DropTable(m)
  PROVE  FairStep /\ StateTypes
  BY EmptyFair DEF DropTable, StateTypes, Consistent, TypeOK

(* ~database empties slots. *)
LEMMA CloseFair ==
  ASSUME Consistent, Close
  PROVE  FairStep /\ StateTypes
  BY EmptyFair DEF Close, StateTypes, Consistent, TypeOK

(* Preparing a statement only spreads data that is held already. *)
LEMMA PrepareFair ==
  ASSUME Consistent, NEW s \in Stmts, NEW used \in {{}} \cup {{m} : m \in Modules},
         Prepare(s, used)
  PROVE  FairStep /\ StateTypes
<1> DEFINE Table(m) == IF holder[<<m, "table">>] # None THEN holder[<<m, "table">>]
                       ELSE holder[<<m, "module">>]
           h == [x \in Slot |->
                   IF x \in used \X {"table"} THEN Table(x[1])
                   ELSE IF x = <<s, "vtab">> /\ used # {}
                        THEN Table(CHOOSE m \in used : TRUE)
                   ELSE holder[x]]
<1>1. Settle(h, {}, LetGo(h, {}), {})
  BY DEF Prepare
<1>2. \A m \in Modules : <<m, "table">> \in Slot /\ <<m, "module">> \in Slot
  BY DEF Slot, DatabaseSlot, ModuleSlot, TableSlot
<1>3. used \subseteq Modules
  OBVIOUS
<1>4. \A m \in Modules : /\ Table(m) \in Data \cup {None}
                         /\ Table(m) \in Data => Holds(holder, Table(m))
  BY <1>2 DEF Consistent, TypeOK, Holds
<1>5. \A x \in Slot : h[x] = holder[x] \/ \E m \in Modules : h[x] = Table(m)
  <2> SUFFICES ASSUME NEW x \in Slot
               PROVE  h[x] = holder[x] \/ \E m \in Modules : h[x] = Table(m)
    OBVIOUS
  <2>1. CASE x \in used \X {"table"}
    <3>1. x[1] \in Modules /\ h[x] = Table(x[1])
      BY <1>3, <2>1
    <3> QED
      BY <3>1
  <2>2. CASE x \notin used \X {"table"} /\ x = <<s, "vtab">> /\ used # {}
    <3>1. (CHOOSE m \in used : TRUE) \in Modules
      BY <1>3, <2>2
    <3>2. h[x] = Table(CHOOSE m \in used : TRUE)
      BY <2>2
    <3> QED
      BY <3>1, <3>2
  <2>3. CASE x \notin used \X {"table"} /\ ~(x = <<s, "vtab">> /\ used # {})
    BY <2>3
  <2> QED
    BY <2>1, <2>2, <2>3
<1>6. FairCall(h, {}, {}, {})
  <2>1. \A x \in Slot : holder[x] \in Data \cup {None}
    BY DEF Consistent, TypeOK
  <2>2. \A x \in Slot : h[x] \in Data \cup {None} /\ (h[x] \in Data => Holds(holder, h[x]))
    <3> HIDE DEF h, Table
    <3> QED
      BY <1>4, <1>5, <2>1 DEF Holds
  <2>3. h \in [Slot -> Data \cup {None}]
    BY <2>2
  <2> HIDE DEF h
  <2> QED
    BY <2>2, <2>3 DEF FairCall
<1>7. FairStep
  <2> HIDE DEF h
  <2> QED
    BY <1>1, <1>6 DEF FairStep
<1> QED
  BY <1>7 DEF StateTypes, StmtStates, Prepare, Consistent, TypeOK

(* A step that leaves slots and data alone is a fair call of nothing. *)
LEMMA QuietFair ==
  ASSUME Consistent, UNCHANGED <<holder, given, destroyed>>
  PROVE  FairStep
<1>1. FairCall(holder, {}, {}, {})
  BY KeepFair
<1>2. LetGo(holder, {}) = {}
  BY DEF LetGo
<1>3. \A d \in Data : destroyed[d] + 0 + 0 = destroyed[d]
  BY DEF Consistent, TypeOK
<1>4. destroyed' = [d \in Data |-> destroyed[d] + 0 + 0]
  BY <1>3 DEF Consistent, TypeOK
<1>5. Settle(holder, {}, LetGo(holder, {}), {})
  BY <1>2, <1>4 DEF Settle
<1> QED
  BY <1>1, <1>5 DEF FairStep

(* step leaves the data alone. *)
LEMMA StepFair ==
  ASSUME Consistent, NEW s \in Stmts, NEW res \in {"run", "halt"}, Step(s, res)
  PROVE  FairStep /\ StateTypes
  BY QuietFair DEF Step, StateTypes, StmtStates, Consistent, TypeOK

(* reset leaves the data alone. *)
LEMMA ResetFair ==
  ASSUME Consistent, NEW s \in Stmts, Reset(s)
  PROVE  FairStep /\ StateTypes
  BY QuietFair DEF Reset, StateTypes, StmtStates, Consistent, TypeOK

(* clear_bindings empties the parameters. *)
LEMMA ClearBindingsFair ==
  ASSUME Consistent, NEW s \in Stmts, ClearBindings(s)
  PROVE  FairStep /\ StateTypes
  BY EmptyFair DEF ClearBindings, StateTypes, Consistent, TypeOK

(* ~statement empties slots, the last one those of the connection too. *)
LEMMA FinalizeFair ==
  ASSUME Consistent, NEW s \in Stmts, Finalize(s)
  PROVE  FairStep /\ StateTypes
  BY EmptyFair DEF Finalize, StateTypes, StmtStates, Consistent, TypeOK

(* SQLite sees the value of a bind, or the wrapper deletes it beforehand. *)
LEMMA BindFair ==
  ASSUME Consistent, NEW s \in Stmts, NEW p \in Params,
         NEW argument \in Data \cup {None}, argument \notin given,
         NEW d, NEW wrapper, NEW tooBig \in BOOLEAN,
         \/ d = argument /\ wrapper = {}
         \/ d = None /\ wrapper = {argument} /\ argument \in Data,
         Bind(s, p, d, tooBig, wrapper, argument)
  PROVE  FairStep /\ StateTypes
<1> DEFINE kept == IF tooBig THEN None ELSE d
           h == IF stmt[s] = "ready" THEN Put(holder, {<<s, p>>}, kept) ELSE holder
<1>1. Settle(h, {argument}, LetGo(h, {d}), wrapper)
  BY DEF Bind
<1>2. {argument} \cap Data \subseteq {d} \cup wrapper
  OBVIOUS
<1>3. CASE d = argument /\ wrapper = {}
  <2>1. FairCall(h, {argument}, {d}, wrapper)
    BY <1>3, PutFair, KeepFair
  <2> HIDE DEF h
  <2> QED
    BY <1>1, <1>2, <2>1 DEF FairStep, Bind, StateTypes, Consistent, TypeOK
<1>4. CASE d = None /\ wrapper = {argument} /\ argument \in Data
  <2>1. FairCall(h, {argument}, {d}, {})
    <3>1. {argument} \cap given = {} /\ {d} \cap Data \subseteq {argument}
      BY <1>4, NoneAssumption
    <3>2. FairCall(holder, {argument}, {d}, {})
      BY <3>1, KeepFair
    <3>3. FairCall(Put(holder, {<<s, p>>}, None), {argument}, {d}, {})
      BY <3>1, PutFair
    <3>4. kept = None
      BY <1>4
    <3> QED
      BY <3>2, <3>3, <3>4
  <2>2. ~Holds(holder, argument)
    BY <1>4 DEF Consistent, UntouchedUntilGiven
  <2>3. ~Holds(h, argument)
    BY <1>4, <2>2, NoneAssumption, PutType DEF Holds, Consistent
  <2>4. FairCall(h, {argument}, {d}, wrapper)
    <3> HIDE DEF h
    <3> QED
      BY <1>4, <2>1, <2>3, NoneAssumption DEF FairCall
  <2> HIDE DEF h
  <2> QED
    BY <1>1, <1>2, <2>4 DEF FairStep, Bind, StateTypes, Consistent, TypeOK
<1> QED
  BY <1>3, <1>4

(* Binding a pointer is a fair call of it. *)
LEMMA BindPointerFair ==
  ASSUME Consistent, NEW s \in Stmts, NEW p \in Params, NEW d \in Data,
         BindPointer(s, p, d)
  PROVE  FairStep /\ StateTypes
  BY BindFair DEF BindPointer

(* Binding any other value is a fair call of nothing. *)
LEMMA BindValueFair ==
  ASSUME Consistent, NEW s \in Stmts, NEW p \in Params, BindValue(s, p)
  PROVE  FairStep /\ StateTypes
<1>1. None \notin given
  BY NoneAssumption DEF Consistent, TypeOK
<1>2. Bind(s, p, None, FALSE, {}, None)
  BY DEF BindValue
<1> QED
  BY <1>1, <1>2, BindFair

(* carray_bind that fails early deletes its array. *)
LEMMA CArrayBindFailsFair ==
  ASSUME Consistent, NEW s \in Stmts, NEW d \in Data, CArrayBindFails(s, d)
  PROVE  FairStep /\ StateTypes
<1>1. FairCall(holder, {d}, {d}, {})
  BY KeepFair DEF CArrayBindFails
<1> QED
  BY <1>1 DEF FairStep, CArrayBindFails, StateTypes, Consistent, TypeOK

(* bind_reference is a fair call; SQLite sees the value unless it is huge. *)
LEMMA BindReferenceFair ==
  ASSUME Consistent, NEW s \in Stmts, NEW p \in Params, NEW d \in Data,
         NEW size \in BindSizes, BindReference(s, p, d, size)
  PROVE  FairStep /\ StateTypes
<1>1. d \notin given
  BY DEF BindReference
<1>2. CASE size \in {"fits", "toobig"}
  <2>1. Bind(s, p, d, size = "toobig", {}, d)
    BY <1>2 DEF BindReference
  <2> QED
    BY <1>1, <2>1, BindFair
<1>3. CASE size = "null"
  <2>1. Bind(s, p, None, FALSE, {d}, d)
    BY <1>3 DEF BindReference, UnrefOnNull
  <2> QED
    BY <1>1, <2>1, BindFair
<1>4. CASE size = "huge"
  <2>1. Settle(holder, {d}, {}, {}) /\ UNCHANGED <<conn, stmt>>
    BY <1>4 DEF BindReference, UnrefOnHuge
  <2>2. FairCall(holder, {d}, {}, {})
    BY <1>1, KeepFair
  <2>3. LetGo(holder, {}) = {}
    BY DEF LetGo
  <2>4. Settle(holder, {d}, LetGo(holder, {}), {})
    BY <2>1, <2>3
  <2>5. FairStep
    BY <1>4, <2>2, <2>4 DEF FairStep
  <2> QED
    BY <2>1, <2>5 DEF StateTypes, Consistent, TypeOK
<1> QED
  BY <1>2, <1>3, <1>4 DEF BindReference

(* Nothing happens. *)
LEMMA StutterFair ==
  ASSUME Consistent, UNCHANGED vars
  PROVE  FairStep /\ StateTypes
  BY QuietFair DEF vars, StateTypes, Consistent, TypeOK

(* Every step is a fair call. *)
LEMMA NextFair ==
  ASSUME Consistent, [Next]_vars
  PROVE  FairStep /\ StateTypes
<1>1. CASE DatabaseNext
  BY <1>1, CreateFunctionFair, CreateCollationFair, CreateModuleFair,
     SetClientDataFair, DeserializeFair, DropTableFair, CloseFair DEF DatabaseNext
<1>2. CASE StatementNext
  BY <1>2, PrepareFair, StepFair, ResetFair, ClearBindingsFair, BindValueFair,
     BindPointerFair, BindReferenceFair, CArrayBindFailsFair, FinalizeFair
     DEF StatementNext
<1>3. CASE UNCHANGED vars
  BY <1>3, StutterFair
<1> QED
  BY <1>1, <1>2, <1>3 DEF Next

-----------------------------------------------------------------------------
(* Init establishes the bookkeeping. *)
LEMMA InitConsistent == Init => Consistent /\ NothingLeaked
  BY NoneAssumption DEF Init, Consistent, TypeOK, StmtStates, UntouchedUntilGiven, Holds,
     DestroyedAtMostOnce, NoDanglingRegistration, NothingLeaked

(* Every step preserves the bookkeeping. *)
LEMMA NextConsistent ==
  ASSUME Consistent, [Next]_vars
  PROVE  Consistent'
  BY NextFair, SettleConsistent DEF FairStep, StateTypes

(* No step leaks a datum, if nothing huge is bound. *)
LEMMA NextNoLeak ==
  ASSUME Consistent, NothingLeaked, "huge" \notin BindSizes, [Next]_vars
  PROVE  NothingLeaked'
  BY NextFair, SettleNoLeak DEF FairStep

(* The bookkeeping of every datum is right in every reachable state. *)
THEOREM AlwaysConsistent == Spec => []Consistent
<1>1. Init => Consistent
  BY InitConsistent
<1>2. Consistent /\ [Next]_vars => Consistent'
  BY NextConsistent
<1> QED
  BY <1>1, <1>2, PTL DEF Spec

(* The variables keep their types. *)
THEOREM TypeCorrect == Spec => []TypeOK
<1>1. Consistent => TypeOK
  BY DEF Consistent
<1> QED
  BY <1>1, AlwaysConsistent, PTL

(* No deleter runs twice, whichever of SQLite and the wrapper calls it. *)
THEOREM NeverDestroyedTwice == Spec => []DestroyedAtMostOnce
<1>1. Consistent => DestroyedAtMostOnce
  BY DEF Consistent
<1> QED
  BY <1>1, AlwaysConsistent, PTL

(* SQLite never keeps a datum whose deleter has run. *)
THEOREM NeverDangling == Spec => []NoDanglingRegistration
<1>1. Consistent => NoDanglingRegistration
  BY DEF Consistent
<1> QED
  BY <1>1, AlwaysConsistent, PTL

(****************************************************************************)
(* A datum that was handed over is held or was deleted, in every program    *)
(* that binds no text or blob of more than INT_MAX bytes by reference.      *)
(****************************************************************************)
THEOREM NeverLeaked ==
  ASSUME "huge" \notin BindSizes
  PROVE  Spec => []NothingLeaked
<1>1. Init => Consistent /\ NothingLeaked
  BY InitConsistent
<1>2. Consistent /\ NothingLeaked /\ [Next]_vars => (Consistent /\ NothingLeaked)'
  BY NextConsistent, NextNoLeak
<1> QED
  BY <1>1, <1>2, PTL DEF Spec

(****************************************************************************)
(* The three together: in such a program no datum is deleted twice, kept    *)
(* after its deletion, or lost.                                             *)
(****************************************************************************)
THEOREM DataAccounted ==
  ASSUME "huge" \notin BindSizes
  PROVE  Spec => []EachDatumAccounted
<1>1. DestroyedAtMostOnce /\ NoDanglingRegistration /\ NothingLeaked => EachDatumAccounted
  BY DEF EachDatumAccounted
<1> QED
  BY <1>1, NeverDestroyedTwice, NeverDangling, NeverLeaked, PTL

-----------------------------------------------------------------------------
(****************************************************************************)
(* Where data can be: a statement that does not exist has no parameters, a  *)
(* closed connection has no client data, a freed one has nothing.           *)
(****************************************************************************)
NoStatementNoValues ==
  \A s \in Stmts : stmt[s] = "none" =>
    \A i \in Params \cup {"vtab"} : holder[<<s, i>>] = None

ClosedHasNoClientData == conn # "open" => \A x \in KeySlot : holder[x] = None

Placed == /\ TypeOK
          /\ NoStatementNoValues
          /\ ClosedHasNoClientData
          /\ FreedHoldsNothing

(* The slots of the connection and of the statements are told apart. *)
LEMMA SlotFacts ==
  /\ \A s \in Stmts, i \in Params \cup {"vtab"} : <<s, i>> \in StatementSlot
  /\ \A x \in StatementSlot : \E s \in Stmts, i \in Params \cup {"vtab"} : x = <<s, i>>
  /\ \A x \in DatabaseSlot \cup KeySlot, s \in Stmts : x[1] # s
  /\ \A x \in DatabaseSlot : x \notin KeySlot
  /\ StatementSlot \subseteq Slot /\ DatabaseSlot \subseteq Slot /\ KeySlot \subseteq Slot
<1>1. \A s \in Stmts, i \in Params \cup {"vtab"} : <<s, i>> \in StatementSlot
  BY DEF StatementSlot, ParamSlot, CursorSlot
<1>2. \A x \in StatementSlot : \E s \in Stmts, i \in Params \cup {"vtab"} : x = <<s, i>>
  BY DEF StatementSlot, ParamSlot, CursorSlot
<1>3. \A x \in DatabaseSlot \cup KeySlot :
        x[1] \in Functions \cup Collations \cup Modules \cup Keys \cup Schemas
  BY DEF DatabaseSlot, FunctionSlot, CollationSlot, ModuleSlot, TableSlot, KeySlot, ImageSlot
<1>4. \A x \in DatabaseSlot : x \notin KeySlot
  BY DEF DatabaseSlot, FunctionSlot, CollationSlot, ModuleSlot, TableSlot, KeySlot,
         ImageSlot, Encodings
<1> QED
  BY <1>1, <1>2, <1>3, <1>4, NamesAssumption DEF Slot

(* A call on an open connection leaves the statements' slots alone. *)
LEMMA DatabaseNextPlaced ==
  ASSUME Placed, TypeOK', DatabaseNext, ~Close
  PROVE  Placed'
<1>1. /\ conn = "open" /\ conn' = "open" /\ stmt' = stmt
      /\ \A x \in StatementSlot : holder'[x] = holder[x]
  <2>1. \A S, d : /\ S \cap StatementSlot = {}
                  => \A x \in StatementSlot : Put(holder, S, d)[x] = holder[x]
    BY SlotFacts DEF Put
  <2>2. ASSUME NEW n, NEW T, n \in Functions \cup Collations \cup Modules \cup Keys \cup Schemas
        PROVE  ({n} \X T) \cap StatementSlot = {}
    BY <2>2, SlotFacts, NamesAssumption
  <2>3. ASSUME NEW f \in Functions, NEW encs \in EncodingArgs, NEW d, NEW oom,
               CreateFunction(f, encs, d, oom)
        PROVE  \A x \in StatementSlot : holder'[x] = holder[x]
    BY <2>1, <2>2, <2>3 DEF CreateFunction, Settle
  <2>4. ASSUME NEW c \in Collations, NEW e \in Encodings, NEW d, NEW oom \in BOOLEAN,
               CreateCollation(c, e, d, oom)
        PROVE  \A x \in StatementSlot : holder'[x] = holder[x]
    <3>1. {<<c, e>>} \cap StatementSlot = {}
      BY SlotFacts, NamesAssumption
    <3> QED
      BY <2>1, <2>4, <3>1 DEF CreateCollation, Settle
  <2>5. ASSUME NEW m \in Modules, NEW d, NEW oom \in BOOLEAN, CreateModule(m, d, oom)
        PROVE  \A x \in StatementSlot : holder'[x] = holder[x]
    <3>1. {<<m, "module">>} \cap StatementSlot = {}
      BY SlotFacts, NamesAssumption
    <3> QED
      BY <2>1, <2>5, <3>1 DEF CreateModule, Settle
  <2>6. ASSUME NEW k \in Keys, NEW d, NEW oom \in BOOLEAN, SetClientData(k, d, oom)
        PROVE  \A x \in StatementSlot : holder'[x] = holder[x]
    <3>1. {<<k, "clientdata">>} \cap StatementSlot = {}
      BY SlotFacts, NamesAssumption
    <3> QED
      BY <2>1, <2>6, <3>1 DEF SetClientData, Settle
  <2>7. ASSUME NEW c \in Schemas, NEW d, NEW fits \in BOOLEAN, NEW refused \in BOOLEAN,
               Deserialize(c, d, fits, refused)
        PROVE  \A x \in StatementSlot : holder'[x] = holder[x]
    <3>1. {<<c, "image">>} \cap StatementSlot = {}
      BY SlotFacts, NamesAssumption
    <3> QED
      BY <2>1, <2>7, <3>1 DEF Deserialize, Settle
  <2>8. ASSUME NEW m \in Modules, DropTable(m)
        PROVE  \A x \in StatementSlot : holder'[x] = holder[x]
    <3>1. {<<m, "table">>} \cap StatementSlot = {}
      BY SlotFacts, NamesAssumption
    <3> QED
      BY <2>1, <2>8, <3>1 DEF DropTable, Settle
  <2>9. conn = "open" /\ conn' = "open" /\ stmt' = stmt
    BY DEF DatabaseNext, CreateFunction, CreateCollation, CreateModule, SetClientData,
           Deserialize, DropTable
  <2> QED
    BY <2>3, <2>4, <2>5, <2>6, <2>7, <2>8, <2>9 DEF DatabaseNext
<1>2. NoStatementNoValues'
  BY <1>1, SlotFacts DEF Placed, NoStatementNoValues
<1> QED
  BY <1>1, <1>2 DEF Placed, ClosedHasNoClientData, FreedHoldsNothing

(* ~database preserves the placement. *)
LEMMA ClosePlaced ==
  ASSUME Placed, TypeOK', Close
  PROVE  Placed'
<1> DEFINE gone == KeySlot \cup TableSlot
                     \cup (IF Outstanding(stmt) THEN {} ELSE DatabaseSlot)
<1>1. /\ holder' = Put(holder, gone, None)
      /\ stmt' = stmt
      /\ conn' = IF Outstanding(stmt) THEN "zombie" ELSE "freed"
  BY DEF Close, Settle
<1>2. \A x \in Slot : holder'[x] = IF x \in gone THEN None ELSE holder[x]
  BY <1>1 DEF Put
<1>3. NoStatementNoValues'
  BY <1>1, <1>2, SlotFacts DEF Placed, NoStatementNoValues
<1>4. ClosedHasNoClientData'
  BY <1>2, SlotFacts DEF ClosedHasNoClientData
<1>5. FreedHoldsNothing'
  <2> SUFFICES ASSUME conn' = "freed" PROVE FreedHoldsNothing'
    BY DEF FreedHoldsNothing
  <2>1. \A s \in Stmts : stmt[s] = "none"
    BY <1>1 DEF Outstanding
  <2>2. \A x \in StatementSlot : holder[x] = None
    BY <2>1, SlotFacts DEF Placed, NoStatementNoValues
  <2>3. \A x \in Slot : holder'[x] = None
    BY <1>1, <1>2, <2>2 DEF Slot
  <2> QED
    BY <1>1, <2>1, <2>3 DEF FreedHoldsNothing
<1> QED
  BY <1>3, <1>4, <1>5 DEF Placed

(* A call on a statement that exists touches no other statement's slots. *)
LEMMA StatementPlaced ==
  ASSUME Placed, TypeOK', NEW s \in Stmts, conn' = conn, conn # "freed",
         stmt'[s] # "none",
         \A t \in Stmts \ {s} : stmt'[t] = stmt[t],
         \A t \in Stmts \ {s}, i \in Params \cup {"vtab"} : holder'[<<t, i>>] = holder[<<t, i>>],
         conn = "open" \/ \A x \in KeySlot : holder'[x] = holder[x]
  PROVE  Placed'
  BY DEF Placed, NoStatementNoValues, ClosedHasNoClientData, FreedHoldsNothing

(* Preparing a statement preserves the placement. *)
LEMMA PreparePlaced ==
  ASSUME Placed, TypeOK', NEW s \in Stmts, NEW used \in {{}} \cup {{m} : m \in Modules},
         Prepare(s, used)
  PROVE  Placed'
<1>1. conn = "open" /\ conn' = conn /\ stmt' = [stmt EXCEPT ![s] = "ready"]
  BY DEF Prepare
<1>2. ASSUME NEW t \in Stmts \ {s}, NEW i \in Params \cup {"vtab"}
      PROVE  holder'[<<t, i>>] = holder[<<t, i>>]
  <2>1. <<t, i>> \in Slot /\ <<t, i>> # <<s, "vtab">>
    BY SlotFacts
  <2>2. <<t, i>> \notin used \X {"table"}
    BY NamesAssumption
  <2> QED
    BY <2>1, <2>2 DEF Prepare, Settle
<1> QED
  BY <1>1, <1>2, StatementPlaced DEF Placed, TypeOK

(* Every bind preserves the placement. *)
LEMMA BindPlaced ==
  ASSUME Placed, TypeOK', NEW s \in Stmts, NEW p \in Params,
         NEW d, NEW tooBig, NEW wrapper, NEW argument,
         Bind(s, p, d, tooBig, wrapper, argument)
  PROVE  Placed'
<1>1. stmt[s] # "none" /\ conn' = conn /\ stmt' = stmt
  BY DEF Bind
<1>2. \A x \in Slot : x # <<s, p>> => holder'[x] = holder[x]
  BY DEF Bind, Settle, Put
<1>3. conn # "freed"
  BY <1>1 DEF Placed, FreedHoldsNothing
<1>4. \A t \in Stmts \ {s}, i \in Params \cup {"vtab"} : holder'[<<t, i>>] = holder[<<t, i>>]
  BY <1>2, SlotFacts
<1>5. \A x \in KeySlot : holder'[x] = holder[x]
  BY <1>2, SlotFacts
<1> QED
  BY <1>1, <1>3, <1>4, <1>5, StatementPlaced

(* Emptying the slots of a statement, and starting or resetting it. *)
LEMMA ClearBindingsPlaced ==
  ASSUME Placed, TypeOK', NEW s \in Stmts, ClearBindings(s)
  PROVE  Placed'
<1>1. stmt[s] # "none" /\ conn' = conn /\ stmt' = stmt
  BY DEF ClearBindings
<1>2. \A x \in Slot : holder'[x] = holder[x] \/ holder'[x] = None
  BY DEF ClearBindings, Settle, Put
<1> QED
  BY <1>1, <1>2, SlotFacts
  DEF Placed, NoStatementNoValues, ClosedHasNoClientData, FreedHoldsNothing

(* step and reset preserve the placement. *)
LEMMA QuietPlaced ==
  ASSUME Placed, TypeOK', NEW s \in Stmts, stmt[s] # "none",
         NEW st \in StmtStates \ {"none"},
         stmt' = [stmt EXCEPT ![s] = st], UNCHANGED <<conn, holder>>
  PROVE  Placed'
<1>1. conn # "freed"
  BY DEF Placed, FreedHoldsNothing
<1> QED
  BY <1>1, StatementPlaced DEF Placed, TypeOK

(* ~statement preserves the placement. *)
LEMMA FinalizePlaced ==
  ASSUME Placed, TypeOK', NEW s \in Stmts, Finalize(s)
  PROVE  Placed'
<1> DEFINE st == [stmt EXCEPT ![s] = "none"]
           last == conn = "zombie" /\ ~Outstanding(st)
           gone == ({s} \X (Params \cup {"vtab"}))
                     \cup (IF last THEN DatabaseSlot ELSE {})
<1>1. /\ stmt[s] # "none" /\ stmt' = st
      /\ conn' = (IF last THEN "freed" ELSE conn)
      /\ holder' = Put(holder, gone, None)
  BY DEF Finalize, Settle
<1>2. \A x \in Slot : holder'[x] = IF x \in gone THEN None ELSE holder[x]
  BY <1>1 DEF Put
<1>3. NoStatementNoValues'
  <2> SUFFICES ASSUME NEW t \in Stmts, stmt'[t] = "none", NEW i \in Params \cup {"vtab"}
               PROVE  holder'[<<t, i>>] = None
    BY DEF NoStatementNoValues
  <2>1. CASE t = s
    BY <1>2, <2>1, SlotFacts
  <2>2. CASE t # s
    BY <1>1, <1>2, <2>2, SlotFacts DEF Placed, NoStatementNoValues, TypeOK
  <2> QED
    BY <2>1, <2>2
<1>4. ClosedHasNoClientData'
  BY <1>1, <1>2, SlotFacts DEF Placed, ClosedHasNoClientData
<1>5. FreedHoldsNothing'
  <2> SUFFICES ASSUME conn' = "freed" PROVE FreedHoldsNothing'
    BY DEF FreedHoldsNothing
  <2>1. last
    BY <1>1 DEF Placed, FreedHoldsNothing
  <2>2. \A t \in Stmts : stmt'[t] = "none"
    BY <1>1, <2>1 DEF Outstanding
  <2>3. \A x \in StatementSlot : holder'[x] = None
    BY <1>3, <2>2, SlotFacts DEF NoStatementNoValues
  <2>4. \A x \in KeySlot : holder'[x] = None
    BY <2>1, <1>2, SlotFacts DEF Placed, ClosedHasNoClientData
  <2>5. \A x \in DatabaseSlot : holder'[x] = None
    BY <2>1, <1>2, SlotFacts
  <2> QED
    BY <2>2, <2>3, <2>4, <2>5 DEF FreedHoldsNothing, Slot
<1> QED
  BY <1>3, <1>4, <1>5 DEF Placed

(* Every call on a statement preserves the placement. *)
LEMMA StatementNextPlaced ==
  ASSUME Placed, TypeOK', StatementNext
  PROVE  Placed'
<1> SUFFICES ASSUME NEW s \in Stmts,
               \/ \E used \in {{}} \cup {{m} : m \in Modules} : Prepare(s, used)
               \/ \E res \in {"run", "halt"} : Step(s, res)
               \/ Reset(s)
               \/ ClearBindings(s)
               \/ \E p \in Params :
                    \/ BindValue(s, p)
                    \/ \E d \in Data : \/ BindPointer(s, p, d)
                                       \/ \E size \in BindSizes : BindReference(s, p, d, size)
               \/ \E d \in Data : CArrayBindFails(s, d)
               \/ Finalize(s)
             PROVE  Placed'
  BY DEF StatementNext
<1>1. ASSUME NEW res \in {"run", "halt"}, Step(s, res) PROVE Placed'
  BY <1>1, QuietPlaced DEF Step, StmtStates
<1>2. ASSUME Reset(s) PROVE Placed'
  BY <1>2, QuietPlaced DEF Reset, StmtStates
<1>3. ASSUME stmt[s] # "none", UNCHANGED <<conn, stmt, holder>> PROVE Placed'
  BY <1>3 DEF Placed, NoStatementNoValues, ClosedHasNoClientData, FreedHoldsNothing
<1>4. ASSUME NEW p \in Params, NEW d \in Data, NEW size \in BindSizes,
             BindReference(s, p, d, size)
      PROVE Placed'
  <2>1. CASE \E v, big, w : Bind(s, p, v, big, w, d)
    BY <2>1, BindPlaced
  <2>2. CASE size = "huge"
    BY <1>3, <1>4, <2>2 DEF BindReference, Settle
  <2> QED
    BY <1>4, <2>1, <2>2 DEF BindReference
<1>5. ASSUME NEW d \in Data, CArrayBindFails(s, d) PROVE Placed'
  BY <1>3, <1>5 DEF CArrayBindFails, Settle
<1> QED
  BY <1>1, <1>2, <1>4, <1>5, PreparePlaced, ClearBindingsPlaced, BindPlaced,
     FinalizePlaced DEF BindValue, BindPointer

(* Every step preserves the placement. *)
LEMMA NextPlaced ==
  ASSUME Placed, TypeOK', [Next]_vars
  PROVE  Placed'
<1>1. CASE UNCHANGED vars
  BY <1>1 DEF vars, Placed, NoStatementNoValues, ClosedHasNoClientData, FreedHoldsNothing, TypeOK
<1> QED
  BY <1>1, DatabaseNextPlaced, ClosePlaced, StatementNextPlaced DEF Next

(* Init establishes the placement. *)
LEMMA InitPlaced == Init => Placed
  BY SlotFacts, InitConsistent
  DEF Init, Placed, Consistent, NoStatementNoValues, ClosedHasNoClientData, FreedHoldsNothing

(****************************************************************************)
(* When the last of the connection and its statements is gone, SQLite holds *)
(* nothing: with NeverLeaked, every datum handed over has been deleted.     *)
(****************************************************************************)
THEOREM FreedIsEmpty == Spec => []FreedHoldsNothing
<1>1. Init => Consistent /\ Placed
  BY InitConsistent, InitPlaced
<1>2. Consistent /\ Placed /\ [Next]_vars => (Consistent /\ Placed)'
  <2> SUFFICES ASSUME Consistent, Placed, [Next]_vars PROVE Consistent' /\ Placed'
    OBVIOUS
  <2>1. Consistent'
    BY NextConsistent
  <2>2. TypeOK'
    BY <2>1 DEF Consistent
  <2> QED
    BY <2>1, <2>2, NextPlaced
<1>3. Placed => FreedHoldsNothing
  BY DEF Placed
<1> QED
  BY <1>1, <1>2, <1>3, PTL DEF Spec

-----------------------------------------------------------------------------
(* The slots SQLite will not change while a statement is running. *)
CallbackSlot == FunctionSlot \cup CollationSlot

(* The slots of functions and collations are no other slots. *)
LEMMA CallbackSlotFacts ==
  /\ CallbackSlot \subseteq DatabaseSlot /\ CallbackSlot \subseteq Slot
  /\ \A m : <<m, "module">> \notin CallbackSlot /\ <<m, "table">> \notin CallbackSlot
           /\ <<m, "clientdata">> \notin CallbackSlot /\ <<m, "image">> \notin CallbackSlot
  /\ KeySlot \cap CallbackSlot = {} /\ TableSlot \cap CallbackSlot = {}
<1>1. CallbackSlot \subseteq DatabaseSlot /\ CallbackSlot \subseteq Slot
  BY DEF CallbackSlot, DatabaseSlot, Slot
<1>2. \A m, t : <<m, t>> \in CallbackSlot => t \in Encodings
  BY DEF CallbackSlot, FunctionSlot, CollationSlot
<1>3. /\ "module" \notin Encodings /\ "table" \notin Encodings
      /\ "clientdata" \notin Encodings /\ "image" \notin Encodings
  BY DEF Encodings
<1> QED
  BY <1>1, <1>2, <1>3 DEF KeySlot, TableSlot

(* A call made while a statement keeps running keeps those slots. *)
LEMMA CallbackSlotsKept ==
  ASSUME Placed, [Next]_vars, NEW r \in Stmts, stmt[r] = "run", stmt'[r] = "run"
  PROVE  \A x \in CallbackSlot : holder[x] # None => holder'[x] = holder[x]
<1>1. Running
  BY DEF Running
<1>2. \A S, d : (\A x \in CallbackSlot : x \in S => holder[x] = None)
              => \A x \in CallbackSlot : holder[x] # None => Put(holder, S, d)[x] = holder[x]
  BY CallbackSlotFacts DEF Put
<1>3. \A S, d : S \cap CallbackSlot = {}
              => \A x \in CallbackSlot : Put(holder, S, d)[x] = holder[x]
  BY CallbackSlotFacts DEF Put
<1>4. ASSUME NEW f \in Functions, NEW encs \in EncodingArgs, NEW d, NEW oom,
             CreateFunction(f, encs, d, oom)
      PROVE  \A x \in CallbackSlot : holder[x] # None => holder'[x] = holder[x]
  <2> DEFINE Refused(e) == e = oom \/ (Running /\ holder[<<f, e>>] # None)
             done == {e \in encs : \A p \in encs : Rank[p] <= Rank[e] => ~Refused(p)}
  <2>1. holder' = Put(holder, {f} \X done, d)
    BY <1>4 DEF CreateFunction, Settle
  <2>2. \A e \in encs : Rank[e] <= Rank[e]
    BY DEF EncodingArgs, Encodings, Rank
  <2>3. \A e \in done : ~Refused(e)
    BY <2>2
  <2>4. \A e \in done : holder[<<f, e>>] = None
    BY <1>1, <2>3
  <2>5. \A x \in CallbackSlot : x \in {f} \X done => holder[x] = None
    <3> HIDE DEF done
    <3> QED
      BY <2>4
  <2> QED
    BY <1>2, <2>1, <2>5
<1>5. ASSUME NEW c \in Collations, NEW e \in Encodings, NEW d, NEW oom \in BOOLEAN,
             CreateCollation(c, e, d, oom)
      PROVE  \A x \in CallbackSlot : holder[x] # None => holder'[x] = holder[x]
  BY <1>1, <1>2, <1>5 DEF CreateCollation, Settle
<1>6. ASSUME \/ \E d \in MaybeData, m \in Modules, oom \in BOOLEAN : CreateModule(m, d, oom)
             \/ \E d \in MaybeData, k \in Keys, oom \in BOOLEAN : SetClientData(k, d, oom)
             \/ \E c \in Schemas, d \in Data, fits, refused \in BOOLEAN :
                  Deserialize(c, d, fits, refused)
             \/ \E m \in Modules : DropTable(m)
             \/ Close
      PROVE  \A x \in CallbackSlot : holder'[x] = holder[x]
  <2>1. ASSUME NEW m \in Modules, NEW d, NEW oom \in BOOLEAN, CreateModule(m, d, oom)
        PROVE  \A x \in CallbackSlot : holder'[x] = holder[x]
    BY ZenonT(30), <1>3, <2>1, CallbackSlotFacts DEF CreateModule, Settle
  <2>2. ASSUME NEW k \in Keys, NEW d, NEW oom \in BOOLEAN, SetClientData(k, d, oom)
        PROVE  \A x \in CallbackSlot : holder'[x] = holder[x]
    BY ZenonT(30), <1>3, <2>2, CallbackSlotFacts DEF SetClientData, Settle
  <2>3. ASSUME NEW c \in Schemas, NEW d, NEW fits \in BOOLEAN, NEW refused \in BOOLEAN,
               Deserialize(c, d, fits, refused)
        PROVE  \A x \in CallbackSlot : holder'[x] = holder[x]
    <3>1. holder' = Put(holder, {<<c, "image">>}, d) \/ holder' = holder
      BY <2>3 DEF Deserialize, Settle
    <3>2. {<<c, "image">>} \cap CallbackSlot = {}
      BY CallbackSlotFacts
    <3> QED
      BY <1>3, <3>1, <3>2
  <2>4. ASSUME NEW m \in Modules, DropTable(m)
        PROVE  \A x \in CallbackSlot : holder'[x] = holder[x]
    <3>1. holder' = Put(holder, {<<m, "table">>}, None)
      BY <2>4 DEF DropTable, Settle
    <3>2. {<<m, "table">>} \cap CallbackSlot = {}
      BY CallbackSlotFacts
    <3> QED
      BY <1>3, <3>1, <3>2
  <2>5. ASSUME Close
        PROVE  \A x \in CallbackSlot : holder'[x] = holder[x]
    <3>1. Outstanding(stmt)
      BY DEF Outstanding
    <3>2. holder' = Put(holder, KeySlot \cup TableSlot \cup {}, None)
      BY <2>5, <3>1 DEF Close, Settle
    <3> QED
      BY <1>3, <3>2, CallbackSlotFacts
  <2> QED
    BY <1>6, <2>1, <2>2, <2>3, <2>4, <2>5
<1>7. \A x \in CallbackSlot, s \in Stmts : x[1] # s
  BY CallbackSlotFacts, SlotFacts
<1>8. ASSUME NEW s \in Stmts, NEW p \in Params, NEW d, NEW big, NEW w, NEW a,
             Bind(s, p, d, big, w, a)
      PROVE  \A x \in CallbackSlot : holder'[x] = holder[x]
  <2>1. <<s, p>> \notin CallbackSlot
    BY <1>7
  <2> QED
    BY <1>3, <1>8, <2>1 DEF Bind, Settle
<1>9. ASSUME NEW s \in Stmts, Finalize(s)
      PROVE  \A x \in CallbackSlot : holder'[x] = holder[x]
  <2>1. r # s
    BY <1>9 DEF Finalize, Placed, TypeOK
  <2>2. Outstanding([stmt EXCEPT ![s] = "none"])
    BY <2>1 DEF Outstanding, Placed, TypeOK
  <2>3. holder' = Put(holder, ({s} \X (Params \cup {"vtab"})) \cup {}, None)
    BY <1>9, <2>2 DEF Finalize, Settle
  <2>4. (({s} \X (Params \cup {"vtab"})) \cup {}) \cap CallbackSlot = {}
    BY <1>7
  <2> QED
    BY <1>3, <2>3, <2>4
<1>10. ASSUME NEW s \in Stmts, NEW used \in {{}} \cup {{m} : m \in Modules}, Prepare(s, used)
       PROVE  \A x \in CallbackSlot : holder'[x] = holder[x]
  <2> SUFFICES ASSUME NEW x \in CallbackSlot PROVE holder'[x] = holder[x]
    OBVIOUS
  <2>1. x \in Slot /\ x # <<s, "vtab">> /\ x \notin used \X {"table"}
    BY <1>7, CallbackSlotFacts DEF TableSlot
  <2> QED
    BY <1>10, <2>1 DEF Prepare, Settle
<1>11. ASSUME NEW s \in Stmts, ClearBindings(s)
       PROVE  \A x \in CallbackSlot : holder'[x] = holder[x]
  <2>1. ({s} \X Params) \cap CallbackSlot = {}
    BY <1>7
  <2> QED
    BY <1>3, <1>11, <2>1 DEF ClearBindings, Settle
<1>12. ASSUME holder' = holder
       PROVE  \A x \in CallbackSlot : holder'[x] = holder[x]
  BY <1>12
<1>13. ASSUME StatementNext
       PROVE  \A x \in CallbackSlot : holder'[x] = holder[x]
  <2>1. ASSUME NEW s \in Stmts, NEW p \in Params, NEW d \in Data, NEW size \in BindSizes,
               BindReference(s, p, d, size)
        PROVE  \A x \in CallbackSlot : holder'[x] = holder[x]
    <3>1. holder' = holder \/ \E v, big, w, a : Bind(s, p, v, big, w, a)
      BY <2>1 DEF BindReference, Settle
    <3> QED
      BY <3>1, <1>8, <1>12
  <2>2. ASSUME NEW s \in Stmts, NEW d \in Data, CArrayBindFails(s, d)
        PROVE  holder' = holder
    BY <2>2 DEF CArrayBindFails, Settle
  <2>3. ASSUME NEW s \in Stmts, Reset(s) \/ \E res : Step(s, res)
        PROVE  holder' = holder
    BY <2>3 DEF Reset, Step
  <2> QED
    BY <1>13, <2>1, <2>2, <2>3, <1>8, <1>9, <1>10, <1>11, <1>12
    DEF StatementNext, BindValue, BindPointer
<1>14. CASE DatabaseNext
  <2>1. CASE \E d \in MaybeData, f \in Functions, encs \in EncodingArgs,
                oom \in Encodings \cup {None} : CreateFunction(f, encs, d, oom)
    BY <2>1, <1>4
  <2>2. CASE \E d \in MaybeData, c \in Collations, e \in Encodings, oom \in BOOLEAN :
                CreateCollation(c, e, d, oom)
    BY <2>2, <1>5
  <2>3. CASE \/ \E d \in MaybeData, m \in Modules, oom \in BOOLEAN : CreateModule(m, d, oom)
             \/ \E d \in MaybeData, k \in Keys, oom \in BOOLEAN : SetClientData(k, d, oom)
             \/ \E c \in Schemas, d \in Data, fits, refused \in BOOLEAN :
                  Deserialize(c, d, fits, refused)
             \/ \E m \in Modules : DropTable(m)
             \/ Close
    BY <2>3, <1>6
  <2> QED
    BY <1>14, <2>1, <2>2, <2>3 DEF DatabaseNext
<1> QED
  BY <1>12, <1>13, <1>14 DEF Next, vars

(****************************************************************************)
(* No step deletes the data of a function or a collation that a statement   *)
(* which keeps running may be calling.                                      *)
(****************************************************************************)
THEOREM RunningStatementsAreSafe == Spec => RunningKeepsCallbacks
<1>1. Init => Consistent /\ Placed
  BY InitConsistent, InitPlaced
<1>2. Consistent /\ Placed /\ [Next]_vars => (Consistent /\ Placed)'
  <2> SUFFICES ASSUME Consistent, Placed, [Next]_vars PROVE Consistent' /\ Placed'
    OBVIOUS
  <2>1. Consistent'
    BY NextConsistent
  <2> QED
    BY <2>1, NextPlaced DEF Consistent
<1>3. ASSUME Consistent, Placed, [Next]_vars
      PROVE  (\E s \in Stmts : stmt[s] = "run" /\ stmt'[s] = "run")
                => \A d \in Data : HeldIn(FunctionSlot \cup CollationSlot, d)
                                     => destroyed'[d] = destroyed[d]
  <2> SUFFICES ASSUME NEW r \in Stmts, stmt[r] = "run", stmt'[r] = "run",
                      NEW d \in Data, NEW x \in CallbackSlot, holder[x] = d
               PROVE  destroyed'[d] = destroyed[d]
    BY DEF HeldIn, CallbackSlot
  <2>1. d # None
    BY NoneAssumption
  <2>2. holder'[x] = d
    BY <1>3, <2>1, CallbackSlotsKept
  <2>3. PICK h, offered, seen, wrapper :
          /\ FairCall(h, offered, seen, wrapper)
          /\ Settle(h, offered, LetGo(h, seen), wrapper)
    BY <1>3, NextFair DEF FairStep
  <2>4. Holds(h, d)
    BY <2>2, <2>3, CallbackSlotFacts DEF Settle, Holds
  <2> QED
    BY <1>3, <2>3, <2>4, SettleOne
<1> DEFINE Safe == (\E s \in Stmts : stmt[s] = "run" /\ stmt'[s] = "run")
                      => \A d \in Data : HeldIn(FunctionSlot \cup CollationSlot, d)
                                           => destroyed'[d] = destroyed[d]
<1>4. Consistent /\ Placed /\ [Next]_vars => [Safe]_vars
  BY <1>3
<1>5. Spec => [][Safe]_vars
  <2> HIDE DEF Safe
  <2> QED
    BY <1>1, <1>2, <1>4, PTL DEF Spec
<1> QED
  BY <1>5 DEF RunningKeepsCallbacks

-----------------------------------------------------------------------------
(* Under the refinement mapping, a fair call is a transfer. *)
LEMMA FairStepTransfers ==
  ASSUME Consistent, NothingLeaked, "huge" \notin BindSizes, [Next]_vars
  PROVE  Abstract!Next
<1>1. PICK h, offered, seen, wrapper :
        /\ FairCall(h, offered, seen, wrapper)
        /\ Settle(h, offered, LetGo(h, seen), wrapper)
        /\ offered \cap Data \subseteq seen \cup wrapper
  BY NextFair DEF FairStep
<1> DEFINE taken == offered \cap Data
           dropped == LetGo(h, seen) \cup wrapper
<1>2. taken \in SUBSET Data /\ dropped \in SUBSET Data
  BY <1>1 DEF LetGo, FairCall
<1>3. holder' = h /\ given' = given \cup taken
  BY <1>1 DEF Settle
<1>4. \A d \in taken : owner[d] = "caller"
  BY <1>1 DEF owner, FairCall, Consistent, UntouchedUntilGiven
<1>5. \A d \in dropped : owner[d] = "library" \/ d \in taken
  BY <1>1 DEF owner, LetGo, FairCall
<1>6. ASSUME NEW d \in Data
      PROVE  /\ owner'[d] = IF d \in dropped THEN "nobody"
                            ELSE IF d \in taken THEN "library" ELSE owner[d]
             /\ destroyed'[d] = IF d \in dropped THEN destroyed[d] + 1 ELSE destroyed[d]
  <2>1. /\ d \in dropped => destroyed[d] = 0 /\ destroyed'[d] = 1 /\ ~Holds(h, d)
        /\ d \notin dropped => destroyed'[d] = destroyed[d]
        /\ Holds(h, d) => destroyed[d] = 0 /\ d \notin dropped
    BY <1>1, SettleOne
  <2>2. owner'[d] = IF Holds(h, d) THEN "library"
                    ELSE IF destroyed'[d] > 0 THEN "nobody"
                    ELSE IF d \in given' THEN "lost" ELSE "caller"
    BY <1>3 DEF owner, Holds
  <2>3. owner[d] = IF Holds(holder, d) THEN "library"
                   ELSE IF destroyed[d] > 0 THEN "nobody"
                   ELSE IF d \in given THEN "lost" ELSE "caller"
    BY DEF owner
  <2>4. CASE d \in dropped
    BY <2>1, <2>2, <2>4
  <2>5. CASE d \notin dropped /\ d \in taken
    <3>1. Holds(h, d)
      BY <1>1, <2>5 DEF LetGo
    <3> QED
      BY <2>1, <2>2, <2>5, <3>1
  <2>6. CASE d \notin dropped /\ d \notin taken
    <3>1. Holds(h, d) <=> Holds(holder, d)
      BY <1>1, <2>6 DEF LetGo, FairCall, Holds
    <3>2. destroyed'[d] = destroyed[d] /\ (d \in given' <=> d \in given)
      BY <1>3, <2>1, <2>6
    <3> QED
      BY <2>2, <2>3, <2>6, <3>1, <3>2
  <2> QED
    BY <2>4, <2>5, <2>6
<1>7. owner' = [d \in Data |-> IF d \in dropped THEN "nobody"
                              ELSE IF d \in taken THEN "library" ELSE owner[d]]
  <2>1. owner' = [d \in Data |-> owner'[d]]
    BY DEF owner
  <2> HIDE DEF dropped, taken
  <2> QED
    BY <1>6, <2>1
<1>8. destroyed' = [d \in Data |-> IF d \in dropped THEN destroyed[d] + 1 ELSE destroyed[d]]
  <2>1. destroyed' = [d \in Data |-> destroyed'[d]]
    BY <1>1 DEF Settle
  <2> HIDE DEF dropped, taken
  <2> QED
    BY <1>6, <2>1
<1>9. Abstract!Transfer(taken, dropped)
  <2> HIDE DEF dropped, taken
  <2> QED
    BY <1>4, <1>5, <1>7, <1>8 DEF Abstract!Transfer
<1> QED
  BY <1>2, <1>9 DEF Abstract!Next

(****************************************************************************)
(* The calls of database and statement implement the ownership protocol.    *)
(****************************************************************************)
THEOREM OwnershipRefined ==
  ASSUME "huge" \notin BindSizes
  PROVE  Spec => ImplementsOwnership
<1>1. Init => Abstract!Init
  <2> SUFFICES ASSUME Init PROVE Abstract!Init
    OBVIOUS
  <2>1. \A d \in Data : ~Holds(holder, d) /\ d \notin given /\ destroyed[d] = 0
    BY NoneAssumption DEF Init, Holds
  <2>2. \A d \in Data : owner[d] = "caller"
    BY <2>1 DEF owner
  <2>3. owner = [d \in Data |-> "caller"]
    BY <2>2 DEF owner
  <2> QED
    BY <2>3 DEF Abstract!Init, Init
<1>2. Consistent /\ NothingLeaked /\ [Next]_vars => [Abstract!Next]_<<owner, destroyed>>
  BY FairStepTransfers
<1> QED
  BY <1>1, <1>2, AlwaysConsistent, NeverLeaked, PTL
  DEF Spec, ImplementsOwnership, Abstract!Spec
===============================================================================
