------------------------ MODULE VtabLifecycleProofs ------------------------
(****************************************************************************)
(* Proofs about VtabLifecycle, for any number of connections to the table,  *)
(* of statements and of exceptions.  The objects and the texts are proved   *)
(* about one after the other: no operation looks at a text to decide what   *)
(* happens to an object.                                                    *)
(****************************************************************************)
EXTENDS VtabLifecycle, TLAPS

(****************************************************************************)
(* Objects                                                                  *)
(****************************************************************************)
ObjectsTyped ==
  /\ open \in BOOLEAN /\ declared \in BOOLEAN /\ saved \in BOOLEAN /\ changed \in BOOLEAN
  /\ current \in VTabs \cup {None}
  /\ ending \in {"no", "commit", "rollback"}
  /\ pVtab \in [VTabs -> {"unused", "live", "gone"}]
  /\ refs \in [VTabs -> SUBSET Holders]
  /\ objects \in [VTabs -> 0..1]
  /\ on \in [Stmts -> VTabs \cup {None}]
  /\ st \in [Stmts -> {"none", "ready", "reading", "writing"}]
  /\ cursors \in [Stmts -> 0..1]

(* There is an object as long as there is a pointer to it. *)
ObjectIsLive == \A v \in VTabs : objects[v] = IF pVtab[v] = "live" THEN 1 ELSE 0

(* Somebody refers to a live table, and nobody to one not made yet. *)
LiveIsHeld == \A v \in VTabs : /\ pVtab[v] = "live" => refs[v] # {}
                               /\ pVtab[v] = "unused" => refs[v] = {}

(* References are counted right: the schema's and those of the statements. *)
RefsCounted == \A v \in VTabs : /\ "schema" \in refs[v] <=> current = v
                                /\ \A s \in Stmts : s \in refs[v] <=> on[s] = v

(* The table of the schema is live, and a closed connection has none. *)
SchemaIsLive == /\ current # None => open /\ declared /\ pVtab[current] = "live"
                /\ ~changed => declared = saved
                /\ ~open /\ Idle => Joined = {}

(* Open cursors belong to running statements of live tables. *)
CursorsAreLive ==
  \A s \in Stmts :
    /\ st[s] = "none" <=> on[s] = None
    /\ cursors[s] = 1 => st[s] \in {"reading", "writing"} /\ pVtab[on[s]] = "live"

ObjectsConsistent ==
  /\ ObjectsTyped
  /\ ObjectIsLive /\ LiveIsHeld /\ RefsCounted
  /\ SchemaIsLive /\ CursorsAreLive

(****************************************************************************)
(* Texts                                                                    *)
(****************************************************************************)
(* What is reported was thrown. *)
ReportsThrown ==
  \A s \in Stmts : /\ report[s].by # None => thrown[report[s].by].by # None
                   /\ report[s].msg # None => thrown[report[s].msg].by # None

(* No two table objects share a text. *)
OneTable == \A v, w \in VTabs : zErrMsg[v] = zErrMsg[w] /\ zErrMsg[v] # None => v = w

NotThrownNotFreed ==
  \A x \in Exceptions : thrown[x].by = None => frees[x] = 0 /\ thrown[x].text = "none"

(* Who owns the texts.  Only those that were not heard of stay in zErrMsg. *)
TextsOwned ==
  /\ zErrMsg \in [VTabs -> Exceptions \cup {None}]
  /\ thrown \in [Exceptions -> [by: Hearing \cup {None}, text: Texts]]
  /\ frees \in [Exceptions -> Nat]
  /\ \A v \in VTabs : zErrMsg[v] # None => thrown[zErrMsg[v]].by = "unheard"
  /\ OneTable /\ NotThrownNotFreed /\ TextsFreedOnce /\ LostOnlyIfUnheard

(* What SQLite says of them, and which texts it has copied. *)
ReportsTrue ==
  /\ vmsg \in [Stmts -> Exceptions \cup {None}]
  /\ report \in [Stmts -> [by: Exceptions \cup {None}, msg: Exceptions \cup {None}]]
  /\ \A s \in Stmts : vmsg[s] # None => thrown[vmsg[s]].by = "unheard"
  /\ ReportsThrown /\ OwnReport

TextsConsistent == TextsOwned /\ ReportsTrue

-----------------------------------------------------------------------------
(****************************************************************************)
(* The objects.                                                             *)
(****************************************************************************)
(* What Unlock does to the table objects when the references become r. *)
LEMMA UnlockFacts ==
  ASSUME ObjectsConsistent, NEW r \in [VTabs -> SUBSET Holders], Unlock(r)
  PROVE  /\ refs' = r
         /\ pVtab' \in [VTabs -> {"unused", "live", "gone"}]
         /\ objects' \in [VTabs -> 0..1]
         /\ ObjectIsLive'
         /\ \A v \in VTabs : /\ pVtab'[v] = "live" <=> pVtab[v] = "live" /\ r[v] # {}
                             /\ pVtab'[v] = "unused" <=> pVtab[v] = "unused"
<1> DEFINE unused == {v \in VTabs : pVtab[v] = "live" /\ r[v] = {}}
<1>1. /\ refs' = r
      /\ pVtab' = [v \in VTabs |-> IF v \in unused THEN "gone" ELSE pVtab[v]]
      /\ objects' = [v \in VTabs |-> IF v \in unused THEN objects[v] - 1 ELSE objects[v]]
  BY DEF Unlock, disconnect_impl
<1>2. pVtab' \in [VTabs -> {"unused", "live", "gone"}]
  BY <1>1 DEF ObjectsConsistent, ObjectsTyped
<1>3. \A v \in VTabs : v \in unused => objects[v] = 1
  BY DEF ObjectsConsistent, ObjectIsLive
<1>4. objects' \in [VTabs -> 0..1]
  BY <1>1, <1>3 DEF ObjectsConsistent, ObjectsTyped
<1>5. \A v \in VTabs : /\ pVtab'[v] = "live" <=> pVtab[v] = "live" /\ r[v] # {}
                       /\ pVtab'[v] = "unused" <=> pVtab[v] = "unused"
  BY <1>1
<1>6. ObjectIsLive'
  BY <1>1, <1>3 DEF ObjectsConsistent, ObjectIsLive
<1> QED
  BY <1>1, <1>2, <1>4, <1>5, <1>6

(* References that go away. *)
LEMMA WithoutFacts ==
  ASSUME ObjectsConsistent, NEW v \in VTabs, NEW h
  PROVE  /\ Without(v, h) \in [VTabs -> SUBSET Holders]
         /\ \A w \in VTabs : Without(v, h)[w] = IF w = v THEN refs[w] \ {h} ELSE refs[w]
  BY DEF Without, ObjectsConsistent, ObjectsTyped

(* CREATE VIRTUAL TABLE makes one object, that of the schema. *)
LEMMA CreateObjects ==
  ASSUME ObjectsConsistent, NEW s \in Stmts, NEW v \in VTabs,
         Create(s, v) \/ Connect(s, v)
  PROVE  ObjectsConsistent'
<1>1. /\ current = None /\ open /\ Idle /\ ending' = ending
      /\ UNCHANGED <<on, st, cursors, open, saved>>
  BY DEF Create, Connect, OneShot, stmts, schema, Connected, ObjectsConsistent, SchemaIsLive
<1>2. CASE UNCHANGED <<schema, tables>>
  BY <1>1, <1>2
  DEF schema, tables, ObjectsConsistent, ObjectsTyped, ObjectIsLive, LiveIsHeld, RefsCounted,
      SchemaIsLive, CursorsAreLive, Joined, Idle
<1>3. CASE Undeclared(s, v) /\ UNCHANGED schema
  <2>1. /\ pVtab[v] = "unused" /\ refs' = refs
        /\ pVtab' = [pVtab EXCEPT ![v] = "gone"]
        /\ objects' = [objects EXCEPT ![v] = @ + 1 - 1]
    BY <1>3 DEF Undeclared, disconnect_impl
  <2>2. objects[v] = 0 /\ objects \in [VTabs -> 0..1] /\ pVtab \in [VTabs -> {"unused", "live", "gone"}]
    BY <2>1 DEF ObjectsConsistent, ObjectsTyped, ObjectIsLive
  <2>3. /\ objects' = objects
        /\ \A w \in VTabs : pVtab'[w] = IF w = v THEN "gone" ELSE pVtab[w]
        /\ pVtab' \in [VTabs -> {"unused", "live", "gone"}]
    BY <2>1, <2>2
  <2>4. UNCHANGED <<declared, changed, current>>
    BY <1>3 DEF schema
  <2>5. ObjectsTyped' /\ ObjectIsLive' /\ LiveIsHeld' /\ RefsCounted'
    BY <1>1, <2>1, <2>2, <2>3, <2>4
    DEF ObjectsConsistent, ObjectsTyped, ObjectIsLive, LiveIsHeld, RefsCounted
  <2>6. SchemaIsLive' /\ CursorsAreLive'
    BY <1>1, <2>1, <2>3, <2>4
    DEF ObjectsConsistent, ObjectsTyped, SchemaIsLive, CursorsAreLive, Joined, Idle
  <2> QED
    BY <2>5, <2>6 DEF ObjectsConsistent
<1>4. ASSUME NEW holders \in {{"schema"}, {"schema", "transaction"}}, Connected(v, holders),
             declared' = TRUE, changed' = TRUE \/ (changed' = changed /\ declared = TRUE)
      PROVE  ObjectsConsistent'
  <2>1. /\ pVtab[v] = "unused" /\ current' = v
        /\ pVtab' = [pVtab EXCEPT ![v] = "live"]
        /\ objects' = [objects EXCEPT ![v] = @ + 1]
        /\ refs' = [refs EXCEPT ![v] = holders]
    BY <1>4 DEF Connected
  <2>2. /\ objects[v] = 0 /\ objects \in [VTabs -> 0..1] /\ refs[v] = {}
        /\ pVtab \in [VTabs -> {"unused", "live", "gone"}] /\ refs \in [VTabs -> SUBSET Holders]
    BY <2>1 DEF ObjectsConsistent, ObjectsTyped, ObjectIsLive, LiveIsHeld
  <2>3. /\ \A w \in VTabs : /\ pVtab'[w] = IF w = v THEN "live" ELSE pVtab[w]
                            /\ refs'[w] = IF w = v THEN holders ELSE refs[w]
                            /\ objects'[w] = IF w = v THEN 1 ELSE objects[w]
        /\ pVtab' \in [VTabs -> {"unused", "live", "gone"}]
        /\ refs' \in [VTabs -> SUBSET Holders]
        /\ objects' \in [VTabs -> 0..1]
    BY <2>1, <2>2 DEF Holders
  <2>4. ObjectsTyped'
    BY <1>1, <1>4, <2>1, <2>3 DEF ObjectsConsistent, ObjectsTyped
  <2>5. ObjectIsLive' /\ LiveIsHeld'
    BY <2>3 DEF ObjectsConsistent, ObjectIsLive, LiveIsHeld
  <2>6. RefsCounted'
    <3>1. \A t \in Stmts : t \notin holders /\ on[t] # v
      BY <2>2, StmtsAssumption DEF ObjectsConsistent, RefsCounted
    <3> QED
      BY <1>1, <2>1, <2>3, <3>1, NoneAssumption DEF ObjectsConsistent, RefsCounted
  <2>7. SchemaIsLive'
    <3>1. current' # None => open' /\ declared' /\ pVtab'[current'] = "live"
      BY <1>1, <1>4, <2>1, <2>3
    <3>2. ~changed' => declared' = saved'
      <4>1. CASE changed' = TRUE
        BY <4>1
      <4>2. CASE changed' = changed /\ declared = TRUE
        BY <1>1, <1>4, <4>2 DEF ObjectsConsistent, SchemaIsLive
      <4> QED
        BY <1>4, <4>1, <4>2
    <3>3. open'
      BY <1>1
    <3> QED
      BY <3>1, <3>2, <3>3 DEF SchemaIsLive
  <2>8. CursorsAreLive'
    BY <1>1, <2>1, <2>3 DEF ObjectsConsistent, ObjectsTyped, CursorsAreLive
  <2> QED
    BY <2>4, <2>5, <2>6, <2>7, <2>8 DEF ObjectsConsistent
<1>5. CASE Create(s, v)
  <2>1. CASE Connected(v, {"schema", "transaction"}) /\ declared' = TRUE /\ changed' = TRUE
    BY <1>4, <2>1
  <2> QED
    BY <1>2, <1>3, <1>5, <2>1 DEF Create
<1>6. CASE Connect(s, v)
  <2>1. CASE Connected(v, {"schema"}) /\ declared' = declared /\ changed' = changed
    <3>1. declared = TRUE
      BY <1>6 DEF Connect, ObjectsConsistent, ObjectsTyped
    <3> QED
      BY <1>4, <2>1, <3>1
  <2> QED
    BY <1>2, <1>3, <1>6, <2>1 DEF Connect
<1> QED
  BY <1>5, <1>6

(* A reference goes, and with it the object if it was the last one. *)
LEMMA LetGo ==
  ASSUME ObjectsConsistent, NEW v \in VTabs, NEW h, Unlock(Without(v, h))
  PROVE  /\ refs' \in [VTabs -> SUBSET Holders]
         /\ pVtab' \in [VTabs -> {"unused", "live", "gone"}]
         /\ objects' \in [VTabs -> 0..1]
         /\ ObjectIsLive' /\ LiveIsHeld'
         /\ \A w \in VTabs : refs'[w] = IF w = v THEN refs[w] \ {h} ELSE refs[w]
         /\ \A w \in VTabs : pVtab[w] = "live" /\ refs'[w] # {} => pVtab'[w] = "live"
<1>1. /\ Without(v, h) \in [VTabs -> SUBSET Holders]
      /\ \A w \in VTabs : Without(v, h)[w] = IF w = v THEN refs[w] \ {h} ELSE refs[w]
  BY WithoutFacts
<1>2. /\ refs' = Without(v, h)
      /\ pVtab' \in [VTabs -> {"unused", "live", "gone"}]
      /\ objects' \in [VTabs -> 0..1]
      /\ ObjectIsLive'
      /\ \A w \in VTabs : /\ pVtab'[w] = "live" <=> pVtab[w] = "live" /\ Without(v, h)[w] # {}
                          /\ pVtab'[w] = "unused" <=> pVtab[w] = "unused"
  BY <1>1, UnlockFacts
<1>3. LiveIsHeld'
  BY <1>1, <1>2 DEF ObjectsConsistent, LiveIsHeld
<1> QED
  BY <1>1, <1>2, <1>3

(* The schema lets go of its table. *)
LEMMA SchemaLetsGo ==
  ASSUME ObjectsConsistent, current # None, Unlock(Without(current, "schema")),
         current' = None, UNCHANGED stmts
  PROVE  /\ refs' \in [VTabs -> SUBSET Holders]
         /\ pVtab' \in [VTabs -> {"unused", "live", "gone"}]
         /\ objects' \in [VTabs -> 0..1]
         /\ ObjectIsLive' /\ LiveIsHeld' /\ RefsCounted' /\ CursorsAreLive'
         /\ Joined' \subseteq Joined
<1>1. current \in VTabs
  BY DEF ObjectsConsistent, ObjectsTyped
<1>2. /\ refs' \in [VTabs -> SUBSET Holders]
      /\ pVtab' \in [VTabs -> {"unused", "live", "gone"}]
      /\ objects' \in [VTabs -> 0..1]
      /\ ObjectIsLive' /\ LiveIsHeld'
      /\ \A w \in VTabs : refs'[w] = IF w = current THEN refs[w] \ {"schema"} ELSE refs[w]
      /\ \A w \in VTabs : pVtab[w] = "live" /\ refs'[w] # {} => pVtab'[w] = "live"
  BY <1>1, LetGo
<1>3. UNCHANGED <<on, st, cursors>>
  BY DEF stmts
<1>4. \A t \in Stmts : t # "schema"
  BY StmtsAssumption
<1>5. RefsCounted'
  BY <1>2, <1>3, <1>4, NoneAssumption DEF ObjectsConsistent, RefsCounted
<1>6. CursorsAreLive'
  <2> SUFFICES ASSUME NEW t \in Stmts, cursors[t] = 1
               PROVE  pVtab'[on[t]] = "live"
    BY <1>3 DEF ObjectsConsistent, CursorsAreLive
  <2>1. on[t] \in VTabs /\ pVtab[on[t]] = "live"
    BY DEF ObjectsConsistent, ObjectsTyped, CursorsAreLive
  <2>2. t \in refs'[on[t]]
    BY <1>2, <1>4, <2>1 DEF ObjectsConsistent, RefsCounted
  <2> QED
    BY <1>2, <2>1, <2>2
<1>7. Joined' \subseteq Joined
  BY <1>2 DEF Joined
<1> QED
  BY <1>2, <1>5, <1>6, <1>7

(* Nothing happens to objects and references. *)
LEMMA StatementsOnly ==
  ASSUME ObjectsConsistent, UNCHANGED <<schema, ending, tables, on>>,
         st' \in [Stmts -> {"none", "ready", "reading", "writing"}],
         cursors' \in [Stmts -> 0..1],
         \A t \in Stmts : /\ st'[t] = "none" <=> st[t] = "none"
                          /\ cursors'[t] = 1 => /\ st'[t] \in {"reading", "writing"}
                                                /\ pVtab[on[t]] = "live"
  PROVE  ObjectsConsistent'
<1>1. /\ UNCHANGED <<open, declared, saved, changed, current, ending>>
      /\ UNCHANGED <<pVtab, refs, objects, on>>
  BY DEF schema, tables
<1>2. ObjectsTyped'
  BY <1>1 DEF ObjectsConsistent, ObjectsTyped
<1>3. ObjectIsLive' /\ LiveIsHeld' /\ RefsCounted'
  BY <1>1 DEF ObjectsConsistent, ObjectIsLive, LiveIsHeld, RefsCounted
<1>4. SchemaIsLive'
  BY <1>1 DEF ObjectsConsistent, SchemaIsLive, Joined, Idle
<1>5. CursorsAreLive'
  BY <1>1 DEF ObjectsConsistent, CursorsAreLive
<1> QED
  BY <1>2, <1>3, <1>4, <1>5 DEF ObjectsConsistent

(* The statement is reset. *)
LEMMA HaltObjects ==
  ASSUME ObjectsConsistent, NEW s \in Stmts, Halt(s), st[s] # "none",
         UNCHANGED <<schema, ending, tables>>
  PROVE  ObjectsConsistent'
<1>1. /\ st \in [Stmts -> {"none", "ready", "reading", "writing"}]
      /\ cursors \in [Stmts -> 0..1]
      /\ CursorsAreLive
  BY DEF ObjectsConsistent, ObjectsTyped
<1>2. /\ st' = [st EXCEPT ![s] = "ready"] /\ cursors' = [cursors EXCEPT ![s] = 0] /\ on' = on
  BY DEF Halt
<1>3. /\ st' \in [Stmts -> {"none", "ready", "reading", "writing"}]
      /\ cursors' \in [Stmts -> 0..1]
      /\ \A t \in Stmts : /\ st'[t] = "none" <=> st[t] = "none"
                          /\ cursors'[t] = 1 => /\ st'[t] \in {"reading", "writing"}
                                                /\ pVtab[on[t]] = "live"
  BY <1>1, <1>2 DEF CursorsAreLive
<1> QED
  BY <1>2, <1>3, StatementsOnly

(* Steps that touch neither tables nor statements. *)
LEMMA SameStatements ==
  ASSUME ObjectsConsistent, UNCHANGED <<schema, ending, tables, stmts>>
  PROVE  ObjectsConsistent'
BY StatementsOnly DEF stmts, ObjectsConsistent, ObjectsTyped, CursorsAreLive

(* A running statement, and those that may start, have a table. *)
LEMMA HasTable ==
  ASSUME ObjectsConsistent, NEW s \in Stmts, st[s] # "none"
  PROVE  on[s] \in VTabs
BY DEF ObjectsConsistent, ObjectsTyped, CursorsAreLive

(* A call of a running statement, which may end it. *)
LEMMA CallObjects ==
  ASSUME ObjectsConsistent, NEW s \in Stmts,
         Fetch(s) \/ Update(s) \/ OtherFailure(s) \/ End(s)
  PROVE  ObjectsConsistent'
<1>1. st[s] # "none" /\ UNCHANGED <<schema, ending, tables>>
  BY DEF Fetch, Update, OtherFailure, End, Running
<1>2. UNCHANGED stmts \/ Halt(s)
  BY DEF Fetch, Update, OtherFailure, End
<1> QED
  BY <1>1, <1>2, HaltObjects, SameStatements

(* xOpen makes a cursor of the table that the statement keeps. *)
LEMMA OpenObjects ==
  ASSUME ObjectsConsistent, NEW s \in Stmts, Open(s)
  PROVE  ObjectsConsistent'
<1>1. /\ st[s] \in {"ready", "reading", "writing"} /\ pVtab[on[s]] = "live"
      /\ UNCHANGED <<schema, ending, tables>>
  BY DEF Open, MayStart, Running
<1>2. CASE Halt(s)
  BY <1>1, <1>2, HaltObjects
<1>3. CASE /\ cursors' = [cursors EXCEPT ![s] = 1]
           /\ st' = [st EXCEPT ![s] = IF @ = "ready" THEN "reading" ELSE @]
           /\ UNCHANGED on
  <2>1. /\ st \in [Stmts -> {"none", "ready", "reading", "writing"}]
        /\ cursors \in [Stmts -> 0..1] /\ CursorsAreLive
    BY DEF ObjectsConsistent, ObjectsTyped
  <2>2. /\ st' \in [Stmts -> {"none", "ready", "reading", "writing"}]
        /\ cursors' \in [Stmts -> 0..1]
        /\ \A t \in Stmts : /\ st'[t] = "none" <=> st[t] = "none"
                            /\ cursors'[t] = 1 => /\ st'[t] \in {"reading", "writing"}
                                                  /\ pVtab[on[t]] = "live"
    BY <1>1, <1>3, <2>1 DEF CursorsAreLive
  <2> QED
    BY <1>1, <1>3, <2>2, StatementsOnly
<1> QED
  BY <1>2, <1>3 DEF Open

(* DROP TABLE takes the object away from those who still refer to it; none  *)
(* of them has a cursor.                                                    *)
LEMMA DropObjects ==
  ASSUME ObjectsConsistent, NEW s \in Stmts, Drop(s)
  PROVE  ObjectsConsistent'
<1>1. /\ open /\ Idle /\ current # None /\ ~InUse(current)
      /\ pVtab' = [pVtab EXCEPT ![current] = "gone"]
      /\ objects' = [objects EXCEPT ![current] = @ - 1]
      /\ refs' = Without(current, "schema")
      /\ current' = None /\ declared' = FALSE /\ changed' = TRUE
      /\ open' = open /\ saved' = saved /\ ending' = ending
      /\ UNCHANGED <<on, st, cursors>>
  BY DEF Drop, OneShot, destroy_impl, stmts
<1>2. current \in VTabs /\ pVtab[current] = "live" /\ objects[current] = 1
  BY <1>1 DEF ObjectsConsistent, ObjectsTyped, SchemaIsLive, ObjectIsLive
<1>3. /\ refs' \in [VTabs -> SUBSET Holders]
      /\ \A w \in VTabs : refs'[w] = IF w = current THEN refs[w] \ {"schema"} ELSE refs[w]
  BY <1>1, <1>2, WithoutFacts
<1>4. /\ pVtab' \in [VTabs -> {"unused", "live", "gone"}] /\ objects' \in [VTabs -> 0..1]
      /\ \A w \in VTabs : /\ pVtab'[w] = IF w = current THEN "gone" ELSE pVtab[w]
                          /\ objects'[w] = IF w = current THEN 0 ELSE objects[w]
  BY <1>1, <1>2 DEF ObjectsConsistent, ObjectsTyped
<1>5. ObjectsTyped'
  BY <1>1, <1>3, <1>4 DEF ObjectsConsistent, ObjectsTyped
<1>6. ObjectIsLive' /\ LiveIsHeld'
  BY <1>3, <1>4 DEF ObjectsConsistent, ObjectIsLive, LiveIsHeld
<1>7. RefsCounted'
  <2>1. \A t \in Stmts : t # "schema"
    BY StmtsAssumption
  <2>2. RefsCounted /\ on' = on /\ current' = None
    BY <1>1 DEF ObjectsConsistent
  <2> QED
    BY <1>3, <2>1, <2>2, NoneAssumption DEF RefsCounted
<1>8. SchemaIsLive'
  BY <1>1 DEF SchemaIsLive
<1>9. CursorsAreLive'
  <2> SUFFICES ASSUME NEW t \in Stmts, cursors[t] = 1
               PROVE  pVtab'[on[t]] = "live"
    BY <1>1 DEF ObjectsConsistent, CursorsAreLive
  <2>1. on[t] \in VTabs /\ pVtab[on[t]] = "live"
    BY DEF ObjectsConsistent, ObjectsTyped, CursorsAreLive
  <2>2. on[t] # current
    BY <1>1 DEF InUse
  <2> QED
    BY <1>4, <2>1, <2>2
<1> QED
  BY <1>5, <1>6, <1>7, <1>8, <1>9 DEF ObjectsConsistent

(* A new schema gives up its object unless others keep it. *)
LEMMA ResetSchemaObjects ==
  ASSUME ObjectsConsistent, ResetSchema
  PROVE  ObjectsConsistent'
<1>1. /\ current # None /\ Unlock(Without(current, "schema")) /\ current' = None
      /\ UNCHANGED <<open, declared, saved, changed, ending, stmts>>
  BY DEF ResetSchema
<1>2. /\ refs' \in [VTabs -> SUBSET Holders]
      /\ pVtab' \in [VTabs -> {"unused", "live", "gone"}]
      /\ objects' \in [VTabs -> 0..1]
      /\ ObjectIsLive' /\ LiveIsHeld' /\ RefsCounted' /\ CursorsAreLive'
  BY <1>1, SchemaLetsGo
<1>3. ObjectsTyped'
  BY <1>1, <1>2 DEF ObjectsConsistent, ObjectsTyped, stmts
<1>4. open
  BY <1>1 DEF ObjectsConsistent, SchemaIsLive
<1>5. SchemaIsLive'
  BY <1>1, <1>4 DEF ObjectsConsistent, SchemaIsLive
<1> QED
  BY <1>2, <1>3, <1>5 DEF ObjectsConsistent

(* Closing the connection gives up the object of the schema. *)
LEMMA CloseObjects ==
  ASSUME ObjectsConsistent, Close
  PROVE  ObjectsConsistent'
<1>1. /\ open' = FALSE /\ current' = None /\ ending' = "rollback"
      /\ UNCHANGED <<declared, saved, changed, stmts>>
  BY DEF Close
<1>2. /\ refs' \in [VTabs -> SUBSET Holders]
      /\ pVtab' \in [VTabs -> {"unused", "live", "gone"}]
      /\ objects' \in [VTabs -> 0..1]
      /\ ObjectIsLive' /\ LiveIsHeld' /\ RefsCounted' /\ CursorsAreLive'
  <2>1. CASE current # None
    <3>1. Unlock(Without(current, "schema"))
      BY <2>1 DEF Close
    <3> QED
      BY <1>1, <2>1, <3>1, SchemaLetsGo
  <2>2. CASE current = None
    <3>1. UNCHANGED <<pVtab, refs, objects>> /\ current' = current
      BY <1>1, <2>2 DEF Close, tables
    <3> QED
      BY <1>1, <3>1
      DEF ObjectsConsistent, ObjectsTyped, ObjectIsLive, LiveIsHeld, RefsCounted,
          CursorsAreLive, stmts
  <2> QED
    BY <2>1, <2>2
<1>3. ObjectsTyped'
  BY <1>1, <1>2 DEF ObjectsConsistent, ObjectsTyped, stmts
<1>4. SchemaIsLive'
  BY <1>1 DEF ObjectsConsistent, SchemaIsLive, Idle
<1> QED
  BY <1>2, <1>3, <1>4 DEF ObjectsConsistent

(* A statement is compiled for the object of the schema, connected if need be. *)
LEMMA PrepareObjects ==
  ASSUME ObjectsConsistent, NEW s \in Stmts, Prepare(s)
  PROVE  ObjectsConsistent'
<1>1. /\ open /\ st[s] = "none" /\ current # None
      /\ UNCHANGED <<schema, ending>>
  BY DEF Prepare, OneShot
<1>2. CASE UNCHANGED <<tables, stmts>>
  BY <1>1, <1>2, SameStatements
<1>3. CASE /\ st' = [st EXCEPT ![s] = "ready"]
           /\ on' = [on EXCEPT ![s] = current]
           /\ refs' = [refs EXCEPT ![current] = @ \cup {s}]
           /\ UNCHANGED <<pVtab, objects, cursors>>
  <2>1. /\ UNCHANGED <<open, declared, saved, changed, current, ending>>
    BY <1>1 DEF schema
  <2>2. current \in VTabs /\ pVtab[current] = "live" /\ s \in Holders /\ on[s] = None
    BY <1>1 DEF ObjectsConsistent, ObjectsTyped, SchemaIsLive, CursorsAreLive, Holders
  <2>3. /\ refs' \in [VTabs -> SUBSET Holders]
        /\ \A w \in VTabs : refs'[w] = IF w = current THEN refs[w] \cup {s} ELSE refs[w]
    BY <1>3, <2>2 DEF ObjectsConsistent, ObjectsTyped
  <2>4. /\ on' \in [Stmts -> VTabs \cup {None}]
        /\ st' \in [Stmts -> {"none", "ready", "reading", "writing"}]
        /\ \A t \in Stmts : /\ on'[t] = IF t = s THEN current ELSE on[t]
                            /\ st'[t] = IF t = s THEN "ready" ELSE st[t]
    BY <1>3, <2>2 DEF ObjectsConsistent, ObjectsTyped
  <2>5. ObjectsTyped'
    BY <1>3, <2>1, <2>3, <2>4 DEF ObjectsConsistent, ObjectsTyped
  <2>6. ObjectIsLive' /\ LiveIsHeld'
    BY <1>3, <2>2, <2>3 DEF ObjectsConsistent, ObjectIsLive, LiveIsHeld
  <2>7. RefsCounted'
    <3>1. s # "schema"
      BY StmtsAssumption
    <3> QED
      BY <2>1, <2>2, <2>3, <2>4, <3>1, NoneAssumption DEF ObjectsConsistent, RefsCounted
  <2>8. SchemaIsLive'
    BY <1>1, <1>3, <2>1 DEF ObjectsConsistent, SchemaIsLive
  <2>9. CursorsAreLive'
    BY <1>1, <1>3, <2>2, <2>4, NoneAssumption DEF ObjectsConsistent, CursorsAreLive
  <2> QED
    BY <2>5, <2>6, <2>7, <2>8, <2>9 DEF ObjectsConsistent
<1> QED
  BY <1>2, <1>3 DEF Prepare

(* xBegin makes the transaction keep the object. *)
LEMMA BeginObjects ==
  ASSUME ObjectsConsistent, NEW s \in Stmts, Begin(s)
  PROVE  ObjectsConsistent'
<1> DEFINE v == on[s]
           joined == [refs EXCEPT ![v] = @ \cup {"transaction"}]
<1>1. /\ open /\ st[s] = "ready" /\ v = current
      /\ refs' \in {refs, joined} /\ st' \in {st, [st EXCEPT ![s] = "writing"]}
      /\ UNCHANGED <<schema, ending, pVtab, objects, on, cursors>>
  BY DEF Begin, MayStart
<1>2. v \in VTabs /\ pVtab[v] = "live"
  BY <1>1, HasTable, NoneAssumption DEF ObjectsConsistent, SchemaIsLive
<1>3. UNCHANGED <<open, declared, saved, changed, current>>
  BY <1>1 DEF schema
<1>4. /\ refs' \in [VTabs -> SUBSET Holders]
      /\ \A w \in VTabs : refs[w] \subseteq refs'[w] /\ refs'[w] \subseteq refs[w] \cup {"transaction"}
      /\ \A w \in VTabs : w # v => refs'[w] = refs[w]
  BY <1>1, <1>2 DEF ObjectsConsistent, ObjectsTyped, Holders
<1>5. /\ st' \in [Stmts -> {"none", "ready", "reading", "writing"}]
      /\ \A t \in Stmts : st'[t] = st[t] \/ (t = s /\ st'[t] = "writing")
  BY <1>1 DEF ObjectsConsistent, ObjectsTyped
<1>6. ObjectsTyped'
  BY <1>1, <1>3, <1>4, <1>5 DEF ObjectsConsistent, ObjectsTyped
<1>7. ObjectIsLive' /\ LiveIsHeld'
  BY <1>1, <1>2, <1>4 DEF ObjectsConsistent, ObjectIsLive, LiveIsHeld
<1>8. RefsCounted'
  <2>1. \A t \in Stmts : t # "transaction"
    BY StmtsAssumption
  <2> QED
    BY <1>1, <1>3, <1>4, <2>1 DEF ObjectsConsistent, RefsCounted
<1>9. SchemaIsLive'
  BY <1>1, <1>3 DEF ObjectsConsistent, SchemaIsLive
<1>10. CursorsAreLive'
  BY <1>1, <1>5 DEF ObjectsConsistent, CursorsAreLive
<1> QED
  BY <1>6, <1>7, <1>8, <1>9, <1>10 DEF ObjectsConsistent

(* A finalised statement gives up its object, and its cursor before that. *)
LEMMA FinalizeObjects ==
  ASSUME ObjectsConsistent, NEW s \in Stmts, Finalize(s)
  PROVE  ObjectsConsistent'
<1>1. /\ st[s] # "none" /\ Unlock(Without(on[s], s))
      /\ st' = [st EXCEPT ![s] = "none"]
      /\ on' = [on EXCEPT ![s] = None]
      /\ cursors' = [cursors EXCEPT ![s] = 0]
      /\ UNCHANGED <<schema, ending>>
  BY DEF Finalize
<1>2. UNCHANGED <<open, declared, saved, changed, current>>
  BY <1>1 DEF schema
<1>3. on[s] \in VTabs
  BY <1>1, HasTable
<1>4. /\ refs' \in [VTabs -> SUBSET Holders]
      /\ pVtab' \in [VTabs -> {"unused", "live", "gone"}]
      /\ objects' \in [VTabs -> 0..1]
      /\ ObjectIsLive' /\ LiveIsHeld'
      /\ \A w \in VTabs : refs'[w] = IF w = on[s] THEN refs[w] \ {s} ELSE refs[w]
      /\ \A w \in VTabs : pVtab[w] = "live" /\ refs'[w] # {} => pVtab'[w] = "live"
  BY <1>1, <1>3, LetGo
<1>5. /\ on' \in [Stmts -> VTabs \cup {None}]
      /\ st' \in [Stmts -> {"none", "ready", "reading", "writing"}]
      /\ cursors' \in [Stmts -> 0..1]
      /\ \A t \in Stmts : /\ on'[t] = IF t = s THEN None ELSE on[t]
                          /\ st'[t] = IF t = s THEN "none" ELSE st[t]
                          /\ cursors'[t] = IF t = s THEN 0 ELSE cursors[t]
  BY <1>1 DEF ObjectsConsistent, ObjectsTyped
<1>6. ObjectsTyped'
  BY <1>1, <1>2, <1>4, <1>5 DEF ObjectsConsistent, ObjectsTyped
<1>7. s # "schema" /\ s # "transaction"
  BY StmtsAssumption
<1>8. RefsCounted'
  <2>1. RefsCounted
    BY DEF ObjectsConsistent
  <2> QED
    BY <1>2, <1>4, <1>5, <1>7, <2>1, NoneAssumption DEF RefsCounted
<1>9. SchemaIsLive'
  <2>1. current # None => pVtab'[current] = "live"
    <3>1. current # None => current \in VTabs /\ pVtab[current] = "live" /\ "schema" \in refs[current]
      BY DEF ObjectsConsistent, ObjectsTyped, SchemaIsLive, RefsCounted
    <3> QED
      BY <1>4, <1>7, <3>1
  <2>2. Joined' \subseteq Joined
    BY <1>4 DEF Joined
  <2> QED
    BY <1>1, <1>2, <2>1, <2>2 DEF ObjectsConsistent, SchemaIsLive, Idle
<1>10. CursorsAreLive'
  <2> SUFFICES ASSUME NEW t \in Stmts
               PROVE  /\ st'[t] = "none" <=> on'[t] = None
                      /\ cursors'[t] = 1 => /\ st'[t] \in {"reading", "writing"}
                                            /\ pVtab'[on'[t]] = "live"
    BY DEF CursorsAreLive
  <2>1. CASE t = s
    BY <1>5, <2>1
  <2>2. CASE t # s
    <3>1. /\ st[t] = "none" <=> on[t] = None
          /\ cursors[t] = 1 => /\ st[t] \in {"reading", "writing"} /\ pVtab[on[t]] = "live"
                               /\ on[t] \in VTabs /\ t \in refs[on[t]]
      BY DEF ObjectsConsistent, ObjectsTyped, CursorsAreLive, RefsCounted
    <3> QED
      BY <1>4, <1>5, <2>2, <3>1
  <2> QED
    BY <2>1, <2>2
<1> QED
  BY <1>4, <1>6, <1>8, <1>9, <1>10 DEF ObjectsConsistent

(* A table leaves the transaction. *)
LEMMA FinaliseObjects ==
  ASSUME ObjectsConsistent, NEW v \in VTabs, Finalise(v)
  PROVE  ObjectsConsistent'
<1>1. /\ ending # "no" /\ Unlock(Without(v, "transaction"))
      /\ UNCHANGED <<schema, ending, stmts>>
  BY DEF Finalise
<1>2. UNCHANGED <<open, declared, saved, changed, current, ending, on, st, cursors>>
  BY <1>1 DEF schema, stmts
<1>3. /\ refs' \in [VTabs -> SUBSET Holders]
      /\ pVtab' \in [VTabs -> {"unused", "live", "gone"}]
      /\ objects' \in [VTabs -> 0..1]
      /\ ObjectIsLive' /\ LiveIsHeld'
      /\ \A w \in VTabs : refs'[w] = IF w = v THEN refs[w] \ {"transaction"} ELSE refs[w]
      /\ \A w \in VTabs : pVtab[w] = "live" /\ refs'[w] # {} => pVtab'[w] = "live"
  BY <1>1, LetGo
<1>4. ObjectsTyped'
  BY <1>2, <1>3 DEF ObjectsConsistent, ObjectsTyped
<1>5. \A t \in Stmts : t # "transaction"
  BY StmtsAssumption
<1>6. RefsCounted'
  BY <1>2, <1>3, <1>5 DEF ObjectsConsistent, RefsCounted
<1>7. SchemaIsLive'
  <2>1. current # None => pVtab'[current] = "live"
    <3>1. current # None => current \in VTabs /\ pVtab[current] = "live" /\ "schema" \in refs[current]
      BY DEF ObjectsConsistent, ObjectsTyped, SchemaIsLive, RefsCounted
    <3> QED
      BY <1>3, <3>1
  <2> QED
    BY <1>1, <1>2, <2>1 DEF ObjectsConsistent, SchemaIsLive, Idle
<1>8. CursorsAreLive'
  <2> SUFFICES ASSUME NEW t \in Stmts, cursors[t] = 1
               PROVE  pVtab'[on[t]] = "live"
    BY <1>2 DEF ObjectsConsistent, CursorsAreLive
  <2>1. on[t] \in VTabs /\ pVtab[on[t]] = "live" /\ t \in refs[on[t]]
    BY DEF ObjectsConsistent, ObjectsTyped, CursorsAreLive, RefsCounted
  <2> QED
    BY <1>3, <1>5, <2>1
<1> QED
  BY <1>3, <1>4, <1>6, <1>7, <1>8 DEF ObjectsConsistent

(* The end of the transaction gives its object up. *)
LEMMA EndTransactionObjects ==
  ASSUME ObjectsConsistent, EndTransaction
  PROVE  ObjectsConsistent'
<1>1. /\ Joined = {} /\ ending' = "no" /\ changed' = FALSE
      /\ UNCHANGED <<open, stmts>>
  BY DEF EndTransaction
<1>2. CASE UNCHANGED <<current, tables>> /\ declared' = saved'
            /\ (current # None => declared') /\ saved' \in {saved, declared}
  <2>1. UNCHANGED <<current, pVtab, refs, objects, on, st, cursors>>
    BY <1>1, <1>2 DEF tables, stmts
  <2>2. ObjectsTyped'
    BY <1>1, <1>2, <2>1 DEF ObjectsConsistent, ObjectsTyped
  <2>3. ObjectIsLive' /\ LiveIsHeld' /\ RefsCounted' /\ CursorsAreLive'
    BY <2>1 DEF ObjectsConsistent, ObjectIsLive, LiveIsHeld, RefsCounted, CursorsAreLive
  <2>4. Joined' = {}
    BY <1>1, <2>1 DEF Joined
  <2>5. SchemaIsLive'
    BY <1>1, <1>2, <2>1, <2>4 DEF ObjectsConsistent, SchemaIsLive
  <2> QED
    BY <2>2, <2>3, <2>5 DEF ObjectsConsistent
<1>3. CASE /\ current # None /\ Unlock(Without(current, "schema")) /\ current' = None
           /\ declared' = saved /\ UNCHANGED saved
  <2>1. /\ refs' \in [VTabs -> SUBSET Holders]
        /\ pVtab' \in [VTabs -> {"unused", "live", "gone"}]
        /\ objects' \in [VTabs -> 0..1]
        /\ ObjectIsLive' /\ LiveIsHeld' /\ RefsCounted' /\ CursorsAreLive'
        /\ Joined' \subseteq Joined
    BY <1>1, <1>3, SchemaLetsGo
  <2>2. ObjectsTyped'
    BY <1>1, <1>3, <2>1 DEF ObjectsConsistent, ObjectsTyped, stmts
  <2>3. SchemaIsLive'
    BY <1>1, <1>3, <2>1 DEF SchemaIsLive
  <2> QED
    BY <2>1, <2>2, <2>3 DEF ObjectsConsistent
<1>4. current # None => declared = TRUE
  BY DEF ObjectsConsistent, ObjectsTyped, SchemaIsLive
<1>5. CASE ending = "commit"
  <2>1. saved' = declared /\ UNCHANGED <<declared, current, tables>>
    BY <1>5 DEF EndTransaction
  <2> QED
    BY <1>2, <1>4, <2>1
<1>6. CASE ending # "commit" /\ changed /\ current # None
  BY <1>3, <1>6 DEF EndTransaction
<1>7. CASE ending # "commit" /\ ~(changed /\ current # None)
  <2>1. declared' = saved /\ saved' = saved /\ UNCHANGED <<current, tables>>
    BY <1>7 DEF EndTransaction
  <2>2. current # None => saved = TRUE
    BY <1>4, <1>7 DEF ObjectsConsistent, SchemaIsLive
  <2> QED
    BY <1>2, <2>1, <2>2
<1> QED
  BY <1>5, <1>6, <1>7

(* Savepoints, COMMIT and ROLLBACK begin without touching an object. *)
LEMMA QuietObjects ==
  ASSUME ObjectsConsistent,
         \/ \E s \in Stmts, v \in VTabs, m \in {"savepoint", "integrity"} : SavepointOrCheck(s, v, m)
         \/ \E s \in Stmts : Commit(s)
         \/ Rollback
  PROVE  ObjectsConsistent'
<1>1. CASE \E s \in Stmts, v \in VTabs, m \in {"savepoint", "integrity"} : SavepointOrCheck(s, v, m)
  BY <1>1, SameStatements DEF SavepointOrCheck
<1>2. CASE (\E s \in Stmts : Commit(s)) \/ Rollback
  <2>1. /\ open /\ ending' \in {"commit", "rollback"}
        /\ UNCHANGED <<schema, tables, stmts>>
    BY <1>2 DEF Commit, Rollback, OneShot
  <2>2. /\ UNCHANGED <<open, declared, saved, changed, current>>
        /\ UNCHANGED <<pVtab, refs, objects, on, st, cursors>>
    BY <2>1 DEF schema, tables, stmts
  <2>3. ObjectsTyped'
    BY <2>1, <2>2 DEF ObjectsConsistent, ObjectsTyped
  <2>4. ObjectIsLive' /\ LiveIsHeld' /\ RefsCounted' /\ CursorsAreLive'
    BY <2>2 DEF ObjectsConsistent, ObjectIsLive, LiveIsHeld, RefsCounted, CursorsAreLive
  <2>5. SchemaIsLive'
    BY <2>1, <2>2 DEF ObjectsConsistent, SchemaIsLive
  <2> QED
    BY <2>3, <2>4, <2>5 DEF ObjectsConsistent
<1> QED
  BY <1>1, <1>2

(* At first there is no object. *)
LEMMA InitObjects ==
  ASSUME Init
  PROVE  ObjectsConsistent
<1>1. /\ pVtab = [v \in VTabs |-> "unused"]
      /\ refs = [v \in VTabs |-> {}]
      /\ objects = [v \in VTabs |-> 0]
      /\ on = [s \in Stmts |-> None]
      /\ st = [s \in Stmts |-> "none"]
      /\ cursors = [s \in Stmts |-> 0]
      /\ current = None /\ ending = "no"
  BY DEF Init
<1>2. ~changed /\ open /\ declared = saved
  BY DEF Init
<1>3. open \in BOOLEAN /\ declared \in BOOLEAN /\ saved \in BOOLEAN /\ changed \in BOOLEAN
  BY Zenon DEF Init
<1>4. ObjectsTyped
  BY <1>1, <1>3 DEF ObjectsTyped
<1>5. ObjectIsLive /\ LiveIsHeld
  BY <1>1 DEF ObjectIsLive, LiveIsHeld
<1>6. RefsCounted
  BY <1>1, NoneAssumption DEF RefsCounted
<1>7. SchemaIsLive
  BY <1>1, <1>2 DEF SchemaIsLive
<1>8. CursorsAreLive
  BY <1>1 DEF CursorsAreLive
<1> QED
  BY <1>4, <1>5, <1>6, <1>7, <1>8 DEF ObjectsConsistent

(* Every step keeps the objects in order. *)
LEMMA NextObjects ==
  ASSUME ObjectsConsistent, [Next]_vars
  PROVE  ObjectsConsistent'
<1>1. CASE Next
  BY <1>1, CreateObjects, CallObjects, OpenObjects, DropObjects, ResetSchemaObjects,
     CloseObjects, PrepareObjects, BeginObjects, FinalizeObjects, FinaliseObjects,
     EndTransactionObjects, QuietObjects DEF Next
<1>2. CASE UNCHANGED vars
  BY <1>2, SameStatements DEF vars
<1> QED
  BY <1>1, <1>2

-----------------------------------------------------------------------------
(****************************************************************************)
(* The texts.                                                               *)
(****************************************************************************)
(* What sqlite3_free counts. *)
LEMMA FreedFacts ==
  ASSUME NEW f \in [Exceptions -> Nat], NEW x \in Exceptions \cup {None}
  PROVE  /\ Freed(f, x) \in [Exceptions -> Nat]
         /\ \A y \in Exceptions : Freed(f, x)[y] = IF y = x THEN f[y] + 1 ELSE f[y]
  BY NoneAssumption DEF Freed

(* An exception is thrown once, and nothing is forgotten of the others. *)
LEMMA RaiseFacts ==
  ASSUME TextsOwned, NEW x \in Exceptions, NEW k \in Kinds, NEW how \in Hearing, Raise(x, k, how)
  PROVE  /\ thrown[x].by = None /\ frees[x] = 0
         /\ thrown' \in [Exceptions -> [by: Hearing \cup {None}, text: Texts]]
         /\ thrown'[x].by = how /\ thrown'[x].text = k /\ how # None
         /\ \A y \in Exceptions : y # x => thrown'[y] = thrown[y]
         /\ \A v \in VTabs : zErrMsg[v] # x
<1>1. /\ thrown[x].by = None
      /\ thrown' = [thrown EXCEPT ![x] = [by |-> how, text |-> k]]
  BY DEF Raise
<1>2. /\ thrown \in [Exceptions -> [by: Hearing \cup {None}, text: Texts]]
      /\ \A v \in VTabs : zErrMsg[v] # None => thrown[zErrMsg[v]].by = "unheard"
      /\ frees[x] = 0
  BY <1>1 DEF TextsOwned, NotThrownNotFreed
<1>3. k \in Texts /\ how # None /\ "unheard" # None /\ x # None
  BY KindsAssumption, NoneAssumption DEF Hearing
<1>4. [by |-> how, text |-> k] \in [by: Hearing \cup {None}, text: Texts]
  BY <1>3
<1>5. /\ thrown' \in [Exceptions -> [by: Hearing \cup {None}, text: Texts]]
      /\ thrown'[x].by = how /\ thrown'[x].text = k
      /\ \A y \in Exceptions : y # x => thrown'[y] = thrown[y]
  BY <1>1, <1>2, <1>4
<1>6. \A v \in VTabs : zErrMsg[v] # x
  BY <1>1, <1>2, <1>3
<1> QED
  BY <1>1, <1>2, <1>3, <1>5, <1>6

(* An exception is heard of: its text is freed, and an older one of v too. *)
LEMMA HeardTexts ==
  ASSUME TextsOwned, NEW s \in Stmts, NEW v \in VTabs, NEW x \in Exceptions, NEW k \in Kinds,
         Heard(s, v, x, k)
  PROVE  TextsOwned'
<1> DEFINE old == zErrMsg[v]
           new == set_error_message(v, x, k)
<1>1. /\ Raise(x, k, "heard")
      /\ frees' = Freed(Freed(frees, old), new)
      /\ zErrMsg' = [zErrMsg EXCEPT ![v] = None]
  BY DEF Heard
<1>2. /\ thrown[x].by = None /\ frees[x] = 0
      /\ thrown' \in [Exceptions -> [by: Hearing \cup {None}, text: Texts]]
      /\ thrown'[x].by = "heard" /\ thrown'[x].text = k /\ "heard" # None
      /\ \A y \in Exceptions : y # x => thrown'[y] = thrown[y]
      /\ \A w \in VTabs : zErrMsg[w] # x
  BY <1>1, RaiseFacts DEF Hearing
<1>3. /\ zErrMsg \in [VTabs -> Exceptions \cup {None}] /\ frees \in [Exceptions -> Nat]
      /\ old \in Exceptions \cup {None} /\ old # x
      /\ new \in {x, None} /\ (new = None => k = "none")
      /\ (old # None => frees[old] = 0 /\ thrown[old].by = "unheard")
  BY <1>2, NoneAssumption DEF TextsOwned, TextsFreedOnce, set_error_message
<1> HIDE DEF old, new
<1>4. /\ Freed(frees, old) \in [Exceptions -> Nat]
      /\ \A y \in Exceptions : Freed(frees, old)[y] = IF y = old THEN frees[y] + 1 ELSE frees[y]
  BY <1>3, FreedFacts
<1>5. new \in Exceptions \cup {None}
  BY <1>3
<1>6. /\ frees' \in [Exceptions -> Nat]
      /\ \A y \in Exceptions :
           frees'[y] = IF y = new THEN Freed(frees, old)[y] + 1 ELSE Freed(frees, old)[y]
  BY <1>1, <1>4, <1>5, FreedFacts
<1>7. \A y \in Exceptions : frees'[y] = IF y = old \/ y = new THEN 1 ELSE frees[y]
  BY <1>2, <1>3, <1>4, <1>6, NoneAssumption
<1>8. /\ zErrMsg' \in [VTabs -> Exceptions \cup {None}]
      /\ \A w \in VTabs : zErrMsg'[w] = IF w = v THEN None ELSE zErrMsg[w]
  BY <1>1, <1>3
<1>9. \A w \in VTabs : zErrMsg'[w] # None => thrown'[zErrMsg'[w]].by = "unheard"
  BY <1>2, <1>3, <1>8 DEF TextsOwned
<1>10. OneTable'
  BY <1>8 DEF TextsOwned, OneTable
<1>11. NotThrownNotFreed'
  <2> SUFFICES ASSUME NEW y \in Exceptions, thrown'[y].by = None
               PROVE  frees'[y] = 0 /\ thrown'[y].text = "none"
    BY DEF NotThrownNotFreed
  <2>1. y # x /\ thrown[y].by = None
    BY <1>2
  <2>2. y # old /\ y # new
    BY <1>3, <2>1, NoneAssumption DEF Hearing
  <2> QED
    BY <1>2, <1>7, <2>1, <2>2 DEF TextsOwned, NotThrownNotFreed
<1>12. TextsFreedOnce'
  <2>1. \A y \in Exceptions : frees'[y] <= 1
    BY <1>7 DEF TextsOwned, TextsFreedOnce
  <2>2. ASSUME NEW w \in VTabs, zErrMsg'[w] # None
        PROVE  frees'[zErrMsg'[w]] = 0
    <3>1. w # v /\ zErrMsg'[w] = zErrMsg[w] /\ zErrMsg[w] \in Exceptions
      BY <1>3, <1>8, <2>2
    <3>2. zErrMsg[w] # old
      BY <2>2, <3>1 DEF TextsOwned, OneTable, old
    <3>3. zErrMsg[w] # new
      BY <1>2, <1>3, <2>2, <3>1
    <3>4. frees[zErrMsg[w]] = 0
      BY <2>2, <3>1 DEF TextsOwned, TextsFreedOnce
    <3> QED
      BY <1>7, <3>1, <3>2, <3>3, <3>4
  <2> QED
    BY <2>1, <2>2 DEF TextsFreedOnce
<1>13. LostOnlyIfUnheard'
  <2> SUFFICES ASSUME NEW y \in Exceptions, thrown'[y].text = "heap", frees'[y] = 0
               PROVE  thrown'[y].by = "unheard"
    BY DEF LostOnlyIfUnheard
  <2>1. y # old /\ y # new
    BY <1>7
  <2>2. y # x
    BY <1>2, <1>3, <2>1
  <2> QED
    BY <1>2, <1>7, <2>1, <2>2 DEF TextsOwned, LostOnlyIfUnheard
<1> QED
  BY <1>2, <1>6, <1>8, <1>9, <1>10, <1>11, <1>12, <1>13 DEF TextsOwned

(* SQLite frees zErrMsg without an exception. *)
LEMMA DiscardTexts ==
  ASSUME TextsOwned, NEW v \in VTabs, Discard(v), thrown' = thrown
  PROVE  TextsOwned'
<1> DEFINE old == zErrMsg[v]
<1>1. frees' = Freed(frees, old) /\ zErrMsg' = [zErrMsg EXCEPT ![v] = None]
  BY DEF Discard
<1>2. /\ zErrMsg \in [VTabs -> Exceptions \cup {None}] /\ frees \in [Exceptions -> Nat]
      /\ old \in Exceptions \cup {None}
      /\ (old # None => frees[old] = 0 /\ thrown[old].by = "unheard")
      /\ "unheard" # None
  BY NoneAssumption DEF TextsOwned, TextsFreedOnce, Hearing
<1>3. \A w \in VTabs : w # v /\ zErrMsg[w] # None => zErrMsg[w] # old
  BY DEF TextsOwned, OneTable
<1> HIDE DEF old
<1>4. /\ frees' \in [Exceptions -> Nat]
      /\ \A y \in Exceptions : frees'[y] = IF y = old THEN 1 ELSE frees[y]
  <2>1. /\ frees' \in [Exceptions -> Nat]
        /\ \A y \in Exceptions : frees'[y] = IF y = old THEN frees[y] + 1 ELSE frees[y]
    BY <1>1, <1>2, FreedFacts
  <2> QED
    BY <1>2, <2>1, NoneAssumption
<1>5. /\ zErrMsg' \in [VTabs -> Exceptions \cup {None}]
      /\ \A w \in VTabs : zErrMsg'[w] = IF w = v THEN None ELSE zErrMsg[w]
  BY <1>1, <1>2
<1>6. \A w \in VTabs : zErrMsg'[w] # None => thrown'[zErrMsg'[w]].by = "unheard"
  BY <1>5 DEF TextsOwned
<1>7. OneTable'
  BY <1>5 DEF TextsOwned, OneTable
<1>8. NotThrownNotFreed'
  <2> SUFFICES ASSUME NEW y \in Exceptions, thrown[y].by = None
               PROVE  frees'[y] = 0 /\ thrown[y].text = "none"
    BY DEF NotThrownNotFreed
  <2>1. frees[y] = 0 /\ thrown[y].text = "none" /\ y # old
    BY <1>2, NoneAssumption DEF TextsOwned, NotThrownNotFreed
  <2> QED
    BY <1>4, <2>1
<1>9. TextsFreedOnce'
  <2>1. \A y \in Exceptions : frees'[y] <= 1
    BY <1>4 DEF TextsOwned, TextsFreedOnce
  <2>2. ASSUME NEW w \in VTabs, zErrMsg'[w] # None
        PROVE  frees'[zErrMsg'[w]] = 0
    <3>1. w # v /\ zErrMsg'[w] = zErrMsg[w] /\ zErrMsg[w] \in Exceptions /\ zErrMsg[w] # old
      BY <1>2, <1>3, <1>5, <2>2
    <3>2. frees[zErrMsg[w]] = 0
      BY <2>2, <3>1 DEF TextsOwned, TextsFreedOnce
    <3> QED
      BY <1>4, <3>1, <3>2
  <2> QED
    BY <2>1, <2>2 DEF TextsFreedOnce
<1>10. LostOnlyIfUnheard'
  BY <1>4 DEF TextsOwned, LostOnlyIfUnheard
<1>11. thrown' \in [Exceptions -> [by: Hearing \cup {None}, text: Texts]]
  BY DEF TextsOwned
<1> QED
  BY <1>4, <1>5, <1>6, <1>7, <1>8, <1>9, <1>10, <1>11 DEF TextsOwned

(* Nobody looks at zErrMsg: the new text stays there. *)
LEMMA NotHeardTexts ==
  ASSUME TextsOwned, NEW v \in VTabs, NEW x \in Exceptions, NEW k \in Kinds, NotHeard(v, x, k)
  PROVE  TextsOwned'
<1> DEFINE old == zErrMsg[v]
           new == set_error_message(v, x, k)
<1>1. /\ Raise(x, k, "unheard")
      /\ frees' = Freed(frees, old)
      /\ zErrMsg' = [zErrMsg EXCEPT ![v] = new]
  BY DEF NotHeard
<1>2. /\ thrown[x].by = None /\ frees[x] = 0
      /\ thrown' \in [Exceptions -> [by: Hearing \cup {None}, text: Texts]]
      /\ thrown'[x].by = "unheard" /\ "unheard" # None
      /\ \A y \in Exceptions : y # x => thrown'[y] = thrown[y]
      /\ \A w \in VTabs : zErrMsg[w] # x
  BY <1>1, RaiseFacts DEF Hearing
<1>3. /\ zErrMsg \in [VTabs -> Exceptions \cup {None}] /\ frees \in [Exceptions -> Nat]
      /\ old \in Exceptions \cup {None} /\ old # x
      /\ new \in {x, None}
      /\ (old # None => frees[old] = 0 /\ thrown[old].by = "unheard")
  BY <1>2 DEF TextsOwned, TextsFreedOnce, set_error_message
<1>4. \A w \in VTabs : w # v /\ zErrMsg[w] # None => zErrMsg[w] # old
  BY DEF TextsOwned, OneTable
<1> HIDE DEF old, new
<1>5. /\ frees' \in [Exceptions -> Nat]
      /\ \A y \in Exceptions : frees'[y] = IF y = old THEN 1 ELSE frees[y]
  <2>1. /\ frees' \in [Exceptions -> Nat]
        /\ \A y \in Exceptions : frees'[y] = IF y = old THEN frees[y] + 1 ELSE frees[y]
    BY <1>1, <1>3, FreedFacts
  <2> QED
    BY <1>3, <2>1, NoneAssumption
<1>6. /\ zErrMsg' \in [VTabs -> Exceptions \cup {None}]
      /\ \A w \in VTabs : zErrMsg'[w] = IF w = v THEN new ELSE zErrMsg[w]
  BY <1>1, <1>3
<1>7. \A w \in VTabs : zErrMsg'[w] # None => thrown'[zErrMsg'[w]].by = "unheard"
  BY <1>2, <1>3, <1>6 DEF TextsOwned
<1>8. OneTable'
  BY <1>2, <1>3, <1>6 DEF TextsOwned, OneTable
<1>9. NotThrownNotFreed'
  <2> SUFFICES ASSUME NEW y \in Exceptions, thrown'[y].by = None
               PROVE  frees'[y] = 0 /\ thrown'[y].text = "none"
    BY DEF NotThrownNotFreed
  <2>1. y # x /\ thrown[y].by = None /\ thrown'[y] = thrown[y]
    BY <1>2
  <2>2. y # old
    BY <1>2, <1>3, <2>1, NoneAssumption
  <2> QED
    BY <1>5, <2>1, <2>2 DEF TextsOwned, NotThrownNotFreed
<1>10. TextsFreedOnce'
  <2>1. \A y \in Exceptions : frees'[y] <= 1
    BY <1>5 DEF TextsOwned, TextsFreedOnce
  <2>2. ASSUME NEW w \in VTabs, zErrMsg'[w] # None
        PROVE  frees'[zErrMsg'[w]] = 0
    <3>1. CASE w = v
      <4>1. zErrMsg'[w] = x
        BY <1>3, <1>6, <2>2, <3>1
      <4> QED
        BY <1>2, <1>3, <1>5, <4>1
    <3>2. CASE w # v
      <4>1. zErrMsg'[w] = zErrMsg[w] /\ zErrMsg[w] \in Exceptions /\ zErrMsg[w] # old
        BY <1>3, <1>4, <1>6, <2>2, <3>2
      <4>2. frees[zErrMsg[w]] = 0
        BY <2>2, <4>1 DEF TextsOwned, TextsFreedOnce
      <4> QED
        BY <1>5, <4>1, <4>2
    <3> QED
      BY <3>1, <3>2
  <2> QED
    BY <2>1, <2>2 DEF TextsFreedOnce
<1>11. LostOnlyIfUnheard'
  BY <1>2, <1>5 DEF TextsOwned, LostOnlyIfUnheard
<1> QED
  BY <1>2, <1>5, <1>6, <1>7, <1>8, <1>9, <1>10, <1>11 DEF TextsOwned

(* The constructor throws: SQLite frees the text at once. *)
LEMMA ConstructorTexts ==
  ASSUME TextsOwned, NEW s \in Stmts, ConstructorThrows(s)
  PROVE  TextsOwned'
<1>1. PICK x \in Exceptions, k \in Kinds :
        /\ Raise(x, k, "heard")
        /\ frees' = Freed(frees, err(x, k))
        /\ zErrMsg' = zErrMsg
  BY DEF ConstructorThrows
<1> DEFINE new == err(x, k)
<1>2. /\ thrown[x].by = None /\ frees[x] = 0
      /\ thrown' \in [Exceptions -> [by: Hearing \cup {None}, text: Texts]]
      /\ thrown'[x].by = "heard" /\ thrown'[x].text = k /\ "heard" # None
      /\ \A y \in Exceptions : y # x => thrown'[y] = thrown[y]
      /\ \A w \in VTabs : zErrMsg[w] # x
  BY <1>1, RaiseFacts DEF Hearing
<1>3. /\ zErrMsg \in [VTabs -> Exceptions \cup {None}] /\ frees \in [Exceptions -> Nat]
      /\ new \in {x, None} /\ (new = None => k = "none")
  BY NoneAssumption DEF TextsOwned, err
<1>4. frees' = Freed(frees, new)
  BY <1>1
<1> HIDE DEF new
<1>5. /\ frees' \in [Exceptions -> Nat]
      /\ \A y \in Exceptions : frees'[y] = IF y = new THEN frees[y] + 1 ELSE frees[y]
  BY <1>3, <1>4, FreedFacts
<1>6. \A y \in Exceptions : frees'[y] = IF y = new THEN 1 ELSE frees[y]
  BY <1>2, <1>3, <1>5, NoneAssumption
<1>7. \A w \in VTabs : zErrMsg'[w] # None => thrown'[zErrMsg'[w]].by = "unheard"
  BY <1>1, <1>2, <1>3 DEF TextsOwned
<1>8. OneTable'
  BY <1>1 DEF TextsOwned, OneTable
<1>9. NotThrownNotFreed'
  <2> SUFFICES ASSUME NEW y \in Exceptions, thrown'[y].by = None
               PROVE  frees'[y] = 0 /\ thrown'[y].text = "none"
    BY DEF NotThrownNotFreed
  <2>1. y # x /\ thrown'[y] = thrown[y] /\ y # new
    BY <1>2, <1>3, NoneAssumption
  <2> QED
    BY <1>6, <2>1 DEF TextsOwned, NotThrownNotFreed
<1>10. TextsFreedOnce'
  BY <1>1, <1>2, <1>3, <1>6 DEF TextsOwned, TextsFreedOnce
<1>11. LostOnlyIfUnheard'
  <2> SUFFICES ASSUME NEW y \in Exceptions, thrown'[y].text = "heap", frees'[y] = 0
               PROVE  thrown'[y].by = "unheard"
    BY DEF LostOnlyIfUnheard
  <2>1. y # new /\ y # x
    BY <1>2, <1>3, <1>6
  <2> QED
    BY <1>2, <1>6, <2>1 DEF TextsOwned, LostOnlyIfUnheard
<1> QED
  BY <1>1, <1>2, <1>3, <1>5, <1>7, <1>8, <1>9, <1>10, <1>11 DEF TextsOwned

(* Nothing happens to the texts. *)
LEMMA SameTexts ==
  ASSUME TextsOwned, UNCHANGED <<zErrMsg, thrown, frees>>
  PROVE  TextsOwned'
BY DEF TextsOwned, OneTable, NotThrownNotFreed, TextsFreedOnce, LostOnlyIfUnheard

(* What SQLite has copied or says of other statements stays true when an    *)
(* exception is thrown.                                                     *)
Learnt == \A y \in Exceptions : thrown[y].by # None => thrown'[y] = thrown[y]

(* What was reported stays true when more is learnt about other exceptions. *)
LEMMA StaysTrue ==
  ASSUME ReportsTrue, NEW t \in Stmts, Learnt
  PROVE  /\ vmsg[t] # None => thrown'[vmsg[t]].by = "unheard"
         /\ report[t].by # None => thrown'[report[t].by].by # None
         /\ report[t].msg # None => thrown'[report[t].msg].by # None
         /\ LET by == report[t].by  msg == report[t].msg
            IN IF by # None /\ thrown'[by].text # "none" /\ thrown'[by].by = "heard"
               THEN msg = by
               ELSE msg # None => thrown'[msg].by = "unheard"
<1>1. /\ vmsg[t] \in Exceptions \cup {None}
      /\ report[t].by \in Exceptions \cup {None} /\ report[t].msg \in Exceptions \cup {None}
      /\ "unheard" # None
  BY NoneAssumption DEF ReportsTrue, Hearing
<1>2. /\ vmsg[t] # None => thrown[vmsg[t]].by = "unheard"
      /\ report[t].by # None => thrown[report[t].by].by # None
      /\ report[t].msg # None => thrown[report[t].msg].by # None
  BY DEF ReportsTrue, ReportsThrown
<1>3. /\ vmsg[t] # None => thrown'[vmsg[t]] = thrown[vmsg[t]]
      /\ report[t].by # None => thrown'[report[t].by] = thrown[report[t].by]
      /\ report[t].msg # None => thrown'[report[t].msg] = thrown[report[t].msg]
  BY <1>1, <1>2 DEF Learnt
<1> QED
  BY <1>2, <1>3 DEF ReportsTrue, OwnReport

(* It is enough to look at what is new. *)
LEMMA OneReport ==
  ASSUME ReportsTrue, NEW s \in Stmts, Learnt, "unheard" # None,
         NEW m \in Exceptions \cup {None}, NEW b \in Exceptions \cup {None},
         NEW c \in Exceptions \cup {None},
         vmsg' = [vmsg EXCEPT ![s] = m],
         report' = [report EXCEPT ![s] = [by |-> b, msg |-> c]],
         m # None => thrown'[m].by = "unheard",
         b # None => thrown'[b].by # None,
         c # None => thrown'[c].by # None,
         IF b # None /\ thrown'[b].text # "none" /\ thrown'[b].by = "heard"
         THEN c = b
         ELSE c # None => thrown'[c].by = "unheard"
  PROVE  ReportsTrue'
<1>1. /\ vmsg \in [Stmts -> Exceptions \cup {None}]
      /\ report \in [Stmts -> [by: Exceptions \cup {None}, msg: Exceptions \cup {None}]]
  BY DEF ReportsTrue
<1>2. /\ vmsg' \in [Stmts -> Exceptions \cup {None}]
      /\ \A t \in Stmts : vmsg'[t] = IF t = s THEN m ELSE vmsg[t]
  BY <1>1
<1>3. /\ report' \in [Stmts -> [by: Exceptions \cup {None}, msg: Exceptions \cup {None}]]
      /\ report'[s].by = b /\ report'[s].msg = c
      /\ \A t \in Stmts : t # s => report'[t] = report[t]
  BY <1>1
<1>4. \A t \in Stmts : vmsg'[t] # None => thrown'[vmsg'[t]].by = "unheard"
  BY <1>2, StaysTrue
<1>5. ReportsThrown'
  BY <1>3, StaysTrue DEF ReportsThrown
<1>6. OwnReport'
  <2> SUFFICES ASSUME NEW t \in Stmts
               PROVE  LET by == report'[t].by  msg == report'[t].msg
                      IN IF by # None /\ thrown'[by].text # "none" /\ thrown'[by].by = "heard"
                         THEN msg = by
                         ELSE msg # None => thrown'[msg].by = "unheard"
    BY DEF OwnReport
  <2>1. CASE t = s
    BY <1>3, <2>1
  <2>2. CASE t # s
    BY <1>3, <2>2, StaysTrue
  <2> QED
    BY <2>1, <2>2
<1> QED
  BY <1>2, <1>3, <1>4, <1>5, <1>6 DEF ReportsTrue

(* Nothing but an exception, if anything. *)
LEMMA SameReports ==
  ASSUME ReportsTrue, Learnt, UNCHANGED <<vmsg, report>>
  PROVE  ReportsTrue'
<1>1. \A t \in Stmts : vmsg'[t] # None => thrown'[vmsg'[t]].by = "unheard"
  BY StaysTrue
<1>2. ReportsThrown'
  BY StaysTrue DEF ReportsThrown
<1>3. OwnReport'
  BY StaysTrue DEF OwnReport
<1> QED
  BY <1>1, <1>2, <1>3 DEF ReportsTrue

(* The copied text may go, or a text of zErrMsg be copied in its place.     *)
LEMMA NewCopy ==
  ASSUME ReportsTrue, Learnt, "unheard" # None, NEW s \in Stmts, NEW m \in Exceptions \cup {None},
         m # None => thrown'[m].by = "unheard",
         vmsg' = [vmsg EXCEPT ![s] = m], report' = report
  PROVE  ReportsTrue'
<1>1. report[s] \in [by: Exceptions \cup {None}, msg: Exceptions \cup {None}]
  BY DEF ReportsTrue
<1>2. report' = [report EXCEPT ![s] = [by |-> report[s].by, msg |-> report[s].msg]]
  BY <1>1 DEF ReportsTrue
<1>3. /\ report[s].by # None => thrown'[report[s].by].by # None
      /\ report[s].msg # None => thrown'[report[s].msg].by # None
      /\ IF report[s].by # None /\ thrown'[report[s].by].text # "none"
                               /\ thrown'[report[s].by].by = "heard"
         THEN report[s].msg = report[s].by
         ELSE report[s].msg # None => thrown'[report[s].msg].by = "unheard"
  BY StaysTrue
<1>4. report[s].by \in Exceptions \cup {None} /\ report[s].msg \in Exceptions \cup {None}
  BY <1>1
<1> QED
  BY <1>2, <1>3, <1>4, OneReport

(* A new exception is never one that is known. *)
LEMMA RaiseLearns ==
  ASSUME TextsOwned, NEW x \in Exceptions, NEW k \in Kinds, NEW how \in Hearing, Raise(x, k, how)
  PROVE  Learnt
BY RaiseFacts DEF Learnt

(* SQLite reports the exception that it has heard of. *)
LEMMA HeardReports ==
  ASSUME TextsOwned, ReportsTrue, NEW s \in Stmts, NEW v \in VTabs, NEW x \in Exceptions,
         NEW k \in Kinds, Heard(s, v, x, k)
  PROVE  ReportsTrue'
<1> DEFINE c == IF set_error_message(v, x, k) = None THEN vmsg[s] ELSE set_error_message(v, x, k)
<1>1. /\ Raise(x, k, "heard")
      /\ report' = [report EXCEPT ![s] = [by |-> x, msg |-> c]]
      /\ vmsg' = [vmsg EXCEPT ![s] = None]
  BY DEF Heard
<1>2. Learnt
  BY <1>1, RaiseLearns DEF Hearing
<1>3. thrown'[x].by = "heard" /\ thrown'[x].text = k /\ "heard" # None /\ "unheard" # None
  BY <1>1, RaiseFacts, NoneAssumption DEF Hearing
<1>4. x # None
  BY NoneAssumption
<1>5. IF k = "none" THEN c = vmsg[s] ELSE c = x
  BY <1>4 DEF set_error_message
<1>6. vmsg[s] \in Exceptions \cup {None} /\ (vmsg[s] # None => thrown'[vmsg[s]].by = "unheard")
  BY <1>2, StaysTrue DEF ReportsTrue
<1> HIDE DEF c
<1>7. /\ c \in Exceptions \cup {None}
      /\ (c # None => thrown'[c].by # None)
      /\ IF x # None /\ thrown'[x].text # "none" /\ thrown'[x].by = "heard"
         THEN c = x
         ELSE c # None => thrown'[c].by = "unheard"
  BY <1>3, <1>5, <1>6
<1>8. None # None => thrown'[None].by = "unheard"
  OBVIOUS
<1>9. thrown'[x].by # None
  BY <1>3
<1> QED
  BY <1>1, <1>2, <1>3, <1>7, <1>8, <1>9, OneReport

(* A constructor reports the text of its own exception. *)
LEMMA ConstructorReports ==
  ASSUME TextsOwned, ReportsTrue, NEW s \in Stmts, ConstructorThrows(s)
  PROVE  ReportsTrue'
<1>1. PICK x \in Exceptions, k \in Kinds :
        /\ Raise(x, k, "heard")
        /\ report' = [report EXCEPT ![s] = [by |-> x, msg |-> err(x, k)]]
        /\ vmsg' = vmsg
  BY DEF ConstructorThrows
<1> DEFINE c == err(x, k)
<1>2. Learnt
  BY <1>1, RaiseLearns DEF Hearing
<1>3. thrown'[x].by = "heard" /\ thrown'[x].text = k /\ "heard" # None /\ "unheard" # None
  BY <1>1, RaiseFacts, NoneAssumption DEF Hearing
<1>4. /\ c \in Exceptions \cup {None}
      /\ (c # None => thrown'[c].by # None)
      /\ IF x # None /\ thrown'[x].text # "none" /\ thrown'[x].by = "heard"
         THEN c = x
         ELSE c # None => thrown'[c].by = "unheard"
  BY <1>3, NoneAssumption DEF err
<1>5. vmsg[s] \in Exceptions \cup {None} /\ (vmsg[s] # None => thrown'[vmsg[s]].by = "unheard")
  BY <1>2, StaysTrue DEF ReportsTrue
<1>6. vmsg' = [vmsg EXCEPT ![s] = vmsg[s]]
  BY <1>1 DEF ReportsTrue
<1>7. report' = [report EXCEPT ![s] = [by |-> x, msg |-> c]]
  BY <1>1
<1> HIDE DEF c
<1>8. thrown'[x].by # None
  BY <1>3
<1> QED
  BY <1>2, <1>3, <1>4, <1>5, <1>6, <1>7, <1>8, OneReport

(* SQLite copies what an earlier exception has left. *)
LEMMA QuietTexts ==
  ASSUME TextsConsistent, NEW s \in Stmts, NEW v \in VTabs, Quiet(s, v)
  PROVE  TextsConsistent'
<1>1. /\ Discard(v) /\ thrown' = thrown /\ report' = report
      /\ vmsg' = [vmsg EXCEPT ![s] = IF zErrMsg[v] = None THEN @ ELSE zErrMsg[v]]
  BY DEF Quiet
<1>2. TextsOwned'
  BY <1>1, DiscardTexts DEF TextsConsistent
<1> DEFINE m == IF zErrMsg[v] = None THEN vmsg[s] ELSE zErrMsg[v]
<1>3. m \in Exceptions \cup {None} /\ (m # None => thrown'[m].by = "unheard")
  BY <1>1 DEF TextsConsistent, TextsOwned, ReportsTrue
<1>4. vmsg' = [vmsg EXCEPT ![s] = m]
  BY <1>1
<1> HIDE DEF m
<1>5. Learnt /\ "unheard" # None
  BY <1>1, NoneAssumption DEF Learnt, Hearing
<1>6. ReportsTrue'
  BY <1>1, <1>3, <1>4, <1>5, NewCopy DEF TextsConsistent
<1> QED
  BY <1>2, <1>6 DEF TextsConsistent

(* A failure without an exception, and an end without a failure. *)
LEMMA NoException ==
  ASSUME TextsConsistent, NEW s \in Stmts, thrown' = thrown,
         vmsg' \in {vmsg, [vmsg EXCEPT ![s] = None]},
         NEW c \in {None, vmsg[s]},
         report' \in {report, [report EXCEPT ![s] = [by |-> None, msg |-> c]]}
  PROVE  ReportsTrue'
<1>1. ReportsTrue /\ Learnt /\ "unheard" # None
  BY NoneAssumption DEF TextsConsistent, Learnt, Hearing
<1>2. PICK m \in {None, vmsg[s]} : vmsg' = [vmsg EXCEPT ![s] = m]
  BY <1>1 DEF ReportsTrue
<1>3. \A y \in {None, vmsg[s]} : y \in Exceptions \cup {None} /\ (y # None => thrown'[y].by = "unheard")
  BY <1>1 DEF ReportsTrue
<1>4. CASE report' = report
  BY <1>1, <1>2, <1>3, <1>4, NewCopy
<1>5. CASE report' = [report EXCEPT ![s] = [by |-> None, msg |-> c]]
  <2>1. /\ None # None => thrown'[None].by # None
        /\ c # None => thrown'[c].by # None
        /\ IF None # None /\ thrown'[None].text # "none" /\ thrown'[None].by = "heard"
           THEN c = None
           ELSE c # None => thrown'[c].by = "unheard"
    BY <1>1, <1>3
  <2>2. None \in Exceptions \cup {None} /\ c \in Exceptions \cup {None}
    BY <1>3
  <2>3. m \in Exceptions \cup {None} /\ (m # None => thrown'[m].by = "unheard")
    BY <1>2, <1>3
  <2> QED
    BY <1>1, <1>2, <1>5, <2>1, <2>2, <2>3, OneReport
<1> QED
  BY <1>4, <1>5

(* A callback on v has thrown and SQLite has heard of it. *)
LEMMA HeardConsistent ==
  ASSUME TextsConsistent, NEW s \in Stmts, NEW v \in VTabs,
         \E x \in Exceptions, k \in Kinds : Heard(s, v, x, k)
  PROVE  TextsConsistent'
BY HeardTexts, HeardReports DEF TextsConsistent

(* Steps in which no exception is thrown, fetched or reported. *)
LEMMA SameErrors ==
  ASSUME TextsConsistent, UNCHANGED errors
  PROVE  TextsConsistent'
<1>1. UNCHANGED <<zErrMsg, thrown, frees, vmsg, report>>
  BY DEF errors
<1>2. TextsOwned'
  BY <1>1, SameTexts DEF TextsConsistent
<1>3. Learnt
  BY <1>1 DEF Learnt
<1>4. ReportsTrue'
  BY <1>1, <1>3, SameReports DEF TextsConsistent
<1> QED
  BY <1>2, <1>4 DEF TextsConsistent

(* The texts of a constructor that throws at CREATE. *)
LEMMA CreateTexts ==
  ASSUME TextsConsistent, NEW s \in Stmts, NEW v \in VTabs, Create(s, v) \/ Connect(s, v)
  PROVE  TextsConsistent'
<1>1. CASE UNCHANGED errors
  BY <1>1, SameErrors
<1>2. CASE Undeclared(s, v)
  <2>1. /\ report' = [report EXCEPT ![s] = [by |-> None, msg |-> None]]
        /\ UNCHANGED <<zErrMsg, thrown, frees, vmsg>>
    BY <1>2 DEF Undeclared, NoReport
  <2>2. TextsOwned'
    BY <2>1, SameTexts DEF TextsConsistent
  <2>3. ReportsTrue'
    BY <2>1, NoException
  <2> QED
    BY <2>2, <2>3 DEF TextsConsistent
<1>3. CASE ConstructorThrows(s)
  BY <1>3, ConstructorTexts, ConstructorReports DEF TextsConsistent
<1> QED
  BY <1>1, <1>2, <1>3 DEF Create, Connect

(* SQLite frees zErrMsg and has no text. *)
LEMMA DiscardConsistent ==
  ASSUME TextsConsistent, NEW s \in Stmts, NEW v \in VTabs, Discard(v), thrown' = thrown,
         vmsg' \in {vmsg, [vmsg EXCEPT ![s] = None]},
         report' \in {report, [report EXCEPT ![s] = [by |-> None, msg |-> None]]}
  PROVE  TextsConsistent'
BY DiscardTexts, NoException DEF TextsConsistent

(* The texts of the methods that a statement calls and listens to. *)
LEMMA StatementTexts ==
  ASSUME ObjectsConsistent, TextsConsistent, NEW s \in Stmts,
         Prepare(s) \/ Open(s) \/ Fetch(s) \/ Begin(s) \/ Update(s)
  PROVE  TextsConsistent'
<1> DEFINE heard(v) == \E x \in Exceptions, k \in Kinds : Heard(s, v, x, k)
<1>1. CASE Prepare(s)
  <2>1. current \in VTabs
    BY <1>1 DEF Prepare, ObjectsConsistent, ObjectsTyped
  <2>2. CASE Discard(current) /\ UNCHANGED <<thrown, vmsg, report>>
    BY <2>1, <2>2, DiscardConsistent
  <2>3. CASE heard(current)
    BY <2>1, <2>3, HeardConsistent
  <2> QED
    BY <1>1, <2>2, <2>3 DEF Prepare
<1>2. CASE Open(s)
  <2>1. on[s] \in VTabs
    BY <1>2, HasTable DEF Open, MayStart, Running
  <2>2. CASE Quiet(s, on[s])
    BY <2>1, <2>2, QuietTexts
  <2>3. CASE heard(on[s])
    BY <2>1, <2>3, HeardConsistent
  <2>4. CASE /\ Discard(on[s])
             /\ report' = [report EXCEPT ![s] = NoReport]
             /\ vmsg' = [vmsg EXCEPT ![s] = None]
             /\ UNCHANGED thrown
    BY <2>1, <2>4, DiscardConsistent DEF NoReport
  <2> QED
    BY <1>2, <2>2, <2>3, <2>4 DEF Open
<1>3. CASE Fetch(s) \/ Begin(s) \/ Update(s)
  <2>1. on[s] \in VTabs
    BY <1>3, HasTable DEF Fetch, Begin, Update, MayStart, Running
  <2>2. Quiet(s, on[s]) \/ heard(on[s])
    BY <1>3 DEF Fetch, Begin, Update
  <2> QED
    BY <2>1, <2>2, QuietTexts, HeardConsistent
<1> QED
  BY <1>1, <1>2, <1>3

(* SQLite says something of its own, or nothing. *)
LEMMA EndTexts ==
  ASSUME TextsConsistent, NEW s \in Stmts, OtherFailure(s) \/ End(s) \/ Finalize(s)
  PROVE  TextsConsistent'
<1>1. /\ UNCHANGED <<zErrMsg, thrown, frees>>
      /\ vmsg' = [vmsg EXCEPT ![s] = None]
      /\ report' \in {report, [report EXCEPT ![s] = [by |-> None, msg |-> vmsg[s]]]}
  BY DEF OtherFailure, End, Finalize
<1>2. TextsOwned'
  BY <1>1, SameTexts DEF TextsConsistent
<1>3. ReportsTrue'
  BY <1>1, NoException
<1> QED
  BY <1>2, <1>3 DEF TextsConsistent

(* The texts of the methods of a transaction, not all of which are heard. *)
LEMMA TransactionTexts ==
  ASSUME TextsConsistent,
         \/ \E s \in Stmts, v \in VTabs, m \in {"savepoint", "integrity"} : SavepointOrCheck(s, v, m)
         \/ \E s \in Stmts : Commit(s)
         \/ \E v \in VTabs : Finalise(v)
  PROVE  TextsConsistent'
<1>1. CASE \E s \in Stmts, v \in VTabs, m \in {"savepoint", "integrity"} : SavepointOrCheck(s, v, m)
  <2>1. PICK s \in Stmts, v \in VTabs, x \in Exceptions, k \in Kinds :
          /\ NotHeard(v, x, k)
          /\ report' = [report EXCEPT ![s] = [by |-> x, msg |-> None]]
          /\ vmsg' = vmsg
    BY <1>1 DEF SavepointOrCheck
  <2>2. Raise(x, k, "unheard")
    BY <2>1 DEF NotHeard
  <2>3. TextsOwned'
    BY <2>1, NotHeardTexts DEF TextsConsistent
  <2>4. Learnt /\ "unheard" # None /\ thrown'[x].by = "unheard"
    BY <2>2, RaiseLearns, RaiseFacts, NoneAssumption DEF TextsConsistent, Hearing
  <2>5. /\ vmsg[s] \in Exceptions \cup {None}
        /\ vmsg' = [vmsg EXCEPT ![s] = vmsg[s]]
        /\ vmsg[s] # None => thrown'[vmsg[s]].by = "unheard"
    BY <2>1, <2>4, StaysTrue DEF TextsConsistent, ReportsTrue
  <2>6. /\ x # None => thrown'[x].by # None
        /\ None # None => thrown'[None].by # None
        /\ IF x # None /\ thrown'[x].text # "none" /\ thrown'[x].by = "heard"
           THEN None = x
           ELSE None # None => thrown'[None].by = "unheard"
    BY <2>4
  <2>7. None \in Exceptions \cup {None} /\ x \in Exceptions \cup {None}
    OBVIOUS
  <2>8. ReportsTrue'
    BY <2>1, <2>4, <2>5, <2>6, <2>7, OneReport DEF TextsConsistent
  <2> QED
    BY <2>3, <2>8 DEF TextsConsistent
<1>2. CASE \E s \in Stmts : Commit(s)
  BY <1>2, SameErrors, HeardConsistent DEF Commit, Joined, Live
<1>3. CASE \E v \in VTabs : Finalise(v)
  <2>1. PICK v \in VTabs : Finalise(v)
    BY <1>3
  <2>2. CASE UNCHANGED errors
    BY <2>2, SameErrors
  <2>3. CASE /\ \E x \in Exceptions, k \in Kinds : NotHeard(v, x, k)
             /\ UNCHANGED <<vmsg, report>>
    <3>1. PICK x \in Exceptions, k \in Kinds : NotHeard(v, x, k)
      BY <2>3
    <3>2. TextsOwned'
      BY <3>1, NotHeardTexts DEF TextsConsistent
    <3>3. Learnt
      BY <3>1, RaiseLearns DEF TextsConsistent, NotHeard, Hearing
    <3>4. ReportsTrue'
      BY <2>3, <3>3, SameReports DEF TextsConsistent
    <3> QED
      BY <3>2, <3>4 DEF TextsConsistent
  <2> QED
    BY <2>1, <2>2, <2>3 DEF Finalise
<1> QED
  BY <1>1, <1>2, <1>3

(* The schema and the connection leave the texts alone. *)
LEMMA SchemaTexts ==
  ASSUME TextsConsistent,
         (\E s \in Stmts : Drop(s)) \/ ResetSchema \/ Rollback \/ EndTransaction \/ Close
  PROVE  TextsConsistent'
BY SameErrors DEF Drop, ResetSchema, Rollback, EndTransaction, Close

(* Every step keeps the texts in order. *)
LEMMA NextTexts ==
  ASSUME ObjectsConsistent, TextsConsistent, [Next]_vars
  PROVE  TextsConsistent'
<1>1. CASE Next
  BY <1>1, CreateTexts, StatementTexts, EndTexts, TransactionTexts, SchemaTexts DEF Next
<1>2. CASE UNCHANGED vars
  BY <1>2, SameErrors DEF vars
<1> QED
  BY <1>1, <1>2

(* At first there is no text. *)
LEMMA InitTexts ==
  ASSUME Init
  PROVE  TextsConsistent
<1>1. /\ zErrMsg = [v \in VTabs |-> None]
      /\ thrown = [x \in Exceptions |-> [by |-> None, text |-> "none"]]
      /\ frees = [x \in Exceptions |-> 0]
      /\ vmsg = [s \in Stmts |-> None]
      /\ report = [s \in Stmts |-> [by |-> None, msg |-> None]]
  BY DEF Init, NoReport
<1>2. OneTable /\ NotThrownNotFreed /\ TextsFreedOnce /\ LostOnlyIfUnheard
  BY <1>1 DEF OneTable, NotThrownNotFreed, TextsFreedOnce, LostOnlyIfUnheard
<1>3. TextsOwned
  BY <1>1, <1>2 DEF TextsOwned, Texts
<1>4. ReportsThrown /\ OwnReport
  BY <1>1 DEF ReportsThrown, OwnReport
<1>5. ReportsTrue
  BY <1>1, <1>4 DEF ReportsTrue
<1> QED
  BY <1>3, <1>5 DEF TextsConsistent

-----------------------------------------------------------------------------
(****************************************************************************)
(* The theorems.                                                            *)
(****************************************************************************)
(* The inductive invariant: what the schema, transactions and statements    *)
(* refer to is what is counted and what exists, and each text has one owner.*)
THEOREM AlwaysConsistent == Spec => [](ObjectsConsistent /\ TextsConsistent)
<1>1. Init => ObjectsConsistent /\ TextsConsistent
  BY InitObjects, InitTexts
<1>2. ObjectsConsistent /\ TextsConsistent /\ [Next]_vars => ObjectsConsistent' /\ TextsConsistent'
  BY NextObjects, NextTexts
<1> QED
  BY <1>1, <1>2, PTL DEF Spec

(* Every variable keeps its type; at no time are there two objects of       *)
(* Derived for a connection, or two cursors for a statement.                *)
THEOREM TablesTypeCorrect == Spec => []TypeOK
<1>1. ObjectsConsistent /\ TextsConsistent => TypeOK
  BY DEF TypeOK, ObjectsConsistent, ObjectsTyped, TextsConsistent, TextsOwned, ReportsTrue
<1> QED
  BY <1>1, AlwaysConsistent, PTL

(* An object of Derived exists exactly as long as somebody refers to it, an *)
(* open cursor keeps it, and with the connection and the statements the     *)
(* last one goes: SQLite's callbacks never meet a deleted object.           *)
THEOREM ObjectsLiveAsLongAsNeeded == Spec => []ObjectLifetimes
<1>1. ObjectsConsistent => TableObjects
  BY DEF ObjectsConsistent, ObjectIsLive, LiveIsHeld, TableObjects
<1>2. ObjectsConsistent => CursorsHaveTables
  <2> SUFFICES ASSUME ObjectsConsistent, NEW s \in Stmts, cursors[s] = 1
               PROVE  on[s] # None /\ objects[on[s]] = 1
    BY DEF CursorsHaveTables
  <2>1. st[s] # "none" /\ pVtab[on[s]] = "live"
    BY DEF ObjectsConsistent, CursorsAreLive
  <2>2. on[s] \in VTabs /\ on[s] # None
    BY <2>1, HasTable, NoneAssumption
  <2> QED
    BY <2>1, <2>2 DEF ObjectsConsistent, ObjectIsLive
<1>3. ObjectsConsistent => NothingLeft
  <2> SUFFICES ASSUME ObjectsConsistent, ~open, Idle, \A s \in Stmts : st[s] = "none",
                      NEW v \in VTabs
               PROVE  objects[v] = 0
    BY DEF NothingLeft
  <2>1. "schema" \notin refs[v]
    BY NoneAssumption DEF ObjectsConsistent, SchemaIsLive, RefsCounted
  <2>2. "transaction" \notin refs[v]
    BY DEF ObjectsConsistent, SchemaIsLive, Joined
  <2>3. \A s \in Stmts : s \notin refs[v]
    BY NoneAssumption DEF ObjectsConsistent, CursorsAreLive, RefsCounted
  <2>4. refs[v] = {}
    BY <2>1, <2>2, <2>3 DEF ObjectsConsistent, ObjectsTyped, Holders
  <2> QED
    BY <2>4 DEF ObjectsConsistent, ObjectIsLive, LiveIsHeld
<1>4. ObjectsConsistent /\ TextsConsistent => ObjectLifetimes
  BY <1>1, <1>2, <1>3 DEF ObjectLifetimes
<1> QED
  BY <1>4, AlwaysConsistent, PTL

(* set_error_message and SQLite both free zErrMsg, and no text is freed     *)
(* twice, nor is a freed one left in zErrMsg.                               *)
THEOREM NoTextFreedTwice == Spec => []TextsFreedOnce
<1>1. ObjectsConsistent /\ TextsConsistent => TextsFreedOnce
  BY DEF TextsConsistent, TextsOwned
<1> QED
  BY <1>1, AlwaysConsistent, PTL

(* A text from the heap that is not freed was thrown by a method after which *)
(* SQLite does not look at zErrMsg.                                          *)
THEOREM OnlyUnheardTextsAreLost == Spec => []LostOnlyIfUnheard
<1>1. ObjectsConsistent /\ TextsConsistent => LostOnlyIfUnheard
  BY DEF TextsConsistent, TextsOwned
<1> QED
  BY <1>1, AlwaysConsistent, PTL

(* A failure has the text of the exception that caused it; where that has   *)
(* none, only the text of one that was not heard of can take its place.     *)
THEOREM FailuresReportTheirOwnText == Spec => []OwnReport
<1>1. ObjectsConsistent /\ TextsConsistent => OwnReport
  BY DEF TextsConsistent, ReportsTrue
<1> QED
  BY <1>1, AlwaysConsistent, PTL
===============================================================================
