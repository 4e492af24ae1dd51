------------------------- MODULE FunctionCallProofs -------------------------
(****************************************************************************)
(* Proofs about FunctionCall and the operators of Values, for any user data *)
(* and any number of views.                                                 *)
(****************************************************************************)
EXTENDS FunctionCall, TLAPS

(****************************************************************************)
(* Cells that occur.  A null is nothing else, a zero blob is no text, and   *)
(* everything else has a representation to convert from.                    *)
(****************************************************************************)
Sensible(c) ==
  /\ {"null", "number", "text", "blob"} \cap c.flags # {}
  /\ "null" \in c.flags => c.flags = {"null"}
  /\ "zero" \in c.flags => "blob" \in c.flags /\ "text" \notin c.flags

(****************************************************************************)
(* How often the content of a cell may still move: to expand a zero blob,   *)
(* which also loses the terminator, to convert the encoding, to terminate a *)
(* text, and to give a number its text, once numeric_type is through.       *)
(****************************************************************************)
Left(c) == (IF "zero" \in c.flags THEN 2 ELSE 0)
           + (IF c.encoding = "utf16" THEN 1 ELSE 0)
           + (IF "term" \in c.flags THEN 0 ELSE 1)
           + (IF {"number", "text"} \subseteq c.flags THEN 0 ELSE 1)

(* This is why the counters of a cell are bounded. *)
Fit(c) ==
  /\ c \in Cells
  /\ Sensible(c)
  /\ "null" \notin c.flags => c.place + Left(c) <= 6 /\ c.length + Left(c) <= 6

(* A text or blob that has been read as a string_view does not move again. *)
Settled(c) == {"text", "blob"} \cap c.flags # {} =>
                "term" \in c.flags /\ c.encoding = "utf8" /\ "zero" \notin c.flags

(* Who may hold a datum. *)
Holders == {"column"} \cup AuxArgs

Holder(h) == IF h = "column" THEN cell["column"].backing ELSE aux[h]

(****************************************************************************)
(* The parts of the inductive invariant.                                    *)
(****************************************************************************)
AllFit == \A s \in Sources : Fit(cell[s])

OnlyResultIsBacked == cell["argument"].backing = None /\ cell["copy"].backing = None

OneHolder == \A h, i \in Holders : Holder(h) = Holder(i) /\ Holder(h) # None => h = i

Counted == \A d \in Data :
             /\ destroyed[d] > 0 \/ Holds(d) => d \in given
             /\ Holds(d) => destroyed[d] = 0
             /\ d \in given /\ ~Holds(d) => destroyed[d] = 1

(* A call that has set the data of the argument is marked. *)
AuxMarked == aux["varying"] # None => phase = "call" /\ isError # "none"

(* A view ends with its value, and falls behind when the content moves. *)
Follows(w, cells, now) ==
  w # NoView =>
    /\ w.source = "argument" => now = "call"
    /\ w.source = "column" => now = "row"
    /\ w.source = "copy" => cells["copy"] # NullCell
    /\ w.place <= cells[w.source].place
    /\ w.kind = "string_view" /\ w.place = cells[w.source].place => Settled(cells[w.source])

ViewsFollow == \A v \in Views : Follows(view[v], cell, phase)

Consistent ==
  /\ TypeOK /\ AllFit /\ OnlyResultIsBacked
  /\ OneHolder /\ Counted
  /\ AuxMarked
  /\ ViewsFollow

-----------------------------------------------------------------------------
(****************************************************************************)
(* The operators of Values.                                                 *)
(****************************************************************************)
(* What a conversion may do: give up the buffer, move the content on.       *)
Converts(c, r) ==
  /\ Fit(r) /\ "null" \notin r.flags
  /\ r.backing \in {c.backing, None}
  /\ c.place <= r.place

(* One conversion after the other is a conversion. *)
LEMMA ConvertsChain ==
  ASSUME NEW c, NEW d, NEW e, Fit(c), Converts(c, d), Converts(d, e)
  PROVE  Converts(c, e)
<1>1. c.place \in Nat /\ d.place \in Nat /\ e.place \in Nat
  BY DEF Fit, Cells, Counters, Converts
<1> QED
  BY <1>1 DEF Converts

(* A cell that is left alone. *)
LEMMA ConvertsSame ==
  ASSUME NEW c, Fit(c), "null" \notin c.flags
  PROVE  Converts(c, c)
  BY DEF Converts, Fit, Cells, Counters

(* The fields of a cell. *)
LEMMA CellFields ==
  ASSUME NEW c, Fit(c)
  PROVE  /\ c \in Cells /\ c.flags \subseteq Flags /\ c.encoding \in Encodings
         /\ c.backing \in Data \cup {None}
         /\ c.place \in 0..6 /\ c.length \in 0..6
         /\ Left(c) \in 0..5
<1>1. /\ c \in Cells /\ c.flags \subseteq Flags /\ c.encoding \in Encodings
      /\ c.backing \in Data \cup {None}
      /\ c.place \in 0..6 /\ c.length \in 0..6
  BY DEF Fit, Cells, Counters
<1>2. Left(c) \in 0..5
  BY DEF Left
<1> QED
  BY <1>1, <1>2

(* Cells with counters that have no bound. *)
Wide == [flags : SUBSET Flags, encoding : Encodings, backing : Data \cup {None},
         place : Nat, length : Nat]

(* A cell fits if its counters leave room for the moves that are left. *)
LEMMA WideFits ==
  ASSUME NEW c \in Wide, Sensible(c), c.place <= 6, c.length <= 6,
         "null" \notin c.flags => c.place + Left(c) <= 6 /\ c.length + Left(c) <= 6
  PROVE  Fit(c)
  BY DEF Wide, Fit, Cells, Counters

(* A content that fits is within the wide bounds. *)
LEMMA FitIsWide ==
  ASSUME NEW c, Fit(c)
  PROVE  c \in Wide
  BY DEF Wide, Fit, Cells, Counters

(* Other flags. *)
LEMMA FlagsFields ==
  ASSUME NEW c \in Wide, NEW f \in SUBSET Flags
  PROVE  LET r == [c EXCEPT !.flags = f] IN
           /\ r \in Wide /\ r.flags = f /\ r.encoding = c.encoding
           /\ r.backing = c.backing /\ r.place = c.place /\ r.length = c.length
  BY DEF Wide

(* sqlite3VdbeMemGrow. *)
LEMMA MovedFields ==
  ASSUME NEW c \in Wide
  PROVE  /\ Moved(c) \in Wide /\ Moved(c).flags = c.flags /\ Moved(c).encoding = c.encoding
         /\ Moved(c).backing = None /\ Moved(c).place = c.place + 1
         /\ Moved(c).length = c.length
<1> DEFINE d == [c EXCEPT !.place = @ + 1]
<1>1. /\ d \in Wide /\ d.flags = c.flags /\ d.encoding = c.encoding
      /\ d.place = c.place + 1 /\ d.length = c.length
  BY DEF Wide
<1>2. Moved(c) = [d EXCEPT !.backing = None]
  BY DEF Moved
<1> HIDE DEF d
<1> QED
  BY <1>1, <1>2 DEF Wide

(* sqlite3VdbeMemExpandBlob moves a zero blob, once. *)
LEMMA ExpandedConverts ==
  ASSUME NEW c, Fit(c), "null" \notin c.flags
  PROVE  /\ Converts(c, Expanded(c))
         /\ "zero" \notin Expanded(c).flags
         /\ "zero" \notin c.flags => Expanded(c) = c
         /\ {"text", "blob"} \cap c.flags # {} => {"text", "blob"} \cap Expanded(c).flags # {}
<1>1. CASE "zero" \notin c.flags
  BY <1>1, ConvertsSame DEF Expanded
<1>2. CASE "zero" \in c.flags
  <2> DEFINE d == [c EXCEPT !.flags = @ \ {"zero", "term"}]
             r == Expanded(c)
  <2>1. r = Moved(d)
    BY <1>2 DEF Expanded
  <2>2. /\ d \in Wide /\ d.flags = c.flags \ {"zero", "term"} /\ d.encoding = c.encoding
        /\ d.place = c.place /\ d.length = c.length
    BY CellFields, FitIsWide, FlagsFields
  <2> HIDE DEF d, r
  <2>3. /\ r \in Wide /\ r.flags = c.flags \ {"zero", "term"} /\ r.encoding = c.encoding
        /\ r.backing = None /\ r.place = c.place + 1 /\ r.length = c.length
    BY <2>1, <2>2, MovedFields
  <2>4. Left(r) + 1 <= Left(c) /\ Left(r) \in 0..5
    BY <1>2, <2>3 DEF Left
  <2>5. Sensible(r)
    BY <1>2, <2>3 DEF Sensible, Fit
  <2>6. c.place + Left(c) <= 6 /\ c.length + Left(c) <= 6
    BY DEF Fit
  <2>7. Fit(r)
    BY <2>3, <2>4, <2>5, <2>6, CellFields, WideFits
  <2>8. Converts(c, r)
    BY <2>3, <2>7, CellFields DEF Converts
  <2> QED
    BY <1>2, <2>3, <2>8 DEF r
<1> QED
  BY <1>1, <1>2

(* A flag more, for a representation the cell has got. *)
LEMMA FlagConverts ==
  ASSUME NEW c, Fit(c), "null" \notin c.flags, "zero" \notin c.flags,
         NEW f \in {"text", "blob", "term"}
  PROVE  LET r == [c EXCEPT !.flags = @ \cup {f}] IN
           /\ Converts(c, r) /\ r.flags = c.flags \cup {f} /\ r.encoding = c.encoding
           /\ r.place = c.place /\ r.length = c.length /\ r.backing = c.backing
           /\ r \in Wide /\ Left(r) <= Left(c)
<1> DEFINE r == [c EXCEPT !.flags = @ \cup {f}]
<1>1. c.flags \cup {f} \in SUBSET Flags
  BY CellFields DEF Flags
<1>2. /\ r \in Wide /\ r.flags = c.flags \cup {f} /\ r.encoding = c.encoding
      /\ r.place = c.place /\ r.length = c.length /\ r.backing = c.backing
  BY <1>1, FitIsWide, FlagsFields
<1> HIDE DEF r
<1>3. Left(r) <= Left(c) /\ Left(r) \in 0..5
  BY <1>2 DEF Left
<1>4. Sensible(r)
  BY <1>2 DEF Sensible, Fit
<1>5. c.place + Left(c) <= 6 /\ c.length + Left(c) <= 6
  BY DEF Fit
<1>6. Fit(r)
  BY <1>2, <1>3, <1>4, <1>5, CellFields, WideFits
<1>7. Converts(c, r)
  BY <1>2, <1>6, CellFields DEF Converts
<1> QED
  BY <1>2, <1>3, <1>7 DEF r

(* A text that has another length and encoding, before it is moved. *)
Rewritten(c, f, e, n) == [c EXCEPT !.flags = f, !.encoding = e, !.length = n]

(* The fields of a content that was converted. *)
LEMMA RewrittenFields ==
  ASSUME NEW c \in Wide, NEW f \in SUBSET Flags, NEW e \in Encodings, NEW n \in Nat
  PROVE  LET r == Rewritten(c, f, e, n) IN
           /\ r \in Wide /\ r.flags = f /\ r.encoding = e
           /\ r.backing = c.backing /\ r.place = c.place /\ r.length = n
<1> DEFINE d == [c EXCEPT !.flags = f]
           g == [d EXCEPT !.encoding = e]
           r == Rewritten(c, f, e, n)
<1>1. /\ d \in Wide /\ d.flags = f
      /\ d.backing = c.backing /\ d.place = c.place
  BY DEF Wide
<1>2. r = [g EXCEPT !.length = n]
  BY DEF Rewritten
<1> HIDE DEF d
<1>3. /\ g \in Wide /\ g.flags = f /\ g.encoding = e
      /\ g.backing = c.backing /\ g.place = c.place
  BY <1>1 DEF Wide
<1> HIDE DEF g, r
<1>4. /\ r \in Wide /\ r.flags = f /\ r.encoding = e
      /\ r.backing = c.backing /\ r.place = c.place /\ r.length = n
  BY <1>2, <1>3 DEF Wide
<1> QED
  BY <1>4 DEF r

(* sqlite3VdbeMemStringify gives a number its text, once. *)
LEMMA StringifiedConverts ==
  ASSUME NEW c, Fit(c), "null" \notin c.flags, {"text", "blob"} \cap c.flags = {}
  PROVE  /\ Converts(c, Stringified(c)) /\ Stringified(c).place > c.place
         /\ {"text", "term"} \subseteq Stringified(c).flags
         /\ Stringified(c).encoding = "utf8"
<1> DEFINE f == c.flags \cup {"text", "term"}
           n == c.length + 1
           d == Rewritten(c, f, "utf8", n)
           r == Stringified(c)
<1>1. r = Moved(d) /\ f \in SUBSET Flags /\ "utf8" \in Encodings
  BY CellFields DEF Stringified, Rewritten, Flags, Encodings
<1> HIDE DEF f, r
<1>2. d \in Wide /\ d.flags = f /\ d.encoding = "utf8"
      /\ d.place = c.place /\ d.length = c.length + 1
  <2>1. c \in Wide /\ n \in Nat
    BY FitIsWide DEF Wide
  <2> HIDE DEF n
  <2>2. d \in Wide /\ d.flags = f /\ d.encoding = "utf8"
        /\ d.place = c.place /\ d.length = n
    BY <1>1, <2>1, RewrittenFields
  <2> QED
    BY <2>2 DEF n
<1> HIDE DEF d
<1> USE DEF f
<1>3. /\ r \in Wide /\ r.flags = f /\ r.encoding = "utf8"
      /\ r.backing = None /\ r.place = c.place + 1 /\ r.length = c.length + 1
  BY <1>1, <1>2, MovedFields
<1>4. "number" \in c.flags /\ "zero" \notin c.flags
  BY DEF Fit, Sensible
<1>5. Left(r) + 1 <= Left(c) /\ Left(r) \in 0..5
  BY <1>3, <1>4 DEF Left
<1>6. c.place + Left(c) <= 6 /\ c.length + Left(c) <= 6
  BY DEF Fit
<1>7. Sensible(r) /\ "null" \notin r.flags
  BY <1>3, <1>4 DEF Sensible
<1>8. Fit(r)
  BY <1>3, <1>5, <1>6, <1>7, CellFields, WideFits
<1>9. Converts(c, r)
  BY <1>3, <1>7, <1>8, CellFields DEF Converts
<1>10. r.place > c.place /\ {"text", "term"} \subseteq r.flags /\ r.encoding = "utf8"
  BY <1>3, CellFields
<1> QED
  BY <1>9, <1>10 DEF r

(* sqlite3VdbeChangeEncoding to UTF-8 moves a text once. *)
LEMMA EncodingConverts ==
  ASSUME NEW c, Fit(c), "null" \notin c.flags, "text" \in c.flags
  PROVE  /\ Converts(c, InEncoding(c, "utf8"))
         /\ InEncoding(c, "utf8").encoding = "utf8"
         /\ c.flags \subseteq InEncoding(c, "utf8").flags
         /\ InEncoding(c, "utf8").flags \subseteq c.flags \cup {"term"}
         /\ c.encoding = "utf8" => InEncoding(c, "utf8").place = c.place
<1> DEFINE f == c.flags \cup {"term"}
           n == c.length + 1
           d == Rewritten(c, f, "utf8", n)
           r == InEncoding(c, "utf8")
<1>1. CASE c.encoding = "utf8"
  <2>1. r = [c EXCEPT !.encoding = "utf8"]
    BY <1>1 DEF InEncoding
  <2>2. c \in Wide
    BY FitIsWide
  <2> HIDE DEF r
  <2>3. r = c
    BY <1>1, <2>1, <2>2 DEF Wide
  <2> QED
    BY <1>1, <2>3, ConvertsSame DEF r
<1>2. CASE c.encoding # "utf8"
  <2>1. r = Moved(d)
    BY <1>2 DEF InEncoding, Rewritten
  <2>2. f \in SUBSET Flags /\ "utf8" \in Encodings
    BY CellFields DEF Flags, Encodings
  <2> HIDE DEF f, r
  <2>3. d \in Wide /\ d.flags = f /\ d.encoding = "utf8"
        /\ d.place = c.place /\ d.length = c.length + 1
    <3>1. c \in Wide /\ n \in Nat
      BY FitIsWide DEF Wide
    <3> HIDE DEF n
    <3>2. d \in Wide /\ d.flags = f /\ d.encoding = "utf8"
          /\ d.place = c.place /\ d.length = n
      BY <2>2, <3>1, RewrittenFields
    <3> QED
      BY <3>2 DEF n
  <2> HIDE DEF d
  <2> USE DEF f
  <2>4. /\ r \in Wide /\ r.flags = f /\ r.encoding = "utf8"
        /\ r.backing = None /\ r.place = c.place + 1 /\ r.length = c.length + 1
    BY <2>1, <2>3, MovedFields
  <2>5. c.encoding = "utf16" /\ "zero" \notin c.flags
    BY <1>2, CellFields DEF Encodings, Fit, Sensible
  <2>6. Left(r) + 1 <= Left(c) /\ Left(r) \in 0..5
    BY <2>4, <2>5 DEF Left
  <2>7. c.place + Left(c) <= 6 /\ c.length + Left(c) <= 6
    BY DEF Fit
  <2>8. Sensible(r) /\ "null" \notin r.flags
    BY <2>4, <2>5 DEF Sensible
  <2>9. Fit(r)
    BY <2>4, <2>6, <2>7, <2>8, CellFields, WideFits
  <2>10. Converts(c, r)
    BY <2>4, <2>8, <2>9, CellFields DEF Converts
  <2> QED
    BY <1>2, <2>4, <2>10 DEF r
<1> QED
  BY <1>1, <1>2

(* sqlite3VdbeMemNulTerminate moves a text once. *)
LEMMA TerminatedConverts ==
  ASSUME NEW c, Fit(c), "null" \notin c.flags, "zero" \notin c.flags
  PROVE  /\ Converts(c, Terminated(c))
         /\ Terminated(c).encoding = c.encoding
         /\ Terminated(c).flags = c.flags \cup {"term"}
         /\ "term" \in c.flags => Terminated(c).place = c.place
<1>1. CASE "term" \in c.flags
  BY <1>1, ConvertsSame DEF Terminated
<1>2. CASE "term" \notin c.flags
  <2> DEFINE d == [c EXCEPT !.flags = @ \cup {"term"}]
             r == Terminated(c)
  <2>1. r = Moved(d)
    BY <1>2 DEF Terminated
  <2>2. /\ d \in Wide /\ d.flags = c.flags \cup {"term"} /\ d.encoding = c.encoding
        /\ d.place = c.place /\ d.length = c.length
    BY FlagConverts
  <2> HIDE DEF d, r
  <2>3. /\ r \in Wide /\ r.flags = c.flags \cup {"term"} /\ r.encoding = c.encoding
        /\ r.backing = None /\ r.place = c.place + 1 /\ r.length = c.length
    BY <2>1, <2>2, MovedFields
  <2>4. Left(r) + 1 <= Left(c) /\ Left(r) \in 0..5
    BY <1>2, <2>3 DEF Left
  <2>5. c.place + Left(c) <= 6 /\ c.length + Left(c) <= 6
    BY DEF Fit
  <2>6. Sensible(r) /\ "null" \notin r.flags
    BY <2>3 DEF Sensible, Fit
  <2>7. Fit(r)
    BY <2>3, <2>4, <2>5, <2>6, CellFields, WideFits
  <2>8. Converts(c, r)
    BY <2>3, <2>6, <2>7, CellFields DEF Converts
  <2> QED
    BY <1>2, <2>3, <2>8 DEF r
<1> QED
  BY <1>1, <1>2

(* What the reading functions of SQLite do to a value that is not null:      *)
(* a number alone gets a text elsewhere, and what is in UTF-8 and terminated *)
(* stays where it is.                                                        *)
Reads(c, r) ==
  /\ Converts(c, r)
  /\ {"text", "blob"} \cap r.flags # {}
  /\ {"text", "blob"} \cap c.flags = {} => r.place > c.place
  /\ {"text", "blob"} \cap c.flags # {} /\ Settled(c) => r.place = c.place /\ Settled(r)

(* sqlite3_value_text: a UTF-8 text with a terminator. *)
LEMMA AfterTextReads ==
  ASSUME NEW c, Fit(c), "null" \notin c.flags
  PROVE  /\ Reads(c, AfterText(c)) /\ Settled(AfterText(c))
         /\ "text" \in AfterText(c).flags /\ AfterText(c).encoding = "utf8"
<1> DEFINE a == AfterText(c)
<1>1. CASE {"text", "term"} \subseteq c.flags /\ c.encoding = "utf8"
  <2>1. a = c
    BY <1>1 DEF AfterText
  <2>2. Settled(c)
    BY <1>1 DEF Settled, Fit, Sensible
  <2> QED
    BY <1>1, <2>1, <2>2, ConvertsSame DEF Reads
<1>2. CASE {"text", "blob"} \cap c.flags = {}
  <2>1. a = Stringified(c)
    BY <1>2 DEF AfterText
  <2> HIDE DEF a
  <2>2. /\ Converts(c, a) /\ a.place > c.place
        /\ {"text", "term"} \subseteq a.flags /\ a.encoding = "utf8"
    BY <1>2, <2>1, StringifiedConverts
  <2>3. Settled(a)
    BY <2>2 DEF Settled, Converts, Fit, Sensible
  <2> QED
    BY <1>2, <2>2, <2>3 DEF Reads, a
<1>3. CASE /\ {"text", "blob"} \cap c.flags # {}
           /\ ~({"text", "term"} \subseteq c.flags /\ c.encoding = "utf8")
  <2> DEFINE x == Expanded(c)
             t == [x EXCEPT !.flags = @ \cup {"text"}]
             e == InEncoding(t, "utf8")
  <2>1. a = Terminated(e)
    BY <1>3 DEF AfterText
  <2>2. Converts(c, x) /\ "zero" \notin x.flags /\ ("zero" \notin c.flags => x = c)
    BY ExpandedConverts
  <2> HIDE DEF a, x
  <2>3. Fit(x) /\ "null" \notin x.flags
    BY <2>2 DEF Converts
  <2>4. /\ Converts(x, t) /\ t.flags = x.flags \cup {"text"} /\ t.encoding = x.encoding
        /\ t.place = x.place
    BY <2>2, <2>3, FlagConverts
  <2> HIDE DEF t
  <2>5. Fit(t) /\ "null" \notin t.flags /\ "text" \in t.flags /\ "zero" \notin t.flags
    BY <2>2, <2>4 DEF Converts
  <2>6. /\ Converts(t, e) /\ e.encoding = "utf8" /\ t.flags \subseteq e.flags
        /\ e.flags \subseteq t.flags \cup {"term"}
        /\ t.encoding = "utf8" => e.place = t.place
    BY <2>5, EncodingConverts
  <2> HIDE DEF e
  <2>7. Fit(e) /\ "null" \notin e.flags /\ "text" \in e.flags /\ "zero" \notin e.flags
    BY <2>5, <2>6 DEF Converts
  <2>8. /\ Converts(e, a) /\ a.encoding = e.encoding /\ a.flags = e.flags \cup {"term"}
        /\ "term" \in e.flags => a.place = e.place
    BY <2>1, <2>7, TerminatedConverts
  <2>9. Converts(c, a)
    <3>1. Converts(c, t)
      BY <2>2, <2>4, ConvertsChain
    <3>2. Converts(c, e)
      BY <3>1, <2>6, ConvertsChain
    <3> QED
      BY <3>2, <2>8, ConvertsChain
  <2>10. "text" \in a.flags /\ a.encoding = "utf8" /\ Settled(a)
    BY <2>6, <2>7, <2>8 DEF Settled
  <2>11. Settled(c) => a.place = c.place
    BY <1>3, <2>2, <2>4, <2>6, <2>8 DEF Settled
  <2> QED
    BY <1>3, <2>9, <2>10, <2>11 DEF Reads, a
<1> QED
  BY <1>1, <1>2, <1>3

(* sqlite3_value_blob. *)
LEMMA AfterBlobReads ==
  ASSUME NEW c, Fit(c), "null" \notin c.flags
  PROVE  /\ Reads(c, AfterBlob(c))
         /\ \/ "blob" \in AfterBlob(c).flags
            \/ "text" \in AfterBlob(c).flags /\ AfterBlob(c).encoding = "utf8"
<1>1. CASE {"text", "blob"} \cap c.flags = {}
  BY <1>1, AfterTextReads DEF AfterBlob
<1>2. CASE {"text", "blob"} \cap c.flags # {}
  <2> DEFINE x == Expanded(c)
             r == [x EXCEPT !.flags = @ \cup {"blob"}]
  <2>1. AfterBlob(c) = r
    BY <1>2 DEF AfterBlob
  <2>2. Converts(c, x) /\ "zero" \notin x.flags /\ ("zero" \notin c.flags => x = c)
    BY ExpandedConverts
  <2> HIDE DEF x
  <2>3. Fit(x) /\ "null" \notin x.flags
    BY <2>2 DEF Converts
  <2>4. /\ Converts(x, r) /\ r.flags = x.flags \cup {"blob"} /\ r.encoding = x.encoding
        /\ r.place = x.place
    BY <2>2, <2>3, FlagConverts
  <2> HIDE DEF r
  <2>5. Converts(c, r)
    BY <2>2, <2>4, ConvertsChain
  <2>6. Settled(c) => r.place = c.place /\ Settled(r)
    BY <1>2, <2>2, <2>4 DEF Settled
  <2> QED
    BY <1>2, <2>1, <2>4, <2>5, <2>6 DEF Reads
<1> QED
  BY <1>1, <1>2

(* value::get and statement::column_value: the second call of the two finds *)
(* its work done, so the view fits the cell.                                *)
LEMMA GetReads ==
  ASSUME NEW c, Fit(c), "null" \notin c.flags, NEW kind \in {"string_view", "blob_view"}
  PROVE  /\ Reads(c, Get(kind, c).cell)
         /\ kind = "string_view" => Settled(Get(kind, c).cell)
         /\ Get(kind, c).view.kind = kind
         /\ Get(kind, c).view.place = Get(kind, c).cell.place
         /\ Get(kind, c).view.length = Get(kind, c).cell.length
<1> DEFINE first == IF kind = "string_view" THEN AfterText(c) ELSE AfterBlob(c)
<1>1. /\ Reads(c, first) /\ (kind = "string_view" => Settled(first))
      /\ \/ "blob" \in first.flags
         \/ "text" \in first.flags /\ first.encoding = "utf8"
  BY AfterTextReads, AfterBlobReads
<1>2. /\ Get(kind, c).cell = AfterBytes(first)
      /\ Get(kind, c).view = ViewOf(kind, first, AfterBytes(first))
  BY DEF Get
<1> HIDE DEF first
<1>3. AfterBytes(first) = first
  BY <1>1 DEF AfterBytes
<1>4. Get(kind, c).cell = first /\ Get(kind, c).view = ViewOf(kind, first, first)
  BY <1>2, <1>3
<1> QED
  BY <1>1, <1>4 DEF ViewOf

(* sqlite3_value_numeric_type moves nothing. *)
LEMMA NumericTypeFits ==
  ASSUME NEW c, Fit(c), NEW r \in AfterNumericType(c)
  PROVE  /\ Fit(r) /\ r.place = c.place /\ r.backing = c.backing
         /\ Settled(c) => Settled(r)
<1>1. CASE r = c
  BY <1>1
<1>2. CASE r # c
  <2> DEFINE f == (c.flags \ {"text"}) \cup {"number"}
  <2>1. "text" \in c.flags /\ "number" \notin c.flags /\ r = [c EXCEPT !.flags = f]
    BY <1>2 DEF AfterNumericType
  <2>2. f \in SUBSET Flags /\ c \in Wide
    BY CellFields, FitIsWide DEF Flags
  <2> HIDE DEF f
  <2>3. /\ r \in Wide /\ r.flags = f /\ r.encoding = c.encoding
        /\ r.backing = c.backing /\ r.place = c.place /\ r.length = c.length
    BY <2>1, <2>2, FlagsFields
  <2>4. Sensible(r) /\ "null" \notin c.flags
    BY <2>1, <2>3 DEF Sensible, Fit, f
  <2>5. Left(r) = Left(c)
    BY <2>1, <2>3, <2>4 DEF Left, f, Fit, Sensible
  <2>6. c.place + Left(c) <= 6 /\ c.length + Left(c) <= 6
    BY <2>4 DEF Fit
  <2>7. Fit(r)
    BY <2>3, <2>4, <2>5, <2>6, CellFields, WideFits
  <2>8. Settled(c) => Settled(r)
    BY <2>1, <2>3 DEF Settled, f
  <2> QED
    BY <2>3, <2>7, <2>8
<1> QED
  BY <1>1, <1>2

(* A cell whose content has not moved yet. *)
New(c) == c \in Wide /\ Sensible(c) /\ c.place = 0 /\ c.length = 0

(* A new content has all its conversions before it and still fits. *)
LEMMA NewFits ==
  ASSUME NEW c, New(c)
  PROVE  Fit(c)
<1>1. Left(c) \in 0..5
  BY DEF Left
<1> QED
  BY <1>1, WideFits DEF New

(* The contents that SQLite hands to a call or makes of a result are new. *)
LEMMA CellIsNew ==
  ASSUME NEW f \in SUBSET Flags, NEW e \in Encodings, NEW b \in Data \cup {None},
         {"null", "number", "text", "blob"} \cap f # {},
         "null" \in f => f = {"null"},
         "zero" \in f => "blob" \in f /\ "text" \notin f
  PROVE  New(Cell(f, e, b)) /\ Cell(f, e, b).backing = b /\ Cell(f, e, b).flags = f
  BY DEF New, Cell, Wide, Sensible

(* The copy of a cell. *)
LEMMA DuplicateIsNew ==
  ASSUME NEW c, Fit(c)
  PROVE  New(Duplicate(c)) /\ Duplicate(c).backing = None
<1> DEFINE d1 == [c EXCEPT !.backing = None]
           d2 == [d1 EXCEPT !.place = 0]
           d3 == [c EXCEPT !.backing = None, !.place = 0, !.length = 0]
           r == Duplicate(c)
<1>1. d3 = [d2 EXCEPT !.length = 0]
  OBVIOUS
<1>2. d1 \in Wide /\ d1.flags = c.flags /\ d1.backing = None
  BY FitIsWide DEF Wide
<1> HIDE DEF d1
<1>3. d2 \in Wide /\ d2.flags = c.flags /\ d2.backing = None /\ d2.place = 0
  BY <1>2 DEF Wide
<1>4. r = IF "zero" \in c.flags THEN [d3 EXCEPT !.flags = @ \ {"zero", "term"}]
          ELSE IF {"text", "blob"} \cap c.flags # {} THEN [d3 EXCEPT !.flags = @ \cup {"term"}]
          ELSE d3
  BY DEF Duplicate
<1> HIDE DEF d2, d3, r
<1>5. d3 \in Wide /\ d3.flags = c.flags /\ d3.backing = None /\ d3.place = 0 /\ d3.length = 0
  BY <1>1, <1>3 DEF Wide
<1>6. CASE "zero" \in c.flags
  <2>1. r = [d3 EXCEPT !.flags = c.flags \ {"zero", "term"}]
    BY <1>4, <1>5, <1>6
  <2>2. c.flags \ {"zero", "term"} \in SUBSET Flags
    BY CellFields
  <2>3. /\ r \in Wide /\ r.flags = c.flags \ {"zero", "term"} /\ r.backing = None
        /\ r.place = 0 /\ r.length = 0
    BY <1>5, <2>1, <2>2, FlagsFields
  <2>4. Sensible(r)
    BY <1>6, <2>3 DEF Fit, Sensible
  <2> QED
    BY <2>3, <2>4 DEF New, r
<1>7. CASE "zero" \notin c.flags /\ {"text", "blob"} \cap c.flags # {}
  <2>1. r = [d3 EXCEPT !.flags = c.flags \cup {"term"}]
    BY <1>4, <1>5, <1>7
  <2>2. c.flags \cup {"term"} \in SUBSET Flags
    BY CellFields DEF Flags
  <2>3. /\ r \in Wide /\ r.flags = c.flags \cup {"term"} /\ r.backing = None
        /\ r.place = 0 /\ r.length = 0
    BY <1>5, <2>1, <2>2, FlagsFields
  <2>4. Sensible(r)
    BY <1>7, <2>3 DEF Fit, Sensible
  <2> QED
    BY <2>3, <2>4 DEF New, r
<1>8. CASE "zero" \notin c.flags /\ {"text", "blob"} \cap c.flags = {}
  <2>1. r = d3
    BY <1>4, <1>8
  <2>2. Sensible(r)
    BY <1>5, <2>1 DEF Fit, Sensible
  <2> QED
    BY <1>5, <2>1, <2>2 DEF New, r
<1> QED
  BY <1>6, <1>7, <1>8

(* sqlite3VdbeChangeEncoding of a new cell; a buffer is kept or given up. *)
LEMMA RecodedFits ==
  ASSUME NEW c, New(c), NEW e \in Encodings
  PROVE  Fit(InEncoding(c, e)) /\ InEncoding(c, e).backing \in {c.backing, None}
<1> DEFINE r == InEncoding(c, e)
<1>0. c \in Wide /\ c.flags \in SUBSET Flags
  BY DEF New, Wide
<1>1. CASE c.encoding = e \/ "text" \notin c.flags
  <2>1. r = [c EXCEPT !.encoding = e]
    BY <1>1 DEF InEncoding
  <2> HIDE DEF r
  <2>2. /\ r \in Wide /\ r.flags = c.flags /\ r.backing = c.backing
        /\ r.place = c.place /\ r.length = c.length
    BY <1>0, <2>1 DEF Wide
  <2>3. New(r)
    BY <2>2 DEF New, Sensible
  <2> QED
    BY <2>2, <2>3, NewFits DEF r
<1>2. CASE ~(c.encoding = e \/ "text" \notin c.flags)
  <2> DEFINE f == c.flags \cup {"term"}
             n == c.length + 1
             d == Rewritten(c, f, e, n)
  <2>1. r = Moved(d)
    BY <1>2 DEF InEncoding, Rewritten
  <2>2. f \in SUBSET Flags /\ n \in Nat /\ n = 1
    BY <1>0 DEF Flags, New
  <2> HIDE DEF n, f, r
  <2>3. d \in Wide /\ d.flags = f /\ d.place = c.place /\ d.length = n
    BY <1>0, <2>2, RewrittenFields
  <2> HIDE DEF d
  <2>4. r \in Wide /\ r.flags = f /\ r.backing = None /\ r.place = 1 /\ r.length = 1
    BY <2>1, <2>2, <2>3, MovedFields DEF New
  <2>5. Sensible(r) /\ "zero" \notin r.flags
    BY <1>2, <2>4 DEF Sensible, f, New
  <2>6. Left(r) \in 0..3
    BY <2>5 DEF Left
  <2>7. Fit(r)
    BY <2>4, <2>5, <2>6, WideFits
  <2> QED
    BY <2>4, <2>7 DEF r
<1> QED
  BY <1>1, <1>2

-----------------------------------------------------------------------------
(****************************************************************************)
(* Ownership.  An operation offers some new data, makes some holders let go *)
(* or take what is offered, and destroys what is not held afterwards.       *)
(****************************************************************************)
LEMMA HoldsIsHolder ==
  ASSUME NEW d
  PROVE  /\ Holds(d) <=> \E h \in Holders : Holder(h) = d
         /\ Holds(d)' <=> \E h \in Holders : Holder(h)' = d
<1>1. /\ Holder("column") = cell["column"].backing
      /\ Holder("column")' = cell'["column"].backing
      /\ "column" \in Holders
  BY DEF Holder, Holders
<1>2. \A a \in AuxArgs : /\ Holder(a) = aux[a] /\ Holder(a)' = aux'[a]
                         /\ a \in Holders /\ a # "column"
  BY DEF Holder, Holders, AuxArgs
<1>3. Holds(d) <=> \E h \in Holders : Holder(h) = d
  BY <1>1, <1>2 DEF Holds, Holders
<1>4. Holds(d)' <=> \E h \in Holders : Holder(h)' = d
  BY <1>1, <1>2 DEF Holds, Holders
<1> QED
  BY <1>3, <1>4

(* A holder has a datum or nothing. *)
LEMMA HolderTyped ==
  ASSUME TypeOK, NEW h \in Holders
  PROVE  Holder(h) \in Data \cup {None}
  BY DEF TypeOK, Holders, Holder, Cells, Sources

(* No datum is destroyed. *)
LEMMA NothingDestroyed ==
  ASSUME TypeOK, UNCHANGED destroyed
  PROVE  Destroy({})
  BY DEF TypeOK, Destroy

(* An operation that treats its holders fairly: what they let go of, and    *)
(* what is offered and not taken, is destroyed, and nothing else.           *)
Fair(offered, dropped) ==
  /\ offered \subseteq Fresh
  /\ given' = given \cup offered
  /\ Destroy(dropped)
  /\ \A h \in Holders : Holder(h)' \in {Holder(h), None} \cup offered
  /\ \A h, i \in Holders : Holder(h)' \in offered /\ Holder(i)' = Holder(h)' => h = i
  /\ \A d \in Data : d \in dropped <=>
       \/ \E h \in Holders : Holder(h) = d /\ Holder(h)' # d
       \/ d \in offered /\ \A h \in Holders : Holder(h)' # d

(* A fair step drops exactly the data that were held or offered and are held no more. *)
LEMMA FairHolds ==
  ASSUME TypeOK, OneHolder, Counted, NEW offered, NEW dropped, Fair(offered, dropped),
         NEW d \in Data
  PROVE  /\ d \in dropped <=> (Holds(d) \/ d \in offered) /\ ~Holds(d)'
         /\ Holds(d)' => Holds(d) \/ d \in offered
         /\ d \in offered => ~Holds(d) /\ d \notin given
<1>1. Holds(d) <=> \E h \in Holders : Holder(h) = d
  BY HoldsIsHolder
<1>2. Holds(d)' <=> \E h \in Holders : Holder(h)' = d
  BY HoldsIsHolder
<1>3. d # None
  BY FunctionCallAssumption
<1>4. d \in offered => ~Holds(d) /\ d \notin given
  BY DEF Fair, Fresh, Counted
<1>5. Holds(d)' => Holds(d) \/ d \in offered
  BY <1>1, <1>2, <1>3 DEF Fair
<1>6. ASSUME NEW h \in Holders, Holder(h) = d, Holder(h)' # d
      PROVE  ~Holds(d)'
  <2>1. d \notin offered
    BY <1>1, <1>4, <1>6
  <2>2. SUFFICES ASSUME NEW i \in Holders, Holder(i)' = d
                 PROVE  FALSE
    BY <1>2
  <2>3. Holder(i) = d
    BY <1>3, <2>1, <2>2 DEF Fair
  <2> QED
    BY <1>3, <1>6, <2>2, <2>3 DEF OneHolder
<1>7. d \in dropped <=> (Holds(d) \/ d \in offered) /\ ~Holds(d)'
  BY <1>1, <1>2, <1>4, <1>6 DEF Fair
<1> QED
  BY <1>4, <1>5, <1>7

(* A fair step keeps the count of each datum right. *)
LEMMA FairCounted ==
  ASSUME TypeOK, OneHolder, Counted, NEW offered, NEW dropped, Fair(offered, dropped)
  PROVE  OneHolder' /\ Counted'
<1>1. OneHolder'
  <2> SUFFICES ASSUME NEW h \in Holders, NEW i \in Holders,
                      Holder(h)' = Holder(i)', Holder(h)' # None
               PROVE  h = i
    BY DEF OneHolder
  <2>1. CASE Holder(h)' \in offered
    BY <2>1 DEF Fair
  <2>2. CASE Holder(h)' \notin offered
    <3>1. Holder(h) = Holder(h)' /\ Holder(i) = Holder(i)'
      BY <2>2 DEF Fair
    <3> QED
      BY <3>1 DEF OneHolder
  <2> QED
    BY <2>1, <2>2
<1>2. Counted'
  <2> SUFFICES ASSUME NEW d \in Data
               PROVE  /\ (destroyed[d])' > 0 \/ Holds(d)' => d \in given'
                      /\ Holds(d)' => (destroyed[d])' = 0
                      /\ d \in given' /\ ~Holds(d)' => (destroyed[d])' = 1
    BY DEF Counted
  <2>1. /\ d \in dropped <=> (Holds(d) \/ d \in offered) /\ ~Holds(d)'
        /\ Holds(d)' => Holds(d) \/ d \in offered
        /\ d \in offered => ~Holds(d) /\ d \notin given
    BY FairHolds
  <2>2. /\ destroyed[d] > 0 \/ Holds(d) => d \in given
        /\ Holds(d) => destroyed[d] = 0
        /\ d \in given /\ ~Holds(d) => destroyed[d] = 1
        /\ destroyed[d] \in Nat
    BY DEF Counted, TypeOK
  <2>3. /\ destroyed'[d] = IF d \in dropped THEN destroyed[d] + 1 ELSE destroyed[d]
        /\ given' = given \cup offered
    BY DEF Fair, Destroy
  <2>4. CASE d \in dropped
    <3>1. destroyed[d] = 0 /\ destroyed'[d] = 1 /\ ~Holds(d)' /\ d \in given'
      BY <2>1, <2>2, <2>3, <2>4
    <3> QED
      BY <3>1
  <2>5. CASE d \notin dropped
    <3>1. destroyed'[d] = destroyed[d] /\ (Holds(d)' <=> Holds(d) \/ d \in offered)
      BY <2>1, <2>3, <2>5
    <3>2. d \in offered => destroyed[d] = 0
      BY <2>1, <2>2
    <3> QED
      BY <2>1, <2>2, <2>3, <3>1, <3>2
  <2> QED
    BY <2>4, <2>5
<1> QED
  BY <1>1, <1>2

(* A fair operation is a transfer of the ownership protocol. *)
LEMMA FairTransfers ==
  ASSUME TypeOK, OneHolder, Counted, NEW offered, NEW dropped, Fair(offered, dropped)
  PROVE  Abstract!Next
<1> DEFINE gone == dropped \cap Data
<1>1. offered \in SUBSET Data /\ gone \in SUBSET Data
  BY DEF Fair, Fresh
<1>2. \A d \in Data :
        /\ d \in dropped <=> (Holds(d) \/ d \in offered) /\ ~Holds(d)'
        /\ Holds(d)' => Holds(d) \/ d \in offered
        /\ d \in offered => ~Holds(d) /\ d \notin given
  BY FairHolds
<1>3. \A d \in Data : destroyed[d] > 0 \/ Holds(d) => d \in given
  BY DEF Counted
<1>4. /\ \A d \in Data : destroyed[d] \in Nat
      /\ given' = given \cup offered
      /\ destroyed' = [d \in Data |-> IF d \in gone THEN destroyed[d] + 1 ELSE destroyed[d]]
  BY DEF TypeOK, Fair, Destroy
<1>5. \A d \in offered : owner[d] = "caller"
  BY <1>1, <1>2, <1>3 DEF owner
<1>6. \A d \in gone : owner[d] = "library" \/ d \in offered
  BY <1>2 DEF owner
<1>7. owner' = [d \in Data |-> IF d \in gone THEN "nobody"
                               ELSE IF d \in offered THEN "library" ELSE owner[d]]
  <2>1. ASSUME NEW d \in Data
        PROVE  (IF Holds(d)' THEN "library"
                ELSE IF destroyed'[d] > 0 THEN "nobody"
                ELSE IF d \in given' THEN "lost" ELSE "caller")
               = IF d \in gone THEN "nobody"
                 ELSE IF d \in offered THEN "library" ELSE owner[d]
    <3>1. CASE d \in gone
      <4>1. ~Holds(d)' /\ destroyed'[d] > 0
        BY <1>2, <1>4, <3>1
      <4> QED
        BY <3>1, <4>1
    <3>2. CASE d \notin gone /\ d \in offered
      BY <1>2, <3>2
    <3>3. CASE d \notin gone /\ d \notin offered
      <4>1. (Holds(d)' <=> Holds(d)) /\ destroyed'[d] = destroyed[d]
            /\ (d \in given' <=> d \in given)
        BY <1>2, <1>4, <3>3
      <4> QED
        BY <3>3, <4>1 DEF owner
    <3> QED
      BY <3>1, <3>2, <3>3
  <2>2. owner' = [d \in Data |-> IF Holds(d)' THEN "library"
                                 ELSE IF destroyed'[d] > 0 THEN "nobody"
                                 ELSE IF d \in given' THEN "lost" ELSE "caller"]
    BY DEF owner
  <2> HIDE DEF gone
  <2> QED
    BY <2>1, <2>2
<1>8. Abstract!Transfer(offered, gone)
  BY <1>4, <1>5, <1>6, <1>7 DEF Abstract!Transfer
<1> HIDE DEF gone
<1> QED
  BY <1>1, <1>8 DEF Abstract!Next

-----------------------------------------------------------------------------
(****************************************************************************)
(* The operations.  What every operation has to show, besides the types of  *)
(* what it changes: that it is fair and that the views still follow.        *)
(****************************************************************************)
Shown == [kind : {"string_view", "blob_view"}, place : Counters, length : Counters,
          source : Sources]

Errors == {"none", "auxdata", "failed"}

(* What ViewFits and StringViewsLast say of one step. *)
ViewsStep ==
  \A v \in Views :
    /\ view'[v] # view[v] /\ view'[v] # NoView =>
         Valid(v)' /\ view'[v].length = cell'[view'[v].source].length
    /\ view[v].kind = "string_view" /\ view'[v] = view[v] /\ Valid(v) =>
         Valid(v)' \/ {"text", "blob"} \cap cell[view[v].source].flags = {}

Kept == Consistent' /\ Abstract!Next /\ ViewsStep

(* What an operation has to show so that the invariant is kept. *)
LEMMA StepCloses ==
  ASSUME Consistent,
         phase' \in {"idle", "call", "row"}, database' = database,
         cell' \in [Sources -> Cells], AllFit', OnlyResultIsBacked',
         view' \in [Views -> {NoView} \cup Shown], ViewsFollow', ViewsStep,
         aux' \in [AuxArgs -> Data \cup {None}], isError' \in Errors, AuxMarked',
         NEW offered, NEW dropped, Fair(offered, dropped)
  PROVE  Kept
<1>1. TypeOK /\ OneHolder /\ Counted
  BY DEF Consistent
<1>2. OneHolder' /\ Counted' /\ Abstract!Next
  BY <1>1, FairCounted, FairTransfers
<1>3. destroyed' \in [Data -> Nat] /\ given' \subseteq Data
  BY <1>1 DEF TypeOK, Fair, Destroy, Fresh
<1>4. TypeOK'
  BY <1>1, <1>3 DEF TypeOK, Shown, Errors
<1> QED
  BY <1>2, <1>4 DEF Consistent, Kept

(* The content of one cell is replaced. *)
LEMMA CellPut ==
  ASSUME TypeOK, AllFit, NEW s \in Sources, NEW c, Fit(c), cell' = [cell EXCEPT ![s] = c]
  PROVE  /\ cell' \in [Sources -> Cells] /\ AllFit'
         /\ cell'[s] = c /\ \A t \in Sources \ {s} : cell'[t] = cell[t]
<1>1. c \in Cells
  BY DEF Fit
<1>2. cell' \in [Sources -> Cells]
  BY <1>1 DEF TypeOK
<1>3. cell'[s] = c /\ \A t \in Sources \ {s} : cell'[t] = cell[t]
  BY DEF TypeOK
<1>4. \A t \in Sources : Fit(cell'[t])
  BY <1>3 DEF AllFit
<1> QED
  BY <1>2, <1>3, <1>4 DEF AllFit

(* Views are only forgotten, and the content that the others show stays where *)
(* it is.                                                                     *)
Stays(w) == Follows(w, cell', phase') /\ cell'[w.source].place = cell[w.source].place

(* Views that are not forgotten keep their content if it stays. *)
LEMMA ViewsKept ==
  ASSUME TypeOK, ViewsFollow, NEW gone, Forget(gone),
         \A w \in Shown : w.source \notin gone /\ Follows(w, cell, phase) => Stays(w)
  PROVE  ViewsFollow' /\ view' \in [Views -> {NoView} \cup Shown] /\ ViewsStep
<1>1. \A v \in Views : view[v] \in {NoView} \cup Shown
  BY DEF TypeOK, Shown
<1>2. \A v \in Views : view'[v] = NoView \/ (view'[v] = view[v] /\ view[v].source \notin gone)
  BY DEF Forget
<1>3. \A v \in Views : Follows(NoView, cell', phase')
  BY DEF Follows
<1>4. \A v \in Views : Follows(view'[v], cell', phase')
  BY <1>1, <1>2, <1>3 DEF ViewsFollow, Stays
<1>5. view' \in [Views -> {NoView} \cup Shown]
  BY <1>1, <1>2 DEF Forget
<1>6. ASSUME NEW v \in Views, view[v].kind = "string_view", view'[v] = view[v], Valid(v)
      PROVE  Valid(v)'
  <2>1. view[v] # NoView
    BY <1>6 DEF NoView
  <2>2. view[v] \in Shown /\ view[v].source \notin gone /\ Follows(view[v], cell, phase)
    BY <1>1, <1>2, <1>6, <2>1 DEF ViewsFollow
  <2> QED
    BY <1>6, <2>2 DEF Valid, Stays
<1>7. ViewsStep
  BY <1>2, <1>6 DEF ViewsStep
<1> QED
  BY <1>4, <1>5, <1>7 DEF ViewsFollow

(* An operation that leaves the views alone forgets none. *)
LEMMA NothingForgotten ==
  ASSUME TypeOK, UNCHANGED view
  PROVE  Forget({})
  BY DEF TypeOK, Forget

(* An operation that hands nothing over and changes no holder. *)
LEMMA QuietIsFair ==
  ASSUME TypeOK, UNCHANGED <<aux, given, destroyed>>,
         cell'["column"].backing = cell["column"].backing
  PROVE  Fair({}, {})
<1>1. \A h \in Holders : Holder(h)' = Holder(h)
  BY DEF Holder
<1>2. Destroy({})
  BY NothingDestroyed
<1> QED
  BY <1>1, <1>2 DEF Fair

(* NULL fits and is backed by nothing. *)
LEMMA NullFits ==
  /\ Fit(NullCell) /\ NullCell.backing = None
  /\ \A e \in Encodings : New(Cell({"null"}, e, None))
<1>1. \A e \in Encodings : New(Cell({"null"}, e, None)) /\ Cell({"null"}, e, None).backing = None
  <2> TAKE e \in Encodings
  <2> {"null"} \in SUBSET Flags
    BY DEF Flags
  <2> QED
    BY CellIsNew
<1>2. "utf8" \in Encodings
  BY DEF Encodings
<1> QED
  BY <1>1, <1>2, NewFits DEF NullCell

(* The next row. *)
LEMMA CallKeeps ==
  ASSUME Consistent, Call
  PROVE  Kept
<1>1. TypeOK /\ AllFit /\ OnlyResultIsBacked /\ ViewsFollow /\ AuxMarked
  BY DEF Consistent
<1>2. database \in Encodings /\ cell \in [Sources -> Cells]
  BY <1>1 DEF TypeOK
<1>3. PICK a \in Arguments :
        cell' = [cell EXCEPT !["argument"] = a, !["column"].flags = {"null"}]
  BY DEF Call
<1>4. \A f \in {{"null"}, {"number"}, {"text"}, {"text", "term"}, {"blob"}, {"blob", "zero"}} :
        Fit(Cell(f, database, None)) /\ Cell(f, database, None).backing = None
  <2> TAKE f \in {{"null"}, {"number"}, {"text"}, {"text", "term"}, {"blob"}, {"blob", "zero"}}
  <2>1. f \in SUBSET Flags
    BY DEF Flags
  <2>2. New(Cell(f, database, None)) /\ Cell(f, database, None).backing = None
    BY <1>2, <2>1, CellIsNew
  <2> QED
    BY <2>2, NewFits
<1>5. Fit(a) /\ a.backing = None
  BY <1>4 DEF Arguments, ZeroBlob
<1> DEFINE r == [cell["column"] EXCEPT !.flags = {"null"}]
<1>6. cell' = [cell EXCEPT !["argument"] = a, !["column"] = r]
  BY <1>2, <1>3 DEF Sources
<1>7. cell["column"] \in Wide /\ Fit(cell["column"])
  BY <1>1, FitIsWide DEF AllFit, Sources
<1>8. {"null"} \in SUBSET Flags
  BY DEF Flags
<1>9. r \in Wide /\ r.flags = {"null"} /\ r.backing = cell["column"].backing
      /\ r.place = cell["column"].place /\ r.length = cell["column"].length
  BY <1>7, <1>8, FlagsFields
<1> HIDE DEF r
<1>10. Fit(r)
  BY <1>7, <1>9, CellFields, WideFits DEF Sensible
<1>11. /\ cell' \in [Sources -> Cells]
       /\ cell'["argument"] = a /\ cell'["column"] = r /\ cell'["copy"] = cell["copy"]
  BY <1>2, <1>5, <1>6, <1>10 DEF Sources, Fit
<1>12. AllFit' /\ OnlyResultIsBacked'
  BY <1>1, <1>5, <1>10, <1>11 DEF AllFit, OnlyResultIsBacked, Sources
<1>13. \A w \in Shown : w.source \notin {"column"} /\ Follows(w, cell, phase) => Stays(w)
  BY <1>11 DEF Call, Follows, Stays, Shown, Sources, NoView
<1>14. ViewsFollow' /\ view' \in [Views -> {NoView} \cup Shown] /\ ViewsStep
  BY <1>1, <1>13, ViewsKept DEF Call
<1>15. Fair({}, {})
  BY <1>1, <1>9, <1>11, QuietIsFair DEF Call, data
<1>16. /\ phase' = "call" /\ phase # "call"
       /\ aux' = aux /\ isError' = isError /\ database' = database
  BY DEF Call
<1>17. aux' \in [AuxArgs -> Data \cup {None}] /\ isError' \in Errors /\ AuxMarked'
  BY <1>1, <1>16 DEF TypeOK, AuxMarked, Errors
<1> QED
  BY <1>11, <1>12, <1>14, <1>15, <1>16, <1>17, StepCloses

(* What the holders have in the parts that a proof looks at. *)
LEMMA HolderFacts ==
  /\ Holders = {"column", "varying", "constant"}
  /\ Holder("column") = cell["column"].backing
  /\ Holder("column")' = cell'["column"].backing
  /\ \A a \in AuxArgs : Holder(a) = aux[a] /\ Holder(a)' = aux'[a]
  BY DEF Holders, Holder, AuxArgs

(* The statement halts: every holder lets go. *)
LEMMA HaltKeeps ==
  ASSUME Consistent, Halt
  PROVE  Kept
<1>1. TypeOK /\ AllFit /\ OnlyResultIsBacked /\ ViewsFollow
  BY DEF Consistent
<1>2. cell \in [Sources -> Cells]
  BY <1>1 DEF TypeOK
<1>3. /\ phase' = "idle" /\ database' = database /\ isError' = "none"
      /\ aux' = [a \in AuxArgs |-> None] /\ given' = given
      /\ Destroy(HaltDrops) /\ Forget({"argument", "column"})
  BY DEF Halt
<1>4. Fit(NullCell) /\ NullCell.backing = None /\ NullCell \in Cells
  BY NullFits DEF Fit
<1>5. /\ cell' \in [Sources -> Cells]
      /\ cell'["argument"] = NullCell /\ cell'["column"] = NullCell
      /\ cell'["copy"] = cell["copy"]
  BY <1>2, <1>4 DEF Halt, Sources
<1>6. AllFit' /\ OnlyResultIsBacked'
  BY <1>1, <1>4, <1>5 DEF AllFit, OnlyResultIsBacked, Sources
<1>7. \A w \in Shown : w.source \notin {"argument", "column"} /\ Follows(w, cell, phase) => Stays(w)
  BY <1>5 DEF Follows, Stays, Shown, Sources, NoView
<1>8. ViewsFollow' /\ view' \in [Views -> {NoView} \cup Shown] /\ ViewsStep
  BY <1>1, <1>3, <1>7, ViewsKept
<1>9. Fair({}, HaltDrops)
  <2>1. \A h \in Holders : Holder(h)' = None
    BY <1>3, <1>4, <1>5, HolderFacts DEF AuxArgs
  <2>2. \A d \in Data : d \in HaltDrops <=> \E h \in Holders : Holder(h) = d
    BY HolderFacts DEF HaltDrops, AuxArgs
  <2> QED
    BY <1>3, <2>1, <2>2, FunctionCallAssumption DEF Fair
<1>10. /\ aux' \in [AuxArgs -> Data \cup {None}] /\ isError' \in Errors /\ AuxMarked'
  BY <1>3 DEF AuxMarked, Errors, AuxArgs
<1> QED
  BY <1>3, <1>5, <1>6, <1>8, <1>9, <1>10, StepCloses

(* The callback returns: what it set for the varying argument goes. *)
LEMMA ReturnKeeps ==
  ASSUME Consistent, Return
  PROVE  Kept
<1>1. TypeOK /\ AllFit /\ OnlyResultIsBacked /\ ViewsFollow /\ AuxMarked /\ OneHolder
  BY DEF Consistent
<1>2. cell \in [Sources -> Cells] /\ aux \in [AuxArgs -> Data \cup {None}]
  BY <1>1 DEF TypeOK
<1> DEFINE gone == IF isError = "none" THEN {} ELSE Volatile
           dropped == {aux[a] : a \in gone}
<1>3. /\ phase = "call" /\ phase' = "row" /\ database' = database /\ isError' = "none"
      /\ aux' = Unlinked(gone) /\ given' = given
      /\ Destroy(dropped) /\ Forget({"argument"})
      /\ cell' = [cell EXCEPT !["argument"] = NullCell]
  BY DEF Return
<1>4. gone \in {{}, {"varying"}} /\ (aux["varying"] # None => gone = {"varying"})
  BY <1>1 DEF Volatile, AuxMarked
<1>5. "argument" \in Sources
  BY DEF Sources
<1> HIDE DEF gone
<1>6. /\ cell' \in [Sources -> Cells] /\ AllFit'
      /\ cell'["argument"] = NullCell /\ \A t \in Sources \ {"argument"} : cell'[t] = cell[t]
  BY <1>1, <1>3, <1>5, NullFits, CellPut
<1>7. cell'["column"] = cell["column"] /\ cell'["copy"] = cell["copy"]
  BY <1>6 DEF Sources
<1>8. OnlyResultIsBacked'
  BY <1>1, <1>6, <1>7, NullFits DEF OnlyResultIsBacked
<1>9. \A w \in Shown : w.source \notin {"argument"} /\ Follows(w, cell, phase) => Stays(w)
  BY <1>3, <1>7 DEF Follows, Stays, Shown, Sources, NoView
<1>10. ViewsFollow' /\ view' \in [Views -> {NoView} \cup Shown] /\ ViewsStep
  BY <1>1, <1>3, <1>9, ViewsKept
<1>11. \A a \in AuxArgs : aux'[a] = IF a \in gone THEN None ELSE aux[a]
  BY <1>3 DEF Unlinked
<1>12. aux'["varying"] = None
  BY <1>4, <1>11 DEF AuxArgs
<1>13. Fair({}, dropped)
  <2>1. \A h \in Holders : Holder(h)' = IF h \in gone THEN None ELSE Holder(h)
    BY <1>4, <1>7, <1>11, HolderFacts DEF AuxArgs
  <2>2. \A d \in Data : d \in dropped <=> \E h \in gone : Holder(h) = d
    BY <1>4, HolderFacts DEF AuxArgs
  <2>3. gone \subseteq Holders
    BY <1>4, HolderFacts
  <2> HIDE DEF dropped
  <2> QED
    BY <1>3, <2>1, <2>2, <2>3, FunctionCallAssumption DEF Fair
<1>14. aux' \in [AuxArgs -> Data \cup {None}] /\ isError' \in Errors /\ AuxMarked'
  BY <1>2, <1>3, <1>12 DEF AuxMarked, Errors, Unlinked
<1> QED
  BY <1>3, <1>6, <1>8, <1>10, <1>13, <1>14, StepCloses

(* A number instead of a text, or nothing. *)
LEMMA NumericTypeKeeps ==
  ASSUME Consistent, NEW source \in Sources, NumericType(source)
  PROVE  Kept
<1>1. TypeOK /\ AllFit /\ OnlyResultIsBacked /\ ViewsFollow /\ AuxMarked
  BY DEF Consistent
<1>2. PICK c \in AfterNumericType(cell[source]) : cell' = [cell EXCEPT ![source] = c]
  BY DEF NumericType
<1>3. Fit(cell[source])
  BY <1>1 DEF AllFit
<1>4. /\ Fit(c) /\ c.place = cell[source].place /\ c.backing = cell[source].backing
      /\ Settled(cell[source]) => Settled(c)
  BY <1>2, <1>3, NumericTypeFits
<1>5. /\ cell' \in [Sources -> Cells] /\ AllFit'
      /\ cell'[source] = c /\ \A t \in Sources \ {source} : cell'[t] = cell[t]
  BY <1>1, <1>2, <1>4, CellPut
<1>6. /\ source # "copy" /\ phase' = phase /\ database' = database /\ view' = view
      /\ aux' = aux /\ isError' = isError /\ UNCHANGED data
  BY DEF NumericType
<1>7. \A t \in Sources : /\ cell'[t].place = cell[t].place
                         /\ cell'[t].backing = cell[t].backing
                         /\ Settled(cell[t]) => Settled(cell'[t])
  BY <1>4, <1>5
<1>8. cell'["copy"] = cell["copy"]
  BY <1>5, <1>6 DEF Sources
<1>9. OnlyResultIsBacked'
  BY <1>1, <1>7 DEF OnlyResultIsBacked, Sources
<1>10. \A w \in Shown : w.source \notin {} /\ Follows(w, cell, phase) => Stays(w)
  <2> SUFFICES ASSUME NEW w \in Shown, Follows(w, cell, phase)
               PROVE  Stays(w)
    OBVIOUS
  <2>1. w.source \in Sources
    BY DEF Shown
  <2> QED
    BY <1>6, <1>7, <1>8, <2>1 DEF Follows, Stays
<1>11. ViewsFollow' /\ view' \in [Views -> {NoView} \cup Shown] /\ ViewsStep
  BY <1>1, <1>6, <1>10, NothingForgotten, ViewsKept
<1>12. Fair({}, {})
  BY <1>1, <1>6, <1>7, QuietIsFair DEF data, Sources
<1>13. /\ aux' \in [AuxArgs -> Data \cup {None}] /\ isError' \in Errors /\ AuxMarked'
       /\ phase' \in {"idle", "call", "row"}
  BY <1>1, <1>6 DEF TypeOK, AuxMarked, Errors
<1> QED
  BY <1>5, <1>6, <1>9, <1>11, <1>12, <1>13, StepCloses

(* A copy of a value. *)
LEMMA DupKeeps ==
  ASSUME Consistent, NEW source \in Sources, Dup(source)
  PROVE  Kept
<1>1. TypeOK /\ AllFit /\ OnlyResultIsBacked /\ ViewsFollow /\ AuxMarked
  BY DEF Consistent
<1> DEFINE c == Duplicate(cell[source])
<1>2. Fit(c) /\ c.backing = None
  BY <1>1, DuplicateIsNew, NewFits DEF AllFit
<1>3. /\ cell' = [cell EXCEPT !["copy"] = c] /\ cell["copy"] = NullCell
      /\ phase' = phase /\ database' = database /\ view' = view
      /\ aux' = aux /\ isError' = isError /\ UNCHANGED data
  BY DEF Dup
<1>4. "copy" \in Sources
  BY DEF Sources
<1> HIDE DEF c
<1>5. /\ cell' \in [Sources -> Cells] /\ AllFit'
      /\ cell'["copy"] = c /\ \A t \in Sources \ {"copy"} : cell'[t] = cell[t]
  BY <1>1, <1>2, <1>3, <1>4, CellPut
<1>6. cell'["argument"] = cell["argument"] /\ cell'["column"] = cell["column"]
  BY <1>5 DEF Sources
<1>7. OnlyResultIsBacked'
  BY <1>1, <1>2, <1>5, <1>6 DEF OnlyResultIsBacked
<1>8. \A w \in Shown : w.source \notin {} /\ Follows(w, cell, phase) => Stays(w)
  <2> SUFFICES ASSUME NEW w \in Shown, Follows(w, cell, phase)
               PROVE  Stays(w)
    OBVIOUS
  <2>1. w # NoView /\ w.source \in Sources
    BY DEF Shown, NoView
  <2>2. w.source # "copy"
    BY <1>3, <2>1 DEF Follows, Stays
  <2> QED
    BY <1>3, <1>5, <2>1, <2>2 DEF Follows, Stays
<1>9. ViewsFollow' /\ view' \in [Views -> {NoView} \cup Shown] /\ ViewsStep
  BY <1>1, <1>3, <1>8, NothingForgotten, ViewsKept
<1>10. Fair({}, {})
  BY <1>1, <1>3, <1>6, QuietIsFair DEF data
<1>11. /\ aux' \in [AuxArgs -> Data \cup {None}] /\ isError' \in Errors /\ AuxMarked'
       /\ phase' \in {"idle", "call", "row"}
  BY <1>1, <1>3 DEF TypeOK, AuxMarked, Errors
<1> QED
  BY <1>3, <1>5, <1>7, <1>9, <1>10, <1>11, StepCloses

(* The copy is freed. *)
LEMMA FreeCopyKeeps ==
  ASSUME Consistent, FreeCopy
  PROVE  Kept
<1>1. TypeOK /\ AllFit /\ OnlyResultIsBacked /\ ViewsFollow /\ AuxMarked
  BY DEF Consistent
<1>2. /\ cell' = [cell EXCEPT !["copy"] = NullCell] /\ Forget({"copy"})
      /\ phase' = phase /\ database' = database
      /\ aux' = aux /\ isError' = isError /\ UNCHANGED data
  BY DEF FreeCopy
<1>3. "copy" \in Sources
  BY DEF Sources
<1>4. /\ cell' \in [Sources -> Cells] /\ AllFit'
      /\ cell'["copy"] = NullCell /\ \A t \in Sources \ {"copy"} : cell'[t] = cell[t]
  BY <1>1, <1>2, <1>3, NullFits, CellPut
<1>5. cell'["argument"] = cell["argument"] /\ cell'["column"] = cell["column"]
  BY <1>4 DEF Sources
<1>6. OnlyResultIsBacked'
  BY <1>1, <1>4, <1>5, NullFits DEF OnlyResultIsBacked
<1>7. \A w \in Shown : w.source \notin {"copy"} /\ Follows(w, cell, phase) => Stays(w)
  BY <1>2, <1>5 DEF Follows, Stays, Shown, Sources, NoView
<1>8. ViewsFollow' /\ view' \in [Views -> {NoView} \cup Shown] /\ ViewsStep
  BY <1>1, <1>2, <1>7, ViewsKept
<1>9. Fair({}, {})
  BY <1>1, <1>2, <1>5, QuietIsFair DEF data
<1>10. /\ aux' \in [AuxArgs -> Data \cup {None}] /\ isError' \in Errors /\ AuxMarked'
       /\ phase' \in {"idle", "call", "row"}
  BY <1>1, <1>2 DEF TypeOK, AuxMarked, Errors
<1> QED
  BY <1>2, <1>4, <1>6, <1>8, <1>9, <1>10, StepCloses

(* What a datum that is new is not. *)
LEMMA FreshIsNotHeld ==
  ASSUME Consistent, NEW d \in Fresh
  PROVE  d \in Data /\ d # None /\ \A h \in Holders : Holder(h) # d
BY FunctionCallAssumption, HoldsIsHolder DEF Consistent, Counted, Fresh

(* Auxiliary data is set, or refused. *)
LEMMA SetAuxdataKeeps ==
  ASSUME Consistent, NEW a \in AuxArgs, NEW d \in Data, SetAuxdata(a, d)
  PROVE  Kept
<1>1. TypeOK /\ AllFit /\ OnlyResultIsBacked /\ ViewsFollow /\ AuxMarked
  BY DEF Consistent
<1>2. /\ phase = "call" /\ d \in Fresh /\ given' = given \cup {d}
      /\ phase' = phase /\ database' = database /\ cell' = cell /\ view' = view
  BY DEF SetAuxdata
<1>3. d # None /\ \A h \in Holders : Holder(h) # d
  BY <1>2, FreshIsNotHeld
<1>4. cell' \in [Sources -> Cells] /\ AllFit' /\ OnlyResultIsBacked'
  BY <1>1, <1>2 DEF TypeOK, AllFit, OnlyResultIsBacked
<1>5. ViewsFollow' /\ view' \in [Views -> {NoView} \cup Shown] /\ ViewsStep
  BY <1>1, <1>2 DEF ViewsFollow, TypeOK, Shown, ViewsStep, Valid
<1>6. aux \in [AuxArgs -> Data \cup {None}] /\ isError \in Errors
  BY <1>1 DEF TypeOK, Errors
<1>7. CASE /\ aux' = [aux EXCEPT ![a] = d]
           /\ isError' = IF aux[a] = None /\ isError = "none" THEN "auxdata" ELSE isError
           /\ Destroy({aux[a]})
  <2>1. /\ aux' \in [AuxArgs -> Data \cup {None}] /\ isError' \in Errors
        /\ aux'[a] = d /\ \A b \in AuxArgs \ {a} : aux'[b] = aux[b]
    BY <1>6, <1>7 DEF Errors
  <2>2. AuxMarked'
    BY <1>1, <1>2, <1>6, <1>7, <2>1 DEF AuxMarked, AuxArgs
  <2>3. /\ Holder(a) = aux[a] /\ Holder(a)' = d /\ a \in Holders
        /\ \A h \in Holders \ {a} : Holder(h)' = Holder(h)
    BY <1>2, <2>1, HolderFacts DEF AuxArgs
  <2>4. Fair({d}, {aux[a]})
    BY <1>2, <1>3, <1>7, <2>3 DEF Fair
  <2> QED
    BY <1>1, <1>2, <1>4, <1>5, <2>1, <2>2, <2>4, StepCloses
<1>8. CASE Destroy({d}) /\ UNCHANGED <<aux, isError>>
  <2>1. /\ aux' \in [AuxArgs -> Data \cup {None}] /\ isError' \in Errors /\ AuxMarked'
    BY <1>1, <1>2, <1>6, <1>8 DEF AuxMarked
  <2>2. \A h \in Holders : Holder(h)' = Holder(h)
    BY <1>2, <1>8 DEF Holder
  <2>3. Fair({d}, {d})
    BY <1>2, <1>3, <1>8, <2>2 DEF Fair
  <2> QED
    BY <1>1, <1>2, <1>4, <1>5, <2>1, <2>3, StepCloses
<1> QED
  BY <1>7, <1>8 DEF SetAuxdata

(* A value is read as a text or a blob.                                      *)
LEMMA ReadKeeps ==
  ASSUME Consistent, NEW source \in Sources, NEW kind \in {"string_view", "blob_view"},
         NEW keep, Read(source, kind, keep)
  PROVE  Kept
<1>1. TypeOK /\ AllFit /\ OnlyResultIsBacked /\ ViewsFollow /\ AuxMarked /\ OneHolder
  BY DEF Consistent
<1> DEFINE c == cell[source]
           got == Get(kind, c)
           r == got.cell
           w0 == [source |-> source, kind |-> got.view.kind,
                  place |-> got.view.place, length |-> got.view.length]
<1>2. Fit(c) /\ "null" \notin c.flags
  BY <1>1 DEF AllFit, Read
<1>3. /\ Reads(c, r) /\ (kind = "string_view" => Settled(r))
      /\ w0.source = source /\ w0.kind = kind /\ w0.place = r.place /\ w0.length = r.length
  BY <1>2, GetReads
<1>4. /\ Readable(source) /\ cell' = [cell EXCEPT ![source] = r]
      /\ view' = [v \in Views |-> IF v \in keep THEN w0 ELSE view[v]]
      /\ Destroy({c.backing} \ {r.backing})
      /\ UNCHANGED <<phase, database, aux, isError, given>>
  BY DEF Read
<1>5. w0 \in [source : {source}, kind : {got.view.kind}, place : {got.view.place},
              length : {got.view.length}]
  OBVIOUS
<1> HIDE DEF c, r, w0
<1>6. Fit(r) /\ "null" \notin r.flags /\ r.backing \in {c.backing, None} /\ c.place <= r.place
  BY <1>3 DEF Reads, Converts
<1>7. c.place \in Nat /\ r.place \in Counters /\ r.length \in Counters
  BY <1>2, <1>6, CellFields DEF Counters
<1>8. w0 \in Shown
  BY <1>3, <1>5, <1>7 DEF Shown, w0
<1> HIDE DEF got
<1>9. /\ cell' \in [Sources -> Cells] /\ AllFit'
      /\ cell'[source] = r /\ \A t \in Sources \ {source} : cell'[t] = cell[t]
  BY <1>1, <1>4, <1>6, CellPut
<1>10. cell[source] = c
  BY DEF c
<1>11. OnlyResultIsBacked'
  BY <1>1, <1>6, <1>9, <1>10 DEF OnlyResultIsBacked, Sources
<1>12. r # NullCell
  BY <1>6 DEF NullCell, Cell
<1>13. Follows(w0, cell', phase')
  <2>1. /\ source = "argument" => phase' = "call"
        /\ source = "column" => phase' = "row"
        /\ source = "copy" => cell'["copy"] # NullCell
    BY <1>4, <1>9, <1>12 DEF Readable
  <2> QED
    BY <1>3, <1>7, <1>9, <2>1 DEF Follows, Counters
<1>14. ASSUME NEW w \in Shown, Follows(w, cell, phase)
       PROVE  /\ Follows(w, cell', phase')
              /\ w.kind = "string_view" /\ cell[w.source].place = w.place =>
                   \/ cell'[w.source].place = w.place
                   \/ {"text", "blob"} \cap cell[w.source].flags = {}
  <2>1. w # NoView /\ w.source \in Sources /\ w.place \in Nat
    BY DEF Shown, NoView, Counters
  <2>2. /\ w.source = "argument" => phase = "call"
        /\ w.source = "column" => phase = "row"
        /\ w.source = "copy" => cell["copy"] # NullCell
        /\ w.place <= cell[w.source].place
        /\ w.kind = "string_view" /\ w.place = cell[w.source].place =>
             Settled(cell[w.source])
    BY <1>14, <2>1 DEF Follows
  <2>3. CASE w.source # source
    BY <1>4, <1>9, <2>1, <2>2, <2>3 DEF Follows
  <2>4. CASE w.source = source
    <3>1. w.place <= r.place
      BY <1>6, <1>7, <1>10, <2>1, <2>2, <2>4 DEF Counters
    <3>2. w.kind = "string_view" /\ w.place = c.place /\ {"text", "blob"} \cap c.flags # {} =>
            r.place = c.place /\ Settled(r)
      BY <1>3, <1>10, <2>2, <2>4 DEF Reads
    <3>3. w.place = r.place => w.place = c.place /\ {"text", "blob"} \cap c.flags # {}
      BY <1>3, <1>6, <1>7, <1>10, <2>1, <2>2, <2>4 DEF Reads, Counters
    <3>4. w.source = "copy" => cell'["copy"] # NullCell
      BY <1>9, <1>12, <2>4
    <3>5. Follows(w, cell', phase')
      BY <1>4, <1>9, <2>2, <2>4, <3>1, <3>2, <3>3, <3>4 DEF Follows
    <3> QED
      BY <1>9, <1>10, <2>4, <3>2, <3>5
  <2> QED
    BY <2>3, <2>4
<1>15. \A v \in Views : view'[v] = IF v \in keep THEN w0 ELSE view[v]
  BY <1>4
<1>16. \A v \in Views : view[v] \in {NoView} \cup Shown /\ Follows(view[v], cell, phase)
  BY <1>1 DEF TypeOK, Shown, ViewsFollow
<1>17. view' \in [Views -> {NoView} \cup Shown]
  BY <1>4, <1>8, <1>16
<1>18. ViewsFollow'
  <2> SUFFICES ASSUME NEW v \in Views
               PROVE  Follows(view'[v], cell', phase')
    BY DEF ViewsFollow
  <2>1. CASE v \in keep
    BY <1>13, <1>15, <2>1
  <2>2. CASE v \notin keep /\ view[v] = NoView
    BY <1>15, <2>2 DEF Follows
  <2>3. CASE v \notin keep /\ view[v] # NoView
    BY <1>14, <1>15, <1>16, <2>3
  <2> QED
    BY <2>1, <2>2, <2>3
<1>19. ViewsStep
  <2> SUFFICES ASSUME NEW v \in Views
               PROVE  /\ view'[v] # view[v] /\ view'[v] # NoView =>
                           Valid(v)' /\ view'[v].length = cell'[view'[v].source].length
                      /\ view[v].kind = "string_view" /\ view'[v] = view[v] /\ Valid(v) =>
                           Valid(v)' \/ {"text", "blob"} \cap cell[view[v].source].flags = {}
    BY DEF ViewsStep
  <2>1. view'[v] # view[v] => Valid(v)' /\ view'[v].length = cell'[view'[v].source].length
    <3>1. SUFFICES ASSUME view'[v] # view[v]
                   PROVE  Valid(v)' /\ view'[v].length = cell'[view'[v].source].length
      OBVIOUS
    <3>2. view'[v] = w0
      BY <1>15, <3>1
    <3> QED
      BY <1>3, <1>9, <3>2 DEF Valid
  <2>2. ASSUME view[v].kind = "string_view", view'[v] = view[v], Valid(v)
        PROVE  Valid(v)' \/ {"text", "blob"} \cap cell[view[v].source].flags = {}
    <3>1. view[v] \in Shown /\ Follows(view[v], cell, phase)
      BY <1>16, <2>2 DEF NoView
    <3>2. cell[view[v].source].place = view[v].place
      BY <2>2 DEF Valid
    <3> QED
      BY <1>14, <2>2, <3>1, <3>2 DEF Valid
  <2> QED
    BY <2>1, <2>2
<1>20. Fair({}, {c.backing} \ {r.backing})
  <2>1. \A h \in Holders \ {"column"} : Holder(h)' = Holder(h)
    BY <1>4 DEF Holder
  <2>2. CASE source = "column"
    <3>1. Holder("column") = c.backing /\ Holder("column")' = r.backing
      BY <1>9, <1>10, <2>2, HolderFacts
    <3> QED
      BY <1>4, <1>6, <2>1, <3>1, HolderFacts, FunctionCallAssumption DEF Fair
  <2>3. CASE source # "column"
    <3>1. c.backing = None /\ r.backing = None /\ cell'["column"] = cell["column"]
      BY <1>1, <1>6, <1>9, <1>10, <2>3 DEF OnlyResultIsBacked, Sources
    <3>2. \A h \in Holders : Holder(h)' = Holder(h)
      BY <2>1, <3>1, HolderFacts
    <3> QED
      BY <1>4, <3>1, <3>2 DEF Fair
  <2> QED
    BY <2>2, <2>3
<1>21. /\ aux' \in [AuxArgs -> Data \cup {None}] /\ isError' \in Errors /\ AuxMarked'
       /\ phase' \in {"idle", "call", "row"} /\ database' = database
  BY <1>1, <1>4 DEF TypeOK, AuxMarked, Errors
<1> HIDE DEF c
<1> QED
  BY <1>9, <1>11, <1>17, <1>18, <1>19, <1>20, <1>21, StepCloses

(* A result takes the place of the one before.  A datum that is offered and  *)
(* does not back the new result is dropped.                                  *)
LEMMA ResultKeeps ==
  ASSUME Consistent, NEW new, Fit(new), NEW dropped, NEW error \in Errors,
         Result(new, dropped, error),
         error = isError \/ error = "failed",
         NEW offered \in SUBSET Fresh, given' = given \cup offered,
         new.backing \in {None} \cup offered,
         dropped \cap Data = offered \ {new.backing}
  PROVE  Kept
<1>1. TypeOK /\ AllFit /\ OnlyResultIsBacked /\ ViewsFollow /\ AuxMarked
  BY DEF Consistent
<1>2. /\ phase = "call" /\ cell' = [cell EXCEPT !["column"] = new] /\ isError' = error
      /\ Destroy({cell["column"].backing} \cup dropped)
      /\ UNCHANGED <<phase, database, view, aux>>
  BY DEF Result
<1>3. "column" \in Sources
  BY DEF Sources
<1>4. /\ cell' \in [Sources -> Cells] /\ AllFit'
      /\ cell'["column"] = new /\ \A t \in Sources \ {"column"} : cell'[t] = cell[t]
  BY <1>1, <1>2, <1>3, CellPut
<1>5. cell'["argument"] = cell["argument"] /\ cell'["copy"] = cell["copy"]
  BY <1>4 DEF Sources
<1>6. OnlyResultIsBacked'
  BY <1>1, <1>5 DEF OnlyResultIsBacked
<1>7. \A w \in Shown : w.source \notin {} /\ Follows(w, cell, phase) => Stays(w)
  BY <1>2, <1>5 DEF Follows, Stays, Shown, Sources, NoView
<1>8. ViewsFollow' /\ view' \in [Views -> {NoView} \cup Shown] /\ ViewsStep
  BY <1>1, <1>2, <1>7, NothingForgotten, ViewsKept
<1>9. Fair(offered, {cell["column"].backing} \cup dropped)
  <2>1. Holder("column") = cell["column"].backing /\ Holder("column")' = new.backing
    BY <1>4, HolderFacts
  <2>2. \A h \in Holders \ {"column"} : Holder(h)' = Holder(h)
    BY <1>2 DEF Holder
  <2>3. \A d \in offered : d \in Data /\ d # None /\ \A h \in Holders : Holder(h) # d
    BY FreshIsNotHeld
  <2>4. "column" \in Holders
    BY HolderFacts
  <2>5. \A h \in Holders : Holder(h)' \in {Holder(h), None} \cup offered
    BY <2>1, <2>2
  <2>6. \A h, i \in Holders : Holder(h)' \in offered /\ Holder(i)' = Holder(h)' => h = i
    BY <2>2, <2>3
  <2>7. ASSUME NEW d \in Data
        PROVE  d \in {cell["column"].backing} \cup dropped <=>
                 \/ \E h \in Holders : Holder(h) = d /\ Holder(h)' # d
                 \/ d \in offered /\ \A h \in Holders : Holder(h)' # d
    <3>1. (\E h \in Holders : Holder(h) = d /\ Holder(h)' # d) <=> cell["column"].backing = d
      BY <2>1, <2>2, <2>3, <2>4, FunctionCallAssumption
    <3>2. d \in dropped <=> d \in offered /\ \A h \in Holders : Holder(h)' # d
      BY <2>1, <2>2, <2>3, <2>4
    <3> QED
      BY <3>1, <3>2
  <2> QED
    BY <1>2, <2>5, <2>6, <2>7 DEF Fair
<1>10. /\ aux' \in [AuxArgs -> Data \cup {None}] /\ isError' \in Errors /\ AuxMarked'
       /\ phase' \in {"idle", "call", "row"} /\ database' = database
  BY <1>1, <1>2 DEF TypeOK, AuxMarked, Errors
<1> QED
  BY <1>4, <1>6, <1>8, <1>9, <1>10, StepCloses

(* The cells that results are made of. *)
LEMMA ResultsFit ==
  ASSUME TypeOK
  PROVE  /\ Fit(NullCell) /\ NullCell.backing = None
         /\ Fit(Cell({"number"}, database, None)) /\ Cell({"number"}, database, None).backing = None
         /\ Fit(ZeroBlob) /\ ZeroBlob.backing = None
         /\ Fit(Failure) /\ Failure.backing = None
         /\ Fit(InEncoding(Failure, database)) /\ InEncoding(Failure, database).backing = None
         /\ \A b \in Data \cup {None} :
              /\ Fit(Text(b)) /\ Text(b).backing \in {b, None}
              /\ Fit(Blob(b)) /\ Blob(b).backing = b
              /\ Fit(Cell({"null"}, database, b)) /\ Cell({"null"}, database, b).backing = b
<1>1. database \in Encodings /\ "utf8" \in Encodings
  BY DEF TypeOK, Encodings
<1>2. \A f \in {{"null"}, {"number"}, {"text"}, {"text", "term"}, {"blob"}, {"blob", "zero"}},
         e \in Encodings, b \in Data \cup {None} :
        New(Cell(f, e, b)) /\ Cell(f, e, b).backing = b
  <2> TAKE f \in {{"null"}, {"number"}, {"text"}, {"text", "term"}, {"blob"}, {"blob", "zero"}},
           e \in Encodings, b \in Data \cup {None}
  <2>1. f \in SUBSET Flags
    BY DEF Flags
  <2> QED
    BY <2>1, CellIsNew
<1>3. New(Failure) /\ Failure.backing = None
  BY <1>1, <1>2 DEF Failure
<1>4. Fit(InEncoding(Failure, database)) /\ InEncoding(Failure, database).backing = None
  BY <1>1, <1>3, RecodedFits
<1>5. /\ New(Cell({"number"}, database, None)) /\ Cell({"number"}, database, None).backing = None
      /\ New(ZeroBlob) /\ ZeroBlob.backing = None
  BY <1>1, <1>2 DEF ZeroBlob
<1>6. ASSUME NEW b \in Data \cup {None}
      PROVE  /\ Fit(Text(b)) /\ Text(b).backing \in {b, None}
             /\ Fit(Blob(b)) /\ Blob(b).backing = b
             /\ Fit(Cell({"null"}, database, b)) /\ Cell({"null"}, database, b).backing = b
  <2>1. New(Cell({"text"}, "utf8", b)) /\ Cell({"text"}, "utf8", b).backing = b
    BY <1>1, <1>2
  <2>2. Fit(Text(b)) /\ Text(b).backing \in {b, None}
    BY <1>1, <2>1, RecodedFits DEF Text
  <2>3. /\ New(Blob(b)) /\ Blob(b).backing = b
        /\ New(Cell({"null"}, database, b)) /\ Cell({"null"}, database, b).backing = b
    BY <1>1, <1>2 DEF Blob
  <2> QED
    BY <2>2, <2>3, NewFits
<1> QED
  BY <1>3, <1>4, <1>5, <1>6, NullFits, NewFits

(* Results that hand nothing over. *)
LEMMA CopiedKeeps ==
  ASSUME Consistent, ResultCopied \/ ResultValue \/ ResultError
  PROVE  Kept
<1>1. TypeOK /\ AllFit /\ given' = given /\ isError \in Errors /\ database \in Encodings
  BY DEF Consistent, ResultCopied, ResultValue, ResultError, TypeOK, Errors
<1>2. ASSUME NEW new, Fit(new), new.backing = None, NEW error \in Errors,
             error = isError \/ error = "failed", Result(new, {}, error)
      PROVE  Kept
  <2>1. /\ {} \in SUBSET Fresh /\ given' = given \cup {}
        /\ new.backing \in {None} \cup {} /\ {} \cap Data = {} \ {new.backing}
    BY <1>1, <1>2
  <2> QED
    BY <1>2, <2>1, ResultKeeps
<1>3. CASE ResultCopied
  <2>1. PICK new \in {NullCell, Cell({"number"}, database, None), Text(None), Blob(None),
                      ZeroBlob} : Result(new, {}, isError)
    BY <1>3 DEF ResultCopied
  <2>2. Fit(new) /\ new.backing = None
    BY <1>1, <2>1, ResultsFit
  <2> QED
    BY <1>1, <1>2, <2>1, <2>2
<1>4. CASE ResultValue
  <2> DEFINE new == InEncoding(Duplicate(cell["argument"]), database)
  <2>1. Fit(cell["argument"])
    BY <1>1 DEF AllFit, Sources
  <2>2. Fit(new) /\ new.backing = None
    BY <1>1, <2>1, DuplicateIsNew, RecodedFits
  <2>3. Result(new, {}, isError)
    BY <1>4 DEF ResultValue
  <2> HIDE DEF new
  <2> QED
    BY <1>1, <1>2, <2>2, <2>3
<1>5. CASE ResultError
  <2>1. PICK new \in {Failure, NullCell} : Result(new, {}, "failed")
    BY <1>5 DEF ResultError
  <2>2. Fit(new) /\ new.backing = None /\ "failed" \in Errors
    BY <1>1, <2>1, ResultsFit DEF Errors
  <2> QED
    BY <1>2, <2>1, <2>2
<1> QED
  BY <1>3, <1>4, <1>5

(* Results that refer to a datum, or refuse it. *)
LEMMA ReferenceKeeps ==
  ASSUME Consistent, NEW d \in Data, ResultReference(d) \/ ResultPointer(d)
  PROVE  Kept
<1>1. TypeOK /\ d \in Fresh /\ given' = given \cup {d} /\ isError \in Errors
  BY DEF Consistent, ResultReference, ResultPointer, TypeOK, Errors
<1>2. ASSUME NEW new, Fit(new), new.backing \in {None, d}, NEW error \in Errors,
             error = isError \/ error = "failed", NEW dropped,
             dropped \cap Data = {d} \ {new.backing}, Result(new, dropped, error)
      PROVE  Kept
  <2>1. {d} \in SUBSET Fresh /\ new.backing \in {None} \cup {d}
    BY <1>1, <1>2
  <2> QED
    BY <1>1, <1>2, <2>1, ResultKeeps
<1>3. d # None
  BY FunctionCallAssumption
<1>4. CASE \E new \in {Text(None), ZeroBlob} : Result(new, UnrefOnNull(d), isError)
  <2>1. PICK new \in {Text(None), ZeroBlob} : Result(new, {d}, isError)
    BY <1>4 DEF UnrefOnNull
  <2>2. Fit(new) /\ new.backing = None
    BY <1>1, <2>1, ResultsFit
  <2> QED
    BY <1>1, <1>2, <1>3, <2>1, <2>2
<1>5. CASE \E new \in {Text(d), Blob(d)} : Result(new, {d} \ {new.backing}, isError)
  <2>1. PICK new \in {Text(d), Blob(d)} : Result(new, {d} \ {new.backing}, isError)
    BY <1>5
  <2>2. Fit(new) /\ new.backing \in {None, d}
    BY <1>1, <2>1, ResultsFit
  <2> QED
    BY <1>1, <1>2, <2>1, <2>2
<1>6. CASE Result(Failure, {d}, "failed")
  <2>1. Fit(Failure) /\ Failure.backing = None /\ "failed" \in Errors
    BY <1>1, ResultsFit DEF Errors
  <2> QED
    BY <1>2, <1>3, <1>6, <2>1
<1>7. CASE ResultPointer(d)
  <2> DEFINE new == Cell({"null"}, database, d)
  <2>1. Fit(new) /\ new.backing = d
    BY <1>1, ResultsFit
  <2>2. Result(new, {}, isError)
    BY <1>7 DEF ResultPointer
  <2> HIDE DEF new
  <2> QED
    BY <1>1, <1>2, <2>1, <2>2
<1> QED
  BY <1>4, <1>5, <1>6, <1>7 DEF ResultReference

(* An error code, with or without a message. *)
LEMMA ErrorCodeKeeps ==
  ASSUME Consistent, ResultErrorCode
  PROVE  Kept
<1>1. TypeOK /\ AllFit /\ OnlyResultIsBacked /\ ViewsFollow
  BY DEF Consistent
<1>2. cell \in [Sources -> Cells] /\ "column" \in Sources
  BY <1>1 DEF TypeOK, Sources
<1> DEFINE lost == IF "null" \in cell["column"].flags THEN {cell["column"].backing} ELSE {}
<1>3. /\ phase = "call" /\ isError' \in {"failed", "auxdata"}
      /\ Destroy(lost) /\ UNCHANGED <<phase, database, view, aux, given>>
  BY DEF ResultErrorCode
<1>4. /\ cell' \in [Sources -> Cells] /\ AllFit'
      /\ \A t \in Sources \ {"column"} : cell'[t] = cell[t]
      /\ cell'["column"].backing = IF "null" \in cell["column"].flags THEN None
                                   ELSE cell["column"].backing
  <2>1. CASE "null" \in cell["column"].flags
    <3>1. cell' = [cell EXCEPT !["column"] = InEncoding(Failure, database)]
      BY <2>1 DEF ResultErrorCode
    <3>2. Fit(InEncoding(Failure, database)) /\ InEncoding(Failure, database).backing = None
      BY <1>1, ResultsFit
    <3> QED
      BY <1>1, <1>2, <2>1, <3>1, <3>2, CellPut
  <2>2. CASE "null" \notin cell["column"].flags
    <3>1. cell' = cell
      BY <2>2 DEF ResultErrorCode
    <3> QED
      BY <1>1, <1>2, <2>2, <3>1 DEF AllFit
  <2> QED
    BY <2>1, <2>2
<1>5. cell'["argument"] = cell["argument"] /\ cell'["copy"] = cell["copy"]
  BY <1>4 DEF Sources
<1>6. OnlyResultIsBacked'
  BY <1>1, <1>5 DEF OnlyResultIsBacked
<1>7. \A w \in Shown : w.source \notin {} /\ Follows(w, cell, phase) => Stays(w)
  BY <1>3, <1>5 DEF Follows, Stays, Shown, Sources, NoView
<1>8. ViewsFollow' /\ view' \in [Views -> {NoView} \cup Shown] /\ ViewsStep
  BY <1>1, <1>3, <1>7, NothingForgotten, ViewsKept
<1>9. Fair({}, lost)
  <2>1. \A h \in Holders \ {"column"} : Holder(h)' = Holder(h)
    BY <1>3 DEF Holder
  <2>2. /\ Holder("column") = cell["column"].backing
        /\ Holder("column")' = cell'["column"].backing /\ "column" \in Holders
    BY HolderFacts
  <2> QED
    BY <1>3, <1>4, <2>1, <2>2, FunctionCallAssumption DEF Fair
<1>10. /\ aux' \in [AuxArgs -> Data \cup {None}] /\ isError' \in Errors /\ AuxMarked'
       /\ phase' \in {"idle", "call", "row"} /\ database' = database
  BY <1>1, <1>3 DEF TypeOK, AuxMarked, Errors
<1> HIDE DEF lost
<1> QED
  BY <1>4, <1>6, <1>8, <1>9, <1>10, StepCloses

(* Before the first call nothing is held. *)
LEMMA InitConsistent ==
  ASSUME Init
  PROVE  Consistent
<1>1. /\ \A s \in Sources : cell[s] = NullCell
      /\ \A v \in Views : view[v] = NoView
      /\ \A a \in AuxArgs : aux[a] = None
      /\ given = {} /\ \A d \in Data : destroyed[d] = 0
  BY DEF Init
<1>2. TypeOK
  BY NullFits DEF Init, TypeOK, Fit
<1>3. AllFit /\ OnlyResultIsBacked
  BY <1>1, NullFits DEF AllFit, OnlyResultIsBacked, Sources
<1>4. \A h \in Holders : Holder(h) = None
  BY <1>1, HolderFacts, NullFits DEF AuxArgs, Sources
<1>5. \A d \in Data : ~Holds(d)
  BY <1>4, HoldsIsHolder, FunctionCallAssumption
<1>6. OneHolder /\ Counted
  BY <1>1, <1>4, <1>5 DEF OneHolder, Counted
<1>7. AuxMarked /\ ViewsFollow
  BY <1>1 DEF AuxMarked, ViewsFollow, Follows, AuxArgs
<1> QED
  BY <1>2, <1>3, <1>6, <1>7 DEF Consistent

(* Every step keeps the invariant and its promises. *)
LEMMA NextKeeps ==
  ASSUME Consistent, Next
  PROVE  Kept
<1>1. CASE Call
  BY <1>1, CallKeeps
<1>2. CASE Return
  BY <1>2, ReturnKeeps
<1>3. CASE ReturnFailed \/ EndStatement
  BY <1>3, HaltKeeps DEF ReturnFailed, EndStatement
<1>4. CASE Callback
  BY <1>4, SetAuxdataKeeps, CopiedKeeps, ErrorCodeKeeps, ReferenceKeeps DEF Callback
<1>5. CASE Reading
  BY <1>5, ReadKeeps, NumericTypeKeeps, DupKeeps, FreeCopyKeeps DEF Reading
<1> QED
  BY <1>1, <1>2, <1>3, <1>4, <1>5 DEF Next

(* So does a step in which nothing happens. *)
LEMMA StutterKeeps ==
  ASSUME Consistent, UNCHANGED vars
  PROVE  Consistent' /\ UNCHANGED <<owner, destroyed>> /\ ViewsStep
<1>1. \A d \in Data : Holds(d)' <=> Holds(d)
  BY DEF vars, data, Holds
<1>2. /\ OneHolder' /\ Counted'
  <2>1. \A h \in Holders : Holder(h)' = Holder(h)
    BY DEF vars, Holder
  <2>2. OneHolder'
    BY <2>1 DEF Consistent, OneHolder
  <2>3. Counted'
    BY <1>1 DEF Consistent, Counted, vars, data
  <2> QED
    BY <2>2, <2>3
<1>3. TypeOK' /\ AllFit' /\ OnlyResultIsBacked' /\ AuxMarked' /\ ViewsFollow'
  BY DEF Consistent, TypeOK, AllFit, OnlyResultIsBacked, AuxMarked, ViewsFollow, vars, data
<1>4. UNCHANGED <<owner, destroyed>>
  BY <1>1 DEF owner, vars, data
<1>5. ViewsStep
  BY DEF ViewsStep, Valid, vars
<1> QED
  BY <1>2, <1>3, <1>4, <1>5 DEF Consistent

(* The invariant holds in every state of every statement that calls         *)
(* functions, and every step is one of the ownership protocol in which the  *)
(* views behave.                                                            *)
THEOREM AlwaysConsistent == Spec => []Consistent
<1>1. Init => Consistent
  BY InitConsistent
<1>2. Consistent /\ [Next]_vars => Consistent'
  BY NextKeeps, StutterKeeps DEF Kept
<1> QED
  BY <1>1, <1>2, PTL DEF Spec

(* The variables have their types: in particular the counters of a cell     *)
(* never reach their bounds, so no conversion is cut short by them.         *)
THEOREM FunctionsTypeCorrect == Spec => []TypeOK
<1>1. Consistent => TypeOK
  BY DEF Consistent
<1> QED
  BY <1>1, AlwaysConsistent, PTL

(* context::set_auxdata: what belongs to an argument that may change in the *)
(* next row is gone before the next call.                                   *)
THEOREM AuxdataEndsWithCall == Spec => []AuxdataOfThisCall
<1>1. Consistent => AuxdataOfThisCall
  BY DEF Consistent, AuxMarked, AuxdataOfThisCall
<1> QED
  BY <1>1, AlwaysConsistent, PTL

(* value::get and column_value: a view that a read returns points to the    *)
(* content and has its size.                                                *)
THEOREM ViewsFitWhenRead == Spec => ViewFits
<1> DEFINE Fits == \A v \in Views : view'[v] # view[v] /\ view'[v] # NoView =>
                     /\ Valid(v)'
                     /\ view'[v].length = cell'[view'[v].source].length
<1>1. Consistent /\ [Next]_vars => [Fits]_vars
  BY NextKeeps, StutterKeeps DEF Kept, ViewsStep
<1> QED
  BY <1>1, AlwaysConsistent, PTL DEF Spec, ViewFits

(* value::get and column_value of a string_view: later reads leave it valid, *)
(* unless numeric_type has made the text a number.                          *)
THEOREM StringViewsStayValid == Spec => StringViewsLast
<1> DEFINE Last == \A v \in Views :
                     view[v].kind = "string_view" /\ view'[v] = view[v] /\ Valid(v) =>
                       Valid(v)' \/ {"text", "blob"} \cap cell[view[v].source].flags = {}
<1>1. Consistent /\ [Next]_vars => [Last]_vars
  BY NextKeeps, StutterKeeps DEF Kept, ViewsStep
<1> QED
  BY <1>1, AlwaysConsistent, PTL DEF Spec, StringViewsLast

(* Results and auxiliary data implement the ownership protocol: no datum is *)
(* lost, deleted twice or deleted while it is held.                         *)
THEOREM FunctionsRefineOwnership == Spec => ImplementsOwnership
<1>1. Init => Abstract!Init
  <2> SUFFICES ASSUME Init
               PROVE  Abstract!Init
    OBVIOUS
  <2>1. Consistent
    BY InitConsistent
  <2>2. given = {} /\ destroyed = [d \in Data |-> 0]
    BY DEF Init
  <2>3. \A d \in Data : ~Holds(d)
    BY <2>1, <2>2 DEF Consistent, Counted
  <2> QED
    BY <2>2, <2>3 DEF Abstract!Init, owner
<1>2. Consistent /\ [Next]_vars => [Abstract!Next]_<<owner, destroyed>>
  BY NextKeeps, StutterKeeps DEF Kept
<1> QED
  BY <1>1, <1>2, AlwaysConsistent, PTL DEF Spec, ImplementsOwnership, Abstract!Spec
===============================================================================
