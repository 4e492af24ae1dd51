-------------------------- MODULE ErrorObjectProofs --------------------------
(****************************************************************************)
(* Proofs about ErrorObject, for any number of objects, message_ptr         *)
(* variables, failures and blocks.                                          *)
(*                                                                          *)
(* MessageOwnership counts the owners of a block.  The proofs speak of the  *)
(* slots that hold a message instead, and every operation is one of four    *)
(* transfers between slots: a message is put into a slot, a new block is,   *)
(* the message of another slot is moved there, or two slots are exchanged.  *)
(****************************************************************************)
EXTENDS ErrorObject, FiniteSetTheorems, TLAPS

Slots == ({"error"} \X Errors) \cup ({"pointer"} \X Pointers)

InError(x)   == <<"error", x>>
InPointer(p) == <<"pointer", p>>

Message(s) == IF s[1] = "error" THEN error[s[2]].message ELSE pointer[s[2]]

(* The texts that may be freed are those in blocks. *)
Proper(m) == /\ m \in Messages
             /\ m.to.kind = "block" => m.deleter
             /\ m.to.kind = "text" => ~m.deleter

(* The parts of the inductive invariant. *)
AllProper == \A s \in Slots : Proper(Message(s))

OneOwner == \A s, r \in Slots, b \in Blocks :
              Message(s).to = Heap(b) /\ Message(r).to = Heap(b) => s = r

OwnedIffUsed == \A b \in Blocks :
                  heap[b] # None <=> \E s \in Slots : Message(s).to = Heap(b)

Owned == AllProper /\ OneOwner /\ OwnedIffUsed

Consistent == TypeOK /\ Owned /\ CodeAndMessageAgree

-----------------------------------------------------------------------------
(* Operators. *)

(* Where messages are can be told apart. *)
LEMMA PlacesDiffer ==
  /\ \A b, c : Heap(b) = Heap(c) => b = c
  /\ \A b : Heap(b) # Null /\ Heap(b).kind = "block" /\ Heap(b).at = b
  /\ \A b, f : Heap(b) # Static(f)
  /\ \A f : Static(f).kind = "text" /\ Static(f).at = f
  /\ Null.kind = "null"
<1>1. \A b : Heap(b).kind = "block" /\ Heap(b).at = b
  BY DEF Heap
<1>2. \A f : Static(f).kind = "text" /\ Static(f).at = f
  BY DEF Static
<1>3. Null.kind = "null"
  BY DEF Null
<1>4. "block" # "text" /\ "block" # "null"
  OBVIOUS
<1> QED
  BY <1>1, <1>2, <1>3, <1>4

(* The text at a place, by the state of the heap. *)
TextAt(place, h) == CASE place.kind = "null"  -> None
                      [] place.kind = "text"  -> place.at
                      [] place.kind = "block" -> h[place.at]

(* It is what message() returns, before and after a step. *)
LEMMA TextIsAt ==
  /\ \A m : Text(m) = TextAt(m.to, heap)
  /\ \A s : Text(Message(s))' = TextAt(Message(s)'.to, heap')
  /\ \A x : Text(error[x].message)' = TextAt(error'[x].message.to, heap')
  BY DEF Text, TextAt

(* What it is at each kind of place. *)
LEMMA TextCases ==
  ASSUME NEW h
  PROVE  /\ TextAt(Null, h) = None
         /\ \A f : TextAt(Static(f), h) = f
         /\ \A b : TextAt(Heap(b), h) = h[b]
<1>1. TextAt(Null, h) = None
  BY PlacesDiffer DEF TextAt
<1>2. ASSUME NEW f PROVE TextAt(Static(f), h) = f
  <2>1. Static(f).kind = "text" /\ Static(f).at = f
    BY PlacesDiffer
  <2> QED
    BY <2>1 DEF TextAt
<1>3. ASSUME NEW b PROVE TextAt(Heap(b), h) = h[b]
  <2>1. Heap(b).kind = "block" /\ Heap(b).at = b
    BY PlacesDiffer
  <2> QED
    BY <2>1 DEF TextAt
<1> QED
  BY <1>1, <1>2, <1>3

(* A proper message is null, or a static text without a deleter, or a block  *)
(* with one.                                                                *)
LEMMA ProperCases ==
  ASSUME NEW m, Proper(m)
  PROVE  \/ m.to = Null
         \/ ~m.deleter /\ \E f \in Failures : m.to = Static(f)
         \/ m.deleter /\ \E b \in Blocks : m.to = Heap(b)
<1>1. m.to \in Places
  BY DEF Proper, Messages
<1> QED
  BY <1>1, PlacesDiffer DEF Proper, Places

(* Freeing the message of a slot frees the block it points to. *)
LEMMA AfterFreed ==
  ASSUME NEW m, Proper(m), NEW h, NEW b \in Blocks
  PROVE  After(h, Freed(m))[b] = IF m.to = Heap(b) THEN None ELSE h[b]
<1>1. m.to = Heap(b) => m.deleter
  BY PlacesDiffer DEF Proper
<1> QED
  BY <1>1 DEF After, Freed

(* A message that was moved from is null. *)
LEMMA MovedFromIsNull ==
  ASSUME NEW m \in Messages
  PROVE  /\ MovedFrom(m) \in Messages /\ MovedFrom(m).to = Null
         /\ Proper(MovedFrom(m))
<1>1. MovedFrom(m) \in Messages /\ MovedFrom(m).to = Null
  BY DEF MovedFrom, Messages, Places
<1> QED
  BY <1>1, PlacesDiffer DEF Proper

-----------------------------------------------------------------------------
(* The four transfers. *)

(* All slots but these keep their messages. *)
Keeps(changed) == \A s \in Slots \ changed : Message(s)' = Message(s)

(* What the slot points to is freed, and the rest of the heap is h. *)
Frees(s, h) == \A b \in Blocks :
                 heap'[b] = IF Message(s).to = Heap(b) THEN None ELSE h[b]

(* The other slots have the same texts as before. *)
SameTexts(changed) == \A s \in Slots \ changed : Text(Message(s))' = Text(Message(s))

(* A message stays readable as long as its block is left alone. *)
LEMMA TextStays ==
  ASSUME NEW s \in Slots, Proper(Message(s)), NEW r, Message(r)'.to = Message(s).to,
         \A b \in Blocks : Message(s).to = Heap(b) => heap'[b] = heap[b]
  PROVE  Text(Message(r))' = Text(Message(s))
<1>1. TextAt(Message(s).to, heap') = TextAt(Message(s).to, heap)
  BY ProperCases, TextCases
<1> QED
  BY <1>1, TextIsAt

(* A slot gets a message that is not in a block, and drops what it had. *)
LEMMA Put ==
  ASSUME Owned, NEW s \in Slots, Keeps({s}), Frees(s, heap),
         Proper(Message(s))', \A b \in Blocks : Message(s)'.to # Heap(b)
  PROVE  Owned' /\ SameTexts({s})
<1>1. AllProper'
  BY DEF Owned, AllProper, Keeps
<1>2. OneOwner'
  BY DEF Owned, OneOwner, Keeps
<1>3. OwnedIffUsed'
  BY DEF Owned, OneOwner, OwnedIffUsed, Keeps, Frees
<1>4. SameTexts({s})
  BY TextStays DEF Owned, AllProper, OneOwner, Keeps, Frees, SameTexts
<1> QED
  BY <1>1, <1>2, <1>3, <1>4 DEF Owned

(* A slot gets a new block, and drops what it had. *)
LEMMA PutNew ==
  ASSUME Owned, NEW s \in Slots, Keeps({s}),
         NEW b \in Blocks, heap[b] = None, NEW f \in Failures,
         NEW h, h[b] = f, \A c \in Blocks \ {b} : h[c] = heap[c], Frees(s, h),
         Proper(Message(s))', Message(s)'.to = Heap(b)
  PROVE  Owned' /\ SameTexts({s}) /\ Text(Message(s))' = f
<1>1. \A r \in Slots : Message(r).to # Heap(b)
  BY DEF Owned, OwnedIffUsed
<1>2. AllProper'
  BY DEF Owned, AllProper, Keeps
<1>3. OneOwner'
  BY <1>1, PlacesDiffer DEF Owned, OneOwner, Keeps
<1>4. OwnedIffUsed'
  BY <1>1, PlacesDiffer, ErrorObjectAssumption
  DEF Owned, OneOwner, OwnedIffUsed, Keeps, Frees
<1>5. SameTexts({s})
  BY <1>1, TextStays DEF Owned, AllProper, OneOwner, Keeps, Frees, SameTexts
<1>6. Text(Message(s))' = f
  BY <1>1, TextIsAt, TextCases DEF Frees
<1> QED
  BY <1>2, <1>3, <1>4, <1>5, <1>6 DEF Owned

(* The message of slot r moves to slot s, which drops what it had. *)
LEMMA MoveTo ==
  ASSUME Owned, NEW s \in Slots, NEW r \in Slots, s # r, Keeps({s, r}), Frees(s, heap),
         Message(s)' = Message(r), Message(r)' = MovedFrom(Message(r))
  PROVE  Owned' /\ SameTexts({s, r}) /\ Text(Message(s))' = Text(Message(r))
         /\ Text(Message(r))' = None
<1>1. Proper(Message(r)) /\ Message(r)'.to = Null /\ Proper(Message(r))'
  BY MovedFromIsNull DEF Owned, AllProper, Proper
<1>2. Message(s)'.to = Message(r).to /\ Proper(Message(s))'
  BY <1>1 DEF Proper
<1>3. AllProper'
  BY <1>1, <1>2 DEF Owned, AllProper, Keeps
<1>4. OneOwner'
  BY <1>1, <1>2, PlacesDiffer DEF Owned, OneOwner, Keeps
<1>5. OwnedIffUsed'
  BY <1>1, <1>2, PlacesDiffer DEF Owned, OneOwner, OwnedIffUsed, Keeps, Frees
<1>6. SameTexts({s, r})
  BY TextStays DEF Owned, AllProper, OneOwner, Keeps, Frees, SameTexts
<1>7. Text(Message(s))' = Text(Message(r))
  BY <1>1, <1>2, TextStays DEF Owned, OneOwner, Frees
<1>8. Text(Message(r))' = None
  BY <1>1, TextIsAt, TextCases
<1> QED
  BY <1>3, <1>4, <1>5, <1>6, <1>7, <1>8 DEF Owned

(* Two slots are exchanged. *)
LEMMA Exchange ==
  ASSUME Owned, NEW s \in Slots, NEW r \in Slots, Keeps({s, r}), UNCHANGED heap,
         Message(s)' = Message(r), Message(r)' = Message(s)
  PROVE  Owned' /\ SameTexts({s, r}) /\ Text(Message(s))' = Text(Message(r))
         /\ Text(Message(r))' = Text(Message(s))
<1>1. AllProper'
  BY DEF Owned, AllProper, Keeps, Proper
<1>2. OneOwner'
  BY DEF Owned, OneOwner, Keeps
<1>3. OwnedIffUsed'
  BY DEF Owned, OwnedIffUsed, Keeps
<1>4. SameTexts({s, r})
  BY TextStays DEF Owned, AllProper, Keeps, SameTexts
<1>5. Text(Message(s))' = Text(Message(r)) /\ Text(Message(r))' = Text(Message(s))
  BY TextStays DEF Owned, AllProper
<1> QED
  BY <1>1, <1>2, <1>3, <1>4, <1>5 DEF Owned

-----------------------------------------------------------------------------
(* Objects and slots. *)

(* Each slot is that of an object or of a message_ptr. *)
LEMMA SlotCases ==
  /\ \A x \in Errors : InError(x) \in Slots /\ Message(InError(x)) = error[x].message
  /\ \A p \in Pointers : InPointer(p) \in Slots /\ Message(InPointer(p)) = pointer[p]
  /\ \A s \in Slots : \/ \E x \in Errors : s = InError(x)
                      \/ \E p \in Pointers : s = InPointer(p)
  /\ \A x, y : InError(x) = InError(y) => x = y
  /\ \A p, q : InPointer(p) = InPointer(q) => p = q
  /\ \A x, p : InError(x) # InPointer(p)
  BY DEF Slots, InError, InPointer, Message

(* Slots after a step. *)
LEMMA SlotsAfter ==
  /\ \A x \in Errors : Message(InError(x))' = error'[x].message
  /\ \A p \in Pointers : Message(InPointer(p))' = pointer'[p]
  BY DEF InError, InPointer, Message

(* The slots of some objects and of some message_ptr variables. *)
SlotsOf(E, P) == {InError(x) : x \in E} \cup {InPointer(p) : p \in P}

(* A step that leaves the other variables alone keeps their slots. *)
LEMMA KeepsOthers ==
  ASSUME NEW E, NEW P,
         \A x \in Errors \ E : error'[x].message = error[x].message,
         \A p \in Pointers \ P : pointer'[p] = pointer[p]
  PROVE  Keeps(SlotsOf(E, P))
<1> SUFFICES ASSUME NEW s \in Slots \ SlotsOf(E, P) PROVE Message(s)' = Message(s)
  BY DEF Keeps
<1>1. CASE \E x \in Errors : s = InError(x)
  BY <1>1, SlotCases, SlotsAfter DEF SlotsOf
<1>2. CASE \E p \in Pointers : s = InPointer(p)
  BY <1>2, SlotCases, SlotsAfter DEF SlotsOf
<1> QED
  BY <1>1, <1>2, SlotCases

(* Codes and texts agree after a step if they do in what it has changed. *)
LEMMA OthersAgree ==
  ASSUME CodeAndMessageAgree, NEW E, NEW P, SameTexts(SlotsOf(E, P)),
         \A x \in Errors \ E : error'[x] = error[x],
         \A x \in E : error'[x].alive =>
                        Text(Message(InError(x)))' \in {error'[x].code, None}
  PROVE  CodeAndMessageAgree'
<1> SUFFICES ASSUME NEW x \in Errors, error'[x].alive
             PROVE  Text(error[x].message)' \in {error'[x].code, None}
  BY DEF CodeAndMessageAgree
<1>1. Text(error[x].message)' = Text(Message(InError(x)))'
  BY TextIsAt, SlotsAfter
<1>2. CASE x \in E
  BY <1>1, <1>2
<1>3. CASE x \notin E
  <2>1. InError(x) \in Slots \ SlotsOf(E, P)
    BY <1>3, SlotCases DEF SlotsOf
  <2>2. Text(Message(InError(x)))' = Text(error[x].message)
    BY <2>1, SlotCases DEF SameTexts
  <2> QED
    BY <1>1, <1>3, <2>2 DEF CodeAndMessageAgree
<1> QED
  BY <1>2, <1>3

(* What the variables hold. *)
LEMMA Holdings ==
  ASSUME Consistent
  PROVE  /\ \A x \in Errors : /\ error[x] \in Objects \/ error[x] = NoError
                              /\ error[x].alive <=> error[x] \in Objects
                              /\ Proper(error[x].message)
         /\ \A p \in Pointers : Proper(pointer[p])
         /\ \A x \in Errors : ~error[x].alive => error[x].message.to = Null
<1>1. NoError.alive = FALSE /\ NoError.message.to = Null
  BY DEF NoError, NoMessage
<1>2. \A o \in Objects : o.alive = TRUE
  BY DEF Objects
<1>3. \A x \in Errors : error[x] \in Objects \/ error[x] = NoError
  BY DEF Consistent, TypeOK
<1>4. \A s \in Slots : Proper(Message(s))
  BY DEF Consistent, Owned, AllProper
<1> QED
  BY <1>1, <1>2, <1>3, <1>4, SlotCases

(* Objects are made of a code, details and a message. *)
LEMMA ObjectType ==
  ASSUME NEW f \in Failures, NEW d \in Failures \cup {None}, NEW m \in Messages
  PROVE  /\ Object(f, d, m) \in Objects
         /\ Object(f, d, m).code = f /\ Object(f, d, m).message = m
  BY DEF Object, Objects

(* So are those that are copied or moved, which have no details. *)
LEMMA CopiedObjectType ==
  ASSUME NEW f \in Failures, NEW m \in Messages
  PROVE  /\ Object(f, None, m) \in Objects
         /\ Object(f, None, m).code = f /\ Object(f, None, m).message = m
<1>1. None \in Failures \cup {None}
  OBVIOUS
<1> QED
  BY <1>1, ObjectType

(* An object after swap has the code and the message of the other one. *)
LEMMA SwappedType ==
  ASSUME NEW a \in Objects, NEW b \in Objects
  PROVE  /\ Swapped(a, b) \in Objects
         /\ Swapped(a, b).code = b.code /\ Swapped(a, b).message = b.message
  BY DEF Swapped, Objects

(* An object that is moved from keeps its code. *)
LEMMA MovedType ==
  ASSUME NEW a \in Objects
  PROVE  LET moved == [a EXCEPT !.message = MovedFrom(@)] IN
           /\ moved \in Objects /\ moved.code = a.code
           /\ moved.message = MovedFrom(a.message)
<1>1. MovedFrom(a.message) \in Messages
  BY MovedFromIsNull DEF Objects
<1> QED
  BY <1>1 DEF Objects

(* Literals and the text of a code. *)
LEMMA StaticMessage ==
  ASSUME NEW f \in Failures
  PROVE  LET m == [to |-> Static(f), deleter |-> FALSE] IN
           m \in Messages /\ Proper(m) /\ m.to = Static(f)
<1>1. Static(f) \in Places
  BY DEF Places
<1>2. Static(f).kind = "text"
  BY PlacesDiffer
<1> QED
  BY <1>1, <1>2 DEF Messages, Proper

(* No message. *)
LEMMA NullMessage ==
  NoMessage \in Messages /\ Proper(NoMessage) /\ NoMessage.to = Null
  BY PlacesDiffer DEF NoMessage, Messages, Places, Proper

(* What copy_message returns: nothing, or a block of its own with the text. *)
LEMMA CopyMessageCases ==
  ASSUME NEW text, NEW c \in copy_message(text)
  PROVE  \/ c.message = NoMessage /\ c.heap = heap
         \/ /\ text # None
            /\ \E b \in Blocks :
                 /\ heap[b] = None /\ c.message = [to |-> Heap(b), deleter |-> TRUE]
                 /\ c.heap = [heap EXCEPT ![b] = text]
<1>1. CASE c = [message |-> NoMessage, heap |-> heap]
  BY <1>1
<1>2. CASE c # [message |-> NoMessage, heap |-> heap]
  <2>1. text # None
    BY <1>2 DEF copy_message
  <2>2. PICK b \in Unused : c = [message |-> [to |-> Heap(b), deleter |-> TRUE],
                                heap    |-> [heap EXCEPT ![b] = text]]
    BY <1>2, <2>1 DEF copy_message
  <2> QED
    BY <2>1, <2>2 DEF Unused
<1> QED
  BY <1>1, <1>2

(* A block with its deleter. *)
LEMMA BlockMessage ==
  ASSUME NEW b \in Blocks
  PROVE  LET m == [to |-> Heap(b), deleter |-> TRUE] IN
           m \in Messages /\ Proper(m) /\ m.to = Heap(b)
  BY PlacesDiffer DEF Messages, Places, Proper

-----------------------------------------------------------------------------
(* What the operations do to one object. *)

(* The object at x is replaced, and what it pointed to is freed. *)
Replaces(x, o, h) ==
  /\ error' = [error EXCEPT ![x] = o]
  /\ heap' \in [Blocks -> Failures \cup {None}]
  /\ Frees(InError(x), h)
  /\ UNCHANGED pointer

(* The consequences for slots. *)
LEMMA ReplacesSlots ==
  ASSUME Consistent, NEW x \in Errors, NEW o \in Objects \cup {NoError}, NEW h,
         Replaces(x, o, h)
  PROVE  /\ error'[x] = o /\ \A y \in Errors \ {x} : error'[y] = error[y]
         /\ TypeOK'
         /\ SlotsOf({x}, {}) = {InError(x)} /\ Keeps({InError(x)})
         /\ InError(x) \in Slots /\ Message(InError(x)) = error[x].message
         /\ Message(InError(x))' = o.message
<1>1. error'[x] = o /\ \A y \in Errors \ {x} : error'[y] = error[y]
  BY DEF Consistent, TypeOK, Replaces
<1>2. TypeOK'
  BY DEF Consistent, TypeOK, Replaces
<1>3. SlotsOf({x}, {}) = {InError(x)}
  BY DEF SlotsOf
<1>4. Keeps(SlotsOf({x}, {}))
  BY <1>1, KeepsOthers DEF Replaces
<1> QED
  BY <1>1, <1>2, <1>3, <1>4, SlotCases, SlotsAfter

(* Its new message is in no block. *)
LEMMA GivenShared ==
  ASSUME Consistent, NEW x \in Errors, NEW o \in Objects \cup {NoError},
         Proper(o.message), \A b \in Blocks : o.message.to # Heap(b),
         o.alive => TextAt(o.message.to, heap) \in {o.code, None},
         Replaces(x, o, heap)
  PROVE  Consistent'
<1>1. /\ error'[x] = o /\ \A y \in Errors \ {x} : error'[y] = error[y]
      /\ TypeOK'
      /\ SlotsOf({x}, {}) = {InError(x)} /\ Keeps({InError(x)})
      /\ InError(x) \in Slots /\ Message(InError(x)) = error[x].message
      /\ Message(InError(x))' = o.message
  BY ReplacesSlots
<1>2. Proper(Message(InError(x)))' /\ \A b \in Blocks : Message(InError(x))'.to # Heap(b)
  BY <1>1 DEF Proper
<1>3. Owned' /\ SameTexts({InError(x)})
  BY <1>1, <1>2, Put DEF Consistent, Replaces
<1>4. TextAt(o.message.to, heap') = TextAt(o.message.to, heap)
  BY ProperCases, TextCases
<1>5. Text(Message(InError(x)))' = TextAt(o.message.to, heap)
  BY <1>1, <1>4, TextIsAt
<1>6. CodeAndMessageAgree'
  BY <1>1, <1>3, <1>5, OthersAgree DEF Consistent
<1> QED
  BY <1>1, <1>3, <1>6 DEF Consistent

(* Its new message is in a block that was not used. *)
LEMMA GivenBlock ==
  ASSUME Consistent, NEW x \in Errors, NEW o \in Objects,
         NEW b \in Blocks, heap[b] = None, NEW text \in Failures, text \in {o.code, None},
         o.message = [to |-> Heap(b), deleter |-> TRUE],
         Replaces(x, o, [heap EXCEPT ![b] = text])
  PROVE  Consistent'
<1> DEFINE h == [heap EXCEPT ![b] = text]
<1>1. /\ error'[x] = o /\ \A y \in Errors \ {x} : error'[y] = error[y]
      /\ TypeOK'
      /\ SlotsOf({x}, {}) = {InError(x)} /\ Keeps({InError(x)})
      /\ InError(x) \in Slots /\ Message(InError(x)) = error[x].message
      /\ Message(InError(x))' = o.message
  BY ReplacesSlots
<1>2. Proper(o.message) /\ o.message.to = Heap(b)
  BY BlockMessage
<1>3. Proper(Message(InError(x)))' /\ Message(InError(x))'.to = Heap(b)
  BY <1>1, <1>2 DEF Proper
<1>4. h[b] = text /\ \A c \in Blocks \ {b} : h[c] = heap[c]
  BY DEF Consistent, TypeOK
<1>5. Frees(InError(x), h)
  BY DEF Replaces
<1> HIDE DEF h
<1>6. Owned
  BY DEF Consistent
<1>7. Owned' /\ SameTexts({InError(x)}) /\ Text(Message(InError(x)))' = text
  BY <1>1, <1>3, <1>4, <1>5, <1>6, PutNew
<1>8. CodeAndMessageAgree'
  <2>1. SameTexts(SlotsOf({x}, {})) /\ CodeAndMessageAgree
    BY <1>1, <1>7 DEF Consistent
  <2>2. \A y \in {x} : Text(Message(InError(y)))' \in {error'[y].code, None}
    BY <1>1, <1>7
  <2> QED
    BY <1>1, <2>1, <2>2, OthersAgree
<1> QED
  BY <1>1, <1>7, <1>8 DEF Consistent

(* Its new message is a copy of a text, or there is no memory for one. *)
LEMMA GivenCopy ==
  ASSUME Consistent, NEW x \in Errors, NEW o \in Objects,
         NEW text \in Failures \cup {None}, text \in {o.code, None},
         NEW c \in copy_message(text), o.message = c.message,
         Replaces(x, o, c.heap)
  PROVE  Consistent'
<1>1. CASE c.message = NoMessage /\ c.heap = heap
  <2>1. Proper(o.message) /\ o.message.to = Null
    BY <1>1, NullMessage
  <2>2. \A b \in Blocks : o.message.to # Heap(b)
    BY <2>1, PlacesDiffer
  <2>3. TextAt(o.message.to, heap) = None
    BY <2>1, TextCases
  <2> QED
    BY <1>1, <2>1, <2>2, <2>3, GivenShared
<1>2. CASE text # None /\ \E b \in Blocks :
                 /\ heap[b] = None /\ c.message = [to |-> Heap(b), deleter |-> TRUE]
                 /\ c.heap = [heap EXCEPT ![b] = text]
  BY <1>2, GivenBlock
<1> QED
  BY <1>1, <1>2, CopyMessageCases

(* Its new message is what the copy constructor makes of another message. *)
LEMMA GivenCopyOf ==
  ASSUME Consistent, NEW x \in Errors, NEW o \in Objects, NEW m, Proper(m),
         Text(m) \in {o.code, None}, Text(m) \in Failures \cup {None},
         NEW c \in CopyOf(m), o.message = c.message,
         Replaces(x, o, c.heap)
  PROVE  Consistent'
<1>1. CASE m.deleter
  BY <1>1, GivenCopy DEF CopyOf
<1>2. CASE ~m.deleter
  <2>1. o.message = [to |-> m.to, deleter |-> FALSE] /\ c.heap = heap
    BY <1>2 DEF CopyOf
  <2>2. m.to \in Places /\ m.to.kind # "block"
    BY <1>2 DEF Proper, Messages
  <2>3. Proper(o.message) /\ \A b \in Blocks : o.message.to # Heap(b)
    BY <2>1, <2>2, PlacesDiffer DEF Proper, Messages
  <2>4. TextAt(o.message.to, heap) \in {o.code, None}
    BY <2>1, TextIsAt
  <2> QED
    BY <2>1, <2>3, <2>4, GivenShared
<1> QED
  BY <1>1, <1>2

-----------------------------------------------------------------------------
(* One lemma per action. *)

(* Memory is freed as the destructor of message_ptr does. *)
LEMMA Replacing ==
  ASSUME Consistent, NEW x \in Errors, NEW o, NEW h \in [Blocks -> Failures \cup {None}],
         error' = [error EXCEPT ![x] = o], UNCHANGED pointer,
         heap' = After(h, Freed(error[x].message))
  PROVE  Replaces(x, o, h)
<1>1. heap' \in [Blocks -> Failures \cup {None}]
  BY DEF After
<1>2. Frees(InError(x), h)
  BY AfterFreed, Holdings, SlotCases DEF Frees
<1> QED
  BY <1>1, <1>2 DEF Replaces

(* A new object has nothing to free. *)
LEMMA ReplacingVacant ==
  ASSUME Consistent, NEW x \in Errors, Vacant(x), NEW o,
         NEW h \in [Blocks -> Failures \cup {None}],
         error' = [error EXCEPT ![x] = o], UNCHANGED pointer, heap' = h
  PROVE  Replaces(x, o, h)
<1>1. Frees(InError(x), h)
  BY Holdings, SlotCases, PlacesDiffer DEF Frees, Vacant
<1> QED
  BY <1>1 DEF Replaces

(* The heap after copy_message. *)
LEMMA CopyHeap ==
  ASSUME TypeOK, NEW m
  PROVE  /\ \A text \in Failures \cup {None} : \A c \in copy_message(text) :
              c.heap \in [Blocks -> Failures \cup {None}] /\ c.message \in Messages
         /\ Text(m) \in Failures \cup {None} /\ m \in Messages =>
              \A c \in CopyOf(m) :
                c.heap \in [Blocks -> Failures \cup {None}] /\ c.message \in Messages
<1>1. heap \in [Blocks -> Failures \cup {None}]
  BY DEF TypeOK
<1>2. ASSUME NEW text \in Failures \cup {None}, NEW c \in copy_message(text)
      PROVE  c.heap \in [Blocks -> Failures \cup {None}] /\ c.message \in Messages
  <2>1. CASE c.message = NoMessage /\ c.heap = heap
    BY <1>1, <2>1, NullMessage
  <2>2. CASE \E b \in Blocks : /\ c.message = [to |-> Heap(b), deleter |-> TRUE]
                               /\ c.heap = [heap EXCEPT ![b] = text]
    BY <1>1, <2>2, BlockMessage
  <2> QED
    BY ZenonT(30), <2>1, <2>2, CopyMessageCases
<1>3. ASSUME Text(m) \in Failures \cup {None}, m \in Messages, NEW c \in CopyOf(m)
      PROVE  c.heap \in [Blocks -> Failures \cup {None}] /\ c.message \in Messages
  <2>1. CASE m.deleter
    BY <1>2, <1>3, <2>1 DEF CopyOf
  <2>2. CASE ~m.deleter
    <3>1. c = [message |-> [to |-> m.to, deleter |-> FALSE], heap |-> heap]
      BY <1>3, <2>2 DEF CopyOf
    <3> QED
      BY <1>1, <1>3, <3>1 DEF Messages
  <2> QED
    BY <2>1, <2>2
<1> QED
  BY <1>2, <1>3

(* The text of an object that is there. *)
LEMMA LivingText ==
  ASSUME Consistent, NEW y \in Errors, error[y].alive
  PROVE  /\ error[y] \in Objects /\ error[y].code \in Failures
         /\ error[y].message \in Messages /\ Proper(error[y].message)
         /\ Text(error[y].message) \in {error[y].code, None}
<1>1. error[y] \in Objects
  BY Holdings
<1> QED
  BY <1>1, Holdings DEF Consistent, CodeAndMessageAgree, Objects

(* The constructor from a code: a static text, owned by nobody. *)
LEMMA FromCodeConsistent ==
  ASSUME Consistent, NEW x \in Errors, NEW f \in Failures, FromCode(x, f)
  PROVE  Consistent'
<1> DEFINE m == [to |-> Static(f), deleter |-> FALSE]
           o == Object(f, None, m)
<1>1. m \in Messages /\ Proper(m) /\ m.to = Static(f)
  BY StaticMessage
<1>2. o \in Objects /\ o.code = f /\ o.message = m
  BY <1>1, ObjectType
<1>3. error' = [error EXCEPT ![x] = o] /\ UNCHANGED <<pointer, heap>> /\ Vacant(x)
  BY DEF FromCode
<1>4. heap \in [Blocks -> Failures \cup {None}]
  BY DEF Consistent, TypeOK
<1> HIDE DEF o, m
<1>5. Replaces(x, o, heap)
  BY <1>3, <1>4, ReplacingVacant
<1>6. /\ TextAt(o.message.to, heap) \in {o.code, None}
      /\ \A b \in Blocks : o.message.to # Heap(b)
      /\ Proper(o.message)
  BY <1>1, <1>2, TextCases, PlacesDiffer
<1> QED
  BY <1>2, <1>5, <1>6, GivenShared

(* The constructor from a connection: a block of its own, or no message. *)
LEMMA FromDatabaseConsistent ==
  ASSUME Consistent, NEW x \in Errors, NEW f \in Failures, FromDatabase(x, f)
  PROVE  Consistent'
<1> DEFINE shared == [message |-> [to |-> Static(f), deleter |-> FALSE], heap |-> heap]
<1>1. PICK c \in copy_message(f) \cup {shared} :
        error' = [error EXCEPT ![x] = Object(f, f, c.message)] /\ heap' = c.heap
  BY DEF FromDatabase
<1>2. Vacant(x) /\ UNCHANGED pointer /\ heap \in [Blocks -> Failures \cup {None}]
  BY DEF FromDatabase, Consistent, TypeOK
<1>3. CASE c \in copy_message(f)
  <2>1. c.heap \in [Blocks -> Failures \cup {None}] /\ c.message \in Messages
    BY <1>3, CopyHeap DEF Consistent
  <2>2. Replaces(x, Object(f, f, c.message), c.heap)
    BY <1>1, <1>2, <2>1, ReplacingVacant
  <2> QED
    BY <1>3, <2>1, <2>2, ObjectType, GivenCopy
<1>4. CASE c = shared
  <2> DEFINE m == [to |-> Static(f), deleter |-> FALSE]
             o == Object(f, f, m)
  <2>1. m \in Messages /\ Proper(m) /\ m.to = Static(f)
    BY StaticMessage
  <2>2. o \in Objects /\ o.code = f /\ o.message = m
    BY <2>1, ObjectType
  <2>3. error' = [error EXCEPT ![x] = o] /\ heap' = heap
    BY <1>1, <1>4
  <2> HIDE DEF o, m
  <2>4. Replaces(x, o, heap)
    BY <1>2, <2>3, ReplacingVacant
  <2>5. /\ TextAt(o.message.to, heap) \in {o.code, None}
        /\ \A b \in Blocks : o.message.to # Heap(b)
        /\ Proper(o.message)
    BY <2>1, <2>2, TextCases, PlacesDiffer
  <2> QED
    BY <2>2, <2>4, <2>5, GivenShared
<1> QED
  BY <1>1, <1>3, <1>4

(* The copy constructor: a second block with the same text, or none. *)
LEMMA CopyConsistent ==
  ASSUME Consistent, NEW x \in Errors, NEW y \in Errors, Copy(x, y)
  PROVE  Consistent'
<1> DEFINE m == error[y].message
<1>1. PICK c \in CopyOf(m) :
        /\ error' = [error EXCEPT ![x] = Object(error[y].code, None, c.message)]
        /\ heap' = c.heap
  BY DEF Copy
<1>2. Vacant(x) /\ error[y].alive /\ UNCHANGED pointer
  BY DEF Copy
<1>3. /\ error[y].code \in Failures /\ m \in Messages /\ Proper(m)
      /\ Text(m) \in {error[y].code, None}
  BY <1>2, LivingText
<1> HIDE DEF m
<1>4. c.heap \in [Blocks -> Failures \cup {None}] /\ c.message \in Messages
  BY <1>3, CopyHeap DEF Consistent
<1> DEFINE o == Object(error[y].code, None, c.message)
<1>5. o \in Objects /\ o.code = error[y].code /\ o.message = c.message
  BY ZenonT(30), <1>3, <1>4, ObjectType
<1> HIDE DEF o
<1>6. Replaces(x, o, c.heap)
  BY <1>1, <1>2, <1>4, ReplacingVacant DEF o
<1> QED
  BY <1>3, <1>5, <1>6, GivenCopyOf

(* Assignment from a copy: swapped with the copy, which frees the old text. *)
LEMMA AssignCopyConsistent ==
  ASSUME Consistent, NEW x \in Errors, NEW y \in Errors, AssignCopy(x, y)
  PROVE  Consistent'
<1> DEFINE m == error[y].message
<1>1. PICK c \in CopyOf(m) :
        LET src == Object(error[y].code, None, c.message) IN
          /\ error' = [error EXCEPT ![x] = Swapped(@, src)]
          /\ heap' = After(c.heap, Freed(Swapped(src, error[x]).message))
  BY DEF AssignCopy
<1>2. error[x].alive /\ error[y].alive /\ UNCHANGED pointer
  BY DEF AssignCopy
<1>3. /\ error[y].code \in Failures /\ m \in Messages /\ Proper(m)
      /\ Text(m) \in {error[y].code, None} /\ error[x] \in Objects
  BY <1>2, LivingText
<1> HIDE DEF m
<1>4. c.heap \in [Blocks -> Failures \cup {None}] /\ c.message \in Messages
  BY <1>3, CopyHeap DEF Consistent
<1> DEFINE src == Object(error[y].code, None, c.message)
           o   == Swapped(error[x], src)
<1>5. src \in Objects /\ src.code = error[y].code /\ src.message = c.message
  BY ZenonT(30), <1>3, <1>4, ObjectType
<1>6. error' = [error EXCEPT ![x] = o]
      /\ heap' = After(c.heap, Freed(Swapped(src, error[x]).message))
  BY <1>1
<1> HIDE DEF src
<1>7. /\ o \in Objects /\ o.code = error[y].code /\ o.message = c.message
      /\ Swapped(src, error[x]).message = error[x].message
  BY <1>3, <1>5, SwappedType
<1> HIDE DEF o
<1>8. Replaces(x, o, c.heap)
  BY <1>2, <1>4, <1>6, <1>7, Replacing
<1> QED
  BY <1>3, <1>7, <1>8, GivenCopyOf

(* The destructor frees the text if it owns one. *)
LEMMA DestroyConsistent ==
  ASSUME Consistent, NEW x \in Errors, Destroy(x)
  PROVE  Consistent'
<1>1. heap \in [Blocks -> Failures \cup {None}]
  BY DEF Consistent, TypeOK
<1>2. Replaces(x, NoError, heap)
  BY <1>1, Replacing DEF Destroy
<1>3. NoError.message = NoMessage /\ NoError.alive = FALSE
  BY DEF NoError
<1>4. Proper(NoMessage) /\ \A b \in Blocks : NoMessage.to # Heap(b)
  BY NullMessage, PlacesDiffer
<1> QED
  BY <1>2, <1>3, <1>4, GivenShared

(* The move constructor takes the text and leaves none behind. *)
LEMMA MoveConsistent ==
  ASSUME Consistent, NEW x \in Errors, NEW y \in Errors, Move(x, y)
  PROVE  Consistent'
<1> DEFINE o     == Object(error[y].code, None, error[y].message)
           moved == [error[y] EXCEPT !.message = MovedFrom(@)]
<1>1. /\ Vacant(x) /\ error[y].alive /\ x # y /\ UNCHANGED <<pointer, heap>>
      /\ error' = [error EXCEPT ![x] = o, ![y].message = MovedFrom(@)]
  BY DEF Move, Vacant
<1>2. /\ error[y].code \in Failures /\ error[y].message \in Messages
      /\ Text(error[y].message) \in {error[y].code, None} /\ error[y] \in Objects
  BY <1>1, LivingText
<1>3. o \in Objects /\ o.code = error[y].code /\ o.message = error[y].message
  BY <1>2, CopiedObjectType
<1>4. /\ moved \in Objects /\ moved.code = error[y].code
      /\ moved.message = MovedFrom(error[y].message)
  BY <1>2, MovedType
<1>5. error' = [error EXCEPT ![x] = o, ![y] = moved]
  BY <1>1 DEF Consistent, TypeOK
<1> HIDE DEF o, moved
<1>6. /\ error'[x] = o /\ error'[y] = moved /\ TypeOK'
      /\ \A z \in Errors \ {x, y} : error'[z] = error[z]
  BY <1>1, <1>3, <1>4, <1>5 DEF Consistent, TypeOK
<1>7. Keeps({InError(x), InError(y)})
  <2>1. Keeps(SlotsOf({x, y}, {}))
    BY <1>1, <1>6, KeepsOthers
  <2> QED
    BY <2>1 DEF SlotsOf, Keeps
<1>8. Frees(InError(x), heap)
  BY <1>1, Holdings, SlotCases, PlacesDiffer DEF Frees, Vacant
<1>9. /\ Owned' /\ SameTexts({InError(x), InError(y)})
      /\ Text(Message(InError(x)))' = Text(Message(InError(y)))
      /\ Text(Message(InError(y)))' = None
  <2>1. /\ InError(x) \in Slots /\ InError(y) \in Slots /\ InError(x) # InError(y)
        /\ Message(InError(x))' = o.message /\ Message(InError(y))' = moved.message
        /\ Message(InError(y)) = error[y].message
    BY <1>1, <1>6, SlotCases, SlotsAfter
  <2>2. /\ Message(InError(x))' = Message(InError(y))
        /\ Message(InError(y))' = MovedFrom(Message(InError(y)))
    BY <1>3, <1>4, <2>1
  <2> QED
    BY <1>7, <1>8, <2>1, <2>2, MoveTo DEF Consistent
<1>10. CodeAndMessageAgree'
  <2>1. SameTexts(SlotsOf({x, y}, {})) /\ CodeAndMessageAgree
    BY <1>9 DEF Consistent, SlotsOf, SameTexts
  <2>2. \A z \in {x, y} : Text(Message(InError(z)))' \in {error'[z].code, None}
    BY <1>2, <1>3, <1>6, <1>9, SlotCases
  <2> QED
    BY <1>6, <2>1, <2>2, OthersAgree
<1> QED
  BY <1>6, <1>9, <1>10 DEF Consistent

(* swap exchanges code and message, so the owners change places. *)
LEMMA swapConsistent ==
  ASSUME Consistent, NEW x \in Errors, NEW y \in Errors, swap(x, y)
  PROVE  Consistent'
<1> DEFINE o == Swapped(error[x], error[y])
           q == Swapped(error[y], error[x])
<1>1. /\ error[x].alive /\ error[y].alive /\ UNCHANGED <<pointer, heap>>
      /\ error[x] \in Objects /\ error[y] \in Objects
      /\ Text(error[x].message) \in {error[x].code, None}
      /\ Text(error[y].message) \in {error[y].code, None}
  BY LivingText DEF swap
<1>2. /\ o \in Objects /\ o.code = error[y].code /\ o.message = error[y].message
      /\ q \in Objects /\ q.code = error[x].code /\ q.message = error[x].message
  BY <1>1, SwappedType
<1>3. error' = [error EXCEPT ![x] = o, ![y] = q]
  BY DEF swap
<1>4. x = y => o.code = q.code /\ o.message = q.message
  BY <1>2
<1> HIDE DEF o, q
<1>5. /\ error'[x] \in Objects /\ error'[y] \in Objects
      /\ error'[x].code = error[y].code /\ error'[x].message = error[y].message
      /\ error'[y].code = error[x].code /\ error'[y].message = error[x].message
      /\ \A z \in Errors \ {x, y} : error'[z] = error[z]
  BY <1>2, <1>3, <1>4 DEF Consistent, TypeOK
<1>6. TypeOK'
  BY <1>1, <1>2, <1>3, <1>4 DEF Consistent, TypeOK
<1>7. Keeps({InError(x), InError(y)})
  <2>1. Keeps(SlotsOf({x, y}, {}))
    BY <1>1, <1>5, KeepsOthers
  <2> QED
    BY <2>1 DEF SlotsOf, Keeps
<1>8. /\ Owned' /\ SameTexts({InError(x), InError(y)})
      /\ Text(Message(InError(x)))' = Text(Message(InError(y)))
      /\ Text(Message(InError(y)))' = Text(Message(InError(x)))
  <2>1. /\ InError(x) \in Slots /\ InError(y) \in Slots
        /\ Message(InError(x))' = Message(InError(y))
        /\ Message(InError(y))' = Message(InError(x))
    BY <1>5, SlotCases, SlotsAfter
  <2> QED
    BY <1>1, <1>7, <2>1, Exchange DEF Consistent
<1>9. CodeAndMessageAgree'
  <2>1. SameTexts(SlotsOf({x, y}, {})) /\ CodeAndMessageAgree
    BY <1>8 DEF Consistent, SlotsOf, SameTexts
  <2>2. \A z \in {x, y} : Text(Message(InError(z)))' \in {error'[z].code, None}
    BY <1>1, <1>5, <1>8, SlotCases
  <2> QED
    BY <1>5, <2>1, <2>2, OthersAgree
<1> QED
  BY <1>6, <1>8, <1>9 DEF Consistent

(* An object that is assigned to itself is what it was. *)
LEMMA AssignMoveConsistent ==
  ASSUME Consistent, NEW x \in Errors, NEW y \in Errors, AssignMove(x, y)
  PROVE  Consistent'
<1> DEFINE src   == Object(error[y].code, None, error[y].message)
           moved == [error[y] EXCEPT !.message = MovedFrom(@)]
           left  == [error EXCEPT ![y].message = MovedFrom(@)]
<1>1. /\ error[x].alive /\ error[y].alive /\ UNCHANGED pointer
      /\ error' = [left EXCEPT ![x] = Swapped(@, src)]
      /\ heap' = After(heap, Freed(Swapped(src, left[x]).message))
  BY DEF AssignMove
<1>2. /\ error[x] \in Objects /\ error[y] \in Objects /\ error[y].code \in Failures
      /\ error[y].message \in Messages /\ Proper(error[y].message)
      /\ Text(error[y].message) \in {error[y].code, None}
  BY <1>1, LivingText
<1>3. src \in Objects /\ src.code = error[y].code /\ src.message = error[y].message
  BY <1>2, CopiedObjectType
<1>4. /\ moved \in Objects /\ moved.code = error[y].code
      /\ moved.message = MovedFrom(error[y].message)
  BY <1>2, MovedType
<1>5. left = [error EXCEPT ![y] = moved]
  BY DEF Consistent, TypeOK
<1>6. left[x] \in Objects /\ left[x] = IF x = y THEN moved ELSE error[x]
  <2> HIDE DEF left, moved
  <2> QED
    BY <1>2, <1>4, <1>5 DEF Consistent, TypeOK
<1> DEFINE o == Swapped(left[x], src)
<1>7. error' = [left EXCEPT ![x] = o]
  BY <1>1
<1>8. /\ o \in Objects /\ o.code = error[y].code /\ o.message = error[y].message
      /\ Swapped(src, left[x]).message = left[x].message
  <2> HIDE DEF src, left
  <2> QED
    BY <1>3, <1>6, SwappedType
<1> HIDE DEF o, moved, left, src
<1>9. /\ error'[x] = o /\ error' \in [Errors -> Objects \cup {NoError}]
      /\ \A z \in Errors \ {x, y} : error'[z] = error[z]
      /\ x # y => error'[y] = moved
  BY <1>4, <1>5, <1>7, <1>8 DEF Consistent, TypeOK
<1>10. TypeOK'
  BY <1>1, <1>9 DEF Consistent, TypeOK, After
<1>11. Keeps({InError(x), InError(y)})
  <2>1. Keeps(SlotsOf({x, y}, {}))
    BY <1>1, <1>9, KeepsOthers
  <2> QED
    BY <2>1 DEF SlotsOf, Keeps
<1>12. InError(x) \in Slots /\ InError(y) \in Slots /\ Owned /\ CodeAndMessageAgree
  BY SlotCases DEF Consistent
<1>13. CASE x # y
  <2>1. Frees(InError(x), heap)
    BY <1>1, <1>6, <1>8, <1>13, AfterFreed, Holdings, SlotCases DEF Frees
  <2>2. /\ InError(x) # InError(y)
        /\ Message(InError(x))' = Message(InError(y))
        /\ Message(InError(y))' = MovedFrom(Message(InError(y)))
    BY <1>4, <1>8, <1>9, <1>13, SlotCases, SlotsAfter
  <2>3. /\ Owned' /\ SameTexts({InError(x), InError(y)})
        /\ Text(Message(InError(x)))' = Text(Message(InError(y)))
        /\ Text(Message(InError(y)))' = None
    BY <1>11, <1>12, <2>1, <2>2, MoveTo
  <2>4. SameTexts(SlotsOf({x, y}, {}))
    BY <2>3 DEF SlotsOf, SameTexts
  <2>5. \A z \in {x, y} : Text(Message(InError(z)))' \in {error'[z].code, None}
    BY <1>2, <1>8, <1>9, <2>3, SlotCases
  <2>6. CodeAndMessageAgree'
    BY <1>9, <1>12, <2>4, <2>5, OthersAgree
  <2> QED
    BY <1>10, <2>3, <2>6 DEF Consistent
<1>14. CASE x = y
  <2>1. Message(InError(x))' = Message(InError(x))
    BY <1>8, <1>9, <1>14, SlotCases, SlotsAfter
  <2>2. left[x].message.to = Null
    BY <1>2, <1>4, <1>6, <1>14, MovedFromIsNull
  <2>3. heap' = heap
    <3>1. Freed(left[x].message) = {}
      BY <2>2, PlacesDiffer DEF Freed
    <3> QED
      BY <1>1, <1>8, <3>1 DEF After, Consistent, TypeOK
  <2>4. /\ Owned' /\ SameTexts({InError(x), InError(y)})
        /\ Text(Message(InError(x)))' = Text(Message(InError(x)))
    BY <1>11, <1>12, <1>14, <2>1, <2>3, Exchange
  <2>5. SameTexts(SlotsOf({x, y}, {}))
    BY <2>4 DEF SlotsOf, SameTexts
  <2>6. \A z \in {x, y} : Text(Message(InError(z)))' \in {error'[z].code, None}
    BY <1>2, <1>8, <1>9, <1>14, <2>4, SlotCases
  <2>7. CodeAndMessageAgree'
    BY <1>9, <1>12, <2>5, <2>6, OthersAgree
  <2> QED
    BY <1>10, <2>4, <2>7 DEF Consistent
<1> QED
  BY <1>13, <1>14

(* The constructor from a message takes the text out of the pointer. *)
LEMMA FromMessageConsistent ==
  ASSUME Consistent, NEW x \in Errors, NEW f \in Failures, NEW p \in Pointers,
         FromMessage(x, f, p)
  PROVE  Consistent'
<1> DEFINE o == Object(f, None, pointer[p])
<1>1. /\ Vacant(x) /\ Text(pointer[p]) \in {f, None} /\ UNCHANGED heap
      /\ error' = [error EXCEPT ![x] = o]
      /\ pointer' = [pointer EXCEPT ![p] = MovedFrom(pointer[p])]
  BY DEF FromMessage
<1>2. pointer[p] \in Messages /\ MovedFrom(pointer[p]) \in Messages
  BY MovedFromIsNull DEF Consistent, TypeOK
<1>3. o \in Objects /\ o.code = f /\ o.message = pointer[p]
  BY <1>2, CopiedObjectType
<1> HIDE DEF o
<1>4. /\ error'[x] = o /\ pointer'[p] = MovedFrom(pointer[p]) /\ TypeOK'
      /\ \A z \in Errors \ {x} : error'[z] = error[z]
      /\ \A r \in Pointers \ {p} : pointer'[r] = pointer[r]
  BY <1>1, <1>2, <1>3 DEF Consistent, TypeOK
<1>5. Keeps({InError(x), InPointer(p)})
  <2>1. Keeps(SlotsOf({x}, {p}))
    BY <1>4, KeepsOthers
  <2> QED
    BY <2>1 DEF SlotsOf, Keeps
<1>6. Frees(InError(x), heap)
  BY <1>1, Holdings, SlotCases, PlacesDiffer DEF Frees, Vacant
<1>7. /\ InError(x) \in Slots /\ InPointer(p) \in Slots /\ InError(x) # InPointer(p)
      /\ Message(InError(x))' = o.message
      /\ Message(InPointer(p))' = MovedFrom(pointer[p])
      /\ Message(InPointer(p)) = pointer[p]
  BY <1>4, SlotCases, SlotsAfter
<1>8. /\ Owned' /\ SameTexts({InError(x), InPointer(p)})
      /\ Text(Message(InError(x)))' = Text(pointer[p])
  BY <1>3, <1>5, <1>6, <1>7, MoveTo DEF Consistent
<1>9. CodeAndMessageAgree'
  <2>1. SameTexts(SlotsOf({x}, {p})) /\ CodeAndMessageAgree
    BY <1>8 DEF Consistent, SlotsOf, SameTexts
  <2>2. \A z \in {x} : Text(Message(InError(z)))' \in {error'[z].code, None}
    BY <1>1, <1>3, <1>4, <1>8
  <2> QED
    BY <1>4, <2>1, <2>2, OthersAgree
<1> QED
  BY <1>4, <1>8, <1>9 DEF Consistent

(* extract_message hands the text over to the program. *)
LEMMA extract_messageConsistent ==
  ASSUME Consistent, NEW x \in Errors, NEW p \in Pointers, extract_message(x, p)
  PROVE  Consistent'
<1> DEFINE moved == [error[x] EXCEPT !.message = MovedFrom(@)]
<1>1. /\ error[x].alive /\ error' = [error EXCEPT ![x].message = MovedFrom(@)]
      /\ pointer' = [pointer EXCEPT ![p] = error[x].message]
      /\ heap' = After(heap, Freed(pointer[p]))
  BY DEF extract_message
<1>2. error[x] \in Objects /\ error[x].code \in Failures /\ error[x].message \in Messages
  BY <1>1, LivingText
<1>3. /\ moved \in Objects /\ moved.code = error[x].code
      /\ moved.message = MovedFrom(error[x].message)
  BY <1>2, MovedType
<1>4. error' = [error EXCEPT ![x] = moved]
  BY <1>1 DEF Consistent, TypeOK
<1> HIDE DEF moved
<1>5. /\ error'[x] = moved /\ pointer'[p] = error[x].message
      /\ \A z \in Errors \ {x} : error'[z] = error[z]
      /\ \A r \in Pointers \ {p} : pointer'[r] = pointer[r]
  BY <1>1, <1>4 DEF Consistent, TypeOK
<1>6. TypeOK'
  BY <1>1, <1>2, <1>3, <1>4 DEF Consistent, TypeOK, After
<1>7. Keeps({InPointer(p), InError(x)})
  <2>1. Keeps(SlotsOf({x}, {p}))
    BY <1>5, KeepsOthers
  <2> QED
    BY <2>1 DEF SlotsOf, Keeps
<1>8. Frees(InPointer(p), heap)
  BY <1>1, AfterFreed, Holdings, SlotCases DEF Frees
<1>9. /\ InError(x) \in Slots /\ InPointer(p) \in Slots /\ InError(x) # InPointer(p)
      /\ Message(InPointer(p))' = Message(InError(x))
      /\ Message(InError(x))' = moved.message
      /\ Message(InError(x)) = error[x].message
  BY <1>5, SlotCases, SlotsAfter
<1>10. /\ Owned' /\ SameTexts({InPointer(p), InError(x)})
       /\ Text(Message(InError(x)))' = None
  BY <1>3, <1>7, <1>8, <1>9, MoveTo DEF Consistent
<1>11. CodeAndMessageAgree'
  <2>1. SameTexts(SlotsOf({x}, {p})) /\ CodeAndMessageAgree
    BY <1>10 DEF Consistent, SlotsOf, SameTexts
  <2>2. \A z \in {x} : Text(Message(InError(z)))' \in {error'[z].code, None}
    BY <1>10
  <2> QED
    BY <1>5, <2>1, <2>2, OthersAgree
<1> QED
  BY <1>6, <1>10, <1>11 DEF Consistent

(* The program points to a literal and drops the text it had. *)
LEMMA LiteralConsistent ==
  ASSUME Consistent, NEW p \in Pointers, NEW f \in Failures, Literal(p, f)
  PROVE  Consistent'
<1> DEFINE m == [to |-> Static(f), deleter |-> FALSE]
<1>1. /\ pointer' = [pointer EXCEPT ![p] = m]
      /\ heap' = After(heap, Freed(pointer[p])) /\ UNCHANGED error
  BY DEF Literal
<1>2. m \in Messages /\ Proper(m) /\ \A b \in Blocks : m.to # Heap(b)
  BY StaticMessage, PlacesDiffer
<1> HIDE DEF m
<1>3. /\ TypeOK' /\ pointer'[p] = m
      /\ \A r \in Pointers \ {p} : pointer'[r] = pointer[r]
  BY <1>1, <1>2 DEF Consistent, TypeOK, After
<1>4. Keeps(SlotsOf({}, {p})) /\ SlotsOf({}, {p}) = {InPointer(p)}
  BY <1>1, <1>3, KeepsOthers DEF SlotsOf
<1>5. Frees(InPointer(p), heap)
  BY <1>1, AfterFreed, Holdings, SlotCases DEF Frees
<1>6. InPointer(p) \in Slots /\ Message(InPointer(p))' = m
  BY <1>3, SlotCases, SlotsAfter
<1>7. Proper(Message(InPointer(p)))' /\ \A b \in Blocks : Message(InPointer(p))'.to # Heap(b)
  BY <1>2, <1>6 DEF Proper
<1>8. Owned' /\ SameTexts({InPointer(p)})
  BY <1>4, <1>5, <1>6, <1>7, Put DEF Consistent
<1>9. CodeAndMessageAgree'
  <2>1. SameTexts(SlotsOf({}, {p})) /\ CodeAndMessageAgree
    BY <1>4, <1>8 DEF Consistent
  <2> QED
    BY <1>1, <2>1, OthersAgree
<1> QED
  BY <1>3, <1>8, <1>9 DEF Consistent

(* Every step preserves it. *)
LEMMA NextConsistent ==
  ASSUME Consistent, [Next]_vars
  PROVE  Consistent'
<1>1. CASE Next
  BY <1>1, FromCodeConsistent, FromDatabaseConsistent, FromMessageConsistent,
     CopyConsistent, MoveConsistent, swapConsistent, AssignCopyConsistent,
     AssignMoveConsistent, extract_messageConsistent, LiteralConsistent,
     DestroyConsistent DEF Next
<1>2. CASE UNCHANGED vars
  BY <1>2 DEF vars, Consistent, TypeOK, Owned, AllProper, OneOwner, OwnedIffUsed,
              Message, Proper, CodeAndMessageAgree, Text
<1> QED
  BY <1>1, <1>2

(* Init establishes it. *)
LEMMA InitConsistent == Init => Consistent
<1> SUFFICES ASSUME Init PROVE Consistent
  OBVIOUS
<1>1. NoError.message = NoMessage /\ NoError.alive = FALSE
  BY DEF NoError
<1>2. TypeOK
  BY NullMessage DEF Init, TypeOK
<1>3. \A s \in Slots : Message(s) = NoMessage
  BY <1>1, SlotCases DEF Init
<1>4. Owned
  BY <1>3, NullMessage, PlacesDiffer DEF Init, Owned, AllProper, OneOwner, OwnedIffUsed
<1>5. CodeAndMessageAgree
  BY <1>1 DEF Init, CodeAndMessageAgree
<1> QED
  BY <1>2, <1>4, <1>5 DEF Consistent

(****************************************************************************)
(* Whatever is copied, moved, assigned, swapped and extracted, every block  *)
(* has one owner, and codes and texts stay together.                        *)
(****************************************************************************)
THEOREM AlwaysConsistent == Spec => []Consistent
<1>1. Init => Consistent
  BY InitConsistent
<1>2. Consistent /\ [Next]_vars => Consistent'
  BY NextConsistent
<1> QED
  BY <1>1, <1>2, PTL DEF Spec

(* The variables keep their types. *)
THEOREM ObjectsTypeCorrect == Spec => []TypeOK
<1>1. Consistent => TypeOK
  BY DEF Consistent
<1> QED
  BY <1>1, AlwaysConsistent, PTL

(* what() and the codes of an object speak of the same failure. *)
THEOREM CodesAndTextsAgree == Spec => []CodeAndMessageAgree
<1>1. Consistent => CodeAndMessageAgree
  BY DEF Consistent
<1> QED
  BY <1>1, AlwaysConsistent, PTL

(* The owners of a block, counted. *)
LEMMA OwnersCounted ==
  ASSUME Consistent, NEW b \in Blocks
  PROVE  Cardinality(InErrors(b)) + Cardinality(InPointers(b)) = IF heap[b] = None THEN 0 ELSE 1
<1> DEFINE owners == {s \in Slots : Message(s).to = Heap(b)}
<1>1. /\ \A s, r \in owners : s = r
      /\ heap[b] # None <=> owners # {}
  BY DEF Consistent, Owned, OneOwner, OwnedIffUsed
<1>2. /\ \A x \in Errors : x \in InErrors(b) <=> InError(x) \in owners
      /\ \A p \in Pointers : p \in InPointers(b) <=> InPointer(p) \in owners
      /\ \A s \in owners : \/ \E x \in Errors : s = InError(x)
                           \/ \E p \in Pointers : s = InPointer(p)
  BY SlotCases DEF InErrors, InPointers
<1>3. InErrors(b) \subseteq Errors /\ InPointers(b) \subseteq Pointers
  BY DEF InErrors, InPointers
<1> HIDE DEF owners
<1>4. CASE heap[b] = None
  <2>1. InErrors(b) = {} /\ InPointers(b) = {}
    BY <1>1, <1>2, <1>3, <1>4
  <2> QED
    BY <1>4, <2>1, FS_EmptySet
<1>5. CASE heap[b] # None
  <2>1. PICK s : s \in owners
    BY <1>1, <1>5
  <2>2. CASE \E x \in Errors : s = InError(x)
    <3>1. PICK x \in Errors : s = InError(x)
      BY <2>2
    <3>2. InErrors(b) = {x} /\ InPointers(b) = {}
      BY <1>1, <1>2, <1>3, <2>1, <3>1, SlotCases
    <3>3. Cardinality(InErrors(b)) = 1 /\ Cardinality(InPointers(b)) = 0
      BY <3>2, FS_EmptySet, FS_Singleton
    <3> QED
      BY <1>5, <3>3
  <2>3. CASE \E p \in Pointers : s = InPointer(p)
    <3>1. PICK p \in Pointers : s = InPointer(p)
      BY <2>3
    <3>2. InErrors(b) = {} /\ InPointers(b) = {p}
      BY <1>1, <1>2, <1>3, <2>1, <3>1, SlotCases
    <3>3. Cardinality(InErrors(b)) = 0 /\ Cardinality(InPointers(b)) = 1
      BY <3>2, FS_EmptySet, FS_Singleton
    <3> QED
      BY <1>5, <3>3
  <2> QED
    BY <1>2, <2>1, <2>2, <2>3
<1> QED
  BY <1>4, <1>5

(****************************************************************************)
(* Every block that holds a message has exactly one owner, which will free  *)
(* it, and nobody points to a freed block or would free a static text.      *)
(****************************************************************************)
THEOREM EachMessageOwnedOnce == Spec => []MessageOwnership
<1>1. Consistent => MessageOwnership
  <2> SUFFICES ASSUME Consistent PROVE MessageOwnership
    OBVIOUS
  <2>1. \A b \in Blocks : Cardinality(InErrors(b)) + Cardinality(InPointers(b))
                            = IF heap[b] = None THEN 0 ELSE 1
    BY OwnersCounted
  <2>2. \A m \in {error[x].message : x \in Errors} \cup {pointer[p] : p \in Pointers} :
          Proper(m)
    BY Holdings
  <2> QED
    BY <2>1, <2>2 DEF MessageOwnership, Proper
<1> QED
  BY <1>1, AlwaysConsistent, PTL
===============================================================================
