----------------------------- MODULE OutboxProofs -----------------------------
(***************************************************************************)
(* The safety properties of module Outbox for any topics, bounds and       *)
(* texts: types, one thread for a v1 task, nothing traceable posted twice, *)
(* and what is marked sent was posted whole.                               *)
(*                                                                         *)
(* The invariant says what a message, a receipt and the memory of the      *)
(* gateway tell of each other.  Rows, places and messages only come        *)
(* about, so that most of what was true of those there were stays true;    *)
(* the lemmas on each part of the invariant say what else it needs.        *)
(***************************************************************************)
EXTENDS Outbox, SequenceTheorems, TLAPS

Items == [row: Nat, at: Nat, status: Nat]
Gateways == [step: Steps, batch: Seq(Items), at: Nat, part: 0..2, message: Nat, first: Nat]
Posting == {"send", "receipt", "strip", "seeded", "ack"}
Short(r) == rows[r].kind = "project_status" /\ ~rows[r].fresh /\ r \notin Long

(* A row is behind the gateway: it is sent, and not in its hands any more, or
   only for its failure to be reported.                                     *)
Past(r) ==
    /\ ~Open(r)
    /\ \A k \in DOMAIN gateway.batch :
          gateway.batch[k].row = r => k = 1 /\ gateway.step = "fail"

(* A status message that another status may be written over.                *)
Statused(m) ==
    /\ m \in DOMAIN messages
    /\ messages[m].at = Channel /\ messages[m].part = 1
    /\ rows[messages[m].row].kind = "project_status" /\ Past(messages[m].row)

(* A message that was posted for the row, or that it was written over.      *)
Given(r, m) ==
    /\ m \in DOMAIN messages
    /\ messages[m].row = r \/ (Short(r) /\ Statused(m))

RowShapes ==
    /\ rows # <<>> /\ \A r \in Rows : (rows[r].kind = "create_thread") = (r = 1)
    /\ \A r \in Rows : rows[r].kind = "create_topic_thread" => rows[r].topic \in Topics

Batch ==
    /\ gateway \in Gateways /\ gateway.at \in 0..Len(places)
    /\ \A k \in DOMAIN gateway.batch :
          /\ gateway.batch[k].row \in Rows /\ gateway.batch[k].at \in 0..Len(places)
          /\ gateway.batch[k].status # 0 => Statused(gateway.batch[k].status)
    /\ \A k, l \in DOMAIN gateway.batch : k < l => gateway.batch[k].row < gateway.batch[l].row

(* A message shows the row it was posted for, or a status that was written
   over it since; without its marker it has a receipt.                      *)
Genuine(m) ==
    /\ messages[m].part = 0 => messages[m].row = 1 /\ messages[m].at = Channel
    /\ messages[m].shows # messages[m].row => Statused(m) /\ Short(messages[m].shows)
    /\ ~messages[m].marked =>
          <<messages[m].at, messages[m].shows, messages[m].part>> \in DOMAIN receipts
Posted == \A m \in DOMAIN messages : Genuine(m)

(* A receipt names a message that was posted for its part of its row.       *)
Names(key) ==
    /\ Given(key[2], receipts[key])
    /\ messages[receipts[key]].at = key[1] /\ messages[receipts[key]].part = key[3]
Named == \A key \in DOMAIN receipts : Names(key)

Known == projected # 0 => Statused(projected)

(* What the gateway has in its hands: the place and part it is at, a message
   that bears the part, the first one, and the parts before this one.       *)
AtPlace ==
    /\ gateway.at # 0
    /\ rows[Current].kind = "create_topic_thread" => places[gateway.at].of = Current
    /\ rows[Current].kind = "project_status" => gateway.at = Channel
    /\ IF gateway.part = 0 THEN Current = 1 /\ gateway.at = Channel /\ gateway.step # "ack"
       ELSE gateway.part \in Parts(Current) /\ gateway.step # "seeded"
HasMessage ==
    /\ Given(Current, gateway.message)
    /\ messages[gateway.message].at = gateway.at /\ messages[gateway.message].part = gateway.part
HasReceipt ==
    LET key == <<gateway.at, Current, gateway.part>> IN
    key \in DOMAIN receipts /\ receipts[key] = gateway.message
HasFirst ==
    /\ gateway.first # 0 =>
          /\ Given(Current, gateway.first)
          /\ messages[gateway.first].part = IF Current = 1 THEN 0 ELSE 1
          /\ messages[gateway.first].at = IF Current = 1 THEN Channel ELSE gateway.at
          /\ gateway.step = "send" => messages[gateway.first].part < gateway.part
    /\ gateway.first = 0 =>
          gateway.step \notin {"seeded", "ack"} /\ gateway.part = IF Current = 1 THEN 0 ELSE 1
HasParts ==
    \A part \in Parts(Current) : part < gateway.part \/ gateway.step = "ack" =>
        \E m \in DOMAIN messages : /\ Given(Current, m) /\ messages[m].part = part
                                   /\ messages[m].at = gateway.at
Hand ==
    /\ gateway.step \in Posting => AtPlace /\ HasFirst /\ HasParts
    /\ gateway.step \in {"receipt", "strip"} => HasMessage
    /\ gateway.step = "strip" => HasReceipt

Held == {m \in DOMAIN messages :
            /\ gateway.step \in Posting
            /\ \/ m = gateway.first
               \/ m = gateway.message /\ gateway.step \in {"receipt", "strip"}}

(* Of two copies of a part the older was out of sight and never recorded, or
   one of them was deleted.                                                 *)
Forgotten(m) ==
    /\ messages[m].seen = "old" /\ messages[m].marked /\ m \notin Held
    /\ \A key \in DOMAIN receipts : receipts[key] # m
Removed(m) == \E d \in DOMAIN messages :
    messages[d].seen = "deleted" /\ SamePart(messages[d], messages[m])
Copies ==
    \A i, j \in DOMAIN messages :
        /\ i < j /\ SamePart(messages[i], messages[j])
        /\ rows[messages[i].row].kind # "project_status"
        => Removed(i) \/ Forgotten(i)

(* The channel is there; a later thread of a v1 task hangs on a later seed. *)
Seeds ==
    /\ Channel \in DOMAIN places
    /\ \A i \in DOMAIN places : places[i].kind = "task" =>
          places[i].of \in DOMAIN messages /\ messages[places[i].of].part = 0
    /\ \A i, j \in DOMAIN places :
          i < j /\ places[i].kind = "task" /\ places[j].kind = "task" =>
             \/ places[i].of < places[j].of
             \/ \E d \in DOMAIN messages : messages[d].seen = "deleted" /\ messages[d].part = 0

IInv ==
    /\ TypeOK /\ RowShapes /\ Batch /\ Posted /\ Named /\ Known /\ Hand /\ Copies /\ Seeds

-----------------------------------------------------------------------------
(* Types                                                                   *)

RowRecords ==
    [task: Tasks, kind: Kinds, topic: Topics \cup {"none"}, fresh: BOOLEAN,
     at: Nat, sent: BOOLEAN, cancelled: BOOLEAN, due: BOOLEAN, message: Nat]
PlaceRecords == [kind: {"channel", "task", "topic"}, of: Nat]
MessageRecords(p, n) ==
    [at: 1..p, row: 1..n, part: 0..2, shows: 1..n, marked: BOOLEAN,
     seen: {"recent", "old", "deleted"}]

(* The parts of the type invariant.                                         *)
RowTypes ==
    /\ rows \in Seq(RowRecords)
    /\ \A r \in Rows : rows[r].at \in 0..Len(places) /\ rows[r].message \in 0..Len(messages)
PlaceTypes == places \in Seq(PlaceRecords)
MessageTypes == messages \in Seq(MessageRecords(Len(places), Len(rows)))
TaskTypes ==
    /\ thread \in [Tasks -> 0..Len(places)]
    /\ topic \in [Topics -> [row: 0..Len(rows), at: 0..Len(places), reminded: BOOLEAN]]
    /\ projected \in 0..Len(messages)
    /\ lost \subseteq Illustrated
ReceiptTypes ==
    /\ DOMAIN receipts \subseteq (DOMAIN places) \X Rows \X (0..2)
    /\ \A key \in DOMAIN receipts : receipts[key] \in DOMAIN messages
GatewayTypes ==
    /\ gateway.step \in Steps /\ gateway.part \in 0..2
    /\ gateway.message \in 0..Len(messages) /\ gateway.first \in 0..Len(messages)
    /\ gateway.step # "poll" => gateway.batch # <<>>

LEMMA Types ==
    TypeOK <=> /\ RowTypes /\ PlaceTypes /\ MessageTypes
               /\ TaskTypes /\ ReceiptTypes /\ GatewayTypes
<1>1. TypeOK => RowTypes /\ PlaceTypes
  BY DEF TypeOK, RowTypes, PlaceTypes, RowRecords, PlaceRecords
<1>2. TypeOK => MessageTypes /\ TaskTypes /\ ReceiptTypes /\ GatewayTypes
  BY DEF TypeOK, MessageTypes, MessageRecords, TaskTypes, ReceiptTypes, GatewayTypes, Rows
<1>3. (RowTypes /\ PlaceTypes /\ MessageTypes /\ TaskTypes /\ ReceiptTypes /\ GatewayTypes) => TypeOK
  BY DEF TypeOK, RowTypes, PlaceTypes, RowRecords, PlaceRecords, MessageTypes, MessageRecords,
         TaskTypes, ReceiptTypes, GatewayTypes, Rows
<1> QED BY <1>1, <1>2, <1>3

LEMMA Typed ==
    ASSUME RowTypes', PlaceTypes', MessageTypes', TaskTypes', ReceiptTypes', GatewayTypes'
    PROVE  TypeOK'
BY DEF TypeOK, RowTypes, PlaceTypes, RowRecords, PlaceRecords, MessageTypes, MessageRecords,
       TaskTypes, ReceiptTypes, GatewayTypes, Rows

LEMMA Fields ==
    ASSUME TypeOK
    PROVE  /\ Len(rows) \in Nat /\ DOMAIN rows = Rows
           /\ rows \in [Rows -> RowRecords]
           /\ Len(places) \in Nat /\ DOMAIN places = 1..Len(places)
           /\ places \in [1..Len(places) -> PlaceRecords]
           /\ Len(messages) \in Nat /\ DOMAIN messages = 1..Len(messages)
           /\ messages \in [1..Len(messages) -> MessageRecords(Len(places), Len(rows))]
<1>1. Len(rows) \in Nat /\ DOMAIN rows = Rows /\ rows \in [Rows -> RowRecords]
  BY Types, LenProperties DEF RowTypes, Rows
<1>2. /\ Len(places) \in Nat /\ DOMAIN places = 1..Len(places)
      /\ places \in [1..Len(places) -> PlaceRecords]
  BY Types, LenProperties DEF PlaceTypes
<1>3. /\ Len(messages) \in Nat /\ DOMAIN messages = 1..Len(messages)
      /\ messages \in [1..Len(messages) -> MessageRecords(Len(places), Len(rows))]
  BY Types, LenProperties DEF MessageTypes
<1> QED BY <1>1, <1>2, <1>3

LEMMA MessageFields ==
    ASSUME TypeOK, NEW m \in DOMAIN messages
    PROVE  /\ messages[m].at \in 1..Len(places) /\ messages[m].row \in Rows
           /\ messages[m].part \in 0..2 /\ messages[m].shows \in Rows
           /\ messages[m].marked \in BOOLEAN
           /\ messages[m].seen \in {"recent", "old", "deleted"}
BY Fields DEF MessageRecords, Rows

(* A function on 1..n is a sequence of length n.                            *)
LEMMA FunctionIsSeq ==
    ASSUME NEW S, NEW n \in Nat, NEW f \in [1..n -> S]
    PROVE  f \in Seq(S) /\ Len(f) = n /\ DOMAIN f = 1..n
<1>1. f \in Seq(S)
  BY SeqDef
<1>2. DOMAIN f = 1..n
  OBVIOUS
<1> QED BY <1>1, <1>2

-----------------------------------------------------------------------------
(* What only grows                                                         *)

SameRows ==
    /\ Len(rows') \in Nat /\ Len(rows) <= Len(rows') /\ Rows \subseteq Rows'
    /\ \A r \in Rows : /\ rows'[r].kind = rows[r].kind /\ rows'[r].fresh = rows[r].fresh
                       /\ rows'[r].topic = rows[r].topic /\ (~Open(r) => ~Open(r)')
SamePlaces ==
    /\ Len(places') \in Nat /\ Len(places) <= Len(places')
    /\ DOMAIN places \subseteq DOMAIN places'
    /\ \A i \in DOMAIN places : places'[i] = places[i]
SameMessages ==
    /\ Len(messages') \in Nat /\ Len(messages) <= Len(messages')
    /\ DOMAIN messages \subseteq DOMAIN messages'
    /\ \A m \in DOMAIN messages :
          /\ messages'[m].at = messages[m].at /\ messages'[m].row = messages[m].row
          /\ messages'[m].part = messages[m].part
          /\ messages[m].seen = "deleted" => messages'[m].seen = "deleted"
PastKept == \A r \in Rows : Past(r) => Past(r)'
Grows == SameRows /\ SamePlaces /\ SameMessages /\ PastKept

LEMMA UnchangedRows == ASSUME TypeOK, rows' = rows PROVE SameRows
BY Fields DEF SameRows, Rows, Open

LEMMA UnchangedPlaces == ASSUME TypeOK, places' = places PROVE SamePlaces
BY Fields DEF SamePlaces

LEMMA UnchangedMessages == ASSUME TypeOK, messages' = messages PROVE SameMessages
BY Fields DEF SameMessages

(* What is past stays past while the batch does, and when it is dropped.    *)
LEMMA PastStays ==
    ASSUME SameRows,
           \/ gateway'.batch = gateway.batch /\ (gateway'.step = gateway.step \/ gateway'.step = "fail")
           \/ gateway'.batch = gateway.batch /\ gateway.step # "fail"
           \/ DOMAIN gateway'.batch = {}
    PROVE  PastKept
BY DEF PastKept, Past, SameRows

LEMMA GivenStays ==
    ASSUME TypeOK, Grows
    PROVE  /\ \A r \in Rows : Short(r)' <=> Short(r)
           /\ \A m : Statused(m) => Statused(m)'
           /\ \A r \in Rows : \A m : Given(r, m) => Given(r, m)'
<1>1. \A r \in Rows : Short(r)' <=> Short(r)
  BY DEF Grows, SameRows, Short
<1>2. ASSUME NEW m, Statused(m) PROVE Statused(m)'
  <2>1. m \in DOMAIN messages /\ messages[m].row \in Rows
    BY <1>2, MessageFields DEF Statused
  <2> QED BY <1>2, <2>1 DEF Grows, SameRows, SameMessages, PastKept, Statused
<1>3. ASSUME NEW r \in Rows, NEW m, Given(r, m) PROVE Given(r, m)'
  BY <1>1, <1>2, <1>3 DEF Grows, SameMessages, Given
<1> QED BY <1>1, <1>2, <1>3

-----------------------------------------------------------------------------
(* What each part of the invariant needs of a step                         *)

(* Each part of the types is kept by a step that does not touch it.         *)
LEMMA TypesStay ==
    ASSUME TypeOK, SameRows, SamePlaces, SameMessages
    PROVE  /\ rows' = rows => RowTypes'
           /\ places' = places => PlaceTypes'
           /\ messages' = messages => MessageTypes'
           /\ UNCHANGED <<thread, topic, projected, lost>> => TaskTypes'
           /\ receipts' = receipts => ReceiptTypes'
           /\ UNCHANGED gateway => GatewayTypes'
<1> USE DEF SameRows, SamePlaces, SameMessages
<1>1. /\ Len(rows) \in Nat /\ Len(places) \in Nat /\ Len(messages) \in Nat
      /\ DOMAIN messages = 1..Len(messages) /\ Rows = 1..Len(rows)
  BY Fields DEF Rows
<1>2. /\ 0..Len(places) \subseteq 0..Len(places') /\ 0..Len(messages) \subseteq 0..Len(messages')
      /\ 1..Len(places) \subseteq 1..Len(places') /\ 1..Len(rows) \subseteq 1..Len(rows')
      /\ 0..Len(rows) \subseteq 0..Len(rows')
  BY <1>1
<1>3. rows' = rows => RowTypes'
  BY <1>2, Types DEF RowTypes, Rows
<1>4. places' = places => PlaceTypes'
  BY Types DEF PlaceTypes
<1>5. messages' = messages => MessageTypes'
  <2> SUFFICES ASSUME messages' = messages PROVE messages \in Seq(MessageRecords(Len(places'), Len(rows')))
    BY DEF MessageTypes
  <2>1. MessageRecords(Len(places), Len(rows)) \subseteq MessageRecords(Len(places'), Len(rows'))
    BY <1>2 DEF MessageRecords
  <2>2. messages \in Seq(MessageRecords(Len(places), Len(rows)))
    BY Types DEF MessageTypes
  <2> QED BY <2>1, <2>2, SeqMonotonic
<1>6. UNCHANGED <<thread, topic, projected, lost>> => TaskTypes'
  <2> SUFFICES ASSUME UNCHANGED <<thread, topic, projected, lost>> PROVE TaskTypes'
    OBVIOUS
  <2>1. thread \in [Tasks -> 0..Len(places')]
    BY <1>2, Types DEF TaskTypes
  <2>2. topic \in [Topics -> [row: 0..Len(rows'), at: 0..Len(places'), reminded: BOOLEAN]]
    BY <1>2, Types DEF TaskTypes
  <2>3. projected \in 0..Len(messages') /\ lost \subseteq Illustrated
    BY <1>2, Types DEF TaskTypes
  <2> QED BY <2>1, <2>2, <2>3 DEF TaskTypes
<1>7. receipts' = receipts => ReceiptTypes'
  BY <1>2, Types DEF ReceiptTypes
<1>8. UNCHANGED gateway => GatewayTypes'
  BY <1>2, Types DEF GatewayTypes
<1> QED BY <1>3, <1>4, <1>5, <1>6, <1>7, <1>8

LEMMA ShapesStay == ASSUME RowShapes, rows' = rows PROVE RowShapes'
BY DEF RowShapes, Rows

(* The gateway goes through its batch and drops it, but makes up no item.   *)
Through ==
    /\ gateway' \in Gateways /\ gateway'.at \in 0..Len(places')
    /\ \/ gateway'.batch = gateway.batch
       \/ gateway.batch # <<>> /\ gateway'.batch = Tail(gateway.batch)
       \/ gateway'.batch = <<>>

LEMMA BatchFields ==
    ASSUME Batch
    PROVE  /\ gateway.batch \in Seq(Items) /\ Len(gateway.batch) \in Nat
           /\ DOMAIN gateway.batch = 1..Len(gateway.batch)
           /\ gateway.batch # <<>> =>
                 /\ 1 \in DOMAIN gateway.batch /\ Head(gateway.batch) = gateway.batch[1]
                 /\ Current \in Rows /\ Current = gateway.batch[1].row
                 /\ Head(gateway.batch).at \in 0..Len(places)
                 /\ Tail(gateway.batch) \in Seq(Items)
                 /\ DOMAIN Tail(gateway.batch) = 1..Len(gateway.batch) - 1
                 /\ \A k \in DOMAIN Tail(gateway.batch) :
                       /\ k + 1 \in DOMAIN gateway.batch
                       /\ Tail(gateway.batch)[k] = gateway.batch[k + 1]
                 /\ \A k \in DOMAIN gateway.batch : gateway.batch[k].row = Current => k = 1
<1>1. gateway.batch \in Seq(Items)
  BY DEF Batch, Gateways
<1>2. Len(gateway.batch) \in Nat /\ DOMAIN gateway.batch = 1..Len(gateway.batch)
  BY <1>1, LenProperties
<1>3. ASSUME gateway.batch # <<>>
      PROVE  /\ 1 \in DOMAIN gateway.batch /\ Head(gateway.batch) = gateway.batch[1]
             /\ Tail(gateway.batch) \in Seq(Items)
             /\ DOMAIN Tail(gateway.batch) = 1..Len(gateway.batch) - 1
             /\ \A k \in DOMAIN Tail(gateway.batch) :
                   /\ k + 1 \in DOMAIN gateway.batch
                   /\ Tail(gateway.batch)[k] = gateway.batch[k + 1]
  <2>1. Len(gateway.batch) >= 1 /\ Head(gateway.batch) = gateway.batch[1]
    BY <1>1, <1>2, <1>3, EmptySeq
  <2>2. /\ Tail(gateway.batch) \in Seq(Items)
        /\ Len(Tail(gateway.batch)) = Len(gateway.batch) - 1
        /\ \A k \in 1..Len(Tail(gateway.batch)) : Tail(gateway.batch)[k] = gateway.batch[k + 1]
    BY <1>1, <1>3, HeadTailProperties
  <2>3. DOMAIN Tail(gateway.batch) = 1..Len(Tail(gateway.batch))
    BY <2>2, LenProperties
  <2> QED BY <1>2, <2>1, <2>2, <2>3
<1>4. ASSUME gateway.batch # <<>>
      PROVE  /\ Current \in Rows /\ Current = gateway.batch[1].row
             /\ Head(gateway.batch).at \in 0..Len(places)
  BY <1>3, <1>4 DEF Batch, Current
<1>5. ASSUME gateway.batch # <<>>, NEW k \in DOMAIN gateway.batch, gateway.batch[k].row = Current
      PROVE  k = 1
  <2>1. k \in 1..Len(gateway.batch) /\ Current = gateway.batch[1].row /\ Current \in Int
    BY <1>2, <1>4, <1>5 DEF Rows
  <2>2. 1 < k => gateway.batch[1].row < gateway.batch[k].row
    BY <1>3, <1>5 DEF Batch
  <2> QED BY <1>5, <2>1, <2>2
<1> QED BY <1>1, <1>2, <1>3, <1>4, <1>5

(* What is past stays so when the first item is done with.                  *)
LEMMA PastPasses ==
    ASSUME Batch, SameRows, gateway.batch # <<>>, gateway'.batch = Tail(gateway.batch)
    PROVE  PastKept
<1> SUFFICES ASSUME NEW r \in Rows, Past(r),
                    NEW k \in DOMAIN gateway'.batch, gateway'.batch[k].row = r
             PROVE  FALSE
  BY DEF PastKept, Past, SameRows
<1>1. k + 1 \in DOMAIN gateway.batch /\ gateway.batch[k + 1].row = r /\ k \in 1..Len(gateway.batch) - 1
  BY BatchFields
<1>2. k + 1 = 1
  BY <1>1 DEF Past
<1> QED BY <1>1, <1>2, BatchFields

LEMMA BatchKept ==
    ASSUME TypeOK, Batch, Grows, Through
    PROVE  Batch'
<1>1. ASSUME NEW k \in DOMAIN gateway'.batch
      PROVE  \E l \in DOMAIN gateway.batch : gateway'.batch[k] = gateway.batch[l]
  <2>1. CASE gateway'.batch = gateway.batch
    BY <2>1
  <2>2. CASE gateway.batch # <<>> /\ gateway'.batch = Tail(gateway.batch)
    BY <2>2, BatchFields
  <2>3. CASE gateway'.batch = <<>>
    BY <2>3
  <2> QED BY <2>1, <2>2, <2>3 DEF Through
<1>2. ASSUME NEW k \in DOMAIN gateway'.batch
      PROVE  \E m : /\ gateway'.batch[k].row \in Rows' /\ gateway'.batch[k].at \in 0..Len(places')
                    /\ gateway'.batch[k].status = m /\ (m # 0 => Statused(m)')
  <2> PICK l \in DOMAIN gateway.batch : gateway'.batch[k] = gateway.batch[l]
    BY <1>1
  <2>1. PICK m : m = gateway.batch[l].status
    OBVIOUS
  <2>2. /\ gateway.batch[l].row \in Rows /\ gateway.batch[l].at \in 0..Len(places)
        /\ m # 0 => Statused(m)
    BY <2>1 DEF Batch
  <2>3. Rows \subseteq Rows' /\ 0..Len(places) \subseteq 0..Len(places')
    BY Fields DEF Grows, SameRows, SamePlaces
  <2>4. m # 0 => Statused(m)'
    BY <2>2, GivenStays
  <2> QED BY <2>1, <2>2, <2>3, <2>4
<1>3. ASSUME NEW k \in DOMAIN gateway'.batch, NEW l \in DOMAIN gateway'.batch, k < l
      PROVE  gateway'.batch[k].row < gateway'.batch[l].row
  <2>1. CASE gateway'.batch = gateway.batch
    BY <2>1, <1>3 DEF Batch
  <2>2. CASE gateway.batch # <<>> /\ gateway'.batch = Tail(gateway.batch)
    <3>1. /\ k + 1 \in DOMAIN gateway.batch /\ gateway'.batch[k] = gateway.batch[k + 1]
          /\ l + 1 \in DOMAIN gateway.batch /\ gateway'.batch[l] = gateway.batch[l + 1]
          /\ k \in Int /\ l \in Int
      BY <2>2, BatchFields
    <3>2. k + 1 < l + 1
      BY <1>3, <3>1
    <3> QED BY <3>1, <3>2 DEF Batch
  <2>3. CASE gateway'.batch = <<>>
    BY <2>3
  <2> QED BY <2>1, <2>2, <2>3 DEF Through
<1>4. \A k \in DOMAIN gateway'.batch :
         /\ gateway'.batch[k].row \in Rows' /\ gateway'.batch[k].at \in 0..Len(places')
         /\ (gateway.batch[k].status # 0 => Statused(gateway.batch[k].status))'
  BY <1>2 DEF Statused, Past, Open
<1> QED BY <1>3, <1>4 DEF Batch, Through

LEMMA PostedKept ==
    ASSUME TypeOK, Posted, Grows, DOMAIN receipts \subseteq DOMAIN receipts',
           \A m \in DOMAIN messages' :
              \/ /\ m \in DOMAIN messages /\ messages'[m].shows = messages[m].shows
                 /\ messages'[m].marked = messages[m].marked
              \/ Genuine(m)'
    PROVE  Posted'
<1> SUFFICES ASSUME NEW m \in DOMAIN messages PROVE
        (/\ messages'[m].shows = messages[m].shows /\ messages'[m].marked = messages[m].marked)
        => Genuine(m)'
  BY DEF Posted
<1>1. Genuine(m) /\ messages[m].shows \in Rows
  BY MessageFields DEF Posted
<1>2. Statused(m) => Statused(m)'
  BY GivenStays
<1>3. PICK r \in Rows : r = messages[m].shows /\ (Short(r) => Short(r)')
  BY <1>1, GivenStays
<1> HAVE messages'[m].shows = messages[m].shows /\ messages'[m].marked = messages[m].marked
<1>4. /\ messages'[m].at = messages[m].at /\ messages'[m].row = messages[m].row
      /\ messages'[m].part = messages[m].part
  BY DEF Grows, SameMessages
<1> QED BY <1>1, <1>2, <1>3, <1>4 DEF Genuine, Short

LEMMA NamedKept ==
    ASSUME TypeOK, Named, Grows,
           \A key \in DOMAIN receipts' :
              \/ key \in DOMAIN receipts /\ receipts'[key] = receipts[key]
              \/ Names(key)'
    PROVE  Named'
<1> SUFFICES ASSUME NEW key \in DOMAIN receipts, receipts'[key] = receipts[key]
             PROVE  Names(key)'
  BY DEF Named
<1>1. Names(key) /\ key[2] \in Rows /\ receipts[key] \in DOMAIN messages
  BY Types DEF Named, ReceiptTypes
<1>2. PICK r, m : r \in Rows /\ r = key[2] /\ m = receipts[key]
  BY <1>1
<1>3. Given(r, m)'
  BY <1>1, <1>2, GivenStays DEF Names
<1>4. messages'[m].at = key[1] /\ messages'[m].part = key[3]
  BY <1>1, <1>2 DEF Names, Grows, SameMessages
<1> QED BY <1>2, <1>3, <1>4 DEF Names, Given

LEMMA KnownKept == ASSUME TypeOK, Known, Grows, projected' = projected PROVE Known'
<1>1. PICK m : m = projected
  OBVIOUS
<1>2. m # 0 => Statused(m)'
  BY <1>1, GivenStays DEF Known
<1> QED BY <1>1, <1>2 DEF Known, Statused

(* Receipts are kept.                                                       *)
SameReceipts ==
    \A key \in DOMAIN receipts : key \in DOMAIN receipts' /\ receipts'[key] = receipts[key]

LEMMA AtPlaceStays ==
    ASSUME TypeOK, Batch, AtPlace, gateway.batch # <<>>, SameRows, SamePlaces,
           gateway.at \in DOMAIN places,
           Current' = Current, gateway'.at = gateway.at, gateway'.part = gateway.part,
           gateway'.step = gateway.step
               \/ gateway'.step \notin {"seeded", "ack"}
               \/ (gateway.part # 0 /\ gateway'.step = "ack")
               \/ (gateway.part = 0 /\ gateway'.step = "seeded")
    PROVE  AtPlace'
<1>1. PICK c \in Rows : c = Current /\ rows'[c].kind = rows[c].kind
  BY BatchFields DEF SameRows
<1>2. places'[gateway.at] = places[gateway.at]
  BY DEF SamePlaces
<1> QED BY <1>1, <1>2 DEF AtPlace, Parts

(* A message that was given for the row at hand is so after the step.       *)
LEMMA GivenAtHand ==
    ASSUME TypeOK, Batch, Grows, gateway.batch # <<>>, Current' = Current, NEW m,
           Given(Current, m)
    PROVE  /\ m \in DOMAIN messages /\ (Given(Current, m))'
           /\ messages'[m].at = messages[m].at /\ messages'[m].part = messages[m].part
<1>1. PICK c \in Rows : c = Current
  BY BatchFields
<1>2. Given(c, m)' /\ m \in DOMAIN messages
  BY <1>1, GivenStays DEF Given
<1>3. messages'[m].at = messages[m].at /\ messages'[m].part = messages[m].part
  BY <1>2 DEF Grows, SameMessages
<1> QED BY <1>1, <1>2, <1>3 DEF Given

(* The gateway goes on with the part it is at.                              *)
LEMMA Carried ==
    ASSUME TypeOK, Batch, Grows, AtPlace, HasFirst, HasParts,
           gateway.step \in Posting, gateway.batch # <<>>,
           gateway'.batch = gateway.batch, gateway'.at = gateway.at, gateway'.part = gateway.part,
           gateway'.first = gateway.first,
           \/ gateway'.step = gateway.step
           \/ gateway.step \in {"send", "receipt"} /\ gateway'.step \in {"receipt", "strip"}
    PROVE  AtPlace' /\ HasFirst' /\ HasParts'
<1>1. Current' = Current
  BY DEF Current
<1>2. AtPlace'
  <2>1. gateway.at \in DOMAIN places
    BY Fields DEF AtPlace, Batch
  <2>2. gateway'.step = gateway.step \/ gateway'.step \notin {"seeded", "ack"}
    OBVIOUS
  <2> QED BY <1>1, <2>1, <2>2, AtPlaceStays DEF Grows
<1>3. HasFirst'
  <2>1. CASE gateway.first # 0
    <3>1. PICK m : m = gateway.first
      OBVIOUS
    <3>2. /\ Given(Current, m) /\ messages[m].part = IF Current = 1 THEN 0 ELSE 1
          /\ messages[m].at = IF Current = 1 THEN Channel ELSE gateway.at
          /\ gateway.step = "send" => messages[m].part < gateway.part
      BY <2>1, <3>1 DEF HasFirst
    <3>3. /\ Given(Current, m)' /\ messages'[m].at = messages[m].at
          /\ messages'[m].part = messages[m].part
      BY <1>1, <3>2, GivenAtHand
    <3> QED BY <1>1, <2>1, <3>1, <3>2, <3>3 DEF HasFirst, Given
  <2>2. CASE gateway.first = 0
    BY <1>1, <2>2 DEF HasFirst
  <2> QED BY <2>1, <2>2
<1>4. HasParts'
  <2> SUFFICES ASSUME NEW part \in Parts(Current), part < gateway.part \/ gateway.step = "ack"
               PROVE  \E m \in DOMAIN messages' :
                          /\ Given(Current, m)' /\ messages'[m].part = part
                          /\ messages'[m].at = gateway.at
    BY <1>1 DEF HasParts, Parts
  <2>1. PICK m : Given(Current, m) /\ messages[m].part = part /\ messages[m].at = gateway.at
    BY DEF HasParts
  <2>2. /\ m \in DOMAIN messages' /\ Given(Current, m)' /\ messages'[m].at = messages[m].at
        /\ messages'[m].part = messages[m].part
    BY <1>1, <2>1, GivenAtHand DEF Grows, SameMessages
  <2> QED BY <2>1, <2>2
<1> QED BY <1>2, <1>3, <1>4

LEMMA HasMessageStays ==
    ASSUME TypeOK, Batch, Grows, HasMessage, gateway.batch # <<>>,
           gateway'.batch = gateway.batch, gateway'.at = gateway.at, gateway'.part = gateway.part,
           gateway'.message = gateway.message
    PROVE  HasMessage'
<1>1. Current' = Current
  BY DEF Current
<1>2. PICK m : m = gateway.message
  OBVIOUS
<1>3. Given(Current, m) /\ messages[m].at = gateway.at /\ messages[m].part = gateway.part
  BY <1>2 DEF HasMessage
<1>4. /\ Given(Current, m)' /\ messages'[m].at = messages[m].at
      /\ messages'[m].part = messages[m].part
  BY <1>1, <1>3, GivenAtHand
<1> QED BY <1>1, <1>2, <1>3, <1>4 DEF HasMessage, Given

LEMMA HandKept ==
    ASSUME TypeOK, Batch, Hand, Grows, SameReceipts, gateway' = gateway
    PROVE  Hand'
<1>1. gateway.step \in Posting => gateway.batch # <<>>
  BY Types DEF GatewayTypes, Posting
<1>2. gateway.step \in Posting => AtPlace' /\ HasFirst' /\ HasParts'
  BY <1>1, Carried DEF Hand
<1>3. gateway.step \in {"receipt", "strip"} => HasMessage'
  BY <1>1, HasMessageStays DEF Hand, Posting
<1>4. gateway.step = "strip" => HasReceipt'
  <2>1. Current' = Current
    BY DEF Current
  <2> QED BY <2>1 DEF Hand, HasReceipt, SameReceipts
<1> QED BY <1>2, <1>3, <1>4 DEF Hand, Posting

(* A gateway that is not at a part has nothing in its hands.                *)
LEMMA EmptyHand ==
    ASSUME gateway'.step \notin Posting
    PROVE  Hand' /\ Held' = {}
BY DEF Hand, Held, Posting

LEMMA CopiesKept ==
    ASSUME TypeOK, Copies, Grows, DOMAIN messages' = DOMAIN messages,
           \A m \in DOMAIN messages :
              rows[messages[m].row].kind # "project_status" /\ Forgotten(m) =>
                  Forgotten(m)' \/ messages'[m].seen = "deleted"
    PROVE  Copies'
<1> SUFFICES ASSUME NEW i \in DOMAIN messages, NEW j \in DOMAIN messages, i < j,
                    SamePart(messages[i], messages[j])',
                    rows'[messages'[i].row].kind # "project_status"
             PROVE  Removed(i)' \/ Forgotten(i)'
  BY DEF Copies
<1>1. \A m \in DOMAIN messages :
         /\ messages'[m].at = messages[m].at /\ messages'[m].row = messages[m].row
         /\ messages'[m].part = messages[m].part
         /\ messages[m].seen = "deleted" => messages'[m].seen = "deleted"
  BY DEF Grows, SameMessages
<1>2. rows[messages[i].row].kind # "project_status"
  BY <1>1, MessageFields DEF Grows, SameRows
<1>3. SamePart(messages[i], messages[j])
  BY <1>1 DEF SamePart
<1>4. Removed(i) \/ Forgotten(i)
  BY <1>2, <1>3 DEF Copies
<1>5. CASE Removed(i)
  BY <1>1, <1>5 DEF Removed, SamePart
<1>6. CASE Forgotten(i)
  BY <1>1, <1>2, <1>6 DEF Removed, SamePart
<1> QED BY <1>4, <1>5, <1>6

LEMMA SeedsKept ==
    ASSUME TypeOK, Seeds, Grows,
           \A i \in DOMAIN places' : i \in DOMAIN places \/ places'[i].kind # "task"
    PROVE  Seeds'
<1>1. \A m \in DOMAIN messages :
         /\ m \in DOMAIN messages' /\ messages'[m].part = messages[m].part
         /\ messages[m].seen = "deleted" => messages'[m].seen = "deleted"
  BY DEF Grows, SameMessages
<1>2. /\ DOMAIN places \subseteq DOMAIN places'
      /\ \A i \in DOMAIN places : places'[i] = places[i]
  BY DEF Grows, SamePlaces
<1> QED BY <1>1, <1>2 DEF Seeds

-----------------------------------------------------------------------------
(* The controller's steps: rows come about, are silenced or come due.       *)

LEMMA ControllerKeeps ==
    ASSUME IInv, TypeOK', RowShapes', SameRows, UNCHANGED <<projected, receipts, discord, gateway>>
    PROVE  IInv'
<1>1. /\ TypeOK /\ Batch /\ Posted /\ Named /\ Known /\ Hand /\ Copies /\ Seeds
  BY DEF IInv
<1>2. /\ projected' = projected /\ receipts' = receipts /\ places' = places
      /\ messages' = messages /\ gateway' = gateway
  BY DEF discord
<1>3. Grows
  BY <1>1, <1>2, UnchangedPlaces, UnchangedMessages, PastStays DEF Grows
<1>4. Through
  BY <1>1, <1>2 DEF Through, Batch
<1>5. SameReceipts
  BY <1>2 DEF SameReceipts
<1>6. Batch'
  BY <1>1, <1>3, <1>4, BatchKept
<1>7. Posted'
  BY <1>1, <1>2, <1>3, PostedKept
<1>8. Named'
  BY <1>1, <1>2, <1>3, NamedKept
<1>9. Known'
  BY <1>1, <1>2, <1>3, KnownKept
<1>10. Hand'
  BY <1>1, <1>2, <1>3, <1>5, HandKept
<1>11. Copies'
  <2>1. \A m : Forgotten(m) => Forgotten(m)'
    BY <1>2 DEF Forgotten, Held
  <2> QED BY <1>1, <1>2, <1>3, <2>1, CopiesKept
<1>12. Seeds'
  BY <1>1, <1>2, <1>3, SeedsKept
<1> QED BY <1>6, <1>7, <1>8, <1>9, <1>10, <1>11, <1>12 DEF IInv

LEMMA QueuedKeeps ==
    ASSUME IInv, NEW task \in Tasks, NEW kind \in Kinds \ {"create_thread"},
           NEW p \in Topics \cup {"none"}, kind = "create_topic_thread" => p \in Topics,
           NEW fresh \in BOOLEAN, NEW at \in 0..Len(places), Queued(task, kind, p, fresh, at),
           topic' \in [Topics -> [row: 0..Len(rows) + 1, at: 0..Len(places), reminded: BOOLEAN]]
    PROVE  IInv'
<1> DEFINE new == NewRow(task, kind, p, fresh, at)
<1>1. /\ rows' = Append(rows, new) /\ thread' = thread /\ projected' = projected
      /\ receipts' = receipts /\ lost' = lost /\ places' = places /\ messages' = messages
      /\ gateway' = gateway
  BY DEF Queued, discord
<1>2. /\ TypeOK /\ RowShapes /\ Len(rows) \in Nat /\ Len(places) \in Nat /\ Len(messages) \in Nat
      /\ rows \in Seq(RowRecords)
  BY Fields, Types DEF IInv, RowTypes
<1>3. /\ new \in RowRecords /\ new.kind = kind /\ new.topic = p /\ new.at = at /\ new.message = 0
  <2>1. at \in Nat
    BY <1>2
  <2> QED BY <2>1 DEF NewRow, RowRecords
<1> HIDE DEF new
<1>4. /\ rows' \in Seq(RowRecords) /\ Len(rows') = Len(rows) + 1
      /\ \A r \in 1..Len(rows) : rows'[r] = rows[r]
      /\ rows'[Len(rows) + 1] = new
  BY <1>1, <1>2, <1>3, AppendProperties
<1>5. Rows' = Rows \cup {Len(rows) + 1}
  BY <1>2, <1>4 DEF Rows
<1>6. SameRows
  BY <1>2, <1>4, <1>5 DEF SameRows, Rows, Open
<1>7. TypeOK'
  <2>1. /\ PlaceTypes' /\ MessageTypes' /\ ReceiptTypes' /\ GatewayTypes'
    BY <1>1, <1>2, <1>6, TypesStay, UnchangedPlaces, UnchangedMessages
  <2>2. RowTypes'
    <3>1. \A r \in Rows : rows[r].at \in 0..Len(places) /\ rows[r].message \in 0..Len(messages)
      BY <1>2, Types DEF RowTypes
    <3> QED BY <1>1, <1>2, <1>3, <1>4, <1>5, <3>1 DEF RowTypes, Rows
  <2>3. TaskTypes'
    BY <1>1, <1>2, <1>4, Types DEF TaskTypes
  <2> QED BY <2>1, <2>2, <2>3, Typed
<1>8. RowShapes'
  <2>1. rows # <<>> /\ 1 \in Rows
    BY <1>2, EmptySeq DEF RowShapes, Rows
  <2>2. rows' # <<>>
    BY <1>1, <1>2, <1>3, AppendProperties
  <2>3. Len(rows) + 1 # 1
    BY <1>2, <2>1 DEF Rows
  <2>4. \A r \in Rows : rows'[r] = rows[r]
    BY <1>4 DEF Rows
  <2>5. \A r \in Rows' : r \in Rows \/ r = Len(rows) + 1
    BY <1>5
  <2>6. \A r \in Rows : /\ (rows[r].kind = "create_thread") = (r = 1)
                        /\ rows[r].kind = "create_topic_thread" => rows[r].topic \in Topics
    BY <1>2 DEF RowShapes
  <2>7. /\ (rows'[Len(rows) + 1].kind = "create_thread") = (Len(rows) + 1 = 1)
        /\ rows'[Len(rows) + 1].kind = "create_topic_thread" => rows'[Len(rows) + 1].topic \in Topics
    BY <1>3, <1>4, <2>3
  <2> QED BY <2>2, <2>4, <2>5, <2>6, <2>7 DEF RowShapes
<1> QED BY <1>1, <1>6, <1>7, <1>8, ControllerKeeps DEF discord

LEMMA NotifyKeeps ==
    ASSUME IInv, NEW task \in Tasks, NEW fresh \in BOOLEAN, Notify(task, fresh) PROVE IInv'
<1>1. PICK kind \in {"project_status", "message"} :
          Queued(task, kind, "none", fresh, thread[task]) /\ topic' = topic
  BY DEF Notify
<1>2. TypeOK /\ thread[task] \in 0..Len(places) /\ Len(rows) \in Nat
  BY Fields, Types DEF IInv, TaskTypes
<1>3. PICK at \in 0..Len(places) : at = thread[task]
  BY <1>2
<1>4. 0..Len(rows) \subseteq 0..Len(rows) + 1
  BY <1>2
<1>5. topic' \in [Topics -> [row: 0..Len(rows) + 1, at: 0..Len(places), reminded: BOOLEAN]]
  BY <1>1, <1>2, <1>4, Types DEF TaskTypes
<1> QED BY <1>1, <1>3, <1>5, QueuedKeeps DEF Kinds

LEMMA TopicRows ==
    ASSUME TypeOK, NEW p \in Topics
    PROVE  /\ topic \in [Topics -> [row: 0..Len(rows) + 1, at: 0..Len(places), reminded: BOOLEAN]]
           /\ TopicPlace(p) \in 0..Len(places) /\ Len(rows) + 1 \in 0..Len(rows) + 1
<1>1. Len(rows) \in Nat
  BY Fields
<1>2. 0..Len(rows) \subseteq 0..Len(rows) + 1 /\ Len(rows) + 1 \in 0..Len(rows) + 1
  BY <1>1
<1>3. topic \in [Topics -> [row: 0..Len(rows), at: 0..Len(places), reminded: BOOLEAN]]
  BY Types DEF TaskTypes
<1>4. TopicPlace(p) \in 0..Len(places)
  BY <1>3, Types DEF TaskTypes, TopicPlace, Tasks
<1> QED BY <1>2, <1>3, <1>4

LEMMA CreateTopicKeeps == ASSUME IInv, NEW p \in Topics, CreateTopic(p) PROVE IInv'
<1>1. /\ TypeOK /\ Len(places) \in Nat
      /\ topic \in [Topics -> [row: 0..Len(rows) + 1, at: 0..Len(places), reminded: BOOLEAN]]
      /\ Len(rows) + 1 \in 0..Len(rows) + 1
  BY TopicRows, Fields DEF IInv
<1>2. topic' \in [Topics -> [row: 0..Len(rows) + 1, at: 0..Len(places), reminded: BOOLEAN]]
  BY <1>1 DEF CreateTopic
<1>3. Queued("v2", "create_topic_thread", p, FALSE, 0)
  BY DEF CreateTopic
<1>4. PICK at \in 0..Len(places) : at = 0
  BY <1>1
<1>5. PICK kind \in Kinds \ {"create_thread"} : kind = "create_topic_thread"
  BY DEF Kinds
<1>6. Queued("v2", kind, p, FALSE, at)
  BY <1>3, <1>4, <1>5
<1> QED BY <1>2, <1>6, QueuedKeeps DEF Tasks

LEMMA TopicMessageKeeps == ASSUME IInv, NEW p \in Topics, Delegate(p) \/ Remind(p) PROVE IInv'
<1>1. /\ TypeOK
      /\ topic \in [Topics -> [row: 0..Len(rows) + 1, at: 0..Len(places), reminded: BOOLEAN]]
      /\ TopicPlace(p) \in 0..Len(places)
  BY TopicRows DEF IInv
<1>2. topic' \in [Topics -> [row: 0..Len(rows) + 1, at: 0..Len(places), reminded: BOOLEAN]]
  BY <1>1 DEF Delegate, Remind
<1>3. Queued("v2", "message", p, FALSE, TopicPlace(p))
  BY DEF Delegate, Remind
<1>4. PICK at \in 0..Len(places) : at = TopicPlace(p)
  BY <1>1
<1> QED BY <1>2, <1>3, <1>4, QueuedKeeps DEF Kinds, Tasks

(* The rows are written over one by one.                                    *)
LEMMA RewrittenRows ==
    ASSUME TypeOK, RowShapes, rows' \in [Rows -> RowRecords],
           \A r \in Rows :
              /\ rows'[r].kind = rows[r].kind /\ rows'[r].fresh = rows[r].fresh
              /\ rows'[r].topic = rows[r].topic /\ (~Open(r) => rows'[r].sent)
              /\ rows'[r].at \in 0..Len(places') /\ rows'[r].message \in 0..Len(messages')
    PROVE  SameRows /\ RowTypes' /\ RowShapes' /\ Rows' = Rows
<1>1. Len(rows) \in Nat /\ Rows = 1..Len(rows)
  BY Fields DEF Rows
<1>2. rows' \in Seq(RowRecords) /\ Len(rows') = Len(rows)
  BY <1>1, FunctionIsSeq
<1>3. Rows' = Rows
  BY <1>2 DEF Rows
<1>4. SameRows
  BY <1>1, <1>2, <1>3 DEF SameRows, Open
<1>5. RowTypes'
  BY <1>2, <1>3 DEF RowTypes
<1>6. rows' # <<>>
  BY <1>2, Types, EmptySeq DEF RowShapes, RowTypes
<1>7. RowShapes'
  BY <1>3, <1>6 DEF RowShapes
<1> QED BY <1>3, <1>4, <1>5, <1>7

LEMMA CancelTaskKeeps == ASSUME IInv, CancelTask PROVE IInv'
<1> DEFINE u(r) == [rows[r] EXCEPT !.sent = TRUE]
           t(r) == [u(r) EXCEPT !.cancelled = TRUE]
<1>1. /\ rows' = [r \in Rows |-> IF Open(r) /\ rows[r].task = "v2" THEN t(r) ELSE rows[r]]
      /\ UNCHANGED <<thread, topic, projected, receipts, lost, discord, gateway>>
  BY DEF CancelTask
<1>2. TypeOK /\ RowShapes /\ rows \in [Rows -> RowRecords]
  BY Fields DEF IInv
<1>3. \A r \in Rows : rows[r].at \in 0..Len(places) /\ rows[r].message \in 0..Len(messages)
  BY <1>2, Types DEF RowTypes
<1>4. ASSUME NEW r \in Rows
      PROVE  /\ t(r) \in RowRecords /\ t(r).kind = rows[r].kind /\ t(r).fresh = rows[r].fresh
             /\ t(r).topic = rows[r].topic /\ t(r).sent /\ t(r).at = rows[r].at
             /\ t(r).message = rows[r].message
  <2>1. /\ u(r) \in RowRecords /\ u(r).kind = rows[r].kind /\ u(r).fresh = rows[r].fresh
        /\ u(r).topic = rows[r].topic /\ u(r).sent = TRUE /\ u(r).at = rows[r].at
        /\ u(r).message = rows[r].message
    BY <1>2 DEF RowRecords
  <2> HIDE DEF u
  <2> QED BY <2>1 DEF RowRecords
<1> HIDE DEF t
<1>5. /\ rows' \in [Rows -> RowRecords]
      /\ \A r \in Rows :
            /\ rows'[r].kind = rows[r].kind /\ rows'[r].fresh = rows[r].fresh
            /\ rows'[r].topic = rows[r].topic /\ (~Open(r) => rows'[r].sent)
            /\ rows'[r].at \in 0..Len(places') /\ rows'[r].message \in 0..Len(messages')
  BY <1>1, <1>2, <1>3, <1>4 DEF discord, Open
<1>6. SameRows /\ RowTypes' /\ RowShapes'
  BY <1>2, <1>5, RewrittenRows
<1>7. TypeOK'
  BY <1>1, <1>2, <1>6, TypesStay, UnchangedPlaces, UnchangedMessages, Typed DEF discord
<1> QED BY <1>1, <1>6, <1>7, ControllerKeeps

(* What changes of a row whether it is due.                                 *)
LEMMA DueRows ==
    ASSUME TypeOK, RowShapes, NEW c \in Rows, NEW due \in BOOLEAN, UNCHANGED discord,
           rows' = [rows EXCEPT ![c].due = due]
    PROVE  SameRows /\ RowTypes' /\ RowShapes' /\ Rows' = Rows
<1> DEFINE t == [rows[c] EXCEPT !.due = due]
<1>1. rows \in [Rows -> RowRecords] /\ rows' = [rows EXCEPT ![c] = t]
  BY Fields
<1>2. /\ t \in RowRecords /\ t.kind = rows[c].kind /\ t.fresh = rows[c].fresh
      /\ t.topic = rows[c].topic /\ t.sent = rows[c].sent /\ t.at = rows[c].at
      /\ t.message = rows[c].message
  BY <1>1 DEF RowRecords
<1> HIDE DEF t
<1>3. \A r \in Rows : rows[r].at \in 0..Len(places) /\ rows[r].message \in 0..Len(messages)
  BY Types DEF RowTypes
<1>4. /\ rows' \in [Rows -> RowRecords]
      /\ \A r \in Rows :
            /\ rows'[r].kind = rows[r].kind /\ rows'[r].fresh = rows[r].fresh
            /\ rows'[r].topic = rows[r].topic /\ (~Open(r) => rows'[r].sent)
            /\ rows'[r].at \in 0..Len(places') /\ rows'[r].message \in 0..Len(messages')
  BY <1>1, <1>2, <1>3 DEF discord, Open
<1> QED BY <1>4, RewrittenRows

LEMMA BackOffEndsKeeps == ASSUME IInv, NEW r \in Rows, BackOffEnds(r) PROVE IInv'
<1>1. /\ rows' = [rows EXCEPT ![r].due = TRUE]
      /\ UNCHANGED <<thread, topic, projected, receipts, lost, discord, gateway>>
  BY DEF BackOffEnds
<1>2. TypeOK /\ RowShapes
  BY DEF IInv
<1>3. SameRows /\ RowTypes' /\ RowShapes'
  BY <1>1, <1>2, DueRows
<1>4. TypeOK'
  BY <1>1, <1>2, <1>3, TypesStay, UnchangedPlaces, UnchangedMessages, Typed DEF discord
<1> QED BY <1>1, <1>3, <1>4, ControllerKeeps

LEMMA LoseFilesKeeps == ASSUME IInv, NEW r \in Illustrated, LoseFiles(r) PROVE IInv'
<1>1. /\ lost' = lost \cup {r}
      /\ UNCHANGED <<rows, thread, topic, projected, receipts, discord, gateway>>
  BY DEF LoseFiles
<1>2. TypeOK /\ RowShapes
  BY DEF IInv
<1>3. SameRows /\ SamePlaces /\ SameMessages
  BY <1>1, <1>2, UnchangedRows, UnchangedPlaces, UnchangedMessages DEF discord
<1>4. RowShapes'
  BY <1>1, <1>2, ShapesStay
<1>5. RowTypes' /\ PlaceTypes' /\ MessageTypes' /\ ReceiptTypes' /\ GatewayTypes'
  BY <1>1, <1>2, <1>3, TypesStay DEF discord
<1>6. TaskTypes'
  BY <1>1, <1>2, Types DEF TaskTypes, discord
<1>7. TypeOK'
  BY <1>5, <1>6, Typed
<1> QED BY <1>1, <1>3, <1>4, <1>7, ControllerKeeps

-----------------------------------------------------------------------------
(* The moves of the gateway                                                *)

(* It begins with a part, or goes on with it.                               *)
LEMMA DoingMoves ==
    ASSUME TypeOK, Batch, SameRows, SamePlaces, SameMessages, gateway.step \notin {"poll", "fail"},
           NEW step \in Steps \ {"poll"}, NEW at \in 0..Len(places'), NEW part \in 0..2,
           NEW message \in 0..Len(messages'), NEW first \in 0..Len(messages'),
           gateway' = Doing(step, at, part, message, first)
    PROVE  /\ Grows /\ GatewayTypes' /\ Through /\ Current' = Current /\ gateway.batch # <<>>
           /\ gateway'.step = step /\ gateway'.batch = gateway.batch /\ gateway'.at = at
           /\ gateway'.part = part /\ gateway'.message = message /\ gateway'.first = first
<1>1. /\ gateway'.step = step /\ gateway'.batch = gateway.batch /\ gateway'.at = at
      /\ gateway'.part = part /\ gateway'.message = message /\ gateway'.first = first
  BY DEF Doing
<1>2. gateway.batch # <<>> /\ gateway.batch \in Seq(Items)
  BY Types, BatchFields DEF GatewayTypes
<1>3. GatewayTypes'
  BY <1>1, <1>2 DEF GatewayTypes
<1>4. at \in Nat /\ message \in Nat /\ first \in Nat
  BY DEF SamePlaces, SameMessages
<1>5. Through
  BY <1>1, <1>2, <1>4 DEF Through, Gateways, Doing
<1>6. Grows
  BY <1>1, PastStays DEF Grows
<1>7. Current' = Current
  BY <1>1 DEF Current
<1> QED BY <1>1, <1>2, <1>3, <1>5, <1>6, <1>7

(* It is done with an item, or drops the batch.                             *)
LEMMA BetweenMoves ==
    ASSUME TypeOK, Batch, SameRows, SamePlaces, SameMessages,
           \/ gateway.step \notin {"poll", "fail"} /\ gateway' = Failing
           \/ gateway.step # "poll" /\ gateway' = NextItem
           \/ gateway' = Idle
    PROVE  Grows /\ GatewayTypes' /\ Through /\ Hand' /\ Held' = {}
<1>1. gateway.step # "poll" => gateway.batch # <<>>
  BY Types DEF GatewayTypes
<1>2. 0 \in 0..Len(places') /\ 0 \in 0..Len(messages')
  BY DEF SamePlaces, SameMessages
<1>3. CASE gateway.step \notin {"poll", "fail"} /\ gateway' = Failing
  <2>1. /\ gateway'.step = "fail" /\ gateway'.batch = gateway.batch /\ gateway'.at = 0
        /\ gateway'.part = 0 /\ gateway'.message = 0 /\ gateway'.first = 0
    BY <1>3 DEF Failing, Between
  <2>2. GatewayTypes' /\ Hand' /\ Held' = {}
    BY <1>1, <1>2, <1>3, <2>1, EmptyHand DEF GatewayTypes, Steps, Posting
  <2>3. Through
    BY <1>2, <1>3, <2>1, BatchFields DEF Through, Gateways, Failing, Between, Steps
  <2>4. PastKept
    BY <1>3, <2>1, PastStays
  <2> QED BY <2>2, <2>3, <2>4 DEF Grows
<1>4. CASE gateway.step # "poll" /\ gateway' = NextItem
  <2>1. /\ gateway'.step = (IF Len(gateway.batch) > 1 THEN "item" ELSE "poll")
        /\ gateway'.batch = Tail(gateway.batch) /\ gateway'.at = 0
        /\ gateway'.part = 0 /\ gateway'.message = 0 /\ gateway'.first = 0
    BY <1>4 DEF NextItem, Between
  <2>2. /\ Len(gateway.batch) \in Nat /\ Tail(gateway.batch) \in Seq(Items)
        /\ DOMAIN Tail(gateway.batch) = 1..Len(gateway.batch) - 1
    BY <1>1, <1>4, BatchFields
  <2>3. gateway'.step # "poll" => gateway'.batch # <<>>
    <3>1. Len(gateway.batch) > 1 => 1 \in DOMAIN Tail(gateway.batch)
      BY <2>2
    <3>2. Tail(gateway.batch) = <<>> => DOMAIN Tail(gateway.batch) = {}
      OBVIOUS
    <3>3. Len(gateway.batch) > 1 => Tail(gateway.batch) # <<>>
      BY <3>1, <3>2
    <3> QED BY <2>1, <3>3
  <2>4. GatewayTypes' /\ Hand' /\ Held' = {}
    BY <1>2, <2>1, <2>3, EmptyHand DEF GatewayTypes, Steps, Posting
  <2>5. Through
    BY <1>1, <1>2, <1>4, <2>1, <2>2 DEF Through, Gateways, NextItem, Between, Steps
  <2>6. PastKept
    BY <1>1, <1>4, <2>1, PastPasses
  <2> QED BY <2>4, <2>5, <2>6 DEF Grows
<1>5. CASE gateway' = Idle
  <2>1. /\ gateway'.step = "poll" /\ gateway'.batch = <<>> /\ gateway'.at = 0
        /\ gateway'.part = 0 /\ gateway'.message = 0 /\ gateway'.first = 0
    BY <1>5 DEF Idle, Between
  <2>2. GatewayTypes' /\ Hand' /\ Held' = {}
    BY <1>2, <2>1, EmptyHand DEF GatewayTypes, Steps, Posting
  <2>3. Through
    BY <1>2, <1>5, <2>1, EmptySeq DEF Through, Gateways, Idle, Between, Steps
  <2>4. DOMAIN gateway'.batch = {}
    BY <2>1
  <2>5. PastKept
    BY <2>4, PastStays
  <2> QED BY <2>2, <2>3, <2>5 DEF Grows
<1> QED BY <1>3, <1>4, <1>5

(* When only the gateway moves.                                             *)
LEMMA GatewayKeeps ==
    ASSUME IInv, UNCHANGED <<database, discord>>, GatewayTypes', Batch', PastKept, Hand',
           \A m \in DOMAIN messages :
              rows[messages[m].row].kind # "project_status" /\ Forgotten(m) => m \notin Held'
    PROVE  IInv'
<1>1. TypeOK /\ RowShapes /\ Posted /\ Named /\ Known /\ Copies /\ Seeds
  BY DEF IInv
<1>2. /\ rows' = rows /\ UNCHANGED <<thread, topic, projected, lost>> /\ projected' = projected
      /\ receipts' = receipts /\ places' = places /\ messages' = messages
  BY DEF database, discord
<1>3. SameRows /\ SamePlaces /\ SameMessages /\ Grows
  BY <1>1, <1>2, UnchangedRows, UnchangedPlaces, UnchangedMessages DEF Grows
<1>4. TypeOK'
  BY <1>1, <1>2, <1>3, TypesStay, Typed
<1>5. RowShapes'
  BY <1>1, <1>2, ShapesStay
<1>6. Posted'
  BY <1>1, <1>2, <1>3, PostedKept
<1>7. Named'
  BY <1>1, <1>2, <1>3, NamedKept
<1>8. Known'
  BY <1>1, <1>2, <1>3, KnownKept
<1>9. Copies'
  <2>1. \A m \in DOMAIN messages :
           rows[messages[m].row].kind # "project_status" /\ Forgotten(m) => Forgotten(m)'
    BY <1>2 DEF Forgotten
  <2> QED BY <1>1, <1>2, <1>3, <2>1, CopiesKept
<1>10. Seeds'
  BY <1>1, <1>2, <1>3, SeedsKept
<1> QED BY <1>4, <1>5, <1>6, <1>7, <1>8, <1>9, <1>10 DEF IInv

LEMMA PassesKeep ==
    ASSUME IInv, UNCHANGED <<database, discord>>,
           \/ gateway.step \notin {"poll", "fail"} /\ gateway' = Failing
           \/ gateway.step # "poll" /\ gateway' = NextItem
           \/ gateway' = Idle
    PROVE  IInv'
<1>1. TypeOK /\ Batch
  BY DEF IInv
<1>2. SameRows /\ SamePlaces /\ SameMessages
  BY <1>1, UnchangedRows, UnchangedPlaces, UnchangedMessages DEF database, discord
<1>3. Grows /\ GatewayTypes' /\ Through /\ Hand' /\ Held' = {}
  BY <1>1, <1>2, BetweenMoves
<1>4. Batch'
  BY <1>1, <1>3, BatchKept
<1> QED BY <1>3, <1>4, GatewayKeeps DEF Grows

LEMMA FailuresKeep ==
    ASSUME IInv, CallFails \/ AckRefused \/ FailFails \/ Crash \/ Skip \/ StripFails
    PROVE  IInv'
<1>1. /\ UNCHANGED <<database, discord>>
      /\ \/ gateway.step \notin {"poll", "fail"} /\ gateway' = Failing
         \/ gateway.step # "poll" /\ gateway' = NextItem
         \/ gateway' = Idle
  BY DEF CallFails, AckRefused, FailFails, Crash, Skip, StripFails, Raise, Goes, Working
<1> QED BY <1>1, PassesKeep

LEMMA PollKeeps == ASSUME IInv, Poll PROVE IInv'
<1> PICK n \in 1..Page : \E p \in [1..n -> Due] :
       Oldest(p) /\ gateway' = Between("item", [i \in 1..n |-> Item(p[i])])
  BY DEF Poll, Goes
<1> PICK page \in [1..n -> Due] :
       Oldest(page) /\ gateway' = Between("item", [i \in 1..n |-> Item(page[i])])
  OBVIOUS
<1>1. TypeOK /\ Batch /\ Known /\ n \in Nat /\ n >= 1
  BY OutboxAssumption DEF IInv
<1>2. /\ gateway'.step = "item" /\ gateway'.batch = [i \in 1..n |-> Item(page[i])]
      /\ gateway'.at = 0 /\ gateway'.part = 0 /\ gateway'.message = 0 /\ gateway'.first = 0
  BY DEF Between
<1>3. UNCHANGED <<database, discord>>
  BY DEF Poll
<1>4. SameRows /\ SamePlaces /\ SameMessages
  BY <1>1, <1>3, UnchangedRows, UnchangedPlaces, UnchangedMessages DEF database, discord
<1>5. \A i \in 1..n : page[i] \in Rows /\ Open(page[i])
  BY DEF Due
<1>6. \A i \in 1..n : Item(page[i]) \in Items /\ Item(page[i]).row = page[i]
                      /\ Item(page[i]).at \in 0..Len(places)
                      /\ (Item(page[i]).status = 0 \/ Item(page[i]).status = projected)
  <2>1. \A r \in Rows : rows[r].at \in Nat /\ rows[r].at \in 0..Len(places) /\ r \in Nat
    BY <1>1, Types, Fields DEF RowTypes, RowRecords, Rows
  <2>2. projected \in Nat
    BY <1>1, Types, Fields DEF TaskTypes
  <2> QED BY <1>5, <2>1, <2>2 DEF Item, Items
<1>7. gateway'.batch \in Seq(Items) /\ DOMAIN gateway'.batch = 1..n
  <2> DEFINE batch == [i \in 1..n |-> Item(page[i])]
  <2>1. batch \in [1..n -> Items]
    BY <1>6
  <2> HIDE DEF batch
  <2>2. batch \in Seq(Items) /\ DOMAIN batch = 1..n
    BY <1>1, <2>1, FunctionIsSeq
  <2> QED BY <1>2, <2>2 DEF batch
<1>8. \A k \in DOMAIN gateway'.batch :
         /\ gateway'.batch[k].row = page[k] /\ gateway'.batch[k].at \in 0..Len(places)
         /\ gateway'.batch[k].status = 0 \/ gateway'.batch[k].status = projected
  BY <1>2, <1>6, <1>7
<1>9. PastKept
  <2>1. SameRows
    BY <1>4
  <2> SUFFICES ASSUME NEW r \in Rows, Past(r), NEW k \in DOMAIN gateway'.batch,
                      gateway'.batch[k].row = r
               PROVE  FALSE
    BY <2>1 DEF PastKept, Past, SameRows
  <2>2. k \in 1..n /\ page[k] = r
    BY <1>7, <1>8
  <2> QED BY <2>2, <1>5 DEF Past
<1>10. 0 \in 0..Len(places') /\ 0 \in 0..Len(messages')
  BY <1>4 DEF SamePlaces, SameMessages
<1>11. GatewayTypes' /\ Hand' /\ Held' = {}
  <2>1. 1 \in DOMAIN gateway'.batch
    BY <1>1, <1>7
  <2>2. gateway'.batch = <<>> => DOMAIN gateway'.batch = {}
    OBVIOUS
  <2>3. gateway'.batch # <<>>
    BY <2>1, <2>2
  <2> QED BY <1>2, <1>10, <2>3, EmptyHand DEF GatewayTypes, Steps, Posting
<1>12. Batch'
  <2>1. gateway' \in Gateways /\ gateway'.at \in 0..Len(places')
    BY <1>2, <1>7, <1>10 DEF Gateways, Between, Steps
  <2>2. projected # 0 => Statused(projected)
    BY <1>1 DEF Known
  <2>3. PICK m : m = projected /\ (m # 0 => Statused(m)')
    BY <1>1, <1>4, <1>9, <2>2, GivenStays DEF Grows
  <2>4. \A k \in DOMAIN gateway'.batch :
           /\ gateway'.batch[k].row \in Rows' /\ gateway'.batch[k].at \in 0..Len(places')
           /\ (gateway.batch[k].status # 0 => Statused(gateway.batch[k].status))'
    <3>1. Rows' = Rows /\ places' = places
      BY <1>3 DEF Rows, database, discord
    <3> SUFFICES ASSUME NEW k \in DOMAIN gateway'.batch
                 PROVE  /\ gateway'.batch[k].row \in Rows' /\ gateway'.batch[k].at \in 0..Len(places')
                        /\ (gateway.batch[k].status # 0 => Statused(gateway.batch[k].status))'
      OBVIOUS
    <3>2. k \in 1..n /\ gateway'.batch[k].row = page[k] /\ gateway'.batch[k].at \in 0..Len(places)
      BY <1>7, <1>8
    <3>3. gateway'.batch[k].status # 0 => gateway'.batch[k].status = m
      BY <1>8, <2>3
    <3>4. gateway'.batch[k].row \in Rows' /\ gateway'.batch[k].at \in 0..Len(places')
      BY <1>5, <3>1, <3>2
    <3>5. (gateway.batch[k].status # 0 => Statused(gateway.batch[k].status))'
      BY <2>3, <3>3 DEF Statused, Past, Open
    <3> QED BY <3>4, <3>5
  <2>5. \A k, l \in DOMAIN gateway'.batch : k < l => gateway'.batch[k].row < gateway'.batch[l].row
    <3>1. \A k, l \in 1..n : k < l => page[k] < page[l]
      BY DEF Oldest
    <3> SUFFICES ASSUME NEW k \in 1..n, NEW l \in 1..n, k < l
                 PROVE  gateway'.batch[k].row < gateway'.batch[l].row
      BY <1>7
    <3>2. gateway'.batch[k].row = page[k] /\ gateway'.batch[l].row = page[l]
      BY <1>7, <1>8
    <3> QED BY <3>1, <3>2
  <2> QED BY <2>1, <2>4, <2>5 DEF Batch
<1> QED BY <1>3, <1>9, <1>11, <1>12, GatewayKeeps

(* The gateway begins to send a row to a place.                             *)
LEMMA SendingHand ==
    ASSUME TypeOK, Batch, RowShapes, SameRows, SamePlaces, SameMessages, gateway.step = "item",
           NEW at \in 1..Len(places'), NEW part \in 0..1, gateway' = Sending(at, part, 0),
           part = 0 <=> Current = 1, part = 0 => at = Channel,
           rows[Current].kind = "create_topic_thread" => places'[at].of = Current,
           rows[Current].kind = "project_status" => at = Channel
    PROVE  /\ Grows /\ GatewayTypes' /\ Batch' /\ Hand'
           /\ \A m \in Held' : m = 0
<1>1. /\ 0 \in 0..Len(messages') /\ at \in 0..Len(places') /\ at # 0 /\ part \in 0..2
      /\ "send" \in Steps \ {"poll"}
  BY DEF SameMessages, SamePlaces, Steps
<1>2. gateway' = Doing("send", at, part, 0, 0)
  BY DEF Sending
<1>3. /\ Grows /\ GatewayTypes' /\ Through /\ Current' = Current /\ gateway.batch # <<>>
      /\ gateway'.step = "send" /\ gateway'.at = at
      /\ gateway'.part = part /\ gateway'.message = 0 /\ gateway'.first = 0
  BY <1>1, <1>2, DoingMoves
<1>4. Batch'
  BY <1>3, BatchKept
<1>5. PICK c \in Rows : c = Current /\ rows'[c].kind = rows[c].kind
  BY <1>3, BatchFields DEF SameRows
<1>6. AtPlace'
  <2>1. part # 0 => part \in Parts(c)
    BY DEF Parts
  <2> QED BY <1>1, <1>3, <1>5, <2>1 DEF AtPlace, Parts
<1>7. HasFirst'
  BY <1>3, <1>5 DEF HasFirst
<1>8. HasParts'
  BY <1>3, <1>5 DEF HasParts, Parts
<1>9. \A m \in Held' : m = 0
  BY <1>3 DEF Held
<1> QED BY <1>3, <1>4, <1>6, <1>7, <1>8, <1>9 DEF Hand

LEMMA AtItem ==
    ASSUME TypeOK, Batch, RowShapes, Seeds, gateway.step = "item"
    PROVE  /\ gateway.batch # <<>> /\ Current \in Rows /\ Head(gateway.batch).at \in 0..Len(places)
           /\ (rows[Current].kind = "create_thread") = (Current = 1)
           /\ Channel \in 1..Len(places)
<1>1. gateway.batch # <<>> /\ Current \in Rows /\ Head(gateway.batch).at \in 0..Len(places)
  BY Types, BatchFields DEF GatewayTypes
<1>2. Channel \in 1..Len(places)
  BY Fields DEF Seeds
<1>3. (rows[Current].kind = "create_thread") = (Current = 1)
  BY <1>1 DEF RowShapes
<1> QED BY <1>1, <1>2, <1>3

LEMMA StartsKeep == ASSUME IInv, StartMessage \/ StartTaskThread \/ StartStatus PROVE IInv'
<1>1. TypeOK /\ Batch /\ RowShapes /\ Seeds /\ gateway.step = "item" /\ UNCHANGED <<database, discord>>
  BY DEF IInv, StartMessage, StartTaskThread, StartStatus, Working
<1>2. SameRows /\ SamePlaces /\ SameMessages
  BY <1>1, UnchangedRows, UnchangedPlaces, UnchangedMessages DEF database, discord
<1>3. PICK c : c = Current /\ (rows[c].kind = "create_thread" <=> c = 1)
  BY <1>1, AtItem
<1>4. \E at \in 1..Len(places'), part \in 0..1 :
         /\ gateway' = Sending(at, part, 0) /\ (part = 0 <=> Current = 1)
         /\ part = 0 => at = Channel
         /\ rows[Current].kind # "create_topic_thread"
         /\ rows[Current].kind = "project_status" => at = Channel
  <2>1. places' = places /\ Channel \in 1..Len(places) /\ Head(gateway.batch).at \in 0..Len(places)
    BY <1>1, AtItem DEF discord
  <2>2. CASE StartMessage
    <3>1. Head(gateway.batch).at \in 1..Len(places')
      BY <2>1, <2>2, <1>1, Fields DEF StartMessage
    <3> QED BY <2>2, <3>1, <1>3 DEF StartMessage, Goes
  <2>3. CASE StartTaskThread
    BY <2>1, <2>3, <1>3 DEF StartTaskThread, Goes
  <2>4. CASE StartStatus
    BY <2>1, <2>4, <1>3 DEF StartStatus, Goes
  <2> QED BY <2>2, <2>3, <2>4
<1>5. PICK at \in 1..Len(places'), part \in 0..1 :
         /\ gateway' = Sending(at, part, 0) /\ (part = 0 <=> Current = 1)
         /\ part = 0 => at = Channel
         /\ rows[Current].kind # "create_topic_thread"
         /\ rows[Current].kind = "project_status" => at = Channel
  BY <1>4
<1>6. Grows /\ GatewayTypes' /\ Batch' /\ Hand' /\ \A m \in Held' : m = 0
  BY <1>1, <1>2, <1>5, SendingHand
<1>7. 0 \notin DOMAIN messages
  BY <1>1, Fields
<1> QED BY <1>1, <1>6, <1>7, GatewayKeeps DEF Grows

(* A place is made: a thread of a topic, or of a v1 task.                    *)
LEMMA NewPlace ==
    ASSUME TypeOK, Seeds, NEW kind \in {"task", "topic"}, NEW of \in Nat,
           places' = Append(places, [kind |-> kind, of |-> of])
    PROVE  /\ SamePlaces /\ PlaceTypes' /\ Len(places') = Len(places) + 1
           /\ DOMAIN places' = DOMAIN places \cup {Len(places) + 1}
           /\ places'[Len(places) + 1].kind = kind /\ places'[Len(places) + 1].of = of
           /\ Len(places) + 1 \in 1..Len(places')
<1> DEFINE new == [kind |-> kind, of |-> of]
<1>1. new \in PlaceRecords /\ new.kind = kind /\ new.of = of
  BY DEF PlaceRecords
<1>2. /\ Len(places) \in Nat /\ DOMAIN places = 1..Len(places) /\ places \in Seq(PlaceRecords)
      /\ places' = Append(places, new)
  BY Fields, Types DEF PlaceTypes
<1> HIDE DEF new
<1>3. /\ places' \in Seq(PlaceRecords) /\ Len(places') = Len(places) + 1
      /\ \A i \in 1..Len(places) : places'[i] = places[i]
      /\ places'[Len(places) + 1] = new
  BY <1>1, <1>2, AppendProperties
<1>4. DOMAIN places' = 1..Len(places) + 1
  BY <1>3, LenProperties
<1> QED BY <1>1, <1>2, <1>3, <1>4 DEF SamePlaces, PlaceTypes

(* When the gateway moves and has made a place or not.                      *)
LEMMA PlacesKeep ==
    ASSUME IInv, UNCHANGED <<database, messages>>, Grows, PlaceTypes', GatewayTypes',
           Batch', Hand', Seeds',
           \A m \in DOMAIN messages :
              rows[messages[m].row].kind # "project_status" /\ Forgotten(m) => m \notin Held'
    PROVE  IInv'
<1>1. TypeOK /\ RowShapes /\ Posted /\ Named /\ Known /\ Copies
  BY DEF IInv
<1>2. /\ rows' = rows /\ UNCHANGED <<thread, topic, projected, lost>> /\ projected' = projected
      /\ receipts' = receipts /\ messages' = messages
  BY DEF database
<1>3. TypeOK'
  <2>1. RowTypes' /\ MessageTypes' /\ TaskTypes' /\ ReceiptTypes'
    BY <1>1, <1>2, TypesStay DEF Grows
  <2> QED BY <2>1, Typed
<1>4. RowShapes'
  BY <1>1, <1>2, ShapesStay
<1>5. Posted'
  BY <1>1, <1>2, PostedKept
<1>6. Named'
  BY <1>1, <1>2, NamedKept
<1>7. Known'
  BY <1>1, <1>2, KnownKept
<1>8. Copies'
  <2>1. \A m \in DOMAIN messages :
           rows[messages[m].row].kind # "project_status" /\ Forgotten(m) => Forgotten(m)'
    BY <1>2 DEF Forgotten
  <2> QED BY <1>1, <1>2, <2>1, CopiesKept
<1> QED BY <1>3, <1>4, <1>5, <1>6, <1>7, <1>8 DEF IInv

LEMMA CreateTopicThreadKeeps == ASSUME IInv, CreateTopicThread PROVE IInv'
<1>1. /\ TypeOK /\ Batch /\ RowShapes /\ Seeds /\ gateway.step = "item"
      /\ UNCHANGED <<database, messages>> /\ rows[Current].kind = "create_topic_thread"
      /\ places' = Append(places, [kind |-> "topic", of |-> Current])
  BY DEF IInv, CreateTopicThread, Working
<1>2. gateway' = Failing \/ gateway' = Sending(Len(places) + 1, 1, 0)
  BY DEF CreateTopicThread, Answered, Raise, Goes
<1>3. /\ Current \in Nat /\ Current # 1
  BY <1>1, AtItem DEF Rows
<1>4. PICK c \in Nat : c = Current
  BY <1>3
<1>5. /\ SamePlaces /\ PlaceTypes' /\ DOMAIN places' = DOMAIN places \cup {Len(places) + 1}
      /\ places'[Len(places) + 1].kind = "topic" /\ places'[Len(places) + 1].of = Current
      /\ Len(places) + 1 \in 1..Len(places')
  BY <1>1, <1>4, NewPlace
<1>6. SameRows /\ SameMessages
  BY <1>1, UnchangedRows, UnchangedMessages DEF database
<1>7. /\ Grows /\ GatewayTypes' /\ Batch' /\ Hand'
      /\ \A m \in Held' : m = 0
  <2>1. CASE gateway' = Failing
    <3>1. Grows /\ GatewayTypes' /\ Through /\ Hand' /\ Held' = {}
      BY <1>1, <1>5, <1>6, <2>1, BetweenMoves
    <3> QED BY <1>1, <3>1, BatchKept
  <2>2. CASE gateway' = Sending(Len(places) + 1, 1, 0)
    <3>1. PICK at \in 1..Len(places') : at = Len(places) + 1
      BY <1>5
    <3>2. /\ places'[at].of = Current /\ gateway' = Sending(at, 1, 0)
          /\ rows[Current].kind # "project_status"
      BY <1>1, <1>5, <2>2, <3>1
    <3> QED BY <1>1, <1>3, <1>5, <1>6, <3>2, SendingHand
  <2> QED BY <1>2, <2>1, <2>2
<1>8. Seeds'
  BY <1>1, <1>5, <1>7, SeedsKept
<1>9. 0 \notin DOMAIN messages
  BY <1>1, Fields
<1> QED BY <1>1, <1>5, <1>7, <1>8, <1>9, PlacesKeep

(* The text of a v1 task goes to the thread on its seed.                    *)
LEMMA OpenedHand ==
    ASSUME TypeOK, Batch, RowShapes, Hand, SameRows, SamePlaces, SameMessages,
           gateway.step = "seeded", NEW at \in 1..Len(places'),
           gateway' = Sending(at, 1, gateway.first)
    PROVE  /\ Grows /\ GatewayTypes' /\ Batch' /\ Hand'
           /\ \A m \in Held' : m \in Held
<1>1. /\ gateway.first \in 0..Len(messages') /\ at \in 0..Len(places') /\ at # 0 /\ 1 \in 0..2
      /\ 0 \in 0..Len(messages') /\ "send" \in Steps \ {"poll"}
  <2>1. gateway.first \in 0..Len(messages) /\ Len(messages) \in Nat
    BY Types, Fields DEF GatewayTypes
  <2> QED BY <2>1 DEF SameMessages, SamePlaces, Steps
<1>2. PICK first \in 0..Len(messages') : first = gateway.first
  BY <1>1
<1>3. gateway' = Doing("send", at, 1, 0, first)
  BY <1>2 DEF Sending
<1>4. /\ Grows /\ GatewayTypes' /\ Through /\ Current' = Current /\ gateway.batch # <<>>
      /\ gateway'.step = "send" /\ gateway'.at = at /\ gateway'.part = 1
      /\ gateway'.message = 0 /\ gateway'.first = first
  BY <1>1, <1>3, DoingMoves
<1>5. Batch'
  BY <1>4, BatchKept
<1>6. /\ Current = 1 /\ Current \in Rows /\ first # 0 /\ Given(Current, first)
      /\ messages[first].part = 0 /\ messages[first].at = Channel
  <2>1. AtPlace /\ HasFirst
    BY DEF Hand, Posting
  <2>2. Current = 1
    BY <2>1 DEF AtPlace
  <2>3. first # 0
    BY <1>2, <2>1 DEF HasFirst
  <2> QED BY <1>2, <1>4, <2>1, <2>2, <2>3, BatchFields DEF HasFirst
<1>7. /\ Given(Current, first)' /\ messages'[first].part = 0 /\ messages'[first].at = Channel
  BY <1>4, <1>6, GivenAtHand
<1>8. rows'[1].kind = "create_thread"
  BY <1>6 DEF RowShapes, SameRows
<1>9. AtPlace'
  BY <1>1, <1>4, <1>6, <1>8 DEF AtPlace, Parts
<1>10. HasFirst'
  BY <1>4, <1>6, <1>7 DEF HasFirst, Given
<1>11. HasParts'
  BY <1>4 DEF HasParts, Parts
<1>12. \A m \in Held' : m \in Held
  <2>1. first \in DOMAIN messages
    BY <1>6 DEF Given
  <2> QED BY <1>2, <1>4, <2>1 DEF Held, Posting
<1> QED BY <1>4, <1>5, <1>9, <1>10, <1>11, <1>12 DEF Hand

LEMMA OpenTaskThreadKeeps == ASSUME IInv, OpenTaskThread PROVE IInv'
<1>1. /\ TypeOK /\ Batch /\ RowShapes /\ Seeds /\ Hand /\ Copies /\ gateway.step = "seeded"
      /\ UNCHANGED <<database, messages>>
  BY DEF IInv, OpenTaskThread, Working
<1>2. SameRows /\ SameMessages
  BY <1>1, UnchangedRows, UnchangedMessages DEF database
<1>3. gateway.batch # <<>> /\ AtPlace /\ HasFirst
  BY <1>1, Types DEF GatewayTypes, Hand, Posting
<1>4. /\ Current = 1 /\ gateway.first \in DOMAIN messages /\ gateway.first \in Held
      /\ messages[gateway.first].part = 0
  <2>1. Current = 1 /\ gateway.first # 0
    BY <1>1, <1>3 DEF AtPlace, HasFirst
  <2> QED BY <1>1, <1>3, <2>1 DEF HasFirst, Given, Held, Posting
<1>5. CASE ThreadsOf(gateway.first) # {}
  <2>1. PICK i \in ThreadsOf(gateway.first) : gateway' = Sending(i, 1, gateway.first)
    BY <1>5 DEF OpenTaskThread, Goes
  <2>2. places' = places
    BY <1>5 DEF OpenTaskThread
  <2>3. SamePlaces /\ PlaceTypes'
    BY <1>1, <1>2, <2>2, UnchangedPlaces, TypesStay
  <2>4. i \in 1..Len(places')
    BY <1>1, <2>2, Fields DEF ThreadsOf
  <2>5. Grows /\ GatewayTypes' /\ Batch' /\ Hand' /\ \A m \in Held' : m \in Held
    BY <1>1, <1>2, <2>1, <2>3, <2>4, OpenedHand
  <2>6. Seeds'
    BY <1>1, <2>2, <2>5, SeedsKept
  <2> QED BY <1>1, <2>3, <2>5, <2>6, PlacesKeep DEF Forgotten
<1>6. CASE ThreadsOf(gateway.first) = {}
  <2>1. PICK s \in Nat : s = gateway.first
    BY <1>1, <1>4, Fields
  <2>2. /\ places' = Append(places, [kind |-> "task", of |-> s])
        /\ gateway' = Failing \/ gateway' = Sending(Len(places) + 1, 1, gateway.first)
    BY <1>6, <2>1 DEF OpenTaskThread, Answered, Raise, Goes
  <2>3. /\ SamePlaces /\ PlaceTypes' /\ DOMAIN places' = DOMAIN places \cup {Len(places) + 1}
        /\ places'[Len(places) + 1].kind = "task" /\ places'[Len(places) + 1].of = s
        /\ Len(places) + 1 \in 1..Len(places')
    BY <1>1, <2>1, <2>2, NewPlace
  <2>4. Grows /\ GatewayTypes' /\ Batch' /\ Hand' /\ \A m \in Held' : m \in Held
    <3>1. CASE gateway' = Failing
      <4>1. Grows /\ GatewayTypes' /\ Through /\ Hand' /\ Held' = {}
        BY <1>1, <1>2, <2>3, <3>1, BetweenMoves
      <4> QED BY <1>1, <4>1, BatchKept
    <3>2. CASE gateway' = Sending(Len(places) + 1, 1, gateway.first)
      <4>1. PICK at \in 1..Len(places') : at = Len(places) + 1
        BY <2>3
      <4> QED BY <1>1, <1>2, <2>3, <3>2, <4>1, OpenedHand
    <3> QED BY <2>2, <3>1, <3>2
  <2>5. Seeds'
    <3>1. /\ s \in DOMAIN messages /\ messages[s].part = 0 /\ s \in Held /\ messages' = messages
      BY <1>1, <1>4, <2>1
    <3>2. \A i \in DOMAIN places : places'[i] = places[i]
      BY <2>3 DEF SamePlaces
    <3>3. ASSUME NEW i \in DOMAIN places, places[i].kind = "task"
          PROVE  \/ places[i].of < s
                 \/ \E d \in DOMAIN messages : messages[d].seen = "deleted" /\ messages[d].part = 0
      <4> DEFINE of == places[i].of
      <4>1. of \in DOMAIN messages /\ messages[of].part = 0 /\ of # s
        BY <1>6, <2>1, <3>3, <1>1 DEF Seeds, ThreadsOf
      <4>2. of \in Int /\ s \in Int
        BY <1>1, <2>1, <4>1, Fields
      <4> HIDE DEF of
      <4>3. CASE s < of
        <5>1. SamePart(messages[s], messages[of]) /\ messages[s].row = 1
          BY <1>1, <3>1, <4>1 DEF IInv, Posted, Genuine, SamePart
        <5>2. rows[1].kind # "project_status"
          BY <1>1, <1>3, <1>4, BatchFields DEF RowShapes
        <5>3. Removed(s) \/ Forgotten(s)
          BY <1>1, <3>1, <4>1, <4>3, <5>1, <5>2 DEF Copies
        <5>4. Removed(s)
          BY <3>1, <5>3 DEF Forgotten
        <5> QED BY <3>1, <5>4 DEF Removed, SamePart
      <4>4. CASE of < s
        BY <4>4 DEF of
      <4> QED BY <4>1, <4>2, <4>3, <4>4
    <3>4. Len(places) + 1 \notin DOMAIN places /\ \A i \in DOMAIN places : i \in Int
      BY <1>1, Fields
    <3>5. \A i \in DOMAIN places' : i \in DOMAIN places \/ i = Len(places) + 1
      BY <2>3
    <3>6. /\ Channel \in DOMAIN places'
          /\ \A i \in DOMAIN places' : places'[i].kind = "task" =>
                places'[i].of \in DOMAIN messages /\ messages[places'[i].of].part = 0
      BY <1>1, <2>3, <3>1, <3>2, <3>5 DEF Seeds
    <3>7. ASSUME NEW i \in DOMAIN places', NEW j \in DOMAIN places', i < j,
                 places'[i].kind = "task", places'[j].kind = "task"
          PROVE  \/ places'[i].of < places'[j].of
                 \/ \E d \in DOMAIN messages : messages[d].seen = "deleted" /\ messages[d].part = 0
      <4>1. CASE j \in DOMAIN places
        <5>1. i \in DOMAIN places
          BY <1>1, <2>3, <3>5, <3>7, <4>1, Fields
        <5> QED BY <1>1, <3>2, <3>7, <4>1, <5>1 DEF Seeds
      <4>2. CASE j = Len(places) + 1
        <5>1. i \in DOMAIN places
          BY <1>1, <3>5, <3>7, <4>2, Fields
        <5> QED BY <2>3, <3>2, <3>3, <3>7, <4>2, <5>1
      <4> QED BY <3>5, <4>1, <4>2
    <3> QED BY <3>1, <3>6, <3>7 DEF Seeds
  <2> QED BY <1>1, <2>3, <2>4, <2>5, PlacesKeep DEF Forgotten
<1> QED BY <1>5, <1>6

(* A part is done: its message is the first if there was none.              *)
LEMMA TheFirst ==
    ASSUME TypeOK, Batch, Hand, gateway.step = "strip"
    PROVE  /\ First # 0 /\ First \in Held /\ Given(Current, First)
           /\ messages[First].part = IF Current = 1 THEN 0 ELSE 1
           /\ messages[First].at = IF Current = 1 THEN Channel ELSE gateway.at
<1>1. AtPlace /\ HasFirst /\ HasMessage
  BY DEF Hand, Posting
<1>2. /\ Given(Current, gateway.message) /\ messages[gateway.message].at = gateway.at
      /\ messages[gateway.message].part = gateway.part
  BY <1>1 DEF HasMessage
<1>3. gateway.message \in DOMAIN messages /\ 0 \notin DOMAIN messages
  BY <1>2, Fields DEF Given
<1>4. CASE gateway.first = 0
  <2>1. First = gateway.message /\ gateway.part = IF Current = 1 THEN 0 ELSE 1
    BY <1>1, <1>4 DEF First, HasFirst
  <2>2. Current = 1 => gateway.at = Channel
    BY <1>1, <2>1 DEF AtPlace
  <2> QED BY <1>2, <1>3, <2>1, <2>2 DEF Held, Posting
<1>5. CASE gateway.first # 0
  <2>1. First = gateway.first
    BY <1>5 DEF First
  <2>2. gateway.first \in DOMAIN messages
    BY <1>1, <1>5 DEF HasFirst, Given
  <2> QED BY <1>1, <1>5, <2>1, <2>2 DEF HasFirst, Held, Posting
<1> QED BY <1>4, <1>5

LEMMA AfterHand ==
    ASSUME TypeOK, Batch, Hand, SameRows, SamePlaces, SameMessages, gateway.step = "strip",
           gateway' = AfterPart
    PROVE  /\ Grows /\ GatewayTypes' /\ Batch' /\ Hand'
           /\ \A m \in Held' : m \in Held
<1>1. AtPlace /\ HasFirst /\ HasParts /\ HasMessage /\ gateway.batch # <<>> /\ gateway.part \in 0..2
  BY Types DEF Hand, Posting, GatewayTypes
<1>2. PICK f : /\ f = First /\ f # 0 /\ f \in Held /\ Given(Current, f)
               /\ messages[f].part = IF Current = 1 THEN 0 ELSE 1
               /\ messages[f].at = IF Current = 1 THEN Channel ELSE gateway.at
  BY TheFirst
<1>3. PICK h : /\ h = gateway.message /\ Given(Current, h) /\ messages[h].at = gateway.at
               /\ messages[h].part = gateway.part
  BY <1>1 DEF HasMessage
<1>4. /\ f \in DOMAIN messages /\ h \in DOMAIN messages
      /\ f \in 0..Len(messages') /\ h \in 0..Len(messages') /\ 0 \in 0..Len(messages')
  <2>1. f \in DOMAIN messages /\ h \in DOMAIN messages
    BY <1>2, <1>3 DEF Given
  <2> QED BY <2>1, Fields DEF SameMessages
<1>5. gateway.at \in 0..Len(places') /\ gateway.at \in DOMAIN places
  BY <1>1, Fields DEF SamePlaces, Batch, AtPlace
<1>6. {"seeded", "send", "ack"} \subseteq Steps \ {"poll"}
  BY DEF Steps
<1>7. PICK c \in Rows : c = Current
  BY <1>1, BatchFields
<1>8. CASE gateway.part = 0
  <2>1. gateway' = Doing("seeded", gateway.at, 0, h, f) /\ 0 \in 0..2
    BY <1>2, <1>3, <1>8 DEF AfterPart
  <2>2. /\ Grows /\ GatewayTypes' /\ Through /\ Current' = Current
        /\ gateway'.step = "seeded" /\ gateway'.at = gateway.at /\ gateway'.part = 0
        /\ gateway'.message = h /\ gateway'.first = f
    BY <1>4, <1>5, <1>6, <2>1, DoingMoves
  <2>3. /\ Given(Current, f)' /\ messages'[f].part = messages[f].part
        /\ messages'[f].at = messages[f].at
    BY <1>1, <1>2, <2>2, GivenAtHand
  <2>4. AtPlace'
    BY <1>1, <1>5, <1>8, <2>2, AtPlaceStays DEF Grows
  <2>5. HasFirst'
    BY <1>2, <2>2, <2>3 DEF HasFirst, Given
  <2>6. HasParts'
    BY <2>2 DEF HasParts, Parts
  <2>7. \A m \in Held' : m \in Held
    BY <1>2, <2>2 DEF Held
  <2> QED BY <2>2, <2>4, <2>5, <2>6, <2>7, BatchKept DEF Hand
<1>9. gateway.part # 0 => gateway.part \in Parts(Current) /\ gateway.part \in 1..2
  BY <1>1 DEF AtPlace
<1>10. CASE gateway.part # 0 /\ gateway.part + 1 \in Parts(Current)
  <2>1. gateway' = Doing("send", gateway.at, gateway.part + 1, 0, f)
    BY <1>2, <1>10 DEF AfterPart, Sending
  <2>2. gateway.part = 1 /\ gateway.part + 1 \in 0..2
    BY <1>9, <1>10 DEF Parts
  <2>3. /\ Grows /\ GatewayTypes' /\ Through /\ Current' = Current
        /\ gateway'.step = "send" /\ gateway'.at = gateway.at /\ gateway'.part = gateway.part + 1
        /\ gateway'.message = 0 /\ gateway'.first = f
    BY <1>4, <1>5, <1>6, <2>1, <2>2, DoingMoves
  <2>4. /\ Given(Current, f)' /\ messages'[f].part = messages[f].part
        /\ messages'[f].at = messages[f].at
        /\ Given(Current, h)' /\ messages'[h].part = messages[h].part
        /\ messages'[h].at = messages[h].at
    BY <1>1, <1>2, <1>3, <2>3, GivenAtHand
  <2>5. AtPlace'
    <3>1. rows'[c].kind = rows[c].kind /\ places'[gateway.at] = places[gateway.at]
      BY <1>5 DEF SameRows, SamePlaces
    <3> QED BY <1>1, <1>7, <1>10, <2>2, <2>3, <3>1 DEF AtPlace, Parts
  <2>6. HasFirst'
    BY <1>2, <2>2, <2>3, <2>4 DEF HasFirst, Given
  <2>7. HasParts'
    <3> SUFFICES ASSUME NEW part \in Parts(Current), part < gateway.part + 1
                 PROVE  \E m \in DOMAIN messages' :
                            /\ Given(Current, m)' /\ messages'[m].part = part
                            /\ messages'[m].at = gateway.at
      BY <2>3 DEF HasParts, Parts
    <3>1. part = gateway.part
      BY <2>2 DEF Parts
    <3> QED BY <1>3, <1>4, <2>4, <3>1 DEF SameMessages
  <2>8. \A m \in Held' : m \in Held
    BY <1>2, <2>3 DEF Held
  <2> QED BY <2>3, <2>5, <2>6, <2>7, <2>8, BatchKept DEF Hand
<1>11. CASE gateway.part # 0 /\ gateway.part + 1 \notin Parts(Current)
  <2>1. gateway' = Doing("ack", gateway.at, gateway.part, h, f)
    BY <1>2, <1>3, <1>11 DEF AfterPart
  <2>2. /\ Grows /\ GatewayTypes' /\ Through /\ Current' = Current
        /\ gateway'.step = "ack" /\ gateway'.at = gateway.at /\ gateway'.part = gateway.part
        /\ gateway'.message = h /\ gateway'.first = f
    BY <1>1, <1>4, <1>5, <1>6, <2>1, DoingMoves
  <2>3. /\ Given(Current, f)' /\ messages'[f].part = messages[f].part
        /\ messages'[f].at = messages[f].at
    BY <1>1, <1>2, <2>2, GivenAtHand
  <2>4. AtPlace'
    BY <1>1, <1>5, <1>11, <2>2, AtPlaceStays DEF Grows
  <2>5. HasFirst'
    BY <1>2, <2>2, <2>3 DEF HasFirst, Given
  <2>6. HasParts'
    <3> SUFFICES ASSUME NEW part \in Parts(Current)
                 PROVE  \E m \in DOMAIN messages' :
                            /\ Given(Current, m)' /\ messages'[m].part = part
                            /\ messages'[m].at = gateway.at
      BY <2>2 DEF HasParts, Parts
    <3>1. part < gateway.part \/ part = gateway.part
      BY <1>9, <1>11 DEF Parts
    <3>2. PICK m : /\ Given(Current, m) /\ messages[m].part = part
                   /\ messages[m].at = gateway.at
      BY <1>1, <1>3, <3>1 DEF HasParts
    <3>3. /\ m \in DOMAIN messages' /\ Given(Current, m)' /\ messages'[m].part = messages[m].part
          /\ messages'[m].at = messages[m].at
      BY <1>1, <2>2, <3>2, GivenAtHand DEF SameMessages
    <3> QED BY <3>2, <3>3
  <2>7. \A m \in Held' : m \in Held
    BY <1>2, <2>2 DEF Held
  <2> QED BY <2>2, <2>4, <2>5, <2>6, <2>7, BatchKept DEF Hand
<1> QED BY <1>8, <1>10, <1>11

LEMMA CleanAlreadyKeeps == ASSUME IInv, CleanAlready PROVE IInv'
<1>1. /\ TypeOK /\ Batch /\ Hand /\ gateway.step = "strip" /\ gateway' = AfterPart
      /\ UNCHANGED <<database, discord>>
  BY DEF IInv, CleanAlready, Working, Goes
<1>2. SameRows /\ SamePlaces /\ SameMessages
  BY <1>1, UnchangedRows, UnchangedPlaces, UnchangedMessages DEF database, discord
<1>3. Grows /\ GatewayTypes' /\ Batch' /\ Hand' /\ \A m \in Held' : m \in Held
  BY <1>1, <1>2, AfterHand
<1> QED BY <1>1, <1>3, GatewayKeeps DEF Grows, Forgotten

(* A message is found for the part, or made.                                *)
LEMMA HavingHand ==
    ASSUME TypeOK, Batch, Hand, SameRows, SamePlaces, SameMessages, gateway.step = "send",
           NEW h \in 1..Len(messages'), gateway' = Having(h),
           Grows => /\ Given(Current, h)' /\ messages'[h].at = gateway.at
                    /\ messages'[h].part = gateway.part
    PROVE  /\ Grows /\ GatewayTypes' /\ Batch' /\ Hand' /\ Current' = Current
           /\ \A m \in Held' : m = h \/ m = gateway.first
<1>1. AtPlace /\ HasFirst /\ HasParts /\ gateway.batch # <<>> /\ gateway.part \in 0..2
  BY Types DEF Hand, Posting, GatewayTypes
<1>2. gateway' = Doing("receipt", gateway.at, gateway.part, h, gateway.first)
  BY DEF Having
<1>3. /\ gateway.at \in 0..Len(places') /\ gateway.first \in 0..Len(messages')
      /\ "receipt" \in Steps \ {"poll"} /\ h \in 0..Len(messages')
  <2>1. gateway.at \in 0..Len(places) /\ gateway.first \in 0..Len(messages)
    BY Types DEF Batch, GatewayTypes
  <2> QED BY <2>1, Fields DEF SamePlaces, SameMessages, Steps
<1>4. /\ Grows /\ GatewayTypes' /\ Through /\ Current' = Current
      /\ gateway'.step = "receipt" /\ gateway'.batch = gateway.batch /\ gateway'.at = gateway.at
      /\ gateway'.part = gateway.part /\ gateway'.message = h /\ gateway'.first = gateway.first
  BY <1>1, <1>2, <1>3, DoingMoves
<1>5. Batch'
  BY <1>4, BatchKept
<1>6. gateway.step \in Posting
  BY DEF Posting
<1>7. AtPlace' /\ HasFirst' /\ HasParts'
  BY <1>1, <1>4, <1>6, Carried
<1>8. HasMessage'
  BY <1>4 DEF HasMessage, Given
<1>9. Hand'
  BY <1>4, <1>7, <1>8 DEF Hand
<1>10. \A m \in Held' : m = h \/ m = gateway.first
  BY <1>4 DEF Held
<1> QED BY <1>4, <1>5, <1>9, <1>10

(* What send_chunked finds for a part bears it.                             *)
LEMMA FoundIsGiven ==
    ASSUME TypeOK, Posted, Named, NEW r \in Rows, NEW at, NEW part, NEW m \in Found(at, r, part)
    PROVE  /\ Given(r, m) /\ messages[m].at = at /\ messages[m].part = part
           /\ messages[m].seen = "recent" \/ \E key \in DOMAIN receipts : receipts[key] = m
<1>1. CASE m \in Recovered(at, r, part)
  <2>1. /\ m \in DOMAIN messages /\ messages[m].at = at /\ messages[m].shows = r
        /\ messages[m].part = part /\ messages[m].seen = "recent"
    BY <1>1 DEF Recovered
  <2> QED BY <2>1 DEF Posted, Genuine, Given
<1>2. CASE m \in Recorded(at, r, part)
  <2>1. <<at, r, part>> \in DOMAIN receipts /\ receipts[<<at, r, part>>] = m
    BY <1>2 DEF Recorded
  <2>2. Names(<<at, r, part>>)
    BY <2>1 DEF Named
  <2> QED BY <2>1, <2>2 DEF Names
<1> QED BY <1>1, <1>2 DEF Found

(* When nothing is found for a part, every copy of it was lost sight of
   before it was recorded, or was recorded and deleted.                     *)
LEMMA NothingFound ==
    ASSUME TypeOK, Posted, Named, NEW r \in Rows, NEW at, NEW part, Found(at, r, part) = {},
           NEW m \in DOMAIN messages, messages[m].at = at, messages[m].row = r,
           messages[m].part = part, messages[m].shows = r
    PROVE  LET key == <<at, r, part>> IN
           \/ messages[m].seen = "deleted"
           \/ key \in DOMAIN receipts /\ messages[receipts[key]].seen = "deleted"
           \/ messages[m].seen = "old" /\ messages[m].marked /\ key \notin DOMAIN receipts
<1> DEFINE key == <<at, r, part>>
<1>1. Recovered(at, r, part) = {} /\ Recorded(at, r, part) = {}
  BY DEF Found
<1>2. ~(messages[m].marked /\ messages[m].seen = "recent")
  BY <1>1 DEF Recovered
<1>3. key \in DOMAIN receipts => messages[receipts[key]].seen = "deleted"
  <2> SUFFICES ASSUME key \in DOMAIN receipts PROVE messages[receipts[key]].seen = "deleted"
    OBVIOUS
  <2>1. receipts[key] \in DOMAIN messages
    BY Types DEF ReceiptTypes
  <2> QED BY <1>1, <2>1 DEF Recorded
<1>4. ~messages[m].marked => key \in DOMAIN receipts
  BY DEF Posted, Genuine
<1>5. messages[m].marked \in BOOLEAN /\ messages[m].seen \in {"recent", "old", "deleted"}
  BY MessageFields
<1> QED BY <1>2, <1>3, <1>4, <1>5

(* A copy of a part that is no status shows its row.                        *)
LEMMA ShowsItself ==
    ASSUME TypeOK, Posted, NEW m \in DOMAIN messages,
           rows[messages[m].row].kind # "project_status" \/ ~Past(messages[m].row)
    PROVE  messages[m].shows = messages[m].row
BY DEF Posted, Genuine, Statused

LEMMA AtSend ==
    ASSUME IInv, gateway.step = "send"
    PROVE  /\ TypeOK /\ RowShapes /\ Batch /\ Posted /\ Named /\ Known /\ Hand /\ Copies /\ Seeds
           /\ gateway.batch # <<>> /\ AtPlace /\ HasFirst
           /\ Current \in Rows /\ gateway.at \in 1..Len(places) /\ gateway.part \in 0..2
           /\ ~Past(Current)
<1>1. TypeOK /\ RowShapes /\ Batch /\ Posted /\ Named /\ Known /\ Hand /\ Copies /\ Seeds
  BY DEF IInv
<1>2. gateway.batch # <<>> /\ AtPlace /\ HasFirst /\ gateway.part \in 0..2
  BY <1>1, Types DEF Hand, Posting, GatewayTypes
<1>3. gateway.at \in 1..Len(places)
  BY <1>1, <1>2, Fields DEF Batch, AtPlace
<1>4. Current \in Rows /\ 1 \in DOMAIN gateway.batch /\ gateway.batch[1].row = Current
  BY <1>1, <1>2, BatchFields
<1>5. ~Past(Current)
  BY <1>4 DEF Past
<1> QED BY <1>1, <1>2, <1>3, <1>4, <1>5

LEMMA FindsKeep ==
    ASSUME IInv, SendPart, Found(gateway.at, Current, gateway.part) # {}
    PROVE  IInv'
<1>1. /\ gateway.step = "send" /\ UNCHANGED <<database, discord>>
      /\ \E m \in Found(gateway.at, Current, gateway.part) : gateway' = Having(m)
  BY DEF SendPart, Working, Goes, Eldest, discord
<1>2. PICK h \in Found(gateway.at, Current, gateway.part) : gateway' = Having(h)
  BY <1>1
<1>3. TypeOK /\ Batch /\ Posted /\ Named /\ Hand /\ Current \in Rows /\ gateway.batch # <<>>
  BY <1>1, AtSend
<1>4. SameRows /\ SamePlaces /\ SameMessages
  BY <1>1, <1>3, UnchangedRows, UnchangedPlaces, UnchangedMessages DEF database, discord
<1>5. PICK r, at, part : r \in Rows /\ r = Current /\ at = gateway.at /\ part = gateway.part
  BY <1>3
<1>6. /\ Given(Current, h) /\ messages[h].at = gateway.at /\ messages[h].part = gateway.part
      /\ messages[h].seen = "recent" \/ \E key \in DOMAIN receipts : receipts[key] = h
  BY <1>2, <1>3, <1>5, FoundIsGiven
<1>7. messages' = messages /\ h \in 1..Len(messages')
  BY <1>1, <1>3, <1>6, Fields DEF Given, discord
<1>8. Grows => (Given(Current, h)' /\ messages'[h].at = gateway.at
                                  /\ messages'[h].part = gateway.part)
  <2>1. Current' = Current
    BY <1>2 DEF Current, Having, Doing
  <2> QED BY <1>3, <1>6, <1>7, <2>1, GivenAtHand
<1>9. /\ Grows /\ GatewayTypes' /\ Batch' /\ Hand'
      /\ \A m \in Held' : m = h \/ m = gateway.first
  BY <1>1, <1>2, <1>3, <1>4, <1>7, <1>8, HavingHand
<1>10. ~Forgotten(h)
  BY <1>6 DEF Forgotten
<1>11. ASSUME NEW m \in DOMAIN messages, Forgotten(m) PROVE m # gateway.first
  BY <1>1, <1>11 DEF Forgotten, Held, Posting
<1> QED BY <1>1, <1>9, <1>10, <1>11, GatewayKeeps DEF Grows

LEMMA NewMessage ==
    ASSUME TypeOK, NEW r \in Rows, NEW at \in 1..Len(places), NEW part \in 0..2,
           UNCHANGED <<rows, places>>,
           messages' = Append(messages, [at |-> at, row |-> r, part |-> part, shows |-> r,
                                         marked |-> TRUE, seen |-> "recent"])
    PROVE  /\ SameMessages /\ MessageTypes' /\ Len(messages') = Len(messages) + 1
           /\ DOMAIN messages' = DOMAIN messages \cup {Len(messages) + 1}
           /\ Len(messages) + 1 \in 1..Len(messages') /\ Len(messages) + 1 \notin DOMAIN messages
           /\ \A m \in DOMAIN messages : messages'[m] = messages[m] /\ m < Len(messages) + 1
           /\ messages'[Len(messages) + 1].at = at /\ messages'[Len(messages) + 1].row = r
           /\ messages'[Len(messages) + 1].part = part /\ messages'[Len(messages) + 1].shows = r
           /\ messages'[Len(messages) + 1].marked = TRUE
           /\ messages'[Len(messages) + 1].seen = "recent"
<1> DEFINE R == MessageRecords(Len(places), Len(rows))
           new == [at |-> at, row |-> r, part |-> part, shows |-> r,
                   marked |-> TRUE, seen |-> "recent"]
<1>1. /\ new \in R /\ new.at = at /\ new.row = r /\ new.part = part /\ new.shows = r
      /\ new.marked = TRUE /\ new.seen = "recent"
  BY DEF MessageRecords, Rows
<1>2. /\ Len(messages) \in Nat /\ DOMAIN messages = 1..Len(messages) /\ messages \in Seq(R)
      /\ messages' = Append(messages, new)
  BY Fields, Types DEF MessageTypes
<1> HIDE DEF new, R
<1>3. /\ messages' \in Seq(R) /\ Len(messages') = Len(messages) + 1
      /\ \A m \in 1..Len(messages) : messages'[m] = messages[m]
      /\ messages'[Len(messages) + 1] = new
  BY <1>1, <1>2, AppendProperties
<1>4. DOMAIN messages' = 1..Len(messages) + 1
  BY <1>3, LenProperties
<1>5. MessageTypes'
  BY <1>3 DEF MessageTypes, R
<1>6. SameMessages
  BY <1>2, <1>3, <1>4 DEF SameMessages
<1> QED BY <1>1, <1>2, <1>3, <1>4, <1>5, <1>6

LEMMA PostsKeep ==
    ASSUME IInv, SendPart, Found(gateway.at, Current, gateway.part) = {}
    PROVE  IInv'
<1>1. gateway.step = "send" /\ UNCHANGED <<database, places>>
  BY DEF SendPart, Working
<1>2. /\ TypeOK /\ RowShapes /\ Batch /\ Posted /\ Named /\ Known /\ Hand /\ Copies /\ Seeds
      /\ gateway.batch # <<>> /\ AtPlace /\ HasFirst
      /\ Current \in Rows /\ gateway.at \in 1..Len(places) /\ gateway.part \in 0..2
      /\ ~Past(Current)
  BY <1>1, AtSend
<1>3. /\ rows' = rows /\ UNCHANGED <<thread, topic, projected, lost>> /\ projected' = projected
      /\ receipts' = receipts /\ places' = places
  BY <1>1 DEF database
<1>4. PICK c \in Rows, at \in 1..Len(places), part \in 0..2 :
         c = Current /\ at = gateway.at /\ part = gateway.part
  BY <1>2
<1>5. PICK new : new = Len(messages) + 1
  OBVIOUS
<1>6. /\ messages' = Append(messages, [at |-> at, row |-> c, part |-> part, shows |-> c,
                                       marked |-> TRUE, seen |-> "recent"])
      /\ gateway' = Failing \/ gateway' = Having(new)
  BY <1>4, <1>5 DEF SendPart, Answered, Raise, Goes
<1>7. /\ SameMessages /\ MessageTypes' /\ DOMAIN messages' = DOMAIN messages \cup {new}
      /\ new \in 1..Len(messages') /\ new \notin DOMAIN messages
      /\ \A m \in DOMAIN messages : messages'[m] = messages[m] /\ m < new
      /\ messages'[new].at = at /\ messages'[new].row = c
      /\ messages'[new].part = part /\ messages'[new].shows = c
      /\ messages'[new].marked = TRUE /\ messages'[new].seen = "recent"
  BY <1>2, <1>3, <1>5, <1>6, NewMessage
<1>8. SameRows /\ SamePlaces
  BY <1>2, <1>3, UnchangedRows, UnchangedPlaces
<1>9. /\ Grows /\ GatewayTypes' /\ Batch' /\ Hand'
      /\ \A m \in Held' : m = new \/ m = gateway.first
  <2>1. CASE gateway' = Failing
    <3>1. Grows /\ GatewayTypes' /\ Through /\ Hand' /\ Held' = {}
      BY <1>1, <1>2, <1>7, <1>8, <2>1, BetweenMoves
    <3> QED BY <1>2, <3>1, BatchKept
  <2>2. CASE gateway' = Having(new)
    <3>1. Current' = Current
      BY <2>2 DEF Current, Having, Doing
    <3>2. /\ Given(Current, new)' /\ messages'[new].at = gateway.at
          /\ messages'[new].part = gateway.part
      BY <1>4, <1>7, <3>1 DEF Given
    <3> QED BY <1>1, <1>2, <1>7, <1>8, <2>2, <3>2, HavingHand
  <2> QED BY <1>6, <2>1, <2>2
<1>10. TypeOK'
  <2>1. RowTypes' /\ PlaceTypes' /\ TaskTypes' /\ ReceiptTypes'
    BY <1>2, <1>3, <1>7, <1>8, TypesStay
  <2> QED BY <1>7, <1>9, <2>1, Typed
<1>11. RowShapes'
  BY <1>2, <1>3, ShapesStay
<1>12. Posted'
  <2>1. Genuine(new)'
    <3>1. part = 0 => c = 1 /\ at = Channel
      BY <1>2, <1>4 DEF AtPlace
    <3> QED BY <1>7, <3>1 DEF Genuine
  <2>2. \A m \in DOMAIN messages' :
           (m \in DOMAIN messages /\ messages'[m] = messages[m]) \/ m = new
    BY <1>7
  <2> QED BY <1>2, <1>3, <1>9, <2>1, <2>2, PostedKept
<1>13. Named' /\ Known'
  BY <1>2, <1>3, <1>9, NamedKept, KnownKept
<1>14. Seeds'
  BY <1>2, <1>3, <1>9, SeedsKept
<1>15. \A m \in DOMAIN messages : Removed(m) => Removed(m)'
  BY <1>7 DEF Removed, SamePart
<1>16. ASSUME NEW m \in DOMAIN messages, Forgotten(m) PROVE Forgotten(m)'
  <2>1. m # new /\ m # gateway.first
    BY <1>1, <1>7, <1>16 DEF Forgotten, Held, Posting
  <2> QED BY <1>3, <1>7, <1>9, <1>16, <2>1 DEF Forgotten
<1>17. Copies'
  <2> SUFFICES ASSUME NEW i \in DOMAIN messages', NEW j \in DOMAIN messages', i < j,
                      SamePart(messages[i], messages[j])',
                      rows[messages'[i].row].kind # "project_status"
               PROVE  Removed(i)' \/ Forgotten(i)'
    BY <1>3 DEF Copies
  <2>1. \A m \in DOMAIN messages : m \in Int /\ new \in Int
    BY <1>2, <1>5, Fields
  <2>2. i \in DOMAIN messages /\ messages'[i] = messages[i]
    BY <1>2, <1>5, <1>7, <2>1, Fields
  <2>3. CASE j \in DOMAIN messages
    <3>1. SamePart(messages[i], messages[j])
      BY <1>7, <2>2, <2>3 DEF SamePart
    <3> QED BY <1>2, <1>15, <1>16, <2>2, <2>3, <3>1 DEF Copies
  <2>4. CASE j = new
    <3>1. messages[i].at = at /\ messages[i].row = c /\ messages[i].part = part
      BY <1>7, <2>2, <2>4 DEF SamePart
    <3>2. messages[i].shows = c
      BY <1>2, <2>2, <3>1, ShowsItself
    <3>3. \/ messages[i].seen = "deleted"
          \/ <<at, c, part>> \in DOMAIN receipts /\ messages[receipts[<<at, c, part>>]].seen = "deleted"
          \/ messages[i].seen = "old" /\ messages[i].marked /\ <<at, c, part>> \notin DOMAIN receipts
      BY <1>2, <1>4, <2>2, <3>1, <3>2, NothingFound
    <3>4. CASE messages[i].seen = "deleted"
      BY <2>2, <3>4, <1>15 DEF Removed, SamePart
    <3>5. CASE <<at, c, part>> \in DOMAIN receipts /\ messages[receipts[<<at, c, part>>]].seen = "deleted"
      <4>1. PICK d : d = receipts[<<at, c, part>>]
        OBVIOUS
      <4>2. Given(c, d) /\ messages[d].at = at /\ messages[d].part = part
        BY <1>2, <3>5, <4>1 DEF Named, Names
      <4>3. rows[c].kind # "project_status"
        BY <2>2, <3>1
      <4>4. d \in DOMAIN messages /\ messages[d].row = c
        BY <4>2, <4>3 DEF Given, Short
      <4>5. Removed(i)
        BY <3>1, <3>5, <4>1, <4>2, <4>4 DEF Removed, SamePart
      <4> QED BY <1>15, <2>2, <4>5
    <3>6. CASE messages[i].seen = "old" /\ messages[i].marked /\ <<at, c, part>> \notin DOMAIN receipts
      <4>1. ASSUME NEW key \in DOMAIN receipts PROVE receipts[key] # i
        <5> SUFFICES ASSUME receipts[key] = i PROVE FALSE
          OBVIOUS
        <5>1. Given(key[2], i) /\ key[1] = at /\ key[3] = part
          BY <1>2, <3>1 DEF Named, Names
        <5>2. key[2] = c
          BY <2>2, <3>1, <5>1 DEF Given, Statused
        <5>3. key = <<at, c, part>>
          BY <1>2, <5>1, <5>2, Types DEF ReceiptTypes
        <5> QED BY <3>6, <5>3
      <4>2. i # gateway.first
        <5>1. gateway.first # 0 => messages[gateway.first].part < gateway.part
          BY <1>1, <1>2 DEF HasFirst
        <5>2. i # 0
          BY <1>2, <2>2, Fields
        <5>3. messages[i].part = gateway.part /\ gateway.part \in Int
          BY <1>2, <1>4, <3>1
        <5> QED BY <5>1, <5>2, <5>3
      <4>3. i # new
        BY <1>7, <2>2
      <4> QED BY <1>3, <1>9, <2>2, <3>6, <4>1, <4>2, <4>3 DEF Forgotten
    <3> QED BY <3>3, <3>4, <3>5, <3>6
  <2> QED BY <1>7, <2>3, <2>4
<1> QED BY <1>9, <1>10, <1>11, <1>12, <1>13, <1>14, <1>17 DEF IInv

-----------------------------------------------------------------------------
(* Receipts, markers and status messages                                   *)

LEMMA SaveReceiptKeeps == ASSUME IInv, SaveReceipt PROVE IInv'
<1> DEFINE now == <<gateway.at, Current, gateway.part>>
<1>1. /\ gateway.step = "receipt" /\ UNCHANGED <<rows, thread, topic, projected, lost, discord>>
      /\ receipts' = [key \in DOMAIN receipts \cup {now} |->
                         IF key = now THEN gateway.message ELSE receipts[key]]
      /\ \/ gateway' = Failing
         \/ gateway' = Doing("strip", gateway.at, gateway.part, gateway.message, gateway.first)
  BY DEF SaveReceipt, Working, Answered, Raise, Goes
<1>2. /\ TypeOK /\ RowShapes /\ Batch /\ Posted /\ Named /\ Known /\ Hand /\ Copies /\ Seeds
  BY DEF IInv
<1>3. /\ gateway.batch # <<>> /\ AtPlace /\ HasFirst /\ HasParts /\ HasMessage
      /\ gateway.part \in 0..2 /\ gateway.at \in 1..Len(places) /\ Current \in Rows
      /\ gateway.step \in Posting
  <2>1. gateway.batch # <<>> /\ gateway.part \in 0..2 /\ gateway.step \in Posting
    BY <1>1, <1>2, Types DEF GatewayTypes, Posting
  <2>2. AtPlace /\ HasFirst /\ HasParts /\ HasMessage
    BY <1>1, <1>2, <2>1 DEF Hand
  <2> QED BY <1>2, <2>1, <2>2, BatchFields, Fields DEF AtPlace, Batch
<1>4. PICK c \in Rows, at \in 1..Len(places), part \in 0..2, h \in DOMAIN messages :
         /\ c = Current /\ at = gateway.at /\ part = gateway.part /\ h = gateway.message
         /\ Given(c, h) /\ messages[h].at = at /\ messages[h].part = part
  BY <1>3 DEF HasMessage, Given
<1>5. /\ DOMAIN receipts' = DOMAIN receipts \cup {<<at, c, part>>}
      /\ receipts'[<<at, c, part>>] = h
      /\ \A key \in DOMAIN receipts : key # <<at, c, part>> => receipts'[key] = receipts[key]
  BY <1>1, <1>4
<1>6. rows' = rows /\ places' = places /\ messages' = messages /\ projected' = projected
      /\ UNCHANGED <<thread, topic, projected, lost>>
  BY <1>1 DEF discord
<1>7. SameRows /\ SamePlaces /\ SameMessages
  BY <1>2, <1>6, UnchangedRows, UnchangedPlaces, UnchangedMessages
<1>8. /\ Grows /\ GatewayTypes' /\ Through
      /\ \A m \in Held' : m \in Held
      /\ Hand'
  <2>1. CASE gateway' = Failing
    BY <1>1, <1>2, <1>7, <2>1, BetweenMoves
  <2>2. CASE gateway' = Doing("strip", gateway.at, gateway.part, gateway.message, gateway.first)
    <3>1. PICK first \in 0..Len(messages') : first = gateway.first
      BY <1>2, <1>6, Types DEF GatewayTypes
    <3>2. /\ gateway' = Doing("strip", at, part, h, first) /\ "strip" \in Steps \ {"poll"}
          /\ at \in 0..Len(places') /\ h \in 0..Len(messages')
      BY <1>2, <1>4, <1>6, <2>2, <3>1, Fields DEF Steps
    <3>3. /\ Grows /\ GatewayTypes' /\ Through /\ Current' = Current
          /\ gateway'.step = "strip" /\ gateway'.batch = gateway.batch /\ gateway'.at = gateway.at
          /\ gateway'.part = gateway.part /\ gateway'.message = gateway.message
          /\ gateway'.first = gateway.first
      BY <1>1, <1>2, <1>4, <1>7, <3>1, <3>2, DoingMoves
    <3>4. AtPlace' /\ HasFirst' /\ HasParts'
      BY <1>1, <1>2, <1>3, <3>3, Carried
    <3>5. HasMessage'
      BY <1>2, <1>3, <3>3, HasMessageStays
    <3>6. HasReceipt'
      BY <1>4, <1>5, <3>3 DEF HasReceipt
    <3>7. Hand'
      BY <3>4, <3>5, <3>6 DEF Hand
    <3>8. \A m \in Held' : m \in Held
      BY <1>1, <1>3, <1>6, <3>3 DEF Held
    <3> QED BY <3>3, <3>7, <3>8
  <2> QED BY <1>1, <2>1, <2>2
<1>9. Batch'
  BY <1>2, <1>8, BatchKept
<1>10. TypeOK'
  <2>1. RowTypes' /\ PlaceTypes' /\ MessageTypes' /\ TaskTypes'
    BY <1>2, <1>6, <1>7, TypesStay
  <2>2. ReceiptTypes'
    <3>1. /\ DOMAIN receipts \subseteq (DOMAIN places) \X Rows \X (0..2)
          /\ \A key \in DOMAIN receipts : receipts[key] \in DOMAIN messages
      BY <1>2, Types DEF ReceiptTypes
    <3>2. <<at, c, part>> \in (DOMAIN places) \X Rows \X (0..2)
      BY <1>2, Fields
    <3> QED BY <1>4, <1>5, <1>6, <3>1, <3>2 DEF ReceiptTypes, Rows
  <2> QED BY <1>8, <2>1, <2>2, Typed
<1>11. RowShapes'
  BY <1>2, <1>6, ShapesStay
<1>12. Posted'
  BY <1>2, <1>5, <1>6, <1>8, PostedKept
<1>13. Named'
  <2>1. Names(<<at, c, part>>)'
    <3>1. Given(c, h)' /\ messages'[h].at = at /\ messages'[h].part = part
      BY <1>2, <1>4, <1>6, <1>8, GivenStays
    <3> QED BY <1>5, <3>1 DEF Names, Given
  <2>2. \A key \in DOMAIN receipts' : \/ key \in DOMAIN receipts /\ receipts'[key] = receipts[key]
                                      \/ key = <<at, c, part>>
    BY <1>5
  <2> QED BY <1>2, <1>8, <2>1, <2>2, NamedKept
<1>14. Known' /\ Seeds'
  BY <1>2, <1>6, <1>8, KnownKept, SeedsKept
<1>15. Copies'
  <2>1. ASSUME NEW m \in DOMAIN messages, Forgotten(m) PROVE Forgotten(m)'
    <3>1. m # h /\ m \notin Held'
      BY <1>1, <1>3, <1>4, <1>8, <2>1 DEF Forgotten, Held
    <3> QED BY <1>5, <1>6, <2>1, <3>1 DEF Forgotten
  <2> QED BY <1>2, <1>6, <1>8, <2>1, CopiesKept
<1> QED BY <1>8, <1>9, <1>10, <1>11, <1>12, <1>13, <1>14, <1>15 DEF IInv

(* What becomes of a message: its marker goes, or people see to it.         *)
LEMMA MessageKeeps ==
    ASSUME IInv, UNCHANGED <<database, places>>, MessageTypes', Grows,
           GatewayTypes', Batch', Posted', Hand', DOMAIN messages' = DOMAIN messages,
           \A m \in DOMAIN messages :
              rows[messages[m].row].kind # "project_status" /\ Forgotten(m) =>
                  Forgotten(m)' \/ messages'[m].seen = "deleted"
    PROVE  IInv'
<1>1. TypeOK /\ RowShapes /\ Named /\ Known /\ Copies /\ Seeds
  BY DEF IInv
<1>2. /\ rows' = rows /\ UNCHANGED <<thread, topic, projected, lost>> /\ projected' = projected
      /\ receipts' = receipts /\ places' = places
  BY DEF database
<1>3. TypeOK'
  <2>1. RowTypes' /\ PlaceTypes' /\ TaskTypes' /\ ReceiptTypes'
    BY <1>1, <1>2, TypesStay DEF Grows
  <2> QED BY <2>1, Typed
<1>4. RowShapes'
  BY <1>1, <1>2, ShapesStay
<1>5. Named'
  BY <1>1, <1>2, NamedKept
<1>6. Known'
  BY <1>1, <1>2, KnownKept
<1>7. Copies'
  BY <1>1, CopiesKept
<1>8. Seeds'
  BY <1>1, <1>2, SeedsKept
<1> QED BY <1>3, <1>4, <1>5, <1>6, <1>7, <1>8 DEF IInv

(* A message is edited or moved.                                            *)
LEMMA ChangedMessage ==
    ASSUME TypeOK, UNCHANGED <<rows, places>>, NEW h \in DOMAIN messages,
           NEW t \in MessageRecords(Len(places), Len(rows)), messages' = [messages EXCEPT ![h] = t],
           t.at = messages[h].at, t.row = messages[h].row, t.part = messages[h].part,
           messages[h].seen = "deleted" => t.seen = "deleted"
    PROVE  /\ SameMessages /\ MessageTypes' /\ DOMAIN messages' = DOMAIN messages
           /\ messages'[h] = t /\ Len(messages') = Len(messages)
           /\ \A m \in DOMAIN messages : m # h => messages'[m] = messages[m]
<1>1. /\ Len(messages) \in Nat /\ DOMAIN messages = 1..Len(messages)
      /\ messages \in Seq(MessageRecords(Len(places), Len(rows)))
  BY Fields, Types DEF MessageTypes
<1>2. /\ messages' \in Seq(MessageRecords(Len(places), Len(rows)))
      /\ Len(messages') = Len(messages)
      /\ \A m \in 1..Len(messages) : messages'[m] = IF m = h THEN t ELSE messages[m]
  BY <1>1, ExceptSeq
<1>3. DOMAIN messages' = DOMAIN messages
  OBVIOUS
<1>4. MessageTypes'
  BY <1>2 DEF MessageTypes
<1>5. SameMessages
  BY <1>1, <1>2, <1>3 DEF SameMessages
<1> QED BY <1>1, <1>2, <1>3, <1>4, <1>5

LEMMA StripMarkerKeeps == ASSUME IInv, StripMarker PROVE IInv'
<1>1. /\ TypeOK /\ Batch /\ Posted /\ Hand /\ gateway.step = "strip"
      /\ UNCHANGED <<database, places>> /\ BearsMarker(gateway.message)
      /\ messages' = [messages EXCEPT ![gateway.message].marked = FALSE]
      /\ gateway' = Failing \/ gateway' = AfterPart
  BY DEF IInv, StripMarker, Working, Answered, Raise, Goes
<1>2. /\ HasMessage /\ HasReceipt /\ gateway.message \in DOMAIN messages
  BY <1>1 DEF Hand, HasMessage, Given
<1>3. PICK h \in DOMAIN messages :
         /\ h = gateway.message /\ messages[h].at = gateway.at /\ messages[h].part = gateway.part
         /\ messages[h].shows = Current
         /\ <<messages[h].at, messages[h].shows, messages[h].part>> \in DOMAIN receipts
  BY <1>1, <1>2 DEF BearsMarker, HasMessage, HasReceipt
<1> DEFINE t == [messages[h] EXCEPT !.marked = FALSE]
<1>4. /\ t \in MessageRecords(Len(places), Len(rows)) /\ t.at = messages[h].at
      /\ t.row = messages[h].row /\ t.part = messages[h].part /\ t.shows = messages[h].shows
      /\ t.seen = messages[h].seen
  BY <1>1, Fields DEF MessageRecords
<1>5. messages' = [messages EXCEPT ![h] = t]
  BY <1>1, <1>3
<1> HIDE DEF t
<1>6. rows' = rows /\ places' = places /\ receipts' = receipts
  BY <1>1 DEF database
<1>7. /\ SameMessages /\ MessageTypes' /\ DOMAIN messages' = DOMAIN messages /\ messages'[h] = t
      /\ \A m \in DOMAIN messages : m # h => messages'[m] = messages[m]
  BY <1>1, <1>4, <1>5, <1>6, ChangedMessage
<1>8. SameRows /\ SamePlaces
  BY <1>1, <1>6, UnchangedRows, UnchangedPlaces
<1>9. Grows /\ GatewayTypes' /\ Batch' /\ Hand' /\ \A m \in Held' : m \in Held
  <2>1. CASE gateway' = Failing
    <3>1. Grows /\ GatewayTypes' /\ Through /\ Hand' /\ Held' = {}
      BY <1>1, <1>7, <1>8, <2>1, BetweenMoves
    <3> QED BY <1>1, <3>1, BatchKept
  <2>2. CASE gateway' = AfterPart
    BY <1>1, <1>7, <1>8, <2>2, AfterHand
  <2> QED BY <1>1, <2>1, <2>2
<1>10. Posted'
  <2>1. Genuine(h)'
    <3>1. Genuine(h) /\ messages[h].shows \in Rows
      BY <1>1, MessageFields DEF Posted
    <3>2. PICK r \in Rows : r = messages[h].shows /\ (Short(r) => Short(r)')
      BY <1>1, <1>9, <3>1, GivenStays
    <3>3. Statused(h) => Statused(h)'
      BY <1>1, <1>9, GivenStays
    <3>4. /\ messages'[h].at = messages[h].at /\ messages'[h].row = messages[h].row
          /\ messages'[h].part = messages[h].part /\ messages'[h].shows = messages[h].shows
      BY <1>4, <1>7
    <3> QED BY <1>3, <1>6, <3>1, <3>2, <3>3, <3>4 DEF Genuine, Short
  <2> QED BY <1>1, <1>6, <1>7, <1>9, <2>1, PostedKept
<1>11. ASSUME NEW m \in DOMAIN messages, Forgotten(m) PROVE Forgotten(m)'
  <2>1. m # h /\ m \notin Held'
    BY <1>1, <1>3, <1>9, <1>11 DEF Forgotten, Held, Posting
  <2> QED BY <1>6, <1>7, <1>11, <2>1 DEF Forgotten
<1> QED BY <1>1, <1>7, <1>9, <1>10, <1>11, MessageKeeps

LEMMA MovedKeeps == ASSUME IInv, NEW h \in DOMAIN messages, Scrolls(h) \/ Deleted(h) PROVE IInv'
<1>1. /\ TypeOK /\ Batch /\ Posted /\ Hand
      /\ UNCHANGED <<database, places, gateway>>
  BY DEF IInv, Scrolls, Deleted, Moved
<1>2. PICK where \in {"old", "deleted"} :
         /\ messages' = [messages EXCEPT ![h].seen = where]
         /\ where = "old" => messages[h].seen = "recent"
  BY DEF Scrolls, Deleted, Moved
<1> DEFINE t == [messages[h] EXCEPT !.seen = where]
<1>3. /\ t \in MessageRecords(Len(places), Len(rows)) /\ t.at = messages[h].at
      /\ t.row = messages[h].row /\ t.part = messages[h].part /\ t.shows = messages[h].shows
      /\ t.marked = messages[h].marked /\ t.seen = where
  BY <1>1, Fields DEF MessageRecords
<1>4. messages' = [messages EXCEPT ![h] = t]
  BY <1>2
<1> HIDE DEF t
<1>5. rows' = rows /\ places' = places /\ receipts' = receipts /\ gateway' = gateway
  BY <1>1 DEF database
<1>6. messages[h].seen = "deleted" => t.seen = "deleted"
  BY <1>2, <1>3
<1>7. /\ SameMessages /\ MessageTypes' /\ DOMAIN messages' = DOMAIN messages /\ messages'[h] = t
      /\ Len(messages') = Len(messages)
      /\ \A m \in DOMAIN messages : m # h => messages'[m] = messages[m]
  BY <1>1, <1>3, <1>4, <1>5, <1>6, ChangedMessage
<1>8. SameRows /\ SamePlaces
  BY <1>1, <1>5, UnchangedRows, UnchangedPlaces
<1>9. Grows /\ Through /\ SameReceipts
  BY <1>1, <1>5, <1>7, <1>8, PastStays DEF Grows, Through, Batch, SameReceipts
<1>10. Batch' /\ Hand'
  BY <1>1, <1>5, <1>9, BatchKept, HandKept
<1>11. GatewayTypes'
  BY <1>1, <1>5, <1>7, <1>8, TypesStay
<1>12. Posted'
  BY <1>1, <1>3, <1>5, <1>7, <1>9, PostedKept
<1>13. ASSUME NEW m \in DOMAIN messages, Forgotten(m)
       PROVE  Forgotten(m)' \/ messages'[m].seen = "deleted"
  <2>1. CASE m = h
    BY <1>2, <1>3, <1>7, <1>13, <2>1 DEF Forgotten
  <2>2. CASE m # h
    <3>1. Held' = Held
      BY <1>5, <1>7 DEF Held
    <3> QED BY <1>5, <1>7, <1>13, <2>2, <3>1 DEF Forgotten
  <2> QED BY <2>1, <2>2
<1> QED BY <1>1, <1>7, <1>9, <1>10, <1>11, <1>12, <1>13, MessageKeeps

LEMMA EditStatusKeeps == ASSUME IInv, EditStatus PROVE IInv'
<1>1. /\ TypeOK /\ Batch /\ RowShapes /\ Posted /\ Named /\ Seeds /\ gateway.step = "item"
      /\ UNCHANGED <<database, places>> /\ rows[Current].kind = "project_status"
  BY DEF IInv, EditStatus, Working
<1>2. PICK h : h = Head(gateway.batch).status
  OBVIOUS
<1>3. /\ gateway.batch # <<>> /\ Current \in Rows /\ Current # 1 /\ Channel \in 1..Len(places)
      /\ Head(gateway.batch) = gateway.batch[1] /\ 1 \in DOMAIN gateway.batch
  BY <1>1, AtItem, BatchFields
<1>4. /\ h # 0 /\ Statused(h) /\ h \in DOMAIN messages
      /\ Short(Current) /\ Parts(Current) = {1}
  <2>1. Overwrites
    BY DEF EditStatus
  <2>2. h # 0 /\ Statused(h)
    BY <1>2, <1>3, <2>1, <1>1 DEF Overwrites, Batch
  <2>3. Parts(Current) = {1} /\ ~rows[Current].fresh
    BY <2>1 DEF Overwrites
  <2>4. Current \notin Long
    BY <2>3 DEF Parts
  <2> QED BY <1>1, <2>2, <2>3, <2>4 DEF Short, Statused
<1>5. /\ messages' = [messages EXCEPT ![h].shows = Current, ![h].marked = TRUE]
      /\ \E known \in {h} \cup Recovered(Channel, Current, 1) :
            gateway' = Failing \/ gateway' = Doing("receipt", Channel, 1, known, h)
  BY <1>2 DEF EditStatus, Answered, Raise, Goes, Eldest
<1>6. PICK known \in {h} \cup Recovered(Channel, Current, 1) :
         gateway' = Failing \/ gateway' = Doing("receipt", Channel, 1, known, h)
  BY <1>5
<1>7. PICK c \in Rows : c = Current
  BY <1>3
<1> DEFINE u == [messages[h] EXCEPT !.shows = c]
           t == [u EXCEPT !.marked = TRUE]
<1>8. messages' = [messages EXCEPT ![h] = t]
  BY <1>5, <1>7
<1>9. /\ t \in MessageRecords(Len(places), Len(rows)) /\ t.at = messages[h].at
      /\ t.row = messages[h].row /\ t.part = messages[h].part /\ t.shows = c
      /\ t.marked = TRUE /\ t.seen = messages[h].seen
  <2>1. /\ u \in MessageRecords(Len(places), Len(rows)) /\ u.at = messages[h].at
        /\ u.row = messages[h].row /\ u.part = messages[h].part /\ u.shows = c
        /\ u.seen = messages[h].seen
    BY <1>1, <1>4, Fields DEF MessageRecords, Rows
  <2> HIDE DEF u
  <2> QED BY <2>1 DEF MessageRecords
<1> HIDE DEF t
<1>10. rows' = rows /\ places' = places /\ receipts' = receipts
  BY <1>1 DEF database
<1>11. /\ SameMessages /\ MessageTypes' /\ DOMAIN messages' = DOMAIN messages /\ messages'[h] = t
       /\ Len(messages') = Len(messages)
       /\ \A m \in DOMAIN messages : m # h => messages'[m] = messages[m]
  BY <1>1, <1>4, <1>8, <1>9, <1>10, ChangedMessage
<1>12. SameRows /\ SamePlaces
  BY <1>1, <1>10, UnchangedRows, UnchangedPlaces
<1>13. /\ messages[h].at = Channel /\ messages[h].part = 1
       /\ rows[messages[h].row].kind = "project_status"
  BY <1>4 DEF Statused
<1>14. /\ Given(c, h) /\ Given(c, known) /\ messages[known].at = Channel /\ messages[known].part = 1
       /\ known = h \/ messages[known].seen = "recent"
  <2>1. Given(c, h)
    BY <1>4, <1>7 DEF Given
  <2>2. CASE known = h
    BY <1>13, <2>1, <2>2
  <2>3. CASE known \in Recovered(Channel, Current, 1)
    BY <1>1, <1>7, <2>1, <2>3 DEF Recovered, Posted, Genuine, Given
  <2> QED BY <1>6, <2>2, <2>3
<1>15. /\ Grows /\ GatewayTypes' /\ Batch' /\ Hand'
       /\ \A m \in Held' : m = h \/ m = known
  <2>1. CASE gateway' = Failing
    <3>1. Grows /\ GatewayTypes' /\ Through /\ Hand' /\ Held' = {}
      BY <1>1, <1>11, <1>12, <2>1, BetweenMoves
    <3> QED BY <1>1, <3>1, BatchKept
  <2>2. CASE gateway' = Doing("receipt", Channel, 1, known, h)
    <3>1. /\ h \in 0..Len(messages') /\ known \in 0..Len(messages') /\ Channel \in 0..Len(places')
          /\ "receipt" \in Steps \ {"poll"} /\ 1 \in 0..2
      BY <1>1, <1>3, <1>4, <1>10, <1>11, <1>14, Fields DEF Given, Steps
    <3>2. PICK at \in 0..Len(places') : at = Channel
      BY <3>1
    <3>3. /\ Grows /\ GatewayTypes' /\ Through /\ Current' = Current
          /\ gateway'.step = "receipt" /\ gateway'.at = Channel
          /\ gateway'.part = 1 /\ gateway'.message = known /\ gateway'.first = h
      BY <1>1, <1>11, <1>12, <2>2, <3>1, <3>2, DoingMoves
    <3>4. /\ Given(c, h)' /\ messages'[h].at = Channel /\ messages'[h].part = 1
          /\ Given(c, known)' /\ messages'[known].at = Channel /\ messages'[known].part = 1
      BY <1>1, <1>3, <1>7, <1>13, <1>14, <3>3, GivenAtHand
    <3>5. AtPlace'
      BY <1>1, <1>3, <1>4, <1>10, <3>3 DEF AtPlace, Parts, Channel
    <3>6. HasFirst'
      BY <1>3, <1>4, <1>7, <3>3, <3>4 DEF HasFirst, Given
    <3>7. HasParts'
      BY <3>3 DEF HasParts, Parts
    <3>8. HasMessage'
      BY <1>7, <3>3, <3>4 DEF HasMessage, Given
    <3>9. Hand'
      BY <3>3, <3>5, <3>6, <3>7, <3>8 DEF Hand
    <3>10. \A m \in Held' : m = h \/ m = known
      BY <3>3 DEF Held
    <3> QED BY <1>1, <3>3, <3>9, <3>10, BatchKept
  <2> QED BY <1>6, <2>1, <2>2
<1>16. Posted'
  <2>1. Genuine(h)'
    <3>1. Statused(h)' /\ Short(c)'
      BY <1>1, <1>4, <1>7, <1>15, GivenStays
    <3> QED BY <1>9, <1>11, <1>13, <3>1 DEF Genuine
  <2> QED BY <1>1, <1>10, <1>11, <1>15, <2>1, PostedKept
<1>17. ASSUME NEW m \in DOMAIN messages, rows[messages[m].row].kind # "project_status", Forgotten(m)
       PROVE  Forgotten(m)'
  <2>1. m # h /\ m # known
    BY <1>13, <1>14, <1>17 DEF Forgotten
  <2> QED BY <1>10, <1>11, <1>15, <1>17, <2>1 DEF Forgotten
<1> QED BY <1>1, <1>11, <1>15, <1>16, <1>17, MessageKeeps

-----------------------------------------------------------------------------
(* The controller answers an acknowledgement or a failure.                  *)
LEMMA SettlesKeep ==
    ASSUME IInv, UNCHANGED <<receipts, discord>>, SameRows, RowTypes', TaskTypes', RowShapes',
           \/ gateway.step \notin {"poll", "fail"} /\ gateway' = Failing
           \/ gateway.step # "poll" /\ gateway' = NextItem,
           Grows => Known'
    PROVE  IInv'
<1>1. TypeOK /\ Batch /\ Posted /\ Named /\ Copies /\ Seeds
  BY DEF IInv
<1>2. receipts' = receipts /\ places' = places /\ messages' = messages
  BY DEF discord
<1>3. SamePlaces /\ SameMessages
  BY <1>1, <1>2, UnchangedPlaces, UnchangedMessages
<1>4. Grows /\ GatewayTypes' /\ Through /\ Hand' /\ Held' = {}
  BY <1>1, <1>3, BetweenMoves
<1>5. Batch'
  BY <1>1, <1>4, BatchKept
<1>6. TypeOK'
  <2>1. PlaceTypes' /\ MessageTypes' /\ ReceiptTypes'
    <3>1. Rows \subseteq Rows'
      BY DEF SameRows
    <3> QED BY <1>1, <1>2, <1>3, TypesStay
  <2> QED BY <1>4, <2>1, Typed
<1>7. Posted'
  BY <1>1, <1>2, <1>4, PostedKept
<1>8. Named'
  BY <1>1, <1>2, <1>4, NamedKept
<1>9. Copies'
  <2>1. \A m \in DOMAIN messages : Forgotten(m) => Forgotten(m)'
    BY <1>2, <1>4 DEF Forgotten
  <2> QED BY <1>1, <1>2, <1>4, <2>1, CopiesKept
<1>10. Seeds'
  BY <1>1, <1>2, <1>4, SeedsKept
<1> QED BY <1>4, <1>5, <1>6, <1>7, <1>8, <1>9, <1>10 DEF IInv

LEMMA FailKeeps == ASSUME IInv, Fail PROVE IInv'
<1>1. /\ TypeOK /\ Batch /\ RowShapes /\ Known /\ gateway.step = "fail"
      /\ rows' = [rows EXCEPT ![Current].due = FALSE] /\ gateway' = NextItem
      /\ UNCHANGED <<thread, topic, projected, receipts, lost, discord>>
  BY DEF IInv, Fail, Working, Goes
<1>2. Current \in Rows
  BY <1>1, Types, BatchFields DEF GatewayTypes
<1>3. PICK c \in Rows : c = Current
  BY <1>2
<1>4. SameRows /\ RowTypes' /\ RowShapes'
  BY <1>1, <1>3, DueRows
<1>5. TaskTypes'
  BY <1>1, <1>4, TypesStay, UnchangedPlaces, UnchangedMessages DEF discord
<1>6. Grows => Known'
  BY <1>1, KnownKept
<1> QED BY <1>1, <1>4, <1>5, <1>6, SettlesKeep

(* The row that is acknowledged is sent, and what waits for a place gets it. *)
LEMMA AckedRows ==
    ASSUME TypeOK, NEW c \in Rows, c = Current, gateway.at \in 0..Len(places)
    PROVE  \A r \in Rows :
              /\ Readdressed(r) \in RowRecords
              /\ Readdressed(r).kind = rows[r].kind /\ Readdressed(r).fresh = rows[r].fresh
              /\ Readdressed(r).topic = rows[r].topic
              /\ Readdressed(r).cancelled = rows[r].cancelled
              /\ Readdressed(r).sent = (r = c \/ rows[r].sent)
              /\ Readdressed(r).at \in 0..Len(places)
              /\ Readdressed(r).message = IF r = c THEN gateway.first ELSE rows[r].message
<1>1. /\ rows \in [Rows -> RowRecords] /\ gateway.first \in Nat /\ gateway.at \in Nat
      /\ \A r \in Rows : rows[r].at \in 0..Len(places)
  BY Types, Fields DEF GatewayTypes, RowTypes
<1> DEFINE u == [rows[c] EXCEPT !.sent = TRUE]
           w == [u EXCEPT !.message = gateway.first]
<1>2. /\ w \in RowRecords /\ w.kind = rows[c].kind /\ w.fresh = rows[c].fresh
      /\ w.topic = rows[c].topic /\ w.cancelled = rows[c].cancelled /\ w.sent = TRUE
      /\ w.at = rows[c].at /\ w.message = gateway.first
  <2>1. /\ u \in RowRecords /\ u.kind = rows[c].kind /\ u.fresh = rows[c].fresh
        /\ u.topic = rows[c].topic /\ u.cancelled = rows[c].cancelled /\ u.sent = TRUE
        /\ u.at = rows[c].at
    BY <1>1 DEF RowRecords
  <2> HIDE DEF u
  <2> QED BY <1>1, <2>1 DEF RowRecords
<1>3. Acked(rows[c]) = w
  BY DEF Acked
<1> HIDE DEF w
<1> TAKE r \in Rows
<1> DEFINE b == IF r = c THEN w ELSE rows[r]
           v == [b EXCEPT !.at = gateway.at]
<1>4. /\ b \in RowRecords /\ b.kind = rows[r].kind /\ b.fresh = rows[r].fresh
      /\ b.topic = rows[r].topic /\ b.cancelled = rows[r].cancelled
      /\ b.sent = (r = c \/ rows[r].sent) /\ b.at = rows[r].at
      /\ b.message = IF r = c THEN gateway.first ELSE rows[r].message
  BY <1>1, <1>2 DEF RowRecords
<1>5. Readdressed(r) = b \/ Readdressed(r) = v
  BY <1>3 DEF Readdressed
<1> HIDE DEF b
<1>6. /\ v \in RowRecords /\ v.kind = b.kind /\ v.fresh = b.fresh /\ v.topic = b.topic
      /\ v.cancelled = b.cancelled /\ v.sent = b.sent /\ v.at = gateway.at /\ v.message = b.message
  BY <1>1, <1>4 DEF RowRecords
<1> HIDE DEF v
<1> QED BY <1>1, <1>4, <1>5, <1>6

LEMMA AtAck ==
    ASSUME IInv, gateway.step = "ack"
    PROVE  /\ TypeOK /\ RowShapes /\ Batch /\ Posted /\ Known /\ Hand
           /\ gateway.batch # <<>> /\ AtPlace /\ HasFirst /\ HasParts
           /\ gateway.at \in 1..Len(places)
           /\ Current \in Rows /\ ~Past(Current) /\ gateway.first # 0
<1>1. TypeOK /\ RowShapes /\ Batch /\ Posted /\ Known /\ Hand
  BY DEF IInv
<1>2. gateway.batch # <<>> /\ AtPlace /\ HasFirst /\ HasParts
  BY <1>1, Types DEF Hand, Posting, GatewayTypes
<1>3. gateway.at \in 1..Len(places) /\ gateway.first # 0
  BY <1>1, <1>2, Fields DEF Batch, AtPlace, HasFirst
<1>4. Current \in Rows /\ 1 \in DOMAIN gateway.batch /\ gateway.batch[1].row = Current
  BY <1>1, <1>2, BatchFields
<1>5. ~Past(Current)
  BY <1>4 DEF Past
<1> QED BY <1>1, <1>2, <1>3, <1>4, <1>5

LEMMA AckKeeps == ASSUME IInv, Ack PROVE IInv'
<1>1. /\ gateway.step = "ack" /\ UNCHANGED <<receipts, lost, discord>>
      /\ rows' = [r \in Rows |-> Readdressed(r)]
      /\ gateway' = Failing \/ gateway' = NextItem
      /\ projected' = IF rows[Current].kind = "project_status" THEN gateway.first ELSE projected
  BY DEF Ack, Working, Answered, Raise, Goes
<1>2. /\ TypeOK /\ RowShapes /\ Batch /\ Known /\ gateway.batch # <<>> /\ AtPlace /\ HasFirst
      /\ gateway.at \in 0..Len(places) /\ Current \in Rows /\ gateway.first # 0
  <2>1. gateway.at \in 1..Len(places) => gateway.at \in 0..Len(places)
    OBVIOUS
  <2> QED BY <1>1, <2>1, AtAck
<1>3. PICK c \in Rows : c = Current
  BY <1>2
<1>4. places' = places /\ messages' = messages
  BY <1>1 DEF discord
<1>5. /\ rows' \in [Rows -> RowRecords]
      /\ \A r \in Rows :
            /\ rows'[r].kind = rows[r].kind /\ rows'[r].fresh = rows[r].fresh
            /\ rows'[r].topic = rows[r].topic /\ (rows[r].sent => rows'[r].sent)
            /\ rows'[r].at \in 0..Len(places')
            /\ rows'[r].message \in 0..Len(messages')
      /\ rows'[c].sent
  <2>1. \A r \in Rows : rows[r].message \in 0..Len(messages)
    BY <1>2, Types DEF RowTypes
  <2>2. gateway.first \in 0..Len(messages)
    BY <1>2, Types DEF GatewayTypes
  <2>3. rows' = [r \in Rows |-> Readdressed(r)]
    BY <1>1
  <2> HIDE DEF Readdressed
  <2> QED BY <1>2, <1>3, <1>4, <2>1, <2>2, <2>3, AckedRows
<1>6. SameRows /\ RowTypes' /\ RowShapes' /\ Rows' = Rows
  BY <1>2, <1>5, RewrittenRows DEF Open
<1>7. TaskTypes'
  <2>1. /\ thread \in [Tasks -> 0..Len(places)] /\ lost \subseteq Illustrated
        /\ topic \in [Topics -> [row: 0..Len(rows), at: 0..Len(places), reminded: BOOLEAN]]
        /\ projected \in 0..Len(messages)
        /\ gateway.first \in 0..Len(messages)
    BY <1>2, Types DEF TaskTypes, GatewayTypes
  <2>2. thread' \in [Tasks -> 0..Len(places')]
    BY <1>2, <1>4, <2>1 DEF Ack
  <2>3. topic' \in [Topics -> [row: 0..Len(rows'), at: 0..Len(places'), reminded: BOOLEAN]]
    <3>1. Len(rows') = Len(rows)
      BY <1>2, <1>6, Fields, <1>5, FunctionIsSeq DEF Rows
    <3>2. topic' = topic \/ topic' = [topic EXCEPT ![rows[Current].topic].at = gateway.at]
      BY DEF Ack
    <3>3. ASSUME NEW p \in Topics
          PROVE  [topic[p] EXCEPT !.at = gateway.at] \in [row: 0..Len(rows), at: 0..Len(places), reminded: BOOLEAN]
      BY <1>2, <2>1
    <3>4. topic' \in [Topics -> [row: 0..Len(rows), at: 0..Len(places), reminded: BOOLEAN]]
      BY <2>1, <3>2, <3>3
    <3> QED BY <1>4, <3>1, <3>4
  <2>4. projected' \in 0..Len(messages') /\ lost' \subseteq Illustrated
    BY <1>1, <1>4, <2>1
  <2> QED BY <2>2, <2>3, <2>4 DEF TaskTypes
<1>8. Past(c)'
  <2>1. CASE gateway' = Failing
    BY <1>2, <1>3, <1>5, <2>1, BatchFields DEF Past, Open, Failing, Between
  <2>2. CASE gateway' = NextItem
    <3>1. gateway'.batch = Tail(gateway.batch)
      BY <2>2 DEF NextItem, Between
    <3>2. \A k \in DOMAIN gateway'.batch : gateway'.batch[k].row # c
      <4> SUFFICES ASSUME NEW k \in DOMAIN Tail(gateway.batch), Tail(gateway.batch)[k].row = c
                   PROVE  FALSE
        BY <3>1
      <4>1. k + 1 = 1 /\ k \in 1..Len(gateway.batch) - 1
        BY <1>2, <1>3, BatchFields
      <4> QED BY <4>1, <1>2, BatchFields
    <3> QED BY <1>5, <3>2 DEF Past, Open
  <2> QED BY <1>1, <2>1, <2>2
<1>9. Grows => Known'
  <2> SUFFICES ASSUME Grows PROVE Known'
    OBVIOUS
  <2>1. CASE rows[Current].kind # "project_status"
    BY <1>1, <1>2, <2>1, KnownKept
  <2>2. CASE rows[Current].kind = "project_status"
    <3>1. PICK f : f = gateway.first /\ f # 0 /\ projected' = f
      BY <1>1, <1>2, <2>2
    <3>2. Current # 1 /\ gateway.at = Channel
      BY <1>2, <2>2 DEF AtPlace, RowShapes
    <3>3. Given(c, f) /\ messages[f].part = 1 /\ messages[f].at = Channel
      BY <1>2, <1>3, <3>1, <3>2 DEF HasFirst
    <3>4. Statused(f)'
      <4>1. CASE messages[f].row = c
        BY <1>3, <1>4, <1>5, <1>8, <2>2, <3>3, <4>1 DEF Statused, Given
      <4>2. CASE messages[f].row # c
        BY <1>2, <3>3, <4>2, GivenStays DEF Given
      <4> QED BY <4>1, <4>2
    <3> QED BY <3>1, <3>4 DEF Known, Statused
  <2> QED BY <2>1, <2>2
<1> QED BY <1>1, <1>6, <1>7, <1>9, SettlesKeep

-----------------------------------------------------------------------------
LEMMA Initially == Init => IInv
<1> SUFFICES ASSUME Init PROVE IInv
  OBVIOUS
<1> DEFINE first == NewRow("v1", "create_thread", "none", FALSE, 0)
           channel == [kind |-> "channel", of |-> 0]
<1>1. /\ rows = <<first>> /\ places = <<channel>> /\ messages = <<>> /\ receipts = <<>>
      /\ projected = 0 /\ lost = {} /\ thread = [t \in Tasks |-> 0]
      /\ topic = [p \in Topics |-> [row |-> 0, at |-> 0, reminded |-> FALSE]]
      /\ gateway = Idle
  BY DEF Init
<1>2. /\ first \in RowRecords /\ first.kind = "create_thread" /\ first.at = 0 /\ first.message = 0
  BY DEF NewRow, RowRecords, Tasks, Kinds
<1>3. channel \in PlaceRecords /\ channel.kind = "channel"
  BY DEF PlaceRecords
<1> HIDE DEF first, channel
<1>4. rows \in Seq(RowRecords) /\ Len(rows) = 1 /\ rows[1] = first /\ rows # <<>> /\ Rows = {1}
  BY <1>1, <1>2 DEF Rows
<1>5. places \in Seq(PlaceRecords) /\ Len(places) = 1 /\ DOMAIN places = {1} /\ places[1] = channel
  BY <1>1, <1>3
<1>6. Len(messages) = 0 /\ DOMAIN messages = {} /\ DOMAIN receipts = {}
      /\ messages \in Seq(MessageRecords(Len(places), Len(rows)))
  BY <1>1, EmptySeq
<1>7. /\ gateway.step = "poll" /\ gateway.batch = <<>> /\ gateway.at = 0 /\ gateway.part = 0
      /\ gateway.message = 0 /\ gateway.first = 0
  BY <1>1 DEF Idle, Between
<1>8. TypeOK
  <2>1. RowTypes /\ PlaceTypes /\ MessageTypes
    BY <1>2, <1>4, <1>5, <1>6 DEF RowTypes, PlaceTypes, MessageTypes
  <2>2. TaskTypes
    BY <1>1, <1>4, <1>5, <1>6 DEF TaskTypes
  <2>3. ReceiptTypes /\ GatewayTypes
    BY <1>6, <1>7 DEF ReceiptTypes, GatewayTypes, Steps
  <2> QED BY <2>1, <2>2, <2>3, Types
<1>9. RowShapes
  BY <1>2, <1>4 DEF RowShapes
<1>10. Batch
  <2>1. <<>> \in Seq(Items) /\ DOMAIN gateway.batch = {}
    BY <1>7, EmptySeq
  <2>2. gateway \in Gateways
    BY <1>1, <2>1 DEF Gateways, Idle, Between, Steps
  <2> QED BY <1>5, <1>7, <2>1, <2>2 DEF Batch
<1>11. Posted /\ Named /\ Known /\ Hand /\ Copies
  BY <1>1, <1>6, <1>7 DEF Posted, Named, Known, Hand, Posting, Copies
<1>12. Seeds
  BY <1>3, <1>5 DEF Seeds, Channel
<1> QED BY <1>8, <1>9, <1>10, <1>11, <1>12 DEF IInv

LEMMA StutterKeeps == ASSUME IInv, UNCHANGED vars PROVE IInv'
<1>1. /\ UNCHANGED <<rows, thread, topic, projected, receipts, lost, places, messages>>
      /\ gateway' = gateway /\ UNCHANGED discord
  BY DEF vars, database, discord
<1>2. TypeOK /\ RowShapes
  BY DEF IInv
<1>3. SameRows /\ SamePlaces /\ SameMessages
  BY <1>1, <1>2, UnchangedRows, UnchangedPlaces, UnchangedMessages
<1>4. TypeOK'
  BY <1>1, <1>2, <1>3, TypesStay, Typed
<1>5. RowShapes'
  BY <1>1, <1>2, ShapesStay
<1> QED BY <1>1, <1>3, <1>4, <1>5, ControllerKeeps

LEMMA LoopKeeps == ASSUME IInv, Loop PROVE IInv'
BY PollKeeps, FailuresKeep, StartsKeep, CreateTopicThreadKeeps, EditStatusKeeps, FindsKeep,
   PostsKeep, SaveReceiptKeeps, CleanAlreadyKeeps, StripMarkerKeeps, OpenTaskThreadKeeps,
   AckKeeps, FailKeeps
   DEF Loop

LEMMA NextKeeps == ASSUME IInv, Next PROVE IInv'
<1>1. CASE Notify("v1", FALSE) \/ \E fresh \in BOOLEAN : Notify("v2", fresh)
  BY <1>1, NotifyKeeps DEF Tasks
<1>2. CASE \E p \in Topics : CreateTopic(p) \/ Delegate(p) \/ Remind(p)
  BY <1>2, CreateTopicKeeps, TopicMessageKeeps
<1>3. CASE CancelTask \/ \E r \in Rows : BackOffEnds(r)
  BY <1>3, CancelTaskKeeps, BackOffEndsKeeps
<1>4. CASE Loop
  BY <1>4, LoopKeeps
<1>5. CASE CallFails \/ AckRefused \/ FailFails \/ Crash
  BY <1>5, FailuresKeep
<1>6. CASE \E r \in Illustrated : LoseFiles(r)
  BY <1>6, LoseFilesKeeps
<1>7. CASE \E m \in DOMAIN messages : Scrolls(m) \/ Deleted(m)
  BY <1>7, MovedKeeps
<1> QED BY <1>1, <1>2, <1>3, <1>4, <1>5, <1>6, <1>7 DEF Next

-----------------------------------------------------------------------------
(* What the rows, the receipts, the messages on Discord and the memory of the
   gateway tell of each other stands in every reachable state.              *)
THEOREM Inductive == Spec => []IInv
<1>1. IInv /\ [Next]_vars => IInv'
  BY NextKeeps, StutterKeeps
<1> QED BY Initially, <1>1, PTL DEF Spec

-----------------------------------------------------------------------------
(* Where the rows belong                                                   *)

(* The v1 task has no thread, and its rows no address, until the row that opens
   the thread is acknowledged; from then on the gateway never delivers that row
   again, so that no address changes any more.                              *)
Bound ==
    /\ 1 \in Rows /\ rows[1].task = "v1"
    /\ Open(1) => thread["v1"] = 0 /\ \A r \in Rows : rows[r].task = "v1" => rows[r].at = 0
    /\ ~Open(1) => Past(1)

(* A message in the hands of the gateway has the address of its row, or had
   none when it was read.                                                   *)
Addressed ==
    \A k \in DOMAIN gateway.batch :
        rows[gateway.batch[k].row].kind = "message" /\ gateway.batch[k].at # 0 =>
            gateway.batch[k].at = rows[gateway.batch[k].row].at
AtHome ==
    gateway.step \in Posting /\ rows[Current].kind = "message" => gateway.at = rows[Current].at
Address == Bound /\ Addressed /\ AtHome

SameAddresses ==
    /\ Rows \subseteq Rows' /\ rows'[1].sent = rows[1].sent /\ thread'["v1"] = thread["v1"]
    /\ \A r \in Rows : /\ rows'[r].task = rows[r].task /\ rows'[r].kind = rows[r].kind
                       /\ rows'[r].at = rows[r].at
    /\ \A r \in Rows' \ Rows : rows'[r].task = "v1" => rows'[r].at = thread["v1"]
Onward ==
    \/ gateway'.batch = gateway.batch /\ (gateway.step # "fail" \/ gateway'.step = "fail")
    \/ gateway.batch # <<>> /\ gateway'.batch = Tail(gateway.batch)
    \/ gateway'.batch = <<>>

(* What is past stays past, and an item has its address, as the batch goes on. *)
LEMMA OnwardKeeps ==
    ASSUME Batch, Onward, NEW r \in Rows, Past(r)
    PROVE  \A k \in DOMAIN gateway'.batch :
              gateway'.batch[k].row = r => k = 1 /\ gateway'.step = "fail"
<1> SUFFICES ASSUME NEW k \in DOMAIN gateway'.batch, gateway'.batch[k].row = r
             PROVE  k = 1 /\ gateway'.step = "fail"
  OBVIOUS
<1>1. CASE gateway'.batch = gateway.batch /\ (gateway.step # "fail" \/ gateway'.step = "fail")
  BY <1>1 DEF Past
<1>2. CASE gateway.batch # <<>> /\ gateway'.batch = Tail(gateway.batch)
  <2>1. /\ k + 1 \in DOMAIN gateway.batch /\ gateway.batch[k + 1].row = r
        /\ k \in 1..Len(gateway.batch) - 1
    BY <1>2, BatchFields
  <2>2. k + 1 = 1
    BY <2>1 DEF Past
  <2> QED BY <2>1, <2>2, BatchFields
<1>3. CASE gateway'.batch = <<>>
  BY <1>3
<1> QED BY <1>1, <1>2, <1>3 DEF Onward

LEMMA ItemsStay ==
    ASSUME Batch, Onward, NEW k \in DOMAIN gateway'.batch
    PROVE  \E l \in DOMAIN gateway.batch :
              gateway'.batch[k] = gateway.batch[l] /\ gateway.batch[l].row \in Rows
<1>1. CASE gateway'.batch = gateway.batch
  BY <1>1 DEF Batch
<1>2. CASE gateway.batch # <<>> /\ gateway'.batch = Tail(gateway.batch)
  BY <1>2, BatchFields DEF Batch
<1>3. CASE gateway'.batch = <<>>
  BY <1>3
<1> QED BY <1>1, <1>2, <1>3 DEF Onward

LEMMA AddressStays ==
    ASSUME IInv, Address, SameAddresses, Onward
    PROVE  Bound' /\ Addressed'
<1>1. Batch /\ Bound /\ Addressed
  BY DEF IInv, Address
<1>2. Bound'
  <2>1. 1 \in Rows' /\ rows'[1].task = "v1"
    BY <1>1 DEF Bound, SameAddresses
  <2>2. Open(1)' => thread'["v1"] = 0 /\ \A r \in Rows' : rows'[r].task = "v1" => rows'[r].at = 0
    BY <1>1 DEF Bound, SameAddresses, Open
  <2>3. ~Open(1)' => Past(1)'
    BY <1>1, OnwardKeeps DEF Bound, SameAddresses, Open, Past
  <2> QED BY <2>1, <2>2, <2>3 DEF Bound
<1>3. Addressed'
  <2> SUFFICES ASSUME NEW k \in DOMAIN gateway'.batch,
                      rows'[gateway'.batch[k].row].kind = "message", gateway'.batch[k].at # 0
               PROVE  gateway'.batch[k].at = rows'[gateway'.batch[k].row].at
    BY DEF Addressed
  <2>1. PICK l \in DOMAIN gateway.batch :
           gateway'.batch[k] = gateway.batch[l] /\ gateway.batch[l].row \in Rows
    BY <1>1, ItemsStay
  <2> QED BY <1>1, <2>1 DEF Addressed, SameAddresses
<1> QED BY <1>2, <1>3

(* The gateway is between two items, or goes on with the one it is at.      *)
LEMMA AtHomeStays ==
    ASSUME IInv, Address, SameAddresses,
           \/ gateway'.step \notin Posting
           \/ /\ gateway.step \in Posting
              /\ gateway'.batch = gateway.batch /\ gateway'.at = gateway.at
    PROVE  AtHome'
<1>1. CASE gateway'.step \notin Posting
  BY <1>1 DEF AtHome
<1>2. CASE gateway.step \in Posting /\ gateway'.batch = gateway.batch /\ gateway'.at = gateway.at
  <2>1. gateway.batch # <<>> /\ Batch
    BY <1>2, Types DEF IInv, GatewayTypes, Posting
  <2>2. PICK c \in Rows : c = Current /\ c = Current'
    BY <1>2, <2>1, BatchFields DEF Current
  <2> QED BY <1>2, <2>2 DEF AtHome, Address, SameAddresses
<1> QED BY <1>1, <1>2

LEMMA UnchangedAddresses == ASSUME rows' = rows, thread' = thread PROVE SameAddresses
BY DEF SameAddresses, Rows

LEMMA DueAddresses ==
    ASSUME IInv, Address, NEW c \in Rows, NEW due \in BOOLEAN,
           rows' = [rows EXCEPT ![c].due = due], thread' = thread
    PROVE  SameAddresses
<1> DEFINE t == [rows[c] EXCEPT !.due = due]
<1>1. /\ rows \in [Rows -> RowRecords] /\ Len(rows) \in Nat /\ 1 \in Rows
      /\ rows' = [rows EXCEPT ![c] = t]
  BY Fields DEF IInv, Address, Bound
<1>2. /\ t \in RowRecords /\ t.task = rows[c].task /\ t.kind = rows[c].kind
      /\ t.sent = rows[c].sent /\ t.at = rows[c].at
  <2>1. rows[c] \in RowRecords
    BY <1>1
  <2> QED BY ONLY <2>1, due \in BOOLEAN DEF RowRecords
<1> HIDE DEF t
<1>3. rows' \in [Rows -> RowRecords]
  BY <1>1, <1>2
<1>4. Rows' = Rows
  BY <1>1, <1>3, FunctionIsSeq DEF Rows
<1> QED BY <1>1, <1>2, <1>4 DEF SameAddresses

(* The gateway is done with an item, or drops the batch.                    *)
LEMMA BetweenItems ==
    ASSUME IInv,
           \/ gateway.step # "poll" /\ gateway' = NextItem
           \/ gateway.step # "fail" /\ gateway' = Failing
           \/ gateway' = Idle
    PROVE  gateway'.step \notin Posting /\ Onward
<1>1. CASE gateway.step # "poll" /\ gateway' = NextItem
  <2>1. /\ gateway'.step = (IF Len(gateway.batch) > 1 THEN "item" ELSE "poll")
        /\ gateway'.batch = Tail(gateway.batch) /\ gateway.batch # <<>>
    BY <1>1, Types DEF NextItem, Between, IInv, GatewayTypes
  <2> QED BY <2>1 DEF Posting, Onward
<1>2. CASE gateway.step # "fail" /\ gateway' = Failing
  BY <1>2 DEF Failing, Between, Posting, Onward
<1>3. CASE gateway' = Idle
  BY <1>3 DEF Idle, Between, Posting, Onward
<1> QED BY <1>1, <1>2, <1>3

LEMMA QueuedAddress ==
    ASSUME IInv, Address, NEW task, NEW kind, NEW p, NEW fresh, NEW at,
           Queued(task, kind, p, fresh, at), task = "v1" => at = thread["v1"]
    PROVE  Address'
<1> DEFINE new == NewRow(task, kind, p, fresh, at)
<1>1. /\ rows' = Append(rows, new) /\ thread' = thread /\ gateway' = gateway
      /\ new.task = task /\ new.at = at
  BY DEF Queued, NewRow
<1> HIDE DEF new
<1>2. TypeOK /\ 1 \in Rows /\ Len(rows) \in Nat /\ rows \in Seq(RowRecords)
  BY Fields, Types DEF IInv, RowTypes, Address, Bound
<1>3. /\ Len(rows') = Len(rows) + 1 /\ rows'[Len(rows) + 1] = new
      /\ \A r \in 1..Len(rows) : rows'[r] = rows[r]
  BY <1>1, <1>2
<1>4. Rows' = Rows \cup {Len(rows) + 1}
  BY <1>2, <1>3 DEF Rows
<1>5. \A r \in Rows : rows'[r] = rows[r]
  BY <1>3 DEF Rows
<1>6. SameAddresses
  BY <1>1, <1>2, <1>3, <1>4, <1>5 DEF SameAddresses
<1>7. Onward
  BY <1>1 DEF Onward
<1> QED BY <1>1, <1>6, <1>7, AddressStays, AtHomeStays DEF Address, Posting

LEMMA ControllerAddress ==
    ASSUME IInv, Address,
           \/ Notify("v1", FALSE) \/ \E fresh \in BOOLEAN : Notify("v2", fresh)
           \/ \E p \in Topics : CreateTopic(p) \/ Delegate(p) \/ Remind(p)
           \/ CancelTask \/ \E r \in Rows : BackOffEnds(r)
           \/ \E r \in Illustrated : LoseFiles(r)
           \/ \E m \in DOMAIN messages : Scrolls(m) \/ Deleted(m)
    PROVE  Address'
<1>1. CASE Notify("v1", FALSE) \/ \E fresh \in BOOLEAN : Notify("v2", fresh)
  BY <1>1, QueuedAddress DEF Notify
<1>2. CASE \E p \in Topics : CreateTopic(p) \/ Delegate(p) \/ Remind(p)
  BY <1>2, QueuedAddress DEF CreateTopic, Delegate, Remind
<1>3. CASE CancelTask \/ \E r \in Rows : BackOffEnds(r)
  <2>1. thread' = thread /\ gateway' = gateway
    BY <1>3 DEF CancelTask, BackOffEnds
  <2>2. SameAddresses
    <3>1. CASE \E r \in Rows : BackOffEnds(r)
      BY <3>1, DueAddresses DEF BackOffEnds
    <3>2. CASE CancelTask
      <4> DEFINE u(r) == [rows[r] EXCEPT !.sent = TRUE]
                 t(r) == [u(r) EXCEPT !.cancelled = TRUE]
      <4>1. /\ rows \in [Rows -> RowRecords] /\ Len(rows) \in Nat
            /\ 1 \in Rows /\ rows[1].task = "v1"
            /\ rows' = [r \in Rows |-> IF Open(r) /\ rows[r].task = "v2" THEN t(r) ELSE rows[r]]
        BY <3>2, Fields DEF IInv, Address, Bound, CancelTask
      <4>2. ASSUME NEW r \in Rows
            PROVE  /\ t(r) \in RowRecords /\ t(r).task = rows[r].task
                   /\ t(r).kind = rows[r].kind /\ t(r).at = rows[r].at
        <5>1. /\ u(r) \in RowRecords /\ u(r).task = rows[r].task
              /\ u(r).kind = rows[r].kind /\ u(r).at = rows[r].at
          BY <4>1 DEF RowRecords
        <5> HIDE DEF u
        <5> QED BY <5>1 DEF RowRecords
      <4> HIDE DEF t
      <4>3. rows' \in [Rows -> RowRecords] /\ rows'[1] = rows[1]
        BY <4>1, <4>2
      <4>4. Rows' = Rows
        BY <4>1, <4>3, FunctionIsSeq DEF Rows
      <4> QED BY <2>1, <4>1, <4>2, <4>3, <4>4 DEF SameAddresses
    <3> QED BY <1>3, <3>1, <3>2
  <2>3. Onward
    BY <2>1 DEF Onward
  <2> QED BY <2>1, <2>2, <2>3, AddressStays, AtHomeStays DEF Address, Posting
<1>4. CASE \/ \E r \in Illustrated : LoseFiles(r)
           \/ \E m \in DOMAIN messages : Scrolls(m) \/ Deleted(m)
  <2>1. rows' = rows /\ thread' = thread /\ gateway' = gateway
    BY <1>4 DEF LoseFiles, Scrolls, Deleted, Moved, database
  <2>2. SameAddresses /\ Onward
    BY <2>1, UnchangedAddresses DEF Onward
  <2> QED BY <2>1, <2>2, AddressStays, AtHomeStays DEF Address, Posting
<1> QED BY <1>1, <1>2, <1>3, <1>4

LEMMA PollAddress == ASSUME IInv, Address, Poll PROVE Address'
<1> PICK n \in 1..Page : \E p \in [1..n -> Due] :
       Oldest(p) /\ gateway' = Between("item", [i \in 1..n |-> Item(p[i])])
  BY DEF Poll, Goes
<1> PICK page \in [1..n -> Due] : gateway' = Between("item", [i \in 1..n |-> Item(page[i])])
  OBVIOUS
<1>1. rows' = rows /\ thread' = thread
  BY DEF Poll, database
<1>2. /\ gateway'.step = "item" /\ DOMAIN gateway'.batch = 1..n
      /\ \A k \in 1..n : /\ gateway'.batch[k].row \in Rows /\ Open(gateway'.batch[k].row)
                         /\ gateway'.batch[k].at = rows[gateway'.batch[k].row].at
  BY DEF Between, Item, Due
<1>3. Bound'
  BY <1>1, <1>2 DEF Address, Bound, Past, Open, Rows
<1>4. Addressed' /\ AtHome'
  BY <1>1, <1>2 DEF Addressed, AtHome, Posting
<1> QED BY <1>3, <1>4 DEF Address

(* The gateway's other steps but those that settle a row.                   *)
LEMMA GatewayAddress ==
    ASSUME IInv, Address,
           \/ Skip \/ StartMessage \/ StartTaskThread \/ CreateTopicThread
           \/ StartStatus \/ EditStatus \/ SendPart \/ SaveReceipt \/ CleanAlready
           \/ StripMarker \/ StripFails \/ OpenTaskThread
           \/ CallFails \/ AckRefused \/ FailFails \/ Crash
    PROVE  Address'
<1> USE DEF Working, Goes
<1>1. /\ rows' = rows /\ thread' = thread
  BY DEF Skip, StartMessage, StartTaskThread, CreateTopicThread, StartStatus, EditStatus,
         SendPart, SaveReceipt, CleanAlready, StripMarker, StripFails, OpenTaskThread,
         CallFails, AckRefused, FailFails, Crash, database
<1>2. TypeOK /\ Batch /\ Hand /\ RowShapes /\ SameAddresses
  BY <1>1, UnchangedAddresses DEF IInv
<1>3. gateway.step # "poll" => gateway.batch # <<>>
  BY <1>2, Types DEF GatewayTypes
<1>4. ASSUME \/ gateway.step # "poll" /\ gateway' = NextItem
             \/ gateway.step # "fail" /\ gateway' = Failing
             \/ gateway' = Idle
      PROVE  Address'
  <2>1. gateway'.step \notin Posting /\ Onward
    BY <1>4, BetweenItems
  <2> QED BY <1>2, <2>1, AddressStays, AtHomeStays DEF Address
<1>5. ASSUME gateway.step \in Posting, gateway'.batch = gateway.batch, gateway'.at = gateway.at
      PROVE  Address'
  <2>1. Onward
    BY <1>5 DEF Onward, Posting
  <2> QED BY <1>2, <1>5, <2>1, AddressStays, AtHomeStays DEF Address
<1>6. ASSUME gateway.step \in {"item", "seeded"}, gateway'.batch = gateway.batch,
             rows[Current].kind = "message" => gateway'.at = rows[Current].at
      PROVE  Address'
  <2>1. Onward /\ Current' = Current
    BY <1>6 DEF Onward, Current
  <2>2. AtHome'
    BY <1>1, <1>6, <2>1 DEF AtHome
  <2> QED BY <1>2, <2>1, <2>2, AddressStays DEF Address
<1>7. CASE Skip \/ StripFails \/ CallFails \/ AckRefused \/ FailFails \/ Crash
  BY <1>4, <1>7 DEF Skip, StripFails, CallFails, AckRefused, FailFails, Crash, Raise
<1>8. CASE StartMessage
  <2>1. /\ gateway.step = "item" /\ gateway'.batch = gateway.batch
        /\ gateway'.at = Head(gateway.batch).at /\ Head(gateway.batch).at # 0
    BY <1>8 DEF StartMessage, Sending, Doing
  <2>2. 1 \in DOMAIN gateway.batch /\ Head(gateway.batch) = gateway.batch[1]
    BY <1>2, <1>3, <2>1, BatchFields
  <2>3. rows[Current].kind = "message" => gateway'.at = rows[Current].at
    BY <2>1, <2>2 DEF Address, Addressed, Current
  <2> QED BY <1>6, <2>1, <2>3
<1>9. CASE StartTaskThread \/ CreateTopicThread \/ StartStatus \/ EditStatus
  <2>1. gateway.step = "item" /\ rows[Current].kind # "message"
    BY <1>9 DEF StartTaskThread, CreateTopicThread, StartStatus, EditStatus
  <2>2. gateway' = Failing \/ gateway'.batch = gateway.batch
    <3>1. CASE EditStatus
      <4>1. PICK known : Answered(Doing("receipt", Channel, 1, known, Head(gateway.batch).status))
        BY <3>1 DEF EditStatus
      <4> QED BY <4>1 DEF Answered, Raise, Doing
    <3>2. CASE StartTaskThread \/ CreateTopicThread \/ StartStatus
      BY <3>2 DEF StartTaskThread, CreateTopicThread, StartStatus, Answered, Raise, Sending, Doing
    <3> QED BY <1>9, <3>1, <3>2
  <2> QED BY <1>4, <1>6, <2>1, <2>2
<1>10. CASE SendPart \/ SaveReceipt \/ CleanAlready \/ StripMarker
  <2>1. gateway.step \in Posting \ {"seeded", "ack"}
    BY <1>10 DEF SendPart, SaveReceipt, CleanAlready, StripMarker, Posting
  <2>2. \/ gateway' = Failing
        \/ gateway'.batch = gateway.batch /\ gateway'.at = gateway.at
    BY <1>10 DEF SendPart, SaveReceipt, CleanAlready, StripMarker, Answered, Raise, Having,
                 AfterPart, Sending, Doing
  <2> QED BY <1>4, <1>5, <2>1, <2>2 DEF Posting
<1>11. CASE OpenTaskThread
  <2>1. gateway.step = "seeded" /\ gateway.batch # <<>>
    BY <1>3, <1>11 DEF OpenTaskThread
  <2>2. Current = 1 /\ Current \in Rows
    BY <1>2, <2>1, BatchFields, Types DEF Hand, AtPlace, Posting, GatewayTypes
  <2>3. rows[Current].kind # "message"
    BY <1>2, <2>2 DEF RowShapes
  <2>4. gateway' = Failing \/ gateway'.batch = gateway.batch
    BY <1>11 DEF OpenTaskThread, Answered, Raise, Sending, Doing
  <2> QED BY <1>4, <1>6, <2>1, <2>3, <2>4
<1> QED BY <1>7, <1>8, <1>9, <1>10, <1>11

LEMMA FailAddress == ASSUME IInv, Address, Fail PROVE Address'
<1>1. /\ rows' = [rows EXCEPT ![Current].due = FALSE] /\ gateway' = NextItem
      /\ gateway.step = "fail" /\ thread' = thread
  BY DEF Fail, Working, Goes
<1>2. gateway.batch # <<>> /\ Current \in Rows
  BY <1>1, Types, BatchFields DEF IInv, GatewayTypes
<1>3. SameAddresses
  BY <1>1, <1>2, DueAddresses
<1>4. gateway'.step \notin Posting /\ Onward
  BY <1>1, BetweenItems
<1> QED BY <1>3, <1>4, AddressStays, AtHomeStays DEF Address

(* The acknowledgement that binds the v1 task's thread addresses what waits for
   it; no other changes an address.                                         *)
LEMMA AckAddress == ASSUME IInv, Address, Ack PROVE Address'
<1>1. /\ gateway.step = "ack" /\ rows' = [r \in Rows |-> Readdressed(r)]
      /\ gateway' = Failing \/ gateway' = NextItem
  BY DEF Ack, Working, Answered, Raise, Goes
<1>2. /\ TypeOK /\ RowShapes /\ Batch /\ gateway.batch # <<>>
      /\ Current \in Rows /\ ~Past(Current) /\ gateway.at \in 1..Len(places)
      /\ rows \in [Rows -> RowRecords] /\ Len(rows) \in Nat /\ thread \in [Tasks -> 0..Len(places)]
  BY <1>1, AtAck, Fields, Types DEF TaskTypes
<1>3. gateway.at \in 0..Len(places)
  BY <1>2
<1>4. PICK c \in Rows : c = Current
  BY <1>2
<1>5. Onward /\ gateway'.step \notin Posting
  BY <1>1, BetweenItems
<1>6. \A r \in Rows : /\ rows'[r] \in RowRecords /\ rows'[r].kind = rows[r].kind
                      /\ rows'[r].sent = (r = c \/ rows[r].sent)
  <2> HIDE DEF Readdressed
  <2> QED BY <1>1, <1>2, <1>3, <1>4, AckedRows
<1>7. Rows' = Rows
  <2>1. rows' \in [1..Len(rows) -> RowRecords]
    BY <1>1, <1>6 DEF Rows
  <2> QED BY <1>2, <2>1, FunctionIsSeq DEF Rows
<1>8. \A r \in Rows : /\ rows'[r].task = rows[r].task
                      /\ rows'[r].at # rows[r].at => c = 1 /\ rows[r].task = rows[1].task
  <2>1. rows[c].kind = "create_thread" => c = 1
    BY <1>2 DEF RowShapes
  <2>2. ASSUME NEW r \in Rows
        PROVE  /\ Acked(rows[r]).task = rows[r].task /\ Acked(rows[r]).at = rows[r].at
               /\ Acked(rows[r]) \in RowRecords
    <3>1. rows[r] \in RowRecords /\ gateway.first \in Nat
      BY <1>2, Types, Fields DEF GatewayTypes
    <3> DEFINE u == [rows[r] EXCEPT !.sent = TRUE]
    <3>2. u \in RowRecords /\ u.task = rows[r].task /\ u.at = rows[r].at
      BY <3>1 DEF RowRecords
    <3>3. Acked(rows[r]) = [u EXCEPT !.message = gateway.first]
      BY DEF Acked
    <3> HIDE DEF u
    <3> QED BY <3>1, <3>2, <3>3 DEF RowRecords
  <2> TAKE r \in Rows
  <2> DEFINE b == IF r = c THEN Acked(rows[r]) ELSE rows[r]
  <2>3. b \in RowRecords /\ b.task = rows[r].task /\ b.at = rows[r].at
    BY <1>2, <2>2
  <2>4. \/ rows'[r] = b
        \/ /\ rows[c].kind = "create_thread" /\ rows[r].task = rows[c].task
           /\ rows'[r] = [b EXCEPT !.at = gateway.at]
    BY <1>1, <1>4 DEF Readdressed
  <2> HIDE DEF b
  <2> QED BY <2>1, <2>3, <2>4 DEF RowRecords
<1>9. CASE c # 1
  <2>1. rows[c].kind # "create_thread"
    BY <1>2, <1>9 DEF RowShapes
  <2>2. thread'["v1"] = thread["v1"]
    BY <1>2, <1>4, <2>1 DEF Ack, Tasks
  <2>3. 1 \in Rows /\ rows[1].sent \in BOOLEAN
    BY <1>2 DEF Address, Bound, RowRecords
  <2>4. SameAddresses
    BY <1>6, <1>7, <1>8, <1>9, <2>2, <2>3 DEF SameAddresses
  <2> QED BY <1>5, <2>4, AddressStays, AtHomeStays DEF Address
<1>10. CASE c = 1
  <2>1. /\ Open(1) /\ rows[1].task = "v1"
        /\ \A r \in Rows : rows[r].task = "v1" => rows[r].at = 0
    BY <1>2, <1>4, <1>10 DEF Address, Bound
  <2>2. rows'[1].sent /\ rows'[1].task = "v1"
    BY <1>6, <1>8, <1>10, <2>1
  <2>3. Past(1)'
    <3>1. CASE gateway' = Failing
      BY <1>2, <1>4, <1>10, <2>2, <3>1, BatchFields DEF Past, Open, Failing, Between
    <3>2. CASE gateway' = NextItem
      <4>1. gateway'.batch = Tail(gateway.batch)
        BY <3>2 DEF NextItem, Between
      <4>2. \A k \in DOMAIN gateway'.batch : gateway'.batch[k].row # 1
        <5> SUFFICES ASSUME NEW k \in DOMAIN Tail(gateway.batch), Tail(gateway.batch)[k].row = 1
                     PROVE  FALSE
          BY <4>1
        <5>1. k + 1 = 1 /\ k \in 1..Len(gateway.batch) - 1
          BY <1>2, <1>4, <1>10, BatchFields
        <5> QED BY <5>1, <1>2, BatchFields
      <4> QED BY <2>2, <4>2 DEF Past, Open
    <3> QED BY <1>1, <3>1, <3>2
  <2>4. Bound'
    BY <1>7, <1>10, <2>2, <2>3 DEF Bound, Open
  <2>5. Addressed'
    <3> SUFFICES ASSUME NEW k \in DOMAIN gateway'.batch,
                        rows'[gateway'.batch[k].row].kind = "message", gateway'.batch[k].at # 0
                 PROVE  gateway'.batch[k].at = rows'[gateway'.batch[k].row].at
      BY DEF Addressed
    <3>1. PICK l \in DOMAIN gateway.batch :
             gateway'.batch[k] = gateway.batch[l] /\ gateway.batch[l].row \in Rows
      BY <1>2, <1>5, ItemsStay
    <3>2. PICK q \in Rows : q = gateway.batch[l].row
      BY <3>1
    <3>3. gateway.batch[l].at = rows[q].at /\ rows[q].at # 0
      BY <1>6, <3>1, <3>2 DEF Address, Addressed
    <3>4. rows'[q].at = rows[q].at
      BY <1>8, <2>1, <3>3
    <3> QED BY <3>1, <3>2, <3>3, <3>4
  <2> QED BY <1>5, <2>4, <2>5 DEF Address, AtHome
<1> QED BY <1>9, <1>10

LEMMA AddressKept == ASSUME IInv, Address, [Next]_vars PROVE Address'
<1>1. CASE \/ Notify("v1", FALSE) \/ \E fresh \in BOOLEAN : Notify("v2", fresh)
           \/ \E p \in Topics : CreateTopic(p) \/ Delegate(p) \/ Remind(p)
           \/ CancelTask \/ \E r \in Rows : BackOffEnds(r)
           \/ \E r \in Illustrated : LoseFiles(r)
           \/ \E m \in DOMAIN messages : Scrolls(m) \/ Deleted(m)
  BY <1>1, ControllerAddress
<1>2. CASE Poll \/ Fail \/ Ack
  BY <1>2, PollAddress, FailAddress, AckAddress
<1>3. CASE \/ Skip \/ StartMessage \/ StartTaskThread \/ CreateTopicThread
           \/ StartStatus \/ EditStatus \/ SendPart \/ SaveReceipt \/ CleanAlready
           \/ StripMarker \/ StripFails \/ OpenTaskThread
           \/ CallFails \/ AckRefused \/ FailFails \/ Crash
  BY <1>3, GatewayAddress
<1>4. CASE UNCHANGED vars
  <2>1. rows' = rows /\ thread' = thread /\ gateway' = gateway
    BY <1>4 DEF vars, database
  <2>2. SameAddresses /\ Onward
    BY <2>1, UnchangedAddresses DEF Onward
  <2> QED BY <2>1, <2>2, AddressStays, AtHomeStays DEF Address, Posting
<1> QED BY <1>1, <1>2, <1>3, <1>4 DEF Next, Loop

LEMMA AddressInitially == Init => Address
<1> SUFFICES ASSUME Init PROVE Address
  OBVIOUS
<1>1. /\ rows = <<NewRow("v1", "create_thread", "none", FALSE, 0)>> /\ thread["v1"] = 0
      /\ gateway.step = "poll" /\ gateway.batch = <<>>
  BY DEF Init, Tasks, Idle, Between
<1>2. /\ Rows = {1} /\ rows[1].task = "v1" /\ rows[1].at = 0 /\ ~rows[1].sent
  BY <1>1 DEF Rows, NewRow
<1>3. DOMAIN gateway.batch = {}
  BY <1>1
<1> QED BY <1>1, <1>2, <1>3 DEF Address, Bound, Addressed, AtHome, Open, Posting

(* Every message the gateway posts goes to the address of its row, which once
   given never changes (POST /outbox/{id}/ack).                             *)
THEOREM EveryAddress == Spec => []Address
<1>1. IInv /\ Address /\ [Next]_vars => Address'
  BY AddressKept
<1> QED BY Inductive, AddressInitially, <1>1, PTL DEF Spec

-----------------------------------------------------------------------------
(* The properties                                                          *)

(* Every row, place, message and receipt keeps its type, and the gateway never
   works on an empty batch (the loop of run_gateway.notifications).         *)
THEOREM TypeCorrect == Spec => []TypeOK
<1>1. IInv => TypeOK
  BY DEF IInv
<1> QED BY Inductive, <1>1, PTL

(* A v1 task has one thread unless its seed message was lost (the seed message
   and message.thread in run_gateway.notifications).                        *)
THEOREM OneThread == Spec => []OneTaskThread
<1>1. IInv => OneTaskThread
  <2> SUFFICES ASSUME IInv, NEW i \in DOMAIN places, NEW j \in DOMAIN places, i < j,
                      places[i].kind = "task", places[j].kind = "task"
               PROVE  Lost(places[i].of)
    BY DEF OneTaskThread
  <2> DEFINE s == places[i].of
             t == places[j].of
  <2>1. TypeOK /\ Posted /\ RowShapes /\ Copies /\ Seeds
    BY DEF IInv
  <2>2. /\ s \in DOMAIN messages /\ messages[s].part = 0
        /\ t \in DOMAIN messages /\ messages[t].part = 0
        /\ s < t \/ \E d \in DOMAIN messages : messages[d].seen = "deleted" /\ messages[d].part = 0
    BY <2>1 DEF Seeds
  <2> HIDE DEF s, t
  <2>3. \A m \in DOMAIN messages : messages[m].part = 0 =>
           messages[m].row = 1 /\ messages[m].at = Channel
    BY <2>1 DEF Posted, Genuine
  <2>4. CASE s < t
    <3>1. SamePart(messages[s], messages[t]) /\ messages[s].row = 1
      BY <2>2, <2>3 DEF SamePart
    <3>2. rows[1].kind # "project_status"
      <4>1. 1 \in Rows
        BY <2>1, <2>2, <2>3, MessageFields
      <4> QED BY <2>1, <4>1 DEF RowShapes
    <3>3. Removed(s) \/ Forgotten(s)
      BY <2>1, <2>2, <2>4, <3>1, <3>2 DEF Copies
    <3> QED BY <3>3 DEF Lost, Unrecorded, Removed, Forgotten, s
  <2>5. CASE \E d \in DOMAIN messages : messages[d].seen = "deleted" /\ messages[d].part = 0
    <3>1. PICK d \in DOMAIN messages : messages[d].seen = "deleted" /\ messages[d].part = 0
      BY <2>5
    <3>2. SamePart(messages[d], messages[s])
      BY <2>2, <2>3, <3>1 DEF SamePart
    <3> QED BY <3>1, <3>2 DEF Lost, s
  <2> QED BY <2>2, <2>4, <2>5
<1> QED BY Inductive, <1>1, PTL

(* Where the gateway posts, the copies there are cannot be traced.          *)
LEMMA PostsOnce ==
    ASSUME IInv, [Next]_vars, NEW new \in DOMAIN messages' \ DOMAIN messages,
           NEW m \in DOMAIN messages, SamePart(messages[m], messages'[new])
    PROVE  Untraceable(m)
<1>1. SendPart /\ Found(gateway.at, Current, gateway.part) = {}
  <2>1. messages' # messages
    OBVIOUS
  <2>2. CASE SendPart
    BY <2>1, <2>2 DEF SendPart
  <2>3. CASE EditStatus \/ StripMarker \/ \E h \in DOMAIN messages : Scrolls(h) \/ Deleted(h)
    <3>1. DOMAIN messages' = DOMAIN messages
      BY <2>3 DEF EditStatus, StripMarker, Scrolls, Deleted, Moved
    <3> QED BY <3>1
  <2>4. CASE \/ Notify("v1", FALSE) \/ \E fresh \in BOOLEAN : Notify("v2", fresh)
             \/ \E p \in Topics : CreateTopic(p) \/ Delegate(p) \/ Remind(p)
             \/ CancelTask \/ \E r \in Rows : BackOffEnds(r)
             \/ \E r \in Illustrated : LoseFiles(r)
    BY <2>1, <2>4 DEF Notify, CreateTopic, Delegate, Remind, Queued, CancelTask, BackOffEnds,
                      LoseFiles, discord
  <2>5. CASE \/ Poll \/ Skip \/ StartMessage \/ StartTaskThread \/ CreateTopicThread
             \/ StartStatus \/ SaveReceipt \/ CleanAlready \/ StripFails \/ OpenTaskThread
             \/ Ack \/ Fail
    BY <2>1, <2>5 DEF Poll, Skip, StartMessage, StartTaskThread, CreateTopicThread, StartStatus,
                      SaveReceipt, CleanAlready, StripFails, OpenTaskThread, Ack, Fail, discord
  <2>6. CASE CallFails \/ AckRefused \/ FailFails \/ Crash
    BY <2>1, <2>6 DEF CallFails, AckRefused, FailFails, Crash, discord
  <2>7. CASE UNCHANGED vars
    BY <2>1, <2>7 DEF vars, discord
  <2> QED BY <2>2, <2>3, <2>4, <2>5, <2>6, <2>7 DEF Next, Loop
<1>2. gateway.step = "send"
  BY <1>1 DEF SendPart, Working
<1>3. /\ TypeOK /\ Posted /\ Named /\ Current \in Rows /\ gateway.at \in 1..Len(places)
      /\ gateway.part \in 0..2 /\ ~Past(Current)
  BY <1>2, AtSend
<1>4. PICK c \in Rows, at \in 1..Len(places), part \in 0..2 :
         c = Current /\ at = gateway.at /\ part = gateway.part
  BY <1>3
<1>5. /\ UNCHANGED <<rows, places>>
      /\ messages' = Append(messages, [at |-> at, row |-> c, part |-> part, shows |-> c,
                                       marked |-> TRUE, seen |-> "recent"])
  BY <1>1, <1>4 DEF SendPart, database
<1>6. messages'[new].at = at /\ messages'[new].row = c /\ messages'[new].part = part
  BY <1>3, <1>5, NewMessage
<1>7. messages[m].at = at /\ messages[m].row = c /\ messages[m].part = part
  BY <1>6 DEF SamePart
<1>8. messages[m].shows = c
  BY <1>3, <1>4, <1>7, ShowsItself
<1>9. LET key == <<at, c, part>> IN
      \/ messages[m].seen = "deleted"
      \/ key \in DOMAIN receipts /\ messages[receipts[key]].seen = "deleted"
      \/ messages[m].seen = "old" /\ messages[m].marked /\ key \notin DOMAIN receipts
  BY <1>1, <1>3, <1>4, <1>7, <1>8, NothingFound
<1>10. <<at, c, part>> \notin DOMAIN receipts => Unrecorded(m)
  <2> SUFFICES ASSUME NEW key \in DOMAIN receipts, receipts[key] = m PROVE key = <<at, c, part>>
    BY DEF Unrecorded
  <2>1. Given(key[2], m) /\ key[1] = at /\ key[3] = part
    BY <1>3, <1>7 DEF Named, Names
  <2>2. key[2] = c
    BY <1>3, <1>4, <1>7, <2>1 DEF Given, Statused
  <2>3. key \in (DOMAIN places) \X Rows \X (0..2)
    BY <1>3, Types DEF ReceiptTypes
  <2> QED BY <2>1, <2>2, <2>3
<1> QED BY <1>7, <1>9, <1>10 DEF Untraceable, Lost, SamePart

(* Crashes, lost answers and retries alone post no part of a row twice
   (send_chunked, DeliveryReceipts).                                        *)
THEOREM NothingPostedTwice == Spec => PostedOnce
<1>1. IInv /\ [Next]_vars =>
         \A new \in DOMAIN messages' \ DOMAIN messages : \A m \in DOMAIN messages :
            SamePart(messages[m], messages'[new]) => Untraceable(m)
  BY PostsOnce
<1> QED BY Inductive, <1>1, PTL DEF Spec, PostedOnce

(* What the gateway acknowledges it has posted whole where it belongs.      *)
LEMMA AcksWhole ==
    ASSUME IInv, Address, [Next]_vars, NEW r \in Rows, Open(r), rows'[r].sent, ~rows'[r].cancelled
    PROVE  \/ WrittenOver(r, rows'[r].message)
           \/ /\ \A part \in Parts(r) : Shown(r, part, Home(r)')
              /\ messages[rows'[r].message].shows = r
<1>0. TypeOK /\ rows \in [Rows -> RowRecords]
  BY Fields DEF IInv
<1>1. Ack
  <2>1. rows'[r] # rows[r] /\ rows'[r].sent # rows[r].sent
    BY DEF Open
  <2>2. CASE \/ Notify("v1", FALSE) \/ \E fresh \in BOOLEAN : Notify("v2", fresh)
             \/ \E p \in Topics : CreateTopic(p) \/ Delegate(p) \/ Remind(p)
    <3>1. PICK new : rows' = Append(rows, new)
      BY <2>2 DEF Notify, CreateTopic, Delegate, Remind, Queued
    <3>2. rows'[r] = rows[r]
      BY <1>0, <3>1, Fields DEF Rows
    <3> QED BY <2>1, <3>2
  <2>3. CASE CancelTask
    <3>1. Open(r) /\ rows[r].task = "v2" => rows'[r].cancelled
      BY <1>0, <2>3 DEF CancelTask, RowRecords
    <3>2. rows[r].task # "v2" => rows'[r] = rows[r]
      BY <2>3 DEF CancelTask
    <3> QED BY <2>1, <3>1, <3>2
  <2>4. CASE Fail \/ \E q \in Rows : BackOffEnds(q)
    BY <1>0, <2>1, <2>4 DEF Fail, BackOffEnds, RowRecords
  <2>5. CASE \/ \E h \in Illustrated : LoseFiles(h)
             \/ \E h \in DOMAIN messages : Scrolls(h) \/ Deleted(h)
    BY <2>1, <2>5 DEF LoseFiles, Scrolls, Deleted, Moved, database
  <2>6. CASE \/ Poll \/ Skip \/ StartMessage \/ StartTaskThread \/ CreateTopicThread
             \/ StartStatus \/ EditStatus \/ SendPart \/ SaveReceipt \/ CleanAlready
             \/ StripMarker \/ StripFails \/ OpenTaskThread
    BY <2>1, <2>6 DEF Poll, Skip, StartMessage, StartTaskThread, CreateTopicThread, StartStatus,
                      EditStatus, SendPart, SaveReceipt, CleanAlready, StripMarker, StripFails,
                      OpenTaskThread, database
  <2>7. CASE CallFails \/ AckRefused \/ FailFails \/ Crash \/ UNCHANGED vars
    BY <2>1, <2>7 DEF CallFails, AckRefused, FailFails, Crash, vars, database
  <2> QED BY <2>2, <2>3, <2>4, <2>5, <2>6, <2>7 DEF Next, Loop
<1>2. gateway.step = "ack" /\ rows' = [q \in Rows |-> Readdressed(q)]
  BY <1>1 DEF Ack, Working
<1>3. /\ TypeOK /\ RowShapes /\ Batch /\ Posted /\ Hand
      /\ gateway.batch # <<>> /\ AtPlace /\ HasFirst /\ HasParts
      /\ gateway.at \in 0..Len(places)
      /\ Current \in Rows /\ ~Past(Current) /\ gateway.first # 0
  <2>1. gateway.at \in 1..Len(places) => gateway.at \in 0..Len(places)
    OBVIOUS
  <2> QED BY <1>2, <2>1, AtAck
<1>4. PICK c \in Rows : c = Current
  BY <1>3
<1>5. r = c /\ rows'[r].message = gateway.first
  BY <1>2, <1>3, <1>4, AckedRows DEF Open
<1>6. PICK f : f = gateway.first /\ Given(r, f) /\ messages[f].part = IF r = 1 THEN 0 ELSE 1
  BY <1>3, <1>4, <1>5 DEF HasFirst
<1>7. f \in DOMAIN messages /\ messages[f].shows \in Rows
  BY <1>3, <1>6, MessageFields DEF Given
<1>8. CASE messages[f].shows # r
  <2>1. rows[r].kind = "project_status" /\ rows[messages[f].shows].kind = "project_status"
    <3>1. Genuine(f)
      BY <1>3, <1>7 DEF Posted
    <3>2. CASE messages[f].row = r
      BY <1>8, <3>1, <3>2 DEF Genuine, Statused, Short
    <3>3. CASE messages[f].row # r
      <4>1. Short(r) /\ Statused(f)
        BY <1>6, <3>3 DEF Given
      <4> QED BY <3>1, <4>1 DEF Genuine, Statused, Short
    <3> QED BY <3>2, <3>3
  <2> QED BY <1>5, <1>6, <1>8, <2>1 DEF WrittenOver
<1>9. CASE messages[f].shows = r
  <2>0. Home(r)' = gateway.at
    <3>1. /\ Readdressed(r).kind = rows[r].kind /\ Readdressed(r).topic = rows[r].topic
          /\ Readdressed(r).sent
      BY <1>3, <1>4, <1>5, AckedRows
    <3>2. rows'[r] = Readdressed(r) /\ rows[r].kind \in Kinds
      BY <1>0, <1>2 DEF RowRecords
    <3>3. CASE rows[r].kind = "message"
      <4>1. Readdressed(r).at = rows[r].at
        <5>1. rows[Current].kind # "create_thread"
          BY <1>4, <1>5, <3>3
        <5> QED BY <1>0, <1>4, <1>5, <5>1 DEF Readdressed, Acked, RowRecords
      <4>2. gateway.at = rows[r].at
        BY <1>2, <1>4, <1>5, <3>3 DEF Address, AtHome, Posting
      <4> QED BY <3>1, <3>2, <3>3, <4>1, <4>2 DEF Home
    <3>4. CASE rows[r].kind = "create_thread"
      <4>1. thread'["v1"] = gateway.at
        BY <1>0, <1>1, <1>4, <1>5, <3>4, Types DEF Ack, TaskTypes, Tasks
      <4> QED BY <3>1, <3>2, <3>4, <4>1 DEF Home
    <3>5. CASE rows[r].kind = "create_topic_thread"
      <4>1. topic' = [topic EXCEPT ![rows[r].topic].at = gateway.at] /\ rows[r].topic \in Topics
        BY <1>1, <1>3, <1>4, <1>5, <3>5 DEF Ack, RowShapes
      <4>2. topic'[rows[r].topic].at = gateway.at
        BY <1>0, <4>1, Types DEF TaskTypes
      <4> QED BY <3>1, <3>2, <3>5, <4>2 DEF Home
    <3>6. CASE rows[r].kind = "project_status"
      BY <1>3, <1>4, <1>5, <3>1, <3>2, <3>6 DEF Home, AtPlace
    <3> QED BY <3>2, <3>3, <3>4, <3>5, <3>6 DEF Kinds
  <2>1. ASSUME NEW part \in Parts(r) PROVE Shown(r, part, gateway.at)
    <3>1. PICK m \in DOMAIN messages :
             Given(r, m) /\ messages[m].part = part /\ messages[m].at = gateway.at
      BY <1>2, <1>3, <1>4, <1>5 DEF HasParts
    <3>3. CASE messages[m].row = r
      BY <1>3, <1>4, <1>5, <3>1, <3>3, ShowsItself DEF Shown
    <3>4. CASE messages[m].row # r
      <4>1. Short(r)
        BY <3>1, <3>4 DEF Given
      <4>2. Parts(r) = {1} /\ rows[r].kind = "project_status"
        BY <4>1 DEF Short, Parts
      <4>3. part = 1 /\ r # 1
        BY <1>3, <4>2 DEF RowShapes
      <4>4. messages[f].at = gateway.at
        BY <1>3, <1>4, <1>5, <1>6, <4>3 DEF HasFirst
      <4> QED BY <1>6, <1>7, <1>9, <4>2, <4>3, <4>4 DEF Shown
    <3> QED BY <3>3, <3>4
  <2> QED BY <1>5, <1>6, <1>9, <2>0, <2>1
<1> QED BY <1>8, <1>9

(* A row marked sent stands whole in the place it is addressed to or bound to,
   and is known by a message that shows it, or showed it before another status
   (ack).                                                                   *)
THEOREM AcknowledgedWhole == Spec => AckedWhole
<1>1. IInv /\ Address /\ [Next]_vars =>
         \A r \in Rows : Open(r) /\ rows'[r].sent /\ ~rows'[r].cancelled =>
            \/ WrittenOver(r, rows'[r].message)
            \/ /\ \A part \in Parts(r) : Shown(r, part, Home(r)')
               /\ messages[rows'[r].message].shows = r
  BY AcksWhole
<1> QED BY Inductive, EveryAddress, <1>1, PTL DEF Spec, AckedWhole
=============================================================================
