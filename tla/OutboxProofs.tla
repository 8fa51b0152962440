----------------------------- MODULE OutboxProofs -----------------------------
(* Proofs about Outbox for any number of mutations, ids, retries, outages and *)
(* reloads.                                                                   *)
EXTENDS Outbox, TLAPS

-----------------------------------------------------------------------------
(* The inductive invariant, slot by slot.                                  *)

Born == {r \in Reals : server[r] # "unborn"}
Known == Temps \cup Born

InFlight == {"mutate", "sent", "served", "refused", "backoff", "paused"}

\* What a mutation names exists: an item by its temp id, or a row of the table;
\* and a create is sent for the item it is for.
Sound(x, known) ==
  /\ x \in Mutation
  /\ x.at = "free" => x.op = None
  /\ x.at = "clicked" => x.op = "delete"
  /\ x.at \in Pending \cup {"orphan"} => x.item \in known /\ x.op # None
  /\ x.at \in {"sent", "orphan"} => x.sent.item \in known
  /\ x.op = "add" => x.item \in Temps /\ (x.at \in {"sent", "orphan"} => x.sent.item = x.item)
  /\ x.op = "restore" => x.item \in Reals
  /\ x.op = "add" /\ x.at = "served" => x.made \in Reals \cap known
  /\ x.undo \in known \cup {None}

\* The row of a create is there only once it was served, but for an excused item.
CreateOK(x, from, told) ==
  x.op = "add" =>
    /\ x.at \in InFlight \ {"served"} /\ x.item \notin told => \A r \in Reals : from[r] # x.item
    /\ x.at = "served" => from[x.made] = x.item
    /\ x.at = "orphan" => x.item \in told

\* Whoever still goes by a temp id goes by one that has not been answered.
NameOK(x, answered, told) ==
  x.at \in InFlight /\ x.op # "add" => x.cached /\ x.item \notin answered \ told

ItemOf(i, from) == IF i \in Reals THEN from[i] ELSE i

\* What is on disk is a mutation that was paused, of the same item.
DiskOK(x, d, from) ==
  /\ d.at \in {"free", "paused"}
  /\ d.at = "paused" =>
       /\ x.at # "free" /\ d.cached
       /\ d.op = "add" <=> x.op = "add"
       /\ d.op = "add" => d.item = x.item
       /\ x.at # "done" => x.op = d.op /\ ItemOf(x.item, from) = ItemOf(d.item, from)

AnsweredIds == {t \in Temps : Answered(t)}

SlotOK(m) ==
  /\ Sound(mut[m], Known) /\ Sound(disk[m], Known)
  /\ CreateOK(mut[m], origin, excused)
  /\ NameOK(mut[m], AnsweredIds, excused)
  /\ DiskOK(mut[m], disk[m], origin)

\* A temp id is one create's.
OneCreate ==
  \A m, n \in Slots : mut[m].op = "add" /\ mut[n].op = "add" /\ mut[m].item = mut[n].item => m = n

RowsOK ==
  /\ \A r \in Born : origin[r] \in Temps
  /\ \A r \in Reals : origin[r] = None \/ Used(origin[r])
  /\ screen \subseteq Known
  /\ screen \cap AnsweredIds \subseteq excused

OutboxInv == TypeOK /\ RowsOK /\ OneCreate /\ \A m \in Slots : SlotOK(m)

-----------------------------------------------------------------------------
(* The forms a mutation takes.                                             *)

\* A slot that is free, and what is left of one.
LEMMA Blanks ==
  /\ NoMutation \in Mutation /\ Done \in Mutation
  /\ NoMutation.at = "free" /\ NoMutation.op = None /\ NoMutation.item = None
  /\ NoMutation.undo = None /\ NoMutation.cached = FALSE
  /\ NoMutation.sent \in [item: Ids \cup {None}, body: Row]
  /\ Done.at = "done" /\ Done.op = None /\ Done.item = None /\ Done.undo = None
  /\ Done.cached = FALSE
<1>1. /\ NoMutation \in Mutation /\ NoMutation.at = "free" /\ NoMutation.op = None
      /\ NoMutation.item = None /\ NoMutation.undo = None /\ NoMutation.cached = FALSE
      /\ NoMutation.sent \in [item: Ids \cup {None}, body: Row]
  BY OutboxAssumption DEF NoMutation, Mutation, Stage, Row, Blank
<1>2. /\ Done \in Mutation /\ Done.at = "done" /\ Done.op = None /\ Done.item = None
      /\ Done.undo = None /\ Done.cached = FALSE
  BY <1>1 DEF Done, Mutation, Stage
<1> QED BY <1>1, <1>2

\* The fields of a mutation have their types.
LEMMA Fields ==
  ASSUME NEW x \in Mutation
  PROVE  /\ x.op \in Ops \cup {None} /\ x.item \in Ids \cup {None} /\ x.body \in Row
         /\ x.at \in Stage /\ x.made \in Reals \cup {None} /\ x.tries \in 0..Retries
         /\ x.cached \in BOOLEAN /\ x.undo \in Ids \cup {None}
         /\ x.sent.item \in Ids \cup {None} /\ x.sent.body \in Row
         /\ x.sent \in [item: Ids \cup {None}, body: Row]
  BY DEF Mutation

\* The parts of a new mutation,
LEMMA NewForm ==
  ASSUME NEW op \in Ops, NEW i \in Ids, NEW b \in Row
  PROVE  /\ New(op, i, b) \in Mutation
         /\ New(op, i, b).op = op /\ New(op, i, b).item = i /\ New(op, i, b).at = "mutate"
         /\ New(op, i, b).undo = None /\ New(op, i, b).cached /\ New(op, i, b).body = b
  BY Blanks DEF New, Mutation, Stage

\* ... of one that has ended,
LEMMA EndForm ==
  ASSUME NEW x \in Mutation
  PROVE  /\ End(x) \in Mutation /\ End(x).at = "done"
         /\ x.op = "add" => End(x).op = "add" /\ End(x).item = x.item /\ End(x).undo = None
         /\ x.op # "add" => End(x).op = None /\ End(x).undo = x.undo
<1>1. CASE x.op = "add"
  <2> DEFINE y == [Done EXCEPT !.op = "add", !.item = x.item, !.cached = x.cached]
  <2>1. y \in Mutation /\ y.at = "done" /\ y.op = "add" /\ y.item = x.item /\ y.undo = None
    BY Blanks, Fields DEF Mutation, Ops
  <2> QED BY <1>1, <2>1 DEF End
<1>2. CASE x.op # "add"
  <2> DEFINE y == [Done EXCEPT !.undo = x.undo]
  <2>1. y \in Mutation /\ y.at = "done" /\ y.op = None /\ y.undo = x.undo
    BY Blanks, Fields DEF Mutation
  <2> QED BY <1>2, <2>1 DEF End
<1> QED BY <1>1, <1>2

\* ... and of one that is sent again.
LEMMA AttemptForm ==
  ASSUME NEW x \in Mutation
  PROVE  /\ Attempt(x) \in Mutation /\ Attempt(x).at = "sent"
         /\ Attempt(x).op = x.op /\ Attempt(x).item = x.item /\ Attempt(x).undo = x.undo
         /\ Attempt(x).cached = x.cached /\ Attempt(x).sent.item = x.item
         /\ Attempt(x).sent.body = x.body /\ Attempt(x).body = x.body
<1> DEFINE s == [item |-> x.item, body |-> x.body]
<1>1. s \in [item: Ids \cup {None}, body: Row] /\ s.item = x.item /\ s.body = x.body
  BY Fields
<1> HIDE DEF s
<1> DEFINE y == [x EXCEPT !.at = "sent", !.sent = s]
<1>2. /\ y \in Mutation /\ y.at = "sent" /\ y.op = x.op /\ y.item = x.item
      /\ y.undo = x.undo /\ y.cached = x.cached /\ y.sent = s /\ y.body = x.body
  BY <1>1 DEF Mutation, Stage
<1>3. Attempt(x) = y
  BY DEF Attempt, s
<1> HIDE DEF y
<1> QED BY <1>1, <1>2, <1>3

\* A mutation whose stage alone changes, and one whose attempt is over.
LEMMA HandledForm ==
  ASSUME NEW x \in Mutation, NEW at \in Stage
  PROVE  /\ Handled(x, at) \in Mutation /\ Handled(x, at).at = at
         /\ Handled(x, at).op = x.op /\ Handled(x, at).item = x.item
         /\ Handled(x, at).undo = x.undo /\ Handled(x, at).cached = x.cached
         /\ Handled(x, at).made = x.made /\ Handled(x, at).tries = x.tries
         /\ Handled(x, at).body = x.body
<1> DEFINE s == NoMutation.sent
           y == [x EXCEPT !.at = at, !.sent = s]
<1>1. s \in [item: Ids \cup {None}, body: Row]
  BY Blanks
<1> HIDE DEF s
<1>2. /\ y \in Mutation /\ y.at = at /\ y.op = x.op /\ y.item = x.item
      /\ y.undo = x.undo /\ y.cached = x.cached /\ y.made = x.made /\ y.tries = x.tries
      /\ y.body = x.body
  BY <1>1 DEF Mutation
<1>3. Handled(x, at) = y
  BY DEF Handled, s
<1> HIDE DEF y
<1> QED BY <1>2, <1>3

\* What is sound stays sound when more ids are known.
LEMMA SoundGrows ==
  ASSUME NEW x, NEW known, NEW more, known \subseteq more, Sound(x, known)
  PROVE  Sound(x, more)
  BY DEF Sound

-----------------------------------------------------------------------------
(* One slot in one step.                                                   *)

\* Rows are only added, and of what is excused nothing is taken back.
Grows ==
  /\ Born \subseteq Born' /\ \A r \in Born : origin'[r] = origin[r]
  /\ excused \subseteq excused'
  /\ disk' = disk

\* No row appears that came from item t.
NoNews(t) == \A r \in Reals : origin'[r] = t => origin[r] = t

\* How a step may leave a slot: as it was but for its payload, at its end, at
\* another stage of its life, or at the first if it was free.
Stays(x, y) ==
  /\ y.op = x.op /\ y.item = x.item /\ y.at = x.at /\ y.made = x.made
  /\ y.cached = x.cached \/ x.op = "add"
Stops(x, y) ==
  y.at = "done" /\ x.at # "free"
Proceeds(x, y) ==
  /\ y.at = x.at \/ (x.at \notin {"free", "done"} /\ y.at \in InFlight)
  /\ y.op = x.op /\ ItemOf(y.item, origin') = ItemOf(x.item, origin)
  /\ x.op = "add" => x.at \in InFlight /\ y.at \in InFlight \ {"served"}
Begins(x, y) ==
  x.at = "free" /\ y.at \in {"mutate", "clicked"} /\ y.op # "add"

Moved(n) ==
  LET x == mut[n]
      y == mut'[n]
  IN
  /\ Sound(y, Known')
  /\ y.op = "add" <=> x.op = "add"
  /\ x.op = "add" => y.item = x.item
  /\ Stays(x, y) \/ Stops(x, y) \/ Proceeds(x, y) \/ Begins(x, y)

\* A slot that moves keeps what is said of it.
LEMMA SlotMoved ==
  ASSUME TypeOK, RowsOK, NEW n \in Slots, SlotOK(n), Grows, Moved(n),
         mut[n].op = "add" /\ mut'[n].at # "done" => NoNews(mut[n].item),
         mut[n].op = "add" /\ mut[n].at = "served" =>
           mut'[n].at \in {"served", "done"} \/ mut[n].item \in excused',
         NameOK(mut'[n], AnsweredIds', excused')
  PROVE  SlotOK(n)'
<1> DEFINE x == mut[n]
           y == mut'[n]
           d == disk[n]
<1>1. /\ Sound(x, Known) /\ Sound(d, Known) /\ CreateOK(x, origin, excused) /\ DiskOK(x, d, origin)
      /\ Sound(y, Known') /\ (y.op = "add" <=> x.op = "add") /\ (x.op = "add" => y.item = x.item)
      /\ Stays(x, y) \/ Stops(x, y) \/ Proceeds(x, y) \/ Begins(x, y)
      /\ x.op = "add" /\ y.at # "done" => NoNews(x.item)
      /\ x.op = "add" /\ x.at = "served" => y.at \in {"served", "done"} \/ x.item \in excused'
  BY DEF SlotOK, Moved
<1>2. /\ Known \subseteq Known' /\ Born \subseteq Born' /\ (\A r \in Born : origin'[r] = origin[r])
      /\ excused \subseteq excused' /\ disk'[n] = d
  BY DEF Grows, Known
<1>3. Born \subseteq Reals /\ Temps \cap Reals = {}
  BY OutboxAssumption DEF Born
<1> HIDE DEF x, y, d
<1>4. \A i \in Known : ItemOf(i, origin') = ItemOf(i, origin)
  BY <1>2, <1>3 DEF ItemOf, Known
<1>5. Sound(d, Known')
  BY <1>1, <1>2, SoundGrows
<1>6. CreateOK(y, origin', excused')
  <2> SUFFICES ASSUME x.op = "add"
               PROVE  /\ y.at \in InFlight \ {"served"} /\ y.item \notin excused'
                           => \A r \in Reals : origin'[r] # y.item
                      /\ y.at = "served" => origin'[y.made] = y.item
                      /\ y.at = "orphan" => y.item \in excused'
    BY <1>1 DEF CreateOK
  <2>1. y.item = x.item /\ y.op = "add"
    BY <1>1
  <2>2. CASE Stays(x, y)
    <3>1. y.at = "served" => x.made \in Born
      BY <1>1, <1>3, <2>2, OutboxAssumption DEF Stays, Sound, Known
    <3> QED BY <1>1, <1>2, <2>1, <2>2, <3>1 DEF Stays, CreateOK, NoNews, InFlight
  <2>3. CASE Stops(x, y)
    BY <2>3 DEF Stops, InFlight
  <2>4. CASE Proceeds(x, y)
    BY <1>1, <1>2, <2>1, <2>4 DEF Proceeds, CreateOK, NoNews, InFlight
  <2>5. CASE Begins(x, y)
    BY <2>1, <2>5 DEF Begins
  <2> QED BY <1>1, <2>2, <2>3, <2>4, <2>5
<1>7. DiskOK(y, d, origin')
  <2> SUFFICES ASSUME d.at = "paused"
               PROVE  /\ y.at # "free" /\ d.cached
                      /\ d.op = "add" <=> y.op = "add"
                      /\ d.op = "add" => d.item = y.item
                      /\ y.at # "done" => y.op = d.op /\ ItemOf(y.item, origin') = ItemOf(d.item, origin')
    BY <1>1 DEF DiskOK
  <2>1. /\ x.at # "free" /\ d.cached /\ (d.op = "add" <=> x.op = "add") /\ (d.op = "add" => d.item = x.item)
        /\ x.at # "done" => x.op = d.op /\ ItemOf(x.item, origin) = ItemOf(d.item, origin)
    BY <1>1 DEF DiskOK
  <2>2. d.item \in Known
    BY <1>1 DEF Sound, Pending, Stage
  <2>3. CASE Stays(x, y)
    <3>1. ASSUME y.at # "done" PROVE ItemOf(y.item, origin') = ItemOf(d.item, origin')
      <4>1. x.at \in Pending \cup {"orphan"}
        BY <2>1, <2>3, <3>1, <1>1, Fields DEF Stays, Pending, Sound
      <4>2. x.item \in Known
        BY <1>1, <4>1 DEF Sound
      <4> QED BY <1>4, <2>1, <2>2, <2>3, <3>1, <4>2 DEF Stays
    <3> QED BY <1>1, <2>1, <2>3, <3>1 DEF Stays
  <2>4. CASE Stops(x, y)
    BY <1>1, <2>1, <2>4 DEF Stops
  <2>5. CASE Proceeds(x, y)
    BY <1>1, <1>4, <2>1, <2>2, <2>5 DEF Proceeds, InFlight
  <2>6. CASE Begins(x, y)
    BY <2>1, <2>6 DEF Begins
  <2> QED BY <1>1, <2>3, <2>4, <2>5, <2>6
<1> QED BY <1>1, <1>2, <1>5, <1>6, <1>7 DEF SlotOK, x, y, d

\* A create that was served and has not been answered loses its answer only
\* for an excused item.
Told(n) ==
  mut[n].op = "add" /\ mut[n].at = "served" => mut'[n].at = "served" \/ mut[n].item \in excused'

\* Ids that were answered anew are excused.
LEMMA FewAnswers ==
  ASSUME RowsOK, excused \subseteq excused',
         \A n \in Slots : SlotOK(n) /\ Told(n),
         \A n \in Slots : mut'[n].op = "add" /\ mut'[n].at = "done" =>
           /\ mut[n].op = "add" /\ mut[n].item = mut'[n].item
           /\ NoNews(mut[n].item) \/ mut[n].item \in excused'
  PROVE  AnsweredIds' \subseteq AnsweredIds \cup excused'
<1> SUFFICES ASSUME NEW t \in Temps, Answered(t)', t \notin excused'
             PROVE  Answered(t)
  BY DEF AnsweredIds
<1>1. PICK m \in Slots : /\ mut'[m].op = "add" /\ mut'[m].item = t /\ mut'[m].at = "done"
                         /\ \E r \in Reals : origin'[r] = t
  BY DEF Answered
<1>2. mut[m].op = "add" /\ mut[m].item = t /\ NoNews(t)
  BY <1>1
<1>3. PICK r \in Reals : origin[r] = t
  BY <1>1, <1>2 DEF NoNews
<1>4. /\ Sound(mut[m], Known) /\ CreateOK(mut[m], origin, excused) /\ Told(m)
  BY DEF SlotOK
<1>5. mut[m].at = "done"
  <2>1. mut[m].at \in Stage
    BY <1>4, Fields DEF Sound
  <2>2. mut[m].at \notin InFlight \ {"served"}
    BY <1>2, <1>3, <1>4 DEF CreateOK
  <2>3. mut[m].at # "served"
    BY <1>1, <1>2, <1>4 DEF Told
  <2>4. mut[m].at \notin {"orphan", "free", "clicked"}
    BY <1>2, <1>4, OutboxAssumption DEF CreateOK, Sound
  <2> QED BY <2>1, <2>2, <2>3, <2>4 DEF Stage, InFlight
<1> QED BY <1>2, <1>3, <1>5 DEF Answered

-----------------------------------------------------------------------------
(* A step that moves slots on and adds no row.                             *)

OthersOK ==
  /\ {link, online, visible} \subseteq BOOLEAN
  /\ disk \in [Slots -> Mutation]
  /\ server \in [Reals -> {"unborn", "live", "deleted"}]
  /\ row \in [Reals -> Row]
  /\ origin \in [Reals -> Temps \cup {None}]
  /\ wish \in [Temps -> [want: BOOLEAN, row: Row]]
  /\ excused \subseteq Temps
  /\ troubles \in 0..MaxTroubles

Advances(n) == Moved(n) /\ Told(n) /\ NameOK(mut'[n], AnsweredIds, excused')

\* The invariant, of what is not a slot.
LEMMA Shape ==
  OutboxInv <=>
    /\ OthersOK /\ RowsOK /\ OneCreate
    /\ mut \in [Slots -> Mutation] /\ \A m \in Slots : SlotOK(m)
<1>1. Known \subseteq Ids
  BY DEF Known, Ids, Born
<1> QED BY <1>1 DEF OutboxInv, OthersOK, TypeOK, RowsOK

\* When every slot advances the invariant is kept: the shape of each step below.
LEMMA AllMove ==
  ASSUME OutboxInv, OthersOK', mut' = [n \in Slots |-> mut'[n]],
         origin' = origin, Born' = Born, disk' = disk, excused \subseteq excused',
         screen' \subseteq Known, screen' \cap AnsweredIds \subseteq excused',
         \A n \in Slots : Advances(n)
  PROVE  OutboxInv'
<1> USE DEF Advances
<1>1. Grows /\ (\A t : NoNews(t)) /\ Known' = Known
  BY DEF Grows, NoNews, Known
<1>0. RowsOK /\ OneCreate /\ \A n \in Slots : SlotOK(n)
  BY Shape
<1>2. \A n \in Slots : (mut'[n].op = "add" <=> mut[n].op = "add")
                       /\ (mut[n].op = "add" => mut'[n].item = mut[n].item)
  BY DEF Moved
<1>3. AnsweredIds' \subseteq AnsweredIds \cup excused'
  BY <1>0, <1>1, <1>2, FewAnswers
<1>4. mut' \in [Slots -> Mutation]
  BY DEF Moved, Sound
<1>5. OneCreate'
  BY <1>0, <1>2 DEF OneCreate
<1>6. RowsOK'
  BY <1>0, <1>1, <1>2, <1>3 DEF RowsOK, Used
<1>7. ASSUME NEW n \in Slots PROVE SlotOK(n)'
  <2>1. NameOK(mut'[n], AnsweredIds', excused')
    BY <1>3 DEF NameOK
  <2>2. TypeOK /\ RowsOK /\ SlotOK(n) /\ Moved(n) /\ Told(n)
    BY DEF OutboxInv
  <2> QED BY <1>1, <2>1, <2>2, SlotMoved DEF Told
<1>8. Known' \subseteq Ids
  BY DEF Known, Ids, Born
<1> QED BY <1>4, <1>5, <1>6, <1>7, <1>8 DEF OutboxInv, OthersOK, TypeOK, RowsOK

-----------------------------------------------------------------------------
(* What the steps do to a slot.                                            *)

\* A slot that does not move advances,
LEMMA SlotSame ==
  ASSUME NEW n \in Slots, SlotOK(n), Known \subseteq Known', excused \subseteq excused',
         mut'[n] = mut[n]
  PROVE  Advances(n)
<1>1. Sound(mut'[n], Known')
  BY SoundGrows DEF SlotOK
<1>2. Stays(mut[n], mut'[n])
  BY DEF Stays
<1> QED BY <1>1, <1>2 DEF Advances, Moved, Told, NameOK, SlotOK

\* ... so does one that ends,
LEMMA SlotEnds ==
  ASSUME NEW n \in Slots, SlotOK(n), Known \subseteq Known', excused \subseteq excused',
         mut[n].at # "free", mut'[n] = End(mut[n]),
         mut[n].op = "add" /\ mut[n].at = "served" => mut[n].item \in excused'
  PROVE  Advances(n)
<1> DEFINE x == mut[n]
           y == mut'[n]
<1>1. Sound(x, Known)
  BY DEF SlotOK
<1>2. /\ y \in Mutation /\ y.at = "done"
      /\ x.op = "add" => y.op = "add" /\ y.item = x.item /\ y.undo = None
      /\ x.op # "add" => y.op = None /\ y.undo = x.undo
  BY <1>1, EndForm DEF Sound
<1> HIDE DEF x, y
<1>3. Sound(y, Known')
  BY <1>1, <1>2, OutboxAssumption DEF Sound, Pending, Stage
<1>4. (y.op = "add" <=> x.op = "add") /\ Stops(x, y)
  BY <1>2, OutboxAssumption DEF Stops, x
<1> QED BY <1>2, <1>3, <1>4 DEF Advances, Moved, Told, NameOK, InFlight, x, y

\* ... one on its way,
LEMMA SlotProceeds ==
  ASSUME NEW n \in Slots, SlotOK(n), Known \subseteq Known', excused \subseteq excused', origin' = origin,
         mut'[n] \in Mutation, mut[n].at \in InFlight, mut'[n].at \in InFlight,
         mut'[n].at = "served" => mut[n].op # "add",
         mut'[n].op = mut[n].op, mut'[n].item = mut[n].item, mut'[n].undo = mut[n].undo,
         mut'[n].cached = mut[n].cached, mut'[n].at = "sent" => mut'[n].sent.item = mut[n].item,
         mut[n].op = "add" /\ mut[n].at = "served" => mut[n].item \in excused'
  PROVE  Advances(n)
<1> DEFINE x == mut[n]
           y == mut'[n]
<1>1. Sound(x, Known) /\ NameOK(x, AnsweredIds, excused)
  BY DEF SlotOK
<1> HIDE DEF x, y
<1>2. Sound(y, Known')
  BY <1>1 DEF Sound, Pending, Stage, InFlight, x, y
<1>3. Proceeds(x, y)
  BY DEF Proceeds, ItemOf, InFlight, x, y
<1>4. NameOK(y, AnsweredIds, excused')
  BY <1>1 DEF NameOK, x, y
<1> QED BY <1>2, <1>3, <1>4 DEF Advances, Moved, Told, x, y

\* Another attempt.
LEMMA SlotAttempts ==
  ASSUME NEW n \in Slots, SlotOK(n), Known \subseteq Known', excused \subseteq excused', origin' = origin,
         mut[n].at \in InFlight \ {"served"}, mut'[n] = Attempt(mut[n])
  PROVE  Advances(n)
<1>1. mut[n] \in Mutation
  BY DEF SlotOK, Sound
<1> QED BY <1>1, AttemptForm, SlotProceeds DEF InFlight

-----------------------------------------------------------------------------
(* The steps of one slot.                                                  *)

\* An id that is known stands for an item.
LEMMA ItemIsTemp ==
  ASSUME OutboxInv, NEW i \in Known
  PROVE  Item(i) \in Temps /\ (i \in Temps => Item(i) = i)
  BY OutboxAssumption DEF OutboxInv, RowsOK, Known, Born, Item

\* A step of one slot that adds no row.
LEMMA OneMoves ==
  ASSUME OutboxInv, OthersOK', NEW m \in Slots, NEW y, mut' = [mut EXCEPT ![m] = y],
         origin' = origin, Born' = Born, disk' = disk, excused \subseteq excused',
         screen' \subseteq Known, screen' \cap AnsweredIds \subseteq excused',
         mut'[m] = y => Advances(m)
  PROVE  OutboxInv'
<1>1. mut \in [Slots -> Mutation] /\ \A n \in Slots : SlotOK(n)
  BY Shape
<1>2. mut' = [n \in Slots |-> mut'[n]] /\ mut'[m] = y
  BY <1>1
<1>3. Known \subseteq Known'
  BY DEF Known
<1>4. ASSUME NEW n \in Slots PROVE Advances(n)
  <2>1. CASE n = m
    BY <1>2, <2>1
  <2>2. CASE n # m
    <3>1. mut'[n] = mut[n]
      BY <1>1, <2>2
    <3> QED BY <1>1, <1>3, <3>1, SlotSame
  <2> QED BY <2>1, <2>2
<1> QED BY <1>2, <1>4, AllMove

\* onMutate has run.
LEMMA StartOK ==
  ASSUME OutboxInv, NEW m \in Slots, Start(m)
  PROVE  OutboxInv'
<1> DEFINE x == mut[m]
<1>1. /\ OthersOK /\ RowsOK /\ SlotOK(m) /\ x.at = "mutate"
      /\ mut' = [mut EXCEPT ![m] = Attempt(x)]
      /\ screen' = IF x.op \in {"add", "restore"} THEN screen \cup {x.item} ELSE screen
      /\ UNCHANGED <<link, online, visible, disk, troubles, server, row, origin, wish, excused>>
  BY Shape DEF Start, device, backend, ghosts
<1>2. OthersOK' /\ Born' = Born /\ Known' = Known
  BY <1>1 DEF OthersOK, Born, Known
<1>3. Advances(m) \/ mut'[m] # Attempt(x)
  BY <1>1, <1>2, SlotAttempts DEF InFlight
<1>4. /\ Sound(x, Known) /\ CreateOK(x, origin, excused)
  BY <1>1 DEF SlotOK
<1> HIDE DEF x
<1>5. x.item \in Known
  BY <1>1, <1>4 DEF Sound, Pending, Stage
<1>6. x.op = "restore" => x.item \notin Temps
  BY <1>4, OutboxAssumption DEF Sound
<1>7. x.op = "add" => x.item \in excused \/ x.item \notin AnsweredIds
  BY <1>1, <1>4 DEF CreateOK, InFlight, AnsweredIds, Answered
<1>8. screen' \subseteq Known /\ screen' \cap AnsweredIds \subseteq excused'
  BY <1>1, <1>5, <1>6, <1>7 DEF RowsOK, AnsweredIds
<1> QED BY <1>1, <1>2, <1>3, <1>8, OneMoves

\* A 4xx.
LEMMA RefuseOK ==
  ASSUME OutboxInv, NEW m \in Slots, Refuse(m)
  PROVE  OutboxInv'
<1> DEFINE x == mut[m]
           t == Item(x.item)
<1>1. /\ OthersOK /\ RowsOK /\ SlotOK(m) /\ x.at = "refused"
      /\ mut' = [mut EXCEPT ![m] = End(x)] /\ excused' = excused \cup {t}
      /\ UNCHANGED <<link, online, visible, disk, troubles, screen, server, row, origin, wish>>
  BY Shape DEF Refuse, device, backend
<1>2. x.item \in Known
  BY <1>1 DEF SlotOK, Sound, Pending, Stage
<1>3. t \in Temps
  BY <1>2, ItemIsTemp
<1> HIDE DEF t
<1>4. OthersOK' /\ Born' = Born /\ Known' = Known
  BY <1>1, <1>3 DEF OthersOK, Born, Known
<1>5. Advances(m) \/ mut'[m] # End(x)
  BY <1>1, <1>4, SlotEnds
<1>6. screen' \subseteq Known /\ screen' \cap AnsweredIds \subseteq excused'
  BY <1>1 DEF RowsOK
<1> QED BY <1>1, <1>4, <1>5, <1>6, OneMoves

\* An attempt is lost.
LEMMA LoseAttemptOK ==
  ASSUME OutboxInv, NEW m \in Slots, LoseAttempt(m)
  PROVE  OutboxInv'
<1> DEFINE x == mut[m]
           t == Item(x.item)
           last == ~MayRetry(x)
           h == Handled(x, "backoff")
           y == [h EXCEPT !.tries = h.tries + 1, !.made = None]
           why == last \/ (x.op = "add" /\ x.at = "served")
<1>1. /\ OthersOK /\ RowsOK /\ SlotOK(m) /\ x.at \in {"sent", "served", "refused"}
      /\ IF link THEN Trouble ELSE UNCHANGED troubles
      /\ mut' = [mut EXCEPT ![m] = IF last THEN End(x) ELSE y]
      /\ screen' = IF last /\ x.op = "add" THEN screen \ {x.item} ELSE screen
      /\ excused' = IF why THEN excused \cup {t} ELSE excused
      /\ UNCHANGED <<link, online, visible, disk, server, row, origin, wish>>
  BY Shape DEF LoseAttempt, backend, Excuse
<1>2. x.item \in Known /\ Sound(x, Known) /\ x \in Mutation
  BY <1>1 DEF SlotOK, Sound, Pending, Stage
<1>3. t \in Temps /\ (x.op = "add" => t = x.item)
  BY <1>2, ItemIsTemp DEF Sound
<1>4. ASSUME ~last
      PROVE  /\ y \in Mutation /\ y.at = "backoff" /\ y.op = x.op /\ y.item = x.item
             /\ y.undo = x.undo /\ y.cached = x.cached
  <2>1. /\ h \in Mutation /\ h.at = "backoff" /\ h.op = x.op /\ h.item = x.item
        /\ h.undo = x.undo /\ h.cached = x.cached /\ h.tries = x.tries
    BY <1>2, HandledForm DEF Stage
  <2>2. h.tries + 1 \in 0..Retries
    BY <1>2, <1>4, <2>1, Fields, OutboxAssumption DEF MayRetry
  <2> HIDE DEF h
  <2> QED BY <2>1, <2>2 DEF Mutation
<1> HIDE DEF t, y, last
<1>5. troubles' \in 0..MaxTroubles
  BY <1>1, OutboxAssumption DEF OthersOK, Trouble
<1>6. OthersOK' /\ Born' = Born /\ Known' = Known
  BY <1>1, <1>3, <1>5 DEF OthersOK, Born, Known
<1>7. excused \subseteq excused' /\ (x.op = "add" /\ x.at = "served" => x.item \in excused')
  BY <1>1, <1>3
<1>8. CASE last
  <2>1. mut' = [mut EXCEPT ![m] = End(x)]
    BY <1>1, <1>8
  <2>2. Advances(m) \/ mut'[m] # End(x)
    BY <1>1, <1>6, <1>7, SlotEnds
  <2>3. screen' \subseteq Known /\ screen' \cap AnsweredIds \subseteq excused'
    BY <1>1, <1>7 DEF RowsOK
  <2> QED BY <1>1, <1>6, <1>7, <2>1, <2>2, <2>3, OneMoves
<1>9. CASE ~last
  <2>1. mut' = [mut EXCEPT ![m] = y]
    BY <1>1, <1>9
  <2>2. Advances(m) \/ mut'[m] # y
    BY <1>1, <1>4, <1>6, <1>7, <1>9, SlotProceeds DEF InFlight
  <2>3. screen' \subseteq Known /\ screen' \cap AnsweredIds \subseteq excused'
    BY <1>1, <1>7 DEF RowsOK
  <2> QED BY <1>1, <1>6, <1>7, <2>1, <2>2, <2>3, OneMoves
<1> QED BY <1>8, <1>9

\* The backoff is over: sent again, or paused.
LEMMA BackoffEndsOK ==
  ASSUME OutboxInv, NEW m \in Slots, BackoffEnds(m)
  PROVE  OutboxInv'
<1> DEFINE x == mut[m]
           p == [x EXCEPT !.at = "paused"]
           y == IF CanContinue THEN Attempt(x) ELSE IF x.cached THEN p ELSE End(x)
<1>1. /\ OthersOK /\ RowsOK /\ SlotOK(m) /\ x.at = "backoff"
      /\ mut' = [mut EXCEPT ![m] = y]
      /\ UNCHANGED <<link, online, visible, disk, troubles, screen, server, row, origin, wish, excused>>
  BY Shape DEF BackoffEnds, device, backend, ghosts
<1>2. x \in Mutation
  BY <1>1 DEF SlotOK, Sound
<1>3. /\ p \in Mutation /\ p.at = "paused" /\ p.op = x.op /\ p.item = x.item
      /\ p.undo = x.undo /\ p.cached = x.cached
  BY <1>2 DEF Mutation, Stage
<1> HIDE DEF p
<1>4. OthersOK' /\ Born' = Born /\ Known' = Known
  BY <1>1 DEF OthersOK, Born, Known
<1>5. ASSUME mut'[m] = y PROVE Advances(m)
  <2>1. CASE y = Attempt(x)
    BY <1>1, <1>4, <1>5, <2>1, SlotAttempts DEF InFlight
  <2>2. CASE y = p
    BY <1>1, <1>3, <1>4, <1>5, <2>2, SlotProceeds DEF InFlight
  <2>3. CASE y = End(x)
    BY <1>1, <1>4, <1>5, <2>3, SlotEnds
  <2> QED BY <2>1, <2>2, <2>3
<1> HIDE DEF y
<1>6. screen' \subseteq Known /\ screen' \cap AnsweredIds \subseteq excused'
  BY <1>1 DEF RowsOK
<1> QED BY <1>1, <1>4, <1>5, <1>6, OneMoves

-----------------------------------------------------------------------------
(* The user's taps.                                                        *)

\* A slot of which only what names no item changes.
LEMMA SlotStays ==
  ASSUME NEW n \in Slots, SlotOK(n), Known \subseteq Known', excused \subseteq excused',
         mut'[n] \in Mutation, mut'[n].op = mut[n].op, mut'[n].item = mut[n].item,
         mut'[n].at = mut[n].at, mut'[n].made = mut[n].made, mut'[n].sent = mut[n].sent,
         mut'[n].undo \in {mut[n].undo, None}, mut'[n].cached = mut[n].cached \/ mut[n].op = "add"
  PROVE  Advances(n)
<1> DEFINE x == mut[n]
           y == mut'[n]
<1>1. Sound(x, Known) /\ NameOK(x, AnsweredIds, excused)
  BY DEF SlotOK
<1> HIDE DEF x, y
<1>2. Sound(y, Known') /\ Stays(x, y) /\ NameOK(y, AnsweredIds, excused')
  BY <1>1 DEF Sound, Stays, NameOK, x, y
<1> QED BY <1>2 DEF Advances, Moved, Told, x, y

\* ... and one that begins.
LEMMA SlotBegins ==
  ASSUME NEW n \in Slots, SlotOK(n), Known \subseteq Known', mut[n].at = "free",
         mut'[n] \in Mutation, mut'[n].op \in Ops \ {"add"}, mut'[n].item \in Known,
         mut'[n].op = "restore" => mut'[n].item \in Reals, mut'[n].undo = None,
         mut'[n].at \in {"mutate", "clicked"}, mut'[n].at = "clicked" => mut'[n].op = "delete",
         mut'[n].at = "mutate" => mut'[n].cached /\ mut'[n].item \notin AnsweredIds \ excused'
  PROVE  Advances(n)
<1> DEFINE x == mut[n]
           y == mut'[n]
<1>1. x.op = None
  BY DEF SlotOK, Sound
<1> HIDE DEF x, y
<1>2. y.op # "add" /\ y.op # None /\ x.op # "add"
  BY <1>1, OutboxAssumption DEF Ops, y
<1>3. Sound(y, Known') /\ Begins(x, y) /\ NameOK(y, AnsweredIds, excused')
  BY <1>2 DEF Sound, Begins, NameOK, InFlight, x, y
<1> QED BY <1>2, <1>3 DEF Advances, Moved, Told, x, y

\* A row on the screen is known, and not by an id that was answered.
LEMMA OnScreen ==
  ASSUME OutboxInv, NEW i \in screen
  PROVE  i \in Known /\ i \in Ids /\ i \notin AnsweredIds \ excused /\ Item(i) \in Temps
<1>1. i \in Known /\ i \notin AnsweredIds \ excused
  BY Shape DEF RowsOK
<1> QED BY <1>1, ItemIsTemp DEF Known, Born, Ids

\* What a statement makes of a row is a row.
LEMMA OutcomeInRow ==
  ASSUME NEW b \in Row, NEW op
  PROVE  Outcome(b, op) \in Row
  BY DEF Outcome, Row

\* A tap on a row of the screen.
LEMMA TapItemOK ==
  ASSUME OutboxInv, NEW m \in Slots, NEW i \in Ids, NEW op \in EditOps, TapItem(m, i, op)
  PROVE  OutboxInv'
<1> DEFINE t == Item(i)
           w == [wish EXCEPT ![t].row = Outcome(@, op)]
<1>1. /\ OthersOK /\ RowsOK /\ \A n \in Slots : SlotOK(n)
      /\ i \in screen /\ wish' = w
      /\ UNCHANGED <<link, online, visible, disk, troubles, screen, server, row, origin>>
  BY Shape DEF TapItem, device, backend
<1>2. i \in Known /\ t \in Temps /\ i \notin AnsweredIds \ excused
  BY <1>1, OnScreen
<1>3. w \in [Temps -> [want: BOOLEAN, row: Row]]
  <2>1. wish \in [Temps -> [want: BOOLEAN, row: Row]]
    BY <1>1 DEF OthersOK
  <2> DEFINE b == Outcome(wish[t].row, op)
  <2>2. wish[t] \in [want: BOOLEAN, row: Row] /\ wish[t].row \in Row
    BY <1>2, <2>1
  <2>3. b \in Row
    BY <2>2, OutcomeInRow
  <2> HIDE DEF t, b
  <2>4. [wish EXCEPT ![t].row = b] \in [Temps -> [want: BOOLEAN, row: Row]]
    BY <1>2, <2>1, <2>2, <2>3
  <2> QED BY <2>4 DEF b
<1>4. \E why : excused' = IF why THEN excused \cup {t} ELSE excused
  BY DEF TapItem, Excuse
<1> HIDE DEF w
<1>5. excused \subseteq excused' /\ excused' \subseteq excused \cup {t}
  BY <1>4
<1>6. OthersOK' /\ Born' = Born /\ Known' = Known
  BY <1>1, <1>2, <1>3, <1>5 DEF OthersOK, Born, Known
<1>7. screen' \subseteq Known /\ screen' \cap AnsweredIds \subseteq excused'
  BY <1>1, <1>5 DEF RowsOK
<1>8. CASE Queued(i) # {}
  <2>1. PICK c \in Queued(i) : Fold(c, op)
    BY <1>8 DEF TapItem
  <2> DEFINE x == mut[c]
             b == Outcome(x.body, op)
             y == [x EXCEPT !.body = b]
  <2>2. c \in Slots /\ mut' = [mut EXCEPT ![c] = y] /\ x.op = "add"
    BY <2>1, Shape DEF Queued, Fold
  <2>3. x \in Mutation /\ SlotOK(c)
    BY <1>1, <2>2 DEF SlotOK, Sound
  <2>4. b \in Row
    BY <2>3, OutcomeInRow, Fields
  <2> HIDE DEF b
  <2>5. /\ y \in Mutation /\ y.op = x.op /\ y.item = x.item /\ y.at = x.at /\ y.made = x.made
        /\ y.sent = x.sent /\ y.undo = x.undo /\ y.cached = x.cached
    BY <2>3, <2>4 DEF Mutation
  <2> HIDE DEF y
  <2>6. ASSUME mut'[c] = y PROVE Advances(c)
    BY <1>5, <1>6, <2>2, <2>3, <2>5, <2>6, SlotStays
  <2> QED BY <1>1, <1>5, <1>6, <1>7, <2>2, <2>6, OneMoves
<1>9. CASE Queued(i) = {}
  <2> DEFINE y == New(op, i, Blank)
  <2>1. mut[m].at = "free" /\ mut' = [mut EXCEPT ![m] = y]
    BY <1>9 DEF TapItem
  <2>2. Blank \in Row /\ op \in Ops /\ op \notin {"add", "restore", "delete"}
    BY OutboxAssumption DEF Blank, Row, Ops
  <2>3. /\ y \in Mutation /\ y.op = op /\ y.item = i /\ y.at = "mutate" /\ y.undo = None /\ y.cached
    BY <2>2, NewForm
  <2> HIDE DEF y
  <2>4. ASSUME mut'[m] = y PROVE Advances(m)
    BY <1>1, <1>2, <1>5, <1>6, <2>1, <2>2, <2>3, <2>4, SlotBegins
  <2> QED BY <1>1, <1>5, <1>6, <1>7, <2>1, <2>4, OneMoves
<1> QED BY <1>8, <1>9

\* A removal up to its await,
LEMMA ClickRemoveOK ==
  ASSUME OutboxInv, NEW m \in Slots, NEW i \in Ids, ClickRemove(m, i)
  PROVE  OutboxInv'
<1> DEFINE y == [NoMutation EXCEPT !.op = "delete", !.item = i, !.at = "clicked"]
<1>1. /\ OthersOK /\ RowsOK /\ SlotOK(m) /\ mut[m].at = "free" /\ i \in screen
      /\ mut' = [mut EXCEPT ![m] = y]
      /\ UNCHANGED <<link, online, visible, disk, troubles, screen, server, row, origin, wish, excused>>
  BY Shape DEF ClickRemove, device, backend, ghosts
<1>2. i \in Known
  BY <1>1, OnScreen
<1>3. y \in Mutation /\ y.op = "delete" /\ y.item = i /\ y.at = "clicked" /\ y.undo = None
  BY Blanks DEF Mutation, Stage, Ops
<1> HIDE DEF y
<1>4. OthersOK' /\ Born' = Born /\ Known' = Known
  BY <1>1 DEF OthersOK, Born, Known
<1>5. ASSUME mut'[m] = y PROVE Advances(m)
  BY <1>1, <1>2, <1>3, <1>4, <1>5, SlotBegins DEF Ops
<1>6. screen' \subseteq Known /\ screen' \cap AnsweredIds \subseteq excused'
  BY <1>1 DEF RowsOK
<1> QED BY <1>1, <1>4, <1>5, <1>6, OneMoves

\* ... and after it.
LEMMA RemoveItemOK ==
  ASSUME OutboxInv, NEW m \in Slots, RemoveItem(m)
  PROVE  OutboxInv'
<1> DEFINE x == mut[m]
           i == x.item
           t == Item(i)
           w == [wish EXCEPT ![t].want = FALSE]
           creates == Queued(i)
           a == [x EXCEPT !.at = "mutate", !.cached = TRUE, !.undo = i]
           b == [Done EXCEPT !.undo = i]
<1>1. /\ OthersOK /\ RowsOK /\ (\A n \in Slots : SlotOK(n))
      /\ x.at = "clicked" /\ screen' = screen \ {i} /\ wish' = w
      /\ UNCHANGED <<link, online, visible, disk, troubles, server, row, origin>>
  BY Shape DEF RemoveItem, device, backend
<1>2. mut' = [n \in Slots |-> CASE n = m -> IF creates = {} THEN a ELSE b
                               [] n \in creates -> Drop(mut[n])
                               [] OTHER -> mut[n]]
  BY DEF RemoveItem
<1>3. /\ \E why : excused' = IF why THEN excused \cup {t} ELSE excused
      /\ Answered(i) => t \in excused'
  BY DEF RemoveItem, Excuse
<1>4. /\ x \in Mutation /\ i \in Known /\ i \in Ids /\ x.op = "delete" /\ Sound(x, Known)
      /\ t \in Temps /\ (i \in Temps => t = i)
  <2>1. x \in Mutation /\ i \in Known /\ x.op = "delete" /\ Sound(x, Known)
    BY <1>1 DEF SlotOK, Sound, Pending, Stage
  <2> QED BY <2>1, ItemIsTemp DEF Known, Ids, Born
<1> HIDE DEF t
<1>5. w \in [Temps -> [want: BOOLEAN, row: Row]]
  BY <1>1, <1>4 DEF OthersOK
<1> HIDE DEF w, i
<1>6. excused \subseteq excused' /\ excused' \subseteq excused \cup {t} /\ i \notin AnsweredIds \ excused'
  BY <1>3, <1>4 DEF AnsweredIds
<1>7. OthersOK' /\ Born' = Born /\ Known' = Known
  BY <1>1, <1>4, <1>5, <1>6 DEF OthersOK, Born, Known
<1>8. screen' \subseteq Known /\ screen' \cap AnsweredIds \subseteq excused'
  BY <1>1, <1>6 DEF RowsOK
<1>9. /\ a \in Mutation /\ a.at = "mutate" /\ a.cached /\ a.undo = i /\ a.op = x.op /\ a.item = i
      /\ a.sent = x.sent /\ a.made = x.made
  BY <1>4 DEF Mutation, Stage, i
<1>10. b \in Mutation /\ b.at = "done" /\ b.undo = i /\ b.op = None
  BY <1>4, Blanks DEF Mutation
<1> HIDE DEF a, b
<1>11. ASSUME NEW n \in Slots PROVE Advances(n)
  <2>1. SlotOK(n)
    BY <1>1
  <2>2. CASE n = m /\ creates = {}
    <3>1. mut'[m] = a
      BY <1>2, <2>2
    <3>2. Sound(a, Known')
      BY <1>4, <1>7, <1>9, OutboxAssumption DEF Sound, Pending, Stage
    <3>3. Proceeds(x, a)
      BY <1>1, <1>4, <1>9 DEF Proceeds, InFlight, ItemOf, i
    <3>4. NameOK(a, AnsweredIds, excused')
      BY <1>6, <1>9 DEF NameOK
    <3> QED BY <1>4, <1>9, <2>2, <3>1, <3>2, <3>3, <3>4 DEF Advances, Moved, Told
  <2>3. CASE n = m /\ creates # {}
    <3>0. m \notin creates
      BY <1>4 DEF Queued
    <3>1. mut'[m] = b
      BY <1>2, <2>3, <3>0
    <3>2. Sound(b, Known')
      BY <1>4, <1>7, <1>10, OutboxAssumption DEF Sound, Pending, Stage
    <3>3. Stops(x, b)
      BY <1>1, <1>10 DEF Stops
    <3>4. b.op # "add"
      BY <1>10, OutboxAssumption
    <3> QED BY <1>4, <1>10, <2>3, <3>1, <3>2, <3>3, <3>4 DEF Advances, Moved, Told, NameOK, InFlight
  <2>4. CASE n # m /\ n \in creates
    <3> DEFINE z == mut[n]
               e == End(z)
               f == [e EXCEPT !.cached = FALSE]
               g == [z EXCEPT !.cached = FALSE]
    <3>1. z.op = "add" /\ z \in Mutation /\ Sound(z, Known)
      BY <2>1, <2>4 DEF Queued, SlotOK, Sound
    <3>2. mut'[n] = IF z.at = "paused" THEN f ELSE g
      BY <1>2, <2>4 DEF Drop
    <3>3. /\ g \in Mutation /\ g.op = z.op /\ g.item = z.item /\ g.at = z.at /\ g.made = z.made
          /\ g.sent = z.sent /\ g.undo = z.undo
      BY <3>1 DEF Mutation
    <3>4. e \in Mutation /\ e.op = "add" /\ e.item = z.item /\ e.at = "done" /\ e.undo = None
      BY <3>1, EndForm
    <3> HIDE DEF e
    <3>5. f \in Mutation /\ f.op = "add" /\ f.item = z.item /\ f.at = "done" /\ f.undo = None
      BY <3>4 DEF Mutation
    <3> HIDE DEF f, g
    <3>6. CASE z.at # "paused"
      BY <1>6, <1>7, <2>1, <3>1, <3>2, <3>3, <3>6, SlotStays
    <3>7. CASE z.at = "paused"
      <4>1. mut'[n] = f
        BY <3>2, <3>7
      <4>2. Sound(f, Known') /\ Stops(z, f)
        BY <3>1, <3>5, <3>7 DEF Sound, Stops, Pending, Stage
      <4> QED BY <3>1, <3>5, <3>7, <4>1, <4>2 DEF Advances, Moved, Told, NameOK
    <3> QED BY <3>6, <3>7
  <2>5. CASE n # m /\ n \notin creates
    <3>1. mut'[n] = mut[n]
      BY <1>2, <2>5
    <3> QED BY <1>6, <1>7, <2>1, <3>1, SlotSame
  <2> QED BY <2>2, <2>3, <2>4, <2>5
<1>12. mut' = [n \in Slots |-> mut'[n]]
  BY <1>2
<1> QED BY <1>1, <1>6, <1>7, <1>8, <1>11, <1>12, AllMove

\* A free slot becomes the create of an item that is new.
LEMMA CreateBegins ==
  ASSUME OutboxInv, OthersOK', NEW m \in Slots, mut[m].at = "free",
         NEW t \in Temps, ~Used(t), NEW b \in Row, mut'[m] = New("add", t, b),
         mut' = [n \in Slots |-> mut'[n]], \A n \in Slots \ {m} : Advances(n),
         UNCHANGED <<origin, server, disk, excused, screen>>
  PROVE  OutboxInv'
<1> DEFINE y == mut'[m]
<1>1. /\ RowsOK /\ OneCreate /\ TypeOK /\ \A n \in Slots : SlotOK(n)
  BY Shape DEF OutboxInv
<1>2. y \in Mutation /\ y.op = "add" /\ y.item = t /\ y.at = "mutate" /\ y.undo = None
  BY NewForm DEF Ops, Ids
<1>3. mut[m].op = None /\ mut[m].op # "add"
  BY <1>1, OutboxAssumption DEF SlotOK, Sound
<1>4. Grows /\ (\A i : NoNews(i)) /\ Known' = Known
  BY DEF Grows, NoNews, Known, Born
<1>5. ASSUME NEW n \in Slots \ {m}
      PROVE  /\ mut'[n].op = "add" <=> mut[n].op = "add"
             /\ mut[n].op = "add" => mut'[n].item = mut[n].item
  BY DEF Advances, Moved
<1>6. \A r \in Reals : origin[r] # t
  BY <1>1, OutboxAssumption DEF RowsOK
<1>7. AnsweredIds' \subseteq AnsweredIds \cup excused'
  <2>1. \A n \in Slots : Told(n)
    BY <1>3 DEF Told, Advances
  <2>2. ASSUME NEW n \in Slots, mut'[n].op = "add" /\ mut'[n].at = "done"
        PROVE  mut[n].op = "add" /\ mut[n].item = mut'[n].item
    BY <1>2, <1>5, <2>2
  <2> QED BY <1>1, <1>4, <2>1, <2>2, FewAnswers
<1>8. ASSUME NEW n \in Slots \ {m} PROVE SlotOK(n)'
  <2>1. NameOK(mut'[n], AnsweredIds', excused')
    BY <1>7, <1>8 DEF Advances, NameOK
  <2>2. Moved(n) /\ Told(n) /\ SlotOK(n)
    BY <1>1 DEF Advances
  <2> QED BY <1>1, <1>4, <2>1, <2>2, SlotMoved DEF Told
<1>9. SlotOK(m)'
  <2>1. Sound(disk[m], Known) /\ DiskOK(mut[m], disk[m], origin)
    BY <1>1 DEF SlotOK
  <2>2. disk[m].at = "free"
    BY <2>1 DEF DiskOK
  <2>3. Sound(y, Known')
    BY <1>2, OutboxAssumption DEF Sound, Known, Pending, Stage
  <2>4. CreateOK(y, origin', excused') /\ NameOK(y, AnsweredIds', excused') /\ DiskOK(y, disk'[m], origin')
    BY <1>2, <1>6, <2>2 DEF CreateOK, NameOK, DiskOK, InFlight
  <2> QED BY <1>4, <2>1, <2>3, <2>4 DEF SlotOK
<1>10. OneCreate'
  <2> SUFFICES ASSUME NEW p \in Slots, NEW n \in Slots, mut'[p].op = "add", mut'[n].op = "add",
                      mut'[p].item = mut'[n].item, p # n
               PROVE  FALSE
    BY DEF OneCreate
  <2>1. \A k \in Slots \ {m} : mut'[k].op = "add" => mut[k].op = "add" /\ mut'[k].item = mut[k].item /\ mut[k].item # t
    BY <1>5 DEF Used
  <2>2. p # m /\ n # m
    BY <1>2, <2>1
  <2> QED BY <1>1, <2>1, <2>2 DEF OneCreate
<1>11. RowsOK'
  <2>1. \A i : Used(i) => Used(i)'
    BY <1>3, <1>5 DEF Used
  <2> QED BY <1>1, <1>4, <1>7, <2>1 DEF RowsOK, Born
<1>12. mut' \in [Slots -> Mutation]
  <2>1. \A n \in Slots : mut'[n] \in Mutation
    BY <1>2 DEF Advances, Moved, Sound
  <2> QED BY <2>1
<1>13. Known' \subseteq Ids
  BY DEF Known, Ids, Born
<1> QED BY <1>8, <1>9, <1>10, <1>11, <1>12, <1>13 DEF OutboxInv, OthersOK, TypeOK, RowsOK

\* A new row gets a temporary id nobody has used.
LEMMA AnUnused ==
  ASSUME Unused # {}
  PROVE  AnyOf(Unused) \in Temps /\ ~Used(AnyOf(Unused))
<1>1. AnyOf(Unused) \in Unused
  BY DEF AnyOf
<1> QED BY <1>1 DEF Unused

\* A row is added under it.
LEMMA AddItemOK ==
  ASSUME OutboxInv, NEW m \in Slots, AddItem(m)
  PROVE  OutboxInv'
<1> DEFINE t == AnyOf(Unused)
           y == New("add", t, Blank)
<1>1. /\ OthersOK /\ mut \in [Slots -> Mutation] /\ (\A n \in Slots : SlotOK(n))
      /\ mut[m].at = "free" /\ Unused # {} /\ mut' = [mut EXCEPT ![m] = y]
      /\ wish' = [wish EXCEPT ![t] = [want |-> TRUE, row |-> Blank]]
      /\ UNCHANGED <<link, online, visible, disk, troubles, screen, server, row, origin, excused>>
  BY Shape DEF AddItem, device, backend
<1>2. t \in Temps /\ ~Used(t) /\ Blank \in Row
  BY <1>1, AnUnused DEF Blank, Row
<1> HIDE DEF t
<1>3. OthersOK'
  BY <1>1, <1>2 DEF OthersOK
<1> HIDE DEF y
<1>4. mut'[m] = y /\ mut' = [n \in Slots |-> mut'[n]] /\ \A n \in Slots \ {m} : mut'[n] = mut[n]
  BY <1>1
<1>5. \A n \in Slots \ {m} : Advances(n)
  BY <1>1, <1>4, SlotSame DEF Known, Born
<1> USE DEF y
<1> QED BY <1>1, <1>2, <1>3, <1>4, <1>5, CreateBegins

\* The undo of a removal.
LEMMA UndoRemoveOK ==
  ASSUME OutboxInv, NEW m \in Slots, NEW d \in Slots, UndoRemove(m, d)
  PROVE  OutboxInv'
<1> DEFINE i == mut[d].undo
           z == [mut[d] EXCEPT !.undo = None]
<1>1. /\ OthersOK /\ RowsOK /\ mut \in [Slots -> Mutation] /\ (\A n \in Slots : SlotOK(n))
      /\ mut[m].at = "free" /\ i # None
      /\ UNCHANGED <<link, online, visible, disk, troubles, screen, server, row, origin>>
  BY Shape DEF UndoRemove, device, backend
<1>2. i \in Known /\ i \in Ids
  BY <1>1 DEF SlotOK, Sound, Known, Ids, Born
<1>3. /\ z \in Mutation /\ z.op = mut[d].op /\ z.item = mut[d].item /\ z.at = mut[d].at
      /\ z.made = mut[d].made /\ z.sent = mut[d].sent /\ z.undo = None /\ z.cached = mut[d].cached
  BY <1>1 DEF Mutation
<1> HIDE DEF z
<1>4. Known' = Known /\ Born' = Born
  BY <1>1 DEF Known, Born
<1>5. ASSUME NEW n \in Slots \ {m}, excused \subseteq excused',
             mut'[n] = IF n = d THEN z ELSE mut[n]
      PROVE  Advances(n)
  <2>1. CASE n = d
    BY <1>1, <1>3, <1>4, <1>5, <2>1, SlotStays
  <2>2. CASE n # d
    BY <1>1, <1>4, <1>5, <2>2, SlotSame
  <2> QED BY <2>1, <2>2
<1>6. CASE i \in Reals
  <2> DEFINE t == Item(i)
             y == New("restore", i, Blank)
             w == [wish EXCEPT ![t].want = TRUE]
  <2>1. /\ mut' = [mut EXCEPT ![d].undo = None, ![m] = y]
        /\ wish' = w
        /\ \E why : excused' = IF why THEN excused \cup {t} ELSE excused
    BY <1>6 DEF UndoRemove, Excuse
  <2>2. t \in Temps
    BY <1>2, ItemIsTemp
  <2>3. /\ y \in Mutation /\ y.op = "restore" /\ y.item = i /\ y.at = "mutate"
        /\ y.undo = None /\ y.cached
    BY <1>2, NewForm DEF Ops, Blank, Row
  <2> HIDE DEF t, y
  <2>4. w \in [Temps -> [want: BOOLEAN, row: Row]]
    BY <1>1, <2>2 DEF OthersOK
  <2> HIDE DEF w
  <2>5. excused \subseteq excused' /\ excused' \subseteq Temps
    BY <1>1, <2>1, <2>2 DEF OthersOK
  <2>6. OthersOK'
    BY <1>1, <2>1, <2>4, <2>5 DEF OthersOK
  <2>7. /\ mut'[m] = y /\ mut' = [n \in Slots |-> mut'[n]]
        /\ \A n \in Slots \ {m} : mut'[n] = IF n = d THEN z ELSE mut[n]
    BY <1>1, <2>1 DEF z
  <2>8. Advances(m)
    <3>1. i \notin AnsweredIds
      BY <1>6, OutboxAssumption DEF AnsweredIds
    <3> QED BY <1>1, <1>2, <1>4, <1>6, <2>3, <2>7, <3>1, SlotBegins DEF Ops
  <2>9. screen' \subseteq Known /\ screen' \cap AnsweredIds \subseteq excused'
    BY <1>1, <2>5 DEF RowsOK
  <2> QED BY <1>1, <1>4, <1>5, <2>5, <2>6, <2>7, <2>8, <2>9, AllMove
<1>7. CASE i \notin Reals
  <2> DEFINE t == AnyOf(Unused)
             b == wish[i].row
             y == New("add", t, b)
             e == [want |-> TRUE, row |-> b]
  <2>1. /\ Unused # {}
        /\ mut' = [mut EXCEPT ![d].undo = None, ![m] = y]
        /\ wish' = [wish EXCEPT ![t] = e]
        /\ UNCHANGED excused
    BY <1>7 DEF UndoRemove
  <2>2. t \in Temps /\ ~Used(t) /\ b \in Row /\ e \in [want: BOOLEAN, row: Row]
    BY <1>1, <1>2, <1>7, <2>1, AnUnused DEF OthersOK, Ids
  <2> HIDE DEF t, b, y, e
  <2>3. OthersOK'
    BY <1>1, <2>1, <2>2 DEF OthersOK
  <2>4. /\ mut'[m] = y /\ mut' = [n \in Slots |-> mut'[n]]
        /\ \A n \in Slots \ {m} : mut'[n] = IF n = d THEN z ELSE mut[n]
    BY <1>1, <2>1 DEF z
  <2>5. \A n \in Slots \ {m} : Advances(n)
    BY <1>5, <2>1, <2>4
  <2> USE DEF y
  <2> QED BY <1>1, <2>1, <2>2, <2>3, <2>4, <2>5, CreateBegins
<1> QED BY <1>6, <1>7

-----------------------------------------------------------------------------
(* The server's answers.                                                   *)

\* The server makes the row of a create.
LEMMA CreateServed ==
  ASSUME OutboxInv, NEW m \in Slots, mut[m].op = "add", mut[m].at \in {"sent", "orphan"},
         NEW r \in Reals, server[r] = "unborn", NEW y \in Mutation, mut' = [mut EXCEPT ![m] = y],
         server' = [server EXCEPT ![r] = "live"], row' = [row EXCEPT ![r] = mut[m].sent.body],
         origin' = [origin EXCEPT ![r] = mut[m].sent.item],
         y.op = "add", y.item = mut[m].item, y.undo \in {mut[m].undo, None},
         \/ y.at = "served" /\ y.made = r
         \/ y.at = "done" /\ mut[m].at = "orphan",
         UNCHANGED <<link, online, visible, disk, troubles, screen, wish, excused>>
  PROVE  OutboxInv'
<1> DEFINE x == mut[m]
           i == x.sent.item
<1>1. /\ RowsOK /\ OneCreate /\ TypeOK /\ OthersOK /\ mut \in [Slots -> Mutation]
      /\ \A n \in Slots : SlotOK(n)
  BY Shape DEF OutboxInv
<1>2. /\ Sound(x, Known) /\ CreateOK(x, origin, excused) /\ x \in Mutation
      /\ i = x.item /\ i \in Temps
  BY <1>1 DEF SlotOK, Sound
<1>3. x.sent.body \in Row
  BY <1>2, Fields
<1>4. /\ mut'[m] = y /\ mut' = [n \in Slots |-> mut'[n]]
      /\ \A n \in Slots \ {m} : mut'[n] = mut[n]
  BY <1>1
<1>5. /\ origin'[r] = i /\ (\A q \in Reals \ {r} : origin'[q] = origin[q])
      /\ origin' \in [Reals -> Temps \cup {None}] /\ row' \in [Reals -> Row]
      /\ server' \in [Reals -> {"unborn", "live", "deleted"}]
  BY <1>1, <1>2, <1>3 DEF OthersOK
<1>6. Born' = Born \cup {r} /\ r \notin Born
  BY <1>1 DEF OthersOK, Born
<1> HIDE DEF x, i
<1>7. OthersOK'
  BY <1>1, <1>5 DEF OthersOK
<1>8. Grows /\ Known' = Known \cup {r}
  BY <1>5, <1>6 DEF Grows, Known, Born
<1>9. ASSUME NEW n \in Slots \ {m}, mut[n].op = "add"
      PROVE  NoNews(mut[n].item)
  <2>1. mut[n].item # i
    BY <1>1, <1>2, <1>9 DEF OneCreate, x
  <2> QED BY <1>5, <2>1 DEF NoNews
<1>10. \A n \in Slots \ {m} : Advances(n)
  BY <1>1, <1>4, <1>8, SlotSame
<1>11. AnsweredIds' \subseteq AnsweredIds \cup excused'
  <2>1. Told(m) /\ \A n \in Slots : Told(n)
    BY <1>10 DEF Told, Advances
  <2>2. y.at = "done" => x.item \in excused'
    BY <1>2 DEF CreateOK, x
  <2>3. ASSUME NEW n \in Slots, mut'[n].op = "add" /\ mut'[n].at = "done"
        PROVE  /\ mut[n].op = "add" /\ mut[n].item = mut'[n].item
               /\ NoNews(mut[n].item) \/ mut[n].item \in excused'
    BY <1>4, <1>9, <2>2, <2>3 DEF x
  <2> QED BY <1>1, <2>1, <2>3, FewAnswers
<1>12. ASSUME NEW n \in Slots \ {m} PROVE SlotOK(n)'
  <2>1. NameOK(mut'[n], AnsweredIds', excused')
    BY <1>10, <1>11 DEF Advances, NameOK
  <2>2. Moved(n) /\ Told(n) /\ SlotOK(n)
    BY <1>1, <1>10 DEF Advances
  <2> QED BY <1>1, <1>8, <1>9, <2>1, <2>2, SlotMoved DEF Told
<1>13. SlotOK(m)'
  <2> DEFINE d == disk[m]
  <2>1. Sound(d, Known) /\ DiskOK(x, d, origin)
    BY <1>1 DEF SlotOK, x
  <2> HIDE DEF d
  <2>2. Sound(d, Known') /\ Sound(x, Known')
    BY <1>2, <1>8, <2>1, SoundGrows
  <2>3. Sound(y, Known')
    BY <1>2, <1>8, <2>2, OutboxAssumption DEF Sound, Pending, Stage, x
  <2>4. CreateOK(y, origin', excused') /\ NameOK(y, AnsweredIds', excused')
    BY <1>2, <1>5 DEF CreateOK, NameOK, InFlight, x
  <2>5. DiskOK(y, d, origin')
    BY <1>2, <2>1, OutboxAssumption DEF DiskOK, ItemOf, x
  <2> QED BY <1>4, <2>2, <2>3, <2>4, <2>5 DEF SlotOK, d
<1>14. \A n \in Slots : (mut'[n].op = "add" <=> mut[n].op = "add") /\ mut'[n].item = mut[n].item
  BY <1>4 DEF x
<1>15. OneCreate'
  BY <1>1, <1>14 DEF OneCreate
<1>16. RowsOK'
  <2>1. Used(i)
    BY <1>2 DEF Used, x
  <2>2. \A q : Used(q) => Used(q)'
    BY <1>14 DEF Used
  <2> QED BY <1>1, <1>2, <1>5, <1>6, <1>8, <1>11, <2>1, <2>2 DEF RowsOK
<1>17. mut' \in [Slots -> Mutation]
  BY <1>1
<1>18. Known' \subseteq Ids
  BY DEF Known, Ids, Born
<1> QED BY <1>7, <1>12, <1>13, <1>15, <1>16, <1>17, <1>18 DEF OutboxInv, OthersOK, TypeOK, RowsOK

\* The server carries out another change, or refuses one.
LEMMA ChangeServed ==
  ASSUME OutboxInv, NEW m \in Slots, NEW y, mut' = [mut EXCEPT ![m] = y],
         mut'[m] = y /\ Known \subseteq Known' => Advances(m),
         server' \in [Reals -> {"unborn", "live", "deleted"}], Born' = Born, row' \in [Reals -> Row],
         UNCHANGED <<origin, link, online, visible, disk, troubles, screen, wish, excused>>
  PROVE  OutboxInv'
<1>1. OthersOK /\ RowsOK
  BY Shape
<1>2. OthersOK' /\ Known' = Known
  BY <1>1 DEF OthersOK, Known
<1>3. screen' \subseteq Known /\ screen' \cap AnsweredIds \subseteq excused'
  BY <1>1 DEF RowsOK
<1> QED BY <1>1, <1>2, <1>3, OneMoves

\* Either way, and whichever mark the request leaves.
LEMMA HandleOK ==
  ASSUME OutboxInv, NEW m \in Slots, mut[m].at \in {"sent", "orphan"}, NEW done, NEW refused,
         Handle(m, done, refused),
         UNCHANGED <<link, online, visible, disk, troubles, screen, wish, excused>>,
         mut[m].op = "add" => /\ done \in Mutation /\ done.op = "add" /\ done.item = mut[m].item
                              /\ done.undo \in {mut[m].undo, None}
                              /\ done.at = "served" \/ (done.at = "done" /\ mut[m].at = "orphan"),
         origin' = origin /\ Known \subseteq Known' =>
           /\ mut[m].op # "add" /\ mut'[m] = done => Advances(m)
           /\ mut'[m] = refused => Advances(m)
  PROVE  OutboxInv'
<1> DEFINE x == mut[m]
           i == x.sent.item
           was == IF x.op = "restore" THEN {"live", "deleted"} ELSE {"live"}
<1>1. OthersOK /\ mut \in [Slots -> Mutation]
  BY Shape
<1>2. CASE /\ x.op = "add" /\ Unborn # {}
           /\ server' = [server EXCEPT ![AnyOf(Unborn)] = "live"]
           /\ row' = [row EXCEPT ![AnyOf(Unborn)] = x.sent.body]
           /\ origin' = [origin EXCEPT ![AnyOf(Unborn)] = i]
           /\ mut' = [mut EXCEPT ![m] = [done EXCEPT !.made = IF done.at = "served" THEN AnyOf(Unborn) ELSE None]]
  <2> DEFINE r == AnyOf(Unborn)
             made == IF done.at = "served" THEN r ELSE None
             y == [done EXCEPT !.made = made]
  <2>1. r \in Reals /\ server[r] = "unborn"
    BY <1>2 DEF AnyOf, Unborn
  <2> HIDE DEF r
  <2>2. made \in Reals \cup {None} /\ (done.at = "served" => made = r)
    BY <2>1
  <2> HIDE DEF made
  <2>3. /\ y \in Mutation /\ y.op = "add" /\ y.item = x.item /\ y.undo = done.undo /\ y.at = done.at
        /\ y.made = made
    BY <1>2, <2>2 DEF Mutation
  <2>4. mut' = [mut EXCEPT ![m] = y]
    BY <1>2 DEF r, made
  <2> HIDE DEF y
  <2>5. \/ y.at = "served" /\ y.made = r
        \/ y.at = "done" /\ x.at = "orphan"
    BY <1>2, <2>2, <2>3
  <2>6. y.undo \in {x.undo, None}
    BY <1>2, <2>3
  <2> QED BY <1>2, <2>1, <2>3, <2>4, <2>5, <2>6, CreateServed DEF r
<1>3. CASE /\ x.op # "add" /\ i \in Reals /\ server[i] \in was
           /\ server' = [server EXCEPT ![i] = IF x.op = "delete" THEN "deleted" ELSE "live"]
           /\ row' = [row EXCEPT ![i] = Outcome(@, x.op)]
           /\ mut' = [mut EXCEPT ![m] = done] /\ UNCHANGED origin
  <2>1. server' \in [Reals -> {"unborn", "live", "deleted"}] /\ Born' = Born
    BY <1>1, <1>3 DEF OthersOK, Born
  <2>2. row' \in [Reals -> Row]
    BY <1>1, <1>3, OutcomeInRow DEF OthersOK
  <2>3. Known' = Known
    BY <2>1 DEF Known
  <2> QED BY <1>3, <2>1, <2>2, <2>3, ChangeServed
<1>4. CASE mut' = [mut EXCEPT ![m] = refused] /\ UNCHANGED backend
  <2>1. /\ server' \in [Reals -> {"unborn", "live", "deleted"}] /\ Born' = Born
        /\ row' \in [Reals -> Row] /\ origin' = origin /\ Known' = Known
    BY <1>1, <1>4 DEF OthersOK, Born, backend, Known
  <2> QED BY <1>4, <2>1, ChangeServed
<1> QED BY <1>2, <1>3, <1>4 DEF Handle

\* The server answers an attempt,
LEMMA ServeOK ==
  ASSUME OutboxInv, NEW m \in Slots, Serve(m)
  PROVE  OutboxInv'
<1> DEFINE x == mut[m]
           h == Handled(x, "served")
           r == Handled(x, "refused")
<1>1. /\ x.at = "sent" /\ Handle(m, h, r) /\ SlotOK(m) /\ x \in Mutation
      /\ UNCHANGED <<link, online, visible, disk, troubles, screen, wish, excused>>
  BY Shape DEF Serve, device, ghosts
<1>2. /\ h \in Mutation /\ h.at = "served" /\ h.op = x.op /\ h.item = x.item
      /\ h.undo = x.undo /\ h.cached = x.cached
      /\ r \in Mutation /\ r.at = "refused" /\ r.op = x.op /\ r.item = x.item
      /\ r.undo = x.undo /\ r.cached = x.cached
  BY <1>1, HandledForm DEF Stage
<1> HIDE DEF h, r
<1>3. ASSUME origin' = origin, Known \subseteq Known', x.op # "add", mut'[m] = h
      PROVE  Advances(m)
  BY <1>1, <1>2, <1>3, SlotProceeds DEF InFlight
<1>4. ASSUME origin' = origin, Known \subseteq Known', mut'[m] = r
      PROVE  Advances(m)
  BY <1>1, <1>2, <1>4, SlotProceeds DEF InFlight
<1> QED BY <1>1, <1>2, <1>3, <1>4, HandleOK

\* ... or one nobody waits for any more.
LEMMA ServeOrphanOK ==
  ASSUME OutboxInv, NEW m \in Slots, ServeOrphan(m)
  PROVE  OutboxInv'
<1> DEFINE x == mut[m]
           e == End(x)
<1>1. /\ x.at = "orphan" /\ Handle(m, e, e) /\ SlotOK(m) /\ x \in Mutation
      /\ UNCHANGED <<link, online, visible, disk, troubles, screen, wish, excused>>
  BY Shape DEF ServeOrphan, device, ghosts
<1>2. /\ e \in Mutation /\ e.at = "done"
      /\ x.op = "add" => e.op = "add" /\ e.item = x.item /\ e.undo = None
  BY <1>1, EndForm
<1>3. ASSUME origin' = origin, Known \subseteq Known', mut'[m] = e
      PROVE  Advances(m)
  BY <1>1, <1>3, SlotEnds
<1> HIDE DEF e
<1> QED BY <1>1, <1>2, <1>3, HandleOK

\* The answer of a create: whoever goes by the temp id goes by the row's id
\* from then on.
LEMMA AnswerOK ==
  ASSUME OutboxInv, NEW m \in Slots, Answer(m)
  PROVE  OutboxInv'
<1> DEFINE x == mut[m]
           t == x.item
           r == x.made
           e == End(x)
<1>1. /\ OthersOK /\ RowsOK /\ OneCreate /\ (\A n \in Slots : SlotOK(n)) /\ x.at = "served"
      /\ screen' = IF x.op = "add" /\ t \in screen THEN (screen \ {t}) \cup {r} ELSE screen
      /\ UNCHANGED <<link, online, visible, disk, troubles, server, row, origin, wish, excused>>
      /\ mut \in [Slots -> Mutation]
  BY Shape DEF Answer, device, backend, ghosts
<1>2. mut' = [n \in Slots |-> IF n = m THEN e
                              ELSE IF x.op = "add" THEN Remapped(mut[n], t, r) ELSE mut[n]]
  BY DEF Answer
<1>3. OthersOK' /\ Born' = Born /\ Known' = Known
  BY <1>1 DEF OthersOK, Born, Known
<1>4. /\ e \in Mutation /\ e.at = "done"
      /\ x.op = "add" => e.op = "add" /\ e.item = t /\ e.undo = None
      /\ x.op # "add" => e.op = None /\ e.undo = x.undo
  BY <1>1, EndForm
<1>5. x.op = "add" => t \in Temps /\ r \in Reals \cap Known /\ origin[r] = t /\ r \notin Temps
  BY <1>1, OutboxAssumption DEF SlotOK, Sound, CreateOK
<1>6. Sound(x, Known)
  BY <1>1 DEF SlotOK
<1> HIDE DEF x, e
<1>7. mut' = [n \in Slots |-> mut'[n]] /\ mut'[m] = e
  BY <1>2
\* What becomes of the other slots.
<1>8. ASSUME NEW n \in Slots \ {m}
      PROVE  /\ Moved(n) /\ Told(n)
             /\ mut'[n].at \in InFlight /\ mut'[n].op # "add" =>
                  /\ mut'[n].cached /\ mut'[n].item \notin AnsweredIds \ excused
                  /\ x.op = "add" => mut'[n].item # t
  <2> DEFINE z == mut[n]
             y == [z EXCEPT !.item = r]
  <2>1. SlotOK(n) /\ Sound(z, Known) /\ NameOK(z, AnsweredIds, excused) /\ z \in Mutation
    BY <1>1 DEF SlotOK, Sound
  <2>2. CASE x.op = "add" /\ z.cached /\ z.op \notin {"add", "restore"} /\ z.item = t
    <3>1. mut'[n] = y
      BY <1>2, <2>2 DEF Remapped
    <3>2. /\ y \in Mutation /\ y.op = z.op /\ y.item = r /\ y.at = z.at /\ y.made = z.made
          /\ y.sent = z.sent /\ y.undo = z.undo /\ y.cached = z.cached
      BY <1>5, <2>1, <2>2 DEF Mutation, Ids
    <3> HIDE DEF y, z
    <3>3. Sound(y, Known')
      BY <1>3, <1>5, <2>1, <2>2, <3>2 DEF Sound
    <3>4. Proceeds(z, y)
      BY <1>1, <1>5, <2>2, <3>2, OutboxAssumption DEF Proceeds, ItemOf
    <3>5. y.item \notin AnsweredIds /\ y.item # t
      BY <1>5, <2>2, <3>2 DEF AnsweredIds
    <3> QED BY <2>2, <3>1, <3>2, <3>3, <3>4, <3>5 DEF Moved, Told, z
  <2>3. CASE ~(x.op = "add" /\ z.cached /\ z.op \notin {"add", "restore"} /\ z.item = t)
    <3>1. mut'[n] = z
      BY <1>2, <2>3 DEF Remapped
    <3>2. Advances(n)
      BY <1>1, <1>3, <2>1, <3>1, SlotSame
    <3>3. z.op = "restore" => z.item \notin Temps
      BY <2>1, OutboxAssumption DEF Sound
    <3> QED BY <1>5, <2>1, <2>3, <3>1, <3>2, <3>3 DEF Advances, NameOK
  <2> QED BY <2>2, <2>3
<1>9. Moved(m)
  <2>1. Sound(e, Known') /\ Stops(x, e)
    BY <1>1, <1>3, <1>4, <1>6, OutboxAssumption DEF Sound, Pending, Stage, Stops, x
  <2> QED BY <1>4, <1>7, <2>1, OutboxAssumption DEF Moved, x
<1>10. Grows /\ (\A i : NoNews(i))
  BY <1>1, <1>3 DEF Grows, NoNews
\* The only answer that is new is the one to this create.
<1>11. AnsweredIds' \subseteq AnsweredIds \cup (IF x.op = "add" THEN {t} ELSE {}) \cup excused'
  <2> SUFFICES ASSUME NEW i \in Temps, Answered(i)', i \notin excused', x.op = "add" => i # t
               PROVE  Answered(i)
    BY DEF AnsweredIds
  <2>1. PICK n \in Slots : /\ mut'[n].op = "add" /\ mut'[n].item = i /\ mut'[n].at = "done"
                           /\ \E q \in Reals : origin'[q] = i
    BY DEF Answered
  <2>2. n # m
    BY <1>4, <1>7, <2>1, OutboxAssumption
  <2>3. mut[n].op = "add" /\ mut[n].item = i /\ Moved(n)
    BY <1>8, <2>1, <2>2 DEF Moved
  <2>4. mut'[n] = mut[n]
    BY <1>2, <2>2, <2>3 DEF Remapped
  <2> QED BY <1>1, <2>1, <2>3, <2>4 DEF Answered
<1>12. \A n \in Slots : (mut'[n].op = "add" <=> mut[n].op = "add")
                        /\ (mut[n].op = "add" => mut'[n].item = mut[n].item)
  BY <1>8, <1>9 DEF Moved
<1>13. OneCreate'
  BY <1>1, <1>12 DEF OneCreate
<1>14. RowsOK'
  <2>1. screen' \subseteq Known'
    BY <1>1, <1>3, <1>5 DEF RowsOK
  <2>2. screen' \cap AnsweredIds' \subseteq excused'
    <3>1. screen \cap AnsweredIds \subseteq excused
      BY <1>1 DEF RowsOK
    <3>2. AnsweredIds' \subseteq Temps
      BY DEF AnsweredIds
    <3>3. CASE x.op = "add" /\ t \in screen
      BY <1>1, <1>5, <1>11, <3>1, <3>2, <3>3
    <3>4. CASE ~(x.op = "add" /\ t \in screen)
      BY <1>1, <1>11, <3>1, <3>4
    <3> QED BY <3>3, <3>4
  <2> QED BY <1>1, <1>3, <1>12, <2>1, <2>2 DEF RowsOK, Used
<1>15. ASSUME NEW n \in Slots PROVE SlotOK(n)'
  <2>1. NameOK(mut'[n], AnsweredIds', excused')
    <3>1. CASE n = m
      BY <1>4, <1>7, <3>1 DEF NameOK, InFlight
    <3>2. CASE n # m
      BY <1>1, <1>8, <1>11, <3>2 DEF NameOK
    <3> QED BY <3>1, <3>2
  <2>2. /\ TypeOK /\ RowsOK /\ SlotOK(n) /\ Moved(n)
        /\ (mut[n].op = "add" /\ mut[n].at = "served" =>
              mut'[n].at \in {"served", "done"} \/ mut[n].item \in excused')
    BY <1>1, <1>4, <1>7, <1>8, <1>9 DEF OutboxInv, Told
  <2> QED BY <1>10, <2>1, <2>2, SlotMoved
<1>16. mut' \in [Slots -> Mutation]
  BY <1>7, <1>8, <1>9 DEF Moved, Sound
<1>17. Known' \subseteq Ids
  BY DEF Known, Ids, Born
<1> QED BY <1>3, <1>13, <1>14, <1>15, <1>16, <1>17 DEF OutboxInv, OthersOK, TypeOK, RowsOK

-----------------------------------------------------------------------------
(* The device.                                                             *)

\* The paused mutations are resumed.
LEMMA ResumeOK ==
  ASSUME OutboxInv, OthersOK', NEW can, ResumeIf(can),
         UNCHANGED <<disk, server, origin, excused, screen>>
  PROVE  OutboxInv'
<1>1. RowsOK /\ mut \in [Slots -> Mutation] /\ \A n \in Slots : SlotOK(n)
  BY Shape
<1>2. Born' = Born /\ Known' = Known
  BY DEF Born, Known
<1>3. /\ mut' = [n \in Slots |-> mut'[n]]
      /\ \A n \in Slots : mut'[n] = mut[n] \/ (mut[n].at = "paused" /\ mut'[n] = Attempt(mut[n]))
  BY <1>1 DEF ResumeIf, Resume
<1>4. ASSUME NEW n \in Slots PROVE Advances(n)
  BY <1>1, <1>2, <1>3, SlotSame, SlotAttempts DEF InFlight
<1>5. screen' \subseteq Known /\ screen' \cap AnsweredIds \subseteq excused'
  BY <1>1 DEF RowsOK
<1> QED BY <1>2, <1>3, <1>4, <1>5, AllMove

\* The device goes on- and offline, and the page is hidden and shown.
LEMMA DeviceOK ==
  ASSUME OutboxInv, GoOffline \/ GoOnline \/ Hide \/ Show
  PROVE  OutboxInv'
<1>1. OthersOK /\ MaxTroubles \in Nat
  BY Shape, OutboxAssumption
<1>2. UNCHANGED <<disk, server, row, origin, wish, excused, screen>>
  BY DEF GoOffline, GoOnline, Hide, Show, backend, ghosts
<1>3. /\ {link', online', visible'} \subseteq BOOLEAN /\ troubles' \in 0..MaxTroubles
      /\ \E can : ResumeIf(can)
  <2>1. CASE GoOffline
    <3>1. ResumeIf(FALSE)
      BY <2>1 DEF GoOffline, ResumeIf
    <3>2. {link', online', visible'} \subseteq BOOLEAN
      BY <1>1, <2>1 DEF GoOffline, OthersOK
    <3>3. troubles' \in 0..MaxTroubles
      BY <1>1, <2>1 DEF GoOffline, Trouble, OthersOK
    <3> QED BY <3>1, <3>2, <3>3
  <2>2. CASE GoOnline
    BY <1>1, <2>2 DEF GoOnline, OthersOK
  <2>3. CASE Hide
    <3>1. ResumeIf(FALSE)
      BY <2>3 DEF Hide, ResumeIf
    <3>2. {link', online', visible'} \subseteq BOOLEAN
      BY <1>1, <2>3 DEF Hide, OthersOK
    <3>3. troubles' \in 0..MaxTroubles
      BY <1>1, <2>3 DEF Hide, Trouble, OthersOK
    <3> QED BY <3>1, <3>2, <3>3
  <2>4. CASE Show
    BY <1>1, <2>4 DEF Show, OthersOK
  <2> QED BY <2>1, <2>2, <2>3, <2>4
<1>4. OthersOK'
  BY <1>1, <1>2, <1>3 DEF OthersOK
<1> QED BY <1>2, <1>3, <1>4, ResumeOK

\* A refetch replaces the rows.
LEMMA RefetchOK ==
  ASSUME OutboxInv, Refetch
  PROVE  OutboxInv'
<1>1. /\ OthersOK /\ RowsOK /\ mut \in [Slots -> Mutation] /\ (\A n \in Slots : SlotOK(n))
      /\ screen' = {r \in Reals : server[r] = "live"} /\ mut' = mut
      /\ UNCHANGED <<link, online, visible, disk, troubles, server, row, origin, wish, excused>>
  BY Shape DEF Refetch, device, backend, ghosts
<1>2. OthersOK' /\ Born' = Born /\ Known' = Known
  BY <1>1 DEF OthersOK, Born, Known
<1>3. \A n \in Slots : Advances(n)
  BY <1>1, <1>2, SlotSame
<1>4. screen' \subseteq Known /\ screen' \cap AnsweredIds \subseteq excused'
  BY <1>1, OutboxAssumption DEF Known, Born, AnsweredIds
<1> QED BY <1>1, <1>2, <1>3, <1>4, AllMove

\* What a write to the disk leaves of a slot.
LEMMA SaveOK ==
  ASSUME OutboxInv, Save
  PROVE  OutboxInv'
<1>1. /\ OthersOK /\ RowsOK /\ OneCreate /\ mut \in [Slots -> Mutation]
      /\ (\A n \in Slots : SlotOK(n))
      /\ disk' = Saved
      /\ UNCHANGED <<link, online, visible, troubles, mut, screen, server, row, origin, wish, excused>>
  BY Shape DEF Save, backend, ghosts
<1>2. Born' = Born /\ Known' = Known /\ AnsweredIds' = AnsweredIds
  BY <1>1 DEF Born, Known, AnsweredIds, Answered
<1>3. disk' \in [Slots -> Mutation]
  BY <1>1, Blanks DEF Saved
<1>4. RowsOK' /\ OneCreate' /\ Known' \subseteq Ids
  BY <1>1, <1>2 DEF RowsOK, Used, OneCreate, Known, Born, Ids
<1>5. ASSUME NEW n \in Slots PROVE SlotOK(n)'
  <2> DEFINE x == mut[n]
             d == disk'[n]
  <2>1. /\ Sound(x, Known) /\ CreateOK(x, origin, excused) /\ NameOK(x, AnsweredIds, excused)
    BY <1>1 DEF SlotOK
  <2>2. (d = x /\ x.cached /\ x.at = "paused") \/ d = NoMutation
    BY <1>1 DEF Saved, Persisted
  <2>3. mut'[n] = x
    BY <1>1
  <2> HIDE DEF x, d
  <2>4. Sound(NoMutation, Known)
    BY Blanks, OutboxAssumption DEF Sound, Pending, Stage
  <2>5. Sound(d, Known') /\ Sound(x, Known')
    BY <1>2, <2>1, <2>2, <2>4
  <2>6. DiskOK(x, d, origin)
    BY <2>2, Blanks DEF DiskOK
  <2> QED BY <1>1, <1>2, <2>1, <2>3, <2>5, <2>6 DEF SlotOK, d
<1> QED BY <1>1, <1>3, <1>4, <1>5 DEF OutboxInv, OthersOK, TypeOK, RowsOK

\* What a reload makes of a slot, and whom it excuses.
LEMMA Reloaded ==
  ASSUME OutboxInv, Reload, NEW n \in Slots
  PROVE  LET x == mut[n]
             y == mut'[n]
             d == disk[n]
         IN
         /\ Sound(y, Known)
         /\ y.op = "add" <=> x.op = "add"
         /\ x.op = "add" => y.item = x.item
         /\ \/ y.at = "sent" /\ d.at = "paused" /\ y.op = d.op /\ y.item = d.item /\ y.cached
               /\ y.sent.item = d.item /\ y.body = d.body /\ y.sent.body = d.body
            \/ y.at \in {"orphan", "free", "done"} /\ d.at # "paused" /\ y.op \in {x.op, None}
         /\ y.at = "orphan" => x.at = "sent" /\ y.sent.item = x.sent.item
         /\ y.at = "done" => x.at \notin {"free", "sent"}
         /\ x.at \in Pending \cup {"orphan"} /\ d # x => Item(x.item) \in excused'
         /\ x.at = "done" /\ d.at = "paused" => Item(d.item) \in excused'
<1> DEFINE x == mut[n]
           y == mut'[n]
           d == disk[n]
           e == End(x)
           a == Attempt(d)
           e1 == [e EXCEPT !.cached = FALSE, !.undo = None]
           a1 == [a EXCEPT !.tries = 0]
           o == [x EXCEPT !.at = "orphan", !.cached = FALSE, !.tries = 0]
<1>1. /\ Sound(x, Known) /\ Sound(d, Known) /\ DiskOK(x, d, origin) /\ x \in Mutation /\ d \in Mutation
      /\ SlotOK(n)
  BY Shape DEF SlotOK, Sound
<1>2. y = IF d.at = "paused" THEN a1
          ELSE IF x.at = "sent" THEN o
          ELSE IF x.at = "free" THEN NoMutation ELSE e1
  BY DEF Reload
<1>3. /\ x.at \in Pending \cup {"orphan"} /\ d # x => Item(x.item) \in excused'
      /\ x.at = "done" /\ d.at = "paused" => Item(d.item) \in excused'
  BY DEF Reload
<1>4. /\ e \in Mutation /\ e.at = "done"
      /\ x.op = "add" => e.op = "add" /\ e.item = x.item
      /\ x.op # "add" => e.op = None
  BY <1>1, EndForm
<1>5. /\ a \in Mutation /\ a.at = "sent" /\ a.op = d.op /\ a.item = d.item /\ a.undo = d.undo
      /\ a.cached = d.cached /\ a.sent.item = d.item /\ a.body = d.body /\ a.sent.body = d.body
  BY <1>1, AttemptForm
<1>6. 0 \in 0..Retries
  BY OutboxAssumption
<1>7. /\ o \in Mutation /\ o.at = "orphan" /\ o.op = x.op /\ o.item = x.item /\ o.undo = x.undo
      /\ o.sent = x.sent
  BY <1>1, <1>6 DEF Mutation, Stage
<1> HIDE DEF e, a, o
<1>8. /\ e1 \in Mutation /\ e1.at = "done" /\ e1.op = e.op /\ e1.item = e.item /\ e1.undo = None
  BY <1>4 DEF Mutation
<1>9. /\ a1 \in Mutation /\ a1.at = "sent" /\ a1.op = d.op /\ a1.item = d.item /\ a1.undo = d.undo
      /\ a1.cached = d.cached /\ a1.sent.item = d.item /\ a1.body = d.body /\ a1.sent.body = d.body
  BY <1>5, <1>6 DEF Mutation
<1> HIDE DEF x, y, d, e1, a1
<1> SUFFICES /\ Sound(y, Known)
             /\ y.op = "add" <=> x.op = "add"
             /\ x.op = "add" => y.item = x.item
             /\ \/ y.at = "sent" /\ d.at = "paused" /\ y.op = d.op /\ y.item = d.item /\ y.cached
                   /\ y.sent.item = d.item /\ y.body = d.body /\ y.sent.body = d.body
                \/ y.at \in {"orphan", "free", "done"} /\ d.at # "paused" /\ y.op \in {x.op, None}
             /\ y.at = "orphan" => x.at = "sent" /\ y.sent.item = x.sent.item
             /\ y.at = "done" => x.at \notin {"free", "sent"}
  BY <1>3 DEF x, y, d
<1>10. CASE d.at = "paused"
  <2>1. Sound(a1, Known)
    BY <1>1, <1>9, <1>10 DEF Sound, Pending, Stage
  <2> QED BY <1>1, <1>2, <1>9, <1>10, <2>1 DEF DiskOK
<1>11. CASE d.at # "paused" /\ x.at = "sent"
  <2>1. Sound(o, Known)
    BY <1>1, <1>7, <1>11 DEF Sound, Pending, Stage
  <2> QED BY <1>2, <1>7, <1>11, <2>1
<1>12. CASE d.at # "paused" /\ x.at = "free"
  <2>1. Sound(NoMutation, Known)
    BY Blanks, OutboxAssumption DEF Sound, Pending, Stage
  <2>2. x.op = None /\ None # "add"
    BY <1>1, <1>12, OutboxAssumption DEF Sound
  <2> QED BY <1>2, <1>12, <2>1, <2>2, Blanks
<1>13. CASE d.at # "paused" /\ x.at \notin {"free", "sent"}
  <2>1. Sound(e1, Known)
    BY <1>1, <1>4, <1>8, OutboxAssumption DEF Sound, Pending, Stage
  <2>2. e1.op = "add" <=> x.op = "add"
    BY <1>4, <1>8, OutboxAssumption
  <2> QED BY <1>2, <1>4, <1>8, <1>13, <2>1, <2>2
<1> QED BY <1>10, <1>11, <1>12, <1>13

\* A reload restores from the disk what was paused there.
LEMMA ReloadOK ==
  ASSUME OutboxInv, Reload
  PROVE  OutboxInv'
<1>1. /\ OthersOK /\ RowsOK /\ OneCreate /\ mut \in [Slots -> Mutation]
      /\ (\A n \in Slots : SlotOK(n)) /\ Trouble /\ online' = TRUE /\ visible' = TRUE
      /\ UNCHANGED <<link, disk, screen, server, row, origin, wish>>
  BY Shape DEF Reload, backend
<1>2. Born' = Born /\ Known' = Known
  BY <1>1 DEF Born, Known
<1>3. mut' = [n \in Slots |-> mut'[n]]
  BY DEF Reload
<1>4. excused \subseteq excused' /\ excused' \subseteq Temps
  <2>1. ASSUME NEW n \in Slots, mut[n].at \in Pending \cup {"orphan"}
        PROVE  Item(mut[n].item) \in Temps
    BY <1>1, <2>1, ItemIsTemp DEF SlotOK, Sound
  <2>2. ASSUME NEW n \in Slots, disk[n].at = "paused"
        PROVE  Item(disk[n].item) \in Temps
    BY <1>1, <2>2, ItemIsTemp DEF SlotOK, Sound, Pending, Stage
  <2> QED BY <1>1, <2>1, <2>2 DEF Reload, OthersOK
<1>5. OthersOK'
  BY <1>1, <1>4, OutboxAssumption DEF OthersOK, Trouble
<1>6. \A n \in Slots : /\ mut'[n].op = "add" <=> mut[n].op = "add"
                       /\ mut[n].op = "add" => mut'[n].item = mut[n].item
                       /\ mut'[n] \in Mutation
  BY Reloaded DEF Sound
<1>7. \A n \in Slots : mut[n].op = "add" /\ mut[n].at \in {"served", "orphan"} => mut[n].item \in excused'
  <2> SUFFICES ASSUME NEW n \in Slots, mut[n].op = "add", mut[n].at \in {"served", "orphan"}
               PROVE  mut[n].item \in excused'
    OBVIOUS
  <2>1. mut[n].item \in Known /\ mut[n].item \in Temps /\ disk[n] # mut[n]
    BY <1>1 DEF SlotOK, Sound, DiskOK, Known
  <2>2. Item(mut[n].item) \in excused'
    BY <2>1, Reloaded DEF Pending, Stage
  <2> QED BY <2>1, <2>2, ItemIsTemp
<1>8. AnsweredIds' \subseteq AnsweredIds \cup excused'
  BY <1>1, <1>4, <1>6, <1>7, FewAnswers DEF Told, NoNews
<1>9. RowsOK' /\ OneCreate' /\ Known' \subseteq Ids
  BY <1>1, <1>2, <1>4, <1>6, <1>8 DEF RowsOK, Used, OneCreate, Known, Born, Ids
<1>10. ASSUME NEW n \in Slots PROVE SlotOK(n)'
  <2> DEFINE x == mut[n]
             y == mut'[n]
             d == disk[n]
  <2>1. /\ Sound(x, Known) /\ Sound(d, Known) /\ DiskOK(x, d, origin) /\ CreateOK(x, origin, excused)
        /\ NameOK(x, AnsweredIds, excused) /\ x.at \in Stage
    BY <1>1, Fields DEF SlotOK, Sound
  <2>2. /\ Sound(y, Known)
        /\ y.op = "add" <=> x.op = "add"
        /\ x.op = "add" => y.item = x.item
        /\ \/ y.at = "sent" /\ d.at = "paused" /\ y.op = d.op /\ y.item = d.item /\ y.cached
           \/ y.at \in {"orphan", "free", "done"} /\ d.at # "paused"
        /\ y.at = "orphan" => x.at = "sent"
        /\ x.at \in Pending \cup {"orphan"} /\ d # x => Item(x.item) \in excused'
        /\ x.at = "done" /\ d.at = "paused" => Item(d.item) \in excused'
    BY Reloaded
  <2> HIDE DEF x, y, d
  <2>3. \A i \in Temps : Item(i) = i /\ ItemOf(i, origin) = i
    BY OutboxAssumption DEF Item, ItemOf
  <2>4. CreateOK(y, origin', excused')
    <3> SUFFICES ASSUME y.op = "add"
                 PROVE  /\ y.at \in InFlight \ {"served"} /\ y.item \notin excused'
                             => \A r \in Reals : origin'[r] # y.item
                        /\ y.at = "served" => origin'[y.made] = y.item
                        /\ y.at = "orphan" => y.item \in excused'
      BY DEF CreateOK
    <3>1. x.op = "add" /\ x.item = y.item /\ y.item \in Temps /\ Item(y.item) = y.item
      BY <2>1, <2>2, <2>3 DEF Sound
    <3>2. y.at # "served"
      BY <2>2
    <3>3. ASSUME y.at = "orphan" PROVE y.item \in excused'
      BY <2>1, <2>2, <3>1, <3>3 DEF Pending, Stage, DiskOK
    <3>4. ASSUME y.at \in InFlight, y.item \notin excused' PROVE \A r \in Reals : origin'[r] # y.item
      <4>1. d.at = "paused" /\ d.item = y.item
        BY <2>2, <3>4 DEF InFlight
      <4>2. x.at \in InFlight \ {"served"}
        BY <2>1, <2>2, <3>1, <3>4, <4>1 DEF DiskOK, Pending, Stage, InFlight
      <4> QED BY <1>1, <1>4, <2>1, <3>1, <3>4, <4>2 DEF CreateOK
    <3> QED BY <3>2, <3>3, <3>4
  <2>5. NameOK(y, AnsweredIds', excused')
    <3> SUFFICES ASSUME y.at \in InFlight, y.op # "add"
                 PROVE  y.cached /\ y.item \notin AnsweredIds' \ excused'
      BY DEF NameOK
    <3>1. /\ d.at = "paused" /\ y.item = d.item /\ y.op = d.op /\ y.cached
          /\ x.op # "add" /\ x.at # "free"
      BY <2>1, <2>2 DEF InFlight, DiskOK
    <3>2. ASSUME y.item \in AnsweredIds, y.item \notin excused' PROVE FALSE
      <4>1. y.item \in Temps /\ Item(d.item) = d.item
        BY <2>3, <3>1, <3>2 DEF AnsweredIds
      <4>2. x.at # "done"
        BY <2>2, <3>1, <3>2, <4>1
      <4>3. x.at \in Pending \cup {"orphan"} /\ Item(x.item) = d.item
        BY <2>1, <2>3, <3>1, <4>1, <4>2 DEF Pending, Stage, DiskOK, Item, ItemOf
      <4>4. d = x
        BY <2>2, <3>1, <3>2, <4>3
      <4> QED BY <1>4, <2>1, <3>1, <3>2, <4>4 DEF NameOK, InFlight
    <3> QED BY <1>8, <3>1, <3>2
  <2>6. DiskOK(y, d, origin')
    BY <1>1, <2>1, <2>2, <2>3, <1>2 DEF DiskOK
  <2> QED BY <1>1, <1>2, <2>1, <2>2, <2>4, <2>5, <2>6 DEF SlotOK, x, y, d
<1>11. mut' \in [Slots -> Mutation]
  BY <1>3, <1>6
<1> QED BY <1>5, <1>9, <1>10, <1>11 DEF OutboxInv, OthersOK, TypeOK, RowsOK

-----------------------------------------------------------------------------
(* The theorems.                                                           *)

\* The outbox is empty.
LEMMA OutboxInit ==
  ASSUME Init
  PROVE  OutboxInv
<1>1. /\ link = TRUE /\ online = TRUE /\ visible = TRUE
      /\ mut = [m \in Slots |-> NoMutation] /\ disk = [m \in Slots |-> NoMutation]
      /\ screen = {} /\ excused = {} /\ troubles = 0
      /\ server = [r \in Reals |-> "unborn"] /\ row = [r \in Reals |-> Blank]
      /\ origin = [r \in Reals |-> None]
      /\ wish = [t \in Temps |-> [want |-> FALSE, row |-> Blank]]
  BY DEF Init
<1>2. Sound(NoMutation, Known) /\ NoMutation.op # "add"
  BY Blanks, OutboxAssumption DEF Sound, Pending, Stage
<1>3. \A m \in Slots : mut[m] = NoMutation /\ disk[m] = NoMutation
  BY <1>1
<1>4. \A m \in Slots : SlotOK(m)
  BY <1>2, <1>3, Blanks DEF SlotOK, CreateOK, NameOK, DiskOK, InFlight
<1>5. Born = {} /\ \A r \in Reals : origin[r] = None
  BY <1>1 DEF Born
<1>6. RowsOK /\ OneCreate
  BY <1>1, <1>2, <1>3, <1>5 DEF RowsOK, OneCreate
<1>7. Blank \in Row
  BY DEF Blank, Row
<1>8. OthersOK
  <2>1. [want |-> FALSE, row |-> Blank] \in [want: BOOLEAN, row: Row]
    BY <1>7
  <2>2. disk \in [Slots -> Mutation]
    BY <1>1, Blanks
  <2>3. troubles \in 0..MaxTroubles
    BY <1>1, OutboxAssumption
  <2> QED BY <1>1, <1>7, <2>1, <2>2, <2>3 DEF OthersOK
<1>9. mut \in [Slots -> Mutation]
  BY <1>1, Blanks
<1> QED BY <1>4, <1>6, <1>8, <1>9, Shape

\* The steps, by the actions.
LEMMA OutboxStep ==
  ASSUME OutboxInv, [Next]_vars
  PROVE  OutboxInv'
<1>1. CASE Tap
  BY <1>1, AddItemOK, ClickRemoveOK, TapItemOK, UndoRemoveOK DEF Tap
<1>2. ASSUME NEW m \in Slots, Work(m) PROVE OutboxInv'
  BY <1>2, RemoveItemOK, StartOK, ServeOK, ServeOrphanOK, AnswerOK, RefuseOK, LoseAttemptOK,
     BackoffEndsOK DEF Work
<1>3. CASE Device
  BY <1>3, DeviceOK, RefetchOK, SaveOK, ReloadOK DEF Device
<1>4. CASE UNCHANGED vars
  <2>1. UNCHANGED <<link, online, visible, mut, disk, screen, server, row, origin, wish, excused, troubles>>
    BY <1>4 DEF vars, device, backend, ghosts
  <2>2. Known' = Known /\ Born' = Born
    BY <2>1 DEF Known, Born
  <2>3. AnsweredIds' = AnsweredIds /\ \A t : Used(t)' <=> Used(t)
    BY <2>1 DEF AnsweredIds, Answered, Used
  <2>4. OthersOK /\ RowsOK /\ OneCreate /\ mut \in [Slots -> Mutation] /\ \A m \in Slots : SlotOK(m)
    BY Shape
  <2>5. OthersOK' /\ OneCreate' /\ mut' \in [Slots -> Mutation]
    BY <2>1, <2>4 DEF OthersOK, OneCreate
  <2>6. RowsOK'
    BY <2>1, <2>2, <2>3, <2>4 DEF RowsOK
  <2>7. \A m \in Slots : SlotOK(m)'
    BY <2>1, <2>2, <2>3, <2>4 DEF SlotOK
  <2>8. Known' \subseteq Ids
    BY DEF Known, Ids, Born
  <2> QED BY <2>5, <2>6, <2>7, <2>8 DEF OutboxInv, OthersOK, TypeOK, RowsOK
<1> QED BY <1>1, <1>2, <1>3, <1>4 DEF Next

\* The invariant of the outbox: what it names exists, what it creates is not there
\* yet, and what it still has to say goes by no temp id that was answered.
THEOREM OutboxSafe == Spec => []OutboxInv
<1>1. Init => OutboxInv
  BY OutboxInit
<1>2. OutboxInv /\ [Next]_vars => OutboxInv'
  BY OutboxStep
<1> QED BY <1>1, <1>2, PTL DEF Spec

\* Types, and no mutation retried more often than mutationRetry allows.
THEOREM OutboxTypes == Spec => []TypeOK
<1>1. OutboxInv => TypeOK
  BY DEF OutboxInv
<1> QED BY <1>1, OutboxSafe, PTL

-----------------------------------------------------------------------------
(* What is paused, and what is sent again.                                 *)

\* Slot n neither falls asleep nor is sent again.
Undisturbed(n) ==
  /\ mut'[n].at = "paused" => mut[n].at = "paused"
  /\ mut[n].at \in {"backoff", "paused"} => mut'[n].at # "sent"

\* A step on one slot that neither pauses nor sends disturbs no sleeper.
LEMMA UndisturbedBut ==
  ASSUME mut \in [Slots -> Mutation], NEW m \in Slots, NEW y, mut' = [mut EXCEPT ![m] = y],
         y.at = "paused" => mut[m].at = "paused",
         mut[m].at \in {"backoff", "paused"} => y.at # "sent"
  PROVE  \A n \in Slots : Undisturbed(n)
  BY DEF Undisturbed

\* No tap disturbs one,
LEMMA TapUndisturbed ==
  ASSUME OutboxInv, Tap
  PROVE  \A n \in Slots : Undisturbed(n)
<1>1. mut \in [Slots -> Mutation] /\ Blank \in Row
  BY Shape DEF Blank, Row
<1>2. ASSUME NEW op \in Ops, NEW i \in Ids, NEW b \in Row PROVE New(op, i, b).at = "mutate"
  BY NewForm
<1>3. ASSUME NEW m \in Slots, AddItem(m) PROVE \A n \in Slots : Undisturbed(n)
  <2>1. mut' = [mut EXCEPT ![m] = New("add", AnyOf(Unused), Blank)] /\ AnyOf(Unused) \in Ids
    BY <1>3, AnUnused DEF AddItem, Ids
  <2>2. New("add", AnyOf(Unused), Blank).at = "mutate"
    BY <1>1, <1>2, <2>1 DEF Ops
  <2> QED BY <1>1, <2>1, <2>2, UndisturbedBut
<1>4. ASSUME NEW m \in Slots, NEW i \in Ids, ClickRemove(m, i) PROVE \A n \in Slots : Undisturbed(n)
  <2> DEFINE y == [NoMutation EXCEPT !.op = "delete", !.item = i, !.at = "clicked"]
  <2>1. y.at = "clicked"
    BY Blanks DEF Mutation
  <2>2. mut' = [mut EXCEPT ![m] = y]
    BY <1>4 DEF ClickRemove
  <2> HIDE DEF y
  <2> QED BY <1>1, <2>1, <2>2, UndisturbedBut
<1>5. ASSUME NEW m \in Slots, NEW i \in Ids, NEW op \in EditOps, TapItem(m, i, op)
      PROVE  \A n \in Slots : Undisturbed(n)
  <2>1. CASE Queued(i) # {}
    <3>1. PICK c \in Queued(i) : mut' = [mut EXCEPT ![c].body = Outcome(@, op)]
      BY <1>5, <2>1 DEF TapItem, Fold
    <3>2. c \in Slots /\ mut[c] \in Mutation
      BY <1>1 DEF Queued
    <3> DEFINE y == [mut[c] EXCEPT !.body = Outcome(@, op)]
    <3>3. y.at = mut[c].at
      BY <3>2 DEF Mutation
    <3>4. mut' = [mut EXCEPT ![c] = y]
      BY <1>1, <3>1, <3>2
    <3>5. y.at = "sent" => mut[c].at = "sent"
      BY <3>3
    <3> HIDE DEF y
    <3> QED BY <1>1, <3>2, <3>3, <3>4, <3>5, UndisturbedBut
  <2>2. CASE Queued(i) = {}
    <3>1. mut' = [mut EXCEPT ![m] = New(op, i, Blank)] /\ op \in Ops
      BY <1>5, <2>2 DEF TapItem, Ops
    <3> QED BY <1>1, <1>2, <3>1, UndisturbedBut
  <2> QED BY <2>1, <2>2
<1>6. ASSUME NEW m \in Slots, NEW d \in Slots, UndoRemove(m, d) PROVE \A n \in Slots : Undisturbed(n)
  <2>1. PICK op \in Ops, b \in Row, i \in Ids : mut' = [mut EXCEPT ![d].undo = None, ![m] = New(op, i, b)]
    <3>1. CASE mut[d].undo \in Reals
      BY <1>1, <1>6, <3>1 DEF UndoRemove, Ops, Ids
    <3>2. CASE mut[d].undo \notin Reals
      <4> DEFINE i == mut[d].undo
                 b == wish[i].row
                 t == AnyOf(Unused)
      <4>1. i \in Temps /\ b \in Row
        BY <1>1, <1>6, <3>2, Shape, Fields DEF UndoRemove, Ids, OthersOK
      <4>2. Unused # {} /\ mut' = [mut EXCEPT ![d].undo = None, ![m] = New("add", t, b)]
        BY <1>6, <3>2 DEF UndoRemove
      <4>3. t \in Ids
        BY <4>2, AnUnused DEF Ids
      <4> HIDE DEF b, t
      <4>4. "add" \in Ops
        BY DEF Ops
      <4> QED BY <4>1, <4>2, <4>3, <4>4
    <3> QED BY <3>1, <3>2
  <2> DEFINE z == [mut[d] EXCEPT !.undo = None]
             y == New(op, i, b)
  <2>2. z.at = mut[d].at
    BY <1>1 DEF Mutation
  <2>3. \A n \in Slots : mut'[n] = IF n = m THEN y ELSE IF n = d THEN z ELSE mut[n]
    BY <1>1, <2>1
  <2>4. y.at = "mutate"
    BY <1>2
  <2> HIDE DEF y, z
  <2> QED BY <2>2, <2>3, <2>4 DEF Undisturbed
<1> QED BY <1>3, <1>4, <1>5, <1>6 DEF Tap

\* ... nor does the work on a mutation.
LEMMA WorkUndisturbed ==
  ASSUME OutboxInv, NEW m \in Slots, Work(m), ~BackoffEnds(m)
  PROVE  \A n \in Slots : Undisturbed(n)
<1> DEFINE x == mut[m]
<1>1. mut \in [Slots -> Mutation] /\ x \in Mutation
  BY Shape
<1>2. End(x).at = "done" /\ Attempt(x).at = "sent" /\ \A at \in Stage : Handled(x, at).at = at
  BY <1>1, EndForm, AttemptForm, HandledForm
<1>3. ASSUME RemoveItem(m) PROVE \A n \in Slots : Undisturbed(n)
  <2> DEFINE creates == Queued(x.item)
             a == [x EXCEPT !.at = "mutate", !.cached = TRUE, !.undo = x.item]
             b == [Done EXCEPT !.undo = x.item]
  <2>1. mut' = [n \in Slots |-> CASE n = m -> IF creates = {} THEN a ELSE b
                                 [] n \in creates -> Drop(mut[n])
                                 [] OTHER -> mut[n]]
    BY <1>3 DEF RemoveItem
  <2>2. a.at = "mutate" /\ b.at = "done"
    BY <1>1, Blanks DEF Mutation
  <2>3. ASSUME NEW n \in Slots
        PROVE  Drop(mut[n]).at = IF mut[n].at = "paused" THEN "done" ELSE mut[n].at
    BY <1>1, EndForm DEF Drop, Mutation
  <2>4. x.at = "clicked"
    BY <1>3 DEF RemoveItem
  <2>5. \A n \in Slots : mut'[n] \in {a, b, Drop(mut[n]), mut[n]}
    <3> HIDE DEF a, b, creates
    <3> QED BY <2>1
  <2> HIDE DEF a, b
  <2>6. \A n \in Slots : mut'[n].at \in {"mutate", "done", mut[n].at}
    BY <2>2, <2>3, <2>5
  <2> QED BY <2>6 DEF Undisturbed
<1>4. ASSUME Handle(m, Handled(x, "served"), Handled(x, "refused")), x.at = "sent"
      PROVE  \A n \in Slots : Undisturbed(n)
  <2> DEFINE h == Handled(x, "served")
             r == Handled(x, "refused")
             g == [h EXCEPT !.made = IF h.at = "served" THEN AnyOf(Unborn) ELSE None]
  <2>1. h \in Mutation /\ h.at = "served" /\ r.at = "refused"
    BY <1>1, HandledForm DEF Stage
  <2>2. g.at = "served"
    BY <2>1 DEF Mutation
  <2>3. \E y \in {g, h, r} : mut' = [mut EXCEPT ![m] = y]
    BY <1>4 DEF Handle
  <2> HIDE DEF g, h, r
  <2> QED BY <1>1, <1>4, <2>1, <2>2, <2>3, UndisturbedBut
<1>5. ASSUME Handle(m, End(x), End(x)), x.at = "orphan"
      PROVE  \A n \in Slots : Undisturbed(n)
  <2> DEFINE e == End(x)
             g == [e EXCEPT !.made = IF e.at = "served" THEN AnyOf(Unborn) ELSE None]
  <2>1. e \in Mutation /\ e.at = "done"
    BY <1>1, EndForm
  <2>2. g.at = "done"
    BY <2>1 DEF Mutation
  <2>3. \E y \in {g, e} : mut' = [mut EXCEPT ![m] = y]
    BY <1>5 DEF Handle
  <2> HIDE DEF g, e
  <2> QED BY <1>1, <2>1, <2>2, <2>3, UndisturbedBut
<1>6. ASSUME Answer(m) PROVE \A n \in Slots : Undisturbed(n)
  <2>1. \A n \in Slots : mut'[n] \in {End(x), Remapped(mut[n], x.item, x.made), mut[n]}
                         /\ (mut'[n] = End(x) => mut'[n].at = "done")
    BY <1>2, <1>6 DEF Answer
  <2>2. \A n \in Slots : Remapped(mut[n], x.item, x.made).at = mut[n].at
    BY <1>1 DEF Remapped, Mutation
  <2>3. \A n \in Slots : mut'[n].at \in {"done", mut[n].at}
    BY <2>1, <2>2
  <2> QED BY <2>3 DEF Undisturbed
<1>7. ASSUME LoseAttempt(m) PROVE \A n \in Slots : Undisturbed(n)
  <2> DEFINE h == Handled(x, "backoff")
             y == [h EXCEPT !.tries = @ + 1, !.made = None]
  <2>1. h \in Mutation /\ h.at = "backoff"
    BY <1>1, HandledForm DEF Stage
  <2>2. y.at = "backoff"
    BY <2>1 DEF Mutation
  <2>3. \E z \in {End(x), y} : mut' = [mut EXCEPT ![m] = z]
    BY <1>7 DEF LoseAttempt
  <2> HIDE DEF y
  <2> QED BY <1>1, <1>2, <2>2, <2>3, UndisturbedBut
<1>8. ASSUME Start(m) PROVE \A n \in Slots : Undisturbed(n)
  BY <1>1, <1>2, <1>8, UndisturbedBut DEF Start
<1>9. ASSUME Refuse(m) PROVE \A n \in Slots : Undisturbed(n)
  BY <1>1, <1>2, <1>9, UndisturbedBut DEF Refuse
<1> QED BY <1>3, <1>4, <1>5, <1>6, <1>7, <1>8, <1>9 DEF Work, Serve, ServeOrphan

\* A resumed slot is sent with what its mutation names by now.
LEMMA Resumed ==
  ASSUME mut \in [Slots -> Mutation], Resume, NEW n \in Slots
  PROVE  /\ mut'[n].at # "paused"
         /\ mut[n].at \in {"backoff", "paused"} /\ mut'[n].at = "sent"
              => mut'[n].sent.item = mut[n].item
<1>1. mut'[n] = IF mut[n].at = "paused" THEN Attempt(mut[n]) ELSE mut[n]
  BY DEF Resume
<1>2. Attempt(mut[n]).at = "sent" /\ Attempt(mut[n]).sent.item = mut[n].item
  BY AttemptForm
<1> QED BY <1>1, <1>2

\* A step leaves nothing paused that could go on.
LEMMA WakeupStep ==
  ASSUME OutboxInv, NoLostWakeup, [Next]_vars
  PROVE  NoLostWakeup'
<1> SUFFICES ASSUME online', visible', NEW n \in Slots
             PROVE  mut'[n].at # "paused"
  BY DEF NoLostWakeup, CanContinue
<1>1. mut \in [Slots -> Mutation]
  BY Shape
<1>2. ASSUME Undisturbed(n), UNCHANGED <<online, visible>> PROVE mut'[n].at # "paused"
  BY <1>2 DEF Undisturbed, NoLostWakeup, CanContinue
<1>3. CASE Tap
  <2>1. UNCHANGED <<online, visible>>
    BY <1>3 DEF Tap, AddItem, ClickRemove, TapItem, UndoRemove, device
  <2> QED BY <1>2, <1>3, <2>1, TapUndisturbed
<1>4. ASSUME NEW m \in Slots, Work(m) PROVE mut'[n].at # "paused"
  <2>1. UNCHANGED <<online, visible>>
    BY <1>4 DEF Work, RemoveItem, Start, Serve, ServeOrphan, Answer, Refuse, LoseAttempt, BackoffEnds, device
  <2>2. CASE BackoffEnds(m)
    <3>1. mut' = [mut EXCEPT ![m] = Attempt(mut[m])]
      BY <2>1, <2>2 DEF BackoffEnds, CanContinue
    <3>2. mut'[n] \in {Attempt(mut[m]), mut[n]}
      BY <1>1, <3>1
    <3> QED BY <1>1, <2>1, <3>2, AttemptForm DEF NoLostWakeup, CanContinue
  <2> QED BY <1>2, <1>4, <2>1, <2>2, WorkUndisturbed
<1>5. CASE GoOffline \/ Hide
  BY <1>5 DEF GoOffline, Hide
<1>6. CASE GoOnline \/ Show
  <2>1. Resume
    BY <1>6 DEF GoOnline, Show, ResumeIf
  <2> QED BY <1>1, <2>1, Resumed
<1>7. CASE Refetch \/ Save \/ UNCHANGED vars
  BY <1>7 DEF Refetch, Save, vars, device, NoLostWakeup, CanContinue
<1>8. CASE Reload
  BY <1>8, Reloaded
<1> QED BY <1>3, <1>4, <1>5, <1>6, <1>7, <1>8 DEF Next, Device

\* No order of outages, backoffs and page visibility leaves a mutation paused that
\* nothing will resume: React Query's pause and resumePausedMutations together.
THEOREM NothingSleepsOn == Spec => []NoLostWakeup
<1>1. Init => NoLostWakeup
  BY Blanks DEF Init, NoLostWakeup
<1>2. OutboxInv /\ NoLostWakeup /\ [Next]_vars => NoLostWakeup'
  BY WakeupStep
<1> QED BY <1>1, <1>2, OutboxSafe, PTL DEF Spec

\* An attempt that is made again names what its mutation names, and after a
\* reload what the disk does.
LEMMA SentAgain ==
  ASSUME OutboxInv, [Next]_vars, NEW n \in Slots,
         mut[n].at \in {"backoff", "paused"}, mut'[n].at = "sent"
  PROVE  \/ mut'[n].sent.item = mut[n].item /\ excused \subseteq excused'
         \/ Reload
<1>1. mut \in [Slots -> Mutation]
  BY Shape
<1>2. CASE Tap
  BY <1>2, TapUndisturbed DEF Undisturbed
<1>3. ASSUME NEW m \in Slots, Work(m) PROVE mut'[n].sent.item = mut[n].item /\ excused \subseteq excused'
  <2>1. BackoffEnds(m)
    BY <1>3, WorkUndisturbed DEF Undisturbed
  <2> DEFINE x == mut[m]
             p == [x EXCEPT !.at = "paused"]
  <2>2. /\ Attempt(x).sent.item = x.item /\ p.at = "paused" /\ End(x).at = "done"
    BY <1>1, AttemptForm, EndForm DEF Mutation
  <2>3. /\ \E y \in {Attempt(x), p, End(x)} : mut' = [mut EXCEPT ![m] = y]
        /\ excused' = excused
    BY <2>1 DEF BackoffEnds, ghosts
  <2>4. mut'[n] # mut[n]
    OBVIOUS
  <2>5. n = m /\ mut'[n] \in {Attempt(x), p, End(x)}
    <3> HIDE DEF p
    <3> QED BY <1>1, <2>3, <2>4
  <2>6. mut'[n] = Attempt(x)
    BY <2>2, <2>5
  <2> QED BY <2>2, <2>3, <2>5, <2>6
<1>4. CASE GoOnline \/ Show
  <2>1. Resume /\ excused' = excused
    BY <1>4 DEF GoOnline, Show, ResumeIf, ghosts
  <2> QED BY <1>1, <2>1, Resumed
<1>5. CASE GoOffline \/ Hide \/ Refetch \/ Save \/ UNCHANGED vars
  BY <1>5 DEF GoOffline, Hide, Refetch, Save, vars, device
<1> QED BY <1>2, <1>3, <1>4, <1>5 DEF Next, Device

\* Once a create has been answered, no queued change of the item is sent with its
\* temp id again: remapQueuedItemId reaches all of them, wherever they wait.
THEOREM RetriesNameRows == Spec => RetriesNameTheRow
<1>1. ASSUME OutboxInv, [Next]_vars
      PROVE  [\A m \in Slots :
                LET i == mut'[m].sent.item IN
                /\ mut[m].at \in {"backoff", "paused"} /\ mut'[m].at = "sent"
                /\ mut[m].op # "add" /\ i \in Temps \ excused'
                => ~Answered(i)]_vars
  <2> SUFFICES ASSUME NEW m \in Slots, mut[m].at \in {"backoff", "paused"}, mut'[m].at = "sent",
                      mut[m].op # "add", mut'[m].sent.item \in Temps \ excused'
               PROVE  ~Answered(mut'[m].sent.item)
    OBVIOUS
  <2> DEFINE x == mut[m]
             i == mut'[m].sent.item
             d == disk[m]
  <2>1. /\ NameOK(x, AnsweredIds, excused) /\ DiskOK(x, d, origin)
    BY <1>1, Shape DEF SlotOK
  <2>2. i = x.item /\ i \notin excused
    <3>1. CASE i = x.item /\ excused \subseteq excused'
      BY <3>1
    <3>2. CASE Reload
      <4>1. /\ i = d.item /\ d.at = "paused" /\ (d # x => Item(x.item) \in excused')
            /\ excused \subseteq excused'
        BY <1>1, <3>2, Reloaded DEF Pending, Stage, Reload
      <4>2. Item(x.item) = i
        BY <2>1, <4>1, OutboxAssumption DEF DiskOK, Item, ItemOf
      <4> QED BY <4>1, <4>2
    <3> QED BY <1>1, <3>1, <3>2, SentAgain
  <2> QED BY <2>1, <2>2 DEF NameOK, AnsweredIds, InFlight
<1> QED BY <1>1, OutboxSafe, PTL DEF Spec, RetriesNameTheRow

-----------------------------------------------------------------------------
(* SettledAsAsked: what the user asked is on its way.                      *)

\* x is the create of item t; or a change of it that is under way.
Creates(x, t) == x.op = "add" /\ x.item = t
Changes(x, t, from) == x.op # "add" /\ x.at \in InFlight /\ ItemOf(x.item, from) = t

\* With x, a row that has seen the changes b and is in state s becomes what w
\* asks for.
Toward(x, b, s, w) ==
  /\ Outcome(b, x.op) = w.row
  /\ IF x.op \in EditOps THEN s = "live" <=> w.want ELSE w.want <=> x.op = "restore"
  /\ x.at = "served" => b = w.row /\ (s = "live" <=> w.want)

\* Such a row is as the user asked, or a change under way makes it so.
Agrees(t, b, s) ==
  /\ (\A m \in Slots : ~Changes(mut[m], t, origin)) => b = wish[t].row /\ (s = "live" <=> wish[t].want)
  /\ \A m \in Slots : Changes(mut[m], t, origin) => Toward(mut[m], b, s, wish[t])

\* A create under way makes a row that agrees; one that ended without a row was
\* cancelled.
CreateAsAsked(c, t) ==
  LET x == mut[c] IN
  /\ x.at \in InFlight => x.cached
  /\ x.at = "sent" => x.sent.body = x.body
  /\ x.at \in InFlight \ {"served"} =>
       /\ Agrees(t, x.body, "live")
       /\ \A m \in Slots : Changes(mut[m], t, origin) => mut[m].at # "served"
  /\ x.at = "done" /\ (\A r \in Reals : origin[r] # t) => ~wish[t].want

\* An item has one change under way, and one row.
OneChange(t) ==
  /\ \A m, n \in Slots : Changes(mut[m], t, origin) /\ Changes(mut[n], t, origin) => m = n
  /\ \A r, q \in Reals : origin[r] = t /\ origin[q] = t => r = q

\* A temp id nobody has used is nowhere.
NewOK(t) ==
  \/ Used(t)
  \/ t \notin screen /\ \A m \in Slots : mut[m].at \in Pending => mut[m].item # t

ItemOK(t) ==
  /\ OneChange(t)
  /\ \A r \in Reals : origin[r] = t => Agrees(t, row[r], server[r])
  /\ \A c \in Slots : Creates(mut[c], t) => CreateAsAsked(c, t)
  /\ NewOK(t)

\* What is sent is about the item its mutation is about; a request whose page is
\* gone is about an excused one.
SentOK(x, from, told) ==
  /\ x.at = "sent" => ItemOf(x.sent.item, from) = ItemOf(x.item, from)
  /\ x.at = "orphan" => ItemOf(x.sent.item, from) \in told

WishInv ==
  /\ \A r \in Reals \ Born : origin[r] = None
  /\ \A m \in Slots : SentOK(mut[m], origin, excused)
  /\ \A t \in Temps \ excused : ItemOK(t)

-----------------------------------------------------------------------------
(* An item a step leaves alone.                                            *)

\* x becomes y, as far as item t is concerned.
Calm(t, x, y) ==
  /\ Changes(y, t, origin') <=> Changes(x, t, origin)
  /\ Changes(x, t, origin) => y.op = x.op /\ (y.at = "served" => x.at = "served")
  /\ Creates(y, t) <=> Creates(x, t)
  /\ Creates(x, t) =>
       /\ y.at \in InFlight => x.at \in InFlight /\ (x.cached => y.cached)
       /\ y.at \in InFlight \ {"served"} => x.at # "served" /\ y.body = x.body
       /\ y.at = "sent" => y.sent.body = y.body \/ (x.at = "sent" /\ y.sent = x.sent)
       /\ y.at = "done" => x.at = "done" \/ \E r \in Reals : origin'[r] = t
  /\ y.at \in Pending /\ y.item = t => (x.at \in Pending /\ x.item = t) \/ t \in screen \/ Used(t)

SameRows(t) ==
  \A r \in Reals : /\ origin'[r] = t <=> origin[r] = t
                   /\ origin[r] = t => row'[r] = row[r] /\ server'[r] = server[r]

Still(t) ==
  /\ wish'[t] = wish[t] /\ SameRows(t)
  /\ t \in screen' => t \in screen \/ Used(t)
  /\ \A n \in Slots : Calm(t, mut[n], mut'[n])

\* What agreed with the user's wish still does.
LEMMA StillAgrees ==
  ASSUME NEW t, wish'[t] = wish[t], \A n \in Slots : Calm(t, mut[n], mut'[n]),
         NEW b, NEW s, Agrees(t, b, s)
  PROVE  Agrees(t, b, s)'
<1>1. ASSUME NEW n \in Slots
      PROVE  /\ Changes(mut'[n], t, origin') <=> Changes(mut[n], t, origin)
             /\ Changes(mut[n], t, origin) => mut'[n].op = mut[n].op
                                             /\ (mut'[n].at = "served" => mut[n].at = "served")
  BY DEF Calm
<1>2. ASSUME NEW n \in Slots, Changes(mut'[n], t, origin') PROVE Toward(mut'[n], b, s, wish'[t])
  BY <1>1, <1>2 DEF Agrees, Toward
<1>3. ASSUME \A n \in Slots : ~Changes(mut'[n], t, origin')
      PROVE  b = wish'[t].row /\ (s = "live" <=> wish'[t].want)
  BY <1>1, <1>3 DEF Agrees
<1> QED BY <1>2, <1>3 DEF Agrees

LEMMA StillOK ==
  ASSUME NEW t, ItemOK(t), Still(t)
  PROVE  ItemOK(t)'
<1>1. /\ wish'[t] = wish[t] /\ SameRows(t)
      /\ \A n \in Slots : Calm(t, mut[n], mut'[n])
  BY DEF Still
<1>2. OneChange(t)'
  BY <1>1 DEF ItemOK, OneChange, Calm, SameRows
<1>3. ASSUME NEW r \in Reals, origin'[r] = t PROVE Agrees(t, row[r], server[r])'
  <2>1. origin[r] = t /\ row'[r] = row[r] /\ server'[r] = server[r]
    BY <1>1, <1>3 DEF SameRows
  <2>2. PICK b, s : b = row[r] /\ s = server[r]
    OBVIOUS
  <2>3. Agrees(t, b, s)
    BY <2>1, <2>2 DEF ItemOK
  <2>4. Agrees(t, b, s)'
    BY <1>1, <2>3, StillAgrees
  <2> QED BY <2>1, <2>2, <2>4 DEF Agrees
<1>4. ASSUME NEW c \in Slots, Creates(mut'[c], t) PROVE CreateAsAsked(c, t)'
  <2> DEFINE x == mut[c]
             y == mut'[c]
  <2>1. Creates(x, t) /\ CreateAsAsked(c, t) /\ Calm(t, x, y)
    BY <1>1, <1>4 DEF Calm, ItemOK
  <2>2. y.at \in InFlight => y.cached
    BY <2>1 DEF Calm, CreateAsAsked
  <2>3. ASSUME y.at \in InFlight \ {"served"}
        PROVE  /\ Agrees(t, mut[c].body, "live")' /\ y.body = x.body /\ x.at \in InFlight \ {"served"}
               /\ \A n \in Slots : Changes(mut'[n], t, origin') => mut'[n].at # "served"
    <3>1. x.at \in InFlight \ {"served"} /\ y.body = x.body
      BY <2>1, <2>3 DEF Calm
    <3>2. PICK b : b = x.body
      OBVIOUS
    <3>3. Agrees(t, b, "live") /\ \A n \in Slots : Changes(mut[n], t, origin) => mut[n].at # "served"
      BY <2>1, <3>1, <3>2 DEF CreateAsAsked
    <3>4. Agrees(t, b, "live")'
      BY <1>1, <3>3, StillAgrees
    <3>5. Agrees(t, mut[c].body, "live")'
      BY <3>1, <3>2, <3>4 DEF Agrees
    <3> QED BY <1>1, <3>1, <3>3, <3>5 DEF Calm
  <2>4. y.at = "sent" => y.sent.body = y.body
    BY <2>1, <2>3 DEF Calm, CreateAsAsked, InFlight
  <2>5. y.at = "done" /\ (\A r \in Reals : origin'[r] # t) => ~wish'[t].want
    BY <1>1, <2>1 DEF Calm, CreateAsAsked, SameRows
  <2> QED BY <2>2, <2>3, <2>4, <2>5 DEF CreateAsAsked
<1>5. NewOK(t)'
  <2>1. Used(t) => Used(t)'
    BY <1>1 DEF Used, Calm, Creates
  <2> QED BY <1>1, <2>1 DEF ItemOK, NewOK, Still, Calm
<1> QED BY <1>2, <1>3, <1>4, <1>5 DEF ItemOK

-----------------------------------------------------------------------------
(* What the steps do to a slot, as far as the user's wishes go.            *)

\* Rows are only added, and of what is excused nothing is taken back.
Kept ==
  /\ Born \subseteq Born' /\ (\A r \in Born : origin'[r] = origin[r])
  /\ excused \subseteq excused'

\* y names what x named, or an attempt of it is made.
Resent(x, y) ==
  \/ y.at \notin {"sent", "orphan"}
  \/ y.at = x.at /\ y.sent.item = x.sent.item /\ ItemOf(y.item, origin') = ItemOf(x.item, origin)
  \/ y.at = "sent" /\ y.sent.item = y.item
  \/ /\ y.at = "orphan" /\ x.at = "sent" /\ y.sent.item = x.sent.item
     /\ ItemOf(x.item, origin) \in excused'

\* An id that is known stands for the same item from then on.
LEMMA SameItem ==
  ASSUME Kept, NEW i \in Known
  PROVE  ItemOf(i, origin') = ItemOf(i, origin)
  BY OutboxAssumption DEF Kept, Known, ItemOf

\* The parts of the invariant, of what the steps that follow say.
LEMMA WishStep ==
  ASSUME OutboxInv, WishInv, Kept, \A r \in Reals \ Born' : origin'[r] = None,
         \A n \in Slots : Resent(mut[n], mut'[n]),
         \A t \in Temps \ excused' : ItemOK(t) => ItemOK(t)'
  PROVE  WishInv'
<1>1. ASSUME NEW n \in Slots PROVE SentOK(mut'[n], origin', excused')
  <2> DEFINE x == mut[n]
             y == mut'[n]
  <2>1. Sound(x, Known) /\ SentOK(x, origin, excused) /\ Resent(x, y)
    BY Shape DEF SlotOK, WishInv
  <2> HIDE DEF x, y
  <2>2. x.at \in {"sent", "orphan"} => ItemOf(x.sent.item, origin') = ItemOf(x.sent.item, origin)
    BY <2>1, SameItem DEF Sound
  <2>3. excused \subseteq excused'
    BY DEF Kept
  <2>4. SentOK(y, origin', excused')
    BY <2>1, <2>2, <2>3 DEF SentOK, Resent
  <2> QED BY <2>4 DEF y
<1>2. \A t \in Temps \ excused' : ItemOK(t)'
  BY DEF WishInv, Kept
<1> QED BY <1>1, <1>2 DEF WishInv

\* A slot that stays as it is,
LEMMA CalmSame ==
  ASSUME OutboxInv, Kept, NEW n \in Slots, mut'[n] = mut[n]
  PROVE  Resent(mut[n], mut'[n]) /\ \A t : Calm(t, mut[n], mut'[n])
<1> DEFINE x == mut[n]
<1>1. Sound(x, Known)
  BY Shape DEF SlotOK
<1>2. x.at \in InFlight \cup {"sent", "orphan"} => ItemOf(x.item, origin') = ItemOf(x.item, origin)
  BY <1>1, SameItem DEF Sound, InFlight, Pending, Stage
<1> HIDE DEF x
<1>3. Resent(x, x)
  BY <1>2 DEF Resent
<1>4. ASSUME NEW t PROVE Calm(t, x, x)
  BY <1>2 DEF Calm, Changes, InFlight
<1> QED BY <1>3, <1>4 DEF x

\* ... one that goes from one stage of its life to another,
LEMMA CalmMoves ==
  ASSUME OutboxInv, Kept, NEW n \in Slots, NEW y, NEW t,
         y.op = mut[n].op, y.item = mut[n].item, y.body = mut[n].body, y.cached = mut[n].cached,
         mut[n].at \in InFlight, y.at \in InFlight, y.at = "served" => mut[n].at = "served",
         Creates(mut[n], t) => mut[n].at # "served",
         y.at = "sent" => y.sent.item = y.item /\ y.sent.body = y.body
  PROVE  Resent(mut[n], y) /\ Calm(t, mut[n], y)
<1> DEFINE x == mut[n]
<1>1. Sound(x, Known)
  BY Shape DEF SlotOK
<1>2. ItemOf(x.item, origin') = ItemOf(x.item, origin)
  BY <1>1, SameItem DEF Sound, InFlight, Pending, Stage
<1> HIDE DEF x
<1>3. Resent(x, y)
  BY DEF Resent, InFlight
<1>4. Calm(t, x, y)
  BY <1>2 DEF Calm, Changes, Creates, InFlight, Pending, Stage, x
<1> QED BY <1>3, <1>4 DEF x

\* ... and one of another item that ends.
LEMMA CalmEnds ==
  ASSUME NEW x, NEW y, NEW t \in Temps, y.at = "done", x.op = "add" <=> y.op = "add",
         x.op = "add" => y.item = x.item /\ x.item \in Temps, ItemOf(x.item, origin) # t
  PROVE  Resent(x, y) /\ Calm(t, x, y)
<1>1. ~Creates(x, t) /\ ~Creates(y, t)
  BY OutboxAssumption DEF Creates, ItemOf
<1>2. ~Changes(x, t, origin) /\ ~Changes(y, t, origin')
  BY DEF Changes, InFlight
<1>3. Calm(t, x, y)
  BY <1>1, <1>2 DEF Calm, Pending, Stage
<1> QED BY <1>3 DEF Resent

\* A mutation that ends, as far as other items are concerned.
LEMMA EndCalm ==
  ASSUME NEW x, Sound(x, Known), x.at \in Pending \cup {"orphan"}
  PROVE  Resent(x, End(x)) /\ \A t \in Temps \ {Item(x.item)} : Calm(t, x, End(x))
<1> DEFINE y == End(x)
<1>1. /\ y.at = "done" /\ (x.op = "add" <=> y.op = "add")
      /\ x.op = "add" => y.item = x.item /\ x.item \in Temps
  BY EndForm, OutboxAssumption DEF Sound
<1> HIDE DEF y
<1>2. ItemOf(x.item, origin) = Item(x.item)
  BY DEF Item, ItemOf
<1>3. Resent(x, y)
  BY <1>1 DEF Resent
<1>4. \A t \in Temps \ {Item(x.item)} : Calm(t, x, y)
  BY <1>1, <1>2, CalmEnds
<1> QED BY <1>3, <1>4 DEF y

\* A step that leaves the table and the wishes alone,
LEMMA AllCalm ==
  ASSUME OutboxInv, WishInv, UNCHANGED <<server, row, origin, wish>>, excused \subseteq excused',
         \A t \in Temps : t \in screen' => t \in screen \/ Used(t),
         \A n \in Slots : Resent(mut[n], mut'[n]),
         \A n \in Slots : \A t \in Temps \ excused' : ItemOK(t) => Calm(t, mut[n], mut'[n])
  PROVE  WishInv'
<1>1. Kept /\ Born' = Born
  BY DEF Kept, Born
<1>2. ASSUME NEW t \in Temps \ excused', ItemOK(t) PROVE ItemOK(t)'
  <2>1. SameRows(t)
    BY DEF SameRows
  <2> QED BY <1>2, <2>1, StillOK DEF Still
<1>3. \A r \in Reals \ Born' : origin'[r] = None
  BY <1>1 DEF WishInv
<1> QED BY <1>1, <1>2, <1>3, WishStep

\* ... and of one slot.
LEMMA OneCalm ==
  ASSUME OutboxInv, WishInv, NEW m \in Slots, NEW y, mut' = [mut EXCEPT ![m] = y],
         UNCHANGED <<server, row, origin, wish>>, excused \subseteq excused',
         \A t \in Temps : t \in screen' => t \in screen \/ Used(t),
         Resent(mut[m], y),
         \A t \in Temps \ excused' : ItemOK(t) => Calm(t, mut[m], y)
  PROVE  WishInv'
<1>1. mut'[m] = y /\ \A n \in Slots \ {m} : mut'[n] = mut[n]
  BY Shape
<1>2. \A n \in Slots \ {m} : Resent(mut[n], mut'[n]) /\ \A t : Calm(t, mut[n], mut'[n])
  BY <1>1, CalmSame DEF Kept, Born
<1>3. \A n \in Slots : Resent(mut[n], mut'[n])
  BY <1>1, <1>2
<1>4. \A n \in Slots : \A t \in Temps \ excused' : ItemOK(t) => Calm(t, mut[n], mut'[n])
  BY <1>1, <1>2
<1> QED BY <1>3, <1>4, AllCalm

\* A step that concerns one item.
LEMMA TouchesOne ==
  ASSUME OutboxInv, WishInv, Kept, \A r \in Reals \ Born' : origin'[r] = None, NEW t,
         \A n \in Slots : Resent(mut[n], mut'[n]),
         \A u \in Temps \ (excused' \cup {t}) : Still(u),
         t \in Temps \ excused' /\ ItemOK(t) => ItemOK(t)'
  PROVE  WishInv'
<1>1. \A u \in Temps \ excused' : ItemOK(u) => ItemOK(u)'
  BY StillOK
<1> QED BY <1>1, WishStep

-----------------------------------------------------------------------------
(* The steps of one mutation.                                              *)

\* onMutate, and the first attempt.
LEMMA StartWish ==
  ASSUME OutboxInv, WishInv, NEW m \in Slots, Start(m)
  PROVE  WishInv'
<1> DEFINE x == mut[m]
           y == Attempt(x)
<1>1. /\ x.at = "mutate" /\ mut' = [mut EXCEPT ![m] = y] /\ Sound(x, Known)
      /\ screen' = IF x.op \in {"add", "restore"} THEN screen \cup {x.item} ELSE screen
      /\ UNCHANGED <<server, row, origin, wish, excused>>
  BY Shape DEF Start, backend, ghosts, SlotOK
<1>2. /\ y.op = x.op /\ y.item = x.item /\ y.body = x.body /\ y.cached = x.cached /\ y.at = "sent"
      /\ y.sent.item = y.item /\ y.sent.body = y.body
  BY <1>1, AttemptForm DEF Sound
<1> HIDE DEF y
<1>3. \A t : Resent(x, y) /\ Calm(t, x, y)
  BY <1>1, <1>2, CalmMoves DEF Kept, Born, InFlight
<1>4. ASSUME NEW t \in Temps, t \in screen' PROVE t \in screen \/ Used(t)
  BY <1>1, <1>4, OutboxAssumption DEF Sound, Used
<1> QED BY <1>1, <1>3, <1>4, OneCalm

\* A refusal: the user is told.
LEMMA RefuseWish ==
  ASSUME OutboxInv, WishInv, NEW m \in Slots, Refuse(m)
  PROVE  WishInv'
<1> DEFINE x == mut[m]
           y == End(x)
<1>1. /\ x.at = "refused" /\ mut' = [mut EXCEPT ![m] = y] /\ Sound(x, Known)
      /\ excused' = excused \cup {Item(x.item)}
      /\ UNCHANGED <<screen, server, row, origin, wish>>
  BY Shape DEF Refuse, device, backend, SlotOK
<1>2. Resent(x, y) /\ \A t \in Temps \ {Item(x.item)} : Calm(t, x, y)
  BY <1>1, EndCalm DEF Pending, Stage
<1> HIDE DEF y
<1> QED BY <1>1, <1>2, OneCalm

\* An attempt is lost: another follows, or the user sees the rollback.
LEMMA LoseAttemptWish ==
  ASSUME OutboxInv, WishInv, NEW m \in Slots, LoseAttempt(m)
  PROVE  WishInv'
<1> DEFINE x == mut[m]
           t == Item(x.item)
           last == ~MayRetry(x)
           h == Handled(x, "backoff")
           y == [h EXCEPT !.tries = h.tries + 1, !.made = None]
           why == last \/ (x.op = "add" /\ x.at = "served")
<1>1. /\ x.at \in {"sent", "served", "refused"} /\ Sound(x, Known)
      /\ mut' = [mut EXCEPT ![m] = IF last THEN End(x) ELSE y]
      /\ screen' = IF last /\ x.op = "add" THEN screen \ {x.item} ELSE screen
      /\ excused' = IF why THEN excused \cup {t} ELSE excused
      /\ UNCHANGED <<server, row, origin, wish>>
  BY Shape DEF LoseAttempt, backend, Excuse, SlotOK
<1>2. excused \subseteq excused' /\ screen' \subseteq screen
  BY <1>1
<1>3. CASE last
  <2>1. mut' = [mut EXCEPT ![m] = End(x)] /\ t \in excused'
    BY <1>1, <1>3
  <2>2. Resent(x, End(x)) /\ \A u \in Temps \ {t} : Calm(u, x, End(x))
    BY <1>1, EndCalm DEF Pending, Stage
  <2> HIDE DEF t
  <2> QED BY <1>1, <1>2, <2>1, <2>2, OneCalm
<1>4. CASE ~last
  <2>1. mut' = [mut EXCEPT ![m] = y]
    BY <1>1, <1>4
  <2>2. /\ h \in Mutation /\ h.at = "backoff" /\ h.op = x.op /\ h.item = x.item
        /\ h.body = x.body /\ h.cached = x.cached
    BY <1>1, HandledForm DEF Stage, Sound
  <2> HIDE DEF h
  <2>3. y.at = "backoff" /\ y.op = x.op /\ y.item = x.item /\ y.body = x.body /\ y.cached = x.cached
    BY <2>2 DEF Mutation
  <2> HIDE DEF y
  <2>4. ASSUME NEW u \in Temps \ excused' PROVE Resent(x, y) /\ Calm(u, x, y)
    <3>1. Creates(x, u) => x.at # "served"
      BY <1>1, OutboxAssumption DEF Creates, Item
    <3> QED BY <1>1, <1>2, <2>3, <3>1, CalmMoves DEF Kept, Born, InFlight
  <2>5. Resent(x, y)
    BY <2>3 DEF Resent
  <2> QED BY <1>1, <1>2, <2>1, <2>4, <2>5, OneCalm
<1> QED BY <1>3, <1>4

\* The backoff is over; only a create can have left the cache, and its item is
\* excused.
LEMMA BackoffEndsWish ==
  ASSUME OutboxInv, WishInv, NEW m \in Slots, BackoffEnds(m)
  PROVE  WishInv'
<1> DEFINE x == mut[m]
           p == [x EXCEPT !.at = "paused"]
           y == IF CanContinue THEN Attempt(x) ELSE IF x.cached THEN p ELSE End(x)
<1>1. /\ x.at = "backoff" /\ mut' = [mut EXCEPT ![m] = y] /\ Sound(x, Known)
      /\ NameOK(x, AnsweredIds, excused)
      /\ UNCHANGED <<screen, server, row, origin, wish, excused>>
  BY Shape DEF BackoffEnds, device, backend, ghosts, SlotOK
<1>2. p.at = "paused" /\ p.op = x.op /\ p.item = x.item /\ p.body = x.body /\ p.cached = x.cached
  BY <1>1 DEF Mutation, Sound
<1>3. /\ Attempt(x).at = "sent" /\ Attempt(x).op = x.op /\ Attempt(x).item = x.item
      /\ Attempt(x).body = x.body /\ Attempt(x).cached = x.cached
      /\ Attempt(x).sent.item = x.item /\ Attempt(x).sent.body = x.body
  BY <1>1, AttemptForm DEF Sound
<1> HIDE DEF p
<1>4. Kept
  BY <1>1 DEF Kept, Born
<1>5. ASSUME CanContinue \/ x.cached
      PROVE  Resent(x, y) /\ \A t : Calm(t, x, y)
  <2>1. y = Attempt(x) \/ y = p
    BY <1>5
  <2> HIDE DEF y
  <2> QED BY <1>1, <1>2, <1>3, <1>4, <2>1, CalmMoves DEF InFlight
<1>6. ASSUME ~CanContinue /\ ~x.cached
      PROVE  Resent(x, y) /\ \A t \in Temps \ excused : ItemOK(t) => Calm(t, x, y)
  <2>1. y = End(x)
    BY <1>6
  <2>2. x.op = "add"
    BY <1>1, <1>6 DEF NameOK, InFlight
  <2>3. ASSUME NEW t \in Temps, ItemOK(t) PROVE t # Item(x.item)
    <3>1. x.item \in Temps /\ Item(x.item) = x.item
      BY <1>1, <2>2, OutboxAssumption DEF Sound, Item
    <3> QED BY <1>1, <1>6, <2>2, <2>3, <3>1 DEF ItemOK, Creates, CreateAsAsked, InFlight
  <2>4. Resent(x, End(x)) /\ \A t \in Temps \ {Item(x.item)} : Calm(t, x, End(x))
    BY <1>1, EndCalm DEF Pending, Stage
  <2> HIDE DEF y
  <2> QED BY <2>1, <2>3, <2>4
<1> HIDE DEF y
<1>7. Resent(x, y) /\ \A t \in Temps \ excused : ItemOK(t) => Calm(t, x, y)
  BY <1>5, <1>6
<1> QED BY <1>1, <1>7, OneCalm

\* A removal up to its await is no change yet.
LEMMA ClickRemoveWish ==
  ASSUME OutboxInv, WishInv, NEW m \in Slots, NEW i \in Ids, ClickRemove(m, i)
  PROVE  WishInv'
<1> DEFINE x == mut[m]
           y == [NoMutation EXCEPT !.op = "delete", !.item = i, !.at = "clicked"]
<1>1. /\ x.at = "free" /\ i \in screen /\ mut' = [mut EXCEPT ![m] = y] /\ Sound(x, Known)
      /\ UNCHANGED <<screen, server, row, origin, wish, excused>>
  BY Shape DEF ClickRemove, device, backend, ghosts, SlotOK
<1>2. y.op = "delete" /\ y.item = i /\ y.at = "clicked"
  BY Blanks DEF Mutation
<1> HIDE DEF y
<1>3. x.op # "add"
  BY <1>1, OutboxAssumption DEF Sound
<1>4. Resent(x, y) /\ \A t : Calm(t, x, y)
  BY <1>1, <1>2, <1>3 DEF Resent, Calm, Changes, Creates, InFlight
<1> QED BY <1>1, <1>4, OneCalm

-----------------------------------------------------------------------------
(* The steps of the device, and the reload.                                *)

\* The device goes on- and offline, the page is hidden and shown: the paused
\* mutations are attempted again.
LEMMA DeviceWish ==
  ASSUME OutboxInv, WishInv, GoOffline \/ GoOnline \/ Hide \/ Show
  PROVE  WishInv'
<1>1. UNCHANGED <<server, row, origin, wish, excused, screen>>
  BY DEF GoOffline, GoOnline, Hide, Show, backend, ghosts
<1>2. \A n \in Slots : mut'[n] = mut[n] \/ (mut[n].at = "paused" /\ mut'[n] = Attempt(mut[n]))
  <2>1. UNCHANGED mut \/ Resume
    BY DEF GoOffline, GoOnline, Hide, Show, ResumeIf
  <2> QED BY <2>1 DEF Resume
<1>3. Kept
  BY <1>1 DEF Kept, Born
<1>4. ASSUME NEW n \in Slots PROVE Resent(mut[n], mut'[n]) /\ \A t : Calm(t, mut[n], mut'[n])
  <2>1. CASE mut'[n] = mut[n]
    BY <1>3, <2>1, CalmSame
  <2>2. CASE mut[n].at = "paused" /\ mut'[n] = Attempt(mut[n])
    <3> DEFINE x == mut[n]
               y == Attempt(x)
    <3>1. x \in Mutation
      BY Shape
    <3>2. /\ y.op = x.op /\ y.item = x.item /\ y.body = x.body /\ y.cached = x.cached /\ y.at = "sent"
          /\ y.sent.item = y.item /\ y.sent.body = y.body
      BY <3>1, AttemptForm
    <3> HIDE DEF y
    <3>3. \A t : Resent(x, y) /\ Calm(t, x, y)
      BY <1>3, <2>2, <3>2, CalmMoves DEF InFlight
    <3> QED BY <2>2, <3>3 DEF y
  <2> QED BY <1>2, <2>1, <2>2
<1> QED BY <1>1, <1>4, AllCalm

\* A refetch, and a write to the disk, leave the mutations as they are.
LEMMA QuietWish ==
  ASSUME OutboxInv, WishInv, UNCHANGED <<mut, server, row, origin, wish, excused>>,
         screen' \subseteq screen \cup Reals
  PROVE  WishInv'
<1>1. \A n \in Slots : Resent(mut[n], mut'[n]) /\ \A t : Calm(t, mut[n], mut'[n])
  BY CalmSame DEF Kept, Born
<1>2. \A t \in Temps : t \in screen' => t \in screen \/ Used(t)
  BY OutboxAssumption
<1> QED BY <1>1, <1>2, AllCalm

\* What a reload makes of a slot: what it could change the item of is excused.
LEMMA ReloadWish ==
  ASSUME OutboxInv, WishInv, Reload
  PROVE  WishInv'
<1>1. UNCHANGED <<server, row, origin, wish, screen>> /\ excused \subseteq excused'
  BY DEF Reload, backend
<1>2. ASSUME NEW n \in Slots
      PROVE  Resent(mut[n], mut'[n]) /\ \A t \in Temps \ excused' : Calm(t, mut[n], mut'[n])
  <2> DEFINE x == mut[n]
             y == mut'[n]
             d == disk[n]
  <2>1. /\ Sound(x, Known) /\ Sound(d, Known) /\ DiskOK(x, d, origin) /\ x.at \in Stage
    BY Shape, Fields DEF SlotOK, Sound
  <2>2. /\ Sound(y, Known)
        /\ y.op = "add" <=> x.op = "add"
        /\ x.op = "add" => y.item = x.item
        /\ \/ y.at = "sent" /\ d.at = "paused" /\ y.op = d.op /\ y.item = d.item /\ y.cached
              /\ y.sent.item = d.item /\ y.body = d.body /\ y.sent.body = d.body
           \/ y.at \in {"orphan", "free", "done"} /\ d.at # "paused" /\ y.op \in {x.op, None}
        /\ y.at = "orphan" => x.at = "sent" /\ y.sent.item = x.sent.item
        /\ y.at = "done" => x.at \notin {"free", "sent"}
        /\ x.at \in Pending \cup {"orphan"} /\ d # x => ItemOf(x.item, origin) \in excused'
        /\ x.at = "done" /\ d.at = "paused" => ItemOf(d.item, origin) \in excused'
    BY Reloaded DEF Item, ItemOf
  <2> HIDE DEF x, y, d
  <2>3. \A i \in Temps : ItemOf(i, origin) = i
    BY OutboxAssumption DEF ItemOf
  <2>4. CASE d.at = "paused" /\ d = x
    <3>1. /\ y.op = x.op /\ y.item = x.item /\ y.body = x.body /\ y.cached = x.cached /\ y.at = "sent"
          /\ y.sent.item = y.item /\ y.sent.body = y.body
      BY <2>1, <2>2, <2>4, Fields DEF DiskOK, Sound
    <3>2. \A t : Resent(x, y) /\ Calm(t, x, y)
      BY <1>1, <2>4, <3>1, CalmMoves DEF Kept, Born, InFlight, x
    <3> QED BY <3>2 DEF x, y
  <2>5. CASE ~(d.at = "paused" /\ d = x)
    <3>1. Resent(x, y)
      BY <2>1, <2>2, <2>5 DEF DiskOK, Resent, Pending, Stage
    <3>2. ASSUME NEW t \in Temps \ excused' PROVE Calm(t, x, y)
      <4>1. x.at \in InFlight \cup {"clicked", "orphan"} => ItemOf(x.item, origin) # t
        BY <2>2, <2>5, <3>2, <2>1 DEF DiskOK, Pending, Stage, InFlight
      <4>2. y.at = "sent" => ItemOf(y.item, origin) # t
        BY <2>1, <2>2, <3>2, <4>1 DEF DiskOK, Stage, InFlight
      <4>3. ~Changes(x, t, origin) /\ ~Changes(y, t, origin')
        BY <1>1, <2>2, <4>1, <4>2 DEF Changes, InFlight
      <4>4. Creates(x, t) => x.at = "done" /\ y.at = "done"
        BY <2>1, <2>2, <2>3, <4>1, <4>2, OutboxAssumption DEF Creates, Sound, Stage, InFlight
      <4>5. y.at \in Pending => y.item # t
        BY <2>2, <2>3, <3>2, <4>2 DEF Pending, Stage
      <4> QED BY <2>2, <4>3, <4>4, <4>5 DEF Calm, Creates, InFlight
    <3> QED BY <3>1, <3>2 DEF x, y
  <2> QED BY <2>4, <2>5
<1> QED BY <1>1, <1>2, AllCalm

-----------------------------------------------------------------------------
(* A change from its tap to its answer.                                    *)

\* An item of which slot m may hold the only change: before a step none but m
\* changes it, and after it the rows agree, or m makes them agree.
LEMMA OneChangeOK ==
  ASSUME OutboxInv, NEW t \in Temps, ItemOK(t), NEW m \in Slots,
         \A n \in Slots \ {m} : Calm(t, mut[n], mut'[n]) /\ ~Changes(mut[n], t, origin),
         ~Creates(mut[m], t), ~Creates(mut'[m], t),
         t \in screen' => t \in screen \/ Used(t),
         mut'[m].at \in Pending /\ mut'[m].item = t => t \in screen \/ Used(t),
         \A r \in Reals : origin'[r] = t <=> origin[r] = t,
         \A r \in Reals : origin[r] = t => Agrees(t, row[r], server[r])',
         \A c \in Slots \ {m} :
           Creates(mut[c], t) /\ mut[c].at \in InFlight \ {"served"} /\ mut'[c].body = mut[c].body =>
             Agrees(t, mut[c].body, "live")' /\ (Changes(mut'[m], t, origin') => mut'[m].at # "served"),
         wish'[t].want => wish[t].want \/ \E r \in Reals : origin[r] = t
  PROVE  ItemOK(t)'
<1>1. \A n \in Slots \ {m} : ~Changes(mut'[n], t, origin')
  BY DEF Calm
<1>2. OneChange(t)'
  BY <1>1 DEF ItemOK, OneChange
<1>3. \A r \in Reals : origin'[r] = t => Agrees(t, row[r], server[r])'
  OBVIOUS
<1>4. ASSUME NEW c \in Slots, Creates(mut'[c], t) PROVE CreateAsAsked(c, t)'
  <2> DEFINE x == mut[c]
             y == mut'[c]
  <2>1. c # m /\ Creates(x, t) /\ CreateAsAsked(c, t) /\ Calm(t, x, y)
    BY <1>4 DEF Calm, ItemOK
  <2>2. y.at \in InFlight => y.cached
    BY <2>1 DEF Calm, CreateAsAsked
  <2>3. ASSUME y.at \in InFlight \ {"served"}
        PROVE  /\ Agrees(t, mut[c].body, "live")' /\ y.body = x.body /\ x.at \in InFlight \ {"served"}
               /\ \A n \in Slots : Changes(mut'[n], t, origin') => mut'[n].at # "served"
    <3>1. x.at \in InFlight \ {"served"} /\ y.body = x.body
      BY <2>1, <2>3 DEF Calm
    <3>2. Agrees(t, mut[c].body, "live")' /\ (Changes(mut'[m], t, origin') => mut'[m].at # "served")
      BY <2>1, <3>1
    <3> QED BY <1>1, <3>1, <3>2
  <2>4. y.at = "sent" => y.sent.body = y.body
    BY <2>1, <2>3 DEF Calm, CreateAsAsked, InFlight
  <2>5. y.at = "done" /\ (\A r \in Reals : origin'[r] # t) => ~wish'[t].want
    BY <2>1 DEF Calm, CreateAsAsked
  <2> QED BY <2>2, <2>3, <2>4, <2>5 DEF CreateAsAsked
<1>5. NewOK(t)'
  <2>1. Used(t) => Used(t)'
    BY DEF Used, Calm, Creates
  <2> QED BY <2>1 DEF ItemOK, NewOK, Calm
<1> QED BY <1>2, <1>3, <1>4, <1>5 DEF ItemOK

\* A row whose item is not excused has its create behind it.
LEMMA NoCreateOfRow ==
  ASSUME OutboxInv, NEW t \in Temps \ excused, NEW r \in Reals, origin[r] = t,
         NEW c \in Slots, Creates(mut[c], t)
  PROVE  mut[c].at \notin InFlight \ {"served"}
  BY Shape DEF SlotOK, CreateOK, Creates

\* The only change of an item is the one that is under way.
LEMMA OnlyChange ==
  ASSUME NEW t, ItemOK(t), NEW m \in Slots, Changes(mut[m], t, origin)
  PROVE  \A n \in Slots \ {m} : ~Changes(mut[n], t, origin)
  BY DEF ItemOK, OneChange

\* The answer of a create: its row goes by its own id from then on; of another
\* change: the row is as the user asked.
LEMMA AnswerWish ==
  ASSUME OutboxInv, WishInv, NEW m \in Slots, Answer(m)
  PROVE  WishInv'
<1> DEFINE x == mut[m]
           e == End(x)
<1>1. /\ x.at = "served" /\ Sound(x, Known) /\ CreateOK(x, origin, excused)
      /\ mut \in [Slots -> Mutation]
      /\ screen' = IF x.op = "add" /\ x.item \in screen THEN (screen \ {x.item}) \cup {x.made} ELSE screen
      /\ UNCHANGED <<server, row, origin, wish, excused>>
  BY Shape DEF Answer, device, backend, ghosts, SlotOK
<1>2. mut' = [n \in Slots |-> IF n = m THEN e
                              ELSE IF x.op = "add" THEN Remapped(mut[n], x.item, x.made) ELSE mut[n]]
  BY DEF Answer
<1>3. /\ e.at = "done"
      /\ x.op = "add" => e.op = "add" /\ e.item = x.item
      /\ x.op # "add" => e.op # "add"
  BY <1>1, EndForm, OutboxAssumption DEF Sound
<1> HIDE DEF e
<1>4. mut'[m] = e /\ Resent(x, e)
  BY <1>2, <1>3 DEF Resent
<1>5. Kept
  BY <1>1 DEF Kept, Born
<1>6. CASE x.op = "add"
  <2>1. x.item \in Temps /\ x.made \in Reals /\ origin[x.made] = x.item /\ x.made \notin Temps
    BY <1>1, <1>6, OutboxAssumption DEF Sound, CreateOK
  <2>2. ASSUME NEW n \in Slots \ {m}
        PROVE  Resent(mut[n], mut'[n]) /\ \A t \in Temps : Calm(t, mut[n], mut'[n])
    <3> DEFINE z == mut[n]
               y == [z EXCEPT !.item = x.made]
    <3>1. CASE z.cached /\ z.op \notin {"add", "restore"} /\ z.item = x.item
      <4>1. mut'[n] = y
        BY <1>2, <1>6, <3>1 DEF Remapped
      <4>2. /\ y.op = z.op /\ y.item = x.made /\ y.at = z.at /\ y.sent = z.sent /\ z.op # "add"
        BY <1>1, <3>1 DEF Mutation
      <4> HIDE DEF y, z
      <4>3. ItemOf(y.item, origin') = ItemOf(z.item, origin)
        BY <1>1, <2>1, <3>1, <4>2, OutboxAssumption DEF ItemOf
      <4>4. Resent(z, y)
        BY <4>2, <4>3 DEF Resent
      <4>5. \A t \in Temps : Calm(t, z, y)
        BY <2>1, <4>2, <4>3 DEF Calm, Changes, Creates
      <4> QED BY <4>1, <4>4, <4>5 DEF z
    <3>2. CASE ~(z.cached /\ z.op \notin {"add", "restore"} /\ z.item = x.item)
      <4>1. mut'[n] = z
        BY <1>2, <3>2 DEF Remapped
      <4> QED BY <1>5, <4>1, CalmSame
    <3> QED BY <3>1, <3>2
  <2>3. \A t \in Temps : Calm(t, x, e)
    BY <1>1, <1>3, <1>6, <2>1 DEF Calm, Changes, Creates, InFlight, Pending, Stage
  <2>4. \A t \in Temps : t \in screen' => t \in screen \/ Used(t)
    BY <1>1, <2>1
  <2>5. \A n \in Slots : Resent(mut[n], mut'[n])
    BY <1>4, <2>2
  <2>6. \A n \in Slots : \A t \in Temps \ excused' : ItemOK(t) => Calm(t, mut[n], mut'[n])
    BY <1>4, <2>2, <2>3
  <2> QED BY <1>1, <2>4, <2>5, <2>6, AllCalm
<1>7. CASE x.op # "add"
  <2>4. PICK t \in Temps : t = Item(x.item)
    BY <1>1, ItemIsTemp DEF Sound, Pending, Stage
  <2>1. \A n \in Slots \ {m} : mut'[n] = mut[n]
    BY <1>2, <1>7
  <2>2. \A n \in Slots \ {m} : Resent(mut[n], mut'[n]) /\ \A u : Calm(u, mut[n], mut'[n])
    BY <1>5, <2>1, CalmSame
  <2>3. \A u \in Temps \ {t} : Calm(u, x, e)
    BY <1>1, <2>4, EndCalm DEF e, Pending, Stage
  <2>5. Changes(x, t, origin)
    BY <1>1, <1>7, <2>4 DEF Changes, InFlight, Item, ItemOf
  <2>6. ASSUME t \in Temps \ excused', ItemOK(t) PROVE ItemOK(t)'
    <3>1. \A n \in Slots \ {m} : ~Changes(mut[n], t, origin)
      BY <2>5, <2>6, OnlyChange
    <3>2. ~Changes(e, t, origin') /\ ~Creates(x, t) /\ ~Creates(e, t)
      BY <1>3, <1>7 DEF Changes, Creates, InFlight
    <3>3. \A n \in Slots : ~Changes(mut'[n], t, origin')
      BY <1>4, <2>2, <3>1, <3>2 DEF Calm
    <3>4. ASSUME NEW r \in Reals, origin[r] = t PROVE Agrees(t, row[r], server[r])'
      <4>1. Toward(x, row[r], server[r], wish[t])
        BY <2>5, <2>6, <3>4 DEF ItemOK, Agrees
      <4>2. row[r] = wish[t].row /\ (server[r] = "live" <=> wish[t].want)
        BY <1>1, <4>1 DEF Toward
      <4>3. row' = row /\ server' = server /\ wish' = wish
        BY <1>1
      <4> QED BY <3>3, <4>2, <4>3 DEF Agrees
    <3>5. ASSUME NEW c \in Slots, Creates(mut[c], t) PROVE mut[c].at \notin InFlight \ {"served"}
      BY <1>1, <2>5, <2>6, <3>5 DEF ItemOK, CreateAsAsked
    <3>6. e.at \notin Pending
      BY <1>3 DEF Pending
    <3>7. origin' = origin /\ wish' = wish /\ screen' = screen
      BY <1>1, <1>7
    <3> HIDE DEF x
    <3> QED BY <1>4, <2>2, <2>4, <2>6, <3>1, <3>2, <3>4, <3>5, <3>6, <3>7, OneChangeOK DEF x
  <2>7. ASSUME NEW u \in Temps \ (excused' \cup {t}) PROVE Still(u)
    BY <1>1, <1>4, <1>7, <2>2, <2>3 DEF Still, SameRows
  <2>8. \A n \in Slots : Resent(mut[n], mut'[n])
    BY <1>4, <2>2
  <2>9. \A r \in Reals \ Born' : origin'[r] = None
    BY <1>1 DEF WishInv, Born
  <2> QED BY <1>5, <2>6, <2>7, <2>8, <2>9, TouchesOne
<1> QED BY <1>6, <1>7

\* The server makes the row of a create: it is as the payload, which agrees.
LEMMA RowMadeWish ==
  ASSUME OutboxInv, WishInv, NEW m \in Slots, mut[m].op = "add", mut[m].at \in {"sent", "orphan"},
         NEW r \in Reals, server[r] = "unborn", NEW y, mut' = [mut EXCEPT ![m] = y],
         server' = [server EXCEPT ![r] = "live"], row' = [row EXCEPT ![r] = mut[m].sent.body],
         origin' = [origin EXCEPT ![r] = mut[m].sent.item],
         y.op = "add", y.item = mut[m].item,
         \/ y.at = "served" /\ y.cached = mut[m].cached
         \/ y.at = "done" /\ mut[m].at = "orphan",
         UNCHANGED <<screen, wish, excused>>
  PROVE  WishInv'
<1> DEFINE x == mut[m]
<1>1. /\ Sound(x, Known) /\ CreateOK(x, origin, excused) /\ OneCreate /\ OthersOK
      /\ mut \in [Slots -> Mutation]
  BY Shape DEF SlotOK
<1>2. PICK t \in Temps : t = x.item /\ t = x.sent.item
  BY <1>1 DEF Sound
<1>3. x.at = "orphan" => t \in excused
  BY <1>1, <1>2 DEF CreateOK
<1>4. mut'[m] = y /\ \A n \in Slots \ {m} : mut'[n] = mut[n]
  BY <1>1
<1>5. /\ server'[r] = "live" /\ row'[r] = x.sent.body /\ origin'[r] = t
      /\ \A q \in Reals \ {r} : server'[q] = server[q] /\ row'[q] = row[q] /\ origin'[q] = origin[q]
  BY <1>1, <1>2 DEF OthersOK
<1>6. Kept /\ Born' = Born \cup {r} /\ r \notin Born
  BY <1>5 DEF Kept, Born
<1>7. origin[r] = None /\ \A q \in Reals \ Born' : origin'[q] = None
  BY <1>5, <1>6 DEF WishInv
<1>8. \A n \in Slots \ {m} : Resent(mut[n], mut'[n]) /\ \A u : Calm(u, mut[n], mut'[n])
  BY <1>4, <1>6, CalmSame
<1> HIDE DEF x
<1>9. Resent(x, y)
  BY DEF Resent
<1>10. ASSUME NEW u \in Temps \ (excused' \cup {t}) PROVE Still(u)
  <2>1. Calm(u, x, y)
    BY <1>2 DEF Calm, Changes, Creates, x
  <2>2. SameRows(u)
    BY <1>5, <1>7, OutboxAssumption DEF SameRows
  <2> QED BY <1>4, <1>8, <2>1, <2>2 DEF Still, x
<1>11. ASSUME t \in Temps \ excused', ItemOK(t) PROVE ItemOK(t)'
  <2>1. x.at = "sent" /\ y.at = "served" /\ y.cached = x.cached
    BY <1>3, <1>11 DEF x
  <2>2. Creates(x, t) /\ Creates(y, t)
    BY <1>2 DEF Creates, x
  <2>3. /\ x.cached /\ x.sent.body = x.body /\ Agrees(t, x.body, "live")
        /\ \A q \in Reals : origin[q] # t
    BY <1>1, <1>2, <1>11, <2>1, <2>2 DEF ItemOK, CreateAsAsked, InFlight, CreateOK, Creates, x
  <2>4. Calm(t, x, y)
    BY <2>1, <2>2 DEF Calm, Changes, Creates, InFlight, Pending, Stage
  <2>5. \A n \in Slots : Calm(t, mut[n], mut'[n])
    BY <1>4, <1>8, <2>4 DEF x
  <2>6. PICK b : b = x.body
    OBVIOUS
  <2>7. Agrees(t, b, "live")'
    BY <2>3, <2>5, <2>6, StillAgrees
  <2>8. \A q \in Reals : origin'[q] = t => q = r
    BY <1>5, <2>3
  <2>9. OneChange(t)'
    <3>1. \A n \in Slots : Changes(mut'[n], t, origin') => Changes(mut[n], t, origin)
      BY <2>5 DEF Calm
    <3>2. OneChange(t)
      BY <1>11 DEF ItemOK
    <3> QED BY <2>8, <3>1, <3>2 DEF OneChange
  <2>10. ASSUME NEW q \in Reals, origin'[q] = t PROVE Agrees(t, row[q], server[q])'
    <3>1. row'[q] = b /\ server'[q] = "live"
      BY <1>5, <2>3, <2>6, <2>8, <2>10
    <3> QED BY <2>7, <3>1 DEF Agrees
  <2>11. ASSUME NEW c \in Slots, Creates(mut'[c], t) PROVE CreateAsAsked(c, t)'
    <3>1. c = m
      BY <1>1, <2>2, <2>5, <2>11 DEF OneCreate, Creates, Calm, x
    <3>2. mut'[c].at = "served" /\ mut'[c].cached
      BY <1>4, <2>1, <2>3, <3>1
    <3> QED BY <3>2 DEF CreateAsAsked
  <2>12. NewOK(t)'
    BY <1>4, <2>2 DEF NewOK, Used, Creates
  <2> QED BY <2>9, <2>10, <2>11, <2>12 DEF ItemOK
<1>12. \A n \in Slots : Resent(mut[n], mut'[n])
  BY <1>4, <1>8, <1>9 DEF x
<1> QED BY <1>6, <1>7, <1>10, <1>11, <1>12, TouchesOne

\* A change seen twice is seen once.
LEMMA OutcomeTwice ==
  ASSUME NEW b, NEW op
  PROVE  Outcome(Outcome(b, op), op) = Outcome(b, op)
  BY DEF Outcome

\* The server carries out another change: it is the only one of its item, and
\* makes the row what the user asked.
LEMMA RowChangedWish ==
  ASSUME OutboxInv, WishInv, NEW m \in Slots, mut[m].op # "add", mut[m].at \in {"sent", "orphan"},
         NEW i \in Reals, i = mut[m].sent.item,
         server[i] \in IF mut[m].op = "restore" THEN {"live", "deleted"} ELSE {"live"},
         server' = [server EXCEPT ![i] = IF mut[m].op = "delete" THEN "deleted" ELSE "live"],
         row' = [row EXCEPT ![i] = Outcome(@, mut[m].op)],
         NEW y, mut' = [mut EXCEPT ![m] = y], y.op # "add",
         \/ y.at = "served" /\ mut[m].at = "sent" /\ y.op = mut[m].op /\ y.item = mut[m].item
         \/ y.at = "done" /\ mut[m].at = "orphan",
         UNCHANGED <<origin, screen, wish, excused>>
  PROVE  WishInv'
<1> DEFINE x == mut[m]
<1>1. /\ Sound(x, Known) /\ RowsOK /\ OthersOK /\ mut \in [Slots -> Mutation]
      /\ SentOK(x, origin, excused)
  BY Shape DEF SlotOK, WishInv
<1>2. PICK t \in Temps : t = origin[i]
  BY <1>1 DEF RowsOK, Born
<1>3. /\ x.at = "orphan" => t \in excused
      /\ x.at = "sent" => ItemOf(x.item, origin) = t
  BY <1>1, <1>2 DEF SentOK, ItemOf
<1>4. mut'[m] = y /\ \A n \in Slots \ {m} : mut'[n] = mut[n]
  BY <1>1
<1>5. /\ server'[i] = (IF x.op = "delete" THEN "deleted" ELSE "live") /\ row'[i] = Outcome(row[i], x.op)
      /\ \A q \in Reals \ {i} : server'[q] = server[q] /\ row'[q] = row[q]
  BY <1>1 DEF OthersOK
<1>6. Kept /\ Born' = Born
  BY <1>1, <1>5 DEF Kept, Born, OthersOK
<1>7. \A q \in Reals \ Born' : origin'[q] = None
  BY <1>6 DEF WishInv
<1>8. \A n \in Slots \ {m} : Resent(mut[n], mut'[n]) /\ \A u : Calm(u, mut[n], mut'[n])
  BY <1>4, <1>6, CalmSame
<1> HIDE DEF x
<1>9. Resent(x, y)
  BY DEF Resent
<1>10. ASSUME NEW u \in Temps \ (excused' \cup {t}) PROVE Still(u)
  <2>1. Calm(u, x, y)
    BY <1>3, <1>10 DEF Calm, Changes, Creates, InFlight, Pending, Stage, x
  <2>2. SameRows(u)
    BY <1>2, <1>5 DEF SameRows
  <2> QED BY <1>4, <1>8, <2>1, <2>2 DEF Still, x
<1>11. ASSUME t \in Temps \ excused', ItemOK(t) PROVE ItemOK(t)'
  <2>1. x.at = "sent" /\ y.at = "served" /\ y.op = x.op /\ y.item = x.item
    BY <1>3, <1>11 DEF x
  <2>2. Changes(x, t, origin) /\ Changes(y, t, origin')
    BY <1>3, <2>1 DEF Changes, InFlight, x
  <2>3. \A n \in Slots \ {m} : ~Changes(mut[n], t, origin)
    BY <1>11, <2>2, OnlyChange DEF x
  <2>4. Toward(x, row[i], server[i], wish[t])
    BY <1>2, <1>11, <2>2 DEF ItemOK, Agrees, x
  <2>5. Toward(y, row'[i], server'[i], wish'[t])
    <3>1. Outcome(row'[i], y.op) = wish'[t].row /\ row'[i] = wish'[t].row
      <4>1. row'[i] = wish'[t].row
        BY <1>5, <2>4 DEF Toward
      <4>2. row'[i] = Outcome(row[i], y.op)
        BY <1>5, <2>1
      <4>3. Outcome(row'[i], y.op) = row'[i]
        BY <4>2, OutcomeTwice
      <4> QED BY <4>1, <4>3
    <3>2. server[i] \in IF x.op = "restore" THEN {"live", "deleted"} ELSE {"live"}
      BY DEF x
    <3>3. /\ IF y.op \in EditOps THEN server'[i] = "live" <=> wish'[t].want
                                 ELSE wish'[t].want <=> y.op = "restore"
          /\ server'[i] = "live" <=> wish'[t].want
      <4>1. wish'[t] = wish[t]
        OBVIOUS
      <4>2. x.op \in EditOps => x.op \notin {"delete", "restore"}
        BY OutboxAssumption
      <4>3. x.op \in EditOps \cup {"delete", "restore"}
        BY <1>1, <2>1, Fields DEF Sound, Ops, Pending, Stage, x
      <4> QED BY <1>5, <2>1, <2>4, <3>2, <4>1, <4>2, <4>3 DEF Toward
    <3> QED BY <2>1, <3>1, <3>3 DEF Toward
  <2>6. \A n \in Slots \ {m} : ~Changes(mut'[n], t, origin')
    BY <1>8, <2>3 DEF Calm
  <2>7. ASSUME NEW r \in Reals, origin[r] = t PROVE Agrees(t, row[r], server[r])'
    <3>1. r = i
      BY <1>2, <1>11, <2>7 DEF ItemOK, OneChange
    <3> QED BY <1>4, <2>2, <2>5, <2>6, <3>1 DEF Agrees
  <2>8. ASSUME NEW c \in Slots, Creates(mut[c], t) PROVE mut[c].at \notin InFlight \ {"served"}
    BY <1>2, <1>11, <2>8, NoCreateOfRow
  <2>9. ~Creates(x, t) /\ ~Creates(y, t)
    BY DEF Creates, x
  <2>10. y.at \in Pending /\ y.item = t => t \in screen \/ Used(t)
    <3>1. x.item # t \/ Used(t)
      BY <1>1, <1>2, OutboxAssumption DEF RowsOK
    <3> QED BY <2>1, <3>1
  <2> QED BY <1>4, <1>8, <1>11, <2>3, <2>7, <2>8, <2>9, <2>10, OneChangeOK DEF x
<1>12. \A n \in Slots : Resent(mut[n], mut'[n])
  BY <1>4, <1>8, <1>9 DEF x
<1> QED BY <1>6, <1>7, <1>10, <1>11, <1>12, TouchesOne

\* Either way, and whichever mark the request leaves.
LEMMA HandleWish ==
  ASSUME OutboxInv, WishInv, NEW m \in Slots, mut[m].at \in {"sent", "orphan"},
         NEW done \in Mutation, NEW refused, Handle(m, done, refused),
         UNCHANGED <<screen, wish, excused>>,
         mut[m].op = "add" <=> done.op = "add",
         mut[m].op = "add" => done.item = mut[m].item,
         \/ done.at = "served" /\ mut[m].at = "sent" /\ done.op = mut[m].op
              /\ done.item = mut[m].item /\ done.cached = mut[m].cached
         \/ done.at = "done" /\ mut[m].at = "orphan",
         Resent(mut[m], refused),
         \A t \in Temps \ excused : Kept => Calm(t, mut[m], refused)
  PROVE  WishInv'
<1> DEFINE x == mut[m]
           i == x.sent.item
           was == IF x.op = "restore" THEN {"live", "deleted"} ELSE {"live"}
<1>1. CASE /\ x.op = "add" /\ Unborn # {}
           /\ server' = [server EXCEPT ![AnyOf(Unborn)] = "live"]
           /\ row' = [row EXCEPT ![AnyOf(Unborn)] = x.sent.body]
           /\ origin' = [origin EXCEPT ![AnyOf(Unborn)] = i]
           /\ mut' = [mut EXCEPT ![m] = [done EXCEPT !.made = IF done.at = "served" THEN AnyOf(Unborn) ELSE None]]
  <2> DEFINE r == AnyOf(Unborn)
             made == IF done.at = "served" THEN r ELSE None
             y == [done EXCEPT !.made = made]
  <2>1. r \in Reals /\ server[r] = "unborn"
    BY <1>1 DEF AnyOf, Unborn
  <2>2. mut' = [mut EXCEPT ![m] = y]
    BY <1>1
  <2> HIDE DEF made
  <2>3. y.op = done.op /\ y.item = done.item /\ y.at = done.at /\ y.cached = done.cached
    BY DEF Mutation
  <2>4. /\ server' = [server EXCEPT ![r] = "live"] /\ row' = [row EXCEPT ![r] = x.sent.body]
        /\ origin' = [origin EXCEPT ![r] = x.sent.item]
    BY <1>1
  <2> HIDE DEF r, y
  <2>5. x.op = "add" /\ y.op = "add" /\ y.item = x.item
    BY <1>1, <2>3
  <2>6. (y.at = "served" /\ y.cached = x.cached) \/ (y.at = "done" /\ x.at = "orphan")
    BY <2>3
  <2> QED BY <2>1, <2>2, <2>4, <2>5, <2>6, RowMadeWish
<1>2. CASE /\ x.op # "add" /\ i \in Reals /\ server[i] \in was
           /\ server' = [server EXCEPT ![i] = IF x.op = "delete" THEN "deleted" ELSE "live"]
           /\ row' = [row EXCEPT ![i] = Outcome(@, x.op)]
           /\ mut' = [mut EXCEPT ![m] = done] /\ UNCHANGED origin
  BY <1>2, RowChangedWish
<1>3. CASE mut' = [mut EXCEPT ![m] = refused] /\ UNCHANGED backend
  <2>1. Kept /\ UNCHANGED <<server, row, origin>>
    BY <1>3 DEF Kept, Born, backend
  <2> QED BY <1>3, <2>1, OneCalm
<1> QED BY <1>1, <1>2, <1>3 DEF Handle

\* The server answers an attempt,
LEMMA ServeWish ==
  ASSUME OutboxInv, WishInv, NEW m \in Slots, Serve(m)
  PROVE  WishInv'
<1> DEFINE x == mut[m]
           h == Handled(x, "served")
           f == Handled(x, "refused")
<1>1. /\ x.at = "sent" /\ Handle(m, h, f) /\ x \in Mutation
      /\ UNCHANGED <<screen, wish, excused>>
  BY Shape DEF Serve, device, ghosts, SlotOK, Sound
<1>2. /\ h \in Mutation /\ h.at = "served" /\ h.op = x.op /\ h.item = x.item /\ h.cached = x.cached
      /\ f \in Mutation /\ f.at = "refused" /\ f.op = x.op /\ f.item = x.item /\ f.cached = x.cached
      /\ f.body = x.body
  BY <1>1, HandledForm DEF Stage
<1> HIDE DEF h, f
<1>3. Resent(x, f)
  BY <1>2 DEF Resent
<1>4. ASSUME Kept PROVE \A t : Calm(t, x, f)
  BY <1>1, <1>2, <1>4, CalmMoves DEF InFlight
<1> QED BY <1>1, <1>2, <1>3, <1>4, HandleWish

\* ... or one nobody waits for any more.
LEMMA ServeOrphanWish ==
  ASSUME OutboxInv, WishInv, NEW m \in Slots, ServeOrphan(m)
  PROVE  WishInv'
<1> DEFINE x == mut[m]
           e == End(x)
<1>1. /\ x.at = "orphan" /\ Handle(m, e, e) /\ Sound(x, Known) /\ CreateOK(x, origin, excused)
      /\ UNCHANGED <<screen, wish, excused>>
  BY Shape DEF ServeOrphan, device, ghosts, SlotOK
<1>2. /\ e \in Mutation /\ e.at = "done" /\ (x.op = "add" <=> e.op = "add")
      /\ x.op = "add" => e.item = x.item
  BY <1>1, EndForm, OutboxAssumption DEF Sound
<1> HIDE DEF e
<1>3. Resent(x, e)
  BY <1>2 DEF Resent
<1>4. ASSUME NEW t \in Temps \ excused PROVE Calm(t, x, e)
  BY <1>1, <1>2 DEF Calm, Changes, Creates, CreateOK, InFlight, Pending
<1> QED BY <1>1, <1>2, <1>3, <1>4, HandleWish

-----------------------------------------------------------------------------
(* The taps.                                                               *)

\* Where nothing overlaps, nothing changes the item.
LEMMA NoOverlap ==
  ASSUME NEW t, NEW m \in Slots, ~Overlaps(t, m), mut[m].op = "add" \/ mut[m].at \in {"free", "clicked"}
  PROVE  \A n \in Slots : ~Changes(mut[n], t, origin)
<1>1. ~Changes(mut[m], t, origin)
  BY DEF Changes, InFlight
<1>2. ASSUME NEW n \in Slots \ {m}, Changes(mut[n], t, origin) PROVE FALSE
  <2>1. n \in About(t) /\ mut[n].op # "add" /\ mut[n].at \in Pending
    BY <1>2 DEF Changes, About, Item, ItemOf, InFlight, Pending, Stage
  <2> QED BY <2>1 DEF Overlaps
<1> QED BY <1>1, <1>2

\* A change begins, of an item that has none: what agreed with the wish, the
\* change makes agree with the wish it was tapped for.
LEMMA ChangeBegins ==
  ASSUME OutboxInv, NEW t \in Temps, ItemOK(t), NEW m \in Slots,
         UNCHANGED <<server, row, origin>>,
         \A n \in Slots : ~Changes(mut[n], t, origin),
         \A n \in Slots \ {m} : Calm(t, mut[n], mut'[n]),
         ~Creates(mut[m], t), mut'[m].at = "mutate", mut'[m].op # "add",
         ItemOf(mut'[m].item, origin) = t,
         t \in screen' => t \in screen \/ Used(t),
         mut'[m].item = t => t \in screen \/ Used(t),
         Outcome(wish[t].row, mut'[m].op) = wish'[t].row,
         IF mut'[m].op \in EditOps THEN wish'[t].want <=> wish[t].want
                                   ELSE wish'[t].want <=> mut'[m].op = "restore",
         mut'[m].op = "restore" => \E r \in Reals : origin[r] = t
  PROVE  ItemOK(t)'
<1> DEFINE y == mut'[m]
<1>1. Changes(y, t, origin') /\ ~Creates(y, t)
  BY DEF Changes, Creates, InFlight
<1>2. \A n \in Slots \ {m} : ~Changes(mut'[n], t, origin')
  BY DEF Calm
<1>3. ASSUME NEW b, NEW s, Agrees(t, b, s) PROVE Agrees(t, b, s)'
  <2>1. b = wish[t].row /\ (s = "live" <=> wish[t].want)
    BY <1>3 DEF Agrees
  <2>2. Toward(y, b, s, wish'[t])
    BY <2>1 DEF Toward
  <2> QED BY <1>1, <1>2, <2>2 DEF Agrees
<1>4. ASSUME NEW r \in Reals, origin[r] = t PROVE Agrees(t, row[r], server[r])'
  <2>1. PICK b, s : b = row[r] /\ s = server[r]
    OBVIOUS
  <2>2. Agrees(t, b, s)
    BY <1>4, <2>1 DEF ItemOK
  <2>3. Agrees(t, b, s)'
    BY <1>3, <2>2
  <2> QED BY <2>1, <2>3 DEF Agrees
<1>5. ASSUME NEW c \in Slots \ {m}, Creates(mut[c], t), mut[c].at \in InFlight \ {"served"},
             mut'[c].body = mut[c].body
      PROVE  Agrees(t, mut[c].body, "live")'
  <2>1. PICK b : b = mut[c].body
    OBVIOUS
  <2>2. Agrees(t, b, "live")
    BY <1>5, <2>1 DEF ItemOK, CreateAsAsked
  <2>3. Agrees(t, b, "live")'
    BY <1>3, <2>2
  <2> QED BY <1>5, <2>1, <2>3 DEF Agrees
<1>6. wish'[t].want => wish[t].want \/ \E r \in Reals : origin[r] = t
  OBVIOUS
<1>7. y.at \in Pending /\ y.item = t => t \in screen \/ Used(t)
  OBVIOUS
<1> QED BY <1>1, <1>4, <1>5, <1>6, <1>7, OneChangeOK

\* A change folded into a create that is queued and has no change besides it: the
\* row it will make has seen the change.
LEMMA FoldedOK ==
  ASSUME OutboxInv, NEW t \in Temps \ excused, ItemOK(t), NEW c \in Slots, NEW op \in EditOps,
         Creates(mut[c], t), mut[c].at \in InFlight \ {"sent", "served"},
         \A n \in Slots : ~Changes(mut[n], t, origin),
         NEW y, y.op = mut[c].op, y.item = mut[c].item, y.at = mut[c].at, y.cached = mut[c].cached,
         y.body = Outcome(mut[c].body, op),
         mut'[c] = y, \A n \in Slots \ {c} : mut'[n] = mut[n], UNCHANGED <<server, row, origin, screen>>,
         wish'[t].row = Outcome(wish[t].row, op), wish'[t].want <=> wish[t].want
  PROVE  ItemOK(t)'
<1> DEFINE x == mut[c]
<1>1. OneCreate /\ CreateOK(x, origin, excused)
  BY Shape DEF SlotOK
<1>2. /\ x.cached /\ Agrees(t, x.body, "live")
      /\ \A r \in Reals : origin[r] # t
  BY <1>1 DEF ItemOK, CreateAsAsked, CreateOK, Creates
<1>3. x.body = wish[t].row /\ wish[t].want
  BY <1>2 DEF Agrees
<1>4. Creates(y, t) /\ ~Changes(y, t, origin')
  BY <1>1, OutboxAssumption DEF Creates, Changes
<1>5. \A n \in Slots : ~Changes(mut'[n], t, origin')
  BY <1>4 DEF Changes
<1>6. y.body = wish'[t].row /\ wish'[t].want
  BY <1>3
<1>7. Agrees(t, mut[c].body, "live")'
  BY <1>5, <1>6 DEF Agrees
<1>8. OneChange(t)' /\ \A r \in Reals : origin'[r] # t
  BY <1>2, <1>5 DEF OneChange
<1>9. ASSUME NEW d \in Slots, Creates(mut'[d], t) PROVE CreateAsAsked(d, t)'
  <2>1. d = c
    BY <1>1, <1>9 DEF OneCreate, Creates
  <2>2. y.cached /\ y.at \notin {"sent", "done"}
    BY <1>2 DEF InFlight
  <2> QED BY <1>5, <1>7, <2>1, <2>2 DEF CreateAsAsked
<1>10. NewOK(t)'
  BY <1>4 DEF NewOK, Used, Creates
<1> QED BY <1>8, <1>9, <1>10 DEF ItemOK

\* A tap on a row of the screen.
LEMMA TapItemWish ==
  ASSUME OutboxInv, WishInv, NEW m \in Slots, NEW i \in Ids, NEW op \in EditOps, TapItem(m, i, op)
  PROVE  WishInv'
<1>1. /\ OthersOK /\ mut \in [Slots -> Mutation] /\ i \in screen
      /\ wish' = [wish EXCEPT ![Item(i)].row = Outcome(@, op)]
      /\ UNCHANGED <<screen, server, row, origin>>
  BY Shape DEF TapItem, device, backend
<1>2. PICK t \in Temps : t = Item(i) /\ t = ItemOf(i, origin)
  BY <1>1, OnScreen DEF Item, ItemOf
<1>3. /\ wish'[t].row = Outcome(wish[t].row, op) /\ (wish'[t].want <=> wish[t].want)
      /\ \A u \in Temps \ {t} : wish'[u] = wish[u]
  <2> DEFINE b == Outcome(wish[t].row, op)
  <2>1. wish' = [wish EXCEPT ![t].row = b] /\ wish \in [Temps -> [want: BOOLEAN, row: Row]]
    BY <1>1, <1>2 DEF OthersOK
  <2> HIDE DEF b
  <2>2. wish'[t].row = b /\ (wish'[t].want <=> wish[t].want) /\ \A u \in Temps \ {t} : wish'[u] = wish[u]
    BY <2>1
  <2> QED BY <2>2 DEF b
<1>4. /\ \E why : excused' = IF why THEN excused \cup {t} ELSE excused
  BY <1>2 DEF TapItem, Excuse
<1>5. Kept /\ \A r \in Reals \ Born' : origin'[r] = None
  BY <1>1, <1>4 DEF Kept, Born, WishInv
<1>6. CASE Queued(i) # {}
  <2>1. PICK c \in Queued(i) : /\ Fold(c, op)
                               /\ Excuse(t, mut[c].at \in {"sent", "served", "done"} \/ Overlaps(t, c))
    BY <1>2, <1>6 DEF TapItem
  <2> DEFINE x == mut[c]
             b == Outcome(x.body, op)
             y == [x EXCEPT !.body = b]
  <2>2. c \in Slots /\ mut' = [mut EXCEPT ![c] = y] /\ x.op = "add" /\ x.item = i
    BY <1>1, <2>1 DEF Queued, Fold
  <2>3. /\ Sound(x, Known) /\ CreateOK(x, origin, excused) /\ x.at \in Stage
    BY <2>2, Shape, Fields DEF SlotOK, Sound
  <2> HIDE DEF b
  <2>4. /\ y.op = x.op /\ y.item = x.item /\ y.at = x.at /\ y.sent = x.sent /\ y.cached = x.cached
        /\ y.body = b
    BY <2>3 DEF Mutation, Sound
  <2> HIDE DEF x, y
  <2>5. i \in Temps /\ i = t
    BY <1>2, <2>2, <2>3, OutboxAssumption DEF Sound, Item
  <2>6. mut'[c] = y /\ \A n \in Slots \ {c} : mut'[n] = mut[n]
    BY <1>1, <2>2
  <2>7. \A n \in Slots \ {c} : Resent(mut[n], mut'[n]) /\ \A u : Calm(u, mut[n], mut'[n])
    BY <1>5, <2>6, CalmSame
  <2>8. Resent(x, y)
    BY <1>1, <2>4 DEF Resent
  <2>9. ASSUME NEW u \in Temps \ (excused' \cup {t}) PROVE Still(u)
    <3>1. Calm(u, x, y)
      BY <2>2, <2>4, <2>5 DEF Calm, Changes, Creates
    <3>2. SameRows(u)
      BY <1>1 DEF SameRows
    <3> QED BY <1>1, <1>3, <2>6, <2>7, <3>1, <3>2 DEF Still, x
  <2>10. ASSUME t \in Temps \ excused', ItemOK(t) PROVE ItemOK(t)'
    <3>1. x.at \notin {"sent", "served", "done"} /\ ~Overlaps(t, c) /\ t \notin excused
      BY <2>1, <2>10 DEF Excuse, x
    <3>2. x.at \in InFlight \ {"sent", "served"}
      BY <2>2, <2>3, <2>5, <3>1, OutboxAssumption DEF Sound, CreateOK, Stage, InFlight
    <3>3. \A n \in Slots : ~Changes(mut[n], t, origin)
      BY <2>2, <3>1, NoOverlap DEF x
    <3>4. Creates(x, t)
      BY <2>2, <2>5 DEF Creates
    <3> QED BY <1>1, <1>3, <2>2, <2>4, <2>6, <2>10, <3>1, <3>2, <3>3, <3>4, FoldedOK DEF x, b
  <2>11. \A n \in Slots : Resent(mut[n], mut'[n])
    BY <2>6, <2>7, <2>8 DEF x
  <2> QED BY <1>5, <2>9, <2>10, <2>11, TouchesOne
<1>7. CASE Queued(i) = {}
  <2> DEFINE x == mut[m]
             y == New(op, i, Blank)
  <2>1. /\ x.at = "free" /\ mut' = [mut EXCEPT ![m] = y] /\ Sound(x, Known)
        /\ Excuse(t, Overlaps(t, m))
    BY <1>2, <1>7, Shape DEF TapItem, SlotOK
  <2>2. /\ y.op = op /\ y.item = i /\ y.at = "mutate" /\ op \notin {"add", "delete", "restore"}
    BY NewForm, OutboxAssumption DEF Blank, Row, Ops
  <2> HIDE DEF y
  <2>3. mut'[m] = y /\ \A n \in Slots \ {m} : mut'[n] = mut[n]
    BY <1>1, <2>1
  <2>4. \A n \in Slots \ {m} : Resent(mut[n], mut'[n]) /\ \A u : Calm(u, mut[n], mut'[n])
    BY <1>5, <2>3, CalmSame
  <2>5. x.op # "add" /\ Resent(x, y)
    BY <2>1, <2>2, OutboxAssumption DEF Resent, Sound
  <2>6. ASSUME NEW u \in Temps \ (excused' \cup {t}) PROVE Still(u)
    <3>1. ItemOf(i, origin') # u
      BY <1>1, <1>2, <2>6
    <3>2. Calm(u, x, y)
      BY <1>1, <2>1, <2>2, <2>5, <3>1 DEF Calm, Changes, Creates, InFlight
    <3>3. SameRows(u)
      BY <1>1 DEF SameRows
    <3> QED BY <1>1, <1>3, <2>3, <2>4, <3>2, <3>3 DEF Still
  <2>7. ASSUME t \in Temps \ excused', ItemOK(t) PROVE ItemOK(t)'
    <3>1. \A n \in Slots : ~Changes(mut[n], t, origin)
      BY <2>1, <2>7, NoOverlap DEF Excuse
    <3>2. ~Creates(x, t)
      BY <2>5 DEF Creates
    <3>3. Outcome(wish[t].row, mut'[m].op) = wish'[t].row
      BY <1>3, <2>2, <2>3
    <3>4. /\ mut'[m].at = "mutate" /\ mut'[m].op \in EditOps /\ mut'[m].op \notin {"add", "restore"}
          /\ ItemOf(mut'[m].item, origin) = t /\ (mut'[m].item = t => t \in screen)
      BY <1>1, <1>2, <2>2, <2>3
    <3> QED BY <1>1, <1>3, <2>4, <2>7, <3>1, <3>2, <3>3, <3>4, ChangeBegins
  <2>8. \A n \in Slots : Resent(mut[n], mut'[n])
    BY <2>3, <2>4, <2>5
  <2> QED BY <1>5, <2>6, <2>7, <2>8, TouchesOne
<1> QED BY <1>6, <1>7

\* The removal of an item, after its await: a DELETE, or the end of the create
\* that was paused.
LEMMA RemoveItemWish ==
  ASSUME OutboxInv, WishInv, NEW m \in Slots, RemoveItem(m)
  PROVE  WishInv'
<1> DEFINE x == mut[m]
           i == x.item
           creates == Queued(i)
           a == [x EXCEPT !.at = "mutate", !.cached = TRUE, !.undo = i]
           b == [Done EXCEPT !.undo = i]
<1>1. /\ OthersOK /\ mut \in [Slots -> Mutation] /\ Sound(x, Known) /\ x.at = "clicked"
      /\ screen' = screen \ {i} /\ wish' = [wish EXCEPT ![Item(i)].want = FALSE]
      /\ UNCHANGED <<server, row, origin>>
  BY Shape DEF RemoveItem, device, backend, SlotOK
<1>2. mut' = [n \in Slots |-> CASE n = m -> IF creates = {} THEN a ELSE b
                               [] n \in creates -> Drop(mut[n])
                               [] OTHER -> mut[n]]
  BY DEF RemoveItem
<1>3. PICK t \in Temps : t = Item(i) /\ t = ItemOf(i, origin)
  BY <1>1, ItemIsTemp DEF Sound, Pending, Stage, Item, ItemOf
<1>4. Excuse(t, Overlaps(t, m) \/ Answered(i) \/ \E c \in creates : mut[c].at # "paused")
  BY <1>3 DEF RemoveItem
<1>5. /\ wish'[t].row = wish[t].row /\ ~wish'[t].want
      /\ \A u \in Temps \ {t} : wish'[u] = wish[u]
  BY <1>1, <1>3 DEF OthersOK
<1>6. Kept /\ \A r \in Reals \ Born' : origin'[r] = None
  BY <1>1, <1>4 DEF Excuse, Kept, Born, WishInv
<1>7. x.op = "delete" /\ x.op # "add"
  BY <1>1 DEF Sound
<1>8. /\ a.op = x.op /\ a.item = i /\ a.at = "mutate"
      /\ b.at = "done" /\ b.op # "add"
  BY <1>1, Blanks, OutboxAssumption DEF Mutation, Sound
<1> HIDE DEF a, b
<1>9. ASSUME NEW u \in Temps \ (excused' \cup {t}), \A n \in Slots : Calm(u, mut[n], mut'[n])
      PROVE  Still(u)
  <2>1. SameRows(u)
    BY <1>1 DEF SameRows
  <2> QED BY <1>1, <1>5, <1>9, <2>1 DEF Still
<1>10. CASE creates = {}
  <2>1. mut'[m] = a /\ \A n \in Slots \ {m} : mut'[n] = mut[n]
    BY <1>2, <1>10
  <2> HIDE DEF creates
  <2>2. \A n \in Slots \ {m} : Resent(mut[n], mut'[n]) /\ \A u : Calm(u, mut[n], mut'[n])
    BY <1>6, <2>1, CalmSame
  <2>3. Resent(x, a)
    BY <1>8 DEF Resent
  <2>4. ASSUME NEW u \in Temps \ (excused' \cup {t}) PROVE Still(u)
    <3>1. Calm(u, x, a)
      BY <1>1, <1>3, <1>7, <1>8, <2>4 DEF Calm, Changes, Creates, InFlight, Pending, Stage
    <3> QED BY <1>9, <2>1, <2>2, <2>4, <3>1
  <2>5. ASSUME t \in Temps \ excused', ItemOK(t) PROVE ItemOK(t)'
    <3>1. \A n \in Slots : ~Changes(mut[n], t, origin)
      BY <1>1, <1>4, <2>5, NoOverlap DEF Excuse
    <3>2. ~Creates(x, t)
      BY <1>7 DEF Creates
    <3>3. Outcome(wish[t].row, mut'[m].op) = wish'[t].row
      BY <1>5, <1>7, <1>8, <2>1, OutboxAssumption DEF Outcome
    <3>4. /\ mut'[m].at = "mutate" /\ mut'[m].op = "delete"
          /\ ItemOf(mut'[m].item, origin) = t /\ "delete" \notin EditOps
      BY <1>3, <1>7, <1>8, <2>1, OutboxAssumption
    <3>5. i = t => t \in screen \/ Used(t)
      BY <1>1, <2>5 DEF ItemOK, NewOK, Pending, Stage
    <3>6. (t \in screen' => t \in screen) /\ mut'[m].item = i
      BY <1>1, <1>8, <2>1
    <3> QED BY <1>1, <1>5, <2>2, <2>5, <3>1, <3>2, <3>3, <3>4, <3>5, <3>6, ChangeBegins
  <2>6. \A n \in Slots : Resent(mut[n], mut'[n])
    BY <2>1, <2>2, <2>3
  <2> QED BY <1>6, <2>4, <2>5, <2>6, TouchesOne
<1>11. CASE creates # {}
  <2>1. /\ mut'[m] = b /\ m \notin creates
        /\ \A n \in creates : mut'[n] = Drop(mut[n])
        /\ \A n \in Slots \ (creates \cup {m}) : mut'[n] = mut[n]
        /\ creates \subseteq Slots /\ \A n \in creates : mut[n].op = "add" /\ mut[n].item = i
    <3>1. creates \subseteq Slots /\ \A n \in creates : mut[n].op = "add" /\ mut[n].item = i
      BY DEF Queued
    <3>2. m \notin creates
      BY <1>7, <3>1
    <3> HIDE DEF creates
    <3> QED BY <1>2, <1>11, <3>1, <3>2
  <2>2. i = t
    <3>1. \A n \in Slots : Sound(mut[n], Known)
      BY Shape DEF SlotOK
    <3> QED BY <1>3, <1>11, <2>1, <3>1, OutboxAssumption DEF Sound, Item
  <2> HIDE DEF creates
\* A create leaves the cache, and if it was paused it ends.
  <2>3. ASSUME NEW n \in creates
        PROVE  /\ mut'[n].op = "add" /\ mut'[n].item = t
               /\ mut'[n].at = IF mut[n].at = "paused" THEN "done" ELSE mut[n].at
               /\ mut'[n].at # "done" => mut'[n].sent = mut[n].sent
    <3> DEFINE z == mut[n]
               e == End(z)
               f == [e EXCEPT !.cached = FALSE]
               g == [z EXCEPT !.cached = FALSE]
    <3>1. z.op = "add" /\ z \in Mutation /\ z.item = t
      BY <1>1, <2>1, <2>2
    <3>2. mut'[n] = IF z.at = "paused" THEN f ELSE g
      BY <2>1 DEF Drop
    <3>3. g.op = z.op /\ g.item = z.item /\ g.at = z.at /\ g.sent = z.sent
      BY <3>1 DEF Mutation
    <3>4. e \in Mutation /\ e.op = "add" /\ e.item = z.item /\ e.at = "done"
      BY <3>1, EndForm
    <3> HIDE DEF e
    <3>5. f.op = "add" /\ f.item = z.item /\ f.at = "done"
      BY <3>4 DEF Mutation
    <3> HIDE DEF f, g
    <3> QED BY <3>1, <3>2, <3>3, <3>5
  <2>4. \A n \in Slots \ (creates \cup {m}) : Resent(mut[n], mut'[n]) /\ \A u : Calm(u, mut[n], mut'[n])
    BY <1>6, <2>1, CalmSame
  <2>5. Resent(x, b) /\ \A u : Calm(u, x, b)
    BY <1>1, <1>7, <1>8 DEF Resent, Calm, Changes, Creates, InFlight, Pending
  <2>6. ASSUME NEW n \in creates PROVE Resent(mut[n], mut'[n])
    BY <1>1, <2>1, <2>2, <2>3 DEF Resent
  <2>7. ASSUME NEW n \in creates, NEW u \in Temps \ {t} PROVE Calm(u, mut[n], mut'[n])
    BY <2>1, <2>2, <2>3 DEF Calm, Changes, Creates
  <2>8. ASSUME NEW u \in Temps \ (excused' \cup {t}) PROVE Still(u)
    <3>1. \A n \in Slots : Calm(u, mut[n], mut'[n])
      BY <2>1, <2>4, <2>5, <2>7, <2>8
    <3> QED BY <1>9, <2>8, <3>1
  <2>9. ASSUME t \in Temps \ excused', ItemOK(t) PROVE ItemOK(t)'
    <3>1. /\ \A n \in Slots : ~Changes(mut[n], t, origin)
          /\ \A c \in creates : mut[c].at = "paused"
          /\ t \notin excused
      BY <1>1, <1>4, <2>9, NoOverlap DEF Excuse
    <3>2. PICK c \in creates : mut[c].at = "paused"
      BY <1>11, <3>1
    <3>3. c \in Slots /\ mut[c].op = "add" /\ mut[c].item = t
      BY <2>1, <2>2, <3>2
    <3>4. OneCreate /\ CreateOK(mut[c], origin, excused)
      BY <3>3, Shape DEF SlotOK
    <3>5. \A r \in Reals : origin'[r] # t
      BY <1>1, <3>1, <3>2, <3>3, <3>4 DEF CreateOK, InFlight
    <3>6. \A n \in Slots : ~Changes(mut'[n], t, origin')
      BY <1>1, <1>8, <2>1, <2>3, <3>1 DEF Changes, InFlight
    <3>7. OneChange(t)'
      BY <3>5, <3>6 DEF OneChange
    <3>8. ASSUME NEW d \in Slots, Creates(mut'[d], t) PROVE CreateAsAsked(d, t)'
      <4>1. d = c
        BY <1>8, <2>1, <2>3, <3>3, <3>4, <3>8 DEF Creates, OneCreate
      <4>2. mut'[d].at = "done"
        BY <2>3, <3>2, <4>1
      <4> QED BY <1>5, <4>2 DEF CreateAsAsked, InFlight
    <3>9. Used(t)'
      BY <2>3, <3>3 DEF Used
    <3> QED BY <3>5, <3>7, <3>8, <3>9 DEF ItemOK, NewOK
  <2>10. \A n \in Slots : Resent(mut[n], mut'[n])
    BY <2>1, <2>4, <2>5, <2>6
  <2> QED BY <1>6, <2>8, <2>9, <2>10, TouchesOne
<1> QED BY <1>10, <1>11

\* A slot that only loses its Undo button.
LEMMA UndoGoneCalm ==
  ASSUME OutboxInv, Kept, UNCHANGED origin, NEW n \in Slots, mut'[n] = [mut[n] EXCEPT !.undo = None]
  PROVE  Resent(mut[n], mut'[n]) /\ \A t : Calm(t, mut[n], mut'[n])
<1> DEFINE x == mut[n]
           y == [x EXCEPT !.undo = None]
<1>1. x \in Mutation
  BY Shape
<1>2. /\ y.op = x.op /\ y.item = x.item /\ y.body = x.body /\ y.at = x.at /\ y.sent = x.sent
      /\ y.cached = x.cached
  BY <1>1 DEF Mutation
<1>3. mut'[n] = y
  OBVIOUS
<1> HIDE DEF x, y
<1>4. Resent(x, y)
  BY <1>2 DEF Resent
<1>5. \A t : Calm(t, x, y)
  BY <1>2 DEF Calm, Changes, Creates, InFlight
<1> QED BY <1>3, <1>4, <1>5 DEF x

\* A free slot becomes the create of an item that is new: nothing else is about it.
LEMMA CreateBeginsWish ==
  ASSUME OutboxInv, WishInv, NEW m \in Slots, mut[m].at = "free",
         NEW t \in Temps, ~Used(t), NEW b \in Row, mut'[m] = New("add", t, b),
         \A n \in Slots \ {m} : mut'[n] = mut[n] \/ mut'[n] = [mut[n] EXCEPT !.undo = None],
         wish' = [wish EXCEPT ![t] = [want |-> TRUE, row |-> b]],
         UNCHANGED <<screen, server, row, origin, excused>>
  PROVE  WishInv'
<1> DEFINE x == mut[m]
           y == mut'[m]
<1>1. /\ OthersOK /\ RowsOK /\ Sound(x, Known)
  BY Shape DEF SlotOK
<1>2. y.op = "add" /\ y.item = t /\ y.body = b /\ y.at = "mutate" /\ y.cached
  BY NewForm DEF Ops, Ids
<1>3. Kept /\ \A r \in Reals \ Born' : origin'[r] = None
  BY DEF Kept, Born, WishInv
<1>4. \A n \in Slots \ {m} : Resent(mut[n], mut'[n]) /\ \A u : Calm(u, mut[n], mut'[n])
  BY <1>3, CalmSame, UndoGoneCalm
<1>5. wish'[t].want /\ wish'[t].row = b /\ \A u \in Temps \ {t} : wish'[u] = wish[u]
  BY <1>1 DEF OthersOK
<1> HIDE DEF x, y
<1>6. x.op # "add" /\ Resent(x, y)
  BY <1>1, <1>2, OutboxAssumption DEF Sound, Resent, x
<1>7. ASSUME NEW u \in Temps \ (excused' \cup {t}) PROVE Still(u)
  <2>1. Calm(u, x, y)
    BY <1>2, <1>6 DEF Calm, Changes, Creates, InFlight, x
  <2>2. SameRows(u)
    BY DEF SameRows
  <2> QED BY <1>4, <1>5, <2>1, <2>2 DEF Still, x, y
<1>8. ASSUME t \in Temps \ excused', ItemOK(t) PROVE ItemOK(t)'
  <2>1. \A r \in Reals : origin[r] # t
    BY <1>1, OutboxAssumption DEF RowsOK
  <2>2. \A n \in Slots : ~Changes(mut[n], t, origin)
    <3>1. \A n \in Slots : mut[n].at \in Pending => mut[n].item # t
      BY <1>8 DEF ItemOK, NewOK
    <3> QED BY <2>1, <3>1 DEF Changes, ItemOf, InFlight, Pending, Stage
  <2>3. ~Changes(y, t, origin') /\ Creates(y, t)
    BY <1>2 DEF Changes, Creates
  <2>4. \A n \in Slots : ~Changes(mut'[n], t, origin')
    BY <1>4, <2>2, <2>3 DEF Calm, y
  <2>5. Agrees(t, mut[m].body, "live")'
    BY <1>2, <1>5, <2>4 DEF Agrees, y
  <2>6. ASSUME NEW c \in Slots, Creates(mut'[c], t) PROVE CreateAsAsked(c, t)'
    <3>1. c = m
      BY <1>4, <2>6 DEF Used, Creates, Calm
    <3> QED BY <1>2, <2>4, <2>5, <3>1 DEF CreateAsAsked, y
  <2>7. OneChange(t)'
    BY <2>1, <2>4 DEF OneChange
  <2>8. Used(t)'
    BY <1>2 DEF Used, y
  <2> QED BY <2>1, <2>6, <2>7, <2>8 DEF ItemOK, NewOK
<1>9. \A n \in Slots : Resent(mut[n], mut'[n])
  BY <1>4, <1>6 DEF x, y
<1> QED BY <1>3, <1>7, <1>8, <1>9, TouchesOne

\* A row is added,
LEMMA AddItemWish ==
  ASSUME OutboxInv, WishInv, NEW m \in Slots, AddItem(m)
  PROVE  WishInv'
<1>1. PICK t : t = AnyOf(Unused)
  OBVIOUS
<1>2. /\ mut[m].at = "free" /\ Unused # {} /\ mut' = [mut EXCEPT ![m] = New("add", t, Blank)]
      /\ wish' = [wish EXCEPT ![t] = [want |-> TRUE, row |-> Blank]]
      /\ UNCHANGED <<screen, server, row, origin, excused>>
  BY <1>1 DEF AddItem, backend
<1>3. t \in Temps /\ ~Used(t) /\ Blank \in Row
  BY <1>1, <1>2, AnUnused DEF Blank, Row
<1>4. mut'[m] = New("add", t, Blank) /\ \A n \in Slots \ {m} : mut'[n] = mut[n]
  BY <1>2, Shape
<1>5. \A n \in Slots \ {m} : mut'[n] = mut[n] \/ mut'[n] = [mut[n] EXCEPT !.undo = None]
  BY <1>4
<1>6. mut[m].at = "free" /\ UNCHANGED <<screen, server, row, origin, excused>>
  BY <1>2
<1>7. wish' = [wish EXCEPT ![t] = [want |-> TRUE, row |-> Blank]]
  BY <1>2
<1>8. PICK b \in Row : b = Blank
  BY <1>3
<1> QED BY <1>3, <1>4, <1>5, <1>6, <1>7, <1>8, CreateBeginsWish

\* ... and one that was removed is wanted again.
LEMMA UndoRemoveWish ==
  ASSUME OutboxInv, WishInv, NEW m \in Slots, NEW d \in Slots, UndoRemove(m, d)
  PROVE  WishInv'
<1>0. PICK i : i = mut[d].undo
  OBVIOUS
<1> DEFINE z == [mut[d] EXCEPT !.undo = None]
<1>1. /\ OthersOK /\ RowsOK /\ mut \in [Slots -> Mutation] /\ Sound(mut[m], Known)
      /\ mut[m].at = "free" /\ i # None
      /\ UNCHANGED <<screen, server, row, origin>>
  BY <1>0, Shape DEF UndoRemove, device, backend, SlotOK
<1>2. i \in Known /\ i \in Ids
  BY <1>0, <1>1, Shape DEF SlotOK, Sound, Known, Ids, Born
<1> HIDE DEF z
<1>3. CASE i \in Reals
  <2> DEFINE x == mut[m]
             y == New("restore", i, Blank)
  <2>1. PICK t \in Temps : t = Item(i) /\ t = origin[i] /\ t = ItemOf(i, origin)
    BY <1>2, <1>3, ItemIsTemp DEF Item, ItemOf
  <2>2. /\ mut' = [mut EXCEPT ![d].undo = None, ![m] = y]
        /\ wish' = [wish EXCEPT ![t].want = TRUE]
        /\ Excuse(t, Overlaps(t, m))
    BY <1>0, <1>3, <2>1 DEF UndoRemove
  <2>3. y.op = "restore" /\ y.item = i /\ y.at = "mutate"
    BY <1>2, NewForm DEF Ops, Blank, Row
  <2> HIDE DEF y
  <2>4. mut'[m] = y /\ \A n \in Slots \ {m} : mut'[n] = IF n = d THEN z ELSE mut[n]
    BY <1>1, <2>2 DEF z
  <2>5. Kept /\ \A r \in Reals \ Born' : origin'[r] = None
    BY <1>1, <2>2 DEF Excuse, Kept, Born, WishInv
  <2>6. \A n \in Slots \ {m} : Resent(mut[n], mut'[n]) /\ \A u : Calm(u, mut[n], mut'[n])
    BY <1>1, <2>4, <2>5, CalmSame, UndoGoneCalm DEF z
  <2>7. x.op # "add" /\ Resent(x, y)
    BY <1>1, <2>3, OutboxAssumption DEF Resent, Sound
  <2>8. /\ wish'[t].want /\ wish'[t].row = wish[t].row
        /\ \A u \in Temps \ {t} : wish'[u] = wish[u]
    BY <1>1, <2>2 DEF OthersOK
  <2>9. ASSUME NEW u \in Temps \ (excused' \cup {t}) PROVE Still(u)
    <3>1. ItemOf(i, origin') # u /\ i # u
      BY <1>1, <1>3, <2>1, <2>9, OutboxAssumption
    <3>2. Calm(u, x, y)
      BY <1>1, <2>3, <2>7, <3>1 DEF Calm, Changes, Creates, InFlight
    <3>3. SameRows(u)
      BY <1>1 DEF SameRows
    <3> QED BY <1>1, <2>4, <2>6, <2>8, <2>9, <3>2, <3>3 DEF Still
  <2>10. ASSUME t \in Temps \ excused', ItemOK(t) PROVE ItemOK(t)'
    <3>1. \A n \in Slots : ~Changes(mut[n], t, origin)
      BY <1>1, <2>2, <2>10, NoOverlap DEF Excuse
    <3>2. ~Creates(x, t)
      BY <2>7 DEF Creates
    <3>3. Outcome(wish[t].row, mut'[m].op) = wish'[t].row
      BY <2>3, <2>4, <2>8, OutboxAssumption DEF Outcome
    <3>4. /\ mut'[m].at = "mutate" /\ mut'[m].op = "restore" /\ "restore" \notin EditOps
          /\ ItemOf(mut'[m].item, origin) = t /\ mut'[m].item # t
      BY <1>3, <2>1, <2>3, <2>4, OutboxAssumption
    <3>5. \E r \in Reals : origin[r] = t
      BY <1>3, <2>1
    <3> QED BY <1>1, <2>6, <2>8, <2>10, <3>1, <3>2, <3>3, <3>4, <3>5, ChangeBegins
  <2>11. \A n \in Slots : Resent(mut[n], mut'[n])
    BY <2>4, <2>6, <2>7
  <2> QED BY <2>5, <2>9, <2>10, <2>11, TouchesOne
<1>4. CASE i \notin Reals
  <2>1. PICK t, b : t = AnyOf(Unused) /\ b = wish[i].row
    OBVIOUS
  <2>2. /\ Unused # {}
        /\ mut' = [mut EXCEPT ![d].undo = None, ![m] = New("add", t, b)]
        /\ wish' = [wish EXCEPT ![t] = [want |-> TRUE, row |-> b]]
        /\ UNCHANGED excused
    BY <1>0, <1>4, <2>1 DEF UndoRemove
  <2>3. t \in Temps /\ ~Used(t) /\ b \in Row
    BY <1>1, <1>2, <1>4, <2>1, <2>2, AnUnused DEF OthersOK, Ids
  <2>4. /\ mut'[m] = New("add", t, b)
        /\ \A n \in Slots \ {m} : mut'[n] = IF n = d THEN z ELSE mut[n]
    BY <1>1, <2>2 DEF z
  <2>5. \A n \in Slots \ {m} : mut'[n] = mut[n] \/ mut'[n] = [mut[n] EXCEPT !.undo = None]
    BY <2>4 DEF z
  <2> QED BY <1>1, <2>2, <2>3, <2>4, <2>5, CreateBeginsWish
<1> QED BY <1>3, <1>4

-----------------------------------------------------------------------------

\* The outbox is empty.
LEMMA WishInit ==
  ASSUME Init
  PROVE  WishInv
<1>1. /\ mut = [m \in Slots |-> NoMutation] /\ screen = {} /\ origin = [r \in Reals |-> None]
  BY DEF Init
<1>2. \A m \in Slots : mut[m].at = "free" /\ mut[m].op # "add"
  BY <1>1, Blanks, OutboxAssumption
<1>3. ASSUME NEW t \in Temps PROVE ItemOK(t)
  <2>1. (\A m \in Slots : ~Changes(mut[m], t, origin) /\ ~Creates(mut[m], t)) /\ \A r \in Reals : origin[r] # t
    BY <1>1, <1>2, OutboxAssumption DEF Changes, Creates, InFlight
  <2> QED BY <1>1, <1>2, <2>1 DEF ItemOK, OneChange, NewOK, Pending
<1> QED BY <1>1, <1>2, <1>3 DEF WishInv, SentOK

\* The steps, by the actions.
LEMMA WishSteps ==
  ASSUME OutboxInv, WishInv, [Next]_vars
  PROVE  WishInv'
<1>1. CASE Tap
  BY <1>1, AddItemWish, ClickRemoveWish, TapItemWish, UndoRemoveWish DEF Tap
<1>2. ASSUME NEW m \in Slots, Work(m) PROVE WishInv'
  BY <1>2, RemoveItemWish, StartWish, ServeWish, ServeOrphanWish, AnswerWish, RefuseWish,
     LoseAttemptWish, BackoffEndsWish DEF Work
<1>3. CASE Refetch \/ Save \/ UNCHANGED vars
  BY <1>3, QuietWish DEF Refetch, Save, vars, device, backend, ghosts
<1>4. CASE Device
  BY <1>3, <1>4, DeviceWish, ReloadWish DEF Device
<1> QED BY <1>1, <1>2, <1>3, <1>4 DEF Next

\* Of an item nothing is under way of, the row is as the user asked.
LEMMA SettledFollows ==
  ASSUME OutboxInv, WishInv
  PROVE  SettledAsAsked
<1> SUFFICES ASSUME NEW t \in Temps \ excused, Used(t), \A m \in About(t) : mut[m].at = "done"
             PROVE  IF wish[t].want
                    THEN \E r \in Reals : RowsOf(t) = {r} /\ row[r] = wish[t].row
                    ELSE RowsOf(t) = {}
  BY DEF SettledAsAsked
<1>1. ItemOK(t)
  BY DEF WishInv
<1>2. \A n \in Slots : ~Changes(mut[n], t, origin)
  BY DEF Changes, About, Item, ItemOf, InFlight
<1>3. \A r \in Reals : origin[r] = t => row[r] = wish[t].row /\ (server[r] = "live" <=> wish[t].want)
  BY <1>1, <1>2 DEF ItemOK, Agrees
<1>4. CASE wish[t].want
  <2>1. PICK c \in Slots : mut[c].op = "add" /\ mut[c].item = t
    BY DEF Used
  <2>2. Sound(mut[c], Known)
    BY Shape DEF SlotOK
  <2>3. mut[c].at = "done"
    BY <2>1, <2>2, OutboxAssumption DEF Sound, About, Item
  <2>4. PICK r \in Reals : origin[r] = t
    BY <1>1, <1>4, <2>1, <2>3 DEF ItemOK, Creates, CreateAsAsked
  <2>5. RowsOf(t) = {r}
    BY <1>1, <1>3, <1>4, <2>4 DEF RowsOf, ItemOK, OneChange
  <2> QED BY <1>3, <1>4, <2>4, <2>5
<1>5. CASE ~wish[t].want
  BY <1>3, <1>5 DEF RowsOf
<1> QED BY <1>4, <1>5

\* Once nothing of an item is under way, the server has what the user last asked of
\* it, and has it once: whatever was folded, rewritten, cancelled, undone or
\* replayed on the way.
THEOREM OutboxSettles == Spec => []SettledAsAsked
<1>1. Init => OutboxInv /\ WishInv
  BY OutboxInit, WishInit
<1>2. OutboxInv /\ WishInv /\ [Next]_vars => (OutboxInv /\ WishInv)'
  BY OutboxStep, WishSteps
<1>3. OutboxInv /\ WishInv => SettledAsAsked
  BY SettledFollows
<1> QED BY <1>1, <1>2, <1>3, PTL DEF Spec
=============================================================================
