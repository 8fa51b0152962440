--------------------------- MODULE LiveSyncProofs ----------------------------
(* Theorems about LiveSync: for any number of items and taps, any buffer     *)
(* and any number of changes and troubles.                                   *)
EXTENDS LiveSync, FiniteSetTheorems, SequenceTheorems, TLAPS

-----------------------------------------------------------------------------
(* The inductive invariant.                                                *)

Fetch == [at: {"idle", "asked", "counted", "read"}, open: Int, rows: [Items -> Shown],
          cures: SUBSET Cause]
FetchOK == fetch \in Fetch /\ fetch.cures \subseteq causes /\ causes \subseteq Cause

\* The stream counts as away exactly from an error to the next open.
StreamOK ==
  /\ stream = "open" => ~awaiting
  /\ stream = "failed" => awaiting

\* The hint of this list is in the buffer.
Hinted == \E k \in 1..Len(buffer) : buffer[k] = "this"

\* Something will still cause a refetch: a change that is not published, a hint
\* that is not handled, a reload.
Expected ==
  \/ owed > 0 \/ Hinted \/ ReloadDue
  \/ \E m \in Slots : mut[m].at = "committed"

\* A mutation whose optimistic change is not part of the table, or will not have
\* been.
Ahead(m) == mut[m].at \in {"mutate", "sent", "refused"}

\* What c shows is in the table.
Current(c) == c.rows = View(table) /\ c.open = OpenIn(View(table))

\* What a refetch has read is the table as it is, unless something will cause
\* another or there is a cause of staleness it does not cure.
FetchGood ==
  ~Expected /\ causes \subseteq fetch.cures =>
    /\ fetch.at \in {"counted", "read"} => fetch.open = OpenIn(View(table))
    /\ fetch.at = "read" => fetch.rows = View(table)

\* Nothing accounts for a difference between the cache and the table but ms.
Quiet(ms) == ~Expected /\ fetch.at = "idle" /\ causes = {} /\ \A n \in Slots \ ms : ~Ahead(n)

\* So the cache shows the table; a tap that has not written yet finds it so; and a
\* snapshot that nothing has touched is what a rollback should write.
CacheGood == Quiet({}) => Current(cache)

SnapshotGood(m) ==
  /\ mut[m].at = "mutate" /\ ~mut[m].touched /\ Quiet({m}) => Current(cache)
  /\ /\ mut[m].at = "sent" /\ ~mut[m].touched /\ mut[m].op \notin {"delete", "restore"}
     /\ Quiet({m})
     => Current(mut[m].before)

SyncInv == StreamOK /\ FetchGood /\ CacheGood /\ \A m \in Slots : SnapshotGood(m)

\* At most one event is owed for each change, and a mutation under way has its
\* operation.
OpsKnown == \A m \in Busy : mut[m].op \in Ops
Typed == TypeOK /\ FetchOK /\ owed <= changes /\ OpsKnown

LiveInv == Typed /\ SyncInv

-----------------------------------------------------------------------------
(* The operators of the model.                                             *)

\* What the list shows of a well-formed table is well formed.
LEMMA ViewType ==
  ASSUME table \in [Items -> Stored]
  PROVE  View(table) \in [Items -> Shown] /\ OpenIn(View(table)) \in Int
<1>1. View(table) \in [Items -> Shown]
  BY DEF View, Stored, Shown
<1>2. IsFiniteSet({i \in Items : View(table)[i] = "open"})
  BY LiveAssumption, FS_Subset
<1>. QED  BY <1>1, <1>2, FS_CardinalityType DEF OpenIn

\* The fixed values have their types.
LEMMA FixedTypes ==
  /\ Nothing \in Content /\ Nothing.rows \in [Items -> Shown]
  /\ Free \in Mutation /\ Free.at = "free"
  /\ Idle \in Fetch /\ Idle.at = "idle" /\ Idle.cures = {}
<1>1. Nothing \in Content /\ Nothing.rows \in [Items -> Shown]
  BY DEF Nothing, Content, Shown
<1>2. (CHOOSE i \in Items : TRUE) \in Items
  BY LiveAssumption
<1>3. Free \in Mutation /\ Free.at = "free"
  BY <1>1, <1>2 DEF Free, Mutation, Shown
<1>4. Idle \in Fetch /\ Idle.at = "idle" /\ Idle.cures = {}
  BY <1>1 DEF Idle, Fetch
<1>. QED  BY <1>1, <1>3, <1>4

\* A refetch that is asked for claims to cure every cause there is.
LEMMA AskedType ==
  ASSUME causes \subseteq Cause
  PROVE  Asked \in Fetch /\ Asked.at = "asked" /\ Asked.cures = causes
BY FixedTypes DEF Asked, Idle, Fetch

\* To touch a mutation only sets its mark.
LEMMA TouchedType ==
  ASSUME NEW x \in Mutation
  PROVE  /\ [x EXCEPT !.touched = TRUE] \in Mutation
         /\ [x EXCEPT !.touched = TRUE].touched
         /\ [x EXCEPT !.touched = TRUE].at = x.at
         /\ [x EXCEPT !.touched = TRUE].op = x.op
BY DEF Mutation

\* Touch puts x at m and marks the snapshots of the others.
LEMMA TouchKeeps ==
  ASSUME mut \in [Slots -> Mutation], NEW m \in Slots, NEW x \in Mutation, Touch(m, x)
  PROVE  /\ mut' \in [Slots -> Mutation]
         /\ mut'[m] = x
         /\ \A n \in Slots \ {m} : /\ mut'[n].at = mut[n].at /\ mut'[n].op = mut[n].op
                                   /\ n \in Busy => mut'[n].touched
BY TouchedType DEF Touch

\* What is left of a mutation that has ended.
LEMMA EndedType ==
  ASSUME NEW x \in Mutation
  PROVE  Ended(x) \in Mutation /\ Ended(x).at = "done"
<1>1. x.item \in Items /\ x.was \in Shown
  BY DEF Mutation
<1>2. CASE x.op = "delete"
  BY <1>1, <1>2, FixedTypes DEF Ended, Free, Mutation, Ops
<1>3. CASE x.op # "delete"
  BY <1>1, <1>3, FixedTypes DEF Ended, Free, Mutation, Ops
<1>. QED  BY <1>2, <1>3

\* What a tap makes of a well-formed cache is well formed.
LEMMA OptimisticType ==
  ASSUME cache \in Content, NEW op \in Ops, NEW i \in Items, NEW was \in Shown
  PROVE  Optimistic(op, i, was) \in Content
<1>1. cache.rows \in [Items -> Shown] /\ cache.open \in Int
  BY DEF Content
<1>2. \A s \in Shown : [cache.rows EXCEPT ![i] = s] \in [Items -> Shown]
  BY <1>1
<1>3. "absent" \in Shown /\ "open" \in Shown /\ "done" \in Shown
  BY DEF Shown
<1>4. CASE op = "add"
  BY <1>1, <1>2, <1>3, <1>4 DEF Optimistic, Content
<1>5. CASE op = "check"
  BY <1>1, <1>2, <1>3, <1>5 DEF Optimistic, Content
<1>6. CASE op = "uncheck"
  BY <1>1, <1>2, <1>3, <1>6 DEF Optimistic, Content
<1>7. CASE op = "delete"
  BY <1>1, <1>2, <1>3, <1>7 DEF Optimistic, Content
<1>8. CASE op = "restore"
  BY <1>1, <1>2, <1>3, <1>8 DEF Optimistic, Content
<1>. QED  BY <1>4, <1>5, <1>6, <1>7, <1>8 DEF Ops

\* The row an undo brings back is a row a removal took away.
LEMMA RowType ==
  ASSUME cache \in Content, mut \in [Slots -> Mutation],
         NEW op \in Ops, NEW i \in Items, CanTap(op, i)
  PROVE  RowToBringBack(op, i) \in Shown
<1>1. CASE op # "restore"
  BY <1>1 DEF RowToBringBack, Content
<1>2. CASE op = "restore"
  <2>1. \E d \in Slots : mut[d].op = "delete" /\ mut[d].item = i
    BY <1>2 DEF CanTap
  <2>. DEFINE d == CHOOSE d \in Slots : mut[d].op = "delete" /\ mut[d].item = i
  <2>2. d \in Slots
    BY <2>1
  <2>3. mut[d].was \in Shown
    BY <2>2 DEF Mutation
  <2>. QED  BY <1>2, <2>3 DEF RowToBringBack
<1>. QED  BY <1>1, <1>2

\* A statement leaves a stored row, and a restore one that is shown.
LEMMA ResultType ==
  ASSUME NEW s \in Stored, NEW op \in Ops, s \in Needs(op)
  PROVE  Result(s, op) \in Stored /\ (op = "restore" => Result(s, op) \in Shown)
BY DEF Stored, Ops, Needs, Result, Shown

-----------------------------------------------------------------------------
(* The types.                                                              *)

\* A refetch may start, or end, at any time.
LEMMA FetchStarts ==
  ASSUME FetchOK, Invalidate \/ fetch' = Idle, causes' = causes
  PROVE  FetchOK'
BY AskedType, FixedTypes DEF FetchOK, Invalidate

\* A new cause is one the refetch does not cure.
LEMMA BlameType ==
  ASSUME FetchOK, NEW c \in Cause, Blame(c)
  PROVE  FetchOK' /\ c \in causes' /\ c \notin fetch'.cures /\ fetch'.at = fetch.at
BY DEF FetchOK, Blame, Fetch

\* The broker keeps the bound of its buffer.
LEMMA EmitType ==
  ASSUME FetchOK, buffer \in Seq(Topic), Len(buffer) <= Room, wire \in BOOLEAN,
         NEW topic \in Topic, Emit(topic)
  PROVE  FetchOK' /\ buffer' \in Seq(Topic) /\ Len(buffer') <= Room
<1>1. CASE wire /\ Len(buffer) < Room
  <2>1. buffer' = Append(buffer, topic) /\ UNCHANGED <<causes, fetch>>
    BY <1>1 DEF Emit
  <2>. QED  BY <1>1, <2>1, LiveAssumption DEF FetchOK
<1>2. CASE ~(wire /\ Len(buffer) < Room)
  <2>1. UNCHANGED buffer
    BY <1>2 DEF Emit
  <2>2. Blame("crowded") \/ Blame("late") \/ UNCHANGED <<causes, fetch>>
    BY <1>2 DEF Emit
  <2>3. "crowded" \in Cause /\ "late" \in Cause
    BY DEF Cause
  <2>4. FetchOK'
    BY <2>2, <2>3, BlameType DEF FetchOK
  <2>. QED  BY <2>1, <2>4
<1>. QED  BY <1>1, <1>2

\* Nothing has been read or tapped yet.
LEMMA TypeInit == Init => Typed
<1>. SUFFICES ASSUME Init PROVE Typed
  OBVIOUS
<1>1. table \in [Items -> Stored]
  BY DEF Init, Stored
<1>2. mut \in [Slots -> Mutation] /\ cache \in Content
  BY FixedTypes DEF Init
<1>3. fetch \in Fetch /\ fetch.cures = {} /\ causes = {}
  BY FixedTypes DEF Init, Fetch
<1>4. buffer \in Seq(Topic) /\ Len(buffer) <= Room
  BY LiveAssumption DEF Init
<1>5. FetchOK
  BY <1>3 DEF FetchOK, Cause
<1>6. fetch.at \in {"idle", "asked", "counted", "read"} /\ causes \subseteq Cause
  BY <1>3 DEF Fetch
<1>7. {owed, changes} \subseteq 0..MaxChanges /\ troubles \in 0..MaxTroubles
  BY LiveAssumption DEF Init
<1>8. stream = "connecting" /\ {wire, awaiting} \subseteq BOOLEAN
  BY DEF Init
<1>9. TypeOK
  BY <1>1, <1>2, <1>3, <1>4, <1>5, <1>6, <1>7, <1>8 DEF TypeOK
<1>10. Busy = {}
  BY FixedTypes DEF Init, Busy
<1>11. owed <= changes
  BY DEF Init
<1>. QED  BY <1>5, <1>9, <1>10, <1>11 DEF Typed, OpsKnown

\* Steps on the refetch.
LEMMA TypeFetch ==
  ASSUME TypeOK, FetchOK, ReadCounts \/ ReadItems \/ FetchAnswered \/ FetchFailed
  PROVE  TypeOK' /\ FetchOK'
<1>1. View(table) \in [Items -> Shown] /\ OpenIn(View(table)) \in Int
  BY ViewType DEF TypeOK
<1>2. ASSUME ReadCounts PROVE TypeOK' /\ FetchOK'
  BY <1>1, <1>2 DEF ReadCounts, TypeOK, FetchOK, Fetch, vars, backend, channel
<1>3. ASSUME ReadItems PROVE TypeOK' /\ FetchOK'
  BY <1>1, <1>3 DEF ReadItems, TypeOK, FetchOK, Fetch, vars, backend, channel
<1>4. ASSUME FetchAnswered PROVE TypeOK' /\ FetchOK'
  <2>1. cache' \in Content
    BY <1>4 DEF FetchAnswered, FetchOK, Fetch, Content
  <2>2. mut' \in [Slots -> Mutation]
    BY <1>4, TouchedType DEF FetchAnswered, TypeOK
  <2>3. FetchOK' /\ fetch'.at = "idle"
    BY <1>4, FixedTypes DEF FetchAnswered, FetchOK
  <2>. QED  BY <1>4, <2>1, <2>2, <2>3 DEF FetchAnswered, TypeOK, FetchOK, backend, channel
<1>5. ASSUME FetchFailed PROVE TypeOK' /\ FetchOK'
  <2>1. FetchOK' /\ fetch'.at = "idle"
    BY <1>5, FixedTypes DEF FetchFailed, FetchOK, Cause
  <2>2. troubles' \in 0..MaxTroubles
    BY <1>5, LiveAssumption DEF FetchFailed, Trouble, TypeOK
  <2>. QED  BY <1>5, <2>1, <2>2 DEF FetchFailed, TypeOK, FetchOK, backend, channel
<1>. QED  BY <1>2, <1>3, <1>4, <1>5

\* Steps on the stream.
LEMMA TypeStream ==
  ASSUME TypeOK, FetchOK,
         Subscribed \/ HandleOpen \/ HandleMessage \/ HandleError
           \/ Break \/ HandleRefusal \/ Revisit
  PROVE  TypeOK' /\ FetchOK'
<1>1. Trouble => troubles' \in 0..MaxTroubles
  BY LiveAssumption DEF Trouble, TypeOK
<1>2. <<>> \in Seq(Topic) /\ Len(<<>>) <= Room
  BY LiveAssumption
<1>3. ASSUME Subscribed PROVE TypeOK' /\ FetchOK'
  BY <1>3 DEF Subscribed, TypeOK, FetchOK, backend
<1>4. ASSUME HandleOpen PROVE TypeOK' /\ FetchOK'
  <2>1. FetchOK'
    BY <1>4, FetchStarts DEF HandleOpen, FetchOK
  <2>. QED  BY <1>4, <2>1 DEF HandleOpen, TypeOK, FetchOK, Fetch, backend
<1>5. ASSUME HandleMessage PROVE TypeOK' /\ FetchOK'
  <2>1. FetchOK'
    BY <1>5, FetchStarts DEF HandleMessage, FetchOK
  <2>2. buffer' \in Seq(Topic) /\ Len(buffer') <= Room
    BY <1>5, LiveAssumption DEF HandleMessage, TypeOK
  <2>. QED  BY <1>5, <2>1, <2>2 DEF HandleMessage, TypeOK, FetchOK, Fetch, backend
<1>6. ASSUME HandleError PROVE TypeOK' /\ FetchOK'
  BY <1>6 DEF HandleError, TypeOK, FetchOK, backend
<1>7. ASSUME Break PROVE TypeOK' /\ FetchOK'
  <2>1. awaiting' \in BOOLEAN /\ wire' \in BOOLEAN
    BY <1>7 DEF Break, TypeOK
  <2>2. troubles' \in 0..MaxTroubles
    BY <1>1, <1>7 DEF Break
  <2>. QED  BY <1>2, <1>7, <2>1, <2>2 DEF Break, TypeOK, FetchOK, backend
<1>8. ASSUME HandleRefusal PROVE TypeOK' /\ FetchOK'
  <2>1. troubles' \in 0..MaxTroubles
    BY <1>1, <1>8 DEF HandleRefusal
  <2>. QED  BY <1>8, <2>1 DEF HandleRefusal, TypeOK, FetchOK, backend
<1>9. ASSUME Revisit PROVE TypeOK' /\ FetchOK'
  <2>1. FetchOK'
    <3>1. "late" \in Cause
      BY DEF Cause
    <3>. QED  BY <1>9, <3>1, FetchStarts, BlameType DEF Revisit, FetchOK
  <2>2. troubles' \in 0..MaxTroubles
    BY <1>1, <1>9 DEF Revisit
  <2>. QED  BY <1>2, <1>9, <2>1, <2>2 DEF Revisit, TypeOK, FetchOK, Fetch, backend
<1>. QED  BY <1>3, <1>4, <1>5, <1>6, <1>7, <1>8, <1>9

\* Steps of the other members; at most MaxChanges of their events are owed, one
\* for each change.
LEMMA TypeMembers ==
  ASSUME TypeOK, FetchOK, owed <= changes, Members
  PROVE  TypeOK' /\ FetchOK' /\ owed' <= changes'
<1>1. "this" \in Topic /\ "other" \in Topic
  BY DEF Topic
<1>2. wire \in BOOLEAN
  BY DEF TypeOK
<1>3. ASSUME Change PROVE TypeOK' /\ FetchOK' /\ owed' <= changes'
  <2>1. PICK i \in Items, op \in Ops : /\ table[i] \in Needs(op)
                                       /\ table' = [table EXCEPT ![i] = Result(@, op)]
    BY <1>3 DEF Change
  <2>2. Result(table[i], op) \in Stored
    BY <2>1, ResultType DEF TypeOK
  <2>3. table' \in [Items -> Stored]
    BY <2>1, <2>2 DEF TypeOK
  <2>4. owed' \in 0..MaxChanges /\ changes' \in 0..MaxChanges /\ owed' <= changes'
    BY <1>3, LiveAssumption DEF Change, TypeOK
  <2>. QED  BY <1>3, <2>3, <2>4 DEF Change, TypeOK, FetchOK, channel
<1>4. ASSUME PublishChange PROVE TypeOK' /\ FetchOK' /\ owed' <= changes'
  <2>1. FetchOK' /\ buffer' \in Seq(Topic) /\ Len(buffer') <= Room
    BY <1>1, <1>2, <1>4, EmitType DEF PublishChange, TypeOK
  <2>2. owed' \in 0..MaxChanges /\ owed' <= changes'
    BY <1>4, LiveAssumption DEF PublishChange, TypeOK
  <2>. QED  BY <1>4, <2>1, <2>2 DEF PublishChange, TypeOK, FetchOK, Fetch
<1>5. ASSUME ChangeElsewhere PROVE TypeOK' /\ FetchOK' /\ owed' <= changes'
  <2>1. FetchOK' /\ buffer' \in Seq(Topic) /\ Len(buffer') <= Room
    BY <1>1, <1>2, <1>5, EmitType DEF ChangeElsewhere, TypeOK
  <2>2. changes' \in 0..MaxChanges /\ owed' <= changes'
    BY <1>5, LiveAssumption DEF ChangeElsewhere, TypeOK
  <2>. QED  BY <1>5, <2>1, <2>2 DEF ChangeElsewhere, TypeOK, FetchOK, Fetch
<1>. QED  BY <1>3, <1>4, <1>5 DEF Members

\* A step of one tap keeps the others' operations.
LEMMA OpsStay ==
  ASSUME OpsKnown, NEW m \in Slots, mut'[m].op \in Ops \/ mut'[m].at \in {"free", "done"},
         \A n \in Slots \ {m} : mut'[n].at = mut[n].at /\ mut'[n].op = mut[n].op
  PROVE  OpsKnown'
BY DEF OpsKnown, Busy

\* The steps on the refetch or the stream, and those of others, keep them too.
LEMMA OpsElsewhere ==
  ASSUME Typed, \/ UNCHANGED mut
                \/ mut' = [n \in Slots |-> IF n \in Busy THEN [mut[n] EXCEPT !.touched = TRUE]
                                                         ELSE mut[n]]
  PROVE  OpsKnown'
<1>1. \A n \in Slots : mut'[n].at = mut[n].at /\ mut'[n].op = mut[n].op
  BY TouchedType DEF Typed, TypeOK
<1>. QED  BY <1>1 DEF Typed, OpsKnown, Busy

\* The user's taps, one lemma for each step.  A tap starts marked when it gave up
\* a refetch.
LEMMA TypeTap ==
  ASSUME Typed, NEW m \in Slots, NEW op \in Ops, NEW i \in Items, Tap(m, op, i)
  PROVE  /\ Typed' /\ fetch' = Idle
         /\ mut'[m].at = "mutate" /\ (~mut'[m].touched => fetch.at = "idle")
         /\ \A n \in Slots \ {m} : mut'[n] = mut[n]
<1>1. PICK w : w = IF op \in {"delete", "restore"} THEN RowToBringBack(op, i) ELSE "absent"
  OBVIOUS
<1>2. w \in Shown
  BY <1>1, RowType DEF Tap, Typed, TypeOK, Shown
<1>3. PICK t \in BOOLEAN : t = (fetch.at # "idle")
  <2>1. (fetch.at # "idle") \in BOOLEAN
    OBVIOUS
  <2>. QED  BY <2>1, Zenon
<1>. DEFINE x == [Free EXCEPT !.op = op, !.item = i, !.at = "mutate", !.was = w, !.touched = t]
<1>4. x \in Mutation /\ x.at = "mutate" /\ x.touched = t /\ x.op = op
  BY <1>2, <1>3, FixedTypes DEF Mutation
<1>5. mut' = [mut EXCEPT ![m] = x] /\ fetch' = Idle
  BY <1>1, <1>3 DEF Tap
<1>. HIDE DEF x
<1>6. mut' \in [Slots -> Mutation] /\ mut'[m] = x /\ \A n \in Slots \ {m} : mut'[n] = mut[n]
  BY <1>4, <1>5 DEF Typed, TypeOK
<1>7. FetchOK'
  BY <1>5, FetchStarts DEF Tap, Typed, FetchOK
<1>8. mut'[m].at = "mutate" /\ (~mut'[m].touched => fetch.at = "idle")
  BY <1>3, <1>4, <1>6
<1>9. OpsKnown'
  BY <1>4, <1>6, OpsStay DEF Typed
<1>10. TypeOK'
  BY <1>6, <1>7 DEF Tap, Typed, TypeOK, FetchOK, Fetch, backend, channel
<1>11. owed' <= changes'
  BY DEF Tap, Typed, backend
<1>. QED  BY <1>5, <1>6, <1>7, <1>8, <1>9, <1>10, <1>11 DEF Typed

\* The snapshot Apply takes.
Snapshot(x) == IF x.op = "delete" THEN Nothing ELSE cache

\* Apply keeps the types, and the snapshot is the one above.
LEMMA TypeApply ==
  ASSUME Typed, NEW m \in Slots, Apply(m)
  PROVE  /\ Typed'
         /\ mut'[m].at = "sent" /\ mut'[m].before = Snapshot(mut[m])
         /\ mut'[m].touched = mut[m].touched /\ mut'[m].op = mut[m].op
         /\ \A n \in Slots \ {m} : mut'[n].at = mut[n].at
<1>1. PICK b : b = Snapshot(mut[m])
  OBVIOUS
<1>2. b \in Content /\ mut[m] \in Mutation /\ mut[m].at = "mutate" /\ mut[m].op \in Ops
  BY <1>1, FixedTypes DEF Snapshot, Typed, OpsKnown, Busy, TypeOK, Apply
<1>. DEFINE x == [mut[m] EXCEPT !.at = "sent", !.before = b]
<1>3. x \in Mutation /\ x.at = "sent" /\ x.before = b
      /\ x.touched = mut[m].touched /\ x.op = mut[m].op
  BY <1>2 DEF Mutation
<1>4. Touch(m, x)
  BY <1>1 DEF Apply, Snapshot
<1>. HIDE DEF x
<1>5. /\ mut' \in [Slots -> Mutation] /\ mut'[m] = x
      /\ \A n \in Slots \ {m} : mut'[n].at = mut[n].at /\ mut'[n].op = mut[n].op
  BY <1>3, <1>4, TouchKeeps DEF Typed, TypeOK
<1>6. cache' \in Content
  <2>1. mut[m].item \in Items /\ mut[m].was \in Shown
    BY <1>2 DEF Mutation
  <2>. QED  BY <1>2, <2>1, OptimisticType DEF Apply, Typed, TypeOK
<1>7. OpsKnown'
  BY <1>2, <1>3, <1>5, OpsStay DEF Typed
<1>8. TypeOK'
  BY <1>5, <1>6 DEF Apply, Typed, TypeOK, backend, channel
<1>9. FetchOK' /\ owed' <= changes'
  BY DEF Apply, Typed, FetchOK, backend
<1>. QED  BY <1>1, <1>3, <1>5, <1>7, <1>8, <1>9 DEF Typed

\* What changes at most `at` and `was` of m.
LEMMA AtType ==
  ASSUME mut \in [Slots -> Mutation], NEW m \in Slots, NEW w \in Shown,
         NEW a \in {"refused", "committed", "published"},
         mut' = [mut EXCEPT ![m].at = a, ![m].was = w]
  PROVE  /\ mut' \in [Slots -> Mutation]
         /\ mut'[m].at = a /\ mut'[m].op = mut[m].op
         /\ \A n \in Slots \ {m} : mut'[n] = mut[n]
<1>. DEFINE x == [mut[m] EXCEPT !.at = a, !.was = w]
<1>1. x \in Mutation /\ x.at = a /\ x.op = mut[m].op
  BY DEF Mutation
<1>2. mut' = [mut EXCEPT ![m] = x]
  BY DEF Mutation
<1>. HIDE DEF x
<1>. QED  BY <1>1, <1>2

\* A statement that finds what it needs commits, and else the tap is refused.
LEMMA TypeCommit ==
  ASSUME Typed, NEW m \in Slots, Commit(m)
  PROVE  /\ Typed'
         /\ \/ mut'[m].at = "committed"
            \/ mut'[m].at = "refused" /\ UNCHANGED table
         /\ \A n \in Slots \ {m} : mut'[n] = mut[n]
<1>1. mut \in [Slots -> Mutation] /\ mut[m] \in Mutation /\ mut[m].at = "sent"
      /\ mut[m].op \in Ops /\ mut[m].item \in Items /\ mut[m].was \in Shown
  BY DEF Typed, OpsKnown, Busy, TypeOK, Commit, Mutation
<1>2. table[mut[m].item] \in Stored
  BY <1>1 DEF Typed, TypeOK
<1>3. CASE table[mut[m].item] \in Needs(mut[m].op)
  <2>1. PICK s : s = Result(table[mut[m].item], mut[m].op)
    OBVIOUS
  <2>2. s \in Stored /\ (mut[m].op = "restore" => s \in Shown)
    BY <1>1, <1>2, <1>3, <2>1, ResultType
  <2>3. PICK w : w = IF mut[m].op = "restore" THEN s ELSE mut[m].was
    OBVIOUS
  <2>4. w \in Shown
    BY <1>1, <2>2, <2>3
  <2>5. table' = [table EXCEPT ![mut[m].item] = s]
    BY <1>3, <2>1 DEF Commit
  <2>6. mut' = [mut EXCEPT ![m].at = "committed", ![m].was = w]
    <3>1. mut' = [mut EXCEPT ![m].at = "committed",
                            ![m].was = IF mut[m].op = "restore" THEN s ELSE @]
      BY <1>3, <2>1 DEF Commit
    <3>. QED  BY <1>1, <2>3, <3>1 DEF Mutation
  <2>7. /\ mut' \in [Slots -> Mutation]
        /\ mut'[m].at = "committed" /\ mut'[m].op = mut[m].op
        /\ \A n \in Slots \ {m} : mut'[n] = mut[n]
    BY <1>1, <2>4, <2>6, AtType
  <2>8. OpsKnown'
    BY <1>1, <2>7, OpsStay DEF Typed
  <2>9. TypeOK'
    BY <2>2, <2>5, <2>7 DEF Commit, Typed, TypeOK, channel
  <2>. QED  BY <2>7, <2>8, <2>9 DEF Commit, Typed, FetchOK
<1>4. CASE ~(table[mut[m].item] \in Needs(mut[m].op))
  <2>1. mut' = [mut EXCEPT ![m].at = "refused"] /\ UNCHANGED table
    BY <1>4 DEF Commit
  <2>2. mut' = [mut EXCEPT ![m].at = "refused", ![m].was = mut[m].was]
    BY <1>1, <2>1 DEF Mutation
  <2>3. /\ mut' \in [Slots -> Mutation]
        /\ mut'[m].at = "refused" /\ mut'[m].op = mut[m].op
        /\ \A n \in Slots \ {m} : mut'[n] = mut[n]
    BY <1>1, <2>2, AtType
  <2>4. OpsKnown'
    BY <1>1, <2>3, OpsStay DEF Typed
  <2>5. TypeOK'
    BY <2>1, <2>3 DEF Commit, Typed, TypeOK, channel
  <2>. QED  BY <2>1, <2>3, <2>4, <2>5 DEF Commit, Typed, FetchOK
<1>. QED  BY <1>3, <1>4

\* The handler publishes what its statement committed.
LEMMA TypePublish ==
  ASSUME Typed, NEW m \in Slots, PublishOwn(m)
  PROVE  /\ Typed'
         /\ mut'[m].at = "published"
         /\ \A n \in Slots \ {m} : mut'[n] = mut[n]
<1>1. mut \in [Slots -> Mutation] /\ mut[m] \in Mutation /\ mut[m].at = "committed"
      /\ mut[m].op \in Ops /\ mut[m].was \in Shown
  BY DEF Typed, OpsKnown, Busy, TypeOK, PublishOwn, Mutation
<1>2. mut' = [mut EXCEPT ![m].at = "published", ![m].was = mut[m].was]
  BY <1>1 DEF PublishOwn, Mutation
<1>3. /\ mut' \in [Slots -> Mutation]
      /\ mut'[m].at = "published" /\ mut'[m].op = mut[m].op
      /\ \A n \in Slots \ {m} : mut'[n] = mut[n]
  BY <1>1, <1>2, AtType
<1>4. OpsKnown'
  BY <1>1, <1>3, OpsStay DEF Typed
<1>5. FetchOK' /\ buffer' \in Seq(Topic) /\ Len(buffer') <= Room
  <2>1. "this" \in Topic /\ wire \in BOOLEAN
    BY DEF Topic, Typed, TypeOK
  <2>. QED  BY <2>1, EmitType DEF PublishOwn, Typed, TypeOK
<1>6. TypeOK'
  BY <1>3, <1>5 DEF PublishOwn, Typed, TypeOK, FetchOK, Fetch, backend
<1>. QED  BY <1>3, <1>4, <1>5, <1>6 DEF PublishOwn, Typed, backend

\* A mutation ends, and the rows may change under the snapshots of the others.
Finishes(m) ==
  \/ mut' = [mut EXCEPT ![m] = Ended(mut[m])] /\ UNCHANGED cache
  \/ Touch(m, Ended(mut[m]))

\* To finish keeps the types, and marks the snapshots when it writes rows.
LEMMA EndType ==
  ASSUME Typed, NEW m \in Slots, Finishes(m)
  PROVE  /\ mut' \in [Slots -> Mutation] /\ OpsKnown'
         /\ mut'[m].at = "done"
         /\ \A n \in Slots \ {m} :
              /\ mut'[n].at = mut[n].at
              /\ (mut'[n] = mut[n] /\ UNCHANGED cache) \/ n \notin Busy \/ mut'[n].touched
<1>1. mut \in [Slots -> Mutation] /\ mut[m] \in Mutation
  BY DEF Typed, TypeOK
<1>2. Ended(mut[m]) \in Mutation /\ Ended(mut[m]).at = "done"
  BY <1>1, EndedType
<1>3. CASE mut' = [mut EXCEPT ![m] = Ended(mut[m])] /\ UNCHANGED cache
  <2>1. /\ mut' \in [Slots -> Mutation] /\ mut'[m].at = "done"
        /\ \A n \in Slots \ {m} : mut'[n] = mut[n]
    BY <1>1, <1>2, <1>3
  <2>. QED  BY <1>3, <2>1, OpsStay DEF Typed
<1>4. CASE Touch(m, Ended(mut[m]))
  <2>1. /\ mut' \in [Slots -> Mutation] /\ mut'[m].at = "done"
        /\ \A n \in Slots \ {m} : /\ mut'[n].at = mut[n].at /\ mut'[n].op = mut[n].op
                                  /\ n \in Busy => mut'[n].touched
    BY <1>1, <1>2, <1>4, TouchKeeps
  <2>. QED  BY <2>1, OpsStay DEF Typed
<1>. QED  BY <1>3, <1>4 DEF Finishes

\* A tap that succeeds finishes.
LEMMA TypeSucceed ==
  ASSUME Typed, NEW m \in Slots, Succeed(m)
  PROVE  Typed' /\ Finishes(m)
<1>1. mut[m] \in Mutation /\ mut[m].item \in Items /\ mut[m].was \in Shown
  BY DEF Typed, TypeOK, Mutation
<1>2. Finishes(m)
  BY DEF Succeed, Finishes
<1>3. mut' \in [Slots -> Mutation] /\ OpsKnown'
  BY <1>2, EndType
<1>4. cache' \in Content
  <2>1. [cache EXCEPT !.rows[mut[m].item] = mut[m].was] \in Content
    BY <1>1 DEF Typed, TypeOK, Content
  <2>. QED  BY <2>1 DEF Succeed, Typed, TypeOK
<1>5. FetchOK'
  BY FetchStarts DEF Succeed, Settle, Typed, FetchOK
<1>6. TypeOK'
  BY <1>3, <1>4, <1>5 DEF Succeed, Typed, TypeOK, FetchOK, Fetch, backend, channel
<1>. QED  BY <1>2, <1>3, <1>5, <1>6 DEF Succeed, Typed, backend

\* So does one that is refused.
LEMMA TypeRefused ==
  ASSUME Typed, NEW m \in Slots, Refused(m)
  PROVE  Typed' /\ Finishes(m)
<1>1. Finishes(m)
  BY DEF Refused, Finishes, Typed, TypeOK
<1>2. mut' \in [Slots -> Mutation] /\ OpsKnown'
  BY <1>1, EndType
<1>3. FetchOK'
  BY FetchStarts DEF Refused, Typed, FetchOK
<1>4. TypeOK'
  BY <1>2, <1>3 DEF Refused, Typed, TypeOK, FetchOK, Fetch, backend, channel
<1>. QED  BY <1>1, <1>2, <1>3, <1>4 DEF Refused, Typed, backend

\* ... and one that is rolled back.
LEMMA TypeRollBack ==
  ASSUME Typed, NEW m \in Slots, RollBack(m)
  PROVE  Typed' /\ Finishes(m)
<1>1. mut[m] \in Mutation /\ mut[m].before \in Content
  BY DEF Typed, TypeOK, Mutation
<1>2. Finishes(m)
  BY DEF RollBack, Finishes
<1>3. mut' \in [Slots -> Mutation] /\ OpsKnown'
  BY <1>2, EndType
<1>4. cache' \in Content
  BY <1>1 DEF RollBack, Typed, TypeOK
<1>5. FetchOK'
  <2>1. "rollback" \in Cause
    BY DEF Cause
  <2>2. \/ Invalidate /\ UNCHANGED causes
        \/ Blame("rollback")
        \/ UNCHANGED <<fetch, causes>>
    BY DEF RollBack
  <2>. QED  BY <2>1, <2>2, FetchStarts, BlameType DEF Typed, FetchOK
<1>6. troubles' \in 0..MaxTroubles
  BY LiveAssumption DEF RollBack, Trouble, Typed, TypeOK
<1>7. TypeOK'
  BY <1>3, <1>4, <1>5, <1>6 DEF RollBack, Typed, TypeOK, FetchOK, Fetch, backend, channel
<1>. QED  BY <1>2, <1>3, <1>5, <1>7 DEF RollBack, Typed, backend

\* All of a step, by the actions.
LEMMA TypeStep ==
  ASSUME Typed, [Next]_vars
  PROVE  Typed'
<1>1. ASSUME ReadCounts \/ ReadItems \/ FetchAnswered \/ FetchFailed PROVE Typed'
  <2>1. OpsKnown'
    BY <1>1, OpsElsewhere DEF ReadCounts, ReadItems, FetchAnswered, FetchFailed
  <2>2. owed' <= changes'
    BY <1>1 DEF ReadCounts, ReadItems, FetchAnswered, FetchFailed, backend, Typed
  <2>. QED  BY <1>1, <2>1, <2>2, TypeFetch DEF Typed
<1>2. ASSUME Subscribed \/ HandleOpen \/ HandleMessage \/ HandleError
               \/ Break \/ HandleRefusal \/ Revisit
      PROVE  Typed'
  <2>1. UNCHANGED mut /\ owed' <= changes'
    BY <1>2 DEF Subscribed, HandleOpen, HandleMessage, HandleError, Break, HandleRefusal,
                Revisit, backend, Typed
  <2>. QED  BY <1>2, <2>1, OpsElsewhere, TypeStream DEF Typed
<1>3. ASSUME Members PROVE Typed'
  <2>1. UNCHANGED mut
    BY <1>3 DEF Members, Change, PublishChange, ChangeElsewhere
  <2>. QED  BY <1>3, <2>1, OpsElsewhere, TypeMembers DEF Typed
<1>4. ASSUME NEW m \in Slots, Work(m) \/ RollBack(m) PROVE Typed'
  BY <1>4, TypeApply, TypeCommit, TypePublish, TypeSucceed, TypeRefused, TypeRollBack DEF Work
<1>5. ASSUME NEW m \in Slots, NEW op \in Ops, NEW i \in Items, Tap(m, op, i) PROVE Typed'
  BY <1>5, TypeTap
<1>6. ASSUME UNCHANGED vars PROVE Typed'
  BY <1>6 DEF vars, backend, channel, Typed, TypeOK, FetchOK, OpsKnown, Busy
<1>. QED  BY <1>1, <1>2, <1>3, <1>4, <1>5, <1>6 DEF Next, Client, Troubles

-----------------------------------------------------------------------------
(* The view and the table.                                                 *)

\* While a refetch is to come, or a cause stands that none will cure, nothing is
\* said of the view.
Loud == Expected \/ fetch.at = "asked" \/ ~(causes \subseteq fetch.cures)

ViewInv == FetchGood /\ CacheGood /\ \A m \in Slots : SnapshotGood(m)

LEMMA LoudIsFine ==
  ASSUME Typed', Loud'
  PROVE  ViewInv'
<1>1. \A ms : ~Quiet(ms)'
  BY DEF Loud, Quiet, Typed, FetchOK
<1>2. FetchGood'
  BY DEF Loud, FetchGood
<1>. QED  BY <1>1, <1>2 DEF ViewInv, CacheGood, SnapshotGood

\* A refetch that is asked for is loud.
LEMMA AskedIsLoud ==
  ASSUME Typed, Invalidate
  PROVE  Loud'
BY AskedType DEF Invalidate, Loud, Typed, FetchOK

\* Blame gives a cause the refetch does not cure.
LEMMA BlameIsLoud ==
  ASSUME Typed, NEW c \in Cause, Blame(c)
  PROVE  Loud'
BY BlameType DEF Loud, Typed

\* A hint of this list that is published is handled in the end, or made up for by
\* a reload or a refetch, or leaves a cause.
LEMMA HintIsLoud ==
  ASSUME Typed, Typed', Emit("this"), UNCHANGED <<wire, stream, awaiting>>
  PROVE  Loud'
<1>1. buffer \in Seq(Topic) /\ wire \in BOOLEAN /\ "this" \in Topic
  BY DEF Typed, TypeOK, Topic
<1>2. "crowded" \in Cause /\ "late" \in Cause
  BY DEF Cause
<1>3. CASE wire /\ Len(buffer) < Room
  <2>1. buffer' = Append(buffer, "this")
    BY <1>3 DEF Emit
  <2>2. Len(buffer) + 1 \in 1..Len(buffer') /\ buffer'[Len(buffer) + 1] = "this"
    BY <1>1, <2>1
  <2>. QED  BY <2>2 DEF Loud, Expected, Hinted
<1>4. CASE wire /\ ~(Len(buffer) < Room) /\ ~Hinted
  <2>1. Blame("crowded")
    BY <1>4 DEF Emit, Hinted
  <2>. QED  BY <1>2, <2>1, BlameIsLoud
<1>5. CASE ~(wire /\ Len(buffer) < Room) /\ Hinted
  <2>1. UNCHANGED buffer
    BY <1>5 DEF Emit
  <2>. QED  BY <1>5, <2>1 DEF Loud, Expected, Hinted
<1>6. CASE ~wire /\ ReloadDue
  BY <1>6 DEF Loud, Expected, ReloadDue
<1>7. CASE ~wire /\ ~ReloadDue /\ fetch.at # "asked"
  <2>1. Blame("late")
    BY <1>7 DEF Emit
  <2>. QED  BY <1>2, <2>1, BlameIsLoud
<1>8. CASE ~wire /\ ~ReloadDue /\ fetch.at = "asked"
  <2>1. UNCHANGED <<causes, fetch>>
    BY <1>8 DEF Emit
  <2>. QED  BY <1>8, <2>1 DEF Loud
<1>. QED  BY <1>3, <1>4, <1>5, <1>6, <1>7, <1>8

\* What a step leaves of the view: what is expected, the table, the refetch and
\* its causes, the cache and the mutations.
Still == /\ Expected' = Expected
         /\ UNCHANGED <<table, fetch, causes, cache, mut>>

\* A step that leaves all of this leaves what is said of the view.
LEMMA StillIsFine ==
  ASSUME ViewInv, Still
  PROVE  ViewInv'
<1>1. \A ms : Quiet(ms)' = Quiet(ms)
  BY DEF Still, Quiet, Ahead
<1>. QED  BY <1>1 DEF Still, ViewInv, FetchGood, CacheGood, SnapshotGood, Current, View, OpenIn

-----------------------------------------------------------------------------
(* The steps, one lemma for each action whose effect on the view differs.  *)

\* A list that is opened asks for a refetch.
LEMMA SyncInit == Init => StreamOK /\ ViewInv
<1>. SUFFICES ASSUME Init PROVE StreamOK /\ ViewInv
  OBVIOUS
<1>1. fetch.at = "asked"
  BY DEF Init
<1>. QED  BY <1>1 DEF Init, StreamOK, ViewInv, FetchGood, CacheGood, SnapshotGood, Quiet

\* What a refetch reads is the table.
LEMMA SyncRead ==
  ASSUME Typed, Typed', ViewInv, ReadCounts \/ ReadItems
  PROVE  ViewInv'
<1>1. Expected' = Expected /\ UNCHANGED <<table, causes>>
  BY DEF ReadCounts, ReadItems, backend, channel, Expected, Hinted, ReloadDue
<1>2. fetch'.at # "idle"
  BY DEF ReadCounts, ReadItems, Typed, FetchOK, Fetch
<1>3. \A ms : ~Quiet(ms)'
  BY <1>2 DEF Quiet
<1>4. FetchGood'
  <2>1. OpenIn(View(table))' = OpenIn(View(table)) /\ View(table)' = View(table)
    BY <1>1 DEF OpenIn, View
  <2>2. ASSUME ReadCounts PROVE FetchGood'
    BY <1>1, <2>1, <2>2 DEF ReadCounts, FetchGood, Typed, FetchOK, Fetch
  <2>3. ASSUME ReadItems PROVE FetchGood'
    BY <1>1, <2>1, <2>3 DEF ReadItems, FetchGood, ViewInv, Typed, FetchOK, Fetch
  <2>. QED  BY <2>2, <2>3
<1>. QED  BY <1>3, <1>4 DEF ViewInv, CacheGood, SnapshotGood

\* ... and so is the cache once the refetch has answered.
LEMMA SyncAnswer ==
  ASSUME Typed, Typed', ViewInv, FetchAnswered
  PROVE  ViewInv'
<1>1. /\ UNCHANGED <<table, owed, channel>> /\ fetch'.at = "idle" /\ fetch.at = "read"
      /\ causes' = causes \ fetch.cures
      /\ cache'.rows = fetch.rows /\ cache'.open = fetch.open
  BY FixedTypes DEF FetchAnswered, backend
<1>2. \A n \in Slots : mut'[n].at = mut[n].at /\ (n \in Busy => mut'[n].touched)
  BY TouchedType DEF FetchAnswered, Typed, TypeOK
<1>3. Expected' = Expected
  BY <1>1, <1>2 DEF channel, Expected, Hinted, ReloadDue
<1>4. ASSUME ~Expected, causes' = {} PROVE Current(cache)'
  <2>1. fetch.open = OpenIn(View(table)) /\ fetch.rows = View(table)
    BY <1>1, <1>4 DEF ViewInv, FetchGood
  <2>. QED  BY <1>1, <2>1 DEF Current, View, OpenIn
<1>5. CacheGood'
  BY <1>3, <1>4 DEF CacheGood, Quiet
<1>6. \A n \in Slots : SnapshotGood(n)'
  BY <1>2 DEF SnapshotGood, Busy
<1>7. FetchGood'
  BY <1>1 DEF FetchGood
<1>. QED  BY <1>5, <1>6, <1>7 DEF ViewInv

\* A refetch that fails is a cause of staleness.
LEMMA SyncFail ==
  ASSUME Typed, Typed', FetchFailed
  PROVE  ViewInv'
<1>1. Loud'
  BY FixedTypes DEF FetchFailed, Loud
<1>. QED  BY <1>1, LoudIsFine

\* The stream: an error makes a reload due, and the open that follows asks for it.
LEMMA SyncStream ==
  ASSUME Typed, Typed', StreamOK, ViewInv,
         Subscribed \/ HandleOpen \/ HandleMessage \/ HandleError
           \/ Break \/ HandleRefusal \/ Revisit
  PROVE  StreamOK' /\ ViewInv'
<1>1. StreamOK'
  <2>1. ASSUME Break PROVE StreamOK'
    <3>1. /\ awaiting \in BOOLEAN /\ stream' = stream
          /\ awaiting' = (awaiting \/ stream = "connecting")
      BY <2>1 DEF Break, Typed, TypeOK
    <3>2. CASE stream = "connecting"
      BY <3>1, <3>2 DEF StreamOK
    <3>3. CASE stream # "connecting"
      BY <3>1, <3>3 DEF StreamOK
    <3>. QED  BY <3>2, <3>3
  <2>. QED  BY <2>1 DEF StreamOK, Subscribed, HandleOpen, HandleMessage, HandleError,
                        HandleRefusal, Revisit
<1>2. ASSUME Subscribed PROVE ViewInv'
  <2>1. Still
    BY <1>2 DEF Subscribed, Still, Expected, Hinted, ReloadDue, backend
  <2>. QED  BY <2>1, StillIsFine
<1>3. ASSUME HandleOpen PROVE ViewInv'
  <2>1. CASE awaiting
    <3>1. Loud'
      BY <1>3, <2>1, AskedIsLoud DEF HandleOpen
    <3>. QED  BY <3>1, LoudIsFine
  <2>2. CASE ~awaiting
    <3>1. Still
      BY <1>3, <2>2 DEF HandleOpen, Still, Expected, Hinted, ReloadDue, backend
    <3>. QED  BY <3>1, StillIsFine
  <2>. QED  BY <2>1, <2>2
<1>4. ASSUME HandleMessage PROVE ViewInv'
  <2>1. CASE Head(buffer) = "this"
    <3>1. Loud'
      BY <1>4, <2>1, AskedIsLoud DEF HandleMessage
    <3>. QED  BY <3>1, LoudIsFine
  <2>2. CASE Head(buffer) # "this"
    <3>1. buffer \in Seq(Topic) /\ buffer # <<>> /\ buffer' = Tail(buffer)
      BY <1>4 DEF HandleMessage, Typed, TypeOK
    <3>2. Len(buffer) \in Nat /\ Len(buffer') = Len(buffer) - 1 /\ buffer[1] # "this"
      BY <2>2, <3>1
    <3>3. \A k \in 1..Len(buffer') : buffer'[k] = buffer[k + 1]
      BY <3>1, <3>2
    <3>4. ASSUME Hinted PROVE Hinted'
      <4>1. PICK k \in 1..Len(buffer) : buffer[k] = "this"
        BY <3>4 DEF Hinted
      <4>2. k - 1 \in 1..Len(buffer') /\ buffer'[k - 1] = "this"
        BY <3>2, <3>3, <4>1
      <4>. QED  BY <4>2 DEF Hinted
    <3>5. ASSUME Hinted' PROVE Hinted
      <4>1. PICK k \in 1..Len(buffer') : buffer'[k] = "this"
        BY <3>5 DEF Hinted
      <4>2. k + 1 \in 1..Len(buffer) /\ buffer[k + 1] = "this"
        BY <3>2, <3>3, <4>1
      <4>. QED  BY <4>2 DEF Hinted
    <3>6. Expected' = Expected
      BY <1>4, <3>4, <3>5 DEF HandleMessage, Expected, ReloadDue, backend
    <3>7. Still
      BY <1>4, <2>2, <3>6 DEF HandleMessage, Still, backend
    <3>. QED  BY <3>7, StillIsFine
  <2>. QED  BY <2>1, <2>2
<1>5. ASSUME HandleError \/ Break \/ HandleRefusal PROVE ViewInv'
  <2>1. ReloadDue'
    BY <1>5 DEF HandleError, Break, HandleRefusal, ReloadDue, StreamOK, Typed, TypeOK
  <2>. QED  BY <2>1, LoudIsFine DEF Loud, Expected
<1>6. ASSUME Revisit PROVE ViewInv'
  <2>1. CASE fetch.at = "idle"
    <3>1. Loud'
      BY <1>6, <2>1, AskedIsLoud DEF Revisit
    <3>. QED  BY <3>1, LoudIsFine
  <2>2. CASE fetch.at \notin {"idle", "asked"} /\ (buffer # <<>> \/ ReloadDue)
    <3>1. Blame("late") /\ "late" \in Cause
      BY <1>6, <2>2 DEF Revisit, Cause
    <3>. QED  BY <3>1, BlameIsLoud, LoudIsFine
  <2>3. CASE fetch.at = "asked"
    <3>1. UNCHANGED fetch
      BY <1>6, <2>3 DEF Revisit
    <3>. QED  BY <2>3, <3>1, LoudIsFine DEF Loud
  <2>4. CASE fetch.at # "idle" /\ buffer = <<>> /\ ~ReloadDue
    <3>1. buffer' = <<>> /\ ~ReloadDue'
      BY <1>6 DEF Revisit, ReloadDue
    <3>2. Still
      BY <1>6, <2>4, <3>1 DEF Revisit, Still, Expected, Hinted, backend
    <3>. QED  BY <3>2, StillIsFine
  <2>. QED  BY <2>1, <2>2, <2>3, <2>4
<1>. QED  BY <1>1, <1>2, <1>3, <1>4, <1>5, <1>6

\* The others' changes: one that is committed is owed an event, and an event of
\* this list is loud.
LEMMA SyncMembers ==
  ASSUME Typed, Typed', StreamOK, ViewInv, Members
  PROVE  StreamOK' /\ ViewInv'
<1>1. StreamOK'
  BY DEF StreamOK, Members, Change, PublishChange, ChangeElsewhere, channel
<1>2. ASSUME Change PROVE ViewInv'
  <2>1. owed' > 0
    BY <1>2 DEF Change, Typed, TypeOK
  <2>. QED  BY <2>1, LoudIsFine DEF Loud, Expected
<1>3. ASSUME PublishChange PROVE ViewInv'
  <2>1. Loud'
    BY <1>3, HintIsLoud DEF PublishChange
  <2>. QED  BY <2>1, LoudIsFine
<1>4. ASSUME ChangeElsewhere PROVE ViewInv'
  <2>1. UNCHANGED <<causes, fetch>> /\ (buffer' = buffer \/ buffer' = Append(buffer, "other"))
    BY <1>4 DEF ChangeElsewhere, Emit
  <2>2. buffer \in Seq(Topic) /\ "other" \in Topic
    BY DEF Typed, TypeOK, Topic
  <2>3. Hinted' = Hinted
    BY <2>1, <2>2 DEF Hinted
  <2>4. Still
    BY <1>4, <2>1, <2>3 DEF ChangeElsewhere, Still, Expected, ReloadDue
  <2>. QED  BY <2>4, StillIsFine
<1>. QED  BY <1>1, <1>2, <1>3, <1>4 DEF Members

\* A tap on a view that shows the table may rely on it until the rows are touched.
LEMMA SyncTap ==
  ASSUME Typed, Typed', ViewInv, NEW m \in Slots, NEW op \in Ops, NEW i \in Items,
         Tap(m, op, i)
  PROVE  ViewInv'
<1>1. /\ fetch' = Idle /\ mut'[m].at = "mutate" /\ (~mut'[m].touched => fetch.at = "idle")
      /\ \A n \in Slots \ {m} : mut'[n] = mut[n]
  BY TypeTap
<1>2. mut[m].at = "free" /\ UNCHANGED <<backend, channel, cache, causes>>
  BY DEF Tap
<1>3. Expected' = Expected
  BY <1>1, <1>2 DEF Expected, Hinted, ReloadDue, backend, channel
<1>4. \A n \in Slots : Quiet({n})' => n = m
  BY <1>1 DEF Quiet, Ahead
<1>5. ~Quiet({})'
  BY <1>1 DEF Quiet, Ahead
<1>6. ASSUME fetch.at = "idle", Quiet({m})' PROVE Current(cache)'
  <2>1. \A n \in Slots : ~Ahead(n)
    BY <1>1, <1>2, <1>6 DEF Quiet, Ahead
  <2>2. Quiet({})
    BY <1>2, <1>3, <1>6, <2>1 DEF Quiet
  <2>3. Current(cache)
    BY <2>2 DEF ViewInv, CacheGood
  <2>. QED  BY <1>2, <2>3 DEF Current, View, OpenIn, backend
<1>7. \A n \in Slots : SnapshotGood(n)'
  BY <1>1, <1>4, <1>6 DEF SnapshotGood
<1>8. FetchGood'
  BY <1>1, FixedTypes DEF FetchGood
<1>. QED  BY <1>5, <1>7, <1>8 DEF ViewInv, CacheGood

\* Its snapshot is the cache before the optimistic change.
LEMMA SyncApply ==
  ASSUME Typed, Typed', ViewInv, NEW m \in Slots, Apply(m)
  PROVE  ViewInv'
<1>1. /\ mut'[m].at = "sent" /\ mut'[m].before = Snapshot(mut[m])
      /\ mut'[m].touched = mut[m].touched /\ mut'[m].op = mut[m].op
      /\ \A n \in Slots \ {m} : mut'[n].at = mut[n].at
  BY TypeApply
<1>2. mut[m].at = "mutate" /\ UNCHANGED <<backend, channel, fetch, causes>>
  BY DEF Apply
<1>3. Expected' = Expected
  BY <1>1, <1>2 DEF Expected, Hinted, ReloadDue, backend, channel
<1>4. \A n \in Slots : Quiet({n})' => n = m
  BY <1>1 DEF Quiet, Ahead
<1>5. ~Quiet({})'
  BY <1>1 DEF Quiet, Ahead
<1>6. ASSUME ~mut'[m].touched, mut'[m].op \notin {"delete", "restore"}, Quiet({m})'
      PROVE  Current(mut[m].before)'
  <2>1. Quiet({m})
    BY <1>1, <1>2, <1>3, <1>6 DEF Quiet, Ahead
  <2>2. Current(cache)
    BY <1>1, <1>2, <1>6, <2>1 DEF ViewInv, SnapshotGood
  <2>3. mut'[m].before = cache
    BY <1>1, <1>6 DEF Snapshot
  <2>. QED  BY <1>2, <2>2, <2>3 DEF Current, View, OpenIn, backend
<1>7. \A n \in Slots : SnapshotGood(n)'
  BY <1>1, <1>4, <1>6 DEF SnapshotGood
<1>8. FetchGood'
  BY <1>2, <1>3 DEF ViewInv, FetchGood, View, OpenIn, backend
<1>. QED  BY <1>5, <1>7, <1>8 DEF ViewInv, CacheGood

\* A committed tap is an expected hint; a refused one changes nothing yet.
LEMMA SyncCommit ==
  ASSUME Typed, Typed', ViewInv, NEW m \in Slots, Commit(m)
  PROVE  ViewInv'
<1>1. \A n \in Slots \ {m} : mut'[n] = mut[n]
  BY TypeCommit
<1>2. mut[m].at = "sent" /\ UNCHANGED <<owed, channel, cache, fetch, causes>>
  BY DEF Commit
<1>3. CASE mut'[m].at = "committed"
  BY <1>3, LoudIsFine DEF Loud, Expected
<1>4. CASE mut'[m].at = "refused" /\ UNCHANGED table
  <2>1. Expected' = Expected
    BY <1>1, <1>2, <1>4 DEF Expected, Hinted, ReloadDue, channel
  <2>2. \A n \in Slots : Quiet({n})' => n = m
    BY <1>1, <1>4 DEF Quiet, Ahead
  <2>3. ~Quiet({})'
    BY <1>1, <1>4 DEF Quiet, Ahead
  <2>4. \A n \in Slots : SnapshotGood(n)'
    BY <1>4, <2>2 DEF SnapshotGood
  <2>5. FetchGood'
    BY <1>2, <1>4, <2>1 DEF ViewInv, FetchGood, View, OpenIn
  <2>. QED  BY <2>3, <2>4, <2>5 DEF ViewInv, CacheGood
<1>. QED  BY <1>3, <1>4, TypeCommit

\* An event of one's own tap is loud like the others'.
LEMMA SyncPublish ==
  ASSUME Typed, Typed', NEW m \in Slots, PublishOwn(m)
  PROVE  ViewInv'
<1>1. Loud'
  BY HintIsLoud DEF PublishOwn
<1>. QED  BY <1>1, LoudIsFine

\* A tap that succeeds leaves the rows alone, but for a restore, which refetches.
LEMMA SyncSucceed ==
  ASSUME Typed, Typed', ViewInv, NEW m \in Slots, Succeed(m)
  PROVE  ViewInv'
<1>1. CASE mut[m].op \in {"delete", "restore"}
  <2>1. Loud'
    BY <1>1, AskedIsLoud DEF Succeed, Settle
  <2>. QED  BY <2>1, LoudIsFine
<1>2. CASE mut[m].op \notin {"delete", "restore"}
  <2>1. /\ mut' = [mut EXCEPT ![m] = Ended(mut[m])] /\ mut[m].at = "published"
        /\ UNCHANGED <<backend, channel, cache, fetch, causes>>
    BY <1>2 DEF Succeed, Settle
  <2>2. mut'[m].at = "done" /\ \A n \in Slots \ {m} : mut'[n] = mut[n]
    BY <2>1, EndedType DEF Typed, TypeOK
  <2>3. Expected' = Expected
    BY <2>1, <2>2 DEF Expected, Hinted, ReloadDue, backend, channel
  <2>4. \A ms : Quiet(ms)' = Quiet(ms)
    BY <2>1, <2>2, <2>3 DEF Quiet, Ahead
  <2>5. CacheGood' /\ FetchGood'
    BY <2>1, <2>3, <2>4 DEF ViewInv, CacheGood, FetchGood, Current, View, OpenIn, backend
  <2>6. \A n \in Slots : SnapshotGood(n)'
    BY <2>1, <2>2, <2>4 DEF ViewInv, SnapshotGood, Current, View, OpenIn, backend
  <2>. QED  BY <2>5, <2>6 DEF ViewInv
<1>. QED  BY <1>1, <1>2

\* A refused tap refetches.
LEMMA SyncRefused ==
  ASSUME Typed, Typed', NEW m \in Slots, Refused(m)
  PROVE  ViewInv'
<1>1. Loud'
  BY AskedIsLoud DEF Refused
<1>. QED  BY <1>1, LoudIsFine

\* A rollback refetches, leaves a cause, or writes a snapshot nothing has touched.
LEMMA SyncRollBack ==
  ASSUME Typed, Typed', ViewInv, NEW m \in Slots, RollBack(m)
  PROVE  ViewInv'
<1>1. CASE mut[m].op \in {"delete", "restore"}
  <2>1. Loud'
    BY <1>1, AskedIsLoud DEF RollBack
  <2>. QED  BY <2>1, LoudIsFine
<1>2. CASE mut[m].op \notin {"delete", "restore"} /\ (mut[m].touched \/ mut[m].at = "published")
  <2>1. Blame("rollback") /\ "rollback" \in Cause
    BY <1>2 DEF RollBack, Cause
  <2>. QED  BY <2>1, BlameIsLoud, LoudIsFine
<1>3. CASE mut[m].op \notin {"delete", "restore"} /\ ~mut[m].touched /\ mut[m].at = "sent"
  <2>1. /\ cache' = mut[m].before /\ Touch(m, Ended(mut[m]))
        /\ UNCHANGED <<backend, channel, fetch, causes>>
    BY <1>3 DEF RollBack
  <2>2. mut'[m].at = "done"
        /\ \A n \in Slots \ {m} : mut'[n].at = mut[n].at /\ (n \in Busy => mut'[n].touched)
    BY <2>1, EndedType, TouchKeeps DEF Typed, TypeOK
  <2>3. Expected' = Expected
    BY <1>3, <2>1, <2>2 DEF Expected, Hinted, ReloadDue, backend, channel
  <2>4. CacheGood'
    <3>1. ASSUME Quiet({})' PROVE Quiet({m})
      BY <2>1, <2>2, <2>3, <3>1 DEF Quiet, Ahead
    <3>2. ASSUME Quiet({m}) PROVE Current(mut[m].before)
      BY <1>3, <3>2 DEF ViewInv, SnapshotGood
    <3>. QED  BY <2>1, <3>1, <3>2 DEF CacheGood, Current, View, OpenIn, backend
  <2>5. \A n \in Slots : SnapshotGood(n)'
    BY <2>2 DEF SnapshotGood, Busy
  <2>6. FetchGood'
    BY <2>1, <2>3 DEF ViewInv, FetchGood, View, OpenIn, backend
  <2>. QED  BY <2>4, <2>5, <2>6 DEF ViewInv
<1>4. mut[m].at \in {"sent", "published"}
  BY DEF RollBack
<1>. QED  BY <1>1, <1>2, <1>3, <1>4

-----------------------------------------------------------------------------
(* The theorems.                                                           *)

\* The two parts of the invariant that are not types, by the actions.
LEMMA SyncStep ==
  ASSUME Typed, Typed', StreamOK, ViewInv, [Next]_vars
  PROVE  StreamOK' /\ ViewInv'
<1>1. ASSUME UNCHANGED vars PROVE StreamOK' /\ ViewInv'
  <2>1. Still
    BY <1>1 DEF vars, backend, channel, Still, Expected, Hinted, ReloadDue
  <2>. QED  BY <1>1, <2>1, StillIsFine DEF vars, channel, StreamOK
<1>2. ASSUME ReadCounts \/ ReadItems \/ FetchAnswered \/ FetchFailed
      PROVE  StreamOK' /\ ViewInv'
  <2>1. StreamOK'
    BY <1>2 DEF StreamOK, ReadCounts, ReadItems, FetchAnswered, FetchFailed, channel
  <2>. QED  BY <1>2, <2>1, SyncRead, SyncAnswer, SyncFail
<1>3. ASSUME Subscribed \/ HandleOpen \/ HandleMessage \/ HandleError
               \/ Break \/ HandleRefusal \/ Revisit
      PROVE  StreamOK' /\ ViewInv'
  BY <1>3, SyncStream
<1>4. ASSUME Members PROVE StreamOK' /\ ViewInv'
  BY <1>4, SyncMembers
<1>5. ASSUME NEW m \in Slots, Work(m) \/ RollBack(m) PROVE StreamOK' /\ ViewInv'
  <2>1. StreamOK'
    BY <1>5 DEF StreamOK, Work, Apply, Commit, PublishOwn, Succeed, Refused, RollBack, channel
  <2>. QED  BY <1>5, <2>1, SyncApply, SyncCommit, SyncPublish, SyncSucceed, SyncRefused,
            SyncRollBack DEF Work
<1>6. ASSUME NEW m \in Slots, NEW op \in Ops, NEW i \in Items, Tap(m, op, i)
      PROVE  StreamOK' /\ ViewInv'
  <2>1. StreamOK'
    BY <1>6 DEF StreamOK, Tap, channel
  <2>. QED  BY <1>6, <2>1, SyncTap
<1>. QED  BY <1>1, <1>2, <1>3, <1>4, <1>5, <1>6 DEF Next, Client, Troubles

\* The inductive invariant of the view holds in every reachable state: no order of
\* taps, answers, hints, refetches and reconnects breaks what a refetch has read, a
\* cache at rest shows, or an untouched snapshot is worth.
THEOREM ViewSafe == Spec => []LiveInv
<1>1. Init => LiveInv
  BY TypeInit, SyncInit DEF LiveInv, SyncInv, ViewInv
<1>2. LiveInv /\ [Next]_vars => LiveInv'
  <2>. SUFFICES ASSUME LiveInv, [Next]_vars PROVE LiveInv'
    OBVIOUS
  <2>1. Typed /\ StreamOK /\ ViewInv
    BY DEF LiveInv, SyncInv, ViewInv
  <2>2. Typed'
    BY <2>1, TypeStep
  <2>3. StreamOK' /\ ViewInv'
    BY <2>1, <2>2, SyncStep
  <2>. QED  BY <2>2, <2>3 DEF LiveInv, SyncInv, ViewInv
<1>. QED  BY <1>1, <1>2, PTL DEF Spec

\* The types hold for any number of items and taps and any buffer: the broker's
\* buffer keeps its bound, and a refetch claims to cure only causes that stand.
THEOREM ViewTypes == Spec => []TypeOK
<1>1. LiveInv => TypeOK
  BY DEF LiveInv, Typed
<1>. QED  BY <1>1, ViewSafe, PTL

\* A view at rest shows what the server has, rows and count, apart from the four
\* named causes, however taps, hints, refetches and reconnects were ordered.
THEOREM ViewAtRestInSync == Spec => []RestsInSync
<1>1. ASSUME LiveInv, AtRest, causes = {} PROVE InSync
  <2>1. /\ stream = "open" /\ wire /\ buffer = <<>> /\ fetch.at = "idle" /\ owed = 0
        /\ \A m \in Slots : mut[m].at \in {"free", "done"}
    BY <1>1 DEF AtRest, Busy
  <2>2. ~Expected
    BY <1>1, <2>1 DEF Expected, Hinted, ReloadDue, LiveInv, SyncInv, StreamOK
  <2>3. Quiet({})
    BY <1>1, <2>1, <2>2 DEF Quiet, Ahead
  <2>. QED  BY <1>1, <2>3 DEF LiveInv, SyncInv, CacheGood, Current, InSync
<1>2. LiveInv => RestsInSync
  BY <1>1 DEF RestsInSync
<1>. QED  BY <1>2, ViewSafe, PTL
=============================================================================
