--------------------------- MODULE UndoQueueProofs ---------------------------
(* Theorems about UndoQueue: for any lists, any number of clicks, hints and  *)
(* visits.                                                                   *)
EXTENDS UndoQueue, TLAPS, SequenceTheorems, FunctionTheorems, FiniteSetTheorems

-----------------------------------------------------------------------------
(* The inductive invariant.                                                *)

\* Of a removal only what decides it is typed; its index comes from the rows.
Shape(x) ==
  x = [list |-> x.list, at |-> x.at, view |-> x.view, index |-> x.index, timer |-> x.timer,
       stale |-> x.stale, commits |-> x.commits, undone |-> x.undone]

\* The DELETE is sent once at most, and only of what is not undone.
Decided(x) ==
  \/ x.at \in {"unused", "awaiting"} /\ x.commits = 0 /\ x.undone = FALSE /\ x.timer = FALSE
  \/ x.at = "open" /\ x.commits = 0 /\ x.undone = FALSE /\ x.timer = TRUE
  \/ x.at \in {"deleting", "deleted"} /\ x.commits = 1 /\ x.undone = FALSE /\ x.timer = FALSE
  \/ x.at = "undone" /\ x.commits = 0 /\ x.undone = TRUE /\ x.timer = FALSE

\* What the hook's maps hold is open, and has its timer.
Held(map) ==
  /\ DOMAIN map = Lists
  /\ \A l \in Lists : map[l] # 0 => /\ map[l] \in Removals
                                    /\ removal[map[l]].at = "open" /\ removal[map[l]].list = l

UndoInv ==
  /\ DOMAIN removal = Removals
  /\ \A r \in Removals : Shape(removal[r]) /\ Decided(removal[r])
  /\ \A r \in Removals : removal[r].at # "unused" => removal[r].list \in Lists
  /\ Held(entries) /\ Held(restores) /\ restores = entries

-----------------------------------------------------------------------------
(* What the steps make of a removal.                                       *)

\* A removal is its eight fields.
LEMMA Fields ==
  ASSUME NEW x, Shape(x)
  PROVE  \E l, a, v, i, t, s, c, u :
           x = [list |-> l, at |-> a, view |-> v, index |-> i, timer |-> t,
                stale |-> s, commits |-> c, undone |-> u]
BY Zenon DEF Shape

\* The ghost mark decides nothing.
LEMMA MarkForm ==
  ASSUME NEW x, Shape(x), Decided(x), NEW m, NEW y, y = [x EXCEPT !.stale = m]
  PROVE  Shape(y) /\ Decided(y) /\ y.at = x.at /\ y.list = x.list
<1>1. PICK l, a, v, i, t, s, c, u :
        x = [list |-> l, at |-> a, view |-> v, index |-> i, timer |-> t,
             stale |-> s, commits |-> c, undone |-> u]
  BY Fields
<1>2. y = [list |-> l, at |-> a, view |-> v, index |-> i, timer |-> t,
           stale |-> m, commits |-> c, undone |-> u]
  BY <1>1
<1>. QED  BY <1>1, <1>2 DEF Shape, Decided

\* A removal whose timer runs is sent, for the first time.
LEMMA CommitForm ==
  ASSUME NEW x, Shape(x), Decided(x), x.at = "open", NEW y, y = Committed(x)
  PROVE  Shape(y) /\ Decided(y) /\ y.at = "deleting" /\ y.list = x.list
<1>1. PICK l, a, v, i, t, s, c, u :
        x = [list |-> l, at |-> a, view |-> v, index |-> i, timer |-> t,
             stale |-> s, commits |-> c, undone |-> u]
  BY Fields
<1>2. x.commits = 0 /\ c = 0
  BY <1>1 DEF Decided
<1>3. PICK n : n = IF x.commits = 2 THEN 2 ELSE x.commits + 1
  OBVIOUS
<1>4. n = 1
  BY <1>2, <1>3
<1>5. y = [x EXCEPT !.at = "deleting", !.timer = FALSE, !.commits = n]
  BY <1>3 DEF Committed
<1>6. y = [list |-> l, at |-> "deleting", view |-> v, index |-> i, timer |-> FALSE,
           stale |-> s, commits |-> 1, undone |-> u]
  BY <1>1, <1>4, <1>5
<1>. QED  BY <1>1, <1>2, <1>6 DEF Shape, Decided

\* An undo takes the timer with it.
LEMMA UndoForm ==
  ASSUME NEW x, Shape(x), Decided(x), x.at = "open",
         NEW y, y = [x EXCEPT !.at = "undone", !.timer = FALSE, !.undone = TRUE]
  PROVE  Shape(y) /\ Decided(y) /\ y.at = "undone" /\ y.list = x.list
<1>1. PICK l, a, v, i, t, s, c, u :
        x = [list |-> l, at |-> a, view |-> v, index |-> i, timer |-> t,
             stale |-> s, commits |-> c, undone |-> u]
  BY Fields
<1>2. y = [list |-> l, at |-> "undone", view |-> v, index |-> i, timer |-> FALSE,
           stale |-> s, commits |-> c, undone |-> TRUE]
  BY <1>1
<1>. QED  BY <1>1, <1>2 DEF Shape, Decided

\* A click takes a removal that is not in use.
Clicked(x, k, w) == [x EXCEPT !.list = k, !.at = "awaiting", !.view = w]

LEMMA ClickForm ==
  ASSUME NEW x, Shape(x), Decided(x), x.at = "unused", NEW k, NEW w,
         NEW y, y = Clicked(x, k, w)
  PROVE  Shape(y) /\ Decided(y)
<1>1. PICK l, a, v, i, t, s, c, u :
        x = [list |-> l, at |-> a, view |-> v, index |-> i, timer |-> t,
             stale |-> s, commits |-> c, undone |-> u]
  BY Fields
<1>2. y = [list |-> k, at |-> "awaiting", view |-> w, index |-> i, timer |-> t,
           stale |-> s, commits |-> c, undone |-> u]
  BY <1>1 DEF Clicked
<1>. QED  BY <1>1, <1>2 DEF Shape, Decided

\* ... and its await ends with a timer.
LEMMA ScheduleForm ==
  ASSUME NEW x, Shape(x), Decided(x), x.at = "awaiting", NEW k,
         NEW y, y = [x EXCEPT !.at = "open", !.index = k, !.timer = TRUE, !.view = 0]
  PROVE  Shape(y) /\ Decided(y) /\ y.at = "open" /\ y.list = x.list
<1>1. PICK l, a, v, i, t, s, c, u :
        x = [list |-> l, at |-> a, view |-> v, index |-> i, timer |-> t,
             stale |-> s, commits |-> c, undone |-> u]
  BY Fields
<1>2. y = [list |-> l, at |-> "open", view |-> 0, index |-> k, timer |-> TRUE,
           stale |-> s, commits |-> c, undone |-> u]
  BY <1>1
<1>. QED  BY <1>1, <1>2 DEF Shape, Decided

\* The answer to a DELETE decides nothing more.
LEMMA AnswerForm ==
  ASSUME NEW x, Shape(x), Decided(x), x.at = "deleting",
         NEW y, y = [x EXCEPT !.at = "deleted"]
  PROVE  Shape(y) /\ Decided(y) /\ y.at = "deleted" /\ y.list = x.list
<1>1. PICK l, a, v, i, t, s, c, u :
        x = [list |-> l, at |-> a, view |-> v, index |-> i, timer |-> t,
             stale |-> s, commits |-> c, undone |-> u]
  BY Fields
<1>2. y = [list |-> l, at |-> "deleted", view |-> v, index |-> i, timer |-> t,
           stale |-> s, commits |-> c, undone |-> u]
  BY <1>1
<1>. QED  BY <1>1, <1>2 DEF Shape, Decided

\* One removal moves on; what the maps still hold stays open.
LEMMA OneMoves ==
  ASSUME UndoInv, NEW r \in Removals, NEW y, Shape(y), Decided(y),
         y.at # "unused" => y.list \in Lists,
         removal' = [removal EXCEPT ![r] = y]
  PROVE  /\ DOMAIN removal' = Removals /\ removal'[r] = y
         /\ \A q \in Removals \ {r} : removal'[q] = removal[q]
         /\ \A q \in Removals : Shape(removal[q])' /\ Decided(removal[q])'
         /\ \A q \in Removals : removal'[q].at # "unused" => removal'[q].list \in Lists
<1>1. /\ DOMAIN removal' = Removals /\ removal'[r] = y
      /\ \A q \in Removals \ {r} : removal'[q] = removal[q]
  BY DEF UndoInv
<1>2. ASSUME NEW q \in Removals PROVE Shape(removal'[q]) /\ Decided(removal'[q])
  BY <1>1, <1>2 DEF UndoInv
<1>3. ASSUME NEW q \in Removals, removal'[q].at # "unused" PROVE removal'[q].list \in Lists
  BY <1>1, <1>3 DEF UndoInv
<1>. QED  BY <1>1, <1>2, <1>3 DEF Shape, Decided

-----------------------------------------------------------------------------
(* The steps.                                                              *)

\* No removal is in use and the maps are empty.
LEMMA UndoInit == Init => UndoInv
<1>. SUFFICES ASSUME Init PROVE UndoInv
  OBVIOUS
<1>1. Shape(Unused) /\ Decided(Unused) /\ Unused.at = "unused"
  BY DEF Shape, Decided, Unused
<1>2. DOMAIN removal = Removals /\ \A r \in Removals : removal[r] = Unused
  BY DEF Init
<1>3. Held(entries) /\ Held(restores) /\ restores = entries
  BY DEF Init, Held
<1>. QED  BY <1>1, <1>2, <1>3 DEF UndoInv

\* Steps that leave the removals and the maps alone.
LEMMA SameKeeps ==
  ASSUME UndoInv, UNCHANGED <<removal, entries, restores>>
  PROVE  UndoInv'
BY DEF UndoInv, Shape, Decided, Held

\* A refetch marks the open removals.
LEMMA AnsweredKeeps ==
  ASSUME UndoInv, FetchAnswered
  PROVE  UndoInv'
<1>1. DOMAIN removal' = Removals
      /\ \A r \in Removals : removal'[r] = [removal[r] EXCEPT !.stale = @ \/ r \in Open]
  BY DEF FetchAnswered
<1>2. ASSUME NEW r \in Removals
      PROVE  /\ Shape(removal'[r]) /\ Decided(removal'[r])
             /\ removal'[r].at = removal[r].at /\ removal'[r].list = removal[r].list
  <2>1. PICK s : s = (removal[r].stale \/ r \in Open)
    OBVIOUS
  <2>2. removal'[r] = [removal[r] EXCEPT !.stale = s]
    BY <1>1, <2>1
  <2>3. Shape(removal[r]) /\ Decided(removal[r])
    BY DEF UndoInv
  <2>. QED  BY <2>2, <2>3, MarkForm
<1>3. Held(entries)' /\ Held(restores)' /\ (restores = entries)'
  BY <1>2 DEF FetchAnswered, UndoInv, Held
<1>4. \A r \in Removals : Shape(removal[r])' /\ Decided(removal[r])'
  BY <1>2 DEF Shape, Decided
<1>. QED  BY <1>1, <1>2, <1>3, <1>4 DEF UndoInv

\* A click only claims a removal.
LEMMA ClickKeeps ==
  ASSUME UndoInv, NEW r \in Removals, NEW l \in Lists, ClickDelete(r, l)
  PROVE  UndoInv'
<1>1. Shape(removal[r]) /\ Decided(removal[r]) /\ removal[r].at = "unused"
  BY DEF UndoInv, ClickDelete
<1>0. PICK y : y = Clicked(removal[r], l, visits)
  OBVIOUS
<1>2. Shape(y) /\ Decided(y) /\ y.at = "awaiting" /\ y.list = l
  <2>1. PICK x, k, w : x = removal[r] /\ k = l /\ w = visits
    OBVIOUS
  <2>2. y = Clicked(x, k, w)
    BY <1>0, <2>1, Zenon
  <2>3. Shape(x) /\ Decided(x) /\ x.at = "unused"
    BY <1>1, <2>1, Zenon
  <2>4. Shape(y) /\ Decided(y)
    BY <2>2, <2>3, ClickForm, Zenon
  <2>5. y.at = "awaiting" /\ y.list = k
    BY <2>2, <2>3 DEF Clicked, Shape
  <2>. QED  BY <2>1, <2>4, <2>5, Zenon
<1>3. removal' = [removal EXCEPT ![r] = y] /\ UNCHANGED <<entries, restores>>
  BY <1>0, <1>1 DEF ClickDelete, UndoInv, Clicked
<1>4. /\ DOMAIN removal' = Removals
      /\ \A q \in Removals \ {r} : removal'[q] = removal[q]
      /\ \A q \in Removals : Shape(removal[q])' /\ Decided(removal[q])'
      /\ \A q \in Removals : removal'[q].at # "unused" => removal'[q].list \in Lists
  BY <1>2, <1>3, OneMoves
<1>5. Held(entries)' /\ Held(restores)' /\ (restores = entries)'
  BY <1>1, <1>3, <1>4 DEF UndoInv, Held
<1>. QED  BY <1>4, <1>5 DEF UndoInv

\* What a view that is still there schedules, its maps hold.
LEMMA ScheduleKeeps ==
  ASSUME UndoInv, NEW r \in Removals, Schedule(r)
  PROVE  UndoInv'
<1>1. /\ Shape(removal[r]) /\ Decided(removal[r]) /\ removal[r].at = "awaiting"
      /\ removal[r].list \in Lists
  BY DEF UndoInv, Schedule
<1>2. PICK k : k = Position(removal[r].list)
  OBVIOUS
<1>0. PICK y : y = [removal[r] EXCEPT !.at = "open", !.index = k, !.timer = TRUE, !.view = 0]
  OBVIOUS
<1>3. Shape(y) /\ Decided(y) /\ y.at = "open" /\ y.list = removal[r].list
  <2>1. PICK x : x = removal[r]
    OBVIOUS
  <2>2. y = [x EXCEPT !.at = "open", !.index = k, !.timer = TRUE, !.view = 0]
    BY <1>0, <2>1, Zenon
  <2>3. Shape(x) /\ Decided(x) /\ x.at = "awaiting"
    BY <1>1, <2>1, Zenon
  <2>4. Shape(y) /\ Decided(y) /\ y.at = "open" /\ y.list = x.list
    BY <2>2, <2>3, ScheduleForm, Zenon
  <2>. QED  BY <2>1, <2>4, Zenon
<1>4. removal' = [removal EXCEPT ![r] = y]
  BY <1>0, <1>1, <1>2 DEF Schedule, UndoInv
<1>5. /\ DOMAIN removal' = Removals /\ removal'[r] = y
      /\ \A q \in Removals \ {r} : removal'[q] = removal[q]
      /\ \A q \in Removals : Shape(removal[q])' /\ Decided(removal[q])'
      /\ \A q \in Removals : removal'[q].at # "unused" => removal'[q].list \in Lists
  BY <1>1, <1>3, <1>4, OneMoves
<1>6. CASE UNCHANGED <<entries, restores>>
  <2>1. Held(entries)' /\ Held(restores)' /\ (restores = entries)'
    BY <1>1, <1>5, <1>6 DEF UndoInv, Held
  <2>. QED  BY <1>5, <2>1 DEF UndoInv
<1>7. CASE /\ entries' = [entries EXCEPT ![removal[r].list] = r]
           /\ restores' = [restores EXCEPT ![removal[r].list] = r]
  <2>1. Held(entries)' /\ Held(restores)' /\ (restores = entries)'
    BY <1>1, <1>3, <1>5, <1>7 DEF UndoInv, Held
  <2>. QED  BY <1>5, <2>1 DEF UndoInv
<1>. QED  BY <1>6, <1>7 DEF Schedule

\* The timer takes its removal out of the maps.
LEMMA TimerKeeps ==
  ASSUME UndoInv, NEW r \in Removals, TimerFires(r)
  PROVE  UndoInv'
<1>1. /\ Shape(removal[r]) /\ Decided(removal[r]) /\ removal[r].at = "open"
      /\ removal[r].list \in Lists
  BY DEF UndoInv, TimerFires, Decided
<1>. DEFINE y == Committed(removal[r])
<1>2. Shape(y) /\ Decided(y) /\ y.at = "deleting" /\ y.list = removal[r].list
  BY <1>1, CommitForm
<1>3. /\ removal' = [removal EXCEPT ![r] = y]
      /\ entries' = [entries EXCEPT ![removal[r].list] = IF @ = r THEN 0 ELSE @]
      /\ restores' = [restores EXCEPT ![removal[r].list] = IF @ = r THEN 0 ELSE @]
  BY DEF TimerFires, UndoInv
<1>. HIDE DEF y
<1>4. /\ DOMAIN removal' = Removals
      /\ \A q \in Removals \ {r} : removal'[q] = removal[q]
      /\ \A q \in Removals : Shape(removal[q])' /\ Decided(removal[q])'
      /\ \A q \in Removals : removal'[q].at # "unused" => removal'[q].list \in Lists
  BY <1>1, <1>2, <1>3, OneMoves
<1>5. Held(entries)'
  BY <1>1, <1>3, <1>4 DEF UndoInv, Held, Removals
<1>6. Held(restores)' /\ (restores = entries)'
  BY <1>1, <1>3, <1>4 DEF UndoInv, Held, Removals
<1>. QED  BY <1>4, <1>5, <1>6 DEF UndoInv

\* The Undo button takes an open removal, with its timer, out of the maps.
LEMMA UndoKeeps ==
  ASSUME UndoInv, NEW l \in Lists, Undo(l)
  PROVE  UndoInv'
<1>1. PICK r : r = restores[l]
  OBVIOUS
<1>2. /\ r \in Removals /\ removal[r].at = "open" /\ removal[r].list = l
      /\ Shape(removal[r]) /\ Decided(removal[r])
  BY <1>1 DEF Undo, UndoInv, Held
<1>3. /\ DOMAIN removal' = Removals
      /\ removal'[r] = [removal[r] EXCEPT !.at = "undone", !.timer = FALSE, !.undone = TRUE]
      /\ \A q \in Removals \ {r} :
           removal'[q] = [removal[q] EXCEPT !.stale = @ \/ (q > r /\ q \in Open)]
      /\ entries' = [entries EXCEPT ![l] = 0] /\ restores' = [restores EXCEPT ![l] = 0]
  BY <1>1, <1>2 DEF Undo
<1>4. ASSUME NEW q \in Removals \ {r}
      PROVE  /\ Shape(removal'[q]) /\ Decided(removal'[q])
             /\ removal'[q].at = removal[q].at /\ removal'[q].list = removal[q].list
  <2>1. PICK s : s = (removal[q].stale \/ (q > r /\ q \in Open))
    OBVIOUS
  <2>2. removal'[q] = [removal[q] EXCEPT !.stale = s]
    BY <1>3, <2>1
  <2>3. Shape(removal[q]) /\ Decided(removal[q])
    BY DEF UndoInv
  <2>. QED  BY <2>2, <2>3, MarkForm
<1>5. Shape(removal'[r]) /\ Decided(removal'[r]) /\ removal'[r].list = l
  BY <1>2, <1>3, UndoForm
<1>6. Held(entries)' /\ Held(restores)' /\ (restores = entries)'
  BY <1>2, <1>3, <1>4 DEF UndoInv, Held, Removals
<1>7. \A q \in Removals : Shape(removal[q])' /\ Decided(removal[q])'
  BY <1>4, <1>5 DEF Shape, Decided
<1>8. \A q \in Removals : removal'[q].at # "unused" => removal'[q].list \in Lists
  BY <1>4, <1>5 DEF UndoInv
<1>. QED  BY <1>3, <1>6, <1>7, <1>8 DEF UndoInv

\* The view that goes away commits what its maps hold, and they are empty.
LEMMA UnmountKeeps ==
  ASSUME UndoInv, Unmount
  PROVE  UndoInv'
<1>1. /\ DOMAIN removal' = Removals
      /\ \A r \in Removals : removal'[r] = IF \E l \in Lists : entries[l] = r
                                           THEN Committed(removal[r]) ELSE removal[r]
      /\ entries' = [l \in Lists |-> 0] /\ restores' = [l \in Lists |-> 0]
  BY DEF Unmount
<1>2. ASSUME NEW r \in Removals
      PROVE  /\ Shape(removal'[r]) /\ Decided(removal'[r])
             /\ removal'[r].at # "unused" => removal'[r].list \in Lists
  <2>1. Shape(removal[r]) /\ Decided(removal[r])
    BY DEF UndoInv
  <2>2. CASE \E l \in Lists : entries[l] = r
    <3>1. removal[r].at = "open"
      BY <2>2 DEF UndoInv, Held, Removals
    <3>. QED  BY <1>1, <2>1, <2>2, <3>1, CommitForm DEF UndoInv
  <2>3. CASE ~(\E l \in Lists : entries[l] = r)
    BY <1>1, <2>1, <2>3 DEF UndoInv
  <2>. QED  BY <2>2, <2>3
<1>3. Held(entries)' /\ Held(restores)' /\ (restores = entries)'
  BY <1>1 DEF Held
<1>4. \A r \in Removals : Shape(removal[r])' /\ Decided(removal[r])'
  BY <1>2 DEF Shape, Decided
<1>. QED  BY <1>1, <1>2, <1>3, <1>4 DEF UndoInv

\* The answers to a DELETE, good or bad.
LEMMA AnswerKeeps ==
  ASSUME UndoInv, NEW r \in Removals, Deleted(r) \/ DeleteFails(r)
  PROVE  UndoInv'
<1>1. /\ Shape(removal[r]) /\ Decided(removal[r]) /\ removal[r].at = "deleting"
      /\ removal[r].list \in Lists
  BY DEF UndoInv, Deleted, DeleteFails
<1>. DEFINE y == [removal[r] EXCEPT !.at = "deleted"]
<1>2. Shape(y) /\ Decided(y) /\ y.at = "deleted" /\ y.list = removal[r].list
  BY <1>1, AnswerForm
<1>3. removal' = [removal EXCEPT ![r] = y] /\ UNCHANGED <<entries, restores>>
  BY DEF Deleted, DeleteFails, UndoInv
<1>. HIDE DEF y
<1>4. /\ DOMAIN removal' = Removals
      /\ \A q \in Removals \ {r} : removal'[q] = removal[q]
      /\ \A q \in Removals : Shape(removal[q])' /\ Decided(removal[q])'
      /\ \A q \in Removals : removal'[q].at # "unused" => removal'[q].list \in Lists
  BY <1>1, <1>2, <1>3, OneMoves
<1>5. Held(entries)' /\ Held(restores)' /\ (restores = entries)'
  BY <1>1, <1>3, <1>4 DEF UndoInv, Held
<1>. QED  BY <1>4, <1>5 DEF UndoInv

-----------------------------------------------------------------------------
(* The theorems.                                                           *)

\* In every reachable state each removal is decided at most once, and what the
\* hook's maps hold is open with its timer.
THEOREM UndoSafe == Spec => []UndoInv
<1>1. UndoInv /\ [Next]_vars => UndoInv'
  <2>. SUFFICES ASSUME UndoInv, [Next]_vars PROVE UndoInv'
    OBVIOUS
  <2>1. ASSUME Hint \/ ReadLists \/ Mount \/ UNCHANGED vars PROVE UndoInv'
    BY <2>1, SameKeeps DEF Hint, ReadLists, Mount, vars
  <2>2. ASSUME FetchAnswered PROVE UndoInv'
    BY <2>2, AnsweredKeeps
  <2>3. ASSUME Unmount PROVE UndoInv'
    BY <2>3, UnmountKeeps
  <2>4. ASSUME NEW r \in Removals, Runs(r) PROVE UndoInv'
    BY <2>4, ScheduleKeeps, TimerKeeps, AnswerKeeps DEF Runs
  <2>5. ASSUME NEW r \in Removals, NEW l \in Lists, ClickDelete(r, l) PROVE UndoInv'
    BY <2>5, ClickKeeps
  <2>6. ASSUME NEW l \in Lists, Undo(l) PROVE UndoInv'
    BY <2>6, UndoKeeps
  <2>. QED  BY <2>1, <2>2, <2>3, <2>4, <2>5, <2>6 DEF Next
<1>. QED  BY <1>1, UndoInit, PTL DEF Spec

\* The timer, the Undo button and the view that goes away decide each removal at
\* most once: what was undone is never deleted and no DELETE is sent twice.  What
\* the hook's maps offer to undo still has its timer.
THEOREM RemovalDecidedOnce == Spec => []DecidedOnce
<1>1. UndoInv => DecidedOnce
  BY DEF UndoInv, Held, Removals, Decided, DecidedOnce
<1>. QED  BY <1>1, UndoSafe, PTL

-----------------------------------------------------------------------------
(* Listings: rows in the server's order.                                   *)

Place(l) == CHOOSE k \in DOMAIN Order : Order[k] = l

InOrder(rows) ==
  /\ rows \in Seq(Lists)
  /\ \A i, j \in 1..Len(rows) : i < j => Place(rows[i]) < Place(rows[j])

\* Of some lists, those in front of one.
Before(l, ls) == {k \in ls : Place(k) < Place(l)}

\* A list has one place.
LEMMA PlaceOf ==
  ASSUME NEW l \in Lists
  PROVE  Place(l) \in Nat /\ Place(l) \in DOMAIN Order /\ Order[Place(l)] = l
<1>1. \E k \in DOMAIN Order : Order[k] = l
  BY DEF Lists, Range
<1>2. Place(l) \in DOMAIN Order /\ Order[Place(l)] = l
  BY <1>1 DEF Place
<1>3. DOMAIN Order = 1..Len(Order) /\ Len(Order) \in Nat
  BY UndoAssumption
<1>. QED  BY <1>2, <1>3

\* ... and no two of them the same.
LEMMA PlacesDiffer ==
  ASSUME NEW k \in Lists, NEW l \in Lists, k # l
  PROVE  Place(k) < Place(l) \/ Place(l) < Place(k)
BY PlaceOf

\* The numbers up to n are n.
LEMMA UpTo ==
  ASSUME NEW n \in Nat
  PROVE  IsFiniteSet(1..n) /\ Cardinality(1..n) = n
<1>1. IsFiniteSet(1..n) /\ Cardinality(1..n) = IF 1 > n THEN 0 ELSE n - 1 + 1
  BY FS_Interval
<1>2. n - 1 + 1 = n /\ (1 > n => n = 0)
  OBVIOUS
<1>. QED  BY <1>1, <1>2

\* There are finitely many.
LEMMA FewLists == IsFiniteSet(Lists)
<1>1. DOMAIN Order = 1..Len(Order) /\ Len(Order) \in Nat /\ Order \in [1..Len(Order) -> Lists]
  BY UndoAssumption DEF Lists
<1>2. \A l \in Lists : \E k \in 1..Len(Order) : Order[k] = l
  BY PlaceOf, <1>1
<1>3. Order \in Surjection(1..Len(Order), Lists)
  BY <1>1, <1>2, Fun_IsSurj
<1>4. IsFiniteSet(1..Len(Order))
  BY <1>1, UpTo
<1>. QED  BY <1>3, <1>4, FS_Surjection

\* A listing has no row twice.
LEMMA RowsDiffer ==
  ASSUME NEW rows, InOrder(rows)
  PROVE  /\ rows \in [1..Len(rows) -> Lists] /\ Len(rows) \in Nat /\ DOMAIN rows = 1..Len(rows)
         /\ Range(rows) = {rows[i] : i \in 1..Len(rows)} /\ Range(rows) \subseteq Lists
         /\ \A i, j \in 1..Len(rows) : rows[i] = rows[j] => i = j
<1>1. /\ rows \in [1..Len(rows) -> Lists] /\ Len(rows) \in Nat /\ DOMAIN rows = 1..Len(rows)
  BY DEF InOrder
<1>2. Range(rows) = {rows[i] : i \in 1..Len(rows)} /\ Range(rows) \subseteq Lists
  BY <1>1 DEF Range
<1>3. ASSUME NEW i \in 1..Len(rows), NEW j \in 1..Len(rows), rows[i] = rows[j] PROVE i = j
  <2>1. Place(rows[i]) \in Nat
    BY <1>1, PlaceOf
  <2>2. ~(i < j) /\ ~(j < i)
    BY <1>3, <2>1 DEF InOrder
  <2>. QED  BY <1>1, <2>2
<1>. QED  BY <1>1, <1>2, <1>3

\* Where a row is tells how many come before it.
LEMMA RankOfRow ==
  ASSUME NEW rows, InOrder(rows), NEW i \in 1..Len(rows)
  PROVE  Cardinality(Before(rows[i], Range(rows))) = i - 1
<1>1. /\ rows \in [1..Len(rows) -> Lists] /\ Len(rows) \in Nat
      /\ Range(rows) = {rows[j] : j \in 1..Len(rows)}
      /\ \A j, k \in 1..Len(rows) : rows[j] = rows[k] => j = k
  BY RowsDiffer
<1>. DEFINE f == [j \in 1..(i - 1) |-> rows[j]]
            b == Before(rows[i], Range(rows))
<1>2. ASSUME NEW j \in 1..Len(rows) PROVE Place(rows[j]) < Place(rows[i]) <=> j < i
  <2>1. Place(rows[i]) \in Nat /\ Place(rows[j]) \in Nat
    BY <1>1, PlaceOf
  <2>2. j < i \/ j = i \/ i < j
    BY <1>1
  <2>. QED  BY <2>1, <2>2 DEF InOrder
<1>3. \A j \in 1..(i - 1) : j \in 1..Len(rows) /\ j < i
  BY <1>1
<1>4. f \in [1..(i - 1) -> b]
  BY <1>1, <1>2, <1>3 DEF Before
<1>5. \A j, k \in 1..(i - 1) : f[j] = f[k] => j = k
  BY <1>1, <1>3
<1>6. ASSUME NEW l \in b PROVE \E j \in 1..(i - 1) : f[j] = l
  <2>1. PICK j \in 1..Len(rows) : rows[j] = l
    BY <1>1 DEF Before
  <2>2. j < i
    BY <1>2, <2>1 DEF Before
  <2>3. j \in 1..(i - 1)
    BY <1>1, <2>2
  <2>. QED  BY <2>1, <2>3
<1>. HIDE DEF f, b
<1>7. f \in Bijection(1..(i - 1), b)
  BY <1>4, <1>5, <1>6, Fun_IsBij
<1>8. IsFiniteSet(1..(i - 1)) /\ Cardinality(1..(i - 1)) = i - 1
  <2>1. i - 1 \in Nat
    BY <1>1
  <2>. QED  BY <2>1, UpTo
<1>9. ExistsBijection(1..(i - 1), b)
  BY <1>7 DEF ExistsBijection
<1>10. Cardinality(b) = i - 1
  BY <1>8, <1>9, FS_Bijection
<1>. QED  BY <1>10 DEF b

\* A listing is as long as its lists are many.
LEMMA CountRows ==
  ASSUME NEW rows, InOrder(rows)
  PROVE  IsFiniteSet(Range(rows)) /\ Cardinality(Range(rows)) = Len(rows)
<1>1. /\ rows \in [1..Len(rows) -> Lists] /\ Len(rows) \in Nat
      /\ Range(rows) = {rows[j] : j \in 1..Len(rows)}
      /\ \A j, k \in 1..Len(rows) : rows[j] = rows[k] => j = k
  BY RowsDiffer
<1>2. PICK R : R = Range(rows)
  OBVIOUS
<1>3. rows \in [1..Len(rows) -> R] /\ \A l \in R : \E j \in 1..Len(rows) : rows[j] = l
  BY <1>1, <1>2
<1>4. rows \in Bijection(1..Len(rows), R)
  BY <1>1, <1>3, Fun_IsBij
<1>5. IsFiniteSet(1..Len(rows)) /\ Cardinality(1..Len(rows)) = Len(rows)
  BY <1>1, UpTo
<1>6. ExistsBijection(1..Len(rows), R)
  BY <1>4 DEF ExistsBijection
<1>. QED  BY <1>2, <1>5, <1>6, FS_Bijection

\* Two listings of the same lists are the same.
LEMMA OneListing ==
  ASSUME NEW s, NEW t, InOrder(s), InOrder(t), Range(s) = Range(t)
  PROVE  s = t
<1>1. /\ s \in [1..Len(s) -> Lists] /\ t \in [1..Len(t) -> Lists] /\ Len(s) \in Nat
      /\ Range(s) = {s[j] : j \in 1..Len(s)} /\ Range(t) = {t[j] : j \in 1..Len(t)}
  BY RowsDiffer
<1>2. Len(s) = Len(t)
  BY CountRows
<1>3. ASSUME NEW i \in 1..Len(s) PROVE s[i] = t[i]
  <2>1. PICK j \in 1..Len(t) : t[j] = s[i]
    BY <1>1
  <2>2. i - 1 = j - 1
    BY <2>1, RankOfRow
  <2>3. i = j
    BY <1>1, <1>2, <2>2
  <2>. QED  BY <2>1, <2>3
<1>. QED  BY <1>1, <1>2, <1>3

\* Put where it belongs, a list makes a listing of one more.
LEMMA PutInOrder ==
  ASSUME NEW rows, InOrder(rows), NEW l \in Lists, l \notin Range(rows),
         NEW k, k = Cardinality(Before(l, Range(rows))) + 1
  PROVE  /\ k \in 1..(Len(rows) + 1)
         /\ InOrder(InsertAt(rows, k, l)) /\ Range(InsertAt(rows, k, l)) = Range(rows) \cup {l}
<1>1. /\ rows \in [1..Len(rows) -> Lists] /\ Len(rows) \in Nat
      /\ Range(rows) = {rows[j] : j \in 1..Len(rows)} /\ Range(rows) \subseteq Lists
  BY RowsDiffer
<1>2. PICK R : R = Range(rows)
  OBVIOUS
<1>3. IsFiniteSet(R) /\ Cardinality(R) = Len(rows) /\ R \subseteq Lists
  BY <1>1, <1>2, CountRows
<1>4. /\ IsFiniteSet(Before(l, R))
      /\ Cardinality(Before(l, R)) \in Nat /\ Cardinality(Before(l, R)) <= Len(rows)
  <2>1. Before(l, R) \in SUBSET R
    BY DEF Before
  <2>2. IsFiniteSet(Before(l, R)) /\ Cardinality(Before(l, R)) <= Cardinality(R)
    BY <1>3, <2>1, FS_Subset
  <2>. QED  BY <1>3, <2>2, FS_CardinalityType
<1>5. k \in 1..(Len(rows) + 1)
  BY <1>1, <1>2, <1>4
<1>6. ASSUME NEW i \in 1..Len(rows)
      PROVE  /\ i < k => Place(rows[i]) < Place(l)
             /\ k <= i => Place(l) < Place(rows[i])
  <2>1. rows[i] \in R /\ rows[i] \in Lists /\ rows[i] # l
    BY <1>1, <1>2
  <2>2. Place(rows[i]) < Place(l) \/ Place(l) < Place(rows[i])
    BY <2>1, PlacesDiffer
  <2>3. Cardinality(Before(rows[i], R)) = i - 1
    BY <1>2, RankOfRow
  <2>4. /\ Place(l) \in Nat /\ Place(rows[i]) \in Nat
        /\ \A m \in R : Place(m) \in Nat
    BY <1>3, <2>1, PlaceOf
  <2>5. IsFiniteSet(Before(rows[i], R))
    <3>1. Before(rows[i], R) \in SUBSET R
      BY DEF Before
    <3>. QED  BY <1>3, <3>1, FS_Subset
  <2>6. CASE Place(rows[i]) < Place(l)
    <3>1. Before(rows[i], R) \cup {rows[i]} \in SUBSET Before(l, R)
      BY <2>1, <2>4, <2>6 DEF Before
    <3>2. rows[i] \notin Before(rows[i], R)
      BY <2>4 DEF Before
    <3>3. Cardinality(Before(rows[i], R) \cup {rows[i]}) = i - 1 + 1
      BY <2>3, <2>5, <3>2, FS_AddElement
    <3>4. Cardinality(Before(rows[i], R) \cup {rows[i]}) <= Cardinality(Before(l, R))
      BY <1>4, <3>1, FS_Subset
    <3>5. i < k
      BY <1>1, <1>2, <1>4, <3>3, <3>4
    <3>. QED  BY <1>1, <1>5, <2>6, <3>5
  <2>7. CASE Place(l) < Place(rows[i])
    <3>1. Before(l, R) \in SUBSET Before(rows[i], R)
      BY <2>4, <2>7 DEF Before
    <3>2. Cardinality(Before(l, R)) <= i - 1
      BY <2>3, <2>5, <3>1, FS_Subset
    <3>3. k <= i
      BY <1>1, <1>2, <1>4, <3>2
    <3>. QED  BY <1>1, <1>5, <2>7, <3>3
  <2>. QED  BY <2>2, <2>6, <2>7
<1>. DEFINE new == InsertAt(rows, k, l)
<1>7. /\ new \in Seq(Lists) /\ Len(new) = Len(rows) + 1
      /\ \A i \in 1..(Len(rows) + 1) :
           new[i] = IF i < k THEN rows[i] ELSE IF i = k THEN l ELSE rows[i - 1]
  <2>1. rows \in Seq(Lists)
    BY DEF InOrder
  <2>2. /\ SubSeq(rows, 1, k - 1) \in Seq(Lists) /\ Len(SubSeq(rows, 1, k - 1)) = k - 1
        /\ \A i \in 1..(k - 1) : SubSeq(rows, 1, k - 1)[i] = rows[i]
    BY <1>5, <2>1
  <2>3. /\ SubSeq(rows, k, Len(rows)) \in Seq(Lists)
        /\ Len(SubSeq(rows, k, Len(rows))) = Len(rows) - k + 1
        /\ \A i \in 1..(Len(rows) - k + 1) : SubSeq(rows, k, Len(rows))[i] = rows[k + i - 1]
    BY <1>5, <2>1
  <2>4. PICK a, b : a = SubSeq(rows, 1, k - 1) /\ b = SubSeq(rows, k, Len(rows))
    OBVIOUS
  <2>5. new = (a \o <<l>>) \o b
    BY <2>4 DEF InsertAt
  <2>6. PICK c : c = a \o <<l>>
    OBVIOUS
  <2>7. a \in Seq(Lists) /\ Len(a) = k - 1 /\ <<l>> \in Seq(Lists) /\ Len(<<l>>) = 1 /\ <<l>>[1] = l
    BY <2>2, <2>4
  <2>8. /\ c \in Seq(Lists) /\ Len(c) = k
        /\ \A i \in 1..k : c[i] = IF i < k THEN a[i] ELSE l
    <3>1. c \in Seq(Lists) /\ Len(c) = k - 1 + 1
      BY <2>6, <2>7, ConcatProperties
    <3>2. \A i \in 1..(k - 1 + 1) : c[i] = IF i <= k - 1 THEN a[i] ELSE <<l>>[i - (k - 1)]
      BY <2>6, <2>7, ConcatProperties
    <3>3. k - 1 + 1 = k /\ k - (k - 1) = 1 /\ \A i \in 1..k : i <= k - 1 <=> i < k
      BY <1>5
    <3>4. \A i \in 1..k : i < k \/ i = k
      BY <1>5
    <3>. QED  BY <2>7, <3>1, <3>2, <3>3, <3>4
  <2>9. b \in Seq(Lists) /\ Len(b) = Len(rows) - k + 1
    BY <2>3, <2>4
  <2>10. /\ new \in Seq(Lists) /\ Len(new) = Len(rows) + 1
         /\ \A i \in 1..(Len(rows) + 1) : new[i] = IF i <= k THEN c[i] ELSE b[i - k]
    <3>1. new = c \o b
      BY <2>5, <2>6
    <3>2. Len(c) + Len(b) = Len(rows) + 1
      <4>1. Len(c) = k /\ Len(b) = Len(rows) - k + 1
        BY <2>8, <2>9
      <4>2. k \in Int /\ Len(rows) \in Int
        BY <1>1, <1>5
      <4>. QED  BY <4>1, <4>2
    <3>3. /\ new \in Seq(Lists) /\ Len(new) = Len(c) + Len(b)
          /\ \A i \in 1..(Len(c) + Len(b)) : new[i] = IF i <= Len(c) THEN c[i] ELSE b[i - Len(c)]
      <4>. HIDE DEF new
      <4>. QED  BY <2>8, <2>9, <3>1, ConcatProperties
    <3>4. Len(c) = k
      BY <2>8
    <3>. HIDE DEF new
    <3>. QED  BY <3>2, <3>3, <3>4
  <2>. HIDE DEF new
  <2>11. ASSUME NEW i \in 1..(Len(rows) + 1)
         PROVE  new[i] = IF i < k THEN rows[i] ELSE IF i = k THEN l ELSE rows[i - 1]
    <3>1. CASE i < k
      <4>1. i \in 1..k /\ i \in 1..(k - 1) /\ i <= k
        BY <1>5, <3>1
      <4>. QED  BY <2>2, <2>4, <2>8, <2>10, <3>1, <4>1
    <3>2. CASE i = k
      <4>1. k \in 1..k /\ ~(k < k) /\ k <= k
        BY <1>5
      <4>. QED  BY <2>8, <2>10, <3>2, <4>1
    <3>3. CASE k < i
      <4>1. i - k \in 1..(Len(rows) - k + 1) /\ k + (i - k) - 1 = i - 1 /\ ~(i <= k) /\ ~(i < k) /\ i # k
        BY <1>1, <1>5, <3>3
      <4>2. b[i - k] = rows[i - 1]
        BY <2>3, <2>4, <4>1
      <4>. QED  BY <2>10, <4>1, <4>2
    <3>. QED  BY <1>5, <3>1, <3>2, <3>3
  <2>. QED  BY <2>10, <2>11
<1>. HIDE DEF new
<1>8. ASSUME NEW i \in 1..Len(new), NEW j \in 1..Len(new), i < j
      PROVE  Place(new[i]) < Place(new[j])
  <2>1. \A m, n \in 1..Len(rows) : m < n => Place(rows[m]) < Place(rows[n])
    BY DEF InOrder
  <2>3. CASE j < k
    <3>1. i \in 1..Len(rows) /\ j \in 1..Len(rows) /\ i < k
      BY <1>1, <1>5, <1>7, <1>8, <2>3
    <3>2. new[i] = rows[i] /\ new[j] = rows[j]
      BY <1>7, <2>3, <3>1
    <3>. QED  BY <1>8, <2>1, <3>1, <3>2
  <2>4. CASE j = k
    <3>1. i \in 1..Len(rows) /\ i < k
      BY <1>1, <1>5, <1>7, <1>8, <2>4
    <3>2. new[i] = rows[i] /\ new[j] = l
      BY <1>7, <2>4, <3>1
    <3>. QED  BY <1>6, <3>1, <3>2
  <2>5. CASE k < j /\ i < k
    <3>1. i \in 1..Len(rows) /\ j - 1 \in 1..Len(rows) /\ i < j - 1
      BY <1>1, <1>5, <1>7, <1>8, <2>5
    <3>2. new[i] = rows[i] /\ new[j] = rows[j - 1]
      BY <1>5, <1>7, <2>5
    <3>. QED  BY <2>1, <3>1, <3>2
  <2>6. CASE k < j /\ i = k
    <3>1. j - 1 \in 1..Len(rows) /\ k <= j - 1
      BY <1>1, <1>5, <1>7, <2>6
    <3>2. new[i] = l /\ new[j] = rows[j - 1]
      BY <1>5, <1>7, <2>6
    <3>. QED  BY <1>6, <3>1, <3>2
  <2>7. CASE k < j /\ k < i
    <3>1. i - 1 \in 1..Len(rows) /\ j - 1 \in 1..Len(rows) /\ i - 1 < j - 1
      BY <1>1, <1>5, <1>7, <1>8, <2>7
    <3>2. new[i] = rows[i - 1] /\ new[j] = rows[j - 1]
      BY <1>5, <1>7, <2>7
    <3>. QED  BY <2>1, <3>1, <3>2
  <2>8. i \in Int /\ j \in Int /\ k \in Int
    BY <1>5
  <2>. QED  BY <2>3, <2>4, <2>5, <2>6, <2>7, <2>8
<1>9. Range(new) = Range(rows) \cup {l}
  <2>1. Range(new) = {new[i] : i \in 1..(Len(rows) + 1)}
    BY <1>1, <1>7 DEF Range
  <2>2. ASSUME NEW m \in Range(new) PROVE m \in Range(rows) \cup {l}
    <3>1. PICK i \in 1..(Len(rows) + 1) : new[i] = m
      BY <2>1
    <3>2. i < k => i \in 1..Len(rows)
      BY <1>1, <1>5
    <3>3. k < i => i - 1 \in 1..Len(rows)
      BY <1>1, <1>5
    <3>. QED  BY <1>1, <1>5, <1>7, <3>1, <3>2, <3>3
  <2>3. l \in Range(new)
    BY <1>1, <1>5, <1>7, <2>1
  <2>4. ASSUME NEW m \in Range(rows) PROVE m \in Range(new)
    <3>1. PICK i \in 1..Len(rows) : rows[i] = m
      BY <1>1
    <3>2. CASE i < k
      BY <1>1, <1>5, <1>7, <2>1, <3>1, <3>2
    <3>3. CASE k <= i
      <4>1. i + 1 \in 1..(Len(rows) + 1) /\ ~(i + 1 < k) /\ i + 1 # k /\ i + 1 - 1 = i
        BY <1>1, <1>5, <3>3
      <4>2. new[i + 1] = rows[i]
        BY <1>7, <4>1
      <4>. QED  BY <2>1, <3>1, <4>1, <4>2
    <3>. QED  BY <1>1, <1>5, <3>2, <3>3
  <2>. QED  BY <2>2, <2>3, <2>4
<1>10. InOrder(new)
  BY <1>7, <1>8 DEF InOrder
<1>. QED  BY <1>5, <1>9, <1>10 DEF new

\* Of some numbers, those up to one of them.
Until(at, k) == {j \in at : j <= k}

\* They are the more the greater it is.
LEMMA UntilRises ==
  ASSUME NEW at \in SUBSET Nat, IsFiniteSet(at), NEW k \in at
  PROVE  /\ Cardinality(Until(at, k)) \in 1..Cardinality(at)
         /\ \A i \in at : i < k => Cardinality(Until(at, i)) < Cardinality(Until(at, k))
<1>1. ASSUME NEW i \in at
      PROVE  /\ Until(at, i) \in SUBSET at /\ IsFiniteSet(Until(at, i))
             /\ Cardinality(Until(at, i)) \in Nat /\ Cardinality(Until(at, i)) <= Cardinality(at)
  <2>1. Until(at, i) \in SUBSET at
    BY DEF Until
  <2>2. IsFiniteSet(Until(at, i)) /\ Cardinality(Until(at, i)) <= Cardinality(at)
    BY <2>1, FS_Subset
  <2>. QED  BY <2>1, <2>2, FS_CardinalityType
<1>2. Until(at, k) # {}
  BY DEF Until
<1>3. Cardinality(Until(at, k)) # 0
  BY <1>1, <1>2, FS_EmptySet
<1>4. ASSUME NEW i \in at, i < k
      PROVE  Cardinality(Until(at, i)) < Cardinality(Until(at, k))
  <2>1. Until(at, i) \cup {k} \in SUBSET Until(at, k) /\ k \notin Until(at, i)
    <3>1. i \in Nat /\ k \in Nat /\ \A j \in at : j \in Nat
      OBVIOUS
    <3>2. \A j \in at : j <= i => j <= k
      BY <1>4, <3>1
    <3>3. k <= k /\ ~(k <= i)
      BY <1>4, <3>1
    <3>. QED  BY <3>2, <3>3 DEF Until
  <2>2. Cardinality(Until(at, i) \cup {k}) = Cardinality(Until(at, i)) + 1
    BY <1>1, <2>1, FS_AddElement
  <2>3. Cardinality(Until(at, i) \cup {k}) <= Cardinality(Until(at, k))
    BY <1>1, <2>1, FS_Subset
  <2>. QED  BY <1>1, <2>2, <2>3
<1>5. Cardinality(at) \in Nat
  BY FS_CardinalityType
<1>. QED  BY <1>1, <1>3, <1>4, <1>5

\* So each count up to the last belongs to one of them.
LEMMA CountsMet ==
  ASSUME NEW at \in SUBSET Nat, IsFiniteSet(at), NEW n \in 1..Cardinality(at)
  PROVE  \E k \in at : Cardinality(Until(at, k)) = n
<1>. DEFINE f == [k \in at |-> Cardinality(Until(at, k))]
<1>1. f \in [at -> 1..Cardinality(at)]
  BY UntilRises
<1>2. ASSUME NEW i \in at, NEW k \in at, f[i] = f[k] PROVE i = k
  <2>1. f[i] \in Nat /\ f[k] \in Nat
    BY <1>1
  <2>2. ~(i < k) /\ ~(k < i)
    BY <1>2, <2>1, UntilRises
  <2>. QED  BY <2>2
<1>3. f \in Injection(at, 1..Cardinality(at))
  <2>. HIDE DEF f
  <2>. QED  BY <1>1, <1>2, Fun_IsInj
<1>4. Cardinality(at) \in Nat
  BY FS_CardinalityType
<1>5. IsFiniteSet(1..Cardinality(at)) /\ Cardinality(1..Cardinality(at)) = Cardinality(at)
  BY <1>4, UpTo
<1>6. f \in Surjection(at, 1..Cardinality(at))
  <2>. HIDE DEF f
  <2>. QED  BY <1>3, <1>5, FS_Injection
<1>7. \E k \in at : f[k] = n
  <2>. HIDE DEF f
  <2>1. \A t \in 1..Cardinality(at) : \E s \in at : f[s] = t
    BY <1>6, Fun_SurjectionProperties
  <2>. QED  BY <2>1
<1>. QED  BY <1>7

\* Some rows of a listing are a listing.
LEMMA ThoseInOrder ==
  ASSUME NEW rows, InOrder(rows), NEW ls
  PROVE  InOrder(Those(rows, ls)) /\ Range(Those(rows, ls)) = Range(rows) \cap ls
<1>1. /\ rows \in [1..Len(rows) -> Lists] /\ Len(rows) \in Nat /\ DOMAIN rows = 1..Len(rows)
      /\ Range(rows) = {rows[j] : j \in 1..Len(rows)}
  BY RowsDiffer
<1>2. PICK at : at = {k \in DOMAIN rows : rows[k] \in ls}
  OBVIOUS
<1>3. at \in SUBSET Nat /\ at \in SUBSET (1..Len(rows))
  BY <1>1, <1>2
<1>4. IsFiniteSet(at) /\ Cardinality(at) \in Nat
  BY <1>1, <1>3, UpTo, FS_Subset, FS_CardinalityType
<1>5. PICK g : g = [n \in 1..Cardinality(at) |-> CHOOSE k \in at : Cardinality({j \in at : j <= k}) = n]
  OBVIOUS
<1>6. ASSUME NEW n \in 1..Cardinality(at)
      PROVE  g[n] \in at /\ Cardinality(Until(at, g[n])) = n
  <2>1. \E k \in at : Cardinality({j \in at : j <= k}) = n
    BY <1>3, <1>4, CountsMet DEF Until
  <2>2. g[n] = CHOOSE k \in at : Cardinality({j \in at : j <= k}) = n
    BY <1>5
  <2>. QED  BY <2>1, <2>2 DEF Until
<1>7. PICK new : new = Those(rows, ls)
  OBVIOUS
<1>8. new = [n \in 1..Cardinality(at) |-> rows[g[n]]]
  BY <1>2, <1>5, <1>7 DEF Those
<1>9. new \in Seq(Lists) /\ Len(new) = Cardinality(at)
  <2>1. \A n \in 1..Cardinality(at) : rows[g[n]] \in Lists
    BY <1>1, <1>3, <1>6
  <2>. QED  BY <1>4, <1>8, <2>1
<1>10. ASSUME NEW i \in 1..Len(new), NEW j \in 1..Len(new), i < j
       PROVE  Place(new[i]) < Place(new[j])
  <2>1. g[i] \in at /\ g[j] \in at /\ Cardinality(Until(at, g[i])) = i /\ Cardinality(Until(at, g[j])) = j
    BY <1>6, <1>9
  <2>2. g[i] < g[j]
    <3>1. g[i] # g[j]
      BY <1>4, <1>9, <1>10, <2>1
    <3>2. ~(g[j] < g[i])
      <4>1. ASSUME g[j] < g[i] PROVE FALSE
        <5>1. Cardinality(Until(at, g[j])) < Cardinality(Until(at, g[i]))
          BY <1>3, <1>4, <2>1, <4>1, UntilRises
        <5>. QED  BY <1>4, <1>9, <1>10, <2>1, <5>1
      <4>. QED  BY <4>1
    <3>3. g[i] \in Nat /\ g[j] \in Nat
      BY <1>3, <2>1
    <3>. QED  BY <3>1, <3>2, <3>3
  <2>3. new[i] = rows[g[i]] /\ new[j] = rows[g[j]]
    BY <1>8, <1>9
  <2>4. g[i] \in 1..Len(rows) /\ g[j] \in 1..Len(rows)
    BY <1>3, <2>1
  <2>. QED  BY <2>2, <2>3, <2>4 DEF InOrder
<1>11. InOrder(new)
  BY <1>9, <1>10 DEF InOrder
<1>12. Range(new) = {new[n] : n \in 1..Cardinality(at)}
  BY <1>8 DEF Range
<1>13. ASSUME NEW m \in Range(new) PROVE m \in Range(rows) \cap ls
  <2>1. PICK n \in 1..Cardinality(at) : m = new[n]
    BY <1>12
  <2>2. g[n] \in at /\ m = rows[g[n]]
    BY <1>6, <1>8, <2>1
  <2>. QED  BY <1>1, <1>2, <2>2
<1>14. ASSUME NEW m \in Range(rows) \cap ls PROVE m \in Range(new)
  <2>1. PICK k \in at : rows[k] = m
    BY <1>1, <1>2
  <2>2. PICK n : n = Cardinality(Until(at, k))
    OBVIOUS
  <2>3. n \in 1..Cardinality(at)
    BY <1>3, <1>4, <2>2, UntilRises
  <2>4. g[n] \in at /\ Cardinality(Until(at, g[n])) = n
    BY <1>6, <2>3
  <2>5. g[n] = k
    <3>1. ~(g[n] < k)
      <4>1. ASSUME g[n] < k PROVE FALSE
        <5>1. n < n
          BY <1>3, <1>4, <2>2, <2>4, <4>1, UntilRises
        <5>. QED  BY <2>3, <5>1
      <4>. QED  BY <4>1
    <3>2. ~(k < g[n])
      <4>1. ASSUME k < g[n] PROVE FALSE
        <5>1. n < n
          BY <1>3, <1>4, <2>2, <2>4, <4>1, UntilRises
        <5>. QED  BY <2>3, <5>1
      <4>. QED  BY <4>1
    <3>3. g[n] \in Nat /\ k \in Nat
      BY <1>3, <2>4
    <3>. QED  BY <3>1, <3>2, <3>3
  <2>. QED  BY <1>8, <1>12, <2>1, <2>3, <2>5
<1>. QED  BY <1>7, <1>11, <1>13, <1>14

\* The server's own order is one.
LEMMA OrderInOrder == InOrder(Order) /\ Range(Order) = Lists
<1>1. Order \in Seq(Lists) /\ DOMAIN Order = 1..Len(Order) /\ Len(Order) \in Nat
  BY UndoAssumption DEF Lists
<1>2. ASSUME NEW i \in 1..Len(Order) PROVE Place(Order[i]) = i
  <2>1. Order[i] \in Lists
    BY <1>1
  <2>2. Place(Order[i]) \in DOMAIN Order /\ Order[Place(Order[i])] = Order[i]
    BY <2>1, PlaceOf
  <2>. QED  BY <1>1, <2>2, UndoAssumption DEF IsInjective
<1>. QED  BY <1>1, <1>2 DEF InOrder, Lists

\* What the server answers shows its lists, in order.
LEMMA PresentShows ==
  ASSUME NEW ls \in SUBSET Lists
  PROVE  InOrder(Present(ls)) /\ Range(Present(ls)) = ls
<1>1. InOrder(Present(ls)) /\ Range(Present(ls)) = Lists \cap ls
  BY OrderInOrder, ThoseInOrder DEF Present
<1>. QED  BY <1>1

\* A removal takes its row, and the order is left.
LEMMA WithoutOne ==
  ASSUME NEW rows, InOrder(rows), NEW l
  PROVE  InOrder(Without(rows, l)) /\ Range(Without(rows, l)) = Range(rows) \ {l}
<1>1. InOrder(Without(rows, l)) /\ Range(Without(rows, l)) = Range(rows) \cap (Lists \ {l})
  BY ThoseInOrder DEF Without
<1>2. Range(rows) \subseteq Lists
  BY RowsDiffer
<1>. QED  BY <1>1, <1>2

\* The index a removal takes tells how many rows come before its own.
LEMMA PositionCounts ==
  ASSUME InOrder(cache), NEW l
  PROVE  Position(l) = IF l \in Range(cache) THEN Cardinality(Before(l, Range(cache))) + 1 ELSE 0
<1>1. Len(cache) \in Nat /\ Range(cache) = {cache[j] : j \in 1..Len(cache)}
  BY RowsDiffer
<1>2. CASE l \in Range(cache)
  <2>1. PICK k : k = CHOOSE j \in 1..Len(cache) : cache[j] = l
    OBVIOUS
  <2>2. \E j \in 1..Len(cache) : cache[j] = l
    BY <1>1, <1>2
  <2>3. k \in 1..Len(cache) /\ cache[k] = l
    BY <2>1, <2>2
  <2>4. Cardinality(Before(l, Range(cache))) = k - 1
    BY <2>3, RankOfRow
  <2>5. Position(l) = k
    BY <1>2, <2>1 DEF Position
  <2>. QED  BY <1>1, <1>2, <2>3, <2>4, <2>5
<1>. QED  BY <1>2 DEF Position

-----------------------------------------------------------------------------
(* What the overview shows.                                                *)

\* A removal whose index may still be used.
Fresh(r) == removal[r].at = "open" /\ ~removal[r].stale

\* The rows when every removal after this one is undone.  One that found no row
\* (its index is 0) brings none back.
RowsThen(r) ==
  {l \in Lists : \/ l \in Range(cache)
                 \/ \E q \in Removals : /\ q > r /\ removal[q].at = "open"
                                        /\ removal[q].index # 0 /\ removal[q].list = l}

\* The index is the place of the row among those: unless the list is gone, or a
\* later removal cannot be undone any more.
IndexOK(r) ==
  /\ removal[r].list \notin Range(cache)
  /\ \/ removal[r].list \notin server
     \/ \E q \in Removals : q > r /\ removal[q].at \in {"deleting", "deleted"}
     \/ removal[r].index = Cardinality(Before(removal[r].list, RowsThen(r))) + 1

\* The rows are the server's but for what is being removed.
RowsOK ==
  /\ InOrder(cache) /\ Range(cache) \subseteq server
  /\ \A l \in server \ Range(cache) :
       \E r \in Removals : removal[r].list = l /\ removal[r].at \in {"open", "deleting"}
  /\ \A r \in Removals :
       removal[r].at = "awaiting" /\ removal[r].list \in server => removal[r].list \in Range(cache)
  /\ \A r \in Removals : Fresh(r) => IndexOK(r)
  /\ \A r, q \in Removals :
       Fresh(r) /\ Fresh(q) /\ removal[r].list = removal[q].list /\ removal[r].list \in server => r = q

\* What a refetch has read is what the server has, or known to be old.
FetchOK ==
  /\ fetch = [at |-> fetch.at, rows |-> fetch.rows, old |-> fetch.old]
  /\ fetch.at \in {"idle", "asked", "read"}
  /\ fetch.at = "read" => fetch.old \/ fetch.rows = Present(server)

\* Removals are used in their order, and one awaits at a time.
InTurn ==
  \A r, q \in Removals :
    q > r /\ removal[r].at \in {"unused", "awaiting"} => removal[q].at = "unused"

\* The overview is looked at, nothing muddles it and no refetch is to come.
Settled == mounted /\ ~muddled /\ fetch.at = "idle"

ViewInv == server \subseteq Lists /\ FetchOK /\ InTurn /\ (Settled => RowsOK)

-----------------------------------------------------------------------------
(* The steps, again.                                                       *)

\* A click takes the next removal, of a list that is shown.
LEMMA ClickView ==
  ASSUME UndoInv, ViewInv, NEW r \in Removals, NEW l \in Lists, ClickDelete(r, l)
  PROVE  ViewInv'
<1>1. /\ removal'[r].at = "awaiting" /\ removal'[r].list = l
      /\ \A q \in Removals : q # r => removal'[q] = removal[q]
  <2>1. /\ removal' = [removal EXCEPT ![r].list = l, ![r].at = "awaiting", ![r].view = visits]
        /\ DOMAIN removal = Removals /\ Shape(removal[r])
    BY DEF ClickDelete, UndoInv
  <2>. QED  BY <2>1 DEF Shape
<1>2. /\ removal[r].at = "unused" /\ l \in Range(cache) /\ UNCHANGED <<mounted, cache, server>>
      /\ \A q \in Removals : q < r => removal[q].at # "unused"
      /\ \A q \in Removals : removal[q].at # "awaiting"
      /\ fetch' = Idle /\ (~muddled' => ~muddled /\ fetch.at = "idle")
  BY DEF ClickDelete
<1>3. FetchOK' /\ (server \subseteq Lists)'
  BY <1>2 DEF ViewInv, FetchOK, Idle
<1>4. InTurn'
  BY <1>1, <1>2 DEF ViewInv, InTurn, Removals
<1>5. ASSUME Settled' PROVE RowsOK'
  <2>1. RowsOK
    BY <1>2, <1>5 DEF ViewInv, Settled
  <2>2. ASSUME NEW q \in Removals PROVE Fresh(q)' => Fresh(q) /\ q # r
    BY <1>1 DEF Fresh
  <2>3. ASSUME NEW q \in Removals PROVE RowsThen(q)' = RowsThen(q)
    BY <1>1, <1>2 DEF RowsThen
  <2>4. ASSUME NEW q \in Removals, Fresh(q)' PROVE IndexOK(q)'
    <3>1. IndexOK(q) /\ q # r
      BY <2>1, <2>2, <2>4 DEF RowsOK
    <3>. QED  BY <1>1, <1>2, <2>3, <3>1 DEF IndexOK
  <2>5. \A q, p \in Removals : Fresh(q)' /\ Fresh(p)' /\ removal'[q].list = removal'[p].list
                                /\ removal'[q].list \in server' => q = p
    BY <1>1, <1>2, <2>1, <2>2 DEF RowsOK
  <2>6. \A k \in server' \ Range(cache)' :
          \E q \in Removals : removal'[q].list = k /\ removal'[q].at \in {"open", "deleting"}
    BY <1>1, <1>2, <2>1 DEF RowsOK
  <2>7. \A q \in Removals :
          removal'[q].at = "awaiting" /\ removal'[q].list \in server' => removal'[q].list \in Range(cache)'
    BY <1>1, <1>2
  <2>8. InOrder(cache)' /\ (Range(cache) \subseteq server)'
    BY <1>2, <2>1 DEF RowsOK, InOrder
  <2>. QED  BY <2>4, <2>5, <2>6, <2>7, <2>8 DEF RowsOK
<1>. QED  BY <1>3, <1>4, <1>5 DEF ViewInv

\* A timer that fires leaves its row away; the removals before it have nothing to
\* say of theirs any more.
LEMMA TimerView ==
  ASSUME UndoInv, ViewInv, NEW r \in Removals, TimerFires(r)
  PROVE  ViewInv'
<1>1. /\ removal[r].at = "open" /\ removal'[r].at = "deleting" /\ removal'[r].list = removal[r].list
      /\ \A q \in Removals : q # r => removal'[q] = removal[q]
  <2>1. /\ removal[r].timer /\ removal' = [removal EXCEPT ![r] = Committed(@)]
        /\ DOMAIN removal = Removals /\ Shape(removal[r]) /\ Decided(removal[r])
    BY DEF TimerFires, UndoInv
  <2>2. removal[r].at = "open"
    BY <2>1 DEF Decided
  <2>3. removal'[r] = Committed(removal[r]) /\ \A q \in Removals : q # r => removal'[q] = removal[q]
    BY <2>1
  <2>. QED  BY <2>1, <2>2, <2>3, CommitForm
<1>2. UNCHANGED <<mounted, cache, fetch, server, muddled>>
  BY DEF TimerFires
<1>3. FetchOK' /\ (server \subseteq Lists)'
  BY <1>2 DEF ViewInv, FetchOK
<1>4. InTurn'
  BY <1>1 DEF ViewInv, InTurn, Removals
<1>5. ASSUME Settled' PROVE RowsOK'
  <2>1. RowsOK
    BY <1>2, <1>5 DEF ViewInv, Settled
  <2>2. ASSUME NEW q \in Removals PROVE Fresh(q)' => Fresh(q) /\ q # r
    BY <1>1 DEF Fresh
  <2>3. ASSUME NEW q \in Removals, q > r PROVE RowsThen(q)' = RowsThen(q)
    BY <1>1, <1>2, <2>3 DEF RowsThen, Removals
  <2>4. ASSUME NEW q \in Removals, Fresh(q)' PROVE IndexOK(q)'
    <3>1. IndexOK(q) /\ q # r
      BY <2>1, <2>2, <2>4 DEF RowsOK
    <3>2. CASE q > r
      BY <1>1, <1>2, <2>3, <3>1, <3>2 DEF IndexOK, Removals
    <3>3. CASE r > q
      BY <1>1, <1>2, <3>1, <3>3 DEF IndexOK
    <3>. QED  BY <3>1, <3>2, <3>3 DEF Removals
  <2>5. \A q, p \in Removals : Fresh(q)' /\ Fresh(p)' /\ removal'[q].list = removal'[p].list
                                /\ removal'[q].list \in server' => q = p
    BY <1>1, <1>2, <2>1, <2>2 DEF RowsOK
  <2>6. \A k \in server' \ Range(cache)' :
          \E q \in Removals : removal'[q].list = k /\ removal'[q].at \in {"open", "deleting"}
    BY <1>1, <1>2, <2>1 DEF RowsOK
  <2>7. \A q \in Removals :
          removal'[q].at = "awaiting" /\ removal'[q].list \in server' => removal'[q].list \in Range(cache)'
    BY <1>1, <1>2, <2>1 DEF RowsOK
  <2>8. InOrder(cache)' /\ (Range(cache) \subseteq server)'
    BY <1>2, <2>1 DEF RowsOK, InOrder
  <2>. QED  BY <2>4, <2>5, <2>6, <2>7, <2>8 DEF RowsOK
<1>. QED  BY <1>3, <1>4, <1>5 DEF ViewInv

\* A removal takes its row away and notes where it was; for those before it the
\* rows it would bring back take the place of those that went.
LEMMA ScheduleView ==
  ASSUME UndoInv, ViewInv, NEW r \in Removals, Schedule(r)
  PROVE  ViewInv'
<1>1. PICK l : l = removal[r].list
  OBVIOUS
<1>2. /\ removal[r].at = "awaiting" /\ removal'[r].at = "open" /\ removal'[r].list = l /\ l \in Lists
      /\ removal'[r].index = Position(l)
      /\ \A q \in Removals : q # r => removal'[q] = removal[q]
  <2>1. /\ removal[r].at = "awaiting" /\ DOMAIN removal = Removals /\ Shape(removal[r]) /\ l \in Lists
    BY <1>1 DEF Schedule, UndoInv
  <2>2. PICK k : k = Position(l)
    OBVIOUS
  <2>3. removal' = [removal EXCEPT ![r].at = "open", ![r].index = k, ![r].timer = TRUE, ![r].view = 0]
    BY <1>1, <2>2 DEF Schedule
  <2>4. removal'[r] = [removal[r] EXCEPT !.at = "open", !.index = k, !.timer = TRUE, !.view = 0]
        /\ \A q \in Removals : q # r => removal'[q] = removal[q]
    BY <2>1, <2>3
  <2>. QED  BY <1>1, <2>1, <2>2, <2>4 DEF Shape
<1>3. cache' = Without(cache, l) /\ UNCHANGED <<mounted, fetch, server, muddled>>
  BY <1>1 DEF Schedule
<1>4. FetchOK' /\ (server \subseteq Lists)'
  BY <1>3 DEF ViewInv, FetchOK
<1>5. InTurn'
  BY <1>2 DEF ViewInv, InTurn, Removals
<1>6. ASSUME Settled' PROVE RowsOK'
  <2>1. RowsOK /\ InTurn
    BY <1>3, <1>6 DEF ViewInv, Settled
  <2>2. InOrder(cache') /\ Range(cache') = Range(cache) \ {l}
    BY <1>3, <2>1, WithoutOne DEF RowsOK
  <2>3. /\ l \in server => l \in Range(cache)
        /\ l \notin Range(cache) => removal'[r].index = 0
    BY <1>1, <1>2, <2>1, PositionCounts DEF RowsOK
  <2>4. l \in Range(cache) => /\ removal'[r].index = Cardinality(Before(l, Range(cache))) + 1
                              /\ removal'[r].index # 0
    <3>1. Before(l, Range(cache)) \in SUBSET Range(cache)
      BY DEF Before
    <3>2. Cardinality(Before(l, Range(cache))) \in Nat
      BY <2>1, <3>1, CountRows, FS_Subset, FS_CardinalityType DEF RowsOK
    <3>. QED  BY <1>2, <2>1, <3>2, PositionCounts DEF RowsOK
  <2>5. \A q \in Removals : q > r => removal[q].at = "unused" /\ removal'[q].at = "unused"
    BY <1>2, <2>1 DEF InTurn, Removals
  <2>6. ASSUME NEW q \in Removals, Fresh(q)', q # r
        PROVE  IndexOK(q) /\ Fresh(q) /\ q < r /\ (l \in Range(cache) => removal[q].list # l)
    <3>1. Fresh(q) /\ q < r
      BY <1>2, <2>5, <2>6 DEF Fresh, Removals
    <3>2. IndexOK(q)
      BY <2>1, <3>1 DEF RowsOK
    <3>. QED  BY <3>1, <3>2 DEF IndexOK
  <2>7. ASSUME NEW q \in Removals, q < r
        PROVE  RowsThen(q)' = RowsThen(q)
    <3>1. RowsThen(q)' = {k \in Lists :
            \/ k \in Range(cache) \ {l}
            \/ \E p \in Removals : /\ p > q /\ removal'[p].at = "open"
                                   /\ removal'[p].index # 0 /\ removal'[p].list = k}
      BY <2>2 DEF RowsThen
    <3>2. ASSUME NEW k \in Lists
          PROVE  k \in RowsThen(q)' <=> k \in RowsThen(q)
      <4>1. CASE k = l /\ l \in Range(cache)
        BY <1>2, <2>4, <2>7, <3>1, <4>1 DEF RowsThen, Removals
      <4>2. CASE k = l /\ l \notin Range(cache)
        BY <1>2, <2>3, <3>1, <4>2 DEF RowsThen
      <4>3. CASE k # l
        BY <1>2, <1>1, <3>1, <4>3 DEF RowsThen
      <4>. QED  BY <4>1, <4>2, <4>3
    <3>. QED  BY <3>1, <3>2 DEF RowsThen
  <2>8. ASSUME NEW q \in Removals, Fresh(q)', q # r PROVE IndexOK(q)'
    <3>1. IndexOK(q) /\ q < r /\ removal'[q] = removal[q]
      BY <1>2, <2>6, <2>8
    <3>2. RowsThen(q)' = RowsThen(q)
      BY <2>7, <3>1
    <3>3. \A p \in Removals : removal[p].at \in {"deleting", "deleted"} => removal'[p] = removal[p]
      BY <1>2
    <3>. QED  BY <1>3, <2>2, <3>1, <3>2, <3>3 DEF IndexOK
  <2>9. IndexOK(r)'
    <3>1. l \notin Range(cache')
      BY <2>2
    <3>2. CASE l \notin server
      BY <1>2, <1>3, <3>1, <3>2 DEF IndexOK
    <3>3. CASE l \in server
      <4>1. l \in Range(cache) /\ Range(cache) \subseteq Lists
        BY <2>1, <2>3, <3>3, RowsDiffer DEF RowsOK
      <4>2. RowsThen(r)' = Range(cache) \ {l}
        BY <2>2, <2>5, <4>1 DEF RowsThen
      <4>3. Before(l, Range(cache) \ {l}) = Before(l, Range(cache))
        BY <1>2, PlaceOf DEF Before
      <4>4. removal'[r].index = Cardinality(Before(l, RowsThen(r)')) + 1
        BY <2>4, <4>1, <4>2, <4>3
      <4>. QED  BY <1>2, <3>1, <4>4 DEF IndexOK
    <3>. QED  BY <3>2, <3>3
  <2>10. ASSUME NEW q \in Removals, NEW p \in Removals, Fresh(q)', Fresh(p)',
                removal'[q].list = removal'[p].list, removal'[q].list \in server'
         PROVE  q = p
    <3>1. CASE q # r /\ p # r
      BY <1>2, <1>3, <2>1, <2>6, <2>10, <3>1 DEF RowsOK
    <3>2. CASE q = r /\ p # r
      BY <1>2, <1>3, <2>3, <2>6, <2>10, <3>2
    <3>3. CASE q # r /\ p = r
      BY <1>2, <1>3, <2>3, <2>6, <2>10, <3>3
    <3>. QED  BY <3>1, <3>2, <3>3
  <2>11. ASSUME NEW k \in server' \ Range(cache')
         PROVE  \E q \in Removals : removal'[q].list = k /\ removal'[q].at \in {"open", "deleting"}
    <3>1. CASE k = l
      BY <1>2, <3>1
    <3>2. CASE k # l
      BY <1>2, <1>3, <2>1, <2>2, <2>11, <3>2 DEF RowsOK
    <3>. QED  BY <3>1, <3>2
  <2>12. \A q \in Removals : removal'[q].at # "awaiting"
    BY <1>2, <2>1 DEF InTurn, Removals
  <2>13. Range(cache') \subseteq server'
    BY <1>3, <2>1, <2>2 DEF RowsOK
  <2>14. \A q \in Removals : Fresh(q)' => IndexOK(q)'
    BY <2>8, <2>9
  <2>. QED  BY <2>2, <2>10, <2>11, <2>12, <2>13, <2>14 DEF RowsOK, InOrder
<1>. QED  BY <1>4, <1>5, <1>6 DEF ViewInv

\* An undo that does not muddle puts the row back where it was: its removal is
\* the last that is left, so the rows are the ones its index speaks of.
LEMMA UndoView ==
  ASSUME UndoInv, ViewInv, NEW l \in Lists, Undo(l)
  PROVE  ViewInv'
<1>1. PICK r : r = restores[l]
  OBVIOUS
<1>2. /\ r \in Removals /\ removal[r].at = "open" /\ removal[r].list = l
      /\ removal'[r].at = "undone" /\ removal'[r].list = l
  <2>1. /\ r \in Removals /\ removal[r].at = "open" /\ removal[r].list = l /\ Shape(removal[r])
    BY <1>1 DEF Undo, UndoInv, Held
  <2>2. removal'[r] = [removal[r] EXCEPT !.at = "undone", !.timer = FALSE, !.undone = TRUE]
    BY <1>1, <2>1 DEF Undo
  <2>. QED  BY <2>1, <2>2 DEF Shape
<1>3. ASSUME NEW q \in Removals, q # r
      PROVE  /\ removal'[q].at = removal[q].at /\ removal'[q].list = removal[q].list
             /\ removal'[q].index = removal[q].index
             /\ removal[q].stale => removal'[q].stale
  <2>1. removal'[q] = [removal[q] EXCEPT !.stale = @ \/ (q > r /\ q \in Open)]
    BY <1>1, <1>2, <1>3 DEF Undo
  <2>2. PICK s : s = (removal[q].stale \/ (q > r /\ q \in Open))
    OBVIOUS
  <2>3. removal'[q] = [removal[q] EXCEPT !.stale = s] /\ Shape(removal[q])
    BY <2>1, <2>2 DEF UndoInv
  <2>. QED  BY <2>2, <2>3 DEF Shape
<1>4. /\ cache' = PutBack(r) /\ UNCHANGED <<mounted, fetch, server>>
      /\ ~muddled' => /\ ~muddled /\ ~removal[r].stale /\ l \in server
                      /\ \A q \in Removals : q > r => removal[q].at \notin {"open", "deleting", "deleted"}
  BY <1>1 DEF Undo
<1>5. FetchOK' /\ (server \subseteq Lists)'
  BY <1>4 DEF ViewInv, FetchOK
<1>6. InTurn'
  <2>1. \A q \in Removals : removal'[q].at \in {"unused", "awaiting"} => removal'[q].at = removal[q].at
    BY <1>2, <1>3
  <2>2. \A q \in Removals : removal[q].at = "unused" => removal'[q].at = "unused"
    BY <1>2, <1>3
  <2>. QED  BY <2>1, <2>2 DEF ViewInv, InTurn
<1>7. ASSUME Settled' PROVE RowsOK'
  <2>1. RowsOK /\ ~removal[r].stale /\ l \in server
        /\ \A q \in Removals : q > r => removal[q].at \notin {"open", "deleting", "deleted"}
    BY <1>4, <1>7 DEF ViewInv, Settled
  <2>2. /\ l \notin Range(cache)
        /\ removal[r].index = Cardinality(Before(l, RowsThen(r))) + 1
    BY <1>2, <2>1 DEF RowsOK, Fresh, IndexOK
  <2>3. RowsThen(r) = Range(cache) /\ Range(cache) \subseteq Lists /\ Len(cache) \in Nat
    BY <2>1, RowsDiffer DEF RowsOK, RowsThen
  <2>4. removal[r].index \in 1..(Len(cache) + 1)
    BY <2>1, <2>2, <2>3, PutInOrder DEF RowsOK
  <2>5. PutBack(r) = InsertAt(cache, removal[r].index, l)
    BY <1>2, <2>3, <2>4 DEF PutBack
  <2>6. InOrder(cache') /\ Range(cache') = Range(cache) \cup {l}
    BY <1>4, <2>1, <2>2, <2>3, <2>5, PutInOrder DEF RowsOK
  <2>7. ASSUME NEW q \in Removals, Fresh(q)'
        PROVE  q < r /\ Fresh(q) /\ IndexOK(q) /\ removal[q].list # l
    <3>1. Fresh(q) /\ q # r
      BY <1>2, <1>3, <2>7 DEF Fresh
    <3>2. q < r
      BY <1>2, <2>1, <3>1 DEF Fresh, Removals
    <3>. QED  BY <1>2, <2>1, <3>1, <3>2 DEF RowsOK, Fresh
  <2>8. ASSUME NEW q \in Removals, q < r
        PROVE  RowsThen(q)' = RowsThen(q)
    <3>1. removal[r].index # 0
      BY <2>4
    <3>2. RowsThen(q)' = {k \in Lists :
            \/ k \in Range(cache) \cup {l}
            \/ \E p \in Removals : /\ p > q /\ removal'[p].at = "open"
                                   /\ removal'[p].index # 0 /\ removal'[p].list = k}
      BY <2>6 DEF RowsThen
    <3>3. ASSUME NEW k \in Lists
          PROVE  k \in RowsThen(q)' <=> k \in RowsThen(q)
      <4>1. CASE k = l
        BY <1>2, <2>8, <3>1, <3>2, <4>1 DEF RowsThen, Removals
      <4>2. CASE k # l
        BY <1>2, <1>3, <3>2, <4>2 DEF RowsThen
      <4>. QED  BY <4>1, <4>2
    <3>. QED  BY <3>2, <3>3 DEF RowsThen
  <2>9. ASSUME NEW q \in Removals, Fresh(q)' PROVE IndexOK(q)'
    <3>1. IndexOK(q) /\ q < r /\ removal[q].list # l
      BY <2>7, <2>9
    <3>2. /\ RowsThen(q)' = RowsThen(q) /\ removal'[q].list = removal[q].list
          /\ removal'[q].index = removal[q].index
      BY <1>2, <1>3, <2>8, <3>1 DEF Removals
    <3>3. \A p \in Removals : removal[p].at \in {"deleting", "deleted"} => removal'[p].at = removal[p].at
      BY <1>2, <1>3
    <3>. QED  BY <1>4, <2>6, <3>1, <3>2, <3>3 DEF IndexOK
  <2>10. ASSUME NEW q \in Removals, NEW p \in Removals, Fresh(q)', Fresh(p)',
                removal'[q].list = removal'[p].list, removal'[q].list \in server'
         PROVE  q = p
    <3>1. Fresh(q) /\ Fresh(p) /\ q # r /\ p # r
      BY <1>2, <2>7, <2>10 DEF Removals
    <3>. QED  BY <1>3, <1>4, <2>1, <2>10, <3>1 DEF RowsOK
  <2>11. ASSUME NEW k \in server' \ Range(cache')
         PROVE  \E q \in Removals : removal'[q].list = k /\ removal'[q].at \in {"open", "deleting"}
    <3>1. k # l /\ k \in server \ Range(cache)
      BY <1>4, <2>6, <2>11
    <3>2. PICK q \in Removals : removal[q].list = k /\ removal[q].at \in {"open", "deleting"}
      BY <2>1, <3>1 DEF RowsOK
    <3>. QED  BY <1>2, <1>3, <3>1, <3>2
  <2>12. ASSUME NEW q \in Removals, removal'[q].at = "awaiting", removal'[q].list \in server'
         PROVE  removal'[q].list \in Range(cache')
    BY <1>2, <1>3, <1>4, <2>1, <2>6, <2>12 DEF RowsOK
  <2>13. Range(cache') \subseteq server'
    BY <1>4, <2>1, <2>6 DEF RowsOK
  <2>. QED  BY <2>6, <2>9, <2>10, <2>11, <2>12, <2>13 DEF RowsOK, InOrder
<1>. QED  BY <1>5, <1>6, <1>7 DEF ViewInv

\* A refetch that is not old shows the server's lists, and no index is used again.
LEMMA AnsweredView ==
  ASSUME UndoInv, ViewInv, FetchAnswered
  PROVE  ViewInv'
<1>1. ASSUME NEW q \in Removals
      PROVE  /\ removal'[q].at = removal[q].at /\ removal'[q].list = removal[q].list
             /\ removal[q].at = "open" => removal'[q].stale
  <2>1. removal'[q] = [removal[q] EXCEPT !.stale = @ \/ q \in Open]
    BY DEF FetchAnswered
  <2>2. PICK s : s = (removal[q].stale \/ q \in Open)
    OBVIOUS
  <2>3. removal'[q] = [removal[q] EXCEPT !.stale = s] /\ Shape(removal[q])
    BY <2>1, <2>2 DEF UndoInv
  <2>4. removal[q].at = "open" => s
    BY <2>2 DEF Open
  <2>. QED  BY <2>3, <2>4 DEF Shape
<1>2. /\ fetch.at = "read" /\ cache' = fetch.rows /\ fetch' = Idle /\ (~muddled' => ~fetch.old)
      /\ UNCHANGED <<mounted, server>>
  BY DEF FetchAnswered
<1>3. FetchOK' /\ (server \subseteq Lists)'
  BY <1>2 DEF ViewInv, FetchOK, Idle
<1>4. InTurn'
  BY <1>1 DEF ViewInv, InTurn
<1>5. ASSUME Settled' PROVE RowsOK'
  <2>1. cache' = Present(server) /\ server \subseteq Lists
    BY <1>2, <1>5 DEF ViewInv, FetchOK, Settled
  <2>2. InOrder(cache') /\ Range(cache') = server
    BY <2>1, PresentShows
  <2>3. \A q \in Removals : ~Fresh(q)'
    BY <1>1 DEF Fresh
  <2>. QED  BY <1>2, <2>2, <2>3 DEF RowsOK, InOrder
<1>. QED  BY <1>3, <1>4, <1>5 DEF ViewInv

\* What changes the server also calls for a refetch, or marks the one that has read.
LEMMA AnswerView ==
  ASSUME UndoInv, ViewInv, NEW r \in Removals, Deleted(r) \/ DeleteFails(r)
  PROVE  ViewInv'
<1>1. /\ removal[r].at = "deleting" /\ removal'[r].at = "deleted"
      /\ \A q \in Removals : q # r => removal'[q] = removal[q]
  <2>1. /\ removal[r].at = "deleting" /\ removal' = [removal EXCEPT ![r].at = "deleted"]
        /\ DOMAIN removal = Removals /\ Shape(removal[r])
    BY DEF Deleted, DeleteFails, UndoInv
  <2>. QED  BY <2>1 DEF Shape
<1>2. InTurn'
  BY <1>1 DEF ViewInv, InTurn, Removals
<1>3. (server \subseteq Lists)'
  BY DEF ViewInv, Deleted, DeleteFails
<1>4. CASE mounted
  <2>1. fetch' = Asked
    BY <1>4 DEF Deleted, DeleteFails
  <2>2. FetchOK' /\ ~Settled'
    BY <2>1 DEF FetchOK, Settled, Asked, Idle
  <2>. QED  BY <1>2, <1>3, <2>2 DEF ViewInv
<1>5. CASE ~mounted
  <2>1. ~Settled'
    BY <1>5 DEF Settled, Deleted, DeleteFails
  <2>2. FetchOK'
    <3>1. CASE Deleted(r)
      <4>1. PICK b : b = (fetch.at = "read")
        OBVIOUS
      <4>2. fetch' = [fetch EXCEPT !.old = b]
        BY <1>5, <3>1, <4>1 DEF Deleted
      <4>. QED  BY <4>1, <4>2 DEF ViewInv, FetchOK
    <3>2. CASE DeleteFails(r)
      BY <1>5, <3>2 DEF ViewInv, FetchOK, DeleteFails
    <3>. QED  BY <3>1, <3>2
  <2>. QED  BY <1>2, <1>3, <2>1, <2>2 DEF ViewInv
<1>. QED  BY <1>4, <1>5

\* A view that goes away shows nothing.
LEMMA UnmountView ==
  ASSUME UndoInv, ViewInv, Unmount
  PROVE  ViewInv'
<1>1. ASSUME NEW q \in Removals
      PROVE  \/ removal'[q] = removal[q]
             \/ removal[q].at = "open" /\ removal'[q].at = "deleting"
  <2>1. CASE \E l \in Lists : entries[l] = q
    <3>1. removal[q].at = "open" /\ Shape(removal[q]) /\ Decided(removal[q])
      BY <2>1 DEF UndoInv, Held, Removals
    <3>2. removal'[q] = Committed(removal[q])
      BY <2>1 DEF Unmount
    <3>. QED  BY <3>1, <3>2, CommitForm
  <2>2. CASE ~(\E l \in Lists : entries[l] = q)
    BY <2>2 DEF Unmount
  <2>. QED  BY <2>1, <2>2
<1>2. InTurn'
  BY <1>1 DEF ViewInv, InTurn
<1>3. ~Settled' /\ FetchOK' /\ (server \subseteq Lists)'
  BY DEF ViewInv, FetchOK, Settled, Unmount
<1>. QED  BY <1>2, <1>3 DEF ViewInv

\* Hints and a view that opens ask, a read reads what is there.
LEMMA FetchView ==
  ASSUME UndoInv, ViewInv, Hint \/ ReadLists \/ Mount
  PROVE  ViewInv'
<1>1. removal' = removal /\ server' = server
  BY DEF Hint, ReadLists, Mount
<1>2. InTurn' /\ (server \subseteq Lists)'
  BY <1>1 DEF ViewInv, InTurn
<1>3. CASE Hint
  BY <1>2, <1>3 DEF Hint, ViewInv, FetchOK, Settled, Asked, Idle
<1>4. CASE ReadLists
  <2>1. fetch' = [at |-> "read", rows |-> Present(server), old |-> FALSE] /\ server' = server
    BY <1>4 DEF ReadLists, Idle
  <2>2. Present(server)' = Present(server)
    BY <2>1
  <2>. QED  BY <1>2, <2>1, <2>2 DEF ViewInv, FetchOK, Settled
<1>5. CASE Mount
  <2>1. fetch' = (IF fetch.at = "idle" THEN Asked ELSE fetch) /\ server' = server
    BY <1>5 DEF Mount
  <2>2. FetchOK' /\ ~Settled'
    <3>1. CASE fetch.at = "idle"
      BY <2>1, <3>1 DEF FetchOK, Settled, Asked, Idle
    <3>2. CASE fetch.at # "idle"
      BY <2>1, <3>2 DEF ViewInv, FetchOK, Settled
    <3>. QED  BY <3>1, <3>2
  <2>. QED  BY <1>2, <2>2 DEF ViewInv
<1>. QED  BY <1>3, <1>4, <1>5

LEMMA SameView ==
  ASSUME ViewInv, UNCHANGED vars
  PROVE  ViewInv'
<1>1. UNCHANGED <<mounted, cache, fetch, removal, server, muddled>>
  BY DEF vars
<1>2. (server \subseteq Lists)' /\ FetchOK' /\ InTurn'
  BY <1>1 DEF ViewInv, FetchOK, InTurn
<1>3. \A r \in Removals : (Fresh(r)' <=> Fresh(r)) /\ RowsThen(r)' = RowsThen(r)
  BY <1>1 DEF Fresh, RowsThen
<1>4. \A r \in Removals : IndexOK(r) => IndexOK(r)'
  BY <1>1, <1>3 DEF IndexOK
<1>5. RowsOK => RowsOK'
  BY <1>1, <1>3, <1>4 DEF RowsOK, InOrder
<1>6. Settled' => Settled
  BY <1>1 DEF Settled
<1>. QED  BY <1>2, <1>5, <1>6 DEF ViewInv

\* The overview starts with every list.
LEMMA ViewInit == Init => ViewInv
<1>. SUFFICES ASSUME Init PROVE ViewInv
  OBVIOUS
<1>1. \A r \in Removals : removal[r].at = "unused"
  BY DEF Init, Unused
<1>2. FetchOK /\ InTurn /\ server \subseteq Lists
  BY <1>1 DEF Init, FetchOK, InTurn, Idle
<1>3. InOrder(cache) /\ Range(cache) = server
  BY OrderInOrder DEF Init
<1>. QED  BY <1>1, <1>2, <1>3 DEF ViewInv, RowsOK, Fresh

\* With nothing under way the rows are the server's, and there is one listing of
\* those.
LEMMA OverviewFollows == ViewInv => OverviewInOrder
<1>. SUFFICES ASSUME ViewInv, Settled,
                     \A r \in Removals : removal[r].at \notin {"awaiting", "open", "deleting"}
              PROVE  cache = Present(server)
  BY DEF OverviewInOrder, Settled
<1>1. InOrder(cache) /\ Range(cache) = server
  BY DEF ViewInv, RowsOK
<1>2. InOrder(Present(server)) /\ Range(Present(server)) = server
  BY PresentShows DEF ViewInv
<1>. QED  BY <1>1, <1>2, OneListing

\* With nothing under way the overview shows the server's lists in the server's
\* order, whatever removals overlapped, were undone last first, failed or were
\* refetched meanwhile: for any lists and any number of clicks.
THEOREM OverviewSettles == Spec => []OverviewInOrder
<1>1. UndoInv /\ ViewInv /\ [Next]_vars => ViewInv'
  <2>. SUFFICES ASSUME UndoInv, ViewInv, [Next]_vars PROVE ViewInv'
    OBVIOUS
  <2>1. ASSUME Hint \/ ReadLists \/ Mount PROVE ViewInv'
    BY <2>1, FetchView
  <2>2. ASSUME FetchAnswered PROVE ViewInv'
    BY <2>2, AnsweredView
  <2>3. ASSUME Unmount PROVE ViewInv'
    BY <2>3, UnmountView
  <2>4. ASSUME NEW r \in Removals, Runs(r) PROVE ViewInv'
    BY <2>4, ScheduleView, TimerView, AnswerView DEF Runs
  <2>5. ASSUME NEW r \in Removals, NEW l \in Lists, ClickDelete(r, l) PROVE ViewInv'
    BY <2>5, ClickView
  <2>6. ASSUME NEW l \in Lists, Undo(l) PROVE ViewInv'
    BY <2>6, UndoView
  <2>7. ASSUME UNCHANGED vars PROVE ViewInv'
    BY <2>7, SameView
  <2>. QED  BY <2>1, <2>2, <2>3, <2>4, <2>5, <2>6, <2>7 DEF Next
<1>. QED  BY ViewInit, UndoSafe, <1>1, OverviewFollows, PTL DEF Spec
=============================================================================
