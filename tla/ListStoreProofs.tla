--------------------------- MODULE ListStoreProofs ---------------------------
(* Proofs about ListStore for any number of lists, items, actors and          *)
(* concurrent requests.                                                       *)
EXTENDS ListStore, TLAPS

-----------------------------------------------------------------------------
(* Handlers.                                                               *)

\* A request that arrives is well typed and carries what its handler needs.
LEMMA AsksTyped ==
  ASSUME NEW q \in Asks
  PROVE  /\ q \in Request
         /\ q.op # "none"
         /\ q.made = None
         /\ q.op \in ItemOps \cup {"renameList", "deleteList", "copyList"} => q.list \in Lists
         /\ q.op \in {"createList", "copyList", "addItem", "check"} => q.actor \in Actors
  BY DEF Asks, Ask, Request, ListOps, ItemOps, KnownLists, KnownItems

\* A handler that moves on inside its run keeps its request but may learn the
\* id of the row it made.
LEMMA HandlerMoves ==
  ASSUME TypeOK, NEW r \in Requests, NEW w \in Pc \ {"new", "done"}, NEW q \in Request,
         pc[r] \notin {"new", "done"},
         pc' = [pc EXCEPT ![r] = w],
         req' = [req EXCEPT ![r] = q],
         q.op = req[r].op, q.list = req[r].list, q.actor = req[r].actor,
         w \in {"lock", "rows", "commit"} => q.op = "copyList",
         w = "write" => q.op \in {"check", "uncheck"},
         w = "commit" => q.made \in Lists,
         w = "reread" /\ q.op \in {"createList", "copyList"} => q.made \in Lists
  PROVE  /\ pc' \in [Requests -> Pc]
         /\ req' \in [Requests -> Request]
         /\ \A p \in Requests : HandlerOK(p)'
<1>1. pc' \in [Requests -> Pc] /\ req' \in [Requests -> Request]
  BY DEF TypeOK
<1>2. ASSUME NEW p \in Requests PROVE HandlerOK(p)'
  <2>1. CASE p = r
    BY <2>1 DEF TypeOK, HandlerOK
  <2>2. CASE p # r
    BY <2>2 DEF TypeOK, HandlerOK
  <2> QED BY <2>1, <2>2
<1> QED BY <1>1, <1>2

\* The same for a step that learns no id.
LEMMA HandlerGoes ==
  ASSUME TypeOK, NEW r \in Requests, NEW w \in Pc \ {"new", "done", "commit"},
         pc[r] \notin {"new", "done"}, Goto(r, w),
         w \in {"lock", "rows"} => req[r].op = "copyList",
         w = "write" => req[r].op \in {"check", "uncheck"},
         w = "reread" /\ req[r].op \in {"createList", "copyList"} => req[r].made \in Lists
  PROVE  /\ pc' \in [Requests -> Pc]
         /\ req' \in [Requests -> Request]
         /\ \A p \in Requests : HandlerOK(p)'
<1>1. req' = [req EXCEPT ![r] = req[r]] /\ req[r] \in Request
  BY DEF Goto, TypeOK
<1>2. pc' = [pc EXCEPT ![r] = w] /\ w # "commit"
  BY DEF Goto
<1> QED BY <1>1, <1>2, HandlerMoves

\* A handler that returns leaves nothing behind.
LEMMA HandlerReturns ==
  ASSUME TypeOK, NEW r \in Requests, Finish(r)
  PROVE  /\ pc' \in [Requests -> Pc]
         /\ req' \in [Requests -> Request]
         /\ \A p \in Requests : HandlerOK(p)'
<1>1. NoRequest \in Request
  BY DEF NoRequest, Request
<1>2. ASSUME NEW p \in Requests PROVE HandlerOK(p)'
  BY DEF TypeOK, HandlerOK, Finish, NoRequest, ItemOps
<1> QED BY <1>1, <1>2 DEF Finish, TypeOK, Pc

-----------------------------------------------------------------------------
(* Rows.                                                                   *)

\* An id without a row holds the blank row.
LEMMA NoRowTyped == NoRow \in Row
  BY DEF NoRow, Row

\* Stamping updated_at keeps every other column.
LEMMA StampedTyped ==
  ASSUME NEW w \in Row
  PROVE  /\ Stamped(w) \in Row
         /\ Stamped(w).list = w.list /\ Stamped(w).addedBy = w.addedBy
         /\ Stamped(w).checked = w.checked /\ Stamped(w).checkedAt = w.checkedAt
         /\ Stamped(w).boughtBy = w.boughtBy
  BY DEF Row, Stamped

\* SetItemChecked's UPDATE keeps the list of a row and sets the three columns.
LEMMA MarkedTyped ==
  ASSUME NEW w \in Row, NEW bought \in BOOLEAN, NEW buyer \in Actors \cup {None}
  PROVE  /\ Marked(w, bought, buyer) \in Row
         /\ Marked(w, bought, buyer).list = w.list
         /\ Marked(w, bought, buyer).checked = bought
         /\ Marked(w, bought, buyer).checkedAt = bought
         /\ Marked(w, bought, buyer).boughtBy = buyer
  BY DEF Row, Stamped, Marked

-----------------------------------------------------------------------------
(* Type correctness.                                                       *)

\* The program starts well typed, with no handler running.
LEMMA InitTyped ==
  ASSUME Init
  PROVE  TypeOK
<1>1. row \in [Items -> Row]
  BY NoRowTyped DEF Init, SeedRow
<1>2. itemState \in [Items -> ItemState] /\ listState \in [Lists -> ListState]
  BY DEF Init, ItemState, ListState
<1>3. req \in [Requests -> Request] /\ \A r \in Requests : HandlerOK(r)
  BY DEF Init, HandlerOK, NoRequest, Request, ListOps, ItemOps
<1> QED
  BY <1>1, <1>2, <1>3 DEF Init, TypeOK, Pc

\* The types of every variable and of what each handler holds (TypeOK): no
\* handler step loses an id it needs later.
THEOREM TypeCorrect == Spec => []TypeOK
<1>1. Init => TypeOK
  BY InitTyped
<1>2. TypeOK /\ [Next]_vars => TypeOK'
  <2> SUFFICES ASSUME TypeOK, [Next]_vars PROVE TypeOK'
    OBVIOUS
  <2>0. CASE UNCHANGED vars
    BY <2>0 DEF vars, table, ghosts, TypeOK, HandlerOK
  <2>1. ASSUME NEW r \in Requests, Arrive(r) PROVE TypeOK'
    <3>1. PICK q \in Asks : req' = [req EXCEPT ![r] = q]
      BY <2>1 DEF Arrive
    <3>2. \A p \in Requests : HandlerOK(p)'
      BY <2>1, <3>1, AsksTyped DEF Arrive, HandlerOK, TypeOK
    <3> QED
      BY <2>1, <3>1, <3>2, AsksTyped DEF Arrive, table, ghosts, TypeOK, Pc
  <2>2. ASSUME NEW r \in Requests, NotFound(r) PROVE TypeOK'
    BY <2>2, HandlerReturns DEF NotFound, TypeOK, table
  <2>3. ASSUME NEW r \in Requests, InsertList(r) PROVE TypeOK'
    <3>1. PICK l \in Lists : /\ listState' = [listState EXCEPT ![l] = "live"]
                             /\ createdBy' = [createdBy EXCEPT ![l] = req[r].actor]
                             /\ req' = [req EXCEPT ![r].made = l]
      BY <2>3 DEF InsertList
    <3> DEFINE q == [req[r] EXCEPT !.made = l]
    <3>2. q \in Request /\ q.op = req[r].op /\ q.list = req[r].list /\ q.actor = req[r].actor /\ q.made = l
      BY DEF TypeOK, Request
    <3>3. req' = [req EXCEPT ![r] = q]
      BY <3>1 DEF TypeOK
    <3>4. /\ pc' \in [Requests -> Pc]
          /\ req' \in [Requests -> Request]
          /\ \A p \in Requests : HandlerOK(p)'
      <4> HIDE DEF q
      <4> QED BY <2>3, <3>2, <3>3, HandlerMoves DEF InsertList, At, Pc
    <3>5. listState' \in [Lists -> ListState] /\ createdBy' \in [Lists -> Actors \cup {None}]
      BY <3>1 DEF TypeOK, ListState, Request
    <3> QED
      BY <2>3, <3>4, <3>5 DEF InsertList, Changed, TypeOK, Topic
  <2>4. ASSUME NEW r \in Requests, UpdateListName(r) PROVE TypeOK'
    <3>1. CASE NotFound(r)
      BY <2>2, <3>1
    <3>2. CASE ~NotFound(r)
      <4>1. Goto(r, "reread") /\ pc[r] \notin {"new", "done"}
        BY <2>4, <3>2 DEF UpdateListName, At
      <4>2. /\ pc' \in [Requests -> Pc]
            /\ req' \in [Requests -> Request]
            /\ \A p \in Requests : HandlerOK(p)'
        BY <2>4, <3>2, <4>1, HandlerGoes DEF UpdateListName, At, Pc, TypeOK, HandlerOK
      <4> QED
        BY <2>4, <3>2, <4>1, <4>2 DEF UpdateListName, TypeOK, Changed, Topic, table
    <3> QED BY <3>1, <3>2
  <2>5. ASSUME NEW r \in Requests, DeleteListRow(r) PROVE TypeOK'
    <3>1. CASE NotFound(r)
      BY <2>2, <3>1
    <3>2. CASE ~NotFound(r)
      <4>1. Goto(r, "publish") /\ pc[r] \notin {"new", "done"}
        BY <2>5, <3>2 DEF DeleteListRow, At
      <4>2. /\ pc' \in [Requests -> Pc]
            /\ req' \in [Requests -> Request]
            /\ \A p \in Requests : HandlerOK(p)'
        BY <2>5, <3>2, <4>1, HandlerGoes DEF DeleteListRow, At, Pc, TypeOK, HandlerOK
      <4>3. /\ listState' \in [Lists -> ListState] /\ createdBy' \in [Lists -> Actors \cup {None}]
            /\ itemState' \in [Items -> ItemState] /\ row' \in [Items -> Row]
        BY <2>5, <3>2, NoRowTyped DEF DeleteListRow, DropRows, TypeOK, ListState, ItemState
      <4> QED
        BY <2>5, <3>2, <4>1, <4>2, <4>3 DEF DeleteListRow, TypeOK, DropRows, Topic
    <3> QED BY <3>1, <3>2
  <2>6. ASSUME NEW r \in Requests, LoadCopySource(r) PROVE TypeOK'
    <3>1. CASE NotFound(r)
      BY <2>2, <3>1
    <3>2. CASE ~NotFound(r)
      <4>1. Goto(r, "lock") /\ pc[r] \notin {"new", "done"}
        BY <2>6, <3>2 DEF LoadCopySource, At
      <4>2. /\ pc' \in [Requests -> Pc]
            /\ req' \in [Requests -> Request]
            /\ \A p \in Requests : HandlerOK(p)'
        BY <2>6, <3>2, <4>1, HandlerGoes DEF LoadCopySource, At, Pc, TypeOK, HandlerOK
      <4> QED
        BY <2>6, <3>2, <4>1, <4>2 DEF LoadCopySource, TypeOK, table, ghosts
    <3> QED BY <3>1, <3>2
  <2>7. ASSUME NEW r \in Requests, LockCopySource(r) PROVE TypeOK'
    <3>1. CASE NotFound(r)
      BY <2>2, <3>1
    <3>2. CASE ~NotFound(r)
      <4>1. Goto(r, "rows") /\ pc[r] \notin {"new", "done"}
        BY <2>7, <3>2 DEF LockCopySource, At
      <4>2. /\ pc' \in [Requests -> Pc]
            /\ req' \in [Requests -> Request]
            /\ \A p \in Requests : HandlerOK(p)'
        BY <2>7, <3>2, <4>1, HandlerGoes DEF LockCopySource, At, Pc, TypeOK, HandlerOK
      <4> QED
        BY <2>7, <3>2, <4>1, <4>2 DEF LockCopySource, TypeOK, ghosts, ListVisible
    <3> QED BY <3>1, <3>2
  <2>8. ASSUME NEW r \in Requests, CopyRows(r) PROVE TypeOK'
    <3>1. PICK l \in Lists, copies \in SUBSET Unborn :
            /\ listState' = [listState EXCEPT ![l] = "draft"]
            /\ createdBy' = [createdBy EXCEPT ![l] = req[r].actor]
            /\ itemState' = [i \in Items |-> IF i \in copies THEN "draft" ELSE itemState[i]]
            /\ row' = [i \in Items |-> IF i \in copies
                                       THEN [NoRow EXCEPT !.list = l, !.addedBy = req[r].actor]
                                       ELSE row[i]]
            /\ req' = [req EXCEPT ![r].made = l]
      BY <2>8 DEF CopyRows
    <3> DEFINE q == [req[r] EXCEPT !.made = l]
    <3>2. q \in Request /\ q.op = req[r].op /\ q.list = req[r].list /\ q.actor = req[r].actor /\ q.made = l
      BY DEF TypeOK, Request
    <3>3. req' = [req EXCEPT ![r] = q]
      BY <3>1 DEF TypeOK
    <3>4. /\ pc' \in [Requests -> Pc]
          /\ req' \in [Requests -> Request]
          /\ \A p \in Requests : HandlerOK(p)'
      <4> HIDE DEF q
      <4> QED BY <2>8, <3>2, <3>3, HandlerMoves DEF CopyRows, At, Pc
    <3>5. req[r].actor \in Actors \cup {None}
      BY DEF TypeOK, Request
    <3>6. listState' \in [Lists -> ListState] /\ createdBy' \in [Lists -> Actors \cup {None}]
      BY <3>1, <3>5 DEF TypeOK, ListState
    <3>7. itemState' \in [Items -> ItemState] /\ row' \in [Items -> Row]
      BY <3>1, <3>5 DEF TypeOK, ItemState, Row, NoRow
    <3> QED
      BY <2>8, <3>4, <3>6, <3>7 DEF CopyRows, ghosts, TypeOK
  <2>9. ASSUME NEW r \in Requests, CommitCopy(r) PROVE TypeOK'
    <3>1. Goto(r, "reread") /\ pc[r] = "commit"
      BY <2>9 DEF CommitCopy, At
    <3>2. /\ pc' \in [Requests -> Pc]
          /\ req' \in [Requests -> Request]
          /\ \A p \in Requests : HandlerOK(p)'
      BY <3>1, HandlerGoes DEF TypeOK, HandlerOK, Pc
    <3>3. listState' \in [Lists -> ListState] /\ itemState' \in [Items -> ItemState]
      BY <2>9 DEF CommitCopy, TypeOK, ListState, ItemState
    <3> QED
      BY <2>9, <3>2, <3>3 DEF CommitCopy, Changed, Topic, TypeOK
  <2>10. ASSUME NEW r \in Requests, ReadList(r) PROVE TypeOK'
    <3>1. CASE NotFound(r)
      BY <2>2, <3>1
    <3>2. CASE ~NotFound(r)
      <4>1. Goto(r, "publish") /\ pc[r] \notin {"new", "done"}
        BY <2>10, <3>2 DEF ReadList
      <4>2. /\ pc' \in [Requests -> Pc]
            /\ req' \in [Requests -> Request]
            /\ \A p \in Requests : HandlerOK(p)'
        BY <2>10, <3>2, <4>1, HandlerGoes DEF ReadList, Pc, TypeOK, HandlerOK
      <4> QED
        BY <2>10, <3>2, <4>1, <4>2 DEF ReadList, TypeOK, table, ghosts
    <3> QED BY <3>1, <3>2
  <2>11. ASSUME NEW r \in Requests, InsertItem(r) PROVE TypeOK'
    <3>1. CASE NotFound(r)
      BY <2>2, <3>1
    <3>2. CASE ~NotFound(r)
      <4> DEFINE fresh == [list |-> req[r].list, checked |-> req[r].folded,
                           checkedAt |-> req[r].folded, addedBy |-> req[r].actor,
                           boughtBy |-> IF req[r].folded THEN req[r].actor ELSE None,
                           rev |-> FALSE]
      <4>1. PICK i \in Unborn : /\ itemState' = [itemState EXCEPT ![i] = "live"]
                                /\ row' = [row EXCEPT ![i] = fresh]
                                /\ req' = [req EXCEPT ![r].item = i]
        BY <2>11, <3>2 DEF InsertItem
      <4> DEFINE q == [req[r] EXCEPT !.item = i]
      <4>2. q \in Request /\ q.op = req[r].op /\ q.list = req[r].list /\ q.actor = req[r].actor
        BY DEF TypeOK, Request, Unborn
      <4>3. req' = [req EXCEPT ![r] = q]
        BY <4>1 DEF TypeOK
      <4>4. /\ pc' \in [Requests -> Pc]
            /\ req' \in [Requests -> Request]
            /\ \A p \in Requests : HandlerOK(p)'
        <5> HIDE DEF q
        <5> QED BY <2>11, <3>2, <4>2, <4>3, HandlerMoves DEF InsertItem, At, Pc
      <4>5. fresh \in Row
        BY DEF TypeOK, Request, Row
      <4>6. itemState' \in [Items -> ItemState] /\ row' \in [Items -> Row]
        <5> HIDE DEF fresh
        <5> QED BY <4>1, <4>5 DEF TypeOK, ItemState
      <4>7. req[r].list \in Lists
        BY <2>11 DEF InsertItem, At, TypeOK, HandlerOK, ItemOps
      <4> QED
        BY <2>11, <3>2, <4>4, <4>6, <4>7 DEF InsertItem, Changed, TypeOK, Topic
    <3> QED BY <3>1, <3>2
  <2>12. ASSUME NEW r \in Requests, UpdateItemRow(r) PROVE TypeOK'
    <3>1. CASE NotFound(r)
      BY <2>2, <3>1
    <3>2. CASE ~NotFound(r)
      <4>1. Goto(r, "reread") /\ pc[r] \notin {"new", "done"}
        BY <2>12, <3>2 DEF UpdateItemRow, At
      <4>2. /\ pc' \in [Requests -> Pc]
            /\ req' \in [Requests -> Request]
            /\ \A p \in Requests : HandlerOK(p)'
        BY <2>12, <3>2, <4>1, HandlerGoes DEF UpdateItemRow, At, Pc, TypeOK, HandlerOK
      <4>3. row' \in [Items -> Row] /\ itemState' \in [Items -> ItemState]
        BY <2>12, <3>2, StampedTyped DEF UpdateItemRow, TypeOK, ItemState, ItemVisible, RowExists
      <4>4. req[r].list \in Lists
        BY <2>12 DEF UpdateItemRow, At, TypeOK, HandlerOK, ItemOps
      <4> QED
        BY <2>12, <3>2, <4>1, <4>2, <4>3, <4>4 DEF UpdateItemRow, TypeOK, Changed, Overtake, Topic
    <3> QED BY <3>1, <3>2
  <2>13. ASSUME NEW r \in Requests, SoftDeleteItem(r) PROVE TypeOK'
    <3>1. CASE NotFound(r)
      BY <2>2, <3>1
    <3>2. CASE ~NotFound(r)
      <4>1. Goto(r, "publish") /\ pc[r] \notin {"new", "done"}
        BY <2>13, <3>2 DEF SoftDeleteItem, At
      <4>2. /\ pc' \in [Requests -> Pc]
            /\ req' \in [Requests -> Request]
            /\ \A p \in Requests : HandlerOK(p)'
        BY <2>13, <3>2, <4>1, HandlerGoes DEF SoftDeleteItem, At, Pc, TypeOK, HandlerOK
      <4>3. row' \in [Items -> Row] /\ itemState' \in [Items -> ItemState]
        BY <2>13, <3>2, StampedTyped DEF SoftDeleteItem, TypeOK, ItemState, ItemVisible, RowExists
      <4>4. req[r].list \in Lists
        BY <2>13 DEF SoftDeleteItem, At, TypeOK, HandlerOK, ItemOps
      <4> QED
        BY <2>13, <3>2, <4>1, <4>2, <4>3, <4>4 DEF SoftDeleteItem, TypeOK, Changed, Overtake, Topic
    <3> QED BY <3>1, <3>2
  <2>14. ASSUME NEW r \in Requests, RestoreItemRow(r) PROVE TypeOK'
    <3>1. CASE NotFound(r)
      BY <2>2, <3>1
    <3>2. CASE ~NotFound(r)
      <4>1. Goto(r, "reread") /\ pc[r] \notin {"new", "done"}
        BY <2>14, <3>2 DEF RestoreItemRow, At
      <4>2. /\ pc' \in [Requests -> Pc]
            /\ req' \in [Requests -> Request]
            /\ \A p \in Requests : HandlerOK(p)'
        BY <2>14, <3>2, <4>1, HandlerGoes DEF RestoreItemRow, At, Pc, TypeOK, HandlerOK
      <4>3. row' \in [Items -> Row] /\ itemState' \in [Items -> ItemState]
        BY <2>14, <3>2, StampedTyped DEF RestoreItemRow, TypeOK, ItemState, ItemVisible, RowExists
      <4>4. req[r].list \in Lists
        BY <2>14 DEF RestoreItemRow, At, TypeOK, HandlerOK, ItemOps
      <4> QED
        BY <2>14, <3>2, <4>1, <4>2, <4>3, <4>4 DEF RestoreItemRow, TypeOK, Changed, Overtake, Topic
    <3> QED BY <3>1, <3>2
  <2>15. ASSUME NEW r \in Requests, LoadForCheck(r) PROVE TypeOK'
    <3>1. CASE NotFound(r)
      BY <2>2, <3>1
    <3>2. CASE ~NotFound(r)
      <4>1. Goto(r, IF row[req[r].item].checked = (req[r].op = "check") THEN "publish" ELSE "write") /\ pc[r] \notin {"new", "done"}
        BY <2>15, <3>2 DEF LoadForCheck
      <4>2. /\ pc' \in [Requests -> Pc]
            /\ req' \in [Requests -> Request]
            /\ \A p \in Requests : HandlerOK(p)'
        BY <2>15, <3>2, <4>1, HandlerGoes DEF LoadForCheck, Pc, TypeOK, HandlerOK
      <4> QED
        BY <2>15, <3>2, <4>1, <4>2 DEF LoadForCheck, TypeOK, table, ghosts
    <3> QED BY <3>1, <3>2
  <2>16. ASSUME NEW r \in Requests, WriteChecked(r) PROVE TypeOK'
    <3>1. CASE NotFound(r)
      BY <2>2, <3>1
    <3>2. CASE ~NotFound(r)
      <4> DEFINE buyer == IF req[r].op = "check" THEN req[r].actor ELSE None
      <4>1. SetChecked(r, req[r], buyer) /\ pc[r] = "write"
        BY <2>16, <3>2 DEF WriteChecked
      <4>2. /\ pc' \in [Requests -> Pc]
            /\ req' \in [Requests -> Request]
            /\ \A p \in Requests : HandlerOK(p)'
        BY <4>1, HandlerGoes DEF SetChecked, TypeOK, HandlerOK, Pc
      <4>3. buyer \in Actors \cup {None} /\ req[r].list \in Lists
        BY <4>1 DEF TypeOK, HandlerOK, ItemOps
      <4>4. row' \in [Items -> Row]
        <5> HIDE DEF buyer
        <5> QED BY <4>1, <4>3, MarkedTyped DEF SetChecked, TypeOK
      <4> QED
        <5> HIDE DEF buyer
        <5> QED BY <4>1, <4>2, <4>3, <4>4 DEF SetChecked, Changed, Overtake, Topic, TypeOK
    <3> QED BY <3>1, <3>2
  <2>17. ASSUME NEW r \in Requests, ReadItem(r) PROVE TypeOK'
    <3>1. CASE NotFound(r)
      BY <2>2, <3>1
    <3>2. CASE ~NotFound(r)
      <4>1. Goto(r, "publish") /\ pc[r] \notin {"new", "done"}
        BY <2>17, <3>2 DEF ReadItem
      <4>2. /\ pc' \in [Requests -> Pc]
            /\ req' \in [Requests -> Request]
            /\ \A p \in Requests : HandlerOK(p)'
        BY <2>17, <3>2, <4>1, HandlerGoes DEF ReadItem, Pc, TypeOK, HandlerOK
      <4> QED
        BY <2>17, <3>2, <4>1, <4>2 DEF ReadItem, TypeOK, table, ghosts
    <3> QED BY <3>1, <3>2
  <2>18. ASSUME NEW r \in Requests, Publish(r) PROVE TypeOK'
    BY <2>18, HandlerReturns DEF Publish, TypeOK, table
  <2>19. ASSUME NEW r \in Requests, FailRequest(r) PROVE TypeOK'
    <3>1. Finish(r)
      BY <2>19 DEF FailRequest
    <3>2. /\ listState' \in [Lists -> ListState] /\ createdBy' \in [Lists -> Actors \cup {None}]
          /\ itemState' \in [Items -> ItemState]
      BY <2>19 DEF FailRequest, TypeOK, ListState, ItemState
    <3>3. row' \in [Items -> Row]
      BY <2>19, NoRowTyped DEF FailRequest, TypeOK
    <3> QED
      BY <2>19, <3>1, <3>2, <3>3, HandlerReturns DEF FailRequest, TypeOK
  <2> QED
    BY <2>1, <2>3, <2>4, <2>5, <2>6, <2>7, <2>8, <2>9, <2>10, <2>11, <2>12, <2>13, <2>14, <2>15, <2>16, <2>17, <2>18, <2>19, <2>0
       DEF Next, Step, ListStep, ItemStep, Answered
<1> QED
  BY <1>1, <1>2, PTL DEF Spec

-----------------------------------------------------------------------------
(* Frames: what a step leaves alone.                                       *)

\* One handler's step moves no other handler.
LEMMA OthersStay ==
  ASSUME TypeOK, NEW r \in Requests, Arrive(r) \/ Step(r) \/ FailRequest(r)
  PROVE  \A p \in Requests \ {r} : pc'[p] = pc[p] /\ req'[p] = req[p]
<1>1. CASE Arrive(r)
  BY <1>1 DEF Arrive, TypeOK
<1>2. CASE ListStep(r)
  BY <1>2 DEF ListStep, InsertList, UpdateListName, DeleteListRow, ReadList, LoadCopySource,
              LockCopySource, CopyRows, CommitCopy, NotFound, Finish, Goto, TypeOK
<1>3. CASE ItemStep(r)
  BY <1>3 DEF ItemStep, InsertItem, UpdateItemRow, SoftDeleteItem, RestoreItemRow,
              LoadForCheck, WriteChecked, SetChecked, ReadItem, NotFound, Finish, Goto, TypeOK
<1>4. CASE Publish(r) \/ FailRequest(r)
  BY <1>4 DEF Publish, FailRequest, Finish, TypeOK
<1> QED
  BY <1>1, <1>2, <1>3, <1>4 DEF Step

-----------------------------------------------------------------------------
(* Copies, cascades and rollbacks.                                         *)

CopyInv == ItemsFollowTheirList /\ CopyIsolated

\* The steps of one handler keep every item on its list and every copy apart:
\* the foreign key, the cascade, the lock and the rollback do it together.
LEMMA CopyStep ==
  ASSUME TypeOK, CopyInv, NEW r \in Requests, Arrive(r) \/ Step(r) \/ FailRequest(r)
  PROVE  CopyInv'
<1> USE DEF CopyInv, TypeOK
<1>0. \A p \in Requests \ {r} : pc'[p] = pc[p] /\ req'[p] = req[p]
  BY OthersStay
<1>1. CASE NotFound(r)
  BY <1>0, <1>1 DEF NotFound, Finish, table, ItemsFollowTheirList, CopyIsolated, ListVisible
<1>2. CASE Arrive(r)
  BY <1>0, <1>2 DEF Arrive, table, ItemsFollowTheirList, CopyIsolated, ListVisible
<1>3. CASE InsertList(r)
  BY <1>0, <1>3 DEF InsertList, ItemsFollowTheirList, CopyIsolated, ListVisible
<1>4. CASE UpdateListName(r)
  BY <1>0, <1>1, <1>4 DEF UpdateListName, Goto, table, ItemsFollowTheirList, CopyIsolated, ListVisible
<1>5. CASE DeleteListRow(r)
  <2>1. CASE ~NotFound(r)
    <3>1. ItemsFollowTheirList'
      BY <1>5, <2>1 DEF DeleteListRow, DropRows, ItemsOn, ItemsFollowTheirList, ListVisible
    <3>2. pc'[r] = "publish" /\ keyShare' = keyShare
      BY <1>5, <2>1 DEF DeleteListRow, DropRows, Goto
    <3>3. \A l \in Lists : listState'[l] # listState[l] =>
                            /\ listState[l] = "live"
                            /\ \A q \in Requests : <<q, l>> \notin keyShare
      BY <1>5, <2>1 DEF DeleteListRow, DropRows, ListVisible
    <3>4. CopyIsolated'
      BY <1>0, <3>2, <3>3 DEF CopyIsolated, ListVisible, HandlerOK
    <3> QED BY <3>1, <3>4
  <2> QED BY <1>1, <2>1
<1>6. CASE LoadCopySource(r)
  BY <1>0, <1>1, <1>6 DEF LoadCopySource, Goto, table, ItemsFollowTheirList, CopyIsolated, ListVisible
<1>7. CASE LockCopySource(r)
  BY <1>0, <1>1, <1>7 DEF LockCopySource, Goto, ItemsFollowTheirList, CopyIsolated, ListVisible
<1>8. CASE CopyRows(r)
  <2>1. PICK l \in Lists, copies \in SUBSET Unborn :
          /\ listState[l] = "unborn"
          /\ listState' = [listState EXCEPT ![l] = "draft"]
          /\ itemState' = [i \in Items |-> IF i \in copies THEN "draft" ELSE itemState[i]]
          /\ row' = [i \in Items |-> IF i \in copies
                                     THEN [NoRow EXCEPT !.list = l, !.addedBy = req[r].actor]
                                     ELSE row[i]]
          /\ req' = [req EXCEPT ![r].made = l]
    BY <1>8 DEF CopyRows
  <2>2. [NoRow EXCEPT !.list = l, !.addedBy = req[r].actor].list = l
    BY DEF NoRow
  <2>3. ItemsFollowTheirList'
    BY <2>1, <2>2 DEF ItemsFollowTheirList, ListVisible, Unborn
  <2>4. req'[r].made = l /\ req'[r].list = req[r].list
    BY <2>1 DEF Request
  <2>5. \A p \in Requests \ {r} : pc[p] = "commit" => req[p].made # l
    BY <2>1 DEF CopyIsolated
  <2>6. CopyIsolated'
    BY <1>0, <1>8, <2>1, <2>4, <2>5 DEF CopyRows, At, CopyIsolated, ListVisible
  <2> QED BY <2>3, <2>6
<1>9. CASE CommitCopy(r)
  <2>1. req' = req /\ pc'[r] = "reread" /\ pc[r] = "commit"
    BY <1>9 DEF CommitCopy, Goto, At
  <2>2. ItemsFollowTheirList'
    BY <1>9, <2>1 DEF CommitCopy, ItemsFollowTheirList, ListVisible
  <2>3. CopyIsolated'
    BY <1>0, <1>9, <2>1 DEF CommitCopy, CopyIsolated, ListVisible
  <2> QED BY <2>2, <2>3
<1>10. CASE ReadList(r) \/ ReadItem(r) \/ LoadForCheck(r)
  BY <1>0, <1>1, <1>10 DEF ReadList, ReadItem, LoadForCheck, Goto, table, ItemsFollowTheirList,
                           CopyIsolated, ListVisible
<1>11. CASE InsertItem(r)
  BY <1>0, <1>1, <1>11 DEF InsertItem, Unborn, ItemsFollowTheirList, CopyIsolated, ListVisible
<1>12. CASE UpdateItemRow(r) \/ SoftDeleteItem(r) \/ RestoreItemRow(r)
  BY <1>0, <1>1, <1>12, StampedTyped
     DEF UpdateItemRow, SoftDeleteItem, RestoreItemRow, Goto, ItemVisible, RowExists,
         ItemsFollowTheirList, CopyIsolated, ListVisible
<1>13. CASE WriteChecked(r)
  <2>1. CASE ~NotFound(r)
    <3>1. PICK w \in Row : row' = [row EXCEPT ![req[r].item] = w] /\ w.list = row[req[r].item].list
      <4> DEFINE buyer == IF req[r].op = "check" THEN req[r].actor ELSE None
                 w == Marked(row[req[r].item], req[r].op = "check", buyer)
      <4>1. ItemVisible(req[r]) /\ row' = [row EXCEPT ![req[r].item] = w]
        BY <1>13, <2>1 DEF WriteChecked, SetChecked
      <4>2. buyer \in Actors \cup {None}
        BY <1>13 DEF WriteChecked, HandlerOK
      <4>3. w \in Row /\ w.list = row[req[r].item].list
        <5> HIDE DEF buyer
        <5> QED BY <4>1, <4>2, MarkedTyped DEF ItemVisible
      <4> QED BY <4>1, <4>3
    <3> QED
      BY <1>0, <1>13, <2>1, <3>1
         DEF WriteChecked, SetChecked, Goto, ItemsFollowTheirList, CopyIsolated, ListVisible
  <2> QED BY <1>1, <2>1
<1>14. CASE Publish(r)
  BY <1>0, <1>14 DEF Publish, Finish, table, ItemsFollowTheirList, CopyIsolated, ListVisible
<1>15. CASE FailRequest(r)
  <2>1. pc'[r] = "done"
    BY <1>15 DEF FailRequest, Finish
  <2>2. ItemsFollowTheirList'
    BY <1>15 DEF FailRequest, ItemsFollowTheirList, CopyIsolated, ListVisible
  <2>3. CopyIsolated'
    <3>1. \A l \in Lists : listState'[l] # listState[l] => pc[r] = "commit" /\ req[r].made = l
      BY <1>15 DEF FailRequest
    <3>2. \A k \in keyShare : k[1] # r => k \in keyShare'
      BY <1>15 DEF FailRequest
    <3>3. \A p \in Requests \ {r} : pc[p] = "commit" => req[p].made \in Lists
      BY DEF HandlerOK
    <3> SUFFICES ASSUME NEW p \in Requests, pc'[p] \in {"rows", "commit"}
                 PROVE  /\ ListVisible(req[p].list)' /\ <<p, req'[p].list>> \in keyShare'
                        /\ pc'[p] = "commit" =>
                             /\ listState'[req'[p].made] = "draft"
                             /\ \A q \in Requests : pc'[q] = "commit" /\ req'[q].made = req'[p].made => q = p
      BY DEF CopyIsolated
    <3>4. p # r /\ pc'[p] = pc[p] /\ req'[p] = req[p]
      BY <1>0, <2>1
    <3>5. ListVisible(req[p].list)'
      BY ZenonT(60), <3>1, <3>4 DEF CopyIsolated, ListVisible
    <3>6. <<p, req[p].list>> \in keyShare'
      BY <3>2, <3>4 DEF CopyIsolated
    <3>7. ASSUME pc[p] = "commit" PROVE listState'[req[p].made] = "draft"
      BY <3>1, <3>3, <3>4, <3>7 DEF CopyIsolated
    <3>8. ASSUME pc[p] = "commit", NEW q \in Requests, pc'[q] = "commit", req'[q].made = req[p].made
          PROVE  q = p
      <4> HIDE DEF TypeOK
      <4>1. pc[q] = "commit" /\ req[q].made = req[p].made
        BY <1>0, <2>1, <3>8
      <4> QED BY <3>8, <4>1 DEF CopyIsolated
    <3> QED
      BY <3>4, <3>5, <3>6, <3>7, <3>8
  <2> QED BY <2>2, <2>3
<1> QED
  BY <1>2, <1>3, <1>4, <1>5, <1>6, <1>7, <1>8, <1>9, <1>10, <1>11, <1>12, <1>13, <1>14, <1>15
     DEF Step, ListStep, ItemStep

-----------------------------------------------------------------------------
(* Purchases.                                                              *)

\* The statements that write checked, checked_at and bought_by write all three.
LEMMA PurchaseStep ==
  ASSUME TypeOK, PurchaseRecordsAgree, NEW r \in Requests, Arrive(r) \/ Step(r) \/ FailRequest(r)
  PROVE  PurchaseRecordsAgree'
<1> USE DEF TypeOK, PurchaseRecordsAgree
<1>1. CASE UNCHANGED row
  BY <1>1
<1>2. CASE DeleteListRow(r) \/ FailRequest(r)
  <2>1. NoRow.checked = FALSE /\ NoRow.checkedAt = FALSE /\ NoRow.boughtBy = None
    BY DEF NoRow
  <2>2. \A i \in Items : row'[i] \in {row[i], NoRow}
    BY <1>2 DEF DeleteListRow, DropRows, FailRequest, NotFound, table
  <2> QED BY <2>1, <2>2
<1>3. CASE CopyRows(r)
  <2>1. \A l \in Lists, a \in Actors \cup {None} :
          LET w == [NoRow EXCEPT !.list = l, !.addedBy = a]
          IN  w.checked = FALSE /\ w.checkedAt = FALSE /\ w.boughtBy = None
    BY DEF NoRow
  <2>2. req[r].actor \in Actors \cup {None}
    BY DEF Request
  <2>3. PICK l \in Lists, copies \in SUBSET Unborn :
          row' = [i \in Items |-> IF i \in copies
                                  THEN [NoRow EXCEPT !.list = l, !.addedBy = req[r].actor]
                                  ELSE row[i]]
    BY <1>3 DEF CopyRows
  <2> QED BY ZenonT(60), <2>1, <2>2, <2>3
<1>4. CASE InsertItem(r)
  <2>1. CASE NotFound(r)
    BY <2>1 DEF NotFound, table
  <2>2. CASE ~NotFound(r)
    <3>1. req[r].actor \in Actors /\ req[r].folded \in BOOLEAN
      BY <1>4 DEF InsertItem, At, HandlerOK, Request
    <3> DEFINE w == [list |-> req[r].list, checked |-> req[r].folded,
                     checkedAt |-> req[r].folded, addedBy |-> req[r].actor,
                     boughtBy |-> IF req[r].folded THEN req[r].actor ELSE None,
                     rev |-> FALSE]
    <3>2. PICK i \in Unborn : row' = [row EXCEPT ![i] = w]
      BY <1>4, <2>2 DEF InsertItem
    <3>3. /\ w.checkedAt = w.checked
          /\ w.boughtBy # None => w.checked
          /\ w.checked => w.boughtBy # None
      BY <3>1, StoreAssumption
    <3> HIDE DEF w
    <3> QED BY <3>2, <3>3
  <2> QED BY <2>1, <2>2
<1>5. CASE UpdateItemRow(r) \/ SoftDeleteItem(r) \/ RestoreItemRow(r)
  <2>1. CASE NotFound(r)
    BY <2>1 DEF NotFound, table
  <2>2. CASE ~NotFound(r)
    BY <1>5, <2>2, StampedTyped
       DEF UpdateItemRow, SoftDeleteItem, RestoreItemRow, ItemVisible, RowExists
  <2> QED BY <2>1, <2>2
<1>6. CASE WriteChecked(r)
  <2>1. CASE NotFound(r)
    BY <2>1 DEF NotFound, table
  <2>2. CASE ~NotFound(r)
    <3> DEFINE bought == req[r].op = "check"
               buyer == IF bought THEN req[r].actor ELSE None
               w == Marked(row[req[r].item], bought, buyer)
    <3>1. ItemVisible(req[r]) /\ row' = [row EXCEPT ![req[r].item] = w]
      BY <1>6, <2>2 DEF WriteChecked, SetChecked
    <3>2. buyer \in Actors \cup {None} /\ (bought => buyer \in Actors) /\ (~bought => buyer = None)
      BY <1>6 DEF WriteChecked, HandlerOK
    <3>3. w.checked = bought /\ w.checkedAt = bought /\ w.boughtBy = buyer
      <4>1. bought \in BOOLEAN
        OBVIOUS
      <4> HIDE DEF bought, buyer
      <4> QED BY <3>1, <3>2, <4>1, MarkedTyped DEF ItemVisible
    <3> HIDE DEF bought, buyer, w
    <3> QED BY <3>1, <3>2, <3>3, StoreAssumption
  <2> QED BY <2>1, <2>2
<1> QED
  BY <1>1, <1>2, <1>3, <1>4, <1>5, <1>6
     DEF Step, ListStep, ItemStep, Arrive, InsertList, UpdateListName, ReadList, LoadCopySource,
         LockCopySource, CommitCopy, LoadForCheck, ReadItem, Publish, NotFound, table

-----------------------------------------------------------------------------
(* Announcements.                                                          *)

\* The row request p reads back stays visible.
ReadBackKept(p) ==
  pc[p] = "reread" =>
    IF req[p].op \in ItemOps
    THEN ItemVisible(req[p]) => ItemVisible(req[p])'
    ELSE ListVisible(ListReadBack(req[p])) => ListVisible(ListReadBack(req[p]))'

\* A handler that owes an event goes on owing it while another one moves and
\* leaves the row it is about to read back where it was.
LEMMA OwesKept ==
  ASSUME NEW p, NEW t, Owes(p, t), pc'[p] = pc[p], req'[p] = req[p], ReadBackKept(p)
  PROVE  Owes(p, t)'
  BY DEF Owes, TopicOf, NoRequest, ReadBackKept

\* A step of r keeps the promise if each topic it leaves unannounced is now owed
\* by r, swallowed, or owed by the same handler as before.
LEMMA PromiseKept ==
  ASSUME TypeOK, EveryChangeAnnounced, NEW r \in Requests,
         Arrive(r) \/ Step(r) \/ FailRequest(r),
         \A t \in unannounced' :
            \/ t \in lost' \/ Owes(r, t)'
            \/ /\ t \in unannounced /\ t \notin lost /\ ~Owes(r, t)
               /\ \A p \in Requests \ {r} : TopicOf(req[p]) = t => ReadBackKept(p)
  PROVE  EveryChangeAnnounced'
<1> SUFFICES ASSUME NEW t \in unannounced, t \notin lost, ~Owes(r, t),
                    \A p \in Requests \ {r} : TopicOf(req[p]) = t => ReadBackKept(p)
             PROVE  \E p \in Requests : Owes(p, t)'
  BY DEF EveryChangeAnnounced
<1>1. PICK p \in Requests : Owes(p, t)
  BY DEF EveryChangeAnnounced
<1>2. p # r /\ TopicOf(req[p]) = t
  BY <1>1 DEF Owes
<1>3. pc'[p] = pc[p] /\ req'[p] = req[p]
  BY <1>2, OthersStay
<1>4. Owes(p, t)'
  BY <1>1, <1>2, <1>3, OwesKept
<1> QED BY <1>4

\* A write is announced whatever the other handlers do before its event is out.
LEMMA AnnounceStep ==
  ASSUME TypeOK, TypeOK', CopyInv, EveryChangeAnnounced, NEW r \in Requests,
         Arrive(r) \/ Step(r) \/ FailRequest(r)
  PROVE  EveryChangeAnnounced'
<1>0. \A p \in Requests \ {r} : pc'[p] = pc[p] /\ req'[p] = req[p]
  BY OthersStay
<1>1. ASSUME UNCHANGED <<listState, itemState, row>>, NEW p \in Requests \ {r}
      PROVE  ReadBackKept(p)
  BY <1>0, <1>1 DEF ReadBackKept, ItemVisible, ListVisible
<1>2. ASSUME pc[r] \notin {"reread", "publish"}, NEW t
      PROVE  ~Owes(r, t)
  BY <1>2 DEF Owes
\* The rows another handler sees stay where they are, except those r deletes.
<1>3. ASSUME NEW p \in Requests \ {r},
             \A l \in Lists : listState[l] = "live" => listState'[l] = "live",
             \A i \in Items : itemState[i] = "live" => itemState'[i] = "live" /\ row'[i].list = row[i].list
      PROVE  ReadBackKept(p)
  BY <1>0, <1>3 DEF ReadBackKept, ItemVisible, ListVisible, ListReadBack
<1>4. CASE NotFound(r) /\ \A t \in Topic : ~Owes(r, t)
  BY <1>1, <1>4, PromiseKept DEF NotFound, table, TypeOK
<1>5. CASE Arrive(r) \/ (LoadCopySource(r) /\ ~NotFound(r))
           \/ (LoadForCheck(r) /\ ~NotFound(r))
  BY <1>1, <1>2, <1>5, PromiseKept
     DEF Arrive, LoadCopySource, LoadForCheck, At, table, ghosts, EveryChangeAnnounced
<1>6. CASE LockCopySource(r) /\ ~NotFound(r)
  BY <1>1, <1>2, <1>6, PromiseKept DEF LockCopySource, At, ghosts
<1>7. CASE InsertList(r)
  <2>1. PICK l \in Lists : /\ listState' = [listState EXCEPT ![l] = "live"]
                           /\ req' = [req EXCEPT ![r].made = l]
    BY <1>7 DEF InsertList
  <2>2. req'[r].made = l /\ req'[r].op = "createList" /\ pc'[r] = "reread" /\ listState'[l] = "live"
    BY <1>7, <2>1 DEF InsertList, At, TypeOK, Request
  <2>3. Owes(r, Overview)'
    BY <2>2 DEF Owes, TopicOf, NoRequest, ListOps, ItemOps, ListVisible, ListReadBack
  <2>4. \A p \in Requests \ {r} : ReadBackKept(p)
    BY <1>3, <1>7, <2>1 DEF InsertList, TypeOK
  <2> QED
    BY <1>2, <1>7, <2>3, <2>4, PromiseKept DEF InsertList, At, Changed, EveryChangeAnnounced
<1>8. CASE UpdateListName(r) /\ ~NotFound(r)
  <2>1. Owes(r, Overview)'
    BY <1>8 DEF UpdateListName, Goto, At, Owes, TopicOf, NoRequest, ItemOps, ListVisible,
                ListReadBack, table, TypeOK
  <2> QED
    BY <1>1, <1>2, <1>8, <2>1, PromiseKept
       DEF UpdateListName, At, Changed, table
<1>9. CASE DeleteListRow(r) /\ ~NotFound(r)
  <2>1. Owes(r, Overview)'
    BY <1>9 DEF DeleteListRow, Goto, At, Owes, TopicOf, NoRequest, ItemOps, TypeOK
  <2>2. ASSUME NEW t \in unannounced', t # Overview
        PROVE  t \in unannounced /\ t # req[r].list /\ (t \in lost => t \in lost')
    BY <1>9, <2>2 DEF DeleteListRow, DropRows
  <2>3. ASSUME NEW p \in Requests \ {r}, TopicOf(req[p]) # Overview, TopicOf(req[p]) # req[r].list
        PROVE  ReadBackKept(p)
    <3>1. req[p].op \in ItemOps /\ req[p].list # req[r].list
      BY <2>3 DEF TopicOf
    <3>2. ASSUME ItemVisible(req[p]) PROVE ItemVisible(req[p])'
      BY <1>0, <1>9, <3>1, <3>2 DEF DeleteListRow, DropRows, ItemsOn, ItemVisible, TypeOK
    <3> QED BY <3>1, <3>2 DEF ReadBackKept
  <2> QED
    BY <1>2, <1>9, <2>1, <2>2, <2>3, PromiseKept DEF DeleteListRow, At, TypeOK, Topic
<1>10. CASE CopyRows(r)
  <2>1. PICK l \in Lists, copies \in SUBSET Unborn :
          /\ listState[l] = "unborn"
          /\ listState' = [listState EXCEPT ![l] = "draft"]
          /\ itemState' = [i \in Items |-> IF i \in copies THEN "draft" ELSE itemState[i]]
          /\ \A i \in Items \ copies : row'[i] = row[i]
    BY <1>10 DEF CopyRows
  <2>2. \A p \in Requests \ {r} : ReadBackKept(p)
    BY <1>3, <2>1 DEF Unborn, TypeOK
  <2> QED
    BY <1>2, <1>10, <2>2, PromiseKept DEF CopyRows, At, ghosts, EveryChangeAnnounced
<1>11. CASE CommitCopy(r)
  <2>1. Owes(r, Overview)'
    BY <1>11 DEF CommitCopy, Goto, At, Owes, TopicOf, NoRequest, ItemOps, ListVisible,
                 ListReadBack, TypeOK, HandlerOK
  <2>2. \A p \in Requests \ {r} : ReadBackKept(p)
    BY <1>3, <1>11 DEF CommitCopy, TypeOK
  <2> QED
    BY <1>2, <1>11, <2>1, <2>2, PromiseKept DEF CommitCopy, At, Changed, EveryChangeAnnounced
<1>12. CASE (ReadList(r) \/ ReadItem(r)) /\ ~NotFound(r)
  <2>1. \A t : Owes(r, t) => Owes(r, t)'
    BY <1>12 DEF ReadList, ReadItem, Goto, Owes, TypeOK, TopicOf
  <2>2. UNCHANGED <<listState, itemState, row, unannounced, lost>>
    BY <1>12 DEF ReadList, ReadItem, table, ghosts
  <2> QED
    BY <1>1, <1>12, <2>1, <2>2, PromiseKept DEF EveryChangeAnnounced, Step, ListStep, ItemStep
<1>13. CASE InsertItem(r) /\ ~NotFound(r)
  <2> DEFINE l == req[r].list
  <2>1. PICK i \in Unborn : /\ itemState' = [itemState EXCEPT ![i] = "live"]
                            /\ req' = [req EXCEPT ![r].item = i]
                            /\ \E w : row' = [row EXCEPT ![i] = w] /\ w.list = l
    BY <1>13 DEF InsertItem
  <2>2. /\ req'[r].item = i /\ req'[r].list = l /\ req'[r].op = "addItem" /\ pc'[r] = "reread"
        /\ row'[i].list = l /\ itemState'[i] = "live" /\ i \in Items
    BY <1>13, <2>1 DEF InsertItem, At, TypeOK, Request, Unborn
  <2>3. Owes(r, l)'
    BY <2>2 DEF Owes, TopicOf, NoRequest, ItemOps, ItemVisible
  <2>4. \A p \in Requests \ {r} : ReadBackKept(p)
    <3>1. listState' = listState
      BY <1>13 DEF InsertItem
    <3>2. \A j \in Items : itemState[j] = "live" => itemState'[j] = "live" /\ row'[j].list = row[j].list
      BY <2>1 DEF Unborn, TypeOK
    <3> QED BY <1>3, <3>1, <3>2
  <2> QED
    BY <1>2, <1>13, <2>2, <2>3, <2>4, PromiseKept DEF InsertItem, At, Changed, EveryChangeAnnounced
<1>14. CASE (UpdateItemRow(r) \/ RestoreItemRow(r)) /\ ~NotFound(r)
  <2> DEFINE i == req[r].item
  <2>1. /\ i \in Items /\ row[i].list = req[r].list /\ itemState[i] \in {"live", "deleted"}
        /\ row' = [row EXCEPT ![i] = Stamped(row[i])]
        /\ itemState'[i] = "live" /\ \A j \in Items \ {i} : itemState'[j] = itemState[j]
        /\ req' = req /\ pc'[r] = "reread"
        /\ listState' = listState
    BY <1>14 DEF UpdateItemRow, RestoreItemRow, ItemVisible, RowExists, Goto, TypeOK
  <2>2. row'[i].list = req[r].list /\ \A j \in Items : row'[j].list = row[j].list
    BY <2>1, StampedTyped DEF TypeOK
  <2>3. Owes(r, req[r].list)'
    BY <1>14, <2>1, <2>2
       DEF UpdateItemRow, RestoreItemRow, At, Owes, TopicOf, NoRequest, ItemOps, ItemVisible
  <2>4. \A p \in Requests \ {r} : ReadBackKept(p)
    BY <1>3, <2>1, <2>2
  <2>5. Step(r) /\ pc[r] = "first" /\ unannounced' = unannounced \cup {req[r].list} /\ lost' = lost
    BY <1>14 DEF UpdateItemRow, RestoreItemRow, At, Changed, Step, ItemStep
  <2> QED
    BY <1>2, <2>1, <2>3, <2>4, <2>5, PromiseKept DEF EveryChangeAnnounced
\* Whoever reads the deleted row back after this finds it gone; they would have
\* announced the same list, and r now does.
<1>15. CASE SoftDeleteItem(r) /\ ~NotFound(r)
  <2> DEFINE i == req[r].item
  <2>1. /\ i \in Items /\ row[i].list = req[r].list
        /\ row' = [row EXCEPT ![i] = Stamped(row[i])]
        /\ \A j \in Items \ {i} : itemState'[j] = itemState[j]
        /\ req' = req /\ pc'[r] = "publish"
        /\ listState' = listState
    BY <1>15 DEF SoftDeleteItem, ItemVisible, Goto, TypeOK
  <2>2. \A j \in Items : row'[j].list = row[j].list
    BY <2>1, StampedTyped DEF TypeOK
  <2>3. Owes(r, req[r].list)'
    BY <1>15, <2>1 DEF SoftDeleteItem, At, Owes, TopicOf, NoRequest, ItemOps
  <2>4. ASSUME NEW p \in Requests \ {r}, TopicOf(req[p]) # req[r].list
        PROVE  ReadBackKept(p)
    BY <1>0, <2>1, <2>2, <2>4 DEF ReadBackKept, TopicOf, ItemVisible, ListVisible, ListReadBack
  <2>5. Step(r) /\ pc[r] = "first" /\ unannounced' = unannounced \cup {req[r].list} /\ lost' = lost
    BY <1>15 DEF SoftDeleteItem, At, Changed, Step, ItemStep
  <2> QED
    BY <1>2, <2>1, <2>3, <2>4, <2>5, PromiseKept DEF EveryChangeAnnounced
<1>16. CASE WriteChecked(r) /\ ~NotFound(r)
  <2> DEFINE i == req[r].item
  <2>1. PICK bought \in BOOLEAN, buyer \in Actors \cup {None} :
          row' = [row EXCEPT ![i] = Marked(row[i], bought, buyer)]
    <3> DEFINE b == IF req[r].op = "check" THEN req[r].actor ELSE None
    <3>1. row' = [row EXCEPT ![i] = Marked(row[i], req[r].op = "check", b)]
      BY <1>16 DEF WriteChecked, SetChecked
    <3>2. b \in Actors \cup {None} /\ (req[r].op = "check") \in BOOLEAN
      BY <1>16 DEF WriteChecked, TypeOK, HandlerOK
    <3> HIDE DEF b
    <3> QED BY <3>1, <3>2
  <2>2. /\ i \in Items /\ row[i].list = req[r].list /\ itemState[i] = "live"
        /\ UNCHANGED <<itemState, listState, req>> /\ pc'[r] = "reread"
    BY <1>16 DEF WriteChecked, SetChecked, ItemVisible, Goto, TypeOK
  <2>3. \A j \in Items : row'[j].list = row[j].list
    BY <2>1, <2>2, MarkedTyped DEF TypeOK
  <2>4. Owes(r, req[r].list)'
    BY <1>16, <2>2, <2>3
       DEF WriteChecked, TypeOK, HandlerOK, Owes, TopicOf, NoRequest, ItemOps, ItemVisible
  <2>5. \A p \in Requests \ {r} : ReadBackKept(p)
    BY <1>3, <2>2, <2>3
  <2>6. Step(r) /\ pc[r] = "write" /\ unannounced' = unannounced \cup {req[r].list} /\ lost' = lost
    BY <1>16 DEF WriteChecked, SetChecked, Changed, Step, ItemStep
  <2> QED
    BY <1>2, <2>2, <2>4, <2>5, <2>6, PromiseKept DEF EveryChangeAnnounced
<1>17. CASE Publish(r)
  <2>1. \A t : t # TopicOf(req[r]) => ~Owes(r, t)
    BY DEF Owes
  <2>2. \A p \in Requests \ {r} : ReadBackKept(p)
    BY <1>1, <1>17 DEF Publish, table
  <2> QED
    BY <1>17, <2>1, <2>2, PromiseKept DEF Publish, EveryChangeAnnounced
<1>18. CASE FailRequest(r)
  <2>1. \A l \in Lists : listState[l] = "live" => listState'[l] = "live"
    BY <1>18 DEF FailRequest, CopyInv, CopyIsolated
  <2>2. \A i \in Items : itemState[i] = "live" => itemState'[i] = "live" /\ row'[i].list = row[i].list
    BY <1>18 DEF FailRequest
  <2>3. \A p \in Requests \ {r} : ReadBackKept(p)
    BY <1>3, <2>1, <2>2
  <2>4. ASSUME NEW t \in unannounced' PROVE t \in lost' \/ (t \in unannounced /\ t \notin lost /\ ~Owes(r, t))
    BY <1>18, <2>4 DEF FailRequest, Owes
  <2> QED
    BY <2>3, <2>4, PromiseKept
<1> QED
  <2>1. ASSUME Step(r), NotFound(r), ~Publish(r) PROVE \A t : ~Owes(r, t)
    <3>1. CASE pc[r] \notin {"reread", "publish"}
      BY <1>2, <3>1
    <3>2. CASE pc[r] \in {"reread", "publish"}
      <4>1. ReadList(r) \/ ReadItem(r) \/ CommitCopy(r)
        BY <2>1, <3>2
           DEF Step, ListStep, ItemStep, InsertList, UpdateListName, DeleteListRow,
               LoadCopySource, LockCopySource, CopyRows, InsertItem, UpdateItemRow,
               SoftDeleteItem, RestoreItemRow, LoadForCheck, WriteChecked, At
      <4>2. ~CommitCopy(r)
        BY <3>2 DEF CommitCopy, At
      <4>3. pc'[r] = "done"
        BY <2>1 DEF NotFound, Finish, TypeOK
      <4> QED
        BY <4>1, <4>2, <4>3 DEF ReadList, ReadItem, Goto, Owes, ListOps, ItemOps, TypeOK
    <3> QED BY <3>1, <3>2
  <2> QED
    BY <1>4, <1>5, <1>6, <1>7, <1>8, <1>9, <1>10, <1>11, <1>12, <1>13, <1>14, <1>15, <1>16,
       <1>17, <1>18, <2>1 DEF Step, ListStep, ItemStep

-----------------------------------------------------------------------------
(* The invariant of the store.                                             *)

StoreInv == TypeOK /\ CopyInv /\ PurchaseRecordsAgree /\ EveryChangeAnnounced

\* Together the safety invariants of ListStore are inductive.
THEOREM StoreSafe == Spec => []StoreInv
<1>1. Init => StoreInv
  <2> SUFFICES ASSUME Init PROVE StoreInv
    OBVIOUS
  <2>1. ItemsFollowTheirList
    <3> SUFFICES ASSUME NEW i \in Items, itemState[i] # "unborn"
                 PROVE  itemState[i] # "draft" /\ ListVisible(row[i].list)
      BY DEF ItemsFollowTheirList
    <3>1. i \in SeedItems /\ itemState[i] # "draft"
      BY DEF Init
    <3>2. row[i] \in SeedRow
      BY <3>1 DEF Init
    <3> QED
      BY <3>1, <3>2, StoreAssumption DEF Init, ListVisible, SeedRow
  <2>2. CopyIsolated /\ EveryChangeAnnounced
    BY DEF Init, CopyIsolated, EveryChangeAnnounced
  <2>3. PurchaseRecordsAgree
    <3> SUFFICES ASSUME NEW i \in Items
                 PROVE  /\ row[i].checkedAt = row[i].checked
                        /\ row[i].boughtBy # None => row[i].checked
                        /\ i \notin SeedItems /\ row[i].checked => row[i].boughtBy # None
      BY DEF PurchaseRecordsAgree
    <3>1. CASE i \in SeedItems
      <4>1. row[i] \in SeedRow
        BY <3>1 DEF Init
      <4> QED BY <3>1, <4>1 DEF SeedRow
    <3>2. CASE i \notin SeedItems
      <4>1. row[i] = NoRow
        BY <3>2 DEF Init
      <4> QED BY <3>2, <4>1 DEF NoRow
    <3> QED BY <3>1, <3>2
  <2> QED
    BY <2>1, <2>2, <2>3, InitTyped DEF StoreInv, CopyInv
<1>2. StoreInv /\ TypeOK' /\ [Next]_vars => StoreInv'
  <2> SUFFICES ASSUME StoreInv, TypeOK', [Next]_vars PROVE StoreInv'
    OBVIOUS
  <2>1. CASE UNCHANGED vars
    BY <2>1 DEF StoreInv, CopyInv, ItemsFollowTheirList, CopyIsolated, PurchaseRecordsAgree,
                EveryChangeAnnounced, Owes, ListVisible, ItemVisible, vars, table, ghosts
  <2>2. ASSUME NEW r \in Requests, Arrive(r) \/ Step(r) \/ FailRequest(r) PROVE StoreInv'
    BY <2>2, CopyStep, PurchaseStep, AnnounceStep DEF StoreInv
  <2> QED
    BY <2>1, <2>2 DEF Next, Answered
<1> QED
  BY <1>1, <1>2, TypeCorrect, PTL DEF Spec

\* An add racing a delete of its list, a cascade, a copy and its rollback never
\* leave an item behind or ahead of its list (ItemsFollowTheirList).
THEOREM NoOrphans == Spec => []ItemsFollowTheirList
  BY StoreSafe, PTL DEF StoreInv, CopyInv

\* CopyList's FOR KEY SHARE does its work for every number of copies and deletes
\* that run at once (CopyIsolated).
THEOREM CopiesAreIsolated == Spec => []CopyIsolated
  BY StoreSafe, PTL DEF StoreInv, CopyInv

\* The three purchase columns agree whatever requests interleave
\* (PurchaseRecordsAgree).
THEOREM PurchasesAgree == Spec => []PurchaseRecordsAgree
  BY StoreSafe, PTL DEF StoreInv

\* The handlers' rule "re-read, then publish, and only on success" still
\* announces every change no error has swallowed (EveryChangeAnnounced).
THEOREM ChangesAreAnnounced == Spec => []EveryChangeAnnounced
  BY StoreSafe, PTL DEF StoreInv

-----------------------------------------------------------------------------
(* Steps.                                                                  *)

\* Undo brings back exactly what was deleted (DeletedRowsFrozen): every UPDATE
\* but the restore's filters deleted rows.
THEOREM UndoRestores == Spec => DeletedRowsFrozen
<1> DEFINE Frozen(i) ==
      itemState[i] = "deleted" =>
         \/ itemState'[i] = "deleted" /\ row'[i] = row[i]
         \/ itemState'[i] = "live" /\ [row'[i] EXCEPT !.rev = FALSE] = [row[i] EXCEPT !.rev = FALSE]
         \/ itemState'[i] = "gone"
<1>1. TypeOK /\ [Next]_vars => \A i \in Items : Frozen(i)
  <2> SUFFICES ASSUME TypeOK, [Next]_vars, NEW i \in Items, itemState[i] = "deleted"
               PROVE  Frozen(i)
    OBVIOUS
  <2>1. CASE UNCHANGED <<itemState, row>>
    BY <2>1
  <2>2. ASSUME NEW r \in Requests, NotFound(r) PROVE Frozen(i)
    BY <2>2 DEF NotFound, table
  <2>3. ASSUME NEW r \in Requests, DeleteListRow(r) PROVE Frozen(i)
    BY <2>2, <2>3 DEF DeleteListRow, DropRows
  <2>4. ASSUME NEW r \in Requests, CopyRows(r) \/ CommitCopy(r) \/ FailRequest(r) PROVE Frozen(i)
    BY <2>4 DEF CopyRows, CommitCopy, FailRequest, Unborn
  <2>5. ASSUME NEW r \in Requests, InsertItem(r) \/ UpdateItemRow(r) \/ SoftDeleteItem(r)
        PROVE  Frozen(i)
    <3>1. CASE InsertItem(r)
      BY ZenonT(60), <2>2, <3>1 DEF InsertItem, Unborn, TypeOK
    <3>2. CASE UpdateItemRow(r)
      <4>1. CASE ~NotFound(r)
        <5>1. itemState[req[r].item] = "live" /\ itemState' = itemState
          BY <3>2, <4>1 DEF UpdateItemRow, ItemVisible
        <5>2. row'[i] = row[i]
          BY <3>2, <4>1, <5>1 DEF UpdateItemRow, TypeOK
        <5> QED BY <5>1, <5>2
      <4> QED BY <2>2, <4>1
    <3>3. CASE SoftDeleteItem(r)
      BY <2>2, <3>3 DEF SoftDeleteItem, ItemVisible, TypeOK
    <3> QED BY <2>5, <3>1, <3>2, <3>3
  <2>6. ASSUME NEW r \in Requests, RestoreItemRow(r) PROVE Frozen(i)
    <3>1. row[i] \in Row
      BY DEF TypeOK
    <3>2. [Stamped(row[i]) EXCEPT !.rev = FALSE] = [row[i] EXCEPT !.rev = FALSE]
      BY <3>1 DEF Row, Stamped
    <3> QED
      BY ZenonT(60), <2>2, <2>6, <3>2 DEF RestoreItemRow, RowExists, TypeOK
  <2>7. ASSUME NEW r \in Requests, WriteChecked(r) PROVE Frozen(i)
    BY <2>2, <2>7 DEF WriteChecked, SetChecked, ItemVisible, TypeOK
  <2>8. ASSUME NEW r \in Requests,
               \/ Arrive(r) \/ InsertList(r) \/ UpdateListName(r) \/ ReadList(r) \/ ReadItem(r)
               \/ LoadCopySource(r) \/ LockCopySource(r) \/ LoadForCheck(r) \/ Publish(r)
        PROVE  Frozen(i)
    BY <2>1, <2>2, <2>8
       DEF Arrive, InsertList, UpdateListName, ReadList, ReadItem, LoadCopySource,
           LockCopySource, LoadForCheck, Publish, table
  <2>9. UNCHANGED vars => UNCHANGED <<itemState, row>>
    BY DEF vars, table
  <2> HIDE DEF Frozen
  <2> QED
    BY <2>1, <2>3, <2>4, <2>5, <2>6, <2>7, <2>8, <2>9
       DEF Next, Step, ListStep, ItemStep, Answered
<1> QED
  BY <1>1, TypeCorrect, PTL DEF Spec, DeletedRowsFrozen

\* A handler about to write a check either knows the item's state or has been
\* overtaken by another write to it.
FreshLoads ==
  \A r \in Requests :
    pc[r] = "write" /\ ~overtaken[r] =>
      /\ req[r].item \in Items
      /\ itemState[req[r].item] \in {"live", "gone"}
      /\ itemState[req[r].item] = "live" =>
           row[req[r].item].checked # (req[r].op = "check")

\* FreshLoads is inductive on top of the types: whoever writes an item marks all
\* who have loaded it.
LEMMA FreshStep ==
  ASSUME TypeOK, FreshLoads, NEW r \in Requests, Arrive(r) \/ Step(r) \/ FailRequest(r)
  PROVE  FreshLoads'
<1> USE DEF TypeOK
<1>0. \A p \in Requests \ {r} : pc'[p] = pc[p] /\ req'[p] = req[p]
  BY OthersStay
<1>1. ASSUME pc'[r] # "write",
             \A p \in Requests \ {r} :
               pc[p] = "write" /\ ~overtaken'[p] =>
                 /\ ~overtaken[p]
                 /\ LET i == req[p].item IN
                    \/ itemState'[i] = itemState[i] /\ row'[i] = row[i]
                    \/ itemState'[i] = "gone" /\ i \in Items
      PROVE  FreshLoads'
  BY <1>0, <1>1 DEF FreshLoads
<1>2. CASE NotFound(r)
  BY <1>1, <1>2 DEF NotFound, Finish, table
<1>3. CASE \/ Arrive(r) \/ InsertList(r) \/ UpdateListName(r) \/ ReadList(r) \/ ReadItem(r)
           \/ LoadCopySource(r) \/ LockCopySource(r) \/ Publish(r)
  BY <1>1, <1>2, <1>3
     DEF Arrive, InsertList, UpdateListName, ReadList, ReadItem, LoadCopySource,
         LockCopySource, Publish, Goto, Finish, table, ghosts
<1>4. CASE DeleteListRow(r) /\ ~NotFound(r)
  <2>1. pc'[r] # "write" /\ overtaken' = overtaken
    BY <1>4 DEF DeleteListRow, DropRows, Goto
  <2>2. \A i \in Items : \/ itemState'[i] = itemState[i] /\ row'[i] = row[i]
                         \/ itemState'[i] = "gone"
    BY <1>4 DEF DeleteListRow, DropRows
  <2> QED BY <1>1, <2>1, <2>2 DEF FreshLoads
<1>5. CASE CopyRows(r) \/ CommitCopy(r) \/ FailRequest(r)
  <2>1. pc'[r] # "write" /\ \A p \in Requests \ {r} : overtaken'[p] = overtaken[p]
    BY <1>5 DEF CopyRows, CommitCopy, FailRequest, Goto, Finish, ghosts
  <2>2. \A i \in Items : itemState[i] \in {"live", "gone"} =>
                           itemState'[i] = itemState[i] /\ row'[i] = row[i]
    BY <1>5 DEF CopyRows, CommitCopy, FailRequest, Unborn
  <2> QED BY <1>1, <2>1, <2>2 DEF FreshLoads
<1>6. CASE InsertItem(r) /\ ~NotFound(r)
  <2>1. pc'[r] # "write" /\ overtaken' = overtaken
    BY <1>6 DEF InsertItem
  <2>2. \A i \in Items : itemState[i] \in {"live", "gone"} =>
                           itemState'[i] = itemState[i] /\ row'[i] = row[i]
    BY <1>6 DEF InsertItem, Unborn
  <2> QED BY <1>1, <2>1, <2>2 DEF FreshLoads
<1>7. CASE /\ UpdateItemRow(r) \/ SoftDeleteItem(r) \/ RestoreItemRow(r) \/ WriteChecked(r)
           /\ ~NotFound(r)
  <2>1. Overtake(r, req[r].item) /\ pc'[r] # "write"
    BY <1>7 DEF UpdateItemRow, SoftDeleteItem, RestoreItemRow, WriteChecked, SetChecked, Goto
  <2>2. \A i \in Items \ {req[r].item} : itemState'[i] = itemState[i] /\ row'[i] = row[i]
    BY <1>7 DEF UpdateItemRow, SoftDeleteItem, RestoreItemRow, WriteChecked, SetChecked
  <2> QED BY <1>1, <2>1, <2>2 DEF Overtake, FreshLoads
<1>8. CASE LoadForCheck(r) /\ ~NotFound(r)
  BY <1>0, <1>8 DEF LoadForCheck, FreshLoads, Goto, ItemVisible, table, ghosts
<1> QED
  BY <1>2, <1>3, <1>4, <1>5, <1>6, <1>7, <1>8 DEF Step, ListStep, ItemStep

\* Only a check that raced another write to its item takes an item over from its
\* buyer (CreditMovesOnlyInARace): with one person shopping, never.
THEOREM CreditIsKept == Spec => CreditMovesOnlyInARace
<1> DEFINE Kept(i) ==
      /\ itemState[i] \in {"live", "deleted"}
      /\ row[i].checked /\ row'[i].checked /\ row'[i].boughtBy # row[i].boughtBy
      =>
         \E r \in Requests : /\ pc[r] = "write" /\ pc'[r] # "write"
                             /\ req[r].item = i /\ overtaken[r]
<1>1. Init => FreshLoads
  BY DEF Init, FreshLoads
<1>2. TypeOK /\ FreshLoads /\ [Next]_vars => FreshLoads'
  <2>1. UNCHANGED vars /\ FreshLoads => FreshLoads'
    BY DEF vars, table, ghosts, FreshLoads
  <2> QED
    BY <2>1, FreshStep DEF Next, Answered
<1>3. TypeOK /\ FreshLoads /\ [Next]_vars => \A i \in Items : Kept(i)
  <2> SUFFICES ASSUME TypeOK, FreshLoads, [Next]_vars, NEW i \in Items,
                      itemState[i] \in {"live", "deleted"}, row[i].checked
               PROVE  Kept(i)
    OBVIOUS
  <2>1. CASE row'[i].boughtBy = row[i].boughtBy \/ ~row'[i].checked
    BY <2>1
  <2>2. ASSUME NEW r \in Requests, NotFound(r) PROVE row' = row
    BY <2>2 DEF NotFound, table
  <2>3. ASSUME NEW r \in Requests, DeleteListRow(r) \/ FailRequest(r) PROVE Kept(i)
    <3>1. row'[i] \in {row[i], NoRow}
      BY <2>2, <2>3 DEF DeleteListRow, DropRows, FailRequest
    <3>2. NoRow.checked = FALSE
      BY DEF NoRow
    <3> QED BY <2>1, <3>1, <3>2
  <2>4. ASSUME NEW r \in Requests, CopyRows(r) PROVE Kept(i)
    <3>1. i \notin Unborn
      BY DEF Unborn
    <3> QED BY <2>1, <2>4, <3>1 DEF CopyRows
  <2>5. ASSUME NEW r \in Requests, InsertItem(r) PROVE row'[i] = row[i]
    BY <2>2, <2>5 DEF InsertItem, Unborn, TypeOK
  <2>6. ASSUME NEW r \in Requests, UpdateItemRow(r) \/ SoftDeleteItem(r) \/ RestoreItemRow(r)
        PROVE  Kept(i)
    <3>1. row'[i] \in {row[i], Stamped(row[i])}
      BY <2>2, <2>6 DEF UpdateItemRow, SoftDeleteItem, RestoreItemRow, TypeOK
    <3>2. row[i] \in Row
      BY DEF TypeOK
    <3> QED BY <2>1, <3>1, <3>2, StampedTyped
  <2>7. ASSUME NEW r \in Requests, WriteChecked(r) PROVE Kept(i)
    <3>1. CASE NotFound(r) \/ req[r].item # i
      BY <2>1, <2>2, <2>7, <3>1 DEF WriteChecked, SetChecked, TypeOK
    <3>2. CASE ~NotFound(r) /\ req[r].item = i
      <4> DEFINE bought == req[r].op = "check"
                 buyer == IF bought THEN req[r].actor ELSE None
      <4>1. row'[i] = Marked(row[i], bought, buyer) /\ ItemVisible(req[r])
        BY <2>7, <3>2 DEF WriteChecked, SetChecked, TypeOK
      <4>2. row'[i].checked = bought
        <5>1. buyer \in Actors \cup {None} /\ bought \in BOOLEAN /\ row[i] \in Row
          BY <2>7 DEF WriteChecked, TypeOK, HandlerOK
        <5> HIDE DEF bought, buyer
        <5> QED BY <4>1, <5>1, MarkedTyped
      <4>3. ASSUME bought PROVE overtaken[r]
        BY <2>7, <3>2, <4>1, <4>3 DEF WriteChecked, FreshLoads, ItemVisible, TypeOK, Row
      <4>4. pc[r] = "write" /\ pc'[r] # "write"
        BY <2>7, <3>2 DEF WriteChecked, SetChecked, Goto, TypeOK
      <4> QED BY <2>1, <3>2, <4>2, <4>3, <4>4
    <3> QED BY <3>1, <3>2
  <2>8. ASSUME NEW r \in Requests,
               \/ Arrive(r) \/ InsertList(r) \/ UpdateListName(r) \/ ReadList(r) \/ ReadItem(r)
               \/ LoadCopySource(r) \/ LockCopySource(r) \/ LoadForCheck(r) \/ Publish(r)
               \/ CommitCopy(r)
        PROVE  row'[i] = row[i]
    BY <2>2, <2>8
       DEF Arrive, InsertList, UpdateListName, ReadList, ReadItem, LoadCopySource,
           LockCopySource, LoadForCheck, Publish, CommitCopy, table
  <2>9. UNCHANGED vars => row'[i] = row[i]
    BY DEF vars, table
  <2>10. row'[i] = row[i] => Kept(i)
    BY <2>1
  <2> HIDE DEF Kept
  <2> QED
    BY <2>3, <2>4, <2>5, <2>6, <2>7, <2>8, <2>9, <2>10
       DEF Next, Step, ListStep, ItemStep, Answered
<1> QED
  BY <1>1, <1>2, <1>3, TypeCorrect, PTL DEF Spec, CreditMovesOnlyInARace

-----------------------------------------------------------------------------
(* The shopping board.                                                     *)

\* What a copy is about to commit is all its own and still untouched.
DraftsOK ==
  \A r \in Requests :
    pc[r] = "commit" =>
      /\ createdBy[req[r].made] = req[r].actor
      /\ \A i \in Items : itemState[i] = "draft" /\ row[i].list = req[r].made =>
           row[i] = [NoRow EXCEPT !.list = req[r].made, !.addedBy = req[r].actor]

\* The steps that insert no copy leave what the other handlers are copying alone.
LEMMA DraftsStay ==
  ASSUME DraftsOK, NEW r \in Requests, pc'[r] # "commit",
         \A p \in Requests \ {r} : pc'[p] = pc[p] /\ req'[p] = req[p],
         \A p \in Requests \ {r} : pc[p] = "commit" => createdBy'[req[p].made] = createdBy[req[p].made],
         \A i \in Items : itemState'[i] = "draft" => itemState[i] = "draft" /\ row'[i] = row[i]
  PROVE  DraftsOK'
<1> DEFINE made(q) == [NoRow EXCEPT !.list = q.made, !.addedBy = q.actor]
<1>1. ASSUME NEW p \in Requests, pc'[p] = "commit"
      PROVE  /\ createdBy'[req'[p].made] = req'[p].actor
             /\ \A i \in Items : itemState'[i] = "draft" /\ row'[i].list = req'[p].made =>
                  row'[i] = made(req'[p])
  <2>1. pc[p] = "commit" /\ req'[p] = req[p] /\ createdBy'[req[p].made] = createdBy[req[p].made]
    BY <1>1
  <2>2. /\ createdBy[req[p].made] = req[p].actor
        /\ \A i \in Items : itemState[i] = "draft" /\ row[i].list = req[p].made => row[i] = made(req[p])
    BY <2>1 DEF DraftsOK
  <2> HIDE DEF made
  <2> QED BY <2>1, <2>2
<1> QED BY <1>1 DEF DraftsOK

\* A transaction sees its own drafts only until it commits or rolls back.
LEMMA DraftsStep ==
  ASSUME TypeOK, CopyInv, DraftsOK, NEW r \in Requests, Arrive(r) \/ Step(r) \/ FailRequest(r)
  PROVE  DraftsOK'
<1>0. \A p \in Requests \ {r} : pc'[p] = pc[p] /\ req'[p] = req[p]
  BY OthersStay
<1>1. \A p \in Requests : pc[p] = "commit" => listState[req[p].made] = "draft" /\ req[p].made \in Lists
  BY DEF CopyInv, CopyIsolated, TypeOK, HandlerOK
<1> USE DEF TypeOK
<1>2. CASE NotFound(r)
  BY <1>0, <1>2, DraftsStay DEF NotFound, Finish, table
<1>3. CASE Arrive(r)
  BY <1>0, <1>3, DraftsStay DEF Arrive, table
<1>4. CASE InsertList(r)
  BY <1>0, <1>1, <1>4, DraftsStay DEF InsertList
<1>5. CASE UpdateListName(r) \/ ReadList(r) \/ ReadItem(r) \/ LoadForCheck(r)
           \/ LoadCopySource(r) \/ LockCopySource(r)
  <2>1. CASE ~NotFound(r)
    <3>1. UNCHANGED <<createdBy, itemState, row>> /\ pc'[r] # "commit"
      BY <1>5, <2>1 DEF UpdateListName, ReadList, ReadItem, LoadForCheck, LoadCopySource,
                        LockCopySource, Goto, table
    <3> QED BY <1>0, <3>1, DraftsStay
  <2> QED BY <1>2, <2>1
<1>6. CASE DeleteListRow(r)
  <2>1. CASE ~NotFound(r)
    <3>1. /\ pc'[r] # "commit" /\ listState[req[r].list] = "live"
          /\ createdBy' = [createdBy EXCEPT ![req[r].list] = None]
          /\ \A i \in Items : itemState'[i] = "draft" => itemState[i] = "draft" /\ row'[i] = row[i]
      BY <1>6, <2>1 DEF DeleteListRow, DropRows, ListVisible, Goto
    <3> QED BY <1>0, <1>1, <3>1, DraftsStay
  <2> QED BY <1>2, <2>1
<1>7. CASE CopyRows(r)
  <2> DEFINE q == req[r]
  <2>1. PICK l \in Lists, copies \in SUBSET Unborn :
          /\ listState[l] = "unborn"
          /\ createdBy' = [createdBy EXCEPT ![l] = q.actor]
          /\ itemState' = [i \in Items |-> IF i \in copies THEN "draft" ELSE itemState[i]]
          /\ row' = [i \in Items |-> IF i \in copies
                                     THEN [NoRow EXCEPT !.list = l, !.addedBy = q.actor]
                                     ELSE row[i]]
          /\ req' = [req EXCEPT ![r].made = l]
    BY <1>7, Zenon DEF CopyRows
  <2>2. req'[r].made = l /\ req'[r].actor = q.actor
    BY <2>1 DEF Request
  <2>3. \A i \in Items : itemState[i] = "draft" => row[i].list # l /\ i \notin copies
    BY <2>1 DEF CopyInv, ItemsFollowTheirList, Unborn
  <2>4. [NoRow EXCEPT !.list = l, !.addedBy = q.actor].list = l
    BY DEF NoRow
  <2>5. ASSUME NEW p \in Requests, pc'[p] = "commit"
        PROVE  /\ createdBy'[req'[p].made] = req'[p].actor
               /\ \A i \in Items : itemState'[i] = "draft" /\ row'[i].list = req'[p].made =>
                    row'[i] = [NoRow EXCEPT !.list = req'[p].made, !.addedBy = req'[p].actor]
    <3>1. CASE p = r
      BY <2>1, <2>2, <2>3, <3>1
    <3>2. CASE p # r
      <4>1. pc[p] = "commit" /\ req'[p] = req[p] /\ req[p].made \in Lists \ {l}
        BY <1>0, <1>1, <2>1, <2>5, <3>2
      <4>2. createdBy'[req[p].made] = createdBy[req[p].made]
        BY <2>1, <4>1
      <4>3. ASSUME NEW i \in Items, itemState'[i] = "draft", row'[i].list = req[p].made
            PROVE  itemState[i] = "draft" /\ row'[i] = row[i]
        BY <2>1, <2>4, <4>1, <4>3
      <4> DEFINE c == [NoRow EXCEPT !.list = req[p].made, !.addedBy = req[p].actor]
      <4>4. /\ createdBy[req[p].made] = req[p].actor
            /\ \A i \in Items : itemState[i] = "draft" /\ row[i].list = req[p].made => row[i] = c
        BY <4>1 DEF DraftsOK
      <4>5. /\ createdBy'[req[p].made] = req[p].actor
            /\ \A i \in Items : itemState'[i] = "draft" /\ row'[i].list = req[p].made => row'[i] = c
        <5> HIDE DEF c
        <5> QED BY <4>2, <4>3, <4>4
      <4> QED BY <4>1, <4>5
    <3> QED BY <3>1, <3>2
  <2> QED BY <2>5 DEF DraftsOK
<1>8. CASE CommitCopy(r)
  BY <1>0, <1>8, DraftsStay DEF CommitCopy, Goto
<1>9. CASE InsertItem(r) \/ UpdateItemRow(r) \/ SoftDeleteItem(r) \/ RestoreItemRow(r) \/ WriteChecked(r)
  <2>1. CASE ~NotFound(r)
    <3>1. createdBy' = createdBy /\ pc'[r] # "commit"
      BY <1>9, <2>1 DEF InsertItem, UpdateItemRow, SoftDeleteItem, RestoreItemRow, WriteChecked,
                        SetChecked, Goto
    <3>2. \A i \in Items : itemState'[i] = "draft" => itemState[i] = "draft" /\ row'[i] = row[i]
      <4>1. CASE InsertItem(r)
        BY <2>1, <4>1 DEF InsertItem
      <4>2. CASE UpdateItemRow(r)
        BY <2>1, <4>2 DEF UpdateItemRow, ItemVisible
      <4>3. CASE SoftDeleteItem(r)
        BY <2>1, <4>3 DEF SoftDeleteItem, ItemVisible
      <4>4. CASE RestoreItemRow(r)
        BY <2>1, <4>4 DEF RestoreItemRow, RowExists
      <4>5. CASE WriteChecked(r)
        BY <2>1, <4>5 DEF WriteChecked, SetChecked, ItemVisible
      <4> QED BY <1>9, <4>1, <4>2, <4>3, <4>4, <4>5
    <3> QED BY <1>0, <3>1, <3>2, DraftsStay
  <2> QED BY <1>2, <2>1
<1>10. CASE Publish(r)
  BY <1>0, <1>10, DraftsStay DEF Publish, Finish, table
<1>11. CASE FailRequest(r)
  <2>1. \A p \in Requests \ {r} : pc[p] = "commit" => pc[r] # "commit" \/ req[p].made # req[r].made
    BY DEF CopyInv, CopyIsolated
  <2>2. pc'[r] # "commit"
    BY <1>11 DEF FailRequest, Finish
  <2>3. \A p \in Requests \ {r} : pc[p] = "commit" => createdBy'[req[p].made] = createdBy[req[p].made]
    BY <1>1, <1>11, <2>1 DEF FailRequest
  <2>4. \A i \in Items : itemState'[i] = "draft" => itemState[i] = "draft" /\ row'[i] = row[i]
    BY <1>11 DEF FailRequest
  <2> QED BY <1>0, <2>2, <2>3, <2>4, DraftsStay
<1> QED
  BY <1>3, <1>4, <1>5, <1>6, <1>7, <1>8, <1>9, <1>10, <1>11 DEF Step, ListStep, ItemStep

\* What a reader sees of a list, of an item and of its columns.
ListFace(s) == CASE s = "live" -> "present" [] s = "gone" -> "gone" [] OTHER -> "absent"
ItemFace(s) == CASE s = "live" -> "present" [] s = "deleted" -> "hidden" [] s = "gone" -> "gone"
                 [] OTHER -> "absent"
BlankCard == [list |-> None, bought |-> FALSE, addedBy |-> None, boughtBy |-> None]
CardFace(s, w) ==
  IF s \in {"live", "deleted"}
  THEN [list |-> w.list, bought |-> w.checked, addedBy |-> w.addedBy, boughtBy |-> w.boughtBy]
  ELSE BlankCard

TheBoard == [l \in Lists |-> ListFace(listState[l])]
TheAuthors == [l \in Lists |-> IF listState[l] = "live" THEN createdBy[l] ELSE None]
TheShelf == [i \in Items |-> ItemFace(itemState[i])]
TheCards == [i \in Items |-> CardFace(itemState[i], row[i])]

\* What the board shows of the states of a row.
LEMMA Faces ==
  ASSUME NEW s
  PROVE  /\ ListFace("live") = "present" /\ ListFace("gone") = "gone"
         /\ s \notin {"live", "gone"} => ListFace(s) = "absent"
         /\ ItemFace("live") = "present" /\ ItemFace("deleted") = "hidden" /\ ItemFace("gone") = "gone"
         /\ s \notin {"live", "deleted", "gone"} => ItemFace(s) = "absent"
         /\ s \in ItemState => (ItemFace(s) \in {"present", "hidden"} <=> s \in {"live", "deleted"})
  BY DEF ListFace, ItemFace, ItemState

(* The operations of the board in these terms.                             *)

\* The board sees its four functions and nothing else; each lemma below reads one
\* of its actions off them.
LEMMA SeenUnchanged ==
  ASSUME UNCHANGED <<TheBoard, TheAuthors, TheShelf, TheCards>>
  PROVE  UNCHANGED Board!state
  BY DEF TheBoard, TheAuthors, TheShelf, TheCards, ListFace, ItemFace, CardFace, BlankCard, Board!state

\* A list appears, with the items that were copied into it.
LEMMA SeenAppear ==
  ASSUME NEW l \in Lists, NEW a \in Actors, NEW cards \in SUBSET Items,
         TheBoard[l] = "absent", TheBoard' = [TheBoard EXCEPT ![l] = "present"],
         TheAuthors' = [TheAuthors EXCEPT ![l] = a],
         TheShelf' = [j \in Items |-> IF j \in cards THEN "present" ELSE TheShelf[j]],
         TheCards' = [j \in Items |-> IF j \in cards
                                      THEN [BlankCard EXCEPT !.list = l, !.addedBy = a]
                                      ELSE TheCards[j]]
  PROVE  Board!Appear(l, a, cards)
  BY Zenon DEF TheBoard, TheAuthors, TheShelf, TheCards, ListFace, ItemFace, CardFace, BlankCard,
               Board!Appear, Board!Blank

\* ... which is a copy when its source is there.
LEMMA SeenCopy ==
  ASSUME NEW l \in Lists, NEW source \in Lists, NEW a \in Actors, NEW cards \in SUBSET Items,
         TheBoard[source] = "present", \A i \in cards : TheShelf[i] = "absent",
         Board!Appear(l, a, cards)
  PROVE  Board!Copy(source, l, a)
<1>1. \A i \in Items : TheShelf[i] = "absent" => i \in Board!Absent
  BY Zenon DEF TheShelf, ItemFace, Board!Absent
<1>2. cards \in SUBSET Board!Absent
  BY <1>1
<1>3. ASSUME \E c \in SUBSET Board!Absent : Board!Appear(l, a, c), TheBoard[source] = "present"
      PROVE  Board!Copy(source, l, a)
  BY <1>3, Zenon DEF TheBoard, ListFace, Board!Copy
<1> QED BY <1>2, <1>3

\* A list goes with all its items.
LEMMA SeenDiscard ==
  ASSUME NEW l \in Lists, NEW fallen \in SUBSET Items,
         TheBoard[l] = "present", TheBoard' = [TheBoard EXCEPT ![l] = "gone"],
         TheAuthors' = [TheAuthors EXCEPT ![l] = None],
         \A j \in Items : j \in fallen <=>
           TheShelf[j] \in {"present", "hidden"} /\ TheCards[j].list = l,
         TheShelf' = [j \in Items |-> IF j \in fallen THEN "gone" ELSE TheShelf[j]],
         TheCards' = [j \in Items |-> IF j \in fallen THEN BlankCard ELSE TheCards[j]]
  PROVE  Board!Discard(l)
<1>1. fallen = {j \in Items : TheShelf[j] \in {"present", "hidden"} /\ TheCards[j].list = l}
  OBVIOUS
<1>2. Board!On(l) = fallen
  BY <1>1, Zenon DEF TheShelf, TheCards, ItemFace, CardFace, BlankCard, Board!On
<1>3. /\ TheShelf' = [j \in Items |-> IF j \in Board!On(l) THEN "gone" ELSE TheShelf[j]]
      /\ TheCards' = [j \in Items |-> IF j \in Board!On(l) THEN BlankCard ELSE TheCards[j]]
  BY <1>2
<1> QED
  BY <1>3, Zenon DEF TheBoard, TheAuthors, TheShelf, TheCards, ListFace, ItemFace, CardFace, BlankCard,
                     Board!Discard, Board!Blank

\* An item is added.
LEMMA SeenAdd ==
  ASSUME NEW l \in Lists, NEW i \in Items, NEW a \in Actors, NEW b \in BOOLEAN,
         TheBoard[l] = "present", TheShelf[i] = "absent",
         TheShelf' = [TheShelf EXCEPT ![i] = "present"],
         TheCards' = [TheCards EXCEPT ![i] = [list |-> l, bought |-> b, addedBy |-> a,
                                              boughtBy |-> IF b THEN a ELSE None]],
         UNCHANGED <<TheBoard, TheAuthors>>
  PROVE  Board!Add(i, l, a, b)
  BY Zenon DEF TheBoard, TheAuthors, TheShelf, TheCards, ListFace, ItemFace, CardFace, BlankCard, Board!Add

\* It is hidden by its removal,
LEMMA SeenHide ==
  ASSUME NEW i \in Items,
         TheShelf[i] = "present", TheShelf' = [TheShelf EXCEPT ![i] = "hidden"],
         UNCHANGED <<TheBoard, TheAuthors, TheCards>>
  PROVE  Board!Hide(i)
  BY Zenon DEF TheBoard, TheAuthors, TheShelf, TheCards, ListFace, ItemFace, CardFace, BlankCard, Board!Hide

\* ... shown again by the undo,
LEMMA SeenUnhide ==
  ASSUME NEW i \in Items,
         TheShelf[i] = "hidden", TheShelf' = [TheShelf EXCEPT ![i] = "present"],
         UNCHANGED <<TheBoard, TheAuthors, TheCards>>
  PROVE  Board!Unhide(i)
  BY Zenon DEF TheBoard, TheAuthors, TheShelf, TheCards, ListFace, ItemFace, CardFace, BlankCard, Board!Unhide

\* ... bought,
LEMMA SeenBuy ==
  ASSUME NEW i \in Items, NEW a \in Actors, TheShelf[i] = "present",
         TheCards' = [TheCards EXCEPT ![i].bought = TRUE, ![i].boughtBy = a],
         UNCHANGED <<TheBoard, TheAuthors, TheShelf>>
  PROVE  Board!Buy(i, a)
  BY Zenon DEF TheBoard, TheAuthors, TheShelf, TheCards, ListFace, ItemFace, CardFace, BlankCard, Board!Buy

\* ... and put back.
LEMMA SeenPutBack ==
  ASSUME NEW i \in Items, TheShelf[i] = "present",
         TheCards' = [TheCards EXCEPT ![i].bought = FALSE, ![i].boughtBy = None],
         UNCHANGED <<TheBoard, TheAuthors, TheShelf>>
  PROVE  Board!PutBack(i)
  BY Zenon DEF TheBoard, TheAuthors, TheShelf, TheCards, ListFace, ItemFace, CardFace, BlankCard, Board!PutBack

\* A step no reader sees.
LEMMA Unseen ==
  ASSUME \A l \in Lists : /\ ListFace(listState'[l]) = ListFace(listState[l])
                          /\ listState'[l] = "live" <=> listState[l] = "live"
                          /\ listState[l] = "live" => createdBy'[l] = createdBy[l],
         \A i \in Items : /\ ItemFace(itemState'[i]) = ItemFace(itemState[i])
                          /\ CardFace(itemState'[i], row'[i]) = CardFace(itemState[i], row[i])
  PROVE  UNCHANGED Board!state
<1>1. TheBoard' = TheBoard /\ TheAuthors' = TheAuthors
  BY DEF TheBoard, TheAuthors
<1>2. TheShelf' = TheShelf /\ TheCards' = TheCards
  BY DEF TheShelf, TheCards
<1> QED BY <1>1, <1>2, SeenUnchanged

\* updated_at is on no card.
LEMMA CardOfStamped ==
  ASSUME NEW w \in Row, NEW s
  PROVE  CardFace(s, Stamped(w)) = CardFace(s, w)
  BY StampedTyped DEF CardFace

\* A card with another purchase.
Purchased(card, bought, buyer) == [card EXCEPT !.bought = bought, !.boughtBy = buyer]

\* Checking an item changes the purchase on its card.
LEMMA CardOfMarked ==
  ASSUME NEW w \in Row, NEW bought \in BOOLEAN, NEW buyer \in Actors \cup {None}
  PROVE  CardFace("live", Marked(w, bought, buyer)) = Purchased(CardFace("live", w), bought, buyer)
<1> DEFINE m == Marked(w, bought, buyer)
           f == [list |-> w.list, bought |-> w.checked, addedBy |-> w.addedBy, boughtBy |-> w.boughtBy]
           g == [list |-> w.list, bought |-> bought, addedBy |-> w.addedBy, boughtBy |-> w.boughtBy]
           h == [list |-> w.list, bought |-> bought, addedBy |-> w.addedBy, boughtBy |-> buyer]
<1>1. m.addedBy = w.addedBy /\ m.list = w.list /\ m.checked = bought /\ m.boughtBy = buyer
  BY MarkedTyped DEF Row, Stamped, Marked
<1> HIDE DEF m
<1>2. CardFace("live", m) = h /\ CardFace("live", w) = f
  BY <1>1 DEF CardFace
<1>3. [f EXCEPT !.bought = bought] = g
  OBVIOUS
<1>4. [g EXCEPT !.boughtBy = buyer] = h
  OBVIOUS
<1> HIDE DEF f, g, h
<1>5. [f EXCEPT !.bought = bought, !.boughtBy = buyer] = [[f EXCEPT !.bought = bought] EXCEPT !.boughtBy = buyer]
  OBVIOUS
<1>6. CardFace("live", m) = [CardFace("live", w) EXCEPT !.bought = bought, !.boughtBy = buyer]
  BY <1>2, <1>3, <1>4, <1>5
<1> QED BY <1>6 DEF m, Purchased

\* A blank card written by a copy.
LEMMA CardOfCopy ==
  ASSUME NEW l, NEW a
  PROVE  [BlankCard EXCEPT !.list = l, !.addedBy = a]
           = [list |-> l, bought |-> FALSE, addedBy |-> a, boughtBy |-> None]
<1>0. PICK b : b = FALSE
  OBVIOUS
<1> DEFINE f == [list |-> None, bought |-> b, addedBy |-> None, boughtBy |-> None]
           g == [list |-> l, bought |-> b, addedBy |-> None, boughtBy |-> None]
           h == [list |-> l, bought |-> b, addedBy |-> a, boughtBy |-> None]
<1>1. [f EXCEPT !.list = l] = g
  OBVIOUS
<1>2. [g EXCEPT !.addedBy = a] = h
  OBVIOUS
<1>3. BlankCard = f
  BY <1>0 DEF BlankCard
<1>4. h = [list |-> l, bought |-> FALSE, addedBy |-> a, boughtBy |-> None]
  BY <1>0
<1> HIDE DEF f, g, h
<1>5. [f EXCEPT !.list = l, !.addedBy = a] = [[f EXCEPT !.list = l] EXCEPT !.addedBy = a]
  OBVIOUS
<1>6. [f EXCEPT !.list = l, !.addedBy = a] = h
  BY <1>1, <1>2, <1>5
<1> QED BY <1>3, <1>4, <1>6

\* Every step of a handler is an operation of the board, or unseen.
LEMMA BoardStep ==
  ASSUME TypeOK, CopyInv, DraftsOK, NEW r \in Requests, Arrive(r) \/ Step(r) \/ FailRequest(r)
  PROVE  Board!Act \/ UNCHANGED Board!state
<1> DEFINE q == req[r]
<1> USE DEF TypeOK
<1>1. CASE UNCHANGED <<listState, createdBy, itemState, row>>
  BY <1>1, Unseen
<1>2. CASE NotFound(r) \/ Arrive(r) \/ Publish(r)
  BY <1>1, <1>2 DEF NotFound, Arrive, Publish, table
<1>3. CASE UpdateListName(r) \/ ReadList(r) \/ ReadItem(r) \/ LoadForCheck(r)
           \/ LoadCopySource(r) \/ LockCopySource(r)
  BY <1>1, <1>2, <1>3 DEF UpdateListName, ReadList, ReadItem, LoadForCheck, LoadCopySource,
                          LockCopySource, Goto, table
<1>4. CASE InsertList(r)
  <2>1. PICK l \in Lists : /\ listState[l] = "unborn"
                           /\ listState' = [listState EXCEPT ![l] = "live"]
                           /\ createdBy' = [createdBy EXCEPT ![l] = q.actor]
                           /\ UNCHANGED <<itemState, row>>
    BY <1>4 DEF InsertList
  <2>2. q.actor \in Actors
    BY <1>4 DEF InsertList, At, HandlerOK
  <2>3. TheBoard[l] = "absent" /\ TheBoard' = [TheBoard EXCEPT ![l] = "present"]
    BY <2>1, Faces DEF TheBoard
  <2>4. TheAuthors' = [TheAuthors EXCEPT ![l] = q.actor]
    BY <2>1 DEF TheAuthors
  <2>5. /\ TheShelf' = [j \in Items |-> IF j \in {} THEN "present" ELSE TheShelf[j]]
        /\ TheCards' = [j \in Items |-> IF j \in {} THEN [BlankCard EXCEPT !.list = l, !.addedBy = q.actor]
                                        ELSE TheCards[j]]
    BY <2>1 DEF TheShelf, TheCards
  <2>6. Board!Appear(l, q.actor, {})
    BY <2>2, <2>3, <2>4, <2>5, SeenAppear
  <2> QED BY <2>2, <2>6 DEF Board!Act, Board!Create
<1>5. CASE DeleteListRow(r) /\ ~NotFound(r)
  <2>0. PICK l \in Lists : l = q.list
    BY <1>5 DEF DeleteListRow, ListVisible
  <2> DEFINE fallen == ItemsOn(l)
  <2>1. /\ listState[l] = "live"
        /\ listState' = [listState EXCEPT ![l] = "gone"]
        /\ createdBy' = [createdBy EXCEPT ![l] = None]
        /\ itemState' = [i \in Items |-> IF i \in fallen THEN "gone" ELSE itemState[i]]
        /\ row' = [i \in Items |-> IF i \in fallen THEN NoRow ELSE row[i]]
    BY <1>5, <2>0 DEF DeleteListRow, DropRows, ListVisible
  <2>2. \A j \in Items : j \in fallen <=> itemState[j] \in {"live", "deleted"} /\ row[j].list = l
    BY DEF ItemsOn
  <2>3. fallen \in SUBSET Items
    BY DEF ItemsOn
  <2> HIDE DEF fallen
  <2>4. TheBoard[l] = "present" /\ TheBoard' = [TheBoard EXCEPT ![l] = "gone"]
    BY <2>1, Faces DEF TheBoard
  <2>5. TheAuthors' = [TheAuthors EXCEPT ![l] = None]
    BY <2>1 DEF TheAuthors
  <2>6. \A j \in Items : j \in fallen <=> TheShelf[j] \in {"present", "hidden"} /\ TheCards[j].list = l
    BY <2>2, Faces DEF TheShelf, TheCards, CardFace
  <2>7. TheShelf' = [j \in Items |-> IF j \in fallen THEN "gone" ELSE TheShelf[j]]
    BY <2>1, Faces DEF TheShelf
  <2>8. TheCards' = [j \in Items |-> IF j \in fallen THEN BlankCard ELSE TheCards[j]]
    BY <2>1 DEF TheCards, CardFace
  <2>9. Board!Discard(l)
    BY <2>1, <2>3, <2>4, <2>5, <2>6, <2>7, <2>8, SeenDiscard
  <2> QED BY <2>1, <2>9 DEF Board!Act
<1>6. CASE CopyRows(r)
  <2>1. PICK l \in Lists, copies \in SUBSET Unborn :
          /\ listState[l] = "unborn"
          /\ listState' = [listState EXCEPT ![l] = "draft"]
          /\ createdBy' = [createdBy EXCEPT ![l] = q.actor]
          /\ itemState' = [i \in Items |-> IF i \in copies THEN "draft" ELSE itemState[i]]
          /\ row' = [i \in Items |-> IF i \in copies
                                     THEN [NoRow EXCEPT !.list = l, !.addedBy = q.actor]
                                     ELSE row[i]]
    BY <1>6, Zenon DEF CopyRows
  <2>2. \A m \in Lists : m # l => listState'[m] = listState[m] /\ createdBy'[m] = createdBy[m]
    BY <2>1
  <2>3. \A i \in copies : itemState[i] = "unborn" /\ itemState'[i] = "draft"
    BY <2>1 DEF Unborn
  <2>4. \A i \in Items \ copies : itemState'[i] = itemState[i] /\ row'[i] = row[i]
    BY <2>1
  <2>5. ASSUME NEW i \in Items
        PROVE  /\ ItemFace(itemState'[i]) = ItemFace(itemState[i])
               /\ CardFace(itemState'[i], row'[i]) = CardFace(itemState[i], row[i])
    BY <2>3, <2>4, Faces DEF CardFace
  <2>6. listState'[l] = "draft"
    BY <2>1
  <2> QED BY <2>1, <2>2, <2>5, <2>6, Unseen, Faces
<1>7. CASE CommitCopy(r)
  <2>0. PICK l \in Lists, source \in Lists, a \in Actors : l = q.made /\ source = q.list /\ a = q.actor
    BY <1>7 DEF CommitCopy, At, HandlerOK
  <2>a. PICK cards \in SUBSET Items : cards = {i \in Items : itemState[i] = "draft" /\ row[i].list = l}
    OBVIOUS
  <2>1. /\ listState[l] = "draft" /\ listState[source] = "live" /\ createdBy[l] = a
        /\ \A i \in cards : row[i] = [NoRow EXCEPT !.list = l, !.addedBy = a]
    BY <1>7, <2>0, <2>a DEF CommitCopy, At, CopyInv, CopyIsolated, ListVisible, DraftsOK
  <2>2. /\ listState' = [listState EXCEPT ![l] = "live"] /\ createdBy' = createdBy /\ row' = row
        /\ itemState' = [i \in Items |-> IF i \in cards THEN "live" ELSE itemState[i]]
    BY <1>7, <2>0, <2>a DEF CommitCopy
  <2>3. \A i \in cards : itemState[i] = "draft"
    BY <2>a
  <2>4. /\ TheBoard[l] = "absent" /\ TheBoard' = [TheBoard EXCEPT ![l] = "present"]
        /\ TheBoard[source] = "present"
    BY <2>1, <2>2, Faces DEF TheBoard
  <2>5. TheAuthors' = [TheAuthors EXCEPT ![l] = a]
    BY <2>1, <2>2 DEF TheAuthors
  <2>6. /\ TheShelf' = [j \in Items |-> IF j \in cards THEN "present" ELSE TheShelf[j]]
        /\ \A i \in cards : TheShelf[i] = "absent"
    BY <2>2, <2>3, Faces DEF TheShelf
  <2>7. TheCards' = [j \in Items |-> IF j \in cards
                                     THEN [BlankCard EXCEPT !.list = l, !.addedBy = a]
                                     ELSE TheCards[j]]
    <3>1. ASSUME NEW i \in cards
          PROVE  CardFace("live", row[i]) = [BlankCard EXCEPT !.list = l, !.addedBy = a]
      <4>1. row[i] = [NoRow EXCEPT !.list = l, !.addedBy = a]
        BY <2>1
      <4>2. /\ row[i].list = l /\ row[i].checked = FALSE /\ row[i].addedBy = a /\ row[i].boughtBy = None
        BY <4>1 DEF NoRow
      <4>3. CardFace("live", row[i]) = [list |-> l, bought |-> FALSE, addedBy |-> a, boughtBy |-> None]
        BY <4>2 DEF CardFace
      <4>4. [BlankCard EXCEPT !.list = l, !.addedBy = a]
              = [list |-> l, bought |-> FALSE, addedBy |-> a, boughtBy |-> None]
        BY CardOfCopy
      <4> QED BY <4>3, <4>4
    <3> QED BY <2>2, <2>3, <3>1 DEF TheCards
  <2>8. Board!Appear(l, a, cards)
    BY <2>1, <2>3, <2>4, <2>5, <2>6, <2>7, SeenAppear
  <2> QED BY <2>3, <2>4, <2>6, <2>8, SeenCopy DEF Board!Act
<1>8. CASE InsertItem(r) /\ ~NotFound(r)
  <2>0. PICK l \in Lists, a \in Actors, b \in BOOLEAN : l = q.list /\ a = q.actor /\ b = q.folded
    BY <1>8 DEF InsertItem, ListVisible, At, HandlerOK, Request
  <2>1. PICK i \in Unborn :
          /\ itemState' = [itemState EXCEPT ![i] = "live"]
          /\ row' = [row EXCEPT ![i] = [list |-> l, checked |-> b, checkedAt |-> b, addedBy |-> a,
                                        boughtBy |-> IF b THEN a ELSE None, rev |-> FALSE]]
    BY <1>8, <2>0 DEF InsertItem
  <2>2. /\ listState[l] = "live"
        /\ UNCHANGED <<listState, createdBy>> /\ i \in Items /\ itemState[i] = "unborn"
    BY <1>8, <2>0 DEF InsertItem, ListVisible, Unborn
  <2>3. TheBoard[l] = "present" /\ UNCHANGED <<TheBoard, TheAuthors>>
    BY <2>2, Faces DEF TheBoard, TheAuthors
  <2>4. TheShelf[i] = "absent" /\ TheShelf' = [TheShelf EXCEPT ![i] = "present"]
    BY <2>1, <2>2, Faces DEF TheShelf
  <2>5. TheCards' = [TheCards EXCEPT ![i] = [list |-> l, bought |-> b, addedBy |-> a,
                                             boughtBy |-> IF b THEN a ELSE None]]
    BY <2>1, <2>2 DEF TheCards, CardFace
  <2>6. Board!Add(i, l, a, b)
    BY <2>2, <2>3, <2>4, <2>5, SeenAdd
  <2> QED BY <2>2, <2>6 DEF Board!Act
<1>9. CASE UpdateItemRow(r) /\ ~NotFound(r)
  <2>1. /\ UNCHANGED <<listState, createdBy, itemState>>
        /\ \A i \in Items : row'[i] \in {row[i], Stamped(row[i])}
    BY <1>9 DEF UpdateItemRow
  <2>2. \A i \in Items : CardFace(itemState'[i], row'[i]) = CardFace(itemState[i], row[i])
    BY <2>1, CardOfStamped
  <2> QED BY <2>1, <2>2, Unseen
<1>10. CASE SoftDeleteItem(r) /\ ~NotFound(r)
  <2> DEFINE i == q.item
  <2>1. /\ i \in Items /\ itemState[i] = "live" /\ itemState' = [itemState EXCEPT ![i] = "deleted"]
        /\ row' = [row EXCEPT ![i] = Stamped(row[i])] /\ UNCHANGED <<listState, createdBy>>
    BY <1>10 DEF SoftDeleteItem, ItemVisible
  <2> HIDE DEF i
  <2>2. TheShelf[i] = "present" /\ TheShelf' = [TheShelf EXCEPT ![i] = "hidden"]
    BY <2>1, Faces DEF TheShelf
  <2>3. CardFace("deleted", Stamped(row[i])) = CardFace("live", row[i])
    BY <2>1, CardOfStamped DEF CardFace
  <2>4. UNCHANGED <<TheBoard, TheAuthors, TheCards>>
    BY <2>1, <2>3 DEF TheBoard, TheAuthors, TheCards
  <2> QED BY <2>1, <2>2, <2>4, SeenHide DEF Board!Act
<1>11. CASE RestoreItemRow(r) /\ ~NotFound(r)
  <2> DEFINE i == q.item
  <2>1. /\ i \in Items /\ itemState[i] \in {"live", "deleted"}
        /\ itemState' = [itemState EXCEPT ![i] = "live"]
        /\ row' = [row EXCEPT ![i] = Stamped(row[i])] /\ UNCHANGED <<listState, createdBy>>
    BY <1>11 DEF RestoreItemRow, RowExists
  <2> HIDE DEF i
  <2>2. CardFace("live", Stamped(row[i])) = CardFace(itemState[i], row[i])
    BY <2>1, CardOfStamped DEF CardFace
  <2>3. UNCHANGED <<TheBoard, TheAuthors, TheCards>>
    BY <2>1, <2>2 DEF TheBoard, TheAuthors, TheCards
  <2>4. CASE itemState[i] = "deleted"
    <3>1. TheShelf[i] = "hidden" /\ TheShelf' = [TheShelf EXCEPT ![i] = "present"]
      BY <2>1, <2>4, Faces DEF TheShelf
    <3> QED BY <2>1, <2>3, <3>1, SeenUnhide DEF Board!Act
  <2>5. CASE itemState[i] = "live"
    <3>1. TheShelf' = TheShelf
      BY <2>1, <2>5 DEF TheShelf
    <3> QED BY <2>3, <3>1, SeenUnchanged
  <2> QED BY <2>1, <2>4, <2>5
<1>12. CASE WriteChecked(r) /\ ~NotFound(r)
  <2>0. PICK bought \in BOOLEAN, buyer \in Actors \cup {None} :
          /\ bought = (q.op = "check")
          /\ buyer = IF q.op = "check" THEN q.actor ELSE None
    BY <1>12 DEF WriteChecked, HandlerOK
  <2>a. PICK i \in Items : i = q.item
    BY <1>12 DEF WriteChecked, ItemVisible
  <2>1. /\ itemState[i] = "live" /\ UNCHANGED <<listState, createdBy, itemState>>
        /\ row' = [row EXCEPT ![i] = Marked(row[i], bought, buyer)]
        /\ (bought => buyer \in Actors) /\ (~bought => buyer = None)
    BY <1>12, <2>0, <2>a DEF WriteChecked, SetChecked, ItemVisible, HandlerOK
  <2>b. PICK w \in Row : w = row[i]
    OBVIOUS
  <2>2. CardFace("live", Marked(row[i], bought, buyer)) = Purchased(CardFace("live", row[i]), bought, buyer)
    <3>1. row[i] \in Row
      BY <2>b
    <3> QED BY ONLY <3>1, CardOfMarked
  <2>3. TheShelf[i] = "present" /\ UNCHANGED <<TheBoard, TheAuthors, TheShelf>>
    BY <2>1, Faces DEF TheBoard, TheAuthors, TheShelf
  <2>4. TheCards' = [TheCards EXCEPT ![i] = [TheCards[i] EXCEPT !.bought = bought, !.boughtBy = buyer]]
    BY <2>1, <2>2 DEF TheCards, Purchased
  <2>5. TheCards' = [TheCards EXCEPT ![i].bought = bought, ![i].boughtBy = buyer]
    BY <2>4 DEF TheCards
  <2>6. CASE bought
    <3>1. bought = TRUE
      BY <2>1, <2>6
    <3> QED BY <2>1, <2>3, <2>5, <2>6, <3>1, SeenBuy DEF Board!Act
  <2>7. CASE ~bought
    <3>1. bought = FALSE /\ buyer = None
      BY <2>1, <2>7
    <3> QED BY <2>1, <2>3, <2>5, <3>1, SeenPutBack DEF Board!Act
  <2> QED BY <2>6, <2>7
<1>13. CASE FailRequest(r)
  <2>1. \A l \in Lists : \/ listState'[l] = listState[l] /\ createdBy'[l] = createdBy[l]
                         \/ listState[l] = "draft" /\ listState'[l] = "unborn"
    BY <1>13 DEF FailRequest, CopyInv, CopyIsolated
  <2>2. \A i \in Items : \/ itemState'[i] = itemState[i] /\ row'[i] = row[i]
                         \/ itemState[i] = "draft" /\ itemState'[i] = "unborn"
    BY <1>13 DEF FailRequest
  <2>3. ASSUME NEW l \in Lists
        PROVE  /\ ListFace(listState'[l]) = ListFace(listState[l])
               /\ listState'[l] = "live" <=> listState[l] = "live"
               /\ listState[l] = "live" => createdBy'[l] = createdBy[l]
    BY <2>1, Faces
  <2>4. ASSUME NEW i \in Items
        PROVE  /\ ItemFace(itemState'[i]) = ItemFace(itemState[i])
               /\ CardFace(itemState'[i], row'[i]) = CardFace(itemState[i], row[i])
    BY <2>2, Faces DEF CardFace
  <2> QED BY <2>3, <2>4, Unseen
<1> QED
  BY <1>2, <1>3, <1>4, <1>5, <1>6, <1>7, <1>8, <1>9, <1>10, <1>11, <1>12, <1>13
     DEF Step, ListStep, ItemStep

\* Drafts as their makers left them: what every copy commits (CopyList).
THEOREM DraftsUntouched == Spec => []DraftsOK
<1>1. Init => DraftsOK
  BY DEF Init, DraftsOK
<1>2. StoreInv /\ DraftsOK /\ [Next]_vars => DraftsOK'
  <2> SUFFICES ASSUME StoreInv, DraftsOK, [Next]_vars PROVE DraftsOK'
    OBVIOUS
  <2>1. CASE UNCHANGED vars
    BY <2>1 DEF DraftsOK, vars, table
  <2>2. ASSUME NEW r \in Requests, Arrive(r) \/ Step(r) \/ FailRequest(r) PROVE DraftsOK'
    BY <2>2, DraftsStep DEF StoreInv
  <2> QED
    BY <2>1, <2>2 DEF Next, Answered
<1> QED
  BY <1>1, <1>2, StoreSafe, PTL DEF Spec

\* The database starts as a board does.
LEMMA SeenStart ==
  ASSUME Init
  PROVE  Board!Start
<1>1. TheBoard = [l \in Lists |-> IF l \in SeedLists THEN "present" ELSE "absent"]
  BY Faces DEF Init, TheBoard
<1>2. TheAuthors = [l \in Lists |-> None]
  BY DEF Init, TheAuthors
<1>3. ASSUME NEW i \in Items
      PROVE  IF i \in SeedItems
             THEN TheShelf[i] \in {"present", "hidden"} /\ TheCards[i].list \in SeedLists
             ELSE TheShelf[i] = "absent" /\ TheCards[i] = BlankCard
  <2>1. CASE i \in SeedItems
    <3>1. itemState[i] \in {"live", "deleted"} /\ row[i] \in SeedRow
      BY <2>1 DEF Init
    <3>2. TheShelf[i] \in {"present", "hidden"} /\ TheCards[i].list = row[i].list
      BY <3>1, Faces DEF TheShelf, TheCards, CardFace
    <3> QED BY <2>1, <3>1, <3>2 DEF SeedRow
  <2>2. CASE i \notin SeedItems
    BY <2>2, Faces DEF Init, TheShelf, TheCards, CardFace
  <2> QED BY <2>1, <2>2
<1> QED
  BY <1>1, <1>2, <1>3, Zenon
     DEF TheBoard, TheAuthors, TheShelf, TheCards, ListFace, ItemFace, CardFace, BlankCard,
         Board!Start, Board!Blank

\* The refinement (ImplementsBoard): whatever statements of concurrent requests,
\* failures and rollbacks interleave, every reader sees the operations of the
\* shopping board, one at a time.
THEOREM StoreImplementsBoard == Spec => ImplementsBoard
<1>1. StoreInv /\ DraftsOK /\ [Next]_vars => [Board!Act]_(Board!state)
  <2> SUFFICES ASSUME StoreInv, DraftsOK, [Next]_vars
               PROVE  Board!Act \/ UNCHANGED Board!state
    BY Zenon
  <2>1. CASE UNCHANGED vars
    BY <2>1, Unseen DEF vars, table
  <2>2. ASSUME NEW r \in Requests, Arrive(r) \/ Step(r) \/ FailRequest(r)
        PROVE  Board!Act \/ UNCHANGED Board!state
    BY <2>2, BoardStep DEF StoreInv, CopyInv
  <2> QED
    BY <2>1, <2>2 DEF Next, Answered
<1> QED
  BY <1>1, SeenStart, StoreSafe, DraftsUntouched, PTL DEF Spec, ImplementsBoard, Board!BoardSpec
=============================================================================
