------------------------------ MODULE ListStore ------------------------------
(***************************************************************************)
(* The shopping-list backend seen from its database: HTTP handlers (v1),   *)
(* the domain service (lists.Service) and the Postgres adapter             *)
(* (adapters/db) run one goroutine per request, and every SQL statement is *)
(* one atomic step.  What the code does in several statements (check then  *)
(* write, write then re-read, the copy transaction) is several actions     *)
(* here, so the steps of concurrent requests interleave between them.      *)
(*                                                                         *)
(* Left out: requests refused before any statement runs (bad JSON, failed  *)
(* validation, no session), the pure reads, and the texts (names, units,   *)
(* quantities, notes, times), of which `rev` keeps only that they changed. *)
(***************************************************************************)
EXTENDS Naturals, FiniteSets

CONSTANTS
  Lists,      \* ids the lists table can hand out
  Items,      \* ids the items table can hand out
  Actors,     \* user ids
  Requests,   \* the mutating HTTP requests, each handled once
  SeedLists,  \* lists that exist when the model starts
  SeedItems,  \* items that exist when the model starts
  None        \* SQL NULL

ASSUME StoreAssumption ==
  /\ SeedLists \subseteq Lists
  /\ SeedItems \subseteq Items
  /\ SeedItems # {} => SeedLists # {}
  /\ None \notin Lists \cup Items \cup Actors

VARIABLES
  listState,    \* [Lists -> ...]: "draft" rows belong to an open transaction
  createdBy,    \* lists.created_by
  itemState,    \* [Items -> ...]: "deleted" rows carry a deleted_at
  row,          \* the other columns of the items table
  keyShare,     \* FOR KEY SHARE locks: <<request, list>>
  pc,           \* where each request's handler stands
  req,          \* what each request asks for
  overtaken,    \* ghost: the row this request read was written since
  unannounced,  \* ghost: committed changes with no event published after them
  lost          \* ghost: topics whose announcement an error swallowed

table == <<listState, createdBy, itemState, row, keyShare>>
ghosts == <<overtaken, unannounced, lost>>
vars == <<table, pc, req, ghosts>>

-----------------------------------------------------------------------------
(* Types.                                                                  *)

ListState == {"unborn", "draft", "live", "gone"}
ItemState == {"unborn", "draft", "live", "deleted", "gone"}

Row == [list: Lists \cup {None}, checked: BOOLEAN, checkedAt: BOOLEAN,
        addedBy: Actors \cup {None}, boughtBy: Actors \cup {None}, rev: BOOLEAN]

NoRow == [list |-> None, checked |-> FALSE, checkedAt |-> FALSE,
          addedBy |-> None, boughtBy |-> None, rev |-> FALSE]

ListOps == {"createList", "renameList", "deleteList", "copyList"}
ItemOps == {"addItem", "updateItem", "deleteItem", "restoreItem", "check", "uncheck"}

\* `made` is the list a create or a copy inserted, `folded` an add that carries
\* checked = true (an offline check folded into the queued create).
Request == [op: ListOps \cup ItemOps \cup {"none"}, actor: Actors \cup {None},
            list: Lists \cup {None}, item: Items \cup {None},
            made: Lists \cup {None}, folded: BOOLEAN]

NoRequest == [op |-> "none", actor |-> None, list |-> None, item |-> None,
              made |-> None, folded |-> FALSE]

Pc == {"new", "first", "lock", "rows", "commit", "write", "reread", "publish", "done"}

\* What an event is about: {lists} is the overview, {items, l} is list l.
Overview == "overview"
Topic == Lists \cup {Overview}

TopicOf(q) == IF q.op \in ItemOps THEN q.list ELSE Overview

-----------------------------------------------------------------------------
(* What a statement can see.  A draft row is visible to its own            *)
(* transaction only.                                                       *)

ListVisible(l) == l \in Lists /\ listState[l] = "live"

\* The WHERE of every item statement but restore's: id, list_id, not deleted.
ItemVisible(q) ==
  /\ q.item \in Items
  /\ itemState[q.item] = "live"
  /\ row[q.item].list = q.list

\* RestoreItem's WHERE carries no deleted_at filter.
RowExists(q) ==
  /\ q.item \in Items
  /\ itemState[q.item] \in {"live", "deleted"}
  /\ row[q.item].list = q.list

LiveItemsOn(l) == {i \in Items : itemState[i] = "live" /\ row[i].list = l}

ItemsOn(l) == {i \in Items : itemState[i] \in {"live", "deleted"} /\ row[i].list = l}

Unborn == {i \in Items : itemState[i] = "unborn"}

\* The list a list operation reads back.
ListReadBack(q) == IF q.op = "renameList" THEN q.list ELSE q.made

-----------------------------------------------------------------------------
(* Requests.  A client names lists and items it has been told of, dead     *)
(* ones and mismatched pairs included; only the operations that record an  *)
(* actor carry one.                                                        *)

KnownLists == {l \in Lists : listState[l] \in {"live", "gone"}}
KnownItems == {i \in Items : itemState[i] \in {"live", "deleted", "gone"}}

Ask(ops, actors, ls, is, fs) ==
  [op: ops, actor: actors, list: ls, item: is, made: {None}, folded: fs]

Asks ==
  Ask({"createList"}, Actors, {None}, {None}, {FALSE})
  \cup Ask({"renameList", "deleteList"}, {None}, KnownLists, {None}, {FALSE})
  \cup Ask({"copyList"}, Actors, KnownLists, {None}, {FALSE})
  \cup Ask({"addItem"}, Actors, KnownLists, {None}, BOOLEAN)
  \cup Ask({"check"}, Actors, KnownLists, KnownItems, {FALSE})
  \cup Ask({"updateItem", "deleteItem", "restoreItem", "uncheck"}, {None},
           KnownLists, KnownItems, {FALSE})

Arrive(r) ==
  /\ pc[r] = "new"
  /\ \E q \in Asks : req' = [req EXCEPT ![r] = q]
  /\ pc' = [pc EXCEPT ![r] = "first"]
  /\ UNCHANGED <<table, ghosts>>

At(r, where, op) == pc[r] = where /\ req[r].op = op

Goto(r, where) == pc' = [pc EXCEPT ![r] = where] /\ UNCHANGED req

\* The handler returns: its reply is sent and nothing of it is left.
Finish(r) ==
  /\ pc' = [pc EXCEPT ![r] = "done"]
  /\ req' = [req EXCEPT ![r] = NoRequest]

NotFound(r) ==
  /\ Finish(r)
  /\ overtaken' = [overtaken EXCEPT ![r] = FALSE]
  /\ UNCHANGED <<table, unannounced, lost>>

\* What every committed write leaves behind: its topic is owed an event.
Changed(t) == unannounced' = unannounced \cup {t} /\ UNCHANGED lost

-----------------------------------------------------------------------------
(* List operations.                                                        *)

InsertList(r) ==
  /\ At(r, "first", "createList")
  /\ \E l \in Lists :
       /\ listState[l] = "unborn"
       /\ listState' = [listState EXCEPT ![l] = "live"]
       /\ createdBy' = [createdBy EXCEPT ![l] = req[r].actor]
       /\ req' = [req EXCEPT ![r].made = l]
  /\ pc' = [pc EXCEPT ![r] = "reread"]
  /\ Changed(Overview)
  /\ UNCHANGED <<itemState, row, keyShare, overtaken>>

UpdateListName(r) ==
  /\ At(r, "first", "renameList")
  /\ \/ /\ ListVisible(req[r].list)
        /\ Goto(r, "reread")
        /\ Changed(Overview)
        /\ UNCHANGED <<table, overtaken>>
     \/ ~ListVisible(req[r].list) /\ NotFound(r)

\* The row goes and the foreign key takes its items with it.
DropRows(l, dying) ==
  /\ listState' = [listState EXCEPT ![l] = "gone"]
  /\ createdBy' = [createdBy EXCEPT ![l] = None]
  /\ itemState' = [i \in Items |-> IF i \in dying THEN "gone" ELSE itemState[i]]
  /\ row' = [i \in Items |-> IF i \in dying THEN NoRow ELSE row[i]]
  /\ unannounced' = (unannounced \ {l}) \cup {Overview}
  /\ lost' = lost \ {l}
  /\ UNCHANGED <<keyShare, overtaken>>

\* Faulty: the copied list is not locked, so nothing holds the DELETE back.
DeleteListRow_NoLock(r) ==
  /\ At(r, "first", "deleteList")
  /\ \/ /\ ListVisible(req[r].list)
        /\ DropRows(req[r].list, ItemsOn(req[r].list))
        /\ Goto(r, "publish")
     \/ ~ListVisible(req[r].list) /\ NotFound(r)

\* Faulty: the cascade misses the rows that are only soft-deleted.
DeleteListRow_KeepsDeleted(r) ==
  /\ At(r, "first", "deleteList")
  /\ \/ /\ ListVisible(req[r].list)
        /\ \A q \in Requests : <<q, req[r].list>> \notin keyShare
        /\ DropRows(req[r].list, LiveItemsOn(req[r].list))
        /\ Goto(r, "publish")
     \/ ~ListVisible(req[r].list) /\ NotFound(r)

\* DELETE conflicts with FOR KEY SHARE, so it waits for every transaction that
\* is copying the list.
DeleteListRow(r) ==
  /\ At(r, "first", "deleteList")
  /\ \/ /\ ListVisible(req[r].list)
        /\ \A q \in Requests : <<q, req[r].list>> \notin keyShare
        /\ DropRows(req[r].list, ItemsOn(req[r].list))
        /\ Goto(r, "publish")
     \/ ~ListVisible(req[r].list) /\ NotFound(r)

\* Service.CopyList reads the source (for its name) before the transaction.
LoadCopySource(r) ==
  /\ At(r, "first", "copyList")
  /\ \/ /\ ListVisible(req[r].list)
        /\ Goto(r, "lock")
        /\ UNCHANGED <<table, ghosts>>
     \/ ~ListVisible(req[r].list) /\ NotFound(r)

\* SELECT 1 ... FOR KEY SHARE, the transaction's guard.
LockCopySource(r) ==
  /\ At(r, "lock", "copyList")
  /\ \/ /\ ListVisible(req[r].list)
        /\ keyShare' = keyShare \cup {<<r, req[r].list>>}
        /\ Goto(r, "rows")
        /\ UNCHANGED <<listState, createdBy, itemState, row, ghosts>>
     \/ ~ListVisible(req[r].list) /\ NotFound(r)

\* Faulty: the two INSERTs run outside the transaction and commit one by one.
CopyRows_Autocommit(r) ==
  LET q == req[r] IN
  /\ At(r, "rows", "copyList")
  /\ \E l \in Lists :
       /\ listState[l] = "unborn"
       /\ listState' = [listState EXCEPT ![l] = "live"]
       /\ createdBy' = [createdBy EXCEPT ![l] = q.actor]
       /\ req' = [req EXCEPT ![r].made = l]
  /\ pc' = [pc EXCEPT ![r] = "commit"]
  /\ UNCHANGED <<itemState, row, keyShare, ghosts>>

\* The two INSERTs.  Until the commit only this transaction sees their rows,
\* so all that the others can influence is which items the second one reads.
CopyRows(r) ==
  LET q == req[r] IN
  /\ At(r, "rows", "copyList")
  /\ \E l \in Lists, copies \in SUBSET Unborn :
       /\ listState[l] = "unborn"
       /\ Cardinality(copies) = Cardinality(LiveItemsOn(q.list))
       /\ listState' = [listState EXCEPT ![l] = "draft"]
       /\ createdBy' = [createdBy EXCEPT ![l] = q.actor]
       /\ itemState' = [i \in Items |-> IF i \in copies THEN "draft" ELSE itemState[i]]
       /\ row' = [i \in Items |-> IF i \in copies
                                  THEN [NoRow EXCEPT !.list = l, !.addedBy = q.actor]
                                  ELSE row[i]]
       /\ req' = [req EXCEPT ![r].made = l]
  /\ pc' = [pc EXCEPT ![r] = "commit"]
  /\ UNCHANGED <<keyShare, ghosts>>

CommitCopy(r) ==
  LET l == req[r].made IN
  /\ At(r, "commit", "copyList")
  /\ listState' = [listState EXCEPT ![l] = "live"]
  /\ itemState' = [i \in Items |-> IF itemState[i] = "draft" /\ row[i].list = l
                                   THEN "live" ELSE itemState[i]]
  /\ keyShare' = keyShare \ {<<r, req[r].list>>}
  /\ Changed(Overview)
  /\ Goto(r, "reread")
  /\ UNCHANGED <<createdBy, row, overtaken>>

\* The re-read through List() that gives create, rename and copy their reply.
ReadList(r) ==
  /\ pc[r] = "reread" /\ req[r].op \in ListOps
  /\ \/ /\ ListVisible(ListReadBack(req[r]))
        /\ Goto(r, "publish")
        /\ UNCHANGED <<table, ghosts>>
     \/ ~ListVisible(ListReadBack(req[r])) /\ NotFound(r)

-----------------------------------------------------------------------------
(* Item operations.                                                        *)

\* updated_at = now()
Stamped(w) == [w EXCEPT !.rev = ~@]

Marked(w, bought, buyer) ==
  [Stamped(w) EXCEPT !.checked = bought, !.checkedAt = bought, !.boughtBy = buyer]

\* A statement of request r rewrote item i: whoever read it before and is
\* about to write it acts on a stale row.
Overtake(r, i) ==
  overtaken' = [q \in Requests |->
                  overtaken[q] \/ (q # r /\ pc[q] = "write" /\ req[q].item = i)]

\* The INSERT of AddItem.  Its foreign-key check is the only existence check;
\* a folded add is credited to its adder as the buyer too.
InsertItem(r) ==
  LET q == req[r] IN
  /\ At(r, "first", "addItem")
  /\ \/ /\ ListVisible(q.list)
        /\ \E i \in Unborn :
             /\ itemState' = [itemState EXCEPT ![i] = "live"]
             /\ row' = [row EXCEPT ![i] =
                          [list |-> q.list, checked |-> q.folded, checkedAt |-> q.folded,
                           addedBy |-> q.actor,
                           boughtBy |-> IF q.folded THEN q.actor ELSE None,
                           rev |-> FALSE]]
             /\ req' = [req EXCEPT ![r].item = i]
        /\ pc' = [pc EXCEPT ![r] = "reread"]
        /\ Changed(q.list)
        /\ UNCHANGED <<listState, createdBy, keyShare, overtaken>>
     \/ ~ListVisible(q.list) /\ NotFound(r)

\* UPDATE of the given fields and of updated_at.
UpdateItemRow(r) ==
  LET q == req[r] IN
  /\ At(r, "first", "updateItem")
  /\ \/ /\ ItemVisible(q)
        /\ row' = [row EXCEPT ![q.item] = Stamped(@)]
        /\ Overtake(r, q.item)
        /\ Changed(q.list)
        /\ Goto(r, "reread")
        /\ UNCHANGED <<listState, createdBy, itemState, keyShare>>
     \/ ~ItemVisible(q) /\ NotFound(r)

\* Faulty: the handler answers 204 without telling the other clients.
SoftDeleteItem_Silent(r) ==
  LET q == req[r] IN
  /\ At(r, "first", "deleteItem")
  /\ \/ /\ ItemVisible(q)
        /\ itemState' = [itemState EXCEPT ![q.item] = "deleted"]
        /\ row' = [row EXCEPT ![q.item] = Stamped(@)]
        /\ Overtake(r, q.item)
        /\ Changed(q.list)
        /\ Finish(r)
        /\ UNCHANGED <<listState, createdBy, keyShare>>
     \/ ~ItemVisible(q) /\ NotFound(r)

SoftDeleteItem(r) ==
  LET q == req[r] IN
  /\ At(r, "first", "deleteItem")
  /\ \/ /\ ItemVisible(q)
        /\ itemState' = [itemState EXCEPT ![q.item] = "deleted"]
        /\ row' = [row EXCEPT ![q.item] = Stamped(@)]
        /\ Overtake(r, q.item)
        /\ Changed(q.list)
        /\ Goto(r, "publish")
        /\ UNCHANGED <<listState, createdBy, keyShare>>
     \/ ~ItemVisible(q) /\ NotFound(r)

RestoreItemRow(r) ==
  LET q == req[r] IN
  /\ At(r, "first", "restoreItem")
  /\ \/ /\ RowExists(q)
        /\ itemState' = [itemState EXCEPT ![q.item] = "live"]
        /\ row' = [row EXCEPT ![q.item] = Stamped(@)]
        /\ Overtake(r, q.item)
        /\ Changed(q.list)
        /\ Goto(r, "reread")
        /\ UNCHANGED <<listState, createdBy, keyShare>>
     \/ ~RowExists(q) /\ NotFound(r)

\* Faulty: no early return, so a repeated check writes again.
LoadForCheck_Always(r) ==
  LET q == req[r] IN
  /\ pc[r] = "first" /\ q.op \in {"check", "uncheck"}
  /\ \/ /\ ItemVisible(q)
        /\ Goto(r, "write")
        /\ UNCHANGED <<table, ghosts>>
     \/ ~ItemVisible(q) /\ NotFound(r)

\* setChecked's load: a missing item is a 404, an unchanged state an early
\* return that writes nothing and still publishes.
LoadForCheck(r) ==
  LET q == req[r] IN
  /\ pc[r] = "first" /\ q.op \in {"check", "uncheck"}
  /\ \/ /\ ItemVisible(q)
        /\ Goto(r, IF row[q.item].checked = (q.op = "check") THEN "publish" ELSE "write")
        /\ UNCHANGED <<table, ghosts>>
     \/ ~ItemVisible(q) /\ NotFound(r)

\* The UPDATE of SetItemChecked on the row request q names.
SetChecked(r, q, buyer) ==
  /\ row' = [row EXCEPT ![q.item] = Marked(@, q.op = "check", buyer)]
  /\ Overtake(r, q.item)
  /\ Changed(q.list)
  /\ Goto(r, "reread")
  /\ UNCHANGED <<listState, createdBy, itemState, keyShare>>

\* Faulty: unchecking leaves the buyer behind.
WriteChecked_KeepsBuyer(r) ==
  LET q == req[r] IN
  /\ pc[r] = "write"
  /\ \/ /\ ItemVisible(q)
        /\ SetChecked(r, q, IF q.op = "check" THEN q.actor ELSE row[q.item].boughtBy)
     \/ ~ItemVisible(q) /\ NotFound(r)

\* Faulty: the UPDATE trusts the earlier load and does not filter deleted rows.
WriteChecked_DeletedToo(r) ==
  LET q == req[r] IN
  /\ pc[r] = "write"
  /\ \/ RowExists(q) /\ SetChecked(r, q, IF q.op = "check" THEN q.actor ELSE None)
     \/ ~RowExists(q) /\ NotFound(r)

\* SetItemChecked's UPDATE looks at id, list and deletion, not at `checked`.
WriteChecked(r) ==
  LET q == req[r] IN
  /\ pc[r] = "write"
  /\ \/ /\ ItemVisible(q)
        /\ SetChecked(r, q, IF q.op = "check" THEN q.actor ELSE None)
     \/ ~ItemVisible(q) /\ NotFound(r)

\* Faulty: a restore returns once its row is read back, without publishing.
ReadItem_QuietRestore(r) ==
  /\ pc[r] = "reread" /\ req[r].op \in ItemOps
  /\ IF ItemVisible(req[r]) /\ req[r].op # "restoreItem"
     THEN Goto(r, "publish") /\ UNCHANGED <<table, ghosts>>
     ELSE NotFound(r)

\* The re-read through Item() that gives every item write its reply.
ReadItem(r) ==
  /\ pc[r] = "reread" /\ req[r].op \in ItemOps
  /\ \/ /\ ItemVisible(req[r])
        /\ Goto(r, "publish")
        /\ UNCHANGED <<table, ghosts>>
     \/ ~ItemVisible(req[r]) /\ NotFound(r)

-----------------------------------------------------------------------------
(* The end of a handler.                                                   *)

Publish(r) ==
  /\ pc[r] = "publish"
  /\ unannounced' = unannounced \ {TopicOf(req[r])}
  /\ lost' = lost \ {TopicOf(req[r])}
  /\ overtaken' = [overtaken EXCEPT ![r] = FALSE]
  /\ Finish(r)
  /\ UNCHANGED table

\* Faulty: no deferred Rollback, so the transaction and its lock stay open.
FailRequest_NoRollback(r) ==
  /\ pc[r] \notin {"new", "done"}
  /\ lost' = IF pc[r] \in {"reread", "publish"}
             THEN lost \cup ({TopicOf(req[r])} \cap unannounced)
             ELSE lost
  /\ overtaken' = [overtaken EXCEPT ![r] = FALSE]
  /\ Finish(r)
  /\ UNCHANGED <<table, unannounced>>

\* A statement fails, its acknowledgement is lost, the client hangs up (the
\* statements run under the request's context) or the handler panics: a 500 and
\* no event.  The deferred Rollback undoes an open transaction and its lock.
FailRequest(r) ==
  LET l == req[r].made
      undone == {i \in Items : itemState[i] = "draft" /\ row[i].list = l}
  IN
  /\ pc[r] \notin {"new", "done"}
  /\ listState' = [m \in Lists |-> IF m = l /\ pc[r] = "commit" THEN "unborn" ELSE listState[m]]
  /\ createdBy' = [m \in Lists |-> IF m = l /\ pc[r] = "commit" THEN None ELSE createdBy[m]]
  /\ itemState' = [i \in Items |-> IF i \in undone THEN "unborn" ELSE itemState[i]]
  /\ row' = [i \in Items |-> IF i \in undone THEN NoRow ELSE row[i]]
  /\ keyShare' = {k \in keyShare : k[1] # r}
  /\ lost' = IF pc[r] \in {"reread", "publish"}
             THEN lost \cup ({TopicOf(req[r])} \cap unannounced)
             ELSE lost
  /\ overtaken' = [overtaken EXCEPT ![r] = FALSE]
  /\ Finish(r)
  /\ UNCHANGED unannounced

Answered == (\A r \in Requests : pc[r] = "done") /\ UNCHANGED vars

-----------------------------------------------------------------------------

\* A seed item may predate attribution, so nobody need be its adder or buyer.
SeedRow == {w \in Row : /\ w.list \in SeedLists
                        /\ w.checkedAt = w.checked
                        /\ w.boughtBy # None => w.checked
                        /\ w.addedBy = None
                        /\ w.rev = FALSE}

Init ==
  /\ listState = [l \in Lists |-> IF l \in SeedLists THEN "live" ELSE "unborn"]
  /\ createdBy = [l \in Lists |-> None]
  /\ itemState \in {s \in [Items -> {"unborn", "live", "deleted"}] :
                      \A i \in Items : s[i] = "unborn" <=> i \notin SeedItems}
  /\ row \in {w \in [Items -> SeedRow \cup {NoRow}] :
                \A i \in Items : w[i] = NoRow <=> i \notin SeedItems}
  /\ keyShare = {}
  /\ pc = [r \in Requests |-> "new"]
  /\ req = [r \in Requests |-> NoRequest]
  /\ overtaken = [r \in Requests |-> FALSE]
  /\ unannounced = {}
  /\ lost = {}

ListStep(r) ==
  \/ InsertList(r) \/ UpdateListName(r) \/ DeleteListRow(r) \/ ReadList(r)
  \/ LoadCopySource(r) \/ LockCopySource(r) \/ CopyRows(r) \/ CommitCopy(r)

ItemStep(r) ==
  \/ InsertItem(r) \/ UpdateItemRow(r) \/ SoftDeleteItem(r) \/ RestoreItemRow(r)
  \/ LoadForCheck(r) \/ WriteChecked(r) \/ ReadItem(r)

Step(r) == ListStep(r) \/ ItemStep(r) \/ Publish(r)

Next ==
  \/ \E r \in Requests : Arrive(r) \/ Step(r) \/ FailRequest(r)
  \/ Answered

Spec == Init /\ [][Next]_vars

\* A request that has arrived runs on: its goroutine is scheduled and the
\* database answers.  Nothing obliges clients to send requests.
FairSpec == Spec /\ \A r \in Requests : WF_vars(Step(r))

-----------------------------------------------------------------------------
(* What must hold.                                                         *)

\* The ids and the kind of operation a handler holds at each of its steps.
HandlerOK(r) ==
  LET q == req[r] IN
  /\ IF pc[r] \in {"new", "done"} THEN q = NoRequest ELSE q.op # "none"
  /\ pc[r] \in {"lock", "rows", "commit"} => q.op = "copyList"
  /\ pc[r] = "write" => q.op \in {"check", "uncheck"}
  /\ pc[r] = "commit" => q.made \in Lists
  /\ pc[r] = "reread" /\ q.op \in {"createList", "copyList"} => q.made \in Lists
  /\ q.op \in ItemOps => q.list \in Lists
  /\ q.op \in {"renameList", "deleteList", "copyList"} => q.list \in Lists
  /\ q.op \in {"createList", "copyList", "addItem", "check"} => q.actor \in Actors

\* The types of the variables, and that a handler never loses the id its
\* RETURNING clause or its transaction handed it before it re-reads the row.
TypeOK ==
  /\ listState \in [Lists -> ListState]
  /\ createdBy \in [Lists -> Actors \cup {None}]
  /\ itemState \in [Items -> ItemState]
  /\ row \in [Items -> Row]
  /\ keyShare \subseteq Requests \X Lists
  /\ pc \in [Requests -> Pc]
  /\ req \in [Requests -> Request]
  /\ overtaken \in [Requests -> BOOLEAN]
  /\ unannounced \subseteq Topic
  /\ lost \subseteq Topic
  /\ \A r \in Requests : HandlerOK(r)

\* No item outlives its list or becomes visible before it: an add that races a
\* delete of its list fails instead of leaving an orphan (AddItem checks nothing
\* beforehand), the cascade takes the soft-deleted rows too, and the rows of a
\* copy appear and vanish together with the list they are on.
ItemsFollowTheirList ==
  \A i \in Items :
    /\ itemState[i] \in {"live", "deleted"} => ListVisible(row[i].list)
    /\ itemState[i] = "draft" => row[i].list \in Lists /\ listState[row[i].list] = "draft"

\* From its guard to its commit a copy holds the lock on its source, which
\* cannot be deleted meanwhile: a delete that races the copy never turns it into
\* a silently empty one (CopyList's FOR KEY SHARE).  The list it is building is
\* a draft no other transaction touches, so that a rollback undoes only its own.
CopyIsolated ==
  \A r \in Requests :
    /\ pc[r] \in {"rows", "commit"} =>
         ListVisible(req[r].list) /\ <<r, req[r].list>> \in keyShare
    /\ pc[r] = "commit" =>
         /\ listState[req[r].made] = "draft"
         /\ \A q \in Requests : pc[q] = "commit" /\ req[q].made = req[r].made => q = r

\* checked, checked_at and bought_by tell one story whatever checks, unchecks
\* and folded adds have run: a time iff checked, a buyer only if checked, and on
\* every row written by this code a buyer if checked.
PurchaseRecordsAgree ==
  \A i \in Items :
    /\ row[i].checkedAt = row[i].checked
    /\ row[i].boughtBy # None => row[i].checked
    /\ i \notin SeedItems /\ row[i].checked => row[i].boughtBy # None

\* Request r is past its write and will publish topic t unless it fails.
Owes(r, t) ==
  /\ req[r] # NoRequest
  /\ TopicOf(req[r]) = t
  /\ \/ pc[r] = "publish"
     \/ pc[r] = "reread" /\ IF req[r].op \in ItemOps
                            THEN ItemVisible(req[r])
                            ELSE ListVisible(ListReadBack(req[r]))

\* Every committed change that no event has followed yet is still owed one by a
\* running handler, or an error swallowed it.  The hard case is a write whose
\* re-read finds the row gone, so that its handler answers 404 and publishes
\* nothing: the request that removed the row must owe an event of that topic.
EveryChangeAnnounced ==
  \A t \in unannounced : t \in lost \/ \E r \in Requests : Owes(r, t)

\* A soft-deleted row is exactly what its undo will bring back: no edit, check
\* or uncheck that loaded it before the delete changes it while it is deleted,
\* and restoring it changes nothing but updated_at (RestoreItem).
DeletedRowsFrozen ==
  [][\A i \in Items :
       itemState[i] = "deleted" =>
         \/ itemState'[i] = "deleted" /\ row'[i] = row[i]
         \/ itemState'[i] = "live" /\ [row'[i] EXCEPT !.rev = FALSE] = [row[i] EXCEPT !.rev = FALSE]
         \/ itemState'[i] = "gone"]_vars

\* The buyer of a checked item changes hands only when the request that takes it
\* loaded the item before somebody else's write (setChecked's early return stops
\* every other re-check).
CreditMovesOnlyInARace ==
  [][\A i \in Items :
       /\ itemState[i] \in {"live", "deleted"}
       /\ row[i].checked /\ row'[i].checked /\ row'[i].boughtBy # row[i].boughtBy
       =>
         \E r \in Requests : /\ pc[r] = "write" /\ pc'[r] # "write"
                             /\ req[r].item = i /\ overtaken[r]]_vars

\* What the comment on setChecked and the API description promise: checking an
\* item that is already checked never reassigns it.
BuyerNeverReassigned ==
  [][\A i \in Items :
       row[i].checked /\ row'[i].checked => row'[i].boughtBy = row[i].boughtBy]_vars

\* Readers see committed rows only, and no updated_at: the shopping board.
Board == INSTANCE ShoppingBoard WITH
  board <- [l \in Lists |-> CASE listState[l] = "live" -> "present"
                              [] listState[l] = "gone" -> "gone"
                              [] OTHER -> "absent"],
  author <- [l \in Lists |-> IF listState[l] = "live" THEN createdBy[l] ELSE None],
  shelf <- [i \in Items |-> CASE itemState[i] = "live" -> "present"
                              [] itemState[i] = "deleted" -> "hidden"
                              [] itemState[i] = "gone" -> "gone"
                              [] OTHER -> "absent"],
  card <- [i \in Items |-> IF itemState[i] \in {"live", "deleted"}
                           THEN [list |-> row[i].list, bought |-> row[i].checked,
                                 addedBy |-> row[i].addedBy, boughtBy |-> row[i].boughtBy]
                           ELSE [list |-> None, bought |-> FALSE,
                                 addedBy |-> None, boughtBy |-> None]]

\* The statements of concurrent requests, failures and rollbacks included, look
\* to every reader like operations done one at a time: a list never appears or
\* goes without its items, and a copy appears while its source is still there.
ImplementsBoard == Board!BoardSpec

\* Every request that arrives is answered: a delete that waits for a copy's lock
\* gets it, also when the copy fails half-way.
RequestsFinish == \A r \in Requests : pc[r] # "new" ~> pc[r] = "done"

\* Every committed change is announced in the end, or an error has swallowed
\* its announcement.
ChangesReachClients == \A t \in Topic : t \in unannounced ~> (t \notin unannounced \/ t \in lost)
=============================================================================
