------------------------------ MODULE LiveSync ------------------------------
(***************************************************************************)
(* What an open list shows (frontend/src/ListDetail.tsx, queries.ts,       *)
(* live.ts): its cached rows and open count between the user's optimistic  *)
(* taps, the rollbacks of those that fail, the hints of the event stream   *)
(* and the refetches they cause, beside everybody else's changes.  How a   *)
(* tap is retried and queued is Outbox's subject; here a mutation succeeds *)
(* or fails once.  React Query, EventSource and the network are external.  *)
(***************************************************************************)
EXTENDS Integers, FiniteSets, Sequences

CONSTANTS
  Items,       \* items of the list
  Slots,       \* the user's taps
  Room,        \* subscriberBuffer, 16 in the broker
  MaxChanges,  \* bound: changes made by other members
  MaxTroubles  \* bound: lost connections and failed refetches

ASSUME LiveAssumption ==
  /\ IsFiniteSet(Items) /\ Items # {}
  /\ Room \in Nat \ {0}
  /\ MaxChanges \in Nat
  /\ MaxTroubles \in Nat

VARIABLES
  table,     \* [Items -> ...]: the items on the server
  owed,      \* committed changes of others whose event is not published yet
  stream,    \* the EventSource as the client sees it
  wire,      \* the broker holds a subscription for it
  buffer,    \* topics in the subscription and under way to the client
  awaiting,  \* awaitingReconnect
  cache,     \* the detail query: rows and openItemCount
  fetch,     \* the refetch in flight
  mut,       \* the user's mutations
  causes,    \* ghost: why the view may be stale although nothing is under way
  changes, troubles

backend == <<table, owed, changes>>
channel == <<stream, wire, buffer, awaiting>>
vars == <<backend, channel, cache, fetch, mut, causes, troubles>>

-----------------------------------------------------------------------------

Stored == {"unborn", "open", "done", "deleted open", "deleted done"}
Shown == {"absent", "open", "done"}

View(t) == [i \in Items |-> IF t[i] \in {"open", "done"} THEN t[i] ELSE "absent"]
OpenIn(rows) == Cardinality({i \in Items : rows[i] = "open"})

Content == [rows: [Items -> Shown], open: Int]
Nothing == [rows |-> [i \in Items |-> "absent"], open |-> 0]

Ops == {"add", "check", "uncheck", "delete", "restore"}

\* "mutate" awaits cancelQueries.  `was` is the row a removal takes away and its
\* undo brings back, `before` the snapshot a rollback writes, `touched` a ghost:
\* the rows were written, or a refetch given up, since.
Mutation == [op: Ops \cup {"none"}, item: Items,
             at: {"free", "mutate", "sent", "refused", "committed", "published", "done"},
             was: Shown, before: Content, touched: BOOLEAN]

Busy == {m \in Slots : mut[m].at \notin {"free", "done"}}

\* The hint of this list, or of any other.
Topic == {"this", "other"}
Cause == {"rollback", "late", "crowded", "fetch"}

Free == [op |-> "none", item |-> CHOOSE i \in Items : TRUE, at |-> "free",
         was |-> "absent", before |-> Nothing, touched |-> FALSE]

\* What a statement needs to find, and what it leaves.
Needs(op) == CASE op = "add" -> {"unborn"}
               [] op = "check" -> {"open", "done"}
               [] op = "uncheck" -> {"open", "done"}
               [] op = "delete" -> {"open", "done"}
               [] op = "restore" -> Stored \ {"unborn"}

Result(s, op) == CASE op = "add" -> "open"
                   [] op = "check" -> "done"
                   [] op = "uncheck" -> "open"
                   [] op = "delete" -> IF s = "open" THEN "deleted open" ELSE "deleted done"
                   [] op = "restore" -> CASE s = "deleted open" -> "open"
                                          [] s = "deleted done" -> "done"
                                          [] OTHER -> s

Trouble == troubles < MaxTroubles /\ troubles' = troubles + 1

-----------------------------------------------------------------------------
(* Refetches.  `cures` are the causes of staleness a refetch will end: those *)
(* that were there when it was asked for.                                    *)

Idle == [at |-> "idle", open |-> 0, rows |-> Nothing.rows, cures |-> {}]
Asked == [Idle EXCEPT !.at = "asked", !.cures = causes]

\* invalidateQueries: a refetch, which takes the place of one in flight.
Invalidate == fetch' = Asked

Blame(c) ==
  /\ causes' = causes \cup {c}
  /\ fetch' = [fetch EXCEPT !.cures = @ \ {c}]

\* Everything but m that has a snapshot sees the rows change under it.
Touch(m, x) == mut' = [n \in Slots |->
                        IF n = m THEN x
                        ELSE IF n \in Busy THEN [mut[n] EXCEPT !.touched = TRUE]
                        ELSE mut[n]]

\* Service.GetList: the counts in one statement, the items in another.
ReadCounts ==
  /\ fetch.at = "asked"
  /\ fetch' = [fetch EXCEPT !.at = "counted", !.open = OpenIn(View(table))]
  /\ UNCHANGED <<backend, channel, cache, mut, causes, troubles>>

ReadItems ==
  /\ fetch.at = "counted"
  /\ fetch' = [fetch EXCEPT !.at = "read", !.rows = View(table)]
  /\ UNCHANGED <<backend, channel, cache, mut, causes, troubles>>

FetchAnswered ==
  /\ fetch.at = "read"
  /\ cache' = [rows |-> fetch.rows, open |-> fetch.open]
  /\ mut' = [n \in Slots |-> IF n \in Busy THEN [mut[n] EXCEPT !.touched = TRUE] ELSE mut[n]]
  /\ causes' = causes \ fetch.cures
  /\ fetch' = Idle
  /\ UNCHANGED <<backend, channel, troubles>>

\* An error, and its one retry fails too: the old rows stay on the screen.
FetchFailed ==
  /\ fetch.at # "idle" /\ Trouble
  /\ fetch' = Idle
  /\ causes' = causes \cup {"fetch"}
  /\ UNCHANGED <<backend, channel, cache, mut>>

-----------------------------------------------------------------------------
(* The event stream.                                                       *)

\* A reload is due: `reconnect` follows the next open.
ReloadDue == awaiting \/ (stream = "open" /\ ~wire)

\* Broker.Publish: dropped when the buffer is full.  A hint that finds no
\* subscription is made up for by the reload after a reconnect, and else only
\* by a refetch that has not read yet.
Emit(topic) ==
  IF wire /\ Len(buffer) < Room
  THEN buffer' = Append(buffer, topic) /\ UNCHANGED <<causes, fetch>>
  ELSE /\ UNCHANGED buffer
       /\ CASE wire /\ topic = "this" /\ (\A k \in 1..Len(buffer) : buffer[k] # "this") ->
                 Blame("crowded")
            [] ~wire /\ topic = "this" /\ ~ReloadDue /\ fetch.at # "asked" -> Blame("late")
            [] OTHER -> UNCHANGED <<causes, fetch>>

Subscribed ==
  /\ stream = "connecting" /\ ~wire
  /\ wire' = TRUE
  /\ UNCHANGED <<backend, stream, buffer, awaiting, cache, fetch, mut, causes, troubles>>

\* Faulty: a stream that comes back counts as if it had never been away.
HandleOpen_NoReload ==
  /\ stream = "connecting" /\ wire
  /\ stream' = "open"
  /\ awaiting' = FALSE
  /\ UNCHANGED <<backend, wire, buffer, cache, fetch, mut, causes, troubles>>

\* handleOpen: only an open that follows an error reloads the view.
HandleOpen ==
  /\ stream = "connecting" /\ wire
  /\ stream' = "open"
  /\ awaiting' = FALSE
  /\ IF awaiting THEN Invalidate ELSE UNCHANGED fetch
  /\ UNCHANGED <<backend, wire, buffer, cache, mut, causes, troubles>>

\* The connection breaks.  Once the stream is open the client need not see it.
Break ==
  /\ wire /\ Trouble
  /\ wire' = FALSE
  /\ buffer' = <<>>
  /\ awaiting' = (awaiting \/ stream = "connecting")
  /\ UNCHANGED <<backend, stream, cache, fetch, mut, causes>>

\* handleError: EventSource tries again by itself, unless the answer was an
\* HTTP error.
HandleError ==
  /\ stream = "open" /\ ~wire
  /\ stream' = "connecting"
  /\ awaiting' = TRUE
  /\ UNCHANGED <<backend, wire, buffer, cache, fetch, mut, causes, troubles>>

HandleRefusal ==
  /\ stream = "connecting" /\ ~wire /\ Trouble
  /\ stream' = "failed"
  /\ awaiting' = TRUE
  /\ UNCHANGED <<backend, wire, buffer, cache, fetch, mut, causes>>

\* Faulty: the hint is taken for one of some other list.
HandleMessage_Ignores ==
  /\ stream = "open" /\ buffer # <<>>
  /\ buffer' = Tail(buffer)
  /\ UNCHANGED <<backend, stream, wire, awaiting, cache, fetch, mut, causes, troubles>>

\* handleMessage and the listener of ListDetail.
HandleMessage ==
  /\ stream = "open" /\ buffer # <<>>
  /\ buffer' = Tail(buffer)
  /\ IF Head(buffer) = "this" THEN Invalidate ELSE UNCHANGED fetch
  /\ UNCHANGED <<backend, stream, wire, awaiting, cache, mut, causes, troubles>>

\* The view is left and opened again: a new EventSource, and a refetch unless
\* one is in flight.  Hints the old stream had not delivered are gone.
Revisit ==
  /\ Trouble
  /\ stream' = "connecting"
  /\ wire' = FALSE
  /\ buffer' = <<>>
  /\ awaiting' = FALSE
  /\ IF fetch.at = "idle" THEN Invalidate /\ UNCHANGED causes
     ELSE IF fetch.at # "asked" /\ (buffer # <<>> \/ ReloadDue)
     THEN Blame("late")
     ELSE UNCHANGED <<fetch, causes>>
  /\ UNCHANGED <<backend, cache, mut>>

-----------------------------------------------------------------------------
(* The other members.                                                      *)

Change ==
  /\ changes < MaxChanges
  /\ changes' = changes + 1
  /\ owed' = owed + 1
  /\ \E i \in Items, op \in Ops :
       /\ table[i] \in Needs(op)
       /\ table' = [table EXCEPT ![i] = Result(@, op)]
  /\ UNCHANGED <<channel, cache, fetch, mut, causes, troubles>>

PublishChange ==
  /\ owed > 0
  /\ owed' = owed - 1
  /\ Emit("this")
  /\ UNCHANGED <<table, changes, stream, wire, awaiting, cache, mut, troubles>>

\* Something happens to another list.
ChangeElsewhere ==
  /\ changes < MaxChanges
  /\ changes' = changes + 1
  /\ Emit("other")
  /\ UNCHANGED <<table, owed, stream, wire, awaiting, cache, mut, troubles>>

-----------------------------------------------------------------------------
(* The user's taps.                                                        *)

CanTap(op, i) ==
  CASE op = "add" -> table[i] = "unborn" /\ \A m \in Slots : mut[m].op # "none" => mut[m].item # i
    [] op = "check" -> cache.rows[i] = "open"
    [] op = "uncheck" -> cache.rows[i] = "done"
    [] op = "delete" -> cache.rows[i] # "absent"
    [] op = "restore" -> \E d \in Slots : /\ mut[d].op = "delete" /\ mut[d].item = i
                                         /\ mut[d].at \notin {"free", "mutate"}

RowToBringBack(op, i) ==
  IF op = "restore" THEN LET d == CHOOSE d \in Slots : mut[d].op = "delete" /\ mut[d].item = i
                         IN mut[d].was
  ELSE cache.rows[i]

\* onMutate (handleRemoveItem for a removal) up to its await: cancelQueries
\* gives up the refetch in flight.
Tap(m, op, i) ==
  /\ mut[m].at = "free"
  /\ CanTap(op, i)
  /\ mut' = [mut EXCEPT ![m] = [Free EXCEPT !.op = op, !.item = i, !.at = "mutate",
                                            !.was = IF op \in {"delete", "restore"}
                                                    THEN RowToBringBack(op, i) ELSE "absent",
                                            !.touched = (fetch.at # "idle")]]
  /\ fetch' = Idle
  /\ UNCHANGED <<backend, channel, cache, causes, troubles>>

\* What a tap makes of the cached rows before the server has answered.
Optimistic(op, i, was) ==
  LET open == IF was = "open" THEN 1 ELSE 0
      Mark(s) == IF cache.rows[i] = "absent" THEN "absent" ELSE s
  IN
  CASE op = "add" -> [rows |-> [cache.rows EXCEPT ![i] = "open"], open |-> cache.open + 1]
    [] op = "check" -> [rows |-> [cache.rows EXCEPT ![i] = Mark("done")], open |-> cache.open - 1]
    [] op = "uncheck" -> [rows |-> [cache.rows EXCEPT ![i] = Mark("open")], open |-> cache.open + 1]
    [] op = "delete" -> [rows |-> [cache.rows EXCEPT ![i] = "absent"], open |-> cache.open - open]
    [] op = "restore" -> [rows |-> [cache.rows EXCEPT ![i] = was], open |-> cache.open + open]

\* ... and after it.
Apply(m) ==
  LET x == mut[m] IN
  /\ x.at = "mutate"
  /\ cache' = Optimistic(x.op, x.item, x.was)
  /\ Touch(m, [x EXCEPT !.at = "sent", !.before = IF x.op = "delete" THEN Nothing ELSE cache])
  /\ UNCHANGED <<backend, channel, fetch, causes, troubles>>

Commit(m) ==
  LET x == mut[m] IN
  /\ x.at = "sent"
  /\ IF table[x.item] \in Needs(x.op)
     THEN LET s == Result(table[x.item], x.op) IN
          /\ table' = [table EXCEPT ![x.item] = s]
          /\ mut' = [mut EXCEPT ![m].at = "committed",
                                ![m].was = IF x.op = "restore" THEN s ELSE @]
     ELSE /\ mut' = [mut EXCEPT ![m].at = "refused"]
          /\ UNCHANGED table
  /\ UNCHANGED <<owed, changes, channel, cache, fetch, causes, troubles>>

PublishOwn(m) ==
  /\ mut[m].at = "committed"
  /\ mut' = [mut EXCEPT ![m].at = "published"]
  /\ Emit("this")
  /\ UNCHANGED <<backend, stream, wire, awaiting, cache, troubles>>

\* onSettled: removals and restores refetch whatever came of them.
Settle(op) == IF op \in {"delete", "restore"} THEN Invalidate ELSE UNCHANGED fetch

\* Of a mutation that has ended only a removal can still be undone.
Ended(x) == IF x.op = "delete"
            THEN [Free EXCEPT !.op = "delete", !.item = x.item, !.at = "done", !.was = x.was]
            ELSE [Free EXCEPT !.at = "done"]

Succeed(m) ==
  LET x == mut[m] IN
  /\ x.at = "published"
  /\ IF x.op = "restore"
     THEN /\ cache' = [cache EXCEPT !.rows[x.item] = x.was]
          /\ Touch(m, Ended(x))
     ELSE mut' = [mut EXCEPT ![m] = Ended(x)] /\ UNCHANGED cache
  /\ Settle(x.op)
  /\ UNCHANGED <<backend, channel, causes, troubles>>

\* handleFinalError after a 4xx.
Refused(m) ==
  /\ mut[m].at = "refused"
  /\ mut' = [mut EXCEPT ![m] = Ended(@)]
  /\ Invalidate
  /\ UNCHANGED <<backend, channel, cache, causes, troubles>>

\* ... and after its last retry: the snapshot is written back, whatever has
\* happened to the rows since.
RollBack(m) ==
  LET x == mut[m] IN
  /\ x.at \in {"sent", "published"} /\ Trouble
  /\ IF x.op = "delete"
     THEN mut' = [mut EXCEPT ![m] = Ended(x)] /\ UNCHANGED cache
     ELSE cache' = x.before /\ Touch(m, Ended(x))
  /\ IF x.op \in {"delete", "restore"} THEN Invalidate /\ UNCHANGED causes
     ELSE IF x.touched \/ x.at = "published" THEN Blame("rollback")
     ELSE UNCHANGED <<fetch, causes>>
  /\ UNCHANGED <<backend, channel>>

-----------------------------------------------------------------------------

Init ==
  /\ table \in [Items -> {"unborn", "open", "done"}]
  /\ owed = 0 /\ changes = 0 /\ troubles = 0
  /\ stream = "connecting" /\ wire = FALSE /\ buffer = <<>> /\ awaiting = FALSE
  /\ cache = Nothing
  /\ fetch = [at |-> "asked", open |-> 0, rows |-> Nothing.rows, cures |-> {}]
  /\ mut = [m \in Slots |-> Free]
  /\ causes = {}

Client ==
  \/ ReadCounts \/ ReadItems \/ FetchAnswered
  \/ Subscribed \/ HandleOpen \/ HandleMessage \/ HandleError

Work(m) == Apply(m) \/ Commit(m) \/ PublishOwn(m) \/ Succeed(m) \/ Refused(m)

Members == Change \/ PublishChange \/ ChangeElsewhere

Troubles == FetchFailed \/ Break \/ HandleRefusal \/ Revisit \/ \E m \in Slots : RollBack(m)

Next ==
  \/ Client \/ Members \/ Troubles
  \/ \E m \in Slots : Work(m) \/ \E op \in Ops, i \in Items : Tap(m, op, i)

Spec == Init /\ [][Next]_vars

\* The event loop goes on, the server answers and the handlers publish.  That a
\* broken connection is noticed is not assumed: EventSource never writes.
Fairness ==
  /\ WF_vars(ReadCounts \/ ReadItems \/ FetchAnswered)
  /\ WF_vars(Subscribed \/ HandleOpen \/ HandleMessage)
  /\ WF_vars(PublishChange)
  /\ \A m \in Slots : WF_vars(Work(m))

FairSpec == Spec /\ Fairness

-----------------------------------------------------------------------------

\* The types; the buffer keeps its bound, and a refetch claims to cure only what
\* is there.
TypeOK ==
  /\ table \in [Items -> Stored]
  /\ owed \in 0..MaxChanges /\ changes \in 0..MaxChanges /\ troubles \in 0..MaxTroubles
  /\ stream \in {"connecting", "open", "failed"}
  /\ {wire, awaiting} \subseteq BOOLEAN
  /\ buffer \in Seq(Topic) /\ Len(buffer) <= Room
  /\ cache \in Content
  /\ mut \in [Slots -> Mutation]
  /\ fetch.at \in {"idle", "asked", "counted", "read"}
  /\ fetch.cures \subseteq causes /\ causes \subseteq Cause

\* Nothing is under way that could still change what the view shows.
AtRest ==
  /\ stream = "open" /\ wire /\ buffer = <<>>
  /\ fetch.at = "idle" /\ owed = 0 /\ Busy = {}

InSync == cache.rows = View(table) /\ cache.open = OpenIn(View(table))

\* A view at rest shows what the server has, rows and count, whatever the order
\* of taps, answers, hints, refetches, lost connections and reconnects was.  The
\* four causes are all the exceptions: a rollback to a snapshot that was no
\* longer the latest, a change between the last read and the first open of the
\* stream, a hint crowded out by other lists' hints, a failed refetch.
RestsInSync == AtRest /\ causes = {} => InSync

\* And a view gets there: over a stream that stays up, every change, the user's
\* or another member's, is shown in the end, apart from those same causes.
ViewCatchesUp == <>[]wire => []<>(InSync \/ causes # {})
=============================================================================
