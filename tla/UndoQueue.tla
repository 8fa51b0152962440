----------------------------- MODULE UndoQueue ------------------------------
(***************************************************************************)
(* Deleting a list with undo (frontend/src/useUndoQueue.ts, used by        *)
(* ListsOverview.tsx and ListDetail.tsx): the row goes at once, the DELETE *)
(* waits for five seconds, and the timer, the Undo button and the view     *)
(* that goes away compete for it, beside refetches of the overview.        *)
(* Timers and the answers of the server may come in any order.             *)
(***************************************************************************)
EXTENDS Integers, Sequences, SequencesExt, FiniteSets

CONSTANTS
  Order,        \* the lists, in the order the server gives them
  MaxRemovals,  \* bound: clicks on Delete
  MaxHints,     \* bound: hints from the event stream
  MaxVisits     \* bound: how often the view is opened again

ASSUME UndoAssumption ==
  /\ Order \in Seq(Range(Order)) /\ IsInjective(Order)
  /\ {MaxRemovals, MaxHints, MaxVisits} \subseteq Nat

VARIABLES
  mounted,   \* the view is on the screen
  cache,     \* the rows of the overview query
  fetch,     \* its refetch in flight
  removal,   \* the clicks on Delete, in order
  entries,   \* the hook's map from ids to the removals whose timer it holds
  restores,  \* its map from ids to the removals its Undo button undoes
  server,    \* lists the server still has
  muddled,   \* ghost: an undo used an index that no longer holds, or a
             \* removal gave up a refetch
  hints, visits

vars == <<mounted, cache, fetch, removal, entries, restores, server, muddled, hints, visits>>

-----------------------------------------------------------------------------

Lists == Range(Order)
Removals == 1..MaxRemovals

\* "awaiting" is in front of the await of cancelQueries, "deleting" has its
\* DELETE on the way.  `view` is the visit it awaits in, `stale` a ghost: the index
\* it took may be wrong by now.
Removal == [list: Lists \cup {"none"}, at: {"unused", "awaiting", "open", "deleting", "deleted", "undone"},
            view: 0..MaxVisits, index: Nat, timer: BOOLEAN, stale: BOOLEAN, commits: 0..2, undone: BOOLEAN]

Unused == [list |-> "none", at |-> "unused", view |-> 0, index |-> 0, timer |-> FALSE, stale |-> FALSE,
           commits |-> 0, undone |-> FALSE]

Open == {r \in Removals : removal[r].at = "open"}

\* The snackbar entries; a view that is gone shows none.
PendingIds == {l \in Lists : restores[l] # 0}

\* The rows of some lists, in the order they have: the n-th is the row with n such
\* rows up to itself.
Those(rows, ls) ==
  LET at == {k \in DOMAIN rows : rows[k] \in ls} IN
  [n \in 1..Cardinality(at) |-> rows[CHOOSE k \in at : Cardinality({j \in at : j <= k}) = n]]

Present(ls) == Those(Order, ls)
Without(rows, l) == Those(rows, Lists \ {l})

-----------------------------------------------------------------------------
(* The overview query.                                                     *)

\* `old` is a ghost: a list went after the read, and nobody listened for hints.
Idle == [at |-> "idle", rows |-> <<>>, old |-> FALSE]
Asked == [Idle EXCEPT !.at = "asked"]

\* A hint, of any kind, refetches the overview; so does opening the view.
Hint ==
  /\ mounted /\ hints < MaxHints
  /\ hints' = hints + 1
  /\ fetch' = Asked
  /\ UNCHANGED <<mounted, cache, removal, entries, restores, server, muddled, visits>>

ReadLists ==
  /\ fetch.at = "asked"
  /\ fetch' = [Idle EXCEPT !.at = "read", !.rows = Present(server)]
  /\ UNCHANGED <<mounted, cache, removal, entries, restores, server, muddled, hints, visits>>

\* Rows whose removal is open come back with it; the view hides them.
FetchAnswered ==
  /\ fetch.at = "read"
  /\ cache' = fetch.rows
  /\ fetch' = Idle
  /\ muddled' = fetch.old
  /\ removal' = [r \in Removals |-> [removal[r] EXCEPT !.stale = @ \/ r \in Open]]
  /\ UNCHANGED <<mounted, entries, restores, server, hints, visits>>

-----------------------------------------------------------------------------
(* The hook.                                                               *)

\* handleDelete up to its await, which no second click gets in front of.  A
\* refetch in flight is given up, whatever it was for.
ClickDelete(r, l) ==
  /\ mounted
  /\ removal[r].at = "unused" /\ \A q \in Removals : q < r => removal[q].at # "unused"
  /\ l \in Range(cache) \ PendingIds
  /\ \A q \in Removals : removal[q].at # "awaiting"
  /\ removal' = [removal EXCEPT ![r].list = l, ![r].at = "awaiting", ![r].view = visits]
  /\ fetch' = Idle
  /\ muddled' = (muddled \/ fetch.at # "idle")
  /\ UNCHANGED <<mounted, cache, entries, restores, server, hints, visits>>

Position(l) == IF l \in Range(cache) THEN CHOOSE k \in 1..Len(cache) : cache[k] = l ELSE 0

\* ... and after it: removeListLocally, then schedule.  A view that has gone
\* away meanwhile keeps the timer and shows no entry, and the next view has maps
\* of its own.
Schedule(r) ==
  LET l == removal[r].list IN
  /\ removal[r].at = "awaiting"
  /\ removal' = [removal EXCEPT ![r].at = "open", ![r].index = Position(l), ![r].timer = TRUE,
                                ![r].view = 0]
  /\ cache' = Without(cache, l)
  /\ IF mounted /\ removal[r].view = visits
     THEN entries' = [entries EXCEPT ![l] = r] /\ restores' = [restores EXCEPT ![l] = r]
     ELSE UNCHANGED <<entries, restores>>
  /\ UNCHANGED <<mounted, fetch, server, muddled, hints, visits>>

Committed(x) == [x EXCEPT !.at = "deleting", !.timer = FALSE, !.commits = IF @ = 2 THEN 2 ELSE @ + 1]

\* Faulty: the entry stays on the screen with its Undo button.
TimerFires_KeepsUndo(r) ==
  /\ removal[r].timer
  /\ removal' = [removal EXCEPT ![r] = Committed(@)]
  /\ entries' = [entries EXCEPT ![removal[r].list] = IF @ = r THEN 0 ELSE @]
  /\ UNCHANGED <<mounted, cache, restores, fetch, server, muddled, hints, visits>>

TimerFires(r) ==
  LET l == removal[r].list IN
  /\ removal[r].timer
  /\ removal' = [removal EXCEPT ![r] = Committed(@)]
  /\ entries' = [entries EXCEPT ![l] = IF @ = r THEN 0 ELSE @]
  /\ restores' = [restores EXCEPT ![l] = IF @ = r THEN 0 ELSE @]
  /\ UNCHANGED <<mounted, cache, fetch, server, muddled, hints, visits>>

\* restoreListLocally: back to its index, or to the end if that is too far.
PutBack(r) ==
  LET l == removal[r].list
      k == IF removal[r].index = 0 \/ removal[r].index > Len(cache) THEN Len(cache) + 1
           ELSE removal[r].index
  IN InsertAt(cache, k, l)

\* Faulty: the timer goes on.
Undo_KeepsTimer(l) ==
  LET r == restores[l] IN
  /\ mounted /\ r # 0
  /\ removal' = [removal EXCEPT ![r].at = "undone", ![r].undone = TRUE]
  /\ cache' = PutBack(r)
  /\ entries' = [entries EXCEPT ![l] = 0]
  /\ restores' = [restores EXCEPT ![l] = 0]
  /\ UNCHANGED <<mounted, fetch, server, muddled, hints, visits>>

\* The Undo button.  The index is right if the removals since were undone first
\* and none before.
Undo(l) ==
  LET r == restores[l] IN
  /\ mounted /\ r # 0
  /\ removal' = [q \in Removals |->
                  IF q = r THEN [removal[r] EXCEPT !.at = "undone", !.timer = FALSE, !.undone = TRUE]
                  ELSE [removal[q] EXCEPT !.stale = @ \/ (q > r /\ q \in Open)]]
  /\ cache' = PutBack(r)
  /\ entries' = [entries EXCEPT ![l] = 0]
  /\ restores' = [restores EXCEPT ![l] = 0]
  /\ muddled' = (muddled \/ removal[r].stale \/ l \notin server
                 \/ \E q \in Removals : q > r /\ removal[q].at \in {"open", "deleting", "deleted"})
  /\ UNCHANGED <<mounted, fetch, server, hints, visits>>

\* Faulty: the open removals are forgotten with their timers.
Unmount_Forgets ==
  /\ mounted
  /\ mounted' = FALSE
  /\ removal' = [r \in Removals |-> IF \E l \in Lists : entries[l] = r
                                    THEN [removal[r] EXCEPT !.timer = FALSE] ELSE removal[r]]
  /\ entries' = [l \in Lists |-> 0]
  /\ restores' = [l \in Lists |-> 0]
  /\ UNCHANGED <<cache, fetch, server, muddled, hints, visits>>

\* The view goes away: the removals its map holds are committed at once.
Unmount ==
  /\ mounted
  /\ mounted' = FALSE
  /\ removal' = [r \in Removals |-> IF \E l \in Lists : entries[l] = r
                                    THEN Committed(removal[r]) ELSE removal[r]]
  /\ entries' = [l \in Lists |-> 0]
  /\ restores' = [l \in Lists |-> 0]
  /\ UNCHANGED <<cache, fetch, server, muddled, hints, visits>>

Mount ==
  /\ ~mounted /\ visits < MaxVisits
  /\ visits' = visits + 1
  /\ mounted' = TRUE
  /\ fetch' = IF fetch.at = "idle" THEN Asked ELSE fetch
  /\ UNCHANGED <<cache, removal, entries, restores, server, muddled, hints>>

-----------------------------------------------------------------------------
(* The DELETE.                                                             *)

\* The server deletes the list, and its hint comes back: the overview learns of
\* the deletion also if a refetch has shown the list again.
Deleted(r) ==
  /\ removal[r].at = "deleting"
  /\ removal' = [removal EXCEPT ![r].at = "deleted"]
  /\ server' = server \ {removal[r].list}
  /\ fetch' = IF mounted THEN Asked ELSE [fetch EXCEPT !.old = (fetch.at = "read")]
  /\ UNCHANGED <<mounted, cache, entries, restores, muddled, hints, visits>>

\* Faulty: a DELETE that fails leaves the overview as it is.
DeleteFails_Quiet(r) ==
  /\ removal[r].at = "deleting"
  /\ removal' = [removal EXCEPT ![r].at = "deleted"]
  /\ UNCHANGED <<mounted, cache, fetch, entries, restores, server, muddled, hints, visits>>

\* The overview's DELETE is tried once; a failure refetches, and the list is
\* there again.
DeleteFails(r) ==
  /\ removal[r].at = "deleting"
  /\ removal' = [removal EXCEPT ![r].at = "deleted"]
  /\ fetch' = IF mounted THEN Asked ELSE fetch
  /\ UNCHANGED <<mounted, cache, entries, restores, server, muddled, hints, visits>>

-----------------------------------------------------------------------------

Init ==
  /\ mounted = TRUE
  /\ cache = Order
  /\ fetch = Idle
  /\ removal = [r \in Removals |-> Unused]
  /\ entries = [l \in Lists |-> 0]
  /\ restores = [l \in Lists |-> 0]
  /\ server = Lists
  /\ muddled = FALSE
  /\ hints = 0 /\ visits = 0

Runs(r) == Schedule(r) \/ TimerFires(r) \/ Deleted(r) \/ DeleteFails(r)

Next ==
  \/ Hint \/ ReadLists \/ FetchAnswered \/ Unmount \/ Mount
  \/ \E r \in Removals : Runs(r) \/ \E l \in Lists : ClickDelete(r, l)
  \/ \E l \in Lists : Undo(l)

Spec == Init /\ [][Next]_vars

\* The event loop runs timers and answers; nobody has to click.
FairSpec == Spec /\ \A r \in Removals : WF_vars(Runs(r))

-----------------------------------------------------------------------------

\* The timer, the Undo button and the view that goes away never both or twice
\* decide one removal: what was undone is never deleted, and no DELETE is sent
\* twice (useUndoQueue clears the timer in both).  The hook's two maps hold the
\* same removals, and what they offer to undo has a timer that still runs.
DecidedOnce ==
  /\ \A r \in Removals :
       /\ removal[r].commits + (IF removal[r].undone THEN 1 ELSE 0) <= 1
       /\ removal[r].timer => removal[r].at = "open"
  /\ restores = entries
  /\ \A l \in Lists : entries[l] # 0 => removal[entries[l]].list = l /\ removal[entries[l]].timer

\* With nothing under way the overview shows the server's lists in the server's
\* order, also after overlapping removals undone last first, failed DELETEs and
\* refetches that brought back what was being removed.  Other orders of undoing,
\* and a click that gives up a refetch, leave it wrong until the next one.
OverviewInOrder ==
  /\ mounted /\ ~muddled /\ fetch.at = "idle"
  /\ \A r \in Removals : removal[r].at \notin {"awaiting", "open", "deleting"}
  => cache = Present(server)

\* A click on Delete is never forgotten: it is undone or its DELETE is sent, also
\* when the view goes away (the comment on useUndoQueue).
NoRemovalForgotten ==
  \A r \in Removals : removal[r].at = "awaiting" ~> removal[r].at \in {"deleting", "deleted", "undone"}
=============================================================================
