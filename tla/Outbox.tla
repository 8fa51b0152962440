------------------------------- MODULE Outbox -------------------------------
(***************************************************************************)
(* The offline outbox of the web client (frontend/src/queries.ts) for the  *)
(* items of one list: what becomes of the user's taps on their way to the  *)
(* server.  A tap becomes a React Query mutation, or is folded into a      *)
(* create that is still queued; mutations are attempted, retried, paused,  *)
(* resumed, saved to disk and replayed after a reload.  What the screen    *)
(* shows meanwhile is LiveSync's subject; here it is only which rows can   *)
(* be tapped.                                                              *)
(*                                                                         *)
(* React Query 5 is external and modelled from how queries.ts uses it: in  *)
(* the mode offlineFirst the first attempt always runs, and a mutation     *)
(* pauses when its backoff ends while the device is offline or hidden.     *)
(* The connection is what really works, `online` what the browser's events *)
(* have told React Query, which takes a fresh page to be online.           *)
(*                                                                         *)
(* The mutations of lists take the same path without folding.              *)
(* React Query forgets an ended mutation after some minutes; here it never *)
(* does, so that offline lookups may always still find it.                 *)
(***************************************************************************)
EXTENDS Naturals, FiniteSets

CONSTANTS
  Slots,       \* the mutations the user's taps can start
  Temps,       \* temp ids; each stands for one item the user added
  Reals,       \* ids the items table can hand out
  EditOps,     \* changes of an item: checks, edits of its name or quantity
  MaxAdds,     \* bound: items the user types in; what is undone is not typed
  Retries,     \* 3 in mutationRetry
  MaxTroubles, \* bound: outages, times in the background, reloads, and attempts
               \* that are lost although the connection works
  None

ASSUME OutboxAssumption ==
  /\ MaxAdds \in Nat /\ Retries \in Nat
  /\ MaxTroubles \in Nat
  /\ Temps \cap Reals = {}
  /\ None \notin Temps \cup Reals \cup {"add", "delete", "restore"}
  /\ EditOps \cap {"add", "delete", "restore", None} = {}

VARIABLES
  link,     \* the connection works
  online,   \* onlineManager.isOnline()
  visible,  \* the page is in the foreground
  mut,      \* the mutations
  screen,   \* ids of the rows the list shows
  disk,     \* what IndexedDB holds: the paused mutations
  server,   \* [Reals -> ...]: the items table
  row,      \* its columns
  origin,   \* ghost: the temp id an item was created from
  wish,     \* ghost: what the user last asked of each item
  excused,  \* ghost: items the user was told about, or whose taps raced
  troubles  \* bound: how much of MaxTroubles has happened

backend == <<server, row, origin>>
device == <<link, online, visible, disk, troubles>>
ghosts == <<wish, excused>>
vars == <<device, mut, screen, backend, ghosts>>

-----------------------------------------------------------------------------

Ids == Temps \cup Reals

\* An item, by the changes it has seen.
Row == SUBSET EditOps
Blank == {}

Ops == EditOps \cup {"add", "delete", "restore"}

\* "clicked" is a removal that awaits cancelQueries and is no mutation yet,
\* "orphan" a request whose page is gone.
Stage == {"free", "clicked", "mutate", "sent", "served", "refused",
          "backoff", "paused", "orphan", "done"}

Pending == Stage \ {"free", "orphan", "done"}

\* `item` and `body` are the mutation's variables, `sent` what its running
\* attempt took from them, `undo` the id a removal's Undo button would restore.
Mutation == [op: Ops \cup {None}, item: Ids \cup {None}, body: Row, at: Stage,
             sent: [item: Ids \cup {None}, body: Row], made: Reals \cup {None},
             tries: 0..Retries, cached: BOOLEAN, undo: Ids \cup {None}]

NoMutation == [op |-> None, item |-> None, body |-> Blank, at |-> "free",
               sent |-> [item |-> None, body |-> Blank], made |-> None,
               tries |-> 0, cached |-> FALSE, undo |-> None]

New(op, i, body) == [NoMutation EXCEPT !.op = op, !.item = i, !.body = body,
                                       !.at = "mutate", !.cached = TRUE]

\* What is left of a mutation when it ends (of a create, where findPausedCreate
\* may look for it; of a removal, its Undo), and of an attempt once it is served.
Done == [NoMutation EXCEPT !.at = "done"]
End(x) == IF x.op = "add" THEN [Done EXCEPT !.op = "add", !.item = x.item, !.cached = x.cached]
          ELSE [Done EXCEPT !.undo = x.undo]
Handled(x, at) == [x EXCEPT !.at = at, !.sent = NoMutation.sent]

\* The item, by the temp id it began as, that an id stands for.
Item(i) == IF i \in Reals THEN origin[i] ELSE i

About(t) == {m \in Slots : mut[m].at # "free" /\ Item(mut[m].item) = t}

Used(t) == \E m \in Slots : mut[m].op = "add" /\ mut[m].item = t

\* Ids are all alike; the next one is as good as any.
Unused == {t \in Temps : ~Used(t)}
Unborn == {r \in Reals : server[r] = "unborn"}
AnyOf(ids) == CHOOSE i \in ids : TRUE

\* The create of temp id t has succeeded.
Answered(t) ==
  \E m \in Slots : /\ mut[m].op = "add" /\ mut[m].item = t /\ mut[m].at = "done"
                   /\ \E r \in Reals : origin[r] = t

Outcome(b, op) == IF op \in EditOps THEN b \cup {op} ELSE b

\* Nothing orders two changes of one item that are under way together.
Overlaps(t, m) ==
  \E n \in About(t) \ {m} : mut[n].op # "add" /\ mut[n].at \in Pending \cup {"orphan"}

Excuse(t, why) == excused' = IF why THEN excused \cup {t} ELSE excused

-----------------------------------------------------------------------------
(* Taps.                                                                   *)

AddItem(m) ==
  /\ mut[m].at = "free"
  /\ Unused # {} /\ Cardinality(Temps \ Unused) < MaxAdds
  /\ mut' = [mut EXCEPT ![m] = New("add", AnyOf(Unused), Blank)]
  /\ wish' = [wish EXCEPT ![AnyOf(Unused)] = [want |-> TRUE, row |-> Blank]]
  /\ UNCHANGED <<device, screen, backend, excused>>

\* findPausedCreate: the create of an id that is taken to be queued.  Offline
\* that is any, also one under way or one that has ended, which React Query
\* keeps for some minutes.
Queued(i) ==
  {m \in Slots : /\ mut[m].op = "add" /\ mut[m].item = i
                 /\ mut[m].cached
                 /\ (mut[m].at = "paused" \/ ~online)}

\* Faulty: the newest change replaces the payload instead of merging into it.
Fold_Replaces(c, op) == mut' = [mut EXCEPT ![c].body = Outcome(Blank, op)]

\* updatePausedCreatePayload: in place, so that the next attempt carries it.
Fold(c, op) == mut' = [mut EXCEPT ![c].body = Outcome(@, op)]

\* A check, uncheck or edit of a row on the screen: folded into the queued
\* create of that row, else a mutation of its own.
TapItem(m, i, op) ==
  LET t == Item(i) IN
  /\ i \in screen
  /\ wish' = [wish EXCEPT ![t].row = Outcome(@, op)]
  /\ IF Queued(i) # {}
     THEN \E c \in Queued(i) :
            /\ Fold(c, op)
            /\ Excuse(t, mut[c].at \in {"sent", "served", "done"} \/ Overlaps(t, c))
     ELSE /\ mut[m].at = "free"
          /\ mut' = [mut EXCEPT ![m] = New(op, i, Blank)]
          /\ Excuse(t, Overlaps(t, m))
  /\ UNCHANGED <<device, screen, backend>>

\* handleRemoveItem up to its await.
ClickRemove(m, i) ==
  /\ mut[m].at = "free"
  /\ i \in screen
  /\ mut' = [mut EXCEPT ![m] = [NoMutation EXCEPT !.op = "delete", !.item = i, !.at = "clicked"]]
  /\ UNCHANGED <<device, screen, backend, ghosts>>

\* The create leaves the mutation cache.  One that is paused is never resumed;
\* one that is not goes on by itself.
Drop(x) == [IF x.at = "paused" THEN End(x) ELSE x EXCEPT !.cached = FALSE]

\* ... and after it: the row goes, and with it the queued create, or a DELETE
\* is queued.
RemoveItem(m) ==
  LET i == mut[m].item
      t == Item(i)
      creates == Queued(i)
  IN
  /\ mut[m].at = "clicked"
  /\ screen' = screen \ {i}
  /\ wish' = [wish EXCEPT ![t].want = FALSE]
  /\ mut' = [n \in Slots |->
               CASE n = m -> IF creates = {}
                             THEN [mut[m] EXCEPT !.at = "mutate", !.cached = TRUE, !.undo = i]
                             ELSE [Done EXCEPT !.undo = i]
                 [] n \in creates -> Drop(mut[n])
                 [] OTHER -> mut[n]]
  /\ Excuse(t, Overlaps(t, m) \/ Answered(i) \/ \E c \in creates : mut[c].at # "paused")
  /\ UNCHANGED <<device, backend>>

\* The Undo button of removal d: a fresh create for a row that was unsynced
\* when it was removed, else the server restores it.
UndoRemove(m, d) ==
  LET i == mut[d].undo IN
  /\ mut[m].at = "free"
  /\ i # None
  /\ IF i \in Reals
     THEN /\ mut' = [mut EXCEPT ![d].undo = None, ![m] = New("restore", i, Blank)]
          /\ wish' = [wish EXCEPT ![Item(i)].want = TRUE]
          /\ Excuse(Item(i), Overlaps(Item(i), m))
     ELSE /\ Unused # {}
          /\ mut' = [mut EXCEPT ![d].undo = None, ![m] = New("add", AnyOf(Unused), wish[i].row)]
          /\ wish' = [wish EXCEPT ![AnyOf(Unused)] = [want |-> TRUE, row |-> wish[i].row]]
          /\ UNCHANGED excused
  /\ UNCHANGED <<device, screen, backend>>

-----------------------------------------------------------------------------
(* Mutations.                                                              *)

Trouble == troubles < MaxTroubles /\ troubles' = troubles + 1

Attempt(x) == [x EXCEPT !.at = "sent", !.sent = [item |-> x.item, body |-> x.body]]

\* onMutate puts a new or restored row on the screen, then the first attempt
\* runs, online or not.
Start(m) ==
  /\ mut[m].at = "mutate"
  /\ mut' = [mut EXCEPT ![m] = Attempt(@)]
  /\ screen' = IF mut[m].op \in {"add", "restore"} THEN screen \cup {mut[m].item} ELSE screen
  /\ UNCHANGED <<device, backend, ghosts>>

\* The server carries a request out, or refuses it: the item is not there, or
\* the list is gone, the session over, the input invalid.
Handle(m, done, refused) ==
  LET x == mut[m]
      i == x.sent.item
      there == i \in Reals /\ server[i] \in IF x.op = "restore" THEN {"live", "deleted"} ELSE {"live"}
  IN
  \/ /\ x.op = "add"
     /\ Unborn # {}
     /\ LET r == AnyOf(Unborn) IN
          /\ server' = [server EXCEPT ![r] = "live"]
          /\ row' = [row EXCEPT ![r] = x.sent.body]
          /\ origin' = [origin EXCEPT ![r] = i]
          /\ mut' = [mut EXCEPT ![m] = [done EXCEPT !.made = IF done.at = "served" THEN r ELSE None]]
  \/ /\ x.op # "add" /\ there
     /\ server' = [server EXCEPT ![i] = IF x.op = "delete" THEN "deleted" ELSE "live"]
     /\ row' = [row EXCEPT ![i] = Outcome(@, x.op)]
     /\ mut' = [mut EXCEPT ![m] = done]
     /\ UNCHANGED origin
  \/ /\ mut' = [mut EXCEPT ![m] = refused]
     /\ UNCHANGED backend

Serve(m) ==
  /\ mut[m].at = "sent" /\ link
  /\ Handle(m, Handled(mut[m], "served"), Handled(mut[m], "refused"))
  /\ UNCHANGED <<device, screen, ghosts>>

ServeOrphan(m) ==
  /\ mut[m].at = "orphan" /\ link
  /\ Handle(m, End(mut[m]), End(mut[m]))
  /\ UNCHANGED <<device, screen, ghosts>>

\* remapQueuedItemId; a restore keeps its id elsewhere, a clicked removal is
\* not in the cache yet.
Remapped(x, t, r) ==
  IF x.cached /\ x.op \notin {"add", "restore"} /\ x.item = t THEN [x EXCEPT !.item = r] ELSE x

\* Faulty: only the paused mutations are rewritten.
Answer_RemapsPaused(m) ==
  LET x == mut[m] IN
  /\ x.at = "served" /\ link
  /\ mut' = [n \in Slots |->
               IF n = m THEN End(x)
               ELSE IF x.op = "add" /\ mut[n].at = "paused"
               THEN Remapped(mut[n], x.item, x.made) ELSE mut[n]]
  /\ screen' = IF x.op = "add" /\ x.item \in screen
               THEN (screen \ {x.item}) \cup {x.made} ELSE screen
  /\ UNCHANGED <<device, backend, ghosts>>

\* onSuccess: a create swaps the temp row for the server's and rewrites the
\* queued mutations that still name it.
Answer(m) ==
  LET x == mut[m] IN
  /\ x.at = "served" /\ link
  /\ mut' = [n \in Slots |->
               IF n = m THEN End(x)
               ELSE IF x.op = "add" THEN Remapped(mut[n], x.item, x.made) ELSE mut[n]]
  /\ screen' = IF x.op = "add" /\ x.item \in screen
               THEN (screen \ {x.item}) \cup {x.made} ELSE screen
  /\ UNCHANGED <<device, backend, ghosts>>

\* A final 4xx: dropped, with a notice.
Refuse(m) ==
  /\ mut[m].at = "refused" /\ link
  /\ mut' = [mut EXCEPT ![m] = End(@)]
  /\ excused' = excused \cup {Item(mut[m].item)}
  /\ UNCHANGED <<device, screen, backend, wish>>

\* mutationRetry, for an error that is not a 4xx.
MayRetry(x) == x.tries < Retries

\* No answer, or a 5xx: another attempt after a pause, at last the rollback.
LoseAttempt(m) ==
  LET x == mut[m]
      last == ~MayRetry(x)
  IN
  /\ x.at \in {"sent", "served", "refused"}
  /\ IF link THEN Trouble ELSE UNCHANGED troubles
  /\ mut' = [mut EXCEPT ![m] = IF last THEN End(x)
                               ELSE [Handled(x, "backoff") EXCEPT !.tries = @ + 1, !.made = None]]
  /\ screen' = IF last /\ x.op = "add" THEN screen \ {x.item} ELSE screen
  /\ Excuse(Item(x.item), last \/ (x.op = "add" /\ x.at = "served"))
  /\ UNCHANGED <<link, online, visible, disk, backend, wish>>

CanContinue == online /\ visible

\* The backoff ends: the next attempt, or a pause until something resumes it.
\* What has left the cache nothing can resume.
BackoffEnds(m) ==
  LET x == mut[m] IN
  /\ x.at = "backoff"
  /\ mut' = [mut EXCEPT ![m] = IF CanContinue THEN Attempt(x)
                               ELSE IF x.cached THEN [x EXCEPT !.at = "paused"]
                               ELSE End(x)]
  /\ UNCHANGED <<device, screen, backend, ghosts>>

-----------------------------------------------------------------------------
(* The device.                                                             *)

\* resumePausedMutations: all of them, in parallel.
Resume == mut' = [m \in Slots |-> IF mut[m].at = "paused" THEN Attempt(mut[m]) ELSE mut[m]]

ResumeIf(can) == IF can THEN Resume ELSE UNCHANGED mut

GoOffline ==
  /\ link /\ Trouble
  /\ link' = FALSE /\ online' = FALSE
  /\ UNCHANGED <<visible, mut, screen, disk, backend, ghosts>>

GoOnline ==
  /\ ~link
  /\ link' = TRUE /\ online' = TRUE
  /\ ResumeIf(visible)
  /\ UNCHANGED <<visible, screen, disk, troubles, backend, ghosts>>

Hide ==
  /\ visible /\ Trouble
  /\ visible' = FALSE
  /\ UNCHANGED <<link, online, mut, screen, disk, backend, ghosts>>

\* Faulty: coming back to the foreground resumes nothing.
Show_Asleep ==
  /\ ~visible
  /\ visible' = TRUE
  /\ UNCHANGED <<link, online, mut, screen, disk, troubles, backend, ghosts>>

Show ==
  /\ ~visible
  /\ visible' = TRUE
  /\ ResumeIf(online)
  /\ UNCHANGED <<link, online, screen, disk, troubles, backend, ghosts>>

\* A refetch replaces the rows by the server's; temp rows are not among them.
Refetch ==
  /\ link /\ online
  /\ screen' = {r \in Reals : server[r] = "live"}
  /\ screen' # screen
  /\ UNCHANGED <<device, mut, backend, ghosts>>

\* shouldDehydrateMutation.
Persisted(m) == mut[m].cached /\ mut[m].at = "paused"

Saved == [m \in Slots |-> IF Persisted(m) THEN mut[m] ELSE NoMutation]

\* The persister writes at most once a second.  What nothing will reload need not
\* be written (bound).
Save ==
  /\ disk # Saved /\ troubles < MaxTroubles
  /\ disk' = Saved
  /\ UNCHANGED <<link, online, visible, troubles, mut, screen, backend, ghosts>>

\* The page is loaded anew: what was saved is restored and replayed at once;
\* of what was not only requests already sent may still have an effect.
Reload ==
  /\ Trouble
  /\ online' = TRUE /\ visible' = TRUE
  /\ mut' = [m \in Slots |->
       LET s == disk[m] IN
       IF s.at = "paused" THEN [Attempt(s) EXCEPT !.tries = 0]
       ELSE IF mut[m].at = "sent" THEN [mut[m] EXCEPT !.at = "orphan", !.cached = FALSE, !.tries = 0]
       ELSE IF mut[m].at = "free" THEN NoMutation
       ELSE [End(mut[m]) EXCEPT !.cached = FALSE, !.undo = None]]
  /\ excused' = excused \cup
       {Item(mut[m].item) : m \in {n \in Slots :
          mut[n].at \in Pending \cup {"orphan"} /\ disk[n] # mut[n]}} \cup
       {Item(disk[m].item) : m \in {n \in Slots : mut[n].at = "done" /\ disk[n].at = "paused"}}
  /\ UNCHANGED <<link, disk, screen, backend, wish>>

-----------------------------------------------------------------------------

Init ==
  /\ link = TRUE /\ online = TRUE /\ visible = TRUE
  /\ mut = [m \in Slots |-> NoMutation]
  /\ screen = {}
  /\ disk = [m \in Slots |-> NoMutation]
  /\ server = [r \in Reals |-> "unborn"]
  /\ row = [r \in Reals |-> Blank]
  /\ origin = [r \in Reals |-> None]
  /\ wish = [t \in Temps |-> [want |-> FALSE, row |-> Blank]]
  /\ excused = {}
  /\ troubles = 0

Tap ==
  \E m \in Slots :
    \/ AddItem(m)
    \/ \E i \in Ids : ClickRemove(m, i) \/ \E op \in EditOps : TapItem(m, i, op)
    \/ \E d \in Slots : UndoRemove(m, d)

\* What the code does by itself, one mutation at a time.
Work(m) ==
  \/ RemoveItem(m) \/ Start(m) \/ Serve(m) \/ ServeOrphan(m)
  \/ Answer(m) \/ Refuse(m) \/ LoseAttempt(m) \/ BackoffEnds(m)

Device == GoOffline \/ GoOnline \/ Hide \/ Show \/ Refetch \/ Save \/ Reload

Next == Tap \/ (\E m \in Slots : Work(m)) \/ Device

Spec == Init /\ [][Next]_vars

-----------------------------------------------------------------------------

\* Types; no mutation is retried more often than mutationRetry allows.
TypeOK ==
  /\ {link, online, visible} \subseteq BOOLEAN
  /\ mut \in [Slots -> Mutation]
  /\ screen \subseteq Ids
  /\ disk \in [Slots -> Mutation]
  /\ server \in [Reals -> {"unborn", "live", "deleted"}]
  /\ row \in [Reals -> Row]
  /\ origin \in [Reals -> Temps \cup {None}]
  /\ wish \in [Temps -> [want: BOOLEAN, row: Row]]
  /\ excused \subseteq Temps
  /\ troubles \in 0..MaxTroubles

RowsOf(t) == {r \in Reals : origin[r] = t /\ server[r] = "live"}

\* Once nothing of an item is under way any more, the server has what the user
\* last asked of it, and has it once: folds into a queued create, rewritten temp
\* ids, cancelled creates, undone removals and replays after a reload included
\* (the promise of the file comment of queries.ts).  Excused are items whose
\* rollback or notice the user has seen, whose changes overtook each other, and
\* those a reload or a lost answer of a create hit.
SettledAsAsked ==
  \A t \in Temps \ excused :
    Used(t) /\ (\A m \in About(t) : mut[m].at = "done") =>
      IF wish[t].want
      THEN \E r \in Reals : RowsOf(t) = {r} /\ row[r] = wish[t].row
      ELSE RowsOf(t) = {}

\* A mutation is paused only while the device is offline or in the background:
\* no order of outages, backoffs and page visibility leaves one asleep that
\* nothing will resume.
NoLostWakeup == CanContinue => \A m \in Slots : mut[m].at # "paused"

\* Once the create of an item has been answered, no attempt of a queued change of
\* it is sent with its temp id again, which the server would refuse: what
\* remapQueuedItemId is for.
RetriesNameTheRow ==
  [][\A m \in Slots :
       LET i == mut'[m].sent.item IN
       /\ mut[m].at \in {"backoff", "paused"} /\ mut'[m].at = "sent"
       /\ mut[m].op # "add" /\ i \in Temps \ excused'
       => ~Answered(i)]_vars

\* "A delete cancels it": no queued create that the user's removal has taken out of
\* the mutation cache still makes a row (handleRemoveItem's create branch in
\* useDeleteItemMutation).
CancelledNeverPosts ==
  [][\A m \in Slots :
       mut[m].op = "add" /\ mut[m].at = "sent" /\ ~mut[m].cached => mut'[m].made = None]_vars

\* Whatever is sent about an item already names the server's row: the comment in
\* useDeleteItemMutation on a create that is in flight says so.
NoTempIdSent == \A m \in Slots : mut[m].at = "sent" /\ mut[m].op # "add" => mut[m].sent.item \in Reals
=============================================================================
