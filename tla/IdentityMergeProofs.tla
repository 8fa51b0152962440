------------------------ MODULE IdentityMergeProofs -------------------------
(* Theorems about IdentityMerge: for any number of identities, rows and     *)
(* concurrent runs of `user merge`, beside people who sign in and buy.      *)
EXTENDS IdentityMerge, TLAPS

-----------------------------------------------------------------------------
(* The inductive invariant.                                                *)

Resolved == Places \ {"source", "target", "done"}

\* A run has a source, then another target, deletes the one and seeds the other.
RunOK(x) ==
  /\ x.at \in {"target"} \cup Resolved => x.source \in Ids
  /\ x.at \in Resolved => x.target \in Ids /\ x.target # x.source
  /\ x.gone = IF x.at \in {"seed", "commit"} THEN {x.source} ELSE {}
  /\ x.seeded \subseteq IF x.at = "commit" THEN {x.target} ELSE {}
  /\ x.todo # {} => x.at \in Columns /\ x.started

\* A row it has locked is as it was, but for credit it gave its target.
OnlyToTarget(m) ==
  \A row \in Rows, col \in Columns :
    lock[row] = m => merge[m].rows[row][col] \in {merge[m].target, credit[row][col]}

\* The columns its UPDATEs are done with.
Rewritten(at) == CASE at \in {"source", "target", "confirm", "created_by", "done"} -> {}
                   [] at = "added_by" -> {"created_by"}
                   [] at = "bought_by" -> {"created_by", "added_by"}
                   [] OTHER -> Columns

\* Unless somebody crossed it, no column it is done with credits its source, and
\* the one it is at only in the rows it has left.
Rewrites(m) ==
  LET x == merge[m] IN
  x.at \in InTransaction /\ ~x.crossed =>
    \A row \in Rows, col \in Columns :
      Seen(m, row)[col] = x.source =>
        col \notin Rewritten(x.at) /\ (x.started /\ col = x.at => row \in x.todo)

\* Who has been a member, or will be when the run has committed.
Known(m) ==
  LET x == merge[m]
      somebody == members \cup mergedAway \cup unknown
  IN /\ x.at \in Resolved \ {"commit"} => x.target \in somebody \/ x.seeds
     /\ x.at = "commit" => x.target \in somebody \cup x.seeded

RunInv(m) == RunOK(merge[m]) /\ OnlyToTarget(m) /\ Rewrites(m) /\ Known(m)

\* Whoever can act, or could once its session is committed, has been a member or
\* has failed to become one.
SessionsKnown ==
  \A id \in Ids :
    id \in session \/ login[id] = "tried" => id \in members \cup mergedAway \cup nameless

MergeInv ==
  /\ TypeOK
  /\ \A m \in Merges : RunInv(m)
  /\ SessionsKnown
  /\ HistoryMoves
  /\ NamesResolve

-----------------------------------------------------------------------------
(* Types.                                                                  *)

\* What no identity is.
LEMMA IdFacts ==
  /\ None \notin Ids /\ None \notin Merges
  /\ Locals \subseteq Ids /\ SsoIds \subseteq Ids
  BY MergeAssumption DEF Ids

\* Fields of a run set one after the other keep it a run.
LEMMA FreshTyped == Fresh \in Run /\ Ended \in Run
<1>1. Blank \in Credits
  BY DEF Blank, Credits
<1> HIDE DEF Blank, Credits
<1>2. Fresh \in Run
  BY <1>1 DEF Fresh, Run, Places
<1>3. [Fresh EXCEPT !.at = "done"] \in Run
  BY <1>2 DEF Run, Places
<1> QED BY <1>2, <1>3 DEF Ended

\* What a run that has ended knows.
LEMMA EndedFacts == Ended.at = "done" /\ Ended.gone = {} /\ Ended.seeded = {} /\ Ended.todo = {}
  BY DEF Ended, Fresh

\* What a transaction sees of a row has the type of the row.
LEMMA SeenTyped ==
  ASSUME TypeOK, NEW m \in Merges, NEW row \in Rows
  PROVE  Seen(m, row) \in [Columns -> Ids \cup {None}]
<1>1. merge[m].rows \in Credits
  BY DEF TypeOK, Run
<1> QED BY <1>1 DEF TypeOK, Seen, Credits

-----------------------------------------------------------------------------
(* The steps of a run.                                                     *)

\* A step that changes one run, and no locks but its own, need only keep that run's
\* part of the invariant.
LEMMA RunMoves ==
  ASSUME MergeInv, NEW m \in Merges, NEW x \in Run,
         merge' = [merge EXCEPT ![m] = x],
         UNCHANGED <<users, members, credit, people, acts, mergedAway, settled>>,
         unknown \subseteq unknown', unknown' \subseteq Ids,
         lock' \in [Rows -> Merges \cup {None}],
         \A row \in Rows : \/ lock'[row] = lock[row]
                           \/ lock[row] \in {m, None} /\ lock'[row] \in {m, None},
         \A row \in Rows : lock'[row] = m => x.at \in InTransaction,
         RunInv(m)'
  PROVE  MergeInv'
<1> USE DEF MergeInv
<1>1. merge' \in [Merges -> Run] /\ merge'[m] = x /\ \A k \in Merges \ {m} : merge'[k] = merge[k]
  BY DEF TypeOK
<1>2. TypeOK'
  <2>1. \A row \in Rows : lock'[row] # None => merge'[lock'[row]].at \in InTransaction
    BY <1>1, IdFacts DEF TypeOK
  <2> QED BY <1>1, <2>1 DEF TypeOK, people
<1>3. ASSUME NEW k \in Merges, k # m PROVE RunInv(k)'
  <2>1. RunInv(k) /\ merge'[k] = merge[k]
    BY <1>1, <1>3
  <2>2. \A row \in Rows : lock'[row] = k <=> lock[row] = k
    BY <1>3, IdFacts
  <2>3. \A row \in Rows : Seen(k, row)' = Seen(k, row)
    BY <2>1, <2>2 DEF Seen
  <2>4. RunOK(merge'[k])
    BY <2>1 DEF RunInv
  <2>5. OnlyToTarget(k)'
    BY <2>1, <2>2 DEF RunInv, OnlyToTarget
  <2>6. Rewrites(k)'
    BY <2>1, <2>3 DEF RunInv, Rewrites
  <2>7. Known(k)'
    BY <2>1 DEF RunInv, Known
  <2> QED BY <2>4, <2>5, <2>6, <2>7 DEF RunInv
<1>4. SessionsKnown' /\ HistoryMoves' /\ NamesResolve'
  BY DEF SessionsKnown, HistoryMoves, NamesResolve, people
<1> QED BY <1>2, <1>3, <1>4

\* What a step makes of a run is a run.
LEMMA RenewedRuns ==
  ASSUME NEW y \in Run
  PROVE  /\ \A id \in Ids, b \in BOOLEAN :
              [y EXCEPT !.at = "target", !.source = id, !.local = b] \in Run
         /\ \A id \in Ids, b \in BOOLEAN :
              [y EXCEPT !.at = "confirm", !.target = id, !.seeds = b] \in Run
         /\ \A place \in Places : [y EXCEPT !.at = place, !.started = FALSE] \in Run
         /\ \A left \in SUBSET Rows : [y EXCEPT !.started = TRUE, !.todo = left] \in Run
         /\ \A left \in SUBSET Rows : [y EXCEPT !.todo = left] \in Run
         /\ \A left \in SUBSET Rows, rows \in Credits : [y EXCEPT !.todo = left, !.rows = rows] \in Run
         /\ \A id \in Ids : [y EXCEPT !.at = "seed", !.gone = {id}] \in Run
         /\ \A new \in SUBSET Ids : [y EXCEPT !.at = "commit", !.seeded = new] \in Run
<1>1. {"target", "confirm", "seed", "commit"} \subseteq Places
  BY DEF Places
<1> USE DEF Run
<1>2. ASSUME NEW id \in Ids, NEW b \in BOOLEAN
      PROVE  [y EXCEPT !.at = "target", !.source = id, !.local = b] \in Run
  BY <1>1
<1>3. ASSUME NEW id \in Ids, NEW b \in BOOLEAN
      PROVE  [y EXCEPT !.at = "confirm", !.target = id, !.seeds = b] \in Run
  BY <1>1
<1>4. ASSUME NEW left \in SUBSET Rows PROVE [y EXCEPT !.started = TRUE, !.todo = left] \in Run
  OBVIOUS
<1>5. ASSUME NEW id \in Ids PROVE [y EXCEPT !.at = "seed", !.gone = {id}] \in Run
  BY <1>1
<1>6. ASSUME NEW new \in SUBSET Ids PROVE [y EXCEPT !.at = "commit", !.seeded = new] \in Run
  BY <1>1
<1>7. ASSUME NEW left \in SUBSET Rows PROVE [y EXCEPT !.todo = left] \in Run
  OBVIOUS
<1>8. ASSUME NEW left \in SUBSET Rows, NEW rows \in Credits
      PROVE  [y EXCEPT !.todo = left, !.rows = rows] \in Run
  OBVIOUS
<1>9. ASSUME NEW place \in Places PROVE [y EXCEPT !.at = place, !.started = FALSE] \in Run
  OBVIOUS
<1> HIDE DEF Run
<1> QED BY <1>2, <1>3, <1>4, <1>5, <1>6, <1>7, <1>8, <1>9

\* The steps before the transaction, and those in it that neither write nor end it.
LEMMA PlansOK ==
  ASSUME MergeInv, NEW m \in Merges, NEW id \in Ids, ResolveSource(m, id) \/ ResolveTarget(m, id)
  PROVE  MergeInv'
<1> USE DEF MergeInv
<1>1. CASE ResolveSource(m, id)
  <2>0. PICK b \in BOOLEAN : b = (id \in users)
    <3>1. (id \in users) \in BOOLEAN
      OBVIOUS
    <3> QED BY <3>1, Zenon
  <2> DEFINE x == [merge[m] EXCEPT !.at = "target", !.source = id, !.local = b]
  <2>1. x \in Run
    <3>1. merge[m] \in Run
      BY DEF TypeOK
    <3> QED BY <3>1, RenewedRuns
  <2>2. /\ x.at = "target" /\ x.source = id /\ x.gone = merge[m].gone /\ x.seeded = merge[m].seeded
        /\ x.todo = merge[m].todo
    BY DEF TypeOK, Run
  <2>3. merge' = [merge EXCEPT ![m] = x] /\ merge[m].at = "source"
    BY <1>1, <2>0 DEF ResolveSource
  <2> HIDE DEF x
  <2>4. merge'[m] = x
    BY <2>3 DEF TypeOK
  <2>5. \A row \in Rows : lock[row] # m
    BY <2>3, IdFacts DEF TypeOK, InTransaction, Places
  <2>6. RunOK(x)
    BY <2>2, <2>3 DEF RunInv, RunOK, Resolved, Places, Columns
  <2>7. RunInv(m)'
    BY <2>2, <2>4, <2>5, <2>6, <1>1
       DEF RunInv, OnlyToTarget, Rewrites, Known, ResolveSource, InTransaction, Resolved, Places
  <2> QED BY <1>1, <2>1, <2>3, <2>5, <2>7, RunMoves DEF ResolveSource, TypeOK
<1>2. CASE ResolveTarget(m, id)
  <2>0. PICK b \in BOOLEAN : b = (id \in users)
    <3>1. (id \in users) \in BOOLEAN
      OBVIOUS
    <3> QED BY <3>1, Zenon
  <2> DEFINE x == [merge[m] EXCEPT !.at = "confirm", !.target = id, !.seeds = b]
  <2>1. x \in Run
    <3>1. merge[m] \in Run
      BY DEF TypeOK
    <3> QED BY <3>1, RenewedRuns
  <2>2. /\ x.at = "confirm" /\ x.target = id /\ x.source = merge[m].source /\ x.seeds = b
        /\ x.gone = merge[m].gone /\ x.seeded = merge[m].seeded
        /\ x.todo = merge[m].todo
    BY DEF TypeOK, Run
  <2>3. merge' = [merge EXCEPT ![m] = x] /\ merge[m].at = "target" /\ id # merge[m].source
    BY <1>2, <2>0 DEF ResolveTarget
  <2> HIDE DEF x
  <2>4. merge'[m] = x
    BY <2>3 DEF TypeOK
  <2>5. \A row \in Rows : lock[row] # m
    BY <2>3, IdFacts DEF TypeOK, InTransaction, Places
  <2>6. RunOK(x)
    BY <2>2, <2>3 DEF RunInv, RunOK, Resolved, Places, Columns
  <2>7. unknown \subseteq unknown' /\ unknown' \subseteq Ids
    BY <1>2 DEF ResolveTarget, TypeOK
  <2>8. Known(m)'
    <3>1. b \/ id \in members' \cup unknown'
      BY <1>2, <2>0 DEF ResolveTarget
    <3> QED BY <2>2, <2>4, <3>1 DEF Known
  <2>9. RunInv(m)'
    BY <2>2, <2>4, <2>5, <2>6, <2>8, <1>2
       DEF RunInv, OnlyToTarget, Rewrites, ResolveTarget, InTransaction, Places
  <2> QED BY <1>2, <2>1, <2>3, <2>5, <2>7, <2>9, RunMoves DEF ResolveTarget, TypeOK
<1> QED BY <1>1, <1>2

\* A run that ends, with nothing of it left, keeps the invariant.
LEMMA EndsOK ==
  ASSUME MergeInv, NEW m \in Merges, Abort(m) \/ Rollback(m)
  PROVE  MergeInv'
<1> USE DEF MergeInv
<1>1. /\ merge' = [merge EXCEPT ![m] = Ended]
      /\ UNCHANGED <<users, members, credit, people, acts, mergedAway, settled, unknown>>
  BY DEF Abort, Rollback
<1>2. merge'[m] = Ended /\ Ended \in Run
  BY <1>1, FreshTyped DEF TypeOK
<1>3. \A row \in Rows : lock'[row] = IF lock[row] = m THEN None ELSE lock[row]
  <2>1. CASE Abort(m)
    BY <2>1, IdFacts DEF Abort, TypeOK, InTransaction
  <2>2. CASE Rollback(m)
    BY <2>2 DEF Rollback, Unlocked
  <2> QED BY <2>1, <2>2
<1>4. lock' \in [Rows -> Merges \cup {None}]
  BY DEF Abort, Rollback, Unlocked, TypeOK
<1>5. \A row \in Rows : lock'[row] # m
  BY <1>3, IdFacts
<1>6. RunInv(m)'
  <2>1. RunOK(Ended)
    BY EndedFacts DEF RunOK, Resolved
  <2>2. OnlyToTarget(m)' /\ Rewrites(m)' /\ Known(m)'
    BY <1>2, <1>5, EndedFacts DEF OnlyToTarget, Rewrites, Known, InTransaction, Resolved
  <2> QED BY <1>2, <2>1, <2>2 DEF RunInv
<1>7. unknown' \subseteq Ids
  BY <1>1 DEF TypeOK
<1>8. \A row \in Rows : \/ lock'[row] = lock[row]
                        \/ lock[row] \in {m, None} /\ lock'[row] \in {m, None}
  BY <1>3
<1> QED
  BY <1>1, <1>2, <1>4, <1>5, <1>6, <1>7, <1>8, RunMoves

-----------------------------------------------------------------------------
(* The steps of the transaction.                                           *)

\* What an advance from place to place keeps, and what each place has behind it.
LEMMA PlaceFacts ==
  /\ "bought_by" \in Columns /\ Columns \subseteq InTransaction
  /\ InTransaction \subseteq Resolved /\ Resolved \subseteq Places
  /\ {"members", "seed", "commit"} \subseteq InTransaction
  /\ Columns \cap {"confirm", "members", "seed", "commit"} = {}
  /\ \A at \in Columns : /\ After(at) \in InTransaction \ {"seed", "commit"}
                         /\ Rewritten(After(at)) = Rewritten(at) \cup {at}
  /\ Rewritten("created_by") = {} /\ Rewritten("confirm") = {}
  /\ \A at \in {"members", "seed", "commit"} : Rewritten(at) = Columns
  BY DEF Columns, InTransaction, Resolved, Places, After, Rewritten

\* A step that advances one run, with no row written and no credit lost.
LEMMA Advances ==
  ASSUME MergeInv, NEW m \in Merges, NEW x \in Run,
         merge' = [merge EXCEPT ![m] = x],
         UNCHANGED <<users, members, credit, people, lock, acts, mergedAway, settled, unknown>>,
         merge[m].at \in InTransaction \cup {"confirm"}, x.at \in InTransaction,
         x.source = merge[m].source, x.target = merge[m].target, x.rows = merge[m].rows,
         RunOK(x),
         ~x.crossed =>
           \A row \in Rows, col \in Columns :
             Seen(m, row)[col] = x.source =>
               col \notin Rewritten(x.at) /\ (x.started /\ col = x.at => row \in x.todo),
         x.at = "commit" => x.target \in members \cup mergedAway \cup unknown \cup x.seeded,
         x.at # "commit" => (x.seeds <=> merge[m].seeds) /\ merge[m].at # "commit"
  PROVE  MergeInv'
<1> USE DEF MergeInv
<1>1. merge'[m] = x
  BY DEF TypeOK
<1>2. OnlyToTarget(m)'
  BY <1>1 DEF RunInv, OnlyToTarget
<1>3. Rewrites(m)'
  <2>1. \A row \in Rows : Seen(m, row)' = Seen(m, row)
    BY <1>1 DEF Seen
  <2> QED BY <1>1, <2>1 DEF Rewrites
<1>4. Known(m)'
  <2>1. merge[m].at \in Resolved
    BY PlaceFacts DEF Resolved, Places, InTransaction
  <2> QED BY <1>1, <2>1 DEF RunInv, Known
<1>5. RunInv(m)'
  BY <1>1, <1>2, <1>3, <1>4 DEF RunInv
<1>6. lock' \in [Rows -> Merges \cup {None}] /\ unknown' \subseteq Ids
  BY DEF TypeOK
<1> QED BY <1>5, <1>6, RunMoves

\* The confirmation, and the UPDATEs' beginnings and ends.
LEMMA StatementsOK ==
  ASSUME MergeInv, NEW m \in Merges, Confirm(m) \/ StartUpdate(m) \/ FinishUpdate(m)
  PROVE  MergeInv'
<1> USE DEF MergeInv
<1>1. ASSUME NEW place \in InTransaction \ {"seed", "commit"}, Goes(m, place),
             \/ merge[m].at \in InTransaction \ {"seed", "commit"}
             \/ (merge[m].at = "confirm" /\ place = "created_by"),
             UNCHANGED <<users, members, credit, people, lock, acts, mergedAway, settled, unknown>>,
             merge[m].todo = {},
             merge[m].at \in InTransaction /\ ~merge[m].crossed =>
               \A row \in Rows, col \in Columns :
                 Seen(m, row)[col] = merge[m].source => col \notin Rewritten(place)
      PROVE  MergeInv'
  <2> DEFINE x == [merge[m] EXCEPT !.at = place, !.started = FALSE]
  <2>0. place \in Places
    BY <1>1, PlaceFacts
  <2>1. x \in Run
    <3>1. merge[m] \in Run
      BY DEF TypeOK
    <3> QED BY <2>0, <3>1, RenewedRuns
  <2>2. /\ x.at = place /\ x.started = FALSE /\ x.todo = merge[m].todo /\ x.rows = merge[m].rows
        /\ x.source = merge[m].source /\ x.target = merge[m].target /\ x.crossed = merge[m].crossed
        /\ x.gone = merge[m].gone /\ x.seeded = merge[m].seeded /\ x.seeds = merge[m].seeds
    BY DEF TypeOK, Run
  <2>3. merge' = [merge EXCEPT ![m] = x]
    BY <1>1 DEF Goes
  <2> HIDE DEF x
  <2>4. RunOK(x)
    <3>1. merge[m].at \in Resolved \ {"commit"} /\ (merge[m].at = "seed" => FALSE)
      BY <1>1, PlaceFacts DEF Resolved, InTransaction, Places
    <3>2. x.gone = {} /\ x.seeded = {} /\ x.at \in Resolved
      BY <1>1, <2>2, <3>1, PlaceFacts DEF RunInv, RunOK
    <3> QED BY <1>1, <2>2, <3>1, <3>2 DEF RunInv, RunOK
  <2>5. ~x.crossed =>
           \A row \in Rows, col \in Columns :
             Seen(m, row)[col] = x.source =>
               col \notin Rewritten(x.at) /\ (x.started /\ col = x.at => row \in x.todo)
    <3>1. CASE place = "created_by"
      BY <1>1, <2>2, <3>1, PlaceFacts
    <3>2. CASE merge[m].at \in InTransaction
      BY <1>1, <2>2, <3>2
    <3> QED BY <1>1, <3>1, <3>2
  <2>6. /\ merge[m].at \in InTransaction \cup {"confirm"} /\ x.at \in InTransaction
        /\ x.at # "commit" /\ merge[m].at # "commit"
    BY <1>1, <2>2
  <2> HIDE DEF MergeInv
  <2> QED BY <1>1, <2>1, <2>2, <2>3, <2>4, <2>5, <2>6, Advances
<1>2. CASE Confirm(m)
  <2>1. Goes(m, "created_by") /\ merge[m].at = "confirm"
    BY <1>2 DEF Confirm
  <2>2. "created_by" \in InTransaction \ {"seed", "commit"}
    BY PlaceFacts DEF Columns, InTransaction, Places
  <2>3. merge[m].todo = {}
    BY <2>1, PlaceFacts DEF RunInv, RunOK
  <2> QED BY <1>1, <1>2, <2>1, <2>2, <2>3, PlaceFacts DEF Confirm
<1>3. CASE FinishUpdate(m)
  <2>1. /\ merge[m].at \in Columns /\ merge[m].started /\ merge[m].todo = {}
        /\ Goes(m, After(merge[m].at))
    BY <1>3 DEF FinishUpdate
  <2>2. PICK place \in InTransaction \ {"seed", "commit"} : place = After(merge[m].at)
    BY <2>1, PlaceFacts
  <2>3. ~merge[m].crossed =>
          \A row \in Rows, col \in Columns :
            Seen(m, row)[col] = merge[m].source => col \notin Rewritten(place)
    BY <2>1, <2>2, PlaceFacts DEF RunInv, Rewrites
  <2>4. merge[m].at \in InTransaction \ {"seed", "commit"} /\ place # "created_by"
    BY <2>1, <2>2 DEF After, Columns, InTransaction, Places
  <2>5. /\ Goes(m, place) /\ merge[m].todo = {}
        /\ UNCHANGED <<users, members, credit, people, lock, acts, mergedAway, settled, unknown>>
    BY <1>3, <2>1, <2>2 DEF FinishUpdate
  <2> QED BY <1>1, <2>3, <2>4, <2>5
<1>4. CASE StartUpdate(m)
  <2>0. PICK left \in SUBSET Rows : left = {row \in Rows : Seen(m, row)[merge[m].at] = merge[m].source}
    OBVIOUS
  <2> DEFINE x == [merge[m] EXCEPT !.started = TRUE, !.todo = left]
  <2>1. x \in Run
    <3>1. merge[m] \in Run
      BY DEF TypeOK
    <3> QED BY <3>1, RenewedRuns
  <2>2. /\ x.at = merge[m].at /\ x.started = TRUE /\ x.todo = left /\ x.rows = merge[m].rows
        /\ x.source = merge[m].source /\ x.target = merge[m].target /\ x.crossed = merge[m].crossed
        /\ x.gone = merge[m].gone /\ x.seeded = merge[m].seeded /\ x.seeds = merge[m].seeds
    BY DEF TypeOK, Run
  <2>3. merge' = [merge EXCEPT ![m] = x]
    BY <1>4, <2>0 DEF StartUpdate
  <2> HIDE DEF x
  <2>4. merge[m].at \in Columns /\ RunOK(x)
    BY <1>4, <2>2 DEF StartUpdate, RunInv, RunOK
  <2>5. merge[m].at \in InTransaction /\ merge[m].at # "commit"
    BY <2>4, PlaceFacts DEF Columns
  <2>6. ~x.crossed =>
           \A row \in Rows, col \in Columns :
             Seen(m, row)[col] = x.source =>
               col \notin Rewritten(x.at) /\ (x.started /\ col = x.at => row \in x.todo)
    BY <2>0, <2>2, <2>5 DEF RunInv, Rewrites
  <2>7. UNCHANGED <<users, members, credit, people, lock, acts, mergedAway, settled, unknown>>
    BY <1>4 DEF StartUpdate
  <2> HIDE DEF MergeInv
  <2> QED BY <2>1, <2>2, <2>3, <2>4, <2>5, <2>6, <2>7, Advances
<1> QED BY <1>2, <1>3, <1>4

\* The source's rows go and the target's is written; both show with the commit.
LEMMA IdentitiesOK ==
  ASSUME MergeInv, NEW m \in Merges, DeleteSource(m) \/ SeedTarget(m)
  PROVE  MergeInv'
<1> USE DEF MergeInv
<1>1. CASE DeleteSource(m)
  <2> DEFINE x == [merge[m] EXCEPT !.at = "seed", !.gone = {merge[m].source}]
  <2>0. merge[m].at = "members" /\ merge[m].source \in Ids
    BY <1>1, PlaceFacts DEF DeleteSource, RunInv, RunOK
  <2>1. x \in Run
    <3>1. merge[m] \in Run
      BY DEF TypeOK
    <3> QED BY <2>0, <3>1, RenewedRuns
  <2>2. /\ x.at = "seed" /\ x.started = merge[m].started /\ x.todo = merge[m].todo /\ x.rows = merge[m].rows
        /\ x.source = merge[m].source /\ x.target = merge[m].target /\ x.crossed = merge[m].crossed
        /\ x.gone = {merge[m].source} /\ x.seeded = merge[m].seeded /\ x.seeds = merge[m].seeds
    BY DEF TypeOK, Run
  <2>3. merge' = [merge EXCEPT ![m] = x]
    BY <1>1 DEF DeleteSource
  <2> HIDE DEF x
  <2>4. RunOK(x)
    BY <2>0, <2>2, PlaceFacts DEF RunInv, RunOK
  <2>5. ~x.crossed =>
           \A row \in Rows, col \in Columns :
             Seen(m, row)[col] = x.source =>
               col \notin Rewritten(x.at) /\ (x.started /\ col = x.at => row \in x.todo)
    BY <2>0, <2>2, PlaceFacts DEF RunInv, Rewrites
  <2>6. UNCHANGED <<users, members, credit, people, lock, acts, mergedAway, settled, unknown>>
    BY <1>1 DEF DeleteSource
  <2>7. /\ merge[m].at \in InTransaction /\ x.at \in InTransaction /\ x.at # "commit"
        /\ merge[m].at # "commit"
    BY <2>0, <2>2, PlaceFacts
  <2>8. /\ merge[m].at \in InTransaction \cup {"confirm"}
        /\ x.at = "commit" => x.target \in members \cup mergedAway \cup unknown \cup x.seeded
        /\ x.at # "commit" => (x.seeds <=> merge[m].seeds) /\ merge[m].at # "commit"
    BY <2>2, <2>7
  <2> HIDE DEF MergeInv
  <2> QED BY <2>1, <2>2, <2>3, <2>4, <2>5, <2>6, <2>7, <2>8, Advances
<1>2. CASE SeedTarget(m)
  <2>0. /\ merge[m].at = "seed" /\ merge[m].target \in Ids
        /\ merge[m].target \in members \cup mergedAway \cup unknown \/ merge[m].seeds
    <3>1. merge[m].at = "seed" /\ merge[m].at \in Resolved
      BY <1>2, PlaceFacts DEF SeedTarget
    <3>2. RunOK(merge[m]) /\ Known(m)
      BY DEF RunInv
    <3> HIDE DEF MergeInv
    <3> QED BY <3>1, <3>2 DEF RunOK, Known
  <2>a. PICK new \in SUBSET {merge[m].target} :
          new = IF merge[m].seeds /\ merge[m].target \notin members THEN {merge[m].target} ELSE {}
    OBVIOUS
  <2> DEFINE x == [merge[m] EXCEPT !.at = "commit", !.seeded = new]
  <2>b. new \in SUBSET Ids
    BY <2>0, <2>a
  <2>1. x \in Run
    <3>1. merge[m] \in Run
      BY DEF TypeOK
    <3> QED BY <2>b, <3>1, RenewedRuns
  <2>2. /\ x.at = "commit" /\ x.started = merge[m].started /\ x.todo = merge[m].todo /\ x.rows = merge[m].rows
        /\ x.source = merge[m].source /\ x.target = merge[m].target /\ x.crossed = merge[m].crossed
        /\ x.gone = merge[m].gone /\ x.seeded = new /\ x.seeds = merge[m].seeds
    BY DEF TypeOK, Run
  <2>3. merge' = [merge EXCEPT ![m] = x]
    BY <1>2, <2>a DEF SeedTarget
  <2> HIDE DEF x
  <2>4. RunOK(x)
    BY <2>0, <2>2, PlaceFacts DEF RunInv, RunOK
  <2>5. ~x.crossed =>
           \A row \in Rows, col \in Columns :
             Seen(m, row)[col] = x.source =>
               col \notin Rewritten(x.at) /\ (x.started /\ col = x.at => row \in x.todo)
    BY <2>0, <2>2, PlaceFacts DEF RunInv, Rewrites
  <2>6. x.target \in members \cup mergedAway \cup unknown \cup x.seeded
    BY <2>0, <2>2, <2>a
  <2>7. UNCHANGED <<users, members, credit, people, lock, acts, mergedAway, settled, unknown>>
    BY <1>2 DEF SeedTarget
  <2>8. merge[m].at \in InTransaction /\ x.at \in InTransaction /\ x.at = "commit"
    BY <2>0, <2>2, PlaceFacts
  <2> HIDE DEF MergeInv
  <2> QED BY <2>1, <2>2, <2>3, <2>4, <2>5, <2>6, <2>7, <2>8, Advances
<1> QED BY <1>1, <1>2

\* One row of an UPDATE: locked and given to the target, or found changed.
LEMMA UpdateRowOK ==
  ASSUME MergeInv, NEW m \in Merges, NEW row \in Rows, merge[m].at \in Columns, UpdateRow(m, row)
  PROVE  MergeInv'
<1> USE DEF MergeInv
<1>0. PICK col \in Columns : col = merge[m].at
  OBVIOUS
<1>1. /\ row \in merge[m].todo /\ lock[row] \in {m, None}
      /\ UNCHANGED <<users, members, credit, people, acts, mergedAway, settled, unknown>>
  BY DEF UpdateRow
<1>2. merge[m].at \in InTransaction /\ merge[m].at # "commit" /\ merge[m].at \in Resolved
  BY PlaceFacts DEF Columns
<1>3. PICK left \in SUBSET Rows : left = merge[m].todo \ {row}
  BY DEF TypeOK, Run
<1>4. CASE Seen(m, row)[col] # merge[m].source
  <2> DEFINE x == [merge[m] EXCEPT !.todo = left]
  <2>1. x \in Run
    <3>1. merge[m] \in Run
      BY DEF TypeOK
    <3> QED BY <3>1, RenewedRuns
  <2>2. /\ x.at = merge[m].at /\ x.started = merge[m].started /\ x.todo = left /\ x.rows = merge[m].rows
        /\ x.source = merge[m].source /\ x.target = merge[m].target /\ x.crossed = merge[m].crossed
        /\ x.gone = merge[m].gone /\ x.seeded = merge[m].seeded /\ x.seeds = merge[m].seeds
    BY DEF TypeOK, Run
  <2>3. merge' = [merge EXCEPT ![m] = x] /\ UNCHANGED lock
    BY <1>0, <1>3, <1>4 DEF UpdateRow
  <2> HIDE DEF x
  <2>4. RunOK(x)
    BY <1>1, <1>3, <2>2 DEF RunInv, RunOK
  <2>5. ~x.crossed =>
           \A r \in Rows, c \in Columns :
             Seen(m, r)[c] = x.source =>
               c \notin Rewritten(x.at) /\ (x.started /\ c = x.at => r \in x.todo)
    BY <1>0, <1>2, <1>3, <1>4, <2>2 DEF RunInv, Rewrites
  <2> HIDE DEF MergeInv
  <2> QED BY <1>1, <1>2, <2>1, <2>2, <2>3, <2>4, <2>5, Advances
<1>5. CASE Seen(m, row)[col] = merge[m].source
  <2>a. PICK new \in [Columns -> Ids \cup {None}] : new = [Seen(m, row) EXCEPT ![col] = merge[m].target]
    <3>1. merge[m].target \in Ids
      BY <1>2 DEF RunInv, RunOK
    <3> QED BY <3>1, SeenTyped
  <2>b. \A c \in Columns : new[c] = IF c = col THEN merge[m].target ELSE Seen(m, row)[c]
    BY <2>a, SeenTyped
  <2>c. PICK rows \in Credits : rows = [merge[m].rows EXCEPT ![row] = new]
    BY DEF TypeOK, Run, Credits
  <2>d. rows[row] = new /\ \A r \in Rows \ {row} : rows[r] = merge[m].rows[r]
    BY <2>c DEF TypeOK, Run, Credits
  <2> DEFINE x == [merge[m] EXCEPT !.todo = left, !.rows = rows]
  <2>1. x \in Run
    <3>1. merge[m] \in Run
      BY DEF TypeOK
    <3> QED BY <3>1, RenewedRuns
  <2>2. /\ x.at = merge[m].at /\ x.started = merge[m].started /\ x.todo = left /\ x.rows = rows
        /\ x.source = merge[m].source /\ x.target = merge[m].target /\ x.crossed = merge[m].crossed
        /\ x.gone = merge[m].gone /\ x.seeded = merge[m].seeded /\ x.seeds = merge[m].seeds
    BY DEF TypeOK, Run
  <2>3. merge' = [merge EXCEPT ![m] = x] /\ lock' = [lock EXCEPT ![row] = m]
    <3>1. /\ lock' = [lock EXCEPT ![row] = m]
          /\ merge' = [merge EXCEPT ![m].todo = @ \ {row},
                         ![m].rows[row] = [Seen(m, row) EXCEPT ![col] = merge[m].target]]
      BY <1>0, <1>5 DEF UpdateRow
    <3>2. merge' = [merge EXCEPT ![m].todo = left, ![m].rows[row] = new]
      BY <3>1, <1>3, <2>a
    <3> DEFINE y == [merge[m] EXCEPT !.todo = left]
    <3>3. [merge EXCEPT ![m].todo = left] = [merge EXCEPT ![m] = y] /\ y.rows = merge[m].rows
      BY DEF TypeOK, Run
    <3>4. x = [y EXCEPT !.rows = rows]
      OBVIOUS
    <3> HIDE DEF x, y
    <3>5. [[merge EXCEPT ![m].todo = left] EXCEPT ![m].rows[row] = new]
            = [[merge EXCEPT ![m] = y] EXCEPT ![m].rows[row] = new]
      BY <3>3
    <3>6. [[merge EXCEPT ![m] = y] EXCEPT ![m].rows[row] = new]
            = [merge EXCEPT ![m] = [y EXCEPT !.rows = rows]]
      BY <3>3, <2>c DEF TypeOK
    <3> QED BY <3>1, <3>2, <3>4, <3>5, <3>6
  <2> HIDE DEF x
  <2>4. merge'[m] = x
    BY <2>3 DEF TypeOK
  <2>5. RunOK(x)
    BY <1>1, <1>3, <2>2 DEF RunInv, RunOK
  <2>6. lock'[row] = m /\ \A r \in Rows \ {row} : lock'[r] = lock[r]
    BY <2>3 DEF TypeOK
  <2>7. /\ Seen(m, row)' = new
        /\ \A r \in Rows \ {row} : Seen(m, r)' = Seen(m, r)
    BY <1>1, <2>2, <2>4, <2>6, <2>d DEF Seen
  <2>8. OnlyToTarget(m)'
    <3>1. \A c \in Columns : Seen(m, row)[c] \in {merge[m].target, credit[row][c]}
      BY DEF RunInv, OnlyToTarget, Seen
    <3>2. \A c \in Columns : new[c] \in {merge[m].target, credit[row][c]}
      BY <2>b, <3>1
    <3> QED BY <1>1, <2>2, <2>4, <2>6, <2>d, <3>2 DEF RunInv, OnlyToTarget
  <2>9. Rewrites(m)'
    <3>1. merge[m].target # merge[m].source
      BY <1>2 DEF RunInv, RunOK
    <3>2. ASSUME ~merge[m].crossed, NEW r \in Rows, NEW c \in Columns, Seen(m, r)'[c] = merge[m].source
          PROVE  c \notin Rewritten(merge[m].at) /\ (merge[m].started /\ c = merge[m].at => r \in left)
      <4>1. Seen(m, r)[c] = merge[m].source /\ ~(r = row /\ c = col)
        BY <2>7, <2>b, <3>1, <3>2
      <4> QED BY <1>0, <1>2, <1>3, <3>2, <4>1 DEF RunInv, Rewrites
    <3> QED BY <2>2, <2>4, <3>2 DEF Rewrites
  <2>10. Known(m)'
    BY <1>1, <2>2, <2>4 DEF RunInv, Known
  <2>11. RunInv(m)'
    BY <2>4, <2>5, <2>8, <2>9, <2>10 DEF RunInv
  <2>12. lock' \in [Rows -> Merges \cup {None}] /\ unknown' \subseteq Ids
    BY <1>1, <2>3 DEF TypeOK
  <2>13. \A r \in Rows : \/ lock'[r] = lock[r]
                         \/ lock[r] \in {m, None} /\ lock'[r] \in {m, None}
    BY <1>1, <2>6
  <2> QED BY <1>1, <1>2, <2>1, <2>2, <2>3, <2>11, <2>12, <2>13, RunMoves
<1> QED BY <1>4, <1>5

\* The commit: everything the transaction wrote shows at once.
LEMMA CommitOK ==
  ASSUME MergeInv, NEW m \in Merges, Commit(m)
  PROVE  MergeInv'
<1> USE DEF MergeInv
<1>0. PICK s \in Ids, t \in Ids : s = merge[m].source /\ t = merge[m].target /\ t # s
  <2>1. merge[m].at \in Resolved /\ RunOK(merge[m])
    BY PlaceFacts DEF Commit, RunInv
  <2> QED BY <2>1 DEF RunOK
<1>1. /\ merge[m].at = "commit" /\ merge[m].gone = {s} /\ merge[m].seeded \subseteq {t}
      /\ t \in members \cup mergedAway \cup unknown \cup merge[m].seeded
  BY <1>0 DEF Commit, RunInv, RunOK, Known
<1>2. /\ credit' = [row \in Rows |-> Seen(m, row)]
      /\ members' = (members \ {s}) \cup merge[m].seeded
      /\ users' \subseteq users
      /\ mergedAway' = mergedAway \cup {s}
      /\ nameless' = nameless \ merge[m].seeded
      /\ UNCHANGED <<session, login, logins, acts, unknown>>
  BY <1>0, <1>1 DEF Commit
<1>3. \A id : id \in settled' <=> id # t /\ (id \in settled \/ (~merge[m].crossed /\ id = s))
  BY <1>0 DEF Commit
<1>4. \A row \in Rows, col \in Columns :
        /\ credit'[row][col] = Seen(m, row)[col]
        /\ credit'[row][col] \in {t, credit[row][col]}
        /\ lock[row] # m => credit'[row][col] = credit[row][col]
  BY <1>0, <1>2 DEF RunInv, OnlyToTarget, Seen
<1>5. ~merge[m].crossed => \A row \in Rows, col \in Columns : credit'[row][col] # s
  BY <1>0, <1>1, <1>4, PlaceFacts DEF RunInv, Rewrites
<1>6. HistoryMoves'
  BY <1>3, <1>4, <1>5 DEF HistoryMoves
<1>7. NamesResolve'
  <2> SUFFICES ASSUME NEW row \in Rows, NEW col \in Columns
               PROVE  credit'[row][col] \in {None} \cup members' \cup (mergedAway' \ settled')
                                              \cup unknown' \cup nameless'
    BY DEF NamesResolve
  <2>1. CASE credit'[row][col] = t
    BY <1>0, <1>1, <1>2, <1>3, <2>1
  <2>2. CASE credit'[row][col] = credit[row][col]
    <3>1. credit[row][col] \in {None} \cup members \cup (mergedAway \ settled) \cup unknown \cup nameless
      BY DEF NamesResolve
    <3>2. credit[row][col] \notin settled
      BY DEF HistoryMoves
    <3>3. credit[row][col] = s => merge[m].crossed
      BY <1>5, <2>2
    <3> QED BY <1>2, <1>3, <2>2, <3>1, <3>2, <3>3
  <2> QED BY <1>4, <2>1, <2>2
<1>8. \A row \in Rows : lock'[row] = IF lock[row] = m THEN None ELSE lock[row]
  BY DEF Commit, Unlocked
<1>9. merge'[m] = Ended
  BY DEF Commit
<1>10. ASSUME NEW k \in Merges, k # m
       PROVE  /\ merge'[k] \in Run
              /\ merge'[k].at = merge[k].at /\ merge'[k].source = merge[k].source
              /\ merge'[k].target = merge[k].target /\ merge'[k].seeds = merge[k].seeds
              /\ merge'[k].todo = merge[k].todo /\ merge'[k].started = merge[k].started
              /\ merge'[k].rows = merge[k].rows /\ merge'[k].gone = merge[k].gone
              /\ merge'[k].seeded = merge[k].seeded
              /\ ~merge'[k].crossed <=> ~merge[k].crossed /\ ~(merge[k].source = t
                                                               /\ merge[k].at \in InTransaction)
  <2>0. PICK z : z = merge'[k]
    OBVIOUS
  <2>1. PICK x \in Run : x = merge[k]
    BY DEF TypeOK
  <2>a. PICK c \in BOOLEAN : c = (x.crossed \/ (x.source = t /\ x.at \in InTransaction))
    <3>1. (x.crossed \/ (x.source = t /\ x.at \in InTransaction)) \in BOOLEAN
      OBVIOUS
    <3> QED BY <3>1, Zenon
  <2>2. z = [x EXCEPT !.crossed = c]
    BY <1>0, <1>10, <2>0, <2>1, <2>a DEF Commit
  <2>3. /\ z \in Run
        /\ z.at = x.at /\ z.source = x.source /\ z.target = x.target /\ z.seeds = x.seeds
        /\ z.todo = x.todo /\ z.started = x.started /\ z.rows = x.rows
        /\ z.gone = x.gone /\ z.seeded = x.seeded /\ z.crossed = c
    BY <2>2 DEF Run
  <2> QED BY <2>0, <2>1, <2>a, <2>3
<1>11. ASSUME NEW k \in Merges PROVE RunInv(k)'
  <2>1. CASE k = m
    <3>1. \A row \in Rows : lock'[row] # m
      BY <1>8, IdFacts
    <3> QED
      BY <1>9, <2>1, <3>1, EndedFacts
         DEF RunInv, RunOK, OnlyToTarget, Rewrites, Known, InTransaction, Resolved
  <2>2. CASE k # m
    <3>1. \A row \in Rows : lock'[row] = k <=> lock[row] = k
      BY <1>8, <2>2, IdFacts
    <3>2. RunOK(merge'[k])
      BY <1>10, <2>2 DEF RunInv, RunOK
    <3>3. OnlyToTarget(k)'
      BY <1>4, <1>10, <2>2, <3>1 DEF RunInv, OnlyToTarget
    <3>4. Rewrites(k)'
      <4> SUFFICES ASSUME merge[k].at \in InTransaction, ~merge'[k].crossed,
                          NEW row \in Rows, NEW col \in Columns, Seen(k, row)'[col] = merge[k].source
                   PROVE  /\ col \notin Rewritten(merge[k].at)
                          /\ merge[k].started /\ col = merge[k].at => row \in merge[k].todo
        BY <1>10, <2>2 DEF Rewrites
      <4>1. Seen(k, row)[col] = merge[k].source
        BY <1>4, <1>10, <2>2, <3>1 DEF Seen
      <4> QED BY <1>10, <2>2, <4>1 DEF RunInv, Rewrites
    <3>5. Known(k)'
      BY <1>2, <1>10, <2>2 DEF RunInv, Known
    <3> QED BY <3>2, <3>3, <3>4, <3>5 DEF RunInv
  <2> QED BY <2>1, <2>2
<1>12. SessionsKnown'
  BY <1>2 DEF SessionsKnown
<1>13. TypeOK'
  <2>1. merge' \in [Merges -> Run]
    <3>1. \A k \in Merges : merge'[k] \in Run
      BY <1>9, <1>10, FreshTyped
    <3> QED BY <3>1 DEF Commit
  <2>2. credit' \in Credits
    BY <1>2, SeenTyped DEF Credits
  <2>3. lock' \in [Rows -> Merges \cup {None}]
    BY DEF Commit, Unlocked, TypeOK
  <2>4. \A row \in Rows : lock'[row] # None => merge'[lock'[row]].at \in InTransaction
    BY <1>8, <1>10 DEF TypeOK
  <2>5. settled' \subseteq mergedAway' /\ mergedAway' \cup unknown' \subseteq Ids
    BY <1>2, <1>3 DEF TypeOK
  <2>6. members' \subseteq Ids /\ users' \subseteq Locals
    BY <1>1, <1>2 DEF TypeOK
  <2> QED BY <1>2, <2>1, <2>2, <2>3, <2>4, <2>5, <2>6 DEF TypeOK
<1> QED BY <1>6, <1>7, <1>11, <1>12, <1>13

-----------------------------------------------------------------------------
(* The people.                                                             *)

\* No step of a sign-in, nor a sign-out, takes a member away or moves any credit;
\* and nobody gets past the upsert without a member but those it failed for.
LEMMA SessionsOK ==
  ASSUME MergeInv, NEW id \in Ids,
         \/ Admit(id) \/ UpsertMember(id) \/ UpsertMemberFails(id)
         \/ CommitSession(id) \/ SignInFails(id) \/ SignOut(id)
  PROVE  MergeInv'
<1> USE DEF MergeInv
<1>1. /\ UNCHANGED <<users, credit, merge, lock, acts, mergedAway, settled, unknown>>
      /\ members \subseteq members' /\ members' \subseteq Ids /\ session' \subseteq Ids
      /\ nameless \subseteq nameless' \cup members' /\ nameless' \subseteq Ids \ members'
  BY DEF Admit, UpsertMember, UpsertMemberFails, CommitSession, SignInFails, SignOut, merges, TypeOK
<1>2. login' \in [Ids -> Stages] /\ logins' \in 0..MaxLogins
  BY MergeAssumption
     DEF Admit, UpsertMember, UpsertMemberFails, CommitSession, SignInFails, SignOut, TypeOK, Stages
<1>3. ASSUME NEW m \in Merges PROVE RunInv(m)'
  BY <1>1 DEF RunInv, OnlyToTarget, Rewrites, Known, Seen
<1>4. SessionsKnown'
  <2>1. ASSUME NEW k \in Ids, k \in session' \/ login'[k] = "tried"
        PROVE  k \in session \/ login[k] = "tried" \/ k \in members' \cup nameless'
    BY <2>1 DEF Admit, UpsertMember, UpsertMemberFails, CommitSession, SignInFails, SignOut, TypeOK, Stages
  <2> QED BY <1>1, <2>1 DEF SessionsKnown
<1>5. TypeOK'
  BY <1>1, <1>2 DEF TypeOK
<1>6. HistoryMoves' /\ NamesResolve'
  BY <1>1 DEF HistoryMoves, NamesResolve
<1> QED BY <1>3, <1>4, <1>5, <1>6

\* Credit for somebody who is signed in: known by then, and no longer settled.
LEMMA ActOK ==
  ASSUME MergeInv, NEW id \in Ids, NEW row \in Rows, NEW col \in Columns, Act(id, row, col)
  PROVE  MergeInv'
<1> USE DEF MergeInv
<1>1. /\ id \in session /\ acts < MaxActs /\ acts' = acts + 1 /\ lock[row] = None
      /\ credit' = [credit EXCEPT ![row][col] = id] /\ settled' = settled \ {id}
      /\ UNCHANGED <<users, members, session, login, logins, nameless, lock, mergedAway, unknown>>
  BY DEF Act, people
<1>2. \A r \in Rows, c \in Columns : credit'[r][c] = IF r = row /\ c = col THEN id ELSE credit[r][c]
  BY <1>1 DEF TypeOK, Credits
<1>3. ASSUME NEW k \in Merges
      PROVE  /\ merge'[k] \in Run
             /\ merge'[k].at = merge[k].at /\ merge'[k].source = merge[k].source
             /\ merge'[k].target = merge[k].target /\ merge'[k].seeds = merge[k].seeds
             /\ merge'[k].todo = merge[k].todo /\ merge'[k].started = merge[k].started
             /\ merge'[k].rows = merge[k].rows /\ merge'[k].gone = merge[k].gone
             /\ merge'[k].seeded = merge[k].seeded
             /\ ~merge'[k].crossed <=> ~merge[k].crossed /\ ~(merge[k].source = id
                                                              /\ merge[k].at \in InTransaction)
  <2>0. PICK z : z = merge'[k]
    OBVIOUS
  <2>1. PICK x \in Run : x = merge[k]
    BY DEF TypeOK
  <2>a. PICK c \in BOOLEAN : c = (x.crossed \/ (x.source = id /\ x.at \in InTransaction))
    <3>1. (x.crossed \/ (x.source = id /\ x.at \in InTransaction)) \in BOOLEAN
      OBVIOUS
    <3> QED BY <3>1, Zenon
  <2>2. z = [x EXCEPT !.crossed = c]
    BY <2>0, <2>1, <2>a DEF Act
  <2>3. /\ z \in Run
        /\ z.at = x.at /\ z.source = x.source /\ z.target = x.target /\ z.seeds = x.seeds
        /\ z.todo = x.todo /\ z.started = x.started /\ z.rows = x.rows
        /\ z.gone = x.gone /\ z.seeded = x.seeded /\ z.crossed = c
    BY <2>2 DEF Run
  <2> QED BY <2>0, <2>1, <2>a, <2>3
<1>4. ASSUME NEW k \in Merges PROVE RunInv(k)'
  <2>1. lock[row] # k
    BY <1>1, IdFacts
  <2>2. RunOK(merge'[k])
    BY <1>3 DEF RunInv, RunOK
  <2>3. OnlyToTarget(k)'
    BY <1>1, <1>2, <1>3, <2>1 DEF RunInv, OnlyToTarget
  <2>4. Rewrites(k)'
    <3> SUFFICES ASSUME merge[k].at \in InTransaction, ~merge'[k].crossed,
                        NEW r \in Rows, NEW c \in Columns, Seen(k, r)'[c] = merge[k].source
                 PROVE  /\ c \notin Rewritten(merge[k].at)
                        /\ merge[k].started /\ c = merge[k].at => r \in merge[k].todo
      BY <1>3 DEF Rewrites
    <3>1. Seen(k, r)[c] = merge[k].source
      BY <1>1, <1>2, <1>3 DEF Seen
    <3> QED BY <1>3, <3>1 DEF RunInv, Rewrites
  <2>5. Known(k)'
    BY <1>1, <1>3 DEF RunInv, Known
  <2> QED BY <2>2, <2>3, <2>4, <2>5 DEF RunInv
<1>5. HistoryMoves'
  BY <1>1, <1>2 DEF HistoryMoves
<1>6. NamesResolve'
  BY <1>1, <1>2 DEF NamesResolve, SessionsKnown
<1>7. TypeOK'
  <2>1. merge' \in [Merges -> Run]
    BY <1>3 DEF Act
  <2>2. credit' \in Credits
    BY <1>1 DEF TypeOK, Credits
  <2>3. acts' \in 0..MaxActs
    BY <1>1, MergeAssumption DEF TypeOK
  <2>4. \A r \in Rows : lock'[r] # None => merge'[lock'[r]].at \in InTransaction
    BY <1>1, <1>3 DEF TypeOK
  <2> QED BY <1>1, <2>1, <2>2, <2>3, <2>4 DEF TypeOK
<1>8. SessionsKnown'
  BY <1>1 DEF SessionsKnown
<1> QED BY <1>4, <1>5, <1>6, <1>7, <1>8

-----------------------------------------------------------------------------
(* The theorems.                                                           *)

\* Nobody has been merged, signed in or credited yet.
LEMMA MergeStart == Init => MergeInv
<1> SUFFICES ASSUME Init PROVE MergeInv
  OBVIOUS
<1>1. Blank \in Credits /\ \A row \in Rows, col \in Columns : Blank[row][col] = None
  BY DEF Blank, Credits
<1>2. TypeOK
  <2>1. 0 \in 0..MaxActs /\ 0 \in 0..MaxLogins
    BY MergeAssumption
  <2>2. login \in [Ids -> Stages] /\ logins = 0 /\ nameless = {}
    BY DEF Init, Stages
  <2> QED BY <1>1, <2>1, <2>2, FreshTyped, IdFacts DEF Init, TypeOK
<1>3. ASSUME NEW m \in Merges PROVE RunInv(m)
  <2>1. merge[m] = Fresh /\ \A row \in Rows : lock[row] # m
    BY IdFacts DEF Init
  <2>2. Fresh.at = "source" /\ Fresh.gone = {} /\ Fresh.seeded = {} /\ Fresh.todo = {}
    BY DEF Fresh
  <2> QED
    BY <2>1, <2>2 DEF RunInv, RunOK, OnlyToTarget, Rewrites, Known, InTransaction, Resolved
<1>4. SessionsKnown /\ HistoryMoves /\ NamesResolve
  BY <1>1 DEF Init, SessionsKnown, HistoryMoves, NamesResolve
<1> QED BY <1>2, <1>3, <1>4 DEF MergeInv

\* Every step of the people and of the runs keeps the invariant.
LEMMA MergeStep == MergeInv /\ [Next]_vars => MergeInv'
<1> SUFFICES ASSUME MergeInv, [Next]_vars PROVE MergeInv'
  OBVIOUS
<1>1. CASE UNCHANGED vars
  BY <1>1 DEF vars, people, MergeInv, RunInv, OnlyToTarget, Rewrites, Known, Seen, TypeOK, SessionsKnown,
              HistoryMoves, NamesResolve
<1>2. ASSUME NEW m \in Merges, NEW row \in Rows, UpdateRow(m, row) PROVE MergeInv'
  <2>1. merge[m].at \in Columns
    BY <1>2 DEF UpdateRow, MergeInv, RunInv, RunOK
  <2> QED BY <1>2, <2>1, UpdateRowOK
<1> QED
  BY <1>1, <1>2, SessionsOK, ActOK, PlansOK, EndsOK, StatementsOK, IdentitiesOK, CommitOK DEF Next

\* The inductive invariant of the merges.
THEOREM MergesSafe == Spec => []MergeInv
  BY MergeStart, MergeStep, PTL DEF Spec

\* The types, and that only a transaction holds locks (TypeOK).
THEOREM MergeTypes == Spec => []TypeOK
<1>1. MergeInv => TypeOK
  BY DEF MergeInv
<1> QED BY <1>1, MergesSafe, PTL

\* A merge moves the whole history of its source (HistoryMoves), however runs and
\* people interleave with its row-by-row UPDATEs.
THEOREM WholeHistoryMoves == Spec => []HistoryMoves
<1>1. MergeInv => HistoryMoves
  BY DEF MergeInv
<1> QED BY <1>1, MergesSafe, PTL

\* Whoever is credited has a name, apart from the ids the command warns of and
\* those whose sign-in could not record one (NamesResolve).
THEOREM CreditedHaveNames == Spec => []NamesResolve
<1>1. MergeInv => NamesResolve
  BY DEF MergeInv
<1> QED BY <1>1, MergesSafe, PTL
=============================================================================
