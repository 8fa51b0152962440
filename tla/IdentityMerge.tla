---------------------------- MODULE IdentityMerge ----------------------------
(***************************************************************************)
(* The operator's `user merge` (cmd/usermerge.go, adapters/db/identity.go) *)
(* beside the people who use the app: one transaction moves the credit for *)
(* lists and items from a source identity to a target and removes the      *)
(* source.  The database is external: a transaction's writes show when it  *)
(* commits, a statement works on the rows that matched when it began, one  *)
(* after the other, and waits for a row another transaction has written.   *)
(***************************************************************************)
EXTENDS Integers, FiniteSets

CONSTANTS
  Locals,   \* ids of local accounts
  SsoIds,   \* ids derived from the provider's subjects, the dev user's too
  Lists, Items,
  Merges,   \* runs of the command
  None,
  MaxActs,  \* bound: changes people make
  MaxLogins \* bound: sign-ins

ASSUME MergeAssumption ==
  /\ Locals \cap SsoIds = {} /\ Lists \cap Items = {} /\ None \notin Locals \cup SsoIds \cup Merges
  /\ MaxActs \in Nat /\ MaxLogins \in Nat

VARIABLES
  users,    \* rows of users: local accounts
  members,  \* rows of members, by user_id
  credit,   \* credit[row][column]: whom a list or an item credits
  session,  \* ids somebody is signed in with
  login,    \* login[id]: how far a sign-in with it has got
  logins,   \* sign-ins so far
  merge,    \* the runs of the command
  lock,     \* lock[row]: the transaction that has written it
  acts,
  mergedAway,  \* ghost: sources of committed merges
  settled,     \* ghost: those whose history nothing crossed
  unknown,     \* ghost: targets that were neither an account nor a member
  nameless     \* ghost: ids without a member whose last sign-in could not record one

people == <<session, login, logins, nameless>>
merges == <<merge, lock, mergedAway, settled, unknown>>
vars == <<users, members, credit, people, merge, lock, acts, mergedAway, settled, unknown>>

-----------------------------------------------------------------------------

Ids == Locals \cup SsoIds
Rows == Lists \cup Items
Columns == {"created_by", "added_by", "bought_by"}
ColumnsOf(row) == IF row \in Lists THEN {"created_by"} ELSE {"added_by", "bought_by"}
Credits == [Rows -> [Columns -> Ids \cup {None}]]

\* The places of a run, in order; the statements of its transaction are
\* created_by to seed.
Places == {"source", "target", "confirm", "created_by", "added_by", "bought_by",
           "members", "seed", "commit", "done"}
InTransaction == Places \ {"source", "target", "confirm", "done"}

\* What a run knows, the rows its statement has left, and what its transaction
\* has written.  `crossed` is a ghost: the source acted, or got credit from
\* another merge, since its transaction began.
Run == [at: Places, source: Ids \cup {None}, target: Ids \cup {None}, local: BOOLEAN, seeds: BOOLEAN,
        todo: SUBSET Rows, started: BOOLEAN, rows: Credits, gone: SUBSET Ids, seeded: SUBSET Ids,
        crossed: BOOLEAN]

Blank == [row \in Rows |-> [col \in Columns |-> None]]
Fresh == [at |-> "source", source |-> None, target |-> None, local |-> FALSE, seeds |-> FALSE,
          todo |-> {}, started |-> FALSE, rows |-> Blank, gone |-> {}, seeded |-> {}, crossed |-> FALSE]
Ended == [Fresh EXCEPT !.at = "done"]

\* The lock on an identity's rows in users and members, which a run that deletes
\* or seeds them holds.
Held(id) == {m \in Merges : id \in merge[m].gone \cup merge[m].seeded}
Taken(m, id) == Held(id) \ {m} # {}

\* A row as m sees it.
Seen(m, row) == IF lock[row] = m THEN merge[m].rows[row] ELSE credit[row]

-----------------------------------------------------------------------------
(* The people.                                                             *)

Stages == {"none", "admitted", "tried"}

\* The password was right for an account that was there when it was looked up, or
\* the provider vouches for the identity, also for one that was merged away.
Admit(id) ==
  /\ id \in users \cup SsoIds /\ login[id] = "none"
  /\ logins < MaxLogins
  /\ logins' = logins + 1
  /\ login' = [login EXCEPT ![id] = "admitted"]
  /\ UNCHANGED <<users, members, credit, session, nameless, acts, merges>>

\* With its session filled but not yet committed, the sign-in records the member
\* (MemberRepository.Upsert).
UpsertMember(id) ==
  /\ login[id] = "admitted" /\ Held(id) = {}
  /\ members' = members \cup {id}
  /\ nameless' = nameless \ {id}
  /\ login' = [login EXCEPT ![id] = "tried"]
  /\ UNCHANGED <<users, credit, session, logins, acts, merges>>

\* Or cannot, and answers 500.  The dev user's member, which the start-up records
\* only if it can (serve), is such a one, too.
UpsertMemberFails(id) ==
  /\ login[id] = "admitted"
  /\ nameless' = nameless \cup ({id} \ members)
  /\ login' = [login EXCEPT ![id] = "tried"]
  /\ UNCHANGED <<users, members, credit, session, logins, acts, merges>>

\* The middleware commits the session whatever the handler answered.
CommitSession(id) ==
  /\ login[id] = "tried"
  /\ session' = session \cup {id}
  /\ login' = [login EXCEPT ![id] = "none"]
  /\ UNCHANGED <<users, members, credit, logins, nameless, acts, merges>>

\* The session cannot be renewed, filled or committed.
SignInFails(id) ==
  /\ login[id] # "none"
  /\ login' = [login EXCEPT ![id] = "none"]
  /\ UNCHANGED <<users, members, credit, session, logins, nameless, acts, merges>>

SignOut(id) ==
  /\ id \in session
  /\ session' = session \ {id}
  /\ UNCHANGED <<users, members, credit, login, logins, nameless, acts, merges>>

\* A list created, an item added or bought: the row credits whose session it is,
\* which a merge does not end.
Act(id, row, col) ==
  /\ id \in session /\ acts < MaxActs
  /\ col \in ColumnsOf(row) /\ lock[row] = None
  /\ IF col = "bought_by" THEN credit[row]["added_by"] # None ELSE credit[row][col] = None
  /\ acts' = acts + 1
  /\ credit' = [credit EXCEPT ![row][col] = id]
  /\ settled' = settled \ {id}
  /\ merge' = [m \in Merges |-> [merge[m] EXCEPT !.crossed = @ \/ (merge[m].source = id
                                                     /\ merge[m].at \in InTransaction)]]
  /\ UNCHANGED <<users, members, people, lock, mergedAway, unknown>>

-----------------------------------------------------------------------------
(* The plan.                                                               *)

Goes(m, place) == merge' = [merge EXCEPT ![m].at = place, ![m].started = FALSE]

\* resolveSelector: local: needs the account, oidc: the member; uuid: takes any
\* id and sees which it is.  A source that is no local account may be unknown.
ResolveSource(m, id) ==
  /\ merge[m].at = "source"
  /\ merge' = [merge EXCEPT ![m].at = "target", ![m].source = id, ![m].local = (id \in users)]
  /\ UNCHANGED <<users, members, credit, people, lock, acts, mergedAway, settled, unknown>>

\* The target is another id, resolved likewise: with uuid: it may be unknown,
\* too, and is not seeded then.
ResolveTarget(m, id) ==
  /\ merge[m].at = "target" /\ id # merge[m].source
  /\ merge' = [merge EXCEPT ![m].at = "confirm", ![m].target = id, ![m].seeds = (id \in users)]
  /\ unknown' = IF id \in users \cup members THEN unknown ELSE unknown \cup {id}
  /\ UNCHANGED <<users, members, credit, people, lock, acts, mergedAway, settled>>

\* The operator takes as long as it takes; what was resolved is not read again.
Confirm(m) ==
  /\ merge[m].at = "confirm"
  /\ Goes(m, "created_by")
  /\ UNCHANGED <<users, members, credit, people, lock, acts, mergedAway, settled, unknown>>

\* No such source or target, the same one twice, or no confirmation.
Abort(m) ==
  /\ merge[m].at \in {"source", "target", "confirm"}
  /\ merge' = [merge EXCEPT ![m] = Ended]
  /\ UNCHANGED <<users, members, credit, people, lock, acts, mergedAway, settled, unknown>>

-----------------------------------------------------------------------------
(* The transaction.                                                        *)

After(place) == CASE place = "created_by" -> "added_by" [] place = "added_by" -> "bought_by"
                  [] OTHER -> "members"

\* Faulty: an identity's purchases stay its own.
StartUpdate_NotBought(m) ==
  /\ merge[m].at \in Columns /\ ~merge[m].started
  /\ merge' = [merge EXCEPT ![m].started = TRUE,
                 ![m].todo = {row \in Rows : /\ merge[m].at # "bought_by"
                                             /\ Seen(m, row)[merge[m].at] = merge[m].source}]
  /\ UNCHANGED <<users, members, credit, people, lock, acts, mergedAway, settled, unknown>>

\* rewriteAttribution: an UPDATE for each column.
StartUpdate(m) ==
  /\ merge[m].at \in Columns /\ ~merge[m].started
  /\ merge' = [merge EXCEPT ![m].started = TRUE,
                 ![m].todo = {row \in Rows : Seen(m, row)[merge[m].at] = merge[m].source}]
  /\ UNCHANGED <<users, members, credit, people, lock, acts, mergedAway, settled, unknown>>

\* The row is looked at again once it is free.
UpdateRow(m, row) ==
  LET col == merge[m].at IN
  /\ row \in merge[m].todo /\ lock[row] \in {m, None}
  /\ IF Seen(m, row)[col] = merge[m].source
     THEN /\ lock' = [lock EXCEPT ![row] = m]
          /\ merge' = [merge EXCEPT ![m].todo = @ \ {row},
                         ![m].rows[row] = [Seen(m, row) EXCEPT ![col] = merge[m].target]]
     ELSE /\ UNCHANGED lock
          /\ merge' = [merge EXCEPT ![m].todo = @ \ {row}]
  /\ UNCHANGED <<users, members, credit, people, acts, mergedAway, settled, unknown>>

FinishUpdate(m) ==
  /\ merge[m].at \in Columns /\ merge[m].started /\ merge[m].todo = {}
  /\ Goes(m, After(merge[m].at))
  /\ UNCHANGED <<users, members, credit, people, lock, acts, mergedAway, settled, unknown>>

\* deleteSourceIdentity: the member of every source, the account of a local one.
DeleteSource(m) ==
  /\ merge[m].at = "members" /\ ~Taken(m, merge[m].source)
  /\ merge' = [merge EXCEPT ![m].at = "seed", ![m].gone = {merge[m].source}]
  /\ UNCHANGED <<users, members, credit, people, lock, acts, mergedAway, settled, unknown>>

\* Faulty: a local target waits for its next login.
SeedTarget_Later(m) ==
  /\ merge[m].at = "seed"
  /\ Goes(m, "commit")
  /\ UNCHANGED <<users, members, credit, people, lock, acts, mergedAway, settled, unknown>>

\* seedTargetMember: a local target without a member gets one.
SeedTarget(m) ==
  /\ merge[m].at = "seed"
  /\ ~(merge[m].seeds /\ Taken(m, merge[m].target))
  /\ merge' = [merge EXCEPT ![m].at = "commit",
                 ![m].seeded = IF merge[m].seeds /\ merge[m].target \notin members
                               THEN {merge[m].target} ELSE {}]
  /\ UNCHANGED <<users, members, credit, people, lock, acts, mergedAway, settled, unknown>>

Unlocked(m) == [row \in Rows |-> IF lock[row] = m THEN None ELSE lock[row]]

Commit(m) ==
  LET run == merge[m] IN
  /\ run.at = "commit"
  /\ credit' = [row \in Rows |-> Seen(m, row)]
  /\ members' = (members \ run.gone) \cup run.seeded
  /\ users' = IF run.local THEN users \ {run.source} ELSE users
  /\ lock' = Unlocked(m)
  /\ merge' = [k \in Merges |->
                IF k = m THEN Ended
                ELSE [merge[k] EXCEPT !.crossed = @ \/ (merge[k].source = run.target
                                                        /\ merge[k].at \in InTransaction)]]
  /\ mergedAway' = mergedAway \cup {run.source}
  /\ settled' = (settled \cup (IF run.crossed THEN {} ELSE {run.source})) \ {run.target}
  /\ nameless' = nameless \ run.seeded
  /\ UNCHANGED <<session, login, logins, acts, unknown>>

\* An error, a deadlock the database breaks, or the deadline: all is undone.
Rollback(m) ==
  /\ merge[m].at \in InTransaction
  /\ merge' = [merge EXCEPT ![m] = Ended]
  /\ lock' = Unlocked(m)
  /\ UNCHANGED <<users, members, credit, people, acts, mergedAway, settled, unknown>>

-----------------------------------------------------------------------------

Init ==
  /\ users = Locals
  /\ members = {}
  /\ credit = Blank
  /\ session = {} /\ login = [id \in Ids |-> "none"] /\ logins = 0
  /\ merge = [m \in Merges |-> Fresh]
  /\ lock = [row \in Rows |-> None]
  /\ acts = 0
  /\ mergedAway = {} /\ settled = {} /\ unknown = {} /\ nameless = {}

Next ==
  \/ \E id \in Ids : \/ Admit(id) \/ UpsertMember(id) \/ UpsertMemberFails(id)
                     \/ CommitSession(id) \/ SignInFails(id) \/ SignOut(id)
                     \/ \E row \in Rows, col \in Columns : Act(id, row, col)
  \/ \E m \in Merges :
       \/ \E id \in Ids : ResolveSource(m, id) \/ ResolveTarget(m, id)
       \/ Confirm(m) \/ Abort(m)
       \/ StartUpdate(m) \/ FinishUpdate(m) \/ \E row \in Rows : UpdateRow(m, row)
       \/ DeleteSource(m) \/ SeedTarget(m) \/ Commit(m) \/ Rollback(m)

Spec == Init /\ [][Next]_vars

-----------------------------------------------------------------------------

\* Types, who may hold a lock, and that nobody nameless is a member.
TypeOK ==
  /\ users \subseteq Locals /\ members \subseteq Ids /\ session \subseteq Ids
  /\ login \in [Ids -> Stages] /\ nameless \subseteq Ids \ members
  /\ credit \in Credits
  /\ merge \in [Merges -> Run]
  /\ lock \in [Rows -> Merges \cup {None}]
  /\ \A row \in Rows : lock[row] # None => merge[lock[row]].at \in InTransaction
  /\ acts \in 0..MaxActs /\ logins \in 0..MaxLogins
  /\ settled \subseteq mergedAway /\ mergedAway \cup unknown \subseteq Ids

\* A merge moves the whole history: no row of any column credits its source any
\* more, also when people buy and add beside it and other merges run, unless the
\* source itself acted since or another merge gave it credit (Merge's comment).
HistoryMoves ==
  \A row \in Rows, col \in Columns : credit[row][col] \notin settled

\* Whoever a row credits is a member, so that a display name is found: the
\* target of a merge at once, the source as long as it is credited.  Excepted are
\* ids that were merged away and got credit again, which the command warns of,
\* targets the operator named by an id nobody has (uuid: bypasses that check), and
\* ids whose member a sign-in failed to record: signed in all the same, they have
\* no name until a later sign-in, or a merge into them, records one.
NamesResolve ==
  \A row \in Rows, col \in Columns :
    credit[row][col] \in {None} \cup members \cup (mergedAway \ settled) \cup unknown \cup nameless
=============================================================================
