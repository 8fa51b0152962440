# A verification of splitkauf

splitkauf is a shared shopping list: a Go server over Postgres, a React PWA that
works offline, and a stream of server-sent events that keeps the open clients
current. This directory models the parts in which several actors change shared
state at once, checks the models with TLC and proves their main safety
properties with TLAPS.

Modules are read with the code open next to them: every definition that stands
for code is listed with its file and lines in `PROJECT.json` under `map`.

## The system

| Part | Code | State | Operations | Hard parts |
|---|---|---|---|---|
| Lists and items | `ports/rest/v1`, `lists`, `adapters/db/{lists,items}.go` | tables `lists`, `items` | create, rename, copy, delete a list; add, edit, delete, restore, check, uncheck an item | one goroutine per request, most operations are several SQL statements; failures after a commit |
| HTTP pipeline | `ports/rest`, `ports/rest/middleware`, `ports/rest/v1`, `telemetry/metrics` | the in-flight gauge; per request its place, body, user and answer | session, cap, route, bind, validate, guard, handle, answer, recover | refusals at each stage, panics after an answer, two checkers of the same body |
| Live events | `events`, `ports/rest/sse.go` | the broker's subscribers, one bounded channel each | subscribe, publish, unsubscribe, close | full buffers, channels closed from two sides, shutdown |
| Server lifecycle | `cmd/serve.go` | the running servers, the session store | start, refuse to start, stop | shutdown hooks, a database that is down at start |
| Live updates in the client | `frontend/src/live.ts`, `ListDetail.tsx`, `ListsOverview.tsx` | one EventSource, the query cache | subscribe, invalidate, refetch | changes between the first fetch and the first subscription; dropped hints |
| Offline outbox | `frontend/src/queries.ts`, `queryClient.ts` | optimistic cache, paused mutations, both persisted | mutate, retry, pause, resume, fold, cancel, remap, roll back | lost answers, reloads, temporary ids |
| Delete with undo | `frontend/src/useUndoQueue.ts` | pending entries with timers | schedule, undo, commit, unmount | timer against click against unmount |
| Sign-in and sessions | `auth` | sessions in Postgres or memory, bcrypt slots | login (password, OIDC), callback, logout | two tabs, a failure after the session exists |
| Login throttle | `auth/ratelimit.go` | token buckets | allow, reset, prune | floats, clocks, the capacity limit |
| Accounts, members, merge | `users`, `members`, `cmd/user*.go`, `adapters/db/{users,members,identity}.go` | tables `users`, `members`, the attribution columns | add, list, upsert, merge | a plan resolved before a prompt, live sessions of the merged user |
| Migrations | `database/migrations.go`, `cmd/migrate.go` | schema version, dirty flag | up, to a version, force, down | a crash half-way |

How they interact: a request passes the session middleware, the validator and the
guard, runs its statements through `lists.Service` and the repository and, once its service call has
succeeded, publishes a hint to the broker. The broker copies the hint into the
channel of every open stream; a client that receives it refetches over REST.
Clients that are offline queue their mutations and replay them later.

What makes each part correct, in a sentence: the store never shows a state that
one operation at a time could not produce, and every committed change is
announced; a request is answered once, and the answer tells what was done; the
broker never panics, leaks or silently forgets a client; a
client's cache converges to the store; a queued change is applied once or
reported; a pending delete happens once or never; a login that succeeds
ends with a session and a member (one whose upsert fails answers 500, but leaves the
session); a merge leaves no row behind under the old id; a
schema is at one version or marked dirty. The hazards that threaten these, each
with its line and with the properties that cover it, are in `PROJECT.json`.

## Modules

| Module | What it is |
|---|---|
| `ListStore` | the store, one action per SQL statement of each handler, up to its event |
| `ShoppingBoard` | what the store promises: every operation in one step |
| `ListStoreProofs` | theorems about ListStore |
| `EventStream` | the broker, its streams and the graceful shutdown |
| `ApiRequest` | a request to the API on its way through the middlewares, the handler and the rules of the domain, and out |
| `ServerProofs` | theorems about EventStream and ApiRequest |
| `LiveSync` | an open list in one client: its cache between taps, hints, refetches and reconnects |
| `LiveSyncProofs` | theorems about LiveSync |
| `Outbox` | the user's taps on their way to the server, online and offline |
| `OutboxProofs` | theorems about Outbox |
| `UndoQueue` | deleting a list with undo, and the overview it is deleted from |
| `UndoQueueProofs` | theorems about UndoQueue |
| `LoginThrottle` | the token buckets of one limiter each per address and username |
| `SignIn` | signing in and out with both methods; composes LoginThrottle |
| `SignInProofs` | theorems about LoginThrottle, and about SignIn, of which they hold too |
| `IdentityMerge` | `user merge` beside the people who use the app |
| `IdentityMergeProofs` | theorems about IdentityMerge |
| `Deployment` | `migrate`, and the server that starts and stops after it |
| `DeploymentProofs` | theorems about Deployment |
| `MC...` | symmetry, sequences and bodies of the instances |

How the components meet. ApiRequest ends at the repository, where it knows only what
is handed over and how the call ends; ListStore begins there. ListStore says when a handler calls `Publish`, and
EventStream what the broker does with the event; LiveSync starts from what the
two promise (a hint after each commit, a bounded subscription that drops, a
reconnect that reloads) and composes it with the client's cache, a mutation and
`GetList`'s two reads. Outbox uses the item operations as ListStore serves them.
SignIn EXTENDS LoginThrottle: one step of the login handler is one call of the
limiter. Deployment's streams end as EventStream shows they do when the broker
is closed.

React Query, EventSource, the browser's events, the session manager, the OpenAPI
validator, Postgres and the migration library are external. They are modelled from how the code
uses them, and the definitions that stand for them are marked so in the map.

### ListStore

A request is a process. `Arrive` picks what it asks for, among everything a
client could send knowing the ids that exist or once existed. From then on each
action is one SQL statement of its handler: `pc` says which comes next, `req`
holds the handler's local variables, and a handler that returns leaves nothing.

| Action | Statement |
|---|---|
| `InsertList`, `UpdateListName`, `DeleteListRow` | INSERT, UPDATE, DELETE on `lists`; the delete takes the items with it |
| `LoadCopySource` | `Service.CopyList`'s read before the transaction |
| `LockCopySource`, `CopyRows`, `CommitCopy` | the copy's transaction: `FOR KEY SHARE`, the two INSERTs, COMMIT |
| `InsertItem` | INSERT on `items`; the foreign key turns a missing list into a 404 |
| `UpdateItemRow`, `SoftDeleteItem`, `RestoreItemRow` | one UPDATE each |
| `LoadForCheck`, `WriteChecked` | `setChecked`'s read and its UPDATE |
| `ReadList`, `ReadItem` | the re-read that builds the reply |
| `Publish` | the event and the reply |
| `FailRequest` | any error, lost acknowledgement, hang-up or panic, at any step; rolls the transaction back |

Rows that a transaction has not committed are `draft`. Deleted lists and the
items that went with them are `gone`, soft-deleted items `deleted`. Isolation is
READ COMMITTED, as the code leaves it: a statement sees what is committed when
it runs. Row locks inside one statement need no state; the one lock that is
held across statements, the copy's key-share lock, is `keyShare`.

Three ghosts record history for the properties: `overtaken` (the row a request
loaded has been written since), `unannounced` (committed changes with no event
published after them) and `lost` (those whose announcement an error swallowed).

What is abstracted: names, units, quantities, notes and times, of which the bit
`rev` only says that `updated_at` moved; display names, which are joined at read
time; requests refused before their first statement. The two INSERTs of a copy
are one action because nobody sees the rows before the commit; which items the
second one reads is decided in that action, and other requests run before and
after it.

### ShoppingBoard

The abstract store: lists that are absent, present or gone, and cards on them.
`ListStore!Board` maps a state of the store to what a reader sees of it (drafts
are absent), and run `ListStore` checks that every behaviour of the store
is, seen so, a sequence of board operations. A copy appears whole, and while its
source is there.

### EventStream

The broker's mutex is explicit. `Publish` and `Close` take it, visit the
subscribers one at a time (`SendTo`, `CloseOne`) and release it; streams receive
from their channels without it, in between. A stream is one SSE request: it
subscribes, flushes its headers, then receives and writes until its channel is
shut, a write fails or its client leaves, and unsubscribes in its deferred call.
Which handler publishes makes no difference, because each holds the mutex from
its first to its last step and keeps nothing: one `Publisher` stands for all.
`StopServer` refuses new connections and calls the hook; `Drained` is Shutdown
returning because every connection is idle, `DeadlinePasses` because of its
deadline. Heartbeats appear only as a way to find that a client has left.

### ApiRequest

`at` says where a request is, and each action is one stage's whole work on it.

| Action | Code |
|---|---|
| `LoadAndSave` | the session manager around `/api/v1` (`server.go`) |
| `MaxBody`, `Route` | the cap, chi |
| `Bind` | the generated wrapper's path parameters, before its middlewares |
| `EnterMetrics`, `LeaveMetrics` | `metrics.Middleware` and `Logging`, in and out |
| `Validate` | kin-openapi with `openapi.yaml`, and the defaults it writes into the body |
| `RequireAuth` | `publicHealth` and the guard of either mode |
| `Handle`, `ReadSource` | the handler up to the repository: body, actor, the checks of `Service` |
| `CallRepository` | the statements: what they are given and how they end |
| `PublishAndReply` | the hint and the success |
| `OpenEvents`, `SendFrame`, `EndEvents` | `sseHandler`, as far as the response is concerned |
| `Panic`, `RecoverPanic` | a panic of any stage from the validator on, and `Recover` |
| `LoseDatabase`, `RegainDatabase` | an outage |

`ValidName`, `CopyListName`, `CleanNote` and their like (`lists.go`), `Accepts` and
`Gives` (`service.go` and the bodies the handlers build) are the rules of the domain;
`SpecAllows` and `WithDefaults` are the document's. A text is the runes it has once
trimmed and the blanks around them, since that is all these rules look at; two units
stand for the twelve. `answers` has every status written, `wrote` what Recover's
writer has noticed of it.

### LiveSync

The detail query of one list: `cache` holds each item's row (absent, open or
done) and the open count, which the server and the optimistic updates count
apart. A mutation is a process: `Tap` is its onMutate up to the await of
cancelQueries (which gives up the refetch in flight), `Apply` what follows (the
snapshot and the optimistic write), then `Commit` and `PublishOwn` at the server,
and `Succeed`, `Refused` or `RollBack`. A refetch is two reads, `ReadCounts` and
`ReadItems`, and `FetchAnswered`. The stream is what the client sees
(`stream`), what the broker has (`wire`) and the hints between them (`buffer`);
`HandleOpen` reloads only after an error, as `live.ts` does, and an HTTP error
closes the stream for good (`HandleRefusal`). `Revisit` leaves the view and comes
back. Retries are Outbox's subject; here a mutation succeeds or fails once.

The ghost `causes` names why a view may rest out of sync, set at the step that
makes it so and removed by a refetch that was asked for later: `rollback` (a
snapshot written back over something newer), `late` (a change between the last
read and the first open of the stream), `crowded` (a hint dropped while the buffer
held only other lists' hints) and `fetch` (a refetch that failed for good). What
the properties say is that there is no fifth.

### Outbox

A tap on an item becomes a mutation or is folded into the create that is still
queued. Each mutation goes through `Start`, `Serve`, `Answer` or `Refuse` or
`LoseAttempt`, and `BackoffEnds`, where it pauses if the device is offline or
hidden; `GoOnline` and `Show` resume what is paused at that moment. A create's
`Answer` rewrites the temp id in the mutations that exist then. A removal is two
steps, `ClickRemove` and `RemoveItem`, on both sides of an await, and its undo is
a restore or, for a row the server did not have, a fresh create. `Save` writes
what the persister may write, at most the paused mutations; `Reload` starts from
it, and requests that are under way then become `orphan`s the server may still
serve. The connection (`link`) and what React Query believes of it (`online`)
differ after a reload without a network.

Ghosts: `wish`, what the user last asked of each item; `excused`, items of which
nothing is promised any more: the user has been told (a notice or a rollback),
two changes of one item were under way together, a reload hit a change not saved,
a create reached the server but its answer was lost, or a fold or a cancel met a
create that was not paused. The excuses are wide, because the code promises no
more; the two violation runs show two of them where a comment does.

### UndoQueue

`entries` and `restores` are the hook's two maps; `ClickDelete` and `Schedule` are
both sides of an await. `TimerFires`, `Undo` and `Unmount` compete for a removal,
and `Deleted` or `DeleteFails` is the answer to its DELETE, which this view sends
once. The overview is a sequence, since the hook puts a list back by its index.
The ghost `muddled` marks the undos for which an index can be wrong (another order
than last first, a refetch in between, somebody's deletion) and a click that gives
up the refetch that would have repaired one; the comment on `restoreListLocally`
("so ordering survives overlapping deletes") holds for the others.

### SignIn and LoginThrottle

LoginThrottle's clock counts in units in which a token is worth `Interval`, so
that the code's fractions are exact. `Allow` and `Reset` are the two calls, each
under the limiter's mutex; `ideal` is a ghost limiter that refills at every tick
and keeps every bucket.

In SignIn each request carries a copy of its session from the middleware, runs
its handler step by step, and writes the copy back with its answer if it changed
it. The cookie is the browser's and moves with answers, so requests that cross
can overtake each other. The password login asks both limiters, looks up the
account, waits for one of the comparison slots, then renews the token, stores the
user and records the member; the SSO round trip is a login that leaves its state
in the session, the provider, and a callback that checks it. One step per call
that can fail or that another request can see.

### IdentityMerge

A run of the command resolves its source and target, waits at the prompt for as
long as it likes, and then runs its transaction: three UPDATEs over the rows that
matched when each began, one row at a time with row locks, the deletion of the
source and the target's member row. Its writes show at `Commit`. `Rollback` is any
failure, a deadlock's victim included: that the database breaks deadlocks is taken
from Postgres, and what is checked is that the victim leaves nothing half done.

People act (each action credits them in one column), sign in and sign out in between.
`login` is how far a sign-in has got. `Admit` is the check of the password, or the
provider's word; the account may be merged away before the next step. `UpsertMember`
or `UpsertMemberFails` follows while the session is filled but not committed, and the
middleware's `CommitSession` comes after either: the handler's 500 does not keep the
browser from being signed in. The dev user, whose member the start-up records on a
best effort and who never signs in, has the same two histories.

Ghosts: `mergedAway`, `settled` (sources that neither acted nor got credit from another
merge since their transaction began), `unknown` (targets named by an id nobody has,
which the `uuid:` selector does not check) and `nameless` (ids whose upsert failed
while they had no member, until a sign-in or a merge records one).

### Deployment

A migrate job connects, may force a version, checks the dirty flag, takes the
advisory lock and then records a version as dirty, runs the migration and records
it clean, one by one; `Crash` may come between any two. A migration is one
transaction, so that a crash undoes it and leaves the flag. Operators force the
version the schema has reached. The server pings the database, chooses its session
store, may refuse (SSO without durable sessions, failing discovery), serves two
listeners and stops on a signal or when one of them fails, under one deadline for
both. The ghost `misled` marks a version forced beside a running job.

## Runs

| Run | Instance | Shows |
|---|---|---|
| `ListStore` | 2 requests, 3 lists, 4 items, 2 people, fair; 215 000 states | safety of the store, that it implements ShoppingBoard, that every request is answered and every change announced |
| `ListStoreRecheck` | 2 requests, 1 list, 1 item, 2 people | violation: a check reassigns an item already bought |
| `EventStream` | 2 streams, buffers of 2, 3 events, fair | safety of the broker, and shutdown without its deadline |
| `ApiRequest` | 1 request for every operation, bodies that differ from a plain one in at most two fields, 1 outage; 560 000 states | what gets through is allowed and clean; the answer tells what was done |
| `LiveSync` | 1 item, 2 taps, a buffer of 1, 1 change of others, 1 trouble, fair; 2.2 million states | a list view rests in sync and gets there |
| `Outbox` | 3 mutations, 1 typed item and its re-creation, 2 kinds of edits, 1 retry, 2 troubles; 3 million states | what has settled is as last asked; nothing sleeps for ever |
| `OutboxCancel` | 2 mutations, 1 item, 1 retry, 1 trouble | violation: a cancelled create posts |
| `OutboxInflight` | the same | violation: a change is sent with a temp id |
| `UndoQueue` | 3 lists, 3 removals, 1 hint, 1 return to the view, fair; 1.4 million states | each removal is decided once and none forgotten; the overview's order |
| `SignIn` | 4 requests (2 at a time), 2 SSO round trips, 3 tokens, 1 failure, limiters of one key; 2.9 million states | sessions, cookies, slots and the throttle |
| `IdentityMerge` | 2 local accounts and 1 SSO identity, 1 list, 1 item, 2 merges, 2 sign-ins, 2 acts; 5.1 million states | merges move everything and names resolve, but for the named exceptions |
| `Deployment` | 3 migrations, 2 jobs, 1 outage or crash, 2 arrivals, fair; 1.4 million states | the recorded version, and stopping |

Properties of the store:

- `ItemsFollowTheirList`: no orphans, no items of a copy without the copy.
- `CopyIsolated`: a copy keeps its source from its guard to its commit, and
  the draft it builds is its own.
- `PurchaseRecordsAgree`: `checked`, `checked_at` and `bought_by` tell one story.
- `EveryChangeAnnounced`, `ChangesReachClients`: a committed change is followed
  by an event unless an error swallowed it. The subtle case is a write whose row
  is removed before the re-read: its handler answers 404 and publishes nothing,
  and the request that removed the row has to.
- `DeletedRowsFrozen`: undo brings back exactly what was deleted.
- `CreditMovesOnlyInARace`: the credit for a bought item changes hands only
  when the request that takes it loaded the item before another one's write.
- `RequestsFinish`: no request waits for ever, not even for a copy's lock.

Properties of the broker: `NeverPanics`, `NoSubscriptionLeaks`,
`EventsAfterOpenArrive` (after a client has seen its stream open, an event
reaches it unless its buffer was full), `DropsAreFollowed` (a drop is followed by
a frame, so the client does look again) and `ShutdownCompletes`.

Properties of a request. `ServedOnlyMembers`: on both routes into the API a handler
runs for a member, `GetHealth` excepted. `GivenIsClean`: what reaches the repository
is trimmed and within its bounds, a derived name of a copy too.
`DomainAgreesWithSpec`: a body the document allows is refused by the domain only for
a name of blanks. `CapHolds`: no body over the cap is served, whether it declared its
length or not. `OneAnswer` and `AnswerTells`: one answer, whatever panics, and it says
whether the store was asked (refused: no; success: yes, and the hint is out; a 404 or
a 500 leaves it open). `InFlightCounts`: the gauge is the number of requests inside.

Properties of the client. `RestsInSync` and `ViewCatchesUp` (LiveSync): a view at
rest shows the server's rows and count, and over a stream that stays up it comes
to show every change, but for the four causes. `SettledAsAsked` (Outbox): once
nothing of an item is under way, the server has what the user last asked, and has
it once. `NoLostWakeup`: a mutation is paused only while nothing could resume it
anyway. `RetriesNameTheRow`: no retry carries a temp id whose create has been
answered. `DecidedOnce`, `NoRemovalForgotten` and `OverviewInOrder` (UndoQueue): a
removal is undone or deleted, once, what the hook's maps offer to undo still can be,
and at last the overview is the server's.

Properties of the accounts. `TokenMeansOneUser`: a session token stands for one
user wherever a copy of its session still lives, so neither an old token nor an
old copy ever becomes somebody else's. `CookieTellsWho`: while requests do not
cross, the browser is who its last answer said, and a member of that name exists.
`PruningUnseen`, `MapsBounded`: the limiter behaves as if it kept every bucket,
and does not. `HistoryMoves`: a merge leaves no row crediting its source, unless the
source acted since. `NamesResolve`: everybody credited has a name to show, but for
sources credited again after their merge, targets named by an unknown id, and ids
whose sign-in could not record a member. `SchemaAsRecorded`: a clean
recorded version is the schema's. `DrainsBeforeExit`, `StopEnds`: the process waits
for what is in flight, and ends without the deadline.

The type invariants (`TypeOK`, `ApiTypeOK`) are theorems, for every instance. Runs
check them only where they say more than types: in SignIn that a slot is held exactly
by a request that compares, in Deployment that SSO is never served with sessions in
memory. UndoQueue states none: what matters of its maps is part of `DecidedOnce`.

Why the bounds are enough. The races of the store are between two requests on
one row or list: two requests of any kind, one seeded list and item and room for
everything the two can insert. A seed item starts in every state a row can have, also
without attribution. Three requests (on two lists, where some combinations run out of
ids and fail) pass the safety properties too, and the theorems hold for any number. In
`EventStream` the buffer fills and overflows (3 events into a buffer of 2), before and
while streams subscribe, leave and are closed.

A request meets others only in the gauge, so ApiRequest has one; that the gauge is
right for any number is theorem `GaugeTells`, and two requests side by side, with fixed
bodies, pass too. Names of 0 to 4 runes against a bound of 3, notes of 0 to 2
against 1, a suffix of one rune and quantities from -1 to one past the largest
(2 for 2^31 - 1) put each check on both sides of its limit, and two fields at a time
are odd because the checks of different fields are conjoined.

In the client the races are between two mutations of one item, what answers
them, and one disturbance: two taps with a change by somebody else, and a buffer
of one that another list's hint fills, reach each of LiveSync's four causes. Outbox
has a third mutation, so that a create, a removal and its undo, or two changes of
one create, meet; two troubles make an outage during which the page is reloaded
or hidden. UndoQueue needs three lists to tell positions apart. SignIn's four requests make
a login, a second one or a logout that crosses it, and what comes after; limiters
of one key are full after the first name. Two merges cross in both directions
among three identities; with two sign-ins two people act, or one does and signs in
again after a merge, with the upsert failing either time. One crash at any step of either job, with the other job
or a forced version after it, is what Deployment's flag is for. Larger instances
of some (two outages in Deployment; in IdentityMerge three sign-ins beside one act, and
one merge beside four sign-ins and three acts) pass too, and are left out for their time. Where only safety is checked, interchangeable
requests, people, mutations, kinds of edits, merges and slots are symmetric.

Fairness. `ListStore!FairSpec` has weak fairness of each request's own steps:
goroutines are scheduled, and the database answers. Requests need not arrive.
`EventStream!FairSpec` has it for the stream handlers (a select takes a ready
case, a write ends or fails), for whoever holds the mutex, for the shutdown
goroutine, and for Shutdown noticing that all connections are idle. Nobody has
to publish, leave or stop the server, and the deadline is not counted on.
`LiveSync!Fairness` has it for the refetch, the stream's own callbacks, the
publishing handler and each mutation; that a broken connection is noticed is not
assumed (an EventSource never writes), nor that anything fails. `UndoQueue!FairSpec`
has it for each removal's timer and answers, not for clicks. `Deployment!FairSpec`
has it for the shutdown goroutines, the answers to requests and the streams of a
closed broker; clients need not leave. `FailRequest`, `RollBack` and
`DeadlinePasses` are never forced to happen. Outbox, SignIn and IdentityMerge are
checked for safety only: what would have to be fair there is the user, the
network or the operator.

Every property has a mutant: a faulty variant of one action (`..._NoLock`,
`..._Silent` and so on, defined just before the real one) with which TLC finds
the property violated.

## Findings

**A check can take over an item somebody else has just bought**
(`ListStoreRecheck`). The comment on `setChecked` (`lists/service.go:254`) says
"The early return on an unchanged state is what keeps a re-check from reassigning
an item someone else already bought", and US-L.11 "Re-checking an already-checked
item does not reassign it". The early return works on a row read by an earlier
statement, and the UPDATE that follows does not test `checked`. Two people who
tick the same open item at the same moment both pass the early return, and the
second UPDATE replaces the first one's `bought_by` and `checked_at`.
`CreditMovesOnlyInARace`, proved as theorem `CreditIsKept`, shows that nothing
else moves the credit of an item that stays checked.

**A cancelled create can still post** (`OutboxCancel`). The comment in
`useDeleteItemMutation` (`frontend/src/queries.ts:770`) says that deleting a
still-paused create removes it "from the mutation cache so it never POSTs".
Offline, `findPausedCreate` takes any create for paused, also one that is in flight
or backing off, and removing such a mutation from the cache does not stop it: its
next attempt creates the item the user has removed, and no DELETE follows.

**A change of an item whose create is in flight is sent with its temp id**
(`OutboxInflight`). The same comment (`queries.ts:774`) says such a DELETE "is
remapped from the temp id to the real id on create success, so the DELETE targets
the real row". Its first attempt is sent at once, before that; the server refuses
it, the user gets a notice and the row stays. `RetriesNameTheRow` shows that the
remapping does hold for every later attempt.

Others met while modelling, without a run of their own:

- A PATCH that names no unit sets it to "amount", though `openapi.yaml:254` says "Only
  the fields present in the request are changed": the validator runs with kin-openapi's
  default options, which write the defaults of the schema into the body, and `Unit` has
  `default: amount`. ApiRequest's `WithDefaults` does the same. The PWA sends all four
  fields and does not notice.
- `GET /api/v1/health` runs inside `LoadAndSave`, which answers 500 to a request with a
  session cookie while the sessions' database is down; `api.go:74` says "It always
  returns HTTP 200". Probes without a cookie get their 200.
- The generated wrapper refuses a malformed identifier before it calls the logging and
  metrics that `server.go:99` has outermost to "observe validation and auth failures too".
- A panic between the stream's first flush and its first frame writes a problem into an
  open stream: `recover.go:19` says it panics again "if the response has already
  started", but only writes count as a start (as `recover_internal_test.go:461` wants).
  `OneAnswer` shows that the streams are the only exception.
- Restoring an item that is not deleted moves its `updated_at`, although `RestoreItem`'s
  comment (`adapters/db/items.go:218`) says it is returned unchanged.
- `restoreListLocally`'s comment (`queries.ts:863`) holds for undos in reverse order
  only; the manual remedy in `Migrate`'s error message (`database/migrations.go:126`)
  records as applied a migration that was rolled back; two merges that cross (A into B,
  B into A) can leave neither account.

## Proofs

All theorems hold for any sets of lists, items, people, requests, bodies, mutations,
merges and jobs, any number of streams and events, and any buffer, burst, interval or other
bound. Each module proves one inductive invariant (`...Safe`), for which TLC was
asked first, and draws the properties of the runs from it.

What they assume of the constants, and nothing else:

| Assumption | Says |
|---|---|
| `StoreAssumption` | the seeds are lists and items; NULL is not an id |
| `StreamAssumption` | a buffer of at least one event; the three holders of the mutex differ |
| `ApiRequestAssumption` | finitely many requests; bounds are positive, the suffix shorter than a name; the bodies are JSON objects of the right types, absent and null are no values; the units are strings |
| `LiveAssumption` | a list has finitely many items, and one at least; a buffer of at least one |
| `OutboxAssumption` | temp ids, ids and the names of operations are different things; bounds are numbers |
| `UndoAssumption` | the server's order is a sequence, and no list appears twice in it |
| `ThrottleAssumption` | the limits are numbers, intervals are not zero, keys are finitely many |
| `SignInAssumption`, `AbsentAssumption` | the limiters are the two of `password.go`, names and addresses are keys; the words for nobody, and for no session, name no user and no session |
| `MergeAssumption` | local accounts and SSO identities, lists and items, NULL and ids differ |
| `DeploymentAssumption` | there is a migration; nobody is not a job |

`ListStoreProofs`:

- `TypeCorrect` shows `TypeOK`, one step per action. Its last conjunct,
  `HandlerOK`, is what makes it inductive: the re-read and the commit use an id
  that an earlier statement handed out.
- `StoreSafe` shows the inductive invariant `StoreInv`, the conjunction of
  `TypeOK`, `CopyInv` (with `ItemsFollowTheirList` and `CopyIsolated` inside),
  `PurchaseRecordsAgree` and `EveryChangeAnnounced`. None of them is inductive
  alone. That a delete leaves no draft behind needs the lock; that a rollback
  undoes only its own rows needs that no two transactions build the same list;
  that a change stays announced when its handler's re-read fails needs to know
  who removed the row. `NoOrphans`, `CopiesAreIsolated`, `PurchasesAgree` and
  `ChangesAreAnnounced` follow.
- `UndoRestores` and `CreditIsKept` are action properties on top of it.
  `CreditIsKept` needs one more invariant, `FreshLoads`: a request about to
  write a check, and not overtaken, still finds the row unchecked.
- `StoreImplementsBoard` is the refinement: every statement of every handler is one
  operation of `ShoppingBoard` or a stutter. The `Seen...` lemmas say when a change of
  what a reader sees is which operation; the lemma of each action supplies it. An
  INSERT of a copy stutters, its COMMIT is `Copy` whole, and that needs `DraftsOK`
  (`DraftsUntouched`): the draft is still as its own INSERT left it.

`ServerProofs`, the streams: `TypeCorrect`, and `BrokerSafe` for the invariant
`BrokerInv`, from which `NoPanics`, `NoLeaks` and `DropsCaughtUp` follow. The
point of `BrokerInv` is that the broker's set is exactly the open channels, also
in the middle of a `Close`, and that whoever dropped an event left a full buffer
behind. `EventsArrive` is `ArrivalInv` on top of it: what a client has received, the
frame in its handler's hand and the buffer are three rising runs, one after the
other (`Orderly`), older than the event still being sent (`Older`), and nothing
since the open is missing from them but what was dropped or is on its way
(`Complete`).

`ServerProofs`, a request: `ApiSound` for `ApiInv`, from which `RequestTypes`,
`GaugeTells`, `HandlersServeMembers`, `AnswersOnce`, `StatusTells`, `StoreGetsClean`,
`DomainAgrees` and `OversizeStopsHere` follow: all invariants of the run, for any
number of requests, any bodies and all bounds. The invariant says of one request what
its place implies (`OnItsRoute`: which route it took and that nothing was answered
before; `IsChecked`: what the cap, the validator and the service have let through),
and of all of them that the gauge counts them. Two lemmas carry the weight of the
data: `SpecBounds`, what the document leaves of a body, defaults included, and
`GivesAreClean`, that each method of the service makes something clean of it;
`DomainFollowsSpec` compares the two checkers. A step on one request is shown to
change the gauge by what it changes of that request (`OneChangeKeeps`).

`LiveSyncProofs`: `ViewSafe`, from which `ViewTypes` and `ViewAtRestInSync`. A state
is `Loud` when a refetch is still to come (a change not yet published, a hint of this
list in the buffer, a reload that is due, a refetch that has been asked for) or a
cause stands that the refetch in flight does not cure. Every step that could
put the view out of sync is shown to leave a loud state (`HintIsLoud`,
`AskedIsLoud`, `BlameIsLoud`); in the quiet ones three statements are inductive
together: what the refetch has read is the table (`FetchGood`), an idle cache shows
it if no optimistic change is out (`CacheGood`), and a snapshot that nothing has
touched is the table if its own mutation is the only one out (`SnapshotGood`).
The last is why a rollback of an untouched snapshot needs no refetch. `StreamOK`
(an open stream does not await a reconnect) says that no reload is due at rest.

`OutboxProofs`: `OutboxSafe` for `OutboxInv`, which is about each slot by itself
(`SlotOK`) and about two of them only in that a temp id is one create's. A mutation
names things that exist (`Sound`), the row of a create is there only once it was
served (`CreateOK`), nobody not excused still goes by a temp id that was answered
(`NameOK`), and what is on disk was paused and is about the same item
(`DiskOK`). `OutboxTypes` and `RetriesNameRows` follow. `NothingSleepsOn` is inductive
by itself once a step on one slot is known to put no other to sleep
(`Undisturbed`).

`OutboxProofs`, what the server ends up with: `OutboxSettles` for `WishInv`, beside
`OutboxInv`. For each item (`ItemOK`), its rows agree with the wish (`Agrees`), or
exactly one change under way will make them agree (`Toward`, `OneChange`): folding
keeps it one, since the slot that swallows another takes over what it was to do
(`FoldedOK`). A create under way makes a row that agrees, and one that ended without
a row was cancelled (`CreateAsAsked`). Around it: a temp id not handed out yet is
nowhere (`NewOK`); a request on its way is about the item of its mutation, and one
whose page is gone only about an excused item (`SentOK`). A step touches one item
(`TouchesOne`) and is shown to leave every other as it was (`Still`); the steps on
the item itself are those that begin a change (`ChangeBegins`), that the server
serves (`RowMadeWish`, `RowChangedWish`) and a reload (`ReloadWish`). With nothing
under way no change is left, so the rows agree (`SettledFollows`).

`UndoQueueProofs`: `UndoSafe` and from it `RemovalDecidedOnce`. A removal's history
follows from where it stands (`Decided`), and what the hook's two maps hold is open
(`Held`), with its timer, and the same in both: so the timer, the button and the
unmount each find it undecided, and take it out of both maps, or all.

`UndoQueueProofs`, the rows: `OverviewSettles` for `ViewInv`, beside `UndoInv`. While
the view is on the screen, nothing has muddled it and no refetch is to come
(`Settled`), the rows are in the server's order, and each list they lack is being
removed (`RowsOK`). What makes it inductive is what the index a removal took is
good for (`IndexOK`): it counts the rows before its own among those that will be there
when every later removal is undone (`RowsThen`), so a removal that goes and an undo
that comes back leave it right. It does not hold after a refetch, after an earlier
removal was undone first, or once a later one was sent; these are the cases the ghosts
`stale` and `muddled` name. `Those`, the filter of the rows, is written with counts and
not with `SelectSeq`, and everything about listings is shown by counting:
`ThoseInOrder` that a filter keeps the order, `PutInOrder` that a row put where it
belongs makes a listing, `OneListing` that some lists have one listing only.

`SignInProofs`, the throttle: `ThrottleInvariant`, from which `PruningIsUnseen` and
`MapsStayBounded` follow. The invariant adds `InOrder` (no bucket was refilled in
the future). The heart of it are two lemmas on the code's arithmetic:
`RegainedInSteps`, that to refill twice is to refill once for the sum of the
times, also across the cap, so that the ideal limiter's ticks and the code's lazy
refills agree; and `SweptIsUnseen`, that what a sweep drops was full. Every call
replaces the map of one limiter; `OneLimiterStep` says what such a step needs.

`SignInProofs`, the login: `CallsThrottle` shows that a step of SignIn is at most one
call of a limiter, and `UsesThrottle` from it that SignIn implements `ThrottleSpec`; so
`LoginThrottled` has the two results above for the login. `SignInSafe` is the
inductive invariant, one lemma per group of handler steps. `TokenMeansOneUser` is
inductive only with `IssuedFirst` (no store entry, request or cookie has a token
that was not issued yet), and the types only with `RequestOK` (a request that is
throttled has a name, one that signs in has a user). `TypeCorrect` and
`TokensMeanOneUser` follow, for any number of requests that cross, where the run
has two at a time. `CookieIsWho` needs to say what a request that nothing crosses has
made of the session at each place of its handler (`Stage`): up to `RenewToken` it works
on the cookie's session, past it it signs somebody in who is recorded before it
answers. A request that is crossed leaves the browser `unknown`.

`IdentityMergeProofs`: `MergesSafe` for `MergeInv`; `MergeTypes`, `WholeHistoryMoves` and
`CreditedHaveNames` follow. Row locks make it work: a row a transaction has written
is, but for credit given to its target, as it was (`OnlyToTarget`), so a commit
overwrites nobody. `Rewrites` is the loop invariant of the three UPDATEs: in the
columns done with, nothing the transaction sees credits its source, unless somebody
crossed it. `Known` follows the target from the resolution to the row that is
seeded for it. `SessionsKnown` does the same for people: whoever is signed in, or is
past the upsert and about to be, has a member, had one before a merge, or is
`nameless`.

`DeploymentProofs`: `DeploymentSafe` for `DeploymentInv`; `DeploymentTypes`,
`VersionIsSchema` and `ExitIsDrained` follow. The schema is always a prefix of the
migrations; the job that holds the lock knows which, from its place in the loop
(`UnderWay`), and a state left dirty waits for the one job that forces the version it
has reached. The other half is about the two listeners and what they still owe.

Every invariant of a passing run is a theorem, and so is every action property and the
refinement. Only model-checked, and why:

- the liveness properties (`RequestsFinish`, `ChangesReachClients`,
  `ShutdownCompletes`, `ViewCatchesUp`, `NoRemovalForgotten`, `StopEnds`): fairness and
  ENABLED are beyond the prover;
- the properties of the three runs that find a violation.

## Not modelled

Listed with reasons under `components` in `PROJECT.json`. Configuration, the generated
client, the pages outside `/api/v1`, log lines and rendering keep no state that several
actors share. Inside the parts that are modelled, these are left out:

- names, units, quantities and notes as data in the store (ApiRequest has their
  validation), times and display names; which of two concurrent edits of a text wins;
- encodings: that a body is broken JSON, or an id no UUID, is all that is said of it;
- the name and the deletion of the list an open detail view shows;
- mutations of lists in the outbox (create, rename, copy), which take the same
  path without folding, and a second tab, which has a queue of its own;
- dev mode and the check of redirect targets;
- `user add` and `user ls`, each one statement; the dev member recorded at start-up (its two
  outcomes are those of a sign-in in IdentityMerge);
- a clock that steps back under the limiter, and rounding of its floats;
- clearing the dirty flag by hand with SQL; the SQL of the migrations;
- exhaustion of the connection pool.

What the project still owes, in order:
LiveSync as a composition over EventStream itself rather than over what it promises;
the order and refusals of configuration at start-up.
