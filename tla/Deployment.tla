----------------------------- MODULE Deployment ------------------------------
(***************************************************************************)
(* Bringing splitkauf up and down on one database: the migrate command     *)
(* (cmd/migrate.go, database/migrations.go), run by units and by operators *)
(* and liable to crash, and the server that starts after it (cmd/serve.go).*)
(* The migration library is external: it records a version, marks it dirty *)
(* before a migration and clean after it, and holds an advisory lock.  A   *)
(* migration is one implicit transaction.                                  *)
(***************************************************************************)
EXTENDS Integers, FiniteSets

CONSTANTS
  Last,        \* the newest embedded migration
  Jobs,        \* runs of the migrate command
  None,
  MaxOutages,  \* bound: crashes, failures and outages of the database
  MaxArrivals  \* bound: requests and streams that arrive

ASSUME DeploymentAssumption ==
  /\ Last \in Nat \ {0} /\ None \notin Jobs
  /\ {MaxOutages, MaxArrivals} \subseteq Nat

VARIABLES
  up,       \* the database answers
  version,  \* the recorded version: -1 none; 0 only if it was forced
  dirty,
  applied,  \* migrations whose effect the schema has
  holder,   \* the job with the advisory lock
  job,
  server,
  api, metrics,       \* the two HTTP servers
  requests, streams,  \* requests and event streams in flight
  broker,   \* the event broker is open
  outages, arrivals,
  misled    \* ghost: a version was forced beside a running job

migrateVars == <<version, dirty, applied, holder, job, misled>>
serveVars == <<server, api, metrics, requests, streams, broker, arrivals>>
vars == <<up, outages, migrateVars, serveVars>>

-----------------------------------------------------------------------------

Versions == -1..Last
Job == [at: {"ready", "connect", "force", "check", "lock", "work", "body", "clean", "done", "failed"},
        target: Versions, forced: Versions, down: BOOLEAN]

\* "hold" is the shutdown goroutine waiting, "api" and "metrics" the server it
\* stops; reachable is what the ping at startup said.
Server == [at: {"stopped", "connect", "session", "auth", "serving", "exited"},
           oidc: BOOLEAN, reachable: BOOLEAN, store: {"none", "memory", "postgres"},
           ended: BOOLEAN, stop: {"hold", "api", "metrics", "over"}, late: BOOLEAN]

Working(j) == job[j].at \in {"work", "body", "clean"}
Running(j) == job[j].at \notin {"ready", "done", "failed"}
Goes(j, place) == job' = [job EXCEPT ![j].at = place]

\* The schema, if it is a prefix of the migrations; what an operator finds.
Reached == Cardinality(applied)

Breaks == outages < MaxOutages /\ outages' = outages + 1

\* The database goes away or comes back.
Outage ==
  /\ up /\ Breaks
  /\ up' = FALSE
  /\ UNCHANGED <<migrateVars, serveVars>>

Recover ==
  /\ ~up
  /\ up' = TRUE
  /\ UNCHANGED <<outages, migrateVars, serveVars>>

-----------------------------------------------------------------------------
(* The migrate command.                                                    *)

ranOf == <<up, serveVars>>

\* An operator, or the one-shot unit, runs it: to the newest version, to a given
\* one, or down.  A dirty state takes --force with the version the schema has;
\* another job that runs at that time makes this a guess.
RunMigrate(j, target, down, force) ==
  /\ job[j].at = "ready"
  /\ force => dirty /\ ~down
  /\ job' = [job EXCEPT ![j] = [at |-> "connect", target |-> target, down |-> down,
                                forced |-> IF force THEN Reached ELSE -1]]
  /\ misled' = (misled \/ (force /\ \E k \in Jobs : Running(k)))
  /\ UNCHANGED <<outages, version, dirty, applied, holder, ranOf>>

\* runMigrate: without a database it fails at once.
Connect(j) ==
  /\ job[j].at = "connect"
  /\ Goes(j, IF ~up THEN "failed" ELSE IF job[j].forced >= 0 THEN "force" ELSE "check")
  /\ UNCHANGED <<outages, version, dirty, applied, holder, misled, ranOf>>

\* OverrideDirty: the version is set whatever it was, but not where none is
\* recorded.  Setting it waits for the lock.
OverrideDirty(j) ==
  /\ job[j].at = "force" /\ up
  /\ IF version = -1
     THEN Goes(j, "failed") /\ UNCHANGED <<version, dirty>>
     ELSE /\ holder = None
          /\ version' = job[j].forced /\ dirty' = FALSE
          /\ Goes(j, "check")
  /\ UNCHANGED <<outages, applied, holder, misled, ranOf>>

\* Faulty: a dirty state is taken for an applied migration.
CheckDirty_Heals(j) ==
  /\ job[j].at = "check" /\ up
  /\ dirty' = FALSE
  /\ Goes(j, "lock")
  /\ UNCHANGED <<outages, version, applied, holder, misled, ranOf>>

\* Migrate and MigrateDown refuse a dirty database (where no version is recorded,
\* the library does).
CheckDirty(j) ==
  /\ job[j].at = "check" /\ up
  /\ Goes(j, IF dirty /\ version # -1 THEN "failed" ELSE "lock")
  /\ UNCHANGED <<outages, version, dirty, applied, holder, misled, ranOf>>

\* External: the lock, under which the state is read again.
TakeLock(j) ==
  /\ job[j].at = "lock" /\ up /\ holder = None
  /\ IF dirty THEN Goes(j, "failed") /\ UNCHANGED holder
     ELSE Goes(j, "work") /\ holder' = j
  /\ UNCHANGED <<outages, version, dirty, applied, misled, ranOf>>

LockTimesOut(j) ==
  /\ job[j].at \in {"lock", "force"} /\ holder \notin {None, j}
  /\ Goes(j, "failed")
  /\ UNCHANGED <<outages, version, dirty, applied, holder, misled, ranOf>>

Upward(j) == ~job[j].down /\ version < job[j].target
\* Beyond 0 there is nothing below.
Below(v) == IF v = 1 THEN -1 ELSE v - 1

\* External: one migration, recorded as dirty with the version it leads to.  The
\* library knows no version 0, so it starts from none.
MarkDirty(j) ==
  /\ job[j].at = "work" /\ up
  /\ version # job[j].target /\ version # 0
  /\ version' = IF ~Upward(j) THEN Below(version) ELSE IF version = -1 THEN 1 ELSE version + 1
  /\ dirty' = TRUE
  /\ job' = [job EXCEPT ![j].at = "body", ![j].down = ~Upward(j)]
  /\ UNCHANGED <<outages, applied, holder, misled, ranOf>>

\* The migration this step runs, and whether its SQL fits the schema.
Body(j) == IF ~job[j].down THEN version ELSE IF version = -1 THEN 1 ELSE version + 1
Fits(j) == IF job[j].down THEN Body(j) \in applied ELSE applied = 1..(Body(j) - 1)

RunBody(j) ==
  /\ job[j].at = "body" /\ up /\ Fits(j)
  /\ applied' = IF job[j].down THEN applied \ {Body(j)} ELSE applied \cup {Body(j)}
  /\ Goes(j, "clean")
  /\ UNCHANGED <<outages, version, dirty, holder, misled, ranOf>>

MarkClean(j) ==
  /\ job[j].at = "clean" /\ up
  /\ dirty' = FALSE
  /\ Goes(j, "work")
  /\ UNCHANGED <<outages, version, applied, holder, misled, ranOf>>

FinishMigrate(j) ==
  /\ job[j].at = "work"
  /\ version \in {job[j].target, 0}
  /\ holder' = None
  /\ Goes(j, IF version = job[j].target THEN "done" ELSE "failed")
  /\ UNCHANGED <<outages, version, dirty, applied, misled, ranOf>>

Dies(j) ==
  /\ holder' = IF holder = j THEN None ELSE holder
  /\ Goes(j, "failed")

\* A migration does not fit; or its SQL fails, the process is killed or the
\* connection lost, anywhere, which gives the lock back.
MisfitFails(j) ==
  /\ job[j].at = "body" /\ ~Fits(j)
  /\ Dies(j)
  /\ UNCHANGED <<outages, version, dirty, applied, misled, ranOf>>

Crash(j) ==
  /\ Running(j)
  /\ IF up THEN Breaks ELSE UNCHANGED outages
  /\ Dies(j)
  /\ UNCHANGED <<version, dirty, applied, misled, ranOf>>

-----------------------------------------------------------------------------
(* The server: startup.                                                    *)

servedOf == <<up, migrateVars>>

\* External: the unit starts once a migration job has finished.
StartServer(oidc) ==
  /\ server.at = "stopped" /\ \E j \in Jobs : job[j].at = "done"
  /\ server' = [server EXCEPT !.at = "connect", !.oidc = oidc]
  /\ UNCHANGED <<outages, api, metrics, requests, streams, broker, arrivals, servedOf>>

\* NewSQL: an unreachable database is only a warning.
Ping ==
  /\ server.at = "connect"
  /\ server' = [server EXCEPT !.at = "session", !.reachable = up]
  /\ UNCHANGED <<outages, api, metrics, requests, streams, broker, arrivals, servedOf>>

\* Faulty: SSO falls back to sessions in memory, too.
ChooseStore_FallsBack ==
  /\ server.at = "session"
  /\ server' = [server EXCEPT !.at = "auth",
                              !.store = IF server.reachable THEN "postgres" ELSE "memory"]
  /\ UNCHANGED <<outages, api, metrics, requests, streams, broker, arrivals, servedOf>>

\* sessionStore, newSessionManager: SSO needs durable sessions, development does not.
ChooseStore ==
  /\ server.at = "session"
  /\ server' = IF server.oidc /\ ~server.reachable THEN [server EXCEPT !.at = "exited"]
               ELSE [server EXCEPT !.at = "auth",
                                   !.store = IF server.reachable THEN "postgres" ELSE "memory"]
  /\ UNCHANGED <<outages, api, metrics, requests, streams, broker, arrivals, servedOf>>

\* auth.New: the provider is discovered, within a deadline.
DiscoveryFails ==
  /\ server.at = "auth" /\ server.oidc /\ Breaks
  /\ server' = [server EXCEPT !.at = "exited"]
  /\ UNCHANGED <<api, metrics, requests, streams, broker, arrivals, servedOf>>

\* The rest of serve, with the dev member's upsert, which may fail.
Serve ==
  /\ server.at = "auth"
  /\ server' = [server EXCEPT !.at = "serving"]
  /\ api' = "listening" /\ metrics' = "listening"
  /\ broker' = TRUE
  /\ UNCHANGED <<outages, requests, streams, arrivals, servedOf>>

-----------------------------------------------------------------------------
(* The server: traffic and shutdown (runServers).                          *)

Arrives == api = "listening" /\ arrivals < MaxArrivals /\ arrivals' = arrivals + 1

ReceiveRequest ==
  /\ Arrives
  /\ requests' = requests + 1
  /\ UNCHANGED <<outages, server, api, metrics, streams, broker, servedOf>>

AnswerRequest ==
  /\ requests > 0 /\ server.at = "serving"
  /\ requests' = requests - 1
  /\ UNCHANGED <<outages, server, api, metrics, streams, broker, arrivals, servedOf>>

OpenStream ==
  /\ Arrives
  /\ streams' = streams + 1
  /\ UNCHANGED <<outages, server, api, metrics, requests, broker, servedOf>>

\* An event stream ends when its client leaves or the broker is closed.
ClientLeaves ==
  /\ streams > 0 /\ server.at = "serving"
  /\ streams' = streams - 1
  /\ UNCHANGED <<outages, server, api, metrics, requests, broker, arrivals, servedOf>>

StreamEnds == ~broker /\ ClientLeaves

\* SIGINT or SIGTERM, or one of the servers fails (a port in use): either ends
\* the context of the group.
Signal ==
  /\ server.at = "serving" /\ ~server.ended
  /\ server' = [server EXCEPT !.ended = TRUE]
  /\ UNCHANGED <<outages, api, metrics, requests, streams, broker, arrivals, servedOf>>

ApiFails ==
  /\ api = "listening" /\ Breaks
  /\ api' = "failed"
  /\ server' = [server EXCEPT !.ended = TRUE]
  /\ UNCHANGED <<metrics, requests, streams, broker, arrivals, servedOf>>

MetricsFails ==
  /\ metrics = "listening" /\ Breaks
  /\ metrics' = "failed"
  /\ server' = [server EXCEPT !.ended = TRUE]
  /\ UNCHANGED <<api, requests, streams, broker, arrivals, servedOf>>

\* Shutdown closes the listener, so ListenAndServe returns at once, while
\* Shutdown waits for what is in flight.
BeginShutdown ==
  /\ server.at = "serving" /\ server.ended /\ server.stop = "hold"
  /\ server' = [server EXCEPT !.stop = "api"]
  /\ api' = IF api = "listening" THEN "closed" ELSE api
  /\ UNCHANGED <<outages, metrics, requests, streams, broker, arrivals, servedOf>>

\* Faulty: nobody closes the broker.
CloseBroker_Never == FALSE /\ UNCHANGED vars

\* RegisterOnShutdown: in a goroutine of its own.
CloseBroker ==
  /\ server.at = "serving" /\ server.stop # "hold" /\ broker
  /\ broker' = FALSE
  /\ UNCHANGED <<outages, server, api, metrics, requests, streams, arrivals, servedOf>>

\* The ten seconds of both shutdowns together are over.
DeadlinePasses ==
  /\ server.at = "serving" /\ server.stop \in {"api", "metrics"} /\ ~server.late
  /\ server' = [server EXCEPT !.late = TRUE]
  /\ UNCHANGED <<outages, api, metrics, requests, streams, broker, arrivals, servedOf>>

ApiStopped ==
  /\ server.at = "serving" /\ server.stop = "api"
  /\ server.late \/ (requests = 0 /\ streams = 0)
  /\ server' = [server EXCEPT !.stop = "metrics"]
  /\ UNCHANGED <<outages, api, metrics, requests, streams, broker, arrivals, servedOf>>

MetricsStopped ==
  /\ server.at = "serving" /\ server.stop = "metrics"
  /\ server' = [server EXCEPT !.stop = "over"]
  /\ metrics' = IF metrics = "listening" THEN "closed" ELSE metrics
  /\ UNCHANGED <<outages, api, requests, streams, broker, arrivals, servedOf>>

\* Faulty: the process ends with its servers.
Exit_BeforeDrained ==
  /\ server.at = "serving"
  /\ api # "listening"
  /\ server' = [server EXCEPT !.at = "exited"]
  /\ UNCHANGED <<outages, api, metrics, requests, streams, broker, arrivals, servedOf>>

\* group.Wait: both servers have returned, and so has the shutdown.
Exit ==
  /\ server.at = "serving"
  /\ api # "listening" /\ metrics # "listening" /\ server.stop = "over"
  /\ server' = [server EXCEPT !.at = "exited"]
  /\ UNCHANGED <<outages, api, metrics, requests, streams, broker, arrivals, servedOf>>

-----------------------------------------------------------------------------

Init ==
  /\ up = TRUE
  /\ version = -1 /\ dirty = FALSE /\ applied = {}
  /\ holder = None
  /\ job = [j \in Jobs |-> [at |-> "ready", target |-> -1, forced |-> -1, down |-> FALSE]]
  /\ server = [at |-> "stopped", oidc |-> FALSE, reachable |-> FALSE, store |-> "none",
               ended |-> FALSE, stop |-> "hold", late |-> FALSE]
  /\ api = "closed" /\ metrics = "closed"
  /\ requests = 0 /\ streams = 0
  /\ broker = FALSE
  /\ outages = 0 /\ arrivals = 0
  /\ misled = FALSE

Migrates(j) ==
  \/ \E target \in 1..Last, force \in BOOLEAN : RunMigrate(j, target, FALSE, force)
  \/ RunMigrate(j, -1, TRUE, FALSE)
  \/ Connect(j) \/ OverrideDirty(j) \/ CheckDirty(j) \/ TakeLock(j) \/ LockTimesOut(j)
  \/ MarkDirty(j) \/ RunBody(j) \/ MarkClean(j) \/ FinishMigrate(j)
  \/ MisfitFails(j) \/ Crash(j)

\* What the server does by itself once it has been told to stop.
Stops ==
  BeginShutdown \/ CloseBroker \/ ApiStopped \/ MetricsStopped \/ Exit

Next ==
  \/ Outage \/ Recover
  \/ \E j \in Jobs : Migrates(j)
  \/ \E oidc \in BOOLEAN : StartServer(oidc)
  \/ Ping \/ ChooseStore \/ DiscoveryFails \/ Serve
  \/ ReceiveRequest \/ AnswerRequest \/ OpenStream \/ ClientLeaves
  \/ Signal \/ ApiFails \/ MetricsFails \/ DeadlinePasses \/ Stops

Spec == Init /\ [][Next]_vars

\* The goroutines run, requests are answered and a closed broker's streams end;
\* the deadline need not pass.
FairSpec ==
  /\ Spec
  /\ WF_vars(BeginShutdown) /\ WF_vars(CloseBroker) /\ WF_vars(ApiStopped)
  /\ WF_vars(MetricsStopped) /\ WF_vars(Exit)
  /\ WF_vars(AnswerRequest) /\ WF_vars(StreamEnds)

-----------------------------------------------------------------------------

\* Types; only the job with the lock works on the schema, and SSO is served with
\* durable sessions only (sessionStore).
TypeOK ==
  /\ {up, dirty, broker, misled} \subseteq BOOLEAN
  /\ version \in Versions /\ applied \subseteq 1..Last
  /\ holder \in Jobs \cup {None} /\ job \in [Jobs -> Job]
  /\ \A j \in Jobs : Working(j) <=> holder = j
  /\ server \in Server
  /\ server.at = "serving" /\ server.oidc => server.store = "postgres"
  /\ {api, metrics} \subseteq {"closed", "listening", "failed"}
  /\ requests \in 0..MaxArrivals /\ streams \in 0..MaxArrivals
  /\ outages \in 0..MaxOutages /\ arrivals \in 0..MaxArrivals

\* A clean recorded version is the schema's, across crashes at any point, jobs
\* that run into each other and the recoveries operators force; unless a version
\* was forced while another job was still at work (OverrideDirty asks nobody).
SchemaAsRecorded ==
  ~dirty /\ ~misled => applied = 1..version

\* The process ends only when everything in flight has been answered or the
\* deadline has passed, although ListenAndServe returns when the shutdown begins.
DrainsBeforeExit ==
  server.at = "exited" => server.late \/ (requests = 0 /\ streams = 0)

\* A signal, or the failure of one server, stops the process by itself, open
\* event streams included: the deadline is not needed (the comment in serve).
StopEnds == server.ended ~> server.at = "exited"
=============================================================================
