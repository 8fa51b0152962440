--------------------------- MODULE DeploymentProofs ---------------------------
(* Proofs about Deployment for any number of migrations, of jobs that run     *)
(* them, of outages and of requests.                                          *)
EXTENDS Deployment, FiniteSetTheorems, TLAPS

-----------------------------------------------------------------------------
(* The inductive invariant of the migrations.                              *)

Places == {"ready", "connect", "force", "check", "lock", "work", "body", "clean", "done", "failed"}

\* A job goes up to a migration that exists; one that goes down has not passed its
\* target, one about to run a migration has recorded which, and only one that was
\* given a version sets it.
OnItsWay(j) ==
  /\ job[j].target # 0
  /\ job[j].at = "force" => job[j].forced >= 0
  /\ job[j].at \in {"connect", "force", "check", "lock"} /\ job[j].down => job[j].target = -1
  /\ Working(j) /\ job[j].down => version >= job[j].target
  /\ job[j].at = "body" /\ ~job[j].down => version >= 1

MigrateOK ==
  /\ {up, dirty, misled} \subseteq BOOLEAN
  /\ version \in Versions /\ applied \subseteq 1..Last
  /\ holder \in Jobs \cup {None} /\ job \in [Jobs -> Job]
  /\ \A j \in Jobs : (Working(j) <=> holder = j) /\ OnItsWay(j)
  /\ outages \in 0..MaxOutages

\* A run with --force that has still to set the version.
Forcing(j) == job[j].at \in {"connect", "force"} /\ job[j].forced >= 0

\* The migration under way is the next one of the schema as it is.
UnderWay(j) ==
  CASE job[j].at = "work" -> ~dirty
    [] job[j].at = "body" -> dirty /\ applied = 1..(IF job[j].down THEN Body(j) ELSE Body(j) - 1)
    [] job[j].at = "clean" -> dirty /\ applied = 1..version

\* Unless an operator has been misled, the schema is a prefix of the migrations,
\* the one that is recorded if the state is clean; a dirty state waits for the
\* one job that forces it, and that job knows the schema.
SchemaOK ==
  ~misled =>
    /\ \E n \in 0..Last : applied = 1..n
    /\ ~dirty => applied = 1..version
    /\ \A j \in Jobs : Working(j) => UnderWay(j)
    /\ \A j \in Jobs : Forcing(j) => /\ dirty /\ holder = None /\ applied = 1..job[j].forced
                                     /\ \A k \in Jobs : Forcing(k) => k = j

-----------------------------------------------------------------------------
(* The inductive invariant of the server.                                  *)

Before == {"stopped", "connect", "session", "auth"}

ServerOK ==
  /\ broker \in BOOLEAN
  /\ server \in Server
  /\ server.at \in {"auth", "serving"} /\ server.oidc => server.store = "postgres"
  /\ {api, metrics} \subseteq {"closed", "listening", "failed"}
  /\ requests \in Nat /\ streams \in Nat
  /\ arrivals \in 0..MaxArrivals /\ requests <= arrivals /\ streams <= arrivals

\* Nothing arrives before the server serves or once its shutdown has begun, and
\* the shutdown goes past the API only when it has drained or the time is up.
AllDrained == server.late \/ (requests = 0 /\ streams = 0)

DrainOK ==
  /\ api = "listening" => server.at = "serving" /\ server.stop = "hold"
  /\ server.at \in Before => requests = 0 /\ streams = 0 /\ server.stop = "hold"
  /\ server.at = "exited" \/ server.stop \in {"metrics", "over"} => AllDrained

\* The bounds of the model.
LEMMA Bounds ==
  /\ MaxOutages \in Nat /\ MaxArrivals \in Nat
  /\ MigrateOK /\ (Breaks \/ UNCHANGED outages) => outages' \in 0..MaxOutages
<1>1. MaxOutages \in Nat /\ MaxArrivals \in Nat
  BY DeploymentAssumption
<1> QED BY <1>1 DEF MigrateOK, Breaks

-----------------------------------------------------------------------------
(* The server.                                                             *)

ServerStep ==
  \/ \E oidc \in BOOLEAN : StartServer(oidc)
  \/ Ping \/ ChooseStore \/ DiscoveryFails \/ Serve
  \/ ReceiveRequest \/ AnswerRequest \/ OpenStream \/ ClientLeaves
  \/ Signal \/ ApiFails \/ MetricsFails \/ DeadlinePasses \/ Stops

MigrateStep == Outage \/ Recover \/ \E j \in Jobs : Migrates(j)

\* The two halves of the system share only the database's being up.
LEMMA Apart ==
  /\ Next <=> MigrateStep \/ ServerStep
  /\ MigrateStep => UNCHANGED serveVars
  /\ ServerStep => UNCHANGED <<up, migrateVars>>
<1>1. Next <=> MigrateStep \/ ServerStep
  BY DEF Next, MigrateStep, ServerStep
<1>2. MigrateStep => UNCHANGED serveVars
  BY DEF MigrateStep, Migrates, Outage, Recover, RunMigrate, Connect, OverrideDirty,
         CheckDirty, TakeLock, LockTimesOut, MarkDirty, RunBody, MarkClean, FinishMigrate,
         MisfitFails, Crash, ranOf
<1>3. ServerStep => UNCHANGED <<up, migrateVars>>
  BY DEF ServerStep, StartServer, Ping, ChooseStore, DiscoveryFails, Serve, ReceiveRequest,
         AnswerRequest, OpenStream, ClientLeaves, Signal, ApiFails, MetricsFails,
         DeadlinePasses, Stops, BeginShutdown, CloseBroker, ApiStopped, MetricsStopped,
         Exit, servedOf
<1> QED BY <1>1, <1>2, <1>3

\* The server's start, up to where it serves or gives up.
LEMMA StartupKeeps ==
  ASSUME ServerOK, DrainOK, up \in BOOLEAN,
         (\E oidc \in BOOLEAN : StartServer(oidc)) \/ Ping \/ ChooseStore \/ DiscoveryFails \/ Serve
  PROVE  ServerOK' /\ DrainOK'
<1> USE DEF ServerOK, Server
<1>1. ASSUME NEW oidc \in BOOLEAN, StartServer(oidc) PROVE ServerOK' /\ DrainOK'
  <2>1. server.at = "stopped" /\ UNCHANGED <<api, metrics, requests, streams, broker, arrivals>>
        /\ server' = [server EXCEPT !.at = "connect", !.oidc = oidc]
    BY <1>1 DEF StartServer
  <2>2. server' \in Server /\ server'.at = "connect" /\ server'.stop = server.stop
    BY <2>1
  <2> QED BY <2>1, <2>2 DEF DrainOK, Before, AllDrained
<1>2. CASE Ping
  <2>1. server.at = "connect" /\ UNCHANGED <<api, metrics, requests, streams, broker, arrivals>>
        /\ server' = [server EXCEPT !.at = "session", !.reachable = up]
    BY <1>2 DEF Ping
  <2>2. server' \in Server /\ server'.at = "session" /\ server'.stop = server.stop
    BY <2>1
  <2> QED BY <2>1, <2>2 DEF DrainOK, Before, AllDrained
<1>3. CASE ChooseStore
  <2>1. /\ server.at = "session" /\ UNCHANGED <<api, metrics, requests, streams, broker, arrivals>>
        /\ \/ server' = [server EXCEPT !.at = "exited"]
           \/ /\ server.oidc => server.reachable
              /\ server' = [server EXCEPT !.at = "auth",
                              !.store = IF server.reachable THEN "postgres" ELSE "memory"]
    BY <1>3 DEF ChooseStore
  <2>2. /\ server' \in Server /\ server'.at \in {"exited", "auth"} /\ server'.stop = server.stop
        /\ server'.oidc = server.oidc
        /\ server'.at = "auth" /\ server.oidc => server'.store = "postgres"
    BY <2>1
  <2>3. requests = 0 /\ streams = 0 /\ api # "listening" /\ server.stop = "hold"
    BY <2>1 DEF DrainOK, Before
  <2> QED BY <2>1, <2>2, <2>3 DEF DrainOK, AllDrained
<1>4. CASE DiscoveryFails
  <2>1. server.at = "auth" /\ UNCHANGED <<api, metrics, requests, streams, broker, arrivals>>
        /\ server' = [server EXCEPT !.at = "exited"]
    BY <1>4 DEF DiscoveryFails
  <2>2. server' \in Server /\ server'.at = "exited" /\ server'.stop = server.stop
    BY <2>1
  <2> QED BY <2>1, <2>2 DEF DrainOK, Before, AllDrained
<1>5. CASE Serve
  <2>1. server.at = "auth" /\ UNCHANGED <<requests, streams, arrivals>>
        /\ server' = [server EXCEPT !.at = "serving"]
        /\ api' = "listening" /\ metrics' = "listening" /\ broker' = TRUE
    BY <1>5 DEF Serve
  <2>2. /\ server' \in Server /\ server'.at = "serving" /\ server'.stop = server.stop
        /\ server'.oidc = server.oidc /\ server'.store = server.store
    BY <2>1
  <2> QED BY <2>1, <2>2 DEF DrainOK, Before, AllDrained
<1> QED BY <1>1, <1>2, <1>3, <1>4, <1>5

\* Traffic: what arrives, and what is over.
LEMMA TrafficKeeps ==
  ASSUME ServerOK, DrainOK, ReceiveRequest \/ AnswerRequest \/ OpenStream \/ ClientLeaves
  PROVE  ServerOK' /\ DrainOK'
<1>1. /\ UNCHANGED <<server, api, metrics, broker>>
      /\ \/ /\ api = "listening" /\ arrivals < MaxArrivals /\ arrivals' = arrivals + 1
            /\ \/ requests' = requests + 1 /\ streams' = streams
               \/ requests' = requests /\ streams' = streams + 1
         \/ /\ arrivals' = arrivals /\ server.at = "serving"
            /\ \/ requests > 0 /\ requests' = requests - 1 /\ streams' = streams
               \/ requests' = requests /\ streams > 0 /\ streams' = streams - 1
  BY DEF ReceiveRequest, AnswerRequest, OpenStream, ClientLeaves, Arrives
<1>2. requests \in Nat /\ streams \in Nat /\ arrivals \in 0..MaxArrivals
      /\ requests <= arrivals /\ streams <= arrivals /\ MaxArrivals \in Nat
  BY DeploymentAssumption DEF ServerOK
<1>3. /\ requests' \in Nat /\ streams' \in Nat /\ arrivals' \in 0..MaxArrivals
      /\ requests' <= arrivals' /\ streams' <= arrivals'
  BY <1>1, <1>2
<1>4. ServerOK'
  BY <1>1, <1>3 DEF ServerOK
<1>5. DrainOK'
  BY <1>1, <1>2 DEF DrainOK, AllDrained, Before
<1> QED BY <1>4, <1>5

\* The shutdown, from the signal or a failing server to the exit.
LEMMA ShutdownKeeps ==
  ASSUME ServerOK, DrainOK,
         Signal \/ ApiFails \/ MetricsFails \/ DeadlinePasses \/ Stops
  PROVE  ServerOK' /\ DrainOK'
<1> USE DEF ServerOK, Server
<1>1. CASE Signal \/ ApiFails \/ MetricsFails
  <2>1. /\ server' = [server EXCEPT !.ended = TRUE] /\ UNCHANGED <<requests, streams, broker, arrivals>>
        /\ api' \in {api, "failed"} /\ metrics' \in {metrics, "failed"}
    BY <1>1 DEF Signal, ApiFails, MetricsFails
  <2>2. /\ server' \in Server /\ server'.at = server.at /\ server'.stop = server.stop
        /\ server'.late = server.late /\ server'.oidc = server.oidc /\ server'.store = server.store
    BY <2>1
  <2> QED BY <2>1, <2>2 DEF DrainOK, Before, AllDrained
<1>2. CASE DeadlinePasses
  <2>1. server' = [server EXCEPT !.late = TRUE] /\ server.at = "serving"
        /\ UNCHANGED <<api, metrics, requests, streams, broker, arrivals>>
    BY <1>2 DEF DeadlinePasses
  <2>2. /\ server' \in Server /\ server'.at = server.at /\ server'.stop = server.stop
        /\ server'.late /\ server'.oidc = server.oidc /\ server'.store = server.store
    BY <2>1
  <2> QED BY <2>1, <2>2 DEF DrainOK, Before, AllDrained
<1>3. CASE BeginShutdown
  <2>1. /\ server' = [server EXCEPT !.stop = "api"] /\ server.at = "serving"
        /\ api' \in {"closed", api} /\ api' # "listening"
        /\ UNCHANGED <<metrics, requests, streams, broker, arrivals>>
    BY <1>3 DEF BeginShutdown
  <2>2. /\ server' \in Server /\ server'.at = server.at /\ server'.stop = "api"
        /\ server'.oidc = server.oidc /\ server'.store = server.store
    BY <2>1
  <2> QED BY <2>1, <2>2 DEF DrainOK, Before, AllDrained
<1>4. CASE CloseBroker
  <2>1. broker' = FALSE /\ UNCHANGED <<server, api, metrics, requests, streams, arrivals>>
    BY <1>4 DEF CloseBroker
  <2> QED BY <2>1 DEF DrainOK, Before, AllDrained
<1>5. CASE ApiStopped \/ MetricsStopped
  <2>1. /\ server.at = "serving" /\ server.stop # "hold"
        /\ server.stop = "metrics" \/ AllDrained
        /\ \E place \in {"metrics", "over"} : server' = [server EXCEPT !.stop = place]
        /\ metrics' \in {metrics, "closed"}
        /\ UNCHANGED <<api, requests, streams, broker, arrivals>>
    BY <1>5 DEF ApiStopped, MetricsStopped, AllDrained
  <2>2. /\ server' \in Server /\ server'.at = server.at /\ server'.stop \in {"metrics", "over"}
        /\ server'.late = server.late /\ server'.oidc = server.oidc /\ server'.store = server.store
    BY <2>1
  <2>3. AllDrained /\ api # "listening"
    BY <2>1 DEF DrainOK
  <2> QED BY <2>1, <2>2, <2>3 DEF DrainOK, Before, AllDrained
<1>6. CASE Exit
  <2>1. /\ server' = [server EXCEPT !.at = "exited"] /\ server.stop = "over" /\ api # "listening"
        /\ UNCHANGED <<api, metrics, requests, streams, broker, arrivals>>
    BY <1>6 DEF Exit
  <2>2. /\ server' \in Server /\ server'.at = "exited" /\ server'.stop = server.stop
        /\ server'.late = server.late
    BY <2>1
  <2> QED BY <2>1, <2>2 DEF DrainOK, Before, AllDrained
<1> QED BY <1>1, <1>2, <1>3, <1>4, <1>5, <1>6 DEF Stops

-----------------------------------------------------------------------------
(* The migrate jobs.                                                       *)

\* A command that goes on to its next place changes nothing else.
LEMMA GoesFacts ==
  ASSUME job \in [Jobs -> Job], NEW j \in Jobs, NEW place \in Places, Goes(j, place)
  PROVE  /\ job' \in [Jobs -> Job]
         /\ job'[j].at = place /\ job'[j].target = job[j].target
         /\ job'[j].forced = job[j].forced /\ job'[j].down = job[j].down
         /\ \A k \in Jobs : k # j => job'[k] = job[k]
<1> DEFINE x == [job[j] EXCEPT !.at = place]
<1>1. /\ x \in Job /\ x.at = place /\ x.target = job[j].target
      /\ x.forced = job[j].forced /\ x.down = job[j].down
  BY DEF Job, Places
<1>2. job' = [job EXCEPT ![j] = x]
  BY DEF Goes
<1> HIDE DEF x
<1> QED BY <1>1, <1>2

\* A job moves on without the lock and touches nothing.
Quiet(j) ==
  /\ job[j].at \in {"connect", "force", "check", "lock"}
  /\ \E place \in Places \ {"ready", "connect", "work", "body", "clean"} :
       Goes(j, place) /\ (place = "force" => Forcing(j))
  /\ UNCHANGED <<version, dirty, applied, holder, misled, up, outages>>

\* Steps that leave the schema alone keep the invariant.
LEMMA QuietKeeps ==
  ASSUME MigrateOK, SchemaOK, NEW j \in Jobs, Quiet(j)
  PROVE  MigrateOK' /\ SchemaOK'
<1>1. PICK place \in Places \ {"ready", "connect", "work", "body", "clean"} :
        Goes(j, place) /\ (place = "force" => Forcing(j))
  BY DEF Quiet
<1>2. /\ UNCHANGED <<version, dirty, applied, holder, misled, up, outages>>
      /\ job[j].at \in {"connect", "force", "check", "lock"} /\ ~Working(j)
  BY DEF Quiet, Working
<1>3. /\ job' \in [Jobs -> Job]
      /\ job'[j].at = place /\ job'[j].target = job[j].target
      /\ job'[j].forced = job[j].forced /\ job'[j].down = job[j].down
      /\ \A k \in Jobs : k # j => job'[k] = job[k]
  BY <1>1, GoesFacts DEF MigrateOK
<1>4. ~Working(j)' /\ \A k \in Jobs : Working(k)' <=> Working(k)
  BY <1>1, <1>2, <1>3 DEF Working
<1>5. \A k \in Jobs : OnItsWay(k)'
  BY <1>1, <1>2, <1>3, <1>4 DEF MigrateOK, OnItsWay, Forcing
<1>6. MigrateOK'
  BY <1>2, <1>3, <1>4, <1>5 DEF MigrateOK
<1>7. \A k \in Jobs : (Forcing(k)' => Forcing(k)) /\ job'[k].forced = job[k].forced
  BY <1>1, <1>3 DEF Forcing
<1>8. \A k \in Jobs : Working(k)' => UnderWay(k)' = UnderWay(k)
  <2> SUFFICES ASSUME NEW k \in Jobs, Working(k)' PROVE UnderWay(k)' = UnderWay(k)
    OBVIOUS
  <2>1. k # j
    BY <1>4
  <2> QED BY <1>2, <1>3, <2>1 DEF UnderWay, Body
<1>9. SchemaOK'
  BY <1>2, <1>4, <1>7, <1>8 DEF SchemaOK
<1> QED BY <1>6, <1>9

\* A job ends, in whatever way, and gives the lock back.
Ends(j) ==
  /\ \E place \in {"done", "failed"} : Goes(j, place)
  /\ holder' = IF holder = j THEN None ELSE holder
  /\ outages' \in 0..MaxOutages
  /\ UNCHANGED <<version, dirty, applied, misled, up>>

\* So does a command that ends.
LEMMA EndsKeeps ==
  ASSUME MigrateOK, SchemaOK, NEW j \in Jobs, Ends(j)
  PROVE  MigrateOK' /\ SchemaOK'
<1>1. PICK place \in {"done", "failed"} : Goes(j, place)
  BY DEF Ends
<1>2. /\ UNCHANGED <<version, dirty, applied, misled, up>>
      /\ holder' = IF holder = j THEN None ELSE holder
      /\ outages' \in 0..MaxOutages
  BY DEF Ends
<1>3. /\ job' \in [Jobs -> Job]
      /\ job'[j].at = place /\ job'[j].target = job[j].target /\ job'[j].down = job[j].down
      /\ \A k \in Jobs : k # j => job'[k] = job[k]
  BY <1>1, GoesFacts DEF MigrateOK, Places
<1>4. ~Working(j)' /\ \A k \in Jobs : k # j => (Working(k)' <=> Working(k))
  BY <1>1, <1>3 DEF Working
<1>5. \A k \in Jobs : (Working(k)' <=> holder' = k) /\ OnItsWay(k)'
  <2> SUFFICES ASSUME NEW k \in Jobs PROVE (Working(k)' <=> holder' = k) /\ OnItsWay(k)'
    OBVIOUS
  <2>1. CASE k = j
    <3>1. holder' # j
      BY <1>2, DeploymentAssumption
    <3>2. OnItsWay(j)'
      BY <1>1, <1>3, <1>4 DEF MigrateOK, OnItsWay
    <3> QED BY <1>4, <2>1, <3>1, <3>2
  <2>2. CASE k # j
    <3>1. holder' = k <=> holder = k
      BY <1>2, <2>2, DeploymentAssumption
    <3>2. OnItsWay(k)'
      BY <1>2, <1>3, <1>4, <2>2 DEF MigrateOK, OnItsWay
    <3> QED BY <1>4, <2>2, <3>1, <3>2 DEF MigrateOK
  <2> QED BY <2>1, <2>2
<1>6. MigrateOK'
  BY <1>2, <1>3, <1>5 DEF MigrateOK
<1>7. \A k \in Jobs : Forcing(k)' => Forcing(k) /\ k # j
  BY <1>1, <1>3 DEF Forcing
<1>8. \A k \in Jobs : k # j /\ Working(k) => UnderWay(k)' = UnderWay(k)
  BY <1>2, <1>3 DEF UnderWay, Body
<1>9. SchemaOK'
  <2> SUFFICES ASSUME ~misled PROVE SchemaOK'
    BY <1>2 DEF SchemaOK
  <2>1. \A k \in Jobs : Working(k)' => UnderWay(k)'
    BY <1>4, <1>8 DEF SchemaOK
  <2>2. \A k \in Jobs : Forcing(k)' => /\ dirty /\ holder' = None /\ applied = 1..job'[k].forced
                                       /\ \A n \in Jobs : Forcing(n)' => n = k
    <3> SUFFICES ASSUME NEW k \in Jobs, Forcing(k)'
                 PROVE  /\ dirty /\ holder' = None /\ applied = 1..job'[k].forced
                        /\ \A n \in Jobs : Forcing(n)' => n = k
      OBVIOUS
    <3>1. Forcing(k) /\ job'[k] = job[k]
      BY <1>3, <1>7
    <3> QED BY <1>2, <1>7, <3>1 DEF SchemaOK
  <2> QED BY <1>2, <2>1, <2>2 DEF SchemaOK
<1> QED BY <1>6, <1>9

\* What an operator finds: as many migrations as the schema has.
LEMMA ReachedFacts ==
  ASSUME MigrateOK
  PROVE  /\ Reached \in 0..Last
         /\ \A n \in Nat : applied = 1..n => Reached = n
<1>1. IsFiniteSet(1..Last) /\ Cardinality(1..Last) = Last
  <2>1. 1 \in Int /\ Last \in Int /\ Last >= 1
    BY DeploymentAssumption
  <2>2. IsFiniteSet(1..Last) /\ Cardinality(1..Last) = IF 1 > Last THEN 0 ELSE Last - 1 + 1
    BY <2>1, FS_Interval
  <2> QED BY <2>1, <2>2
<1>2. applied \in SUBSET (1..Last)
  BY DEF MigrateOK
<1>3. IsFiniteSet(applied) /\ Cardinality(applied) <= Last
  BY <1>1, <1>2, FS_Subset
<1>4. Reached \in 0..Last
  BY <1>3, FS_CardinalityType, DeploymentAssumption DEF Reached
<1>5. ASSUME NEW n \in Nat, applied = 1..n PROVE Reached = n
  BY <1>5, FS_Interval DEF Reached
<1> QED BY <1>4, <1>5

\* A command starts with a target and nothing done.
LEMMA RunMigrateKeeps ==
  ASSUME MigrateOK, SchemaOK, NEW j \in Jobs, NEW down \in BOOLEAN, NEW force \in BOOLEAN,
         NEW target \in Versions, target # 0, down => target = -1, RunMigrate(j, target, down, force)
  PROVE  MigrateOK' /\ SchemaOK'
<1> DEFINE x == [at |-> "connect", target |-> target, down |-> down,
                 forced |-> IF force THEN Reached ELSE -1]
<1>1. /\ job[j].at = "ready" /\ job' = [job EXCEPT ![j] = x]
      /\ force => dirty
      /\ misled' = (misled \/ (force /\ \E k \in Jobs : Running(k)))
      /\ UNCHANGED <<outages, version, dirty, applied, holder, up>>
  BY DEF RunMigrate, ranOf
<1>2. /\ x \in Job /\ x.at = "connect" /\ x.target = target /\ x.down = down
      /\ x.forced = IF force THEN Reached ELSE -1
  BY ReachedFacts, DeploymentAssumption DEF Job, Versions
<1> HIDE DEF x
<1>3. job' \in [Jobs -> Job] /\ job'[j] = x /\ \A k \in Jobs : k # j => job'[k] = job[k]
  BY <1>1, <1>2 DEF MigrateOK
<1>4. ~Working(j) /\ ~Working(j)' /\ \A k \in Jobs : Working(k)' <=> Working(k)
  BY <1>1, <1>2, <1>3 DEF Working
<1>5. \A k \in Jobs : OnItsWay(k)'
  BY <1>1, <1>2, <1>3, <1>4 DEF MigrateOK, OnItsWay
<1>6. misled' \in BOOLEAN
  BY <1>1 DEF MigrateOK
<1>7. MigrateOK'
  BY <1>1, <1>3, <1>4, <1>5, <1>6 DEF MigrateOK
<1>8. SchemaOK'
  <2> SUFFICES ASSUME ~misled' PROVE SchemaOK'
    BY DEF SchemaOK
  <2>1. ~misled /\ (force => \A k \in Jobs : ~Running(k))
    BY <1>1
  <2>2. \A k \in Jobs : Working(k)' => UnderWay(k)'
    <3> SUFFICES ASSUME NEW k \in Jobs, Working(k)' PROVE UnderWay(k)'
      OBVIOUS
    <3>1. Working(k) /\ job'[k] = job[k]
      BY <1>3, <1>4
    <3> QED BY <1>1, <2>1, <3>1 DEF SchemaOK, UnderWay, Body
  <2>3. \A k \in Jobs : Forcing(k)' => /\ dirty /\ holder' = None /\ applied = 1..job'[k].forced
                                       /\ \A n \in Jobs : Forcing(n)' => n = k
    <3>1. CASE force
      <4>1. \A k \in Jobs : ~Forcing(k) /\ ~Working(k)
        BY <2>1, <3>1 DEF Forcing, Running, Working
      <4>2. \A k \in Jobs : Forcing(k)' => k = j
        BY <1>3, <4>1 DEF Forcing
      <4>3. holder = None
        BY <4>1 DEF MigrateOK
      <4>4. applied = 1..job'[j].forced
        <5>1. PICK n \in 0..Last : applied = 1..n
          BY <2>1 DEF SchemaOK
        <5>2. Reached = n
          BY <5>1, ReachedFacts, DeploymentAssumption
        <5> QED BY <1>2, <1>3, <3>1, <5>1, <5>2
      <4> QED BY <1>1, <3>1, <4>2, <4>3, <4>4
    <3>2. CASE ~force
      <4>1. ~Forcing(j)'
        BY <1>2, <1>3, <3>2 DEF Forcing
      <4>2. \A k \in Jobs : Forcing(k)' => Forcing(k) /\ job'[k] = job[k]
        BY <1>3, <4>1 DEF Forcing
      <4> QED BY <1>1, <2>1, <4>2 DEF SchemaOK
    <3> QED BY <3>1, <3>2
  <2> QED BY <1>1, <2>1, <2>2, <2>3 DEF SchemaOK
<1> QED BY <1>7, <1>8

\* --force sets the version an operator has found, while no migration runs.
LEMMA ForceKeeps ==
  ASSUME MigrateOK, SchemaOK, NEW j \in Jobs, OverrideDirty(j), version # -1
  PROVE  MigrateOK' /\ SchemaOK'
<1>1. /\ job[j].at = "force" /\ holder = None /\ version' = job[j].forced /\ dirty' = FALSE
      /\ Goes(j, "check") /\ UNCHANGED <<outages, applied, holder, misled, up>>
  BY DEF OverrideDirty, ranOf
<1>2. /\ job' \in [Jobs -> Job] /\ job'[j].at = "check" /\ job'[j].target = job[j].target
      /\ job'[j].down = job[j].down
      /\ \A k \in Jobs : k # j => job'[k] = job[k]
  BY <1>1, GoesFacts DEF MigrateOK, Places
<1>3. \A k \in Jobs : ~Working(k) /\ ~Working(k)'
  <2>1. \A k \in Jobs : ~Working(k)
    BY <1>1, DeploymentAssumption DEF MigrateOK
  <2> QED BY <1>2, <2>1 DEF Working
<1>4. \A k \in Jobs : (Working(k)' <=> holder' = k) /\ OnItsWay(k)'
  <2> SUFFICES ASSUME NEW k \in Jobs PROVE (Working(k)' <=> holder' = k) /\ OnItsWay(k)'
    OBVIOUS
  <2>1. /\ job'[k].target # 0 /\ job'[k].at # "body"
        /\ job'[k].at = "force" => job'[k].forced >= 0
        /\ job'[k].at \in {"connect", "force", "check", "lock"} /\ job'[k].down => job'[k].target = -1
    BY <1>1, <1>2, <1>3 DEF MigrateOK, OnItsWay, Working
  <2>2. holder' # k
    BY <1>1, DeploymentAssumption
  <2> QED BY <1>3, <2>1, <2>2 DEF OnItsWay
<1>5. version' \in Versions
  BY <1>1 DEF MigrateOK, Job
<1>6. MigrateOK'
  BY <1>1, <1>2, <1>4, <1>5 DEF MigrateOK
<1>7. ASSUME ~misled
      PROVE  /\ \E n \in 0..Last : applied = 1..n
             /\ applied = 1..version'
             /\ \A k \in Jobs : ~Forcing(k)'
  <2>1. PICK n \in 0..Last : applied = 1..n
    BY <1>7 DEF SchemaOK
  <2>2. Forcing(j)
    BY <1>1 DEF Forcing, MigrateOK, OnItsWay
  <2>3. applied = 1..version' /\ \A k \in Jobs : Forcing(k) => k = j
    BY <1>1, <1>7, <2>2 DEF SchemaOK
  <2>4. \A k \in Jobs : ~Forcing(k)'
    BY <1>2, <2>3 DEF Forcing
  <2> QED BY <2>1, <2>3, <2>4
<1>8. SchemaOK'
  BY <1>1, <1>3, <1>7 DEF SchemaOK
<1> QED BY <1>6, <1>8

\* A job that works, on its way to the next place of its loop: the lock is its own
\* before and after, and what the migration has come to is as recorded.
Works(j) ==
  /\ holder \in {None, j} /\ holder' = j
  /\ job' \in [Jobs -> Job] /\ \A k \in Jobs : k # j => job'[k] = job[k]
  /\ job'[j].at \in {"work", "body", "clean"}
  /\ UNCHANGED <<up, outages, misled>>
  /\ dirty' \in BOOLEAN /\ version' \in Versions /\ applied' \subseteq 1..Last
  /\ OnItsWay(j)'
  /\ ~misled => /\ UnderWay(j)'
                /\ \E n \in 0..Last : applied' = 1..n
                /\ ~dirty' => applied' = 1..version'
                /\ holder = None => ~dirty

\* Whatever has the effects collected in Works keeps the invariant; the four lemmas
\* below find them in the steps of a migration.
LEMMA WorksKeeps ==
  ASSUME MigrateOK, SchemaOK, NEW j \in Jobs, Works(j)
  PROVE  MigrateOK' /\ SchemaOK'
<1>1. j # None
  BY DeploymentAssumption
<1>2. \A k \in Jobs : k # j => ~Working(k) /\ ~Working(k)' /\ job'[k] = job[k]
  BY <1>1, DeploymentAssumption DEF Works, MigrateOK, Working
<1>3. Working(j)'
  BY DEF Works, Working
<1>4. \A k \in Jobs : (Working(k)' <=> holder' = k) /\ OnItsWay(k)'
  <2> SUFFICES ASSUME NEW k \in Jobs, k # j PROVE (Working(k)' <=> holder' = k) /\ OnItsWay(k)'
    BY <1>3 DEF Works
  <2>1. OnItsWay(k) /\ job'[k] = job[k] /\ ~Working(k)' /\ ~Working(k)
    BY <1>2 DEF MigrateOK
  <2>2. OnItsWay(k)'
    BY <2>1 DEF OnItsWay, Working
  <2> QED BY <2>1, <2>2 DEF Works
<1>5. MigrateOK'
  BY <1>4 DEF Works, MigrateOK
<1>6. SchemaOK'
  <2> SUFFICES ASSUME ~misled PROVE SchemaOK'
    BY DEF Works, SchemaOK
  <2>1. \A k \in Jobs : Working(k)' => UnderWay(k)'
    BY <1>2 DEF Works
  <2>2. \A k \in Jobs : ~Forcing(k)'
    <3>1. \A k \in Jobs : ~Forcing(k)
      BY <1>1 DEF Works, SchemaOK
    <3> QED BY <3>1 DEF Works, Forcing
  <2> QED BY <2>1, <2>2 DEF Works, SchemaOK
<1> QED BY <1>5, <1>6

\* The lock goes to one command at a time.
LEMMA TakeLockWorks ==
  ASSUME MigrateOK, SchemaOK, NEW j \in Jobs, TakeLock(j), ~dirty
  PROVE  Works(j)
<1>1. /\ job[j].at = "lock" /\ holder = None /\ holder' = j /\ Goes(j, "work")
      /\ UNCHANGED <<outages, version, dirty, applied, misled, up>>
  BY DEF TakeLock, ranOf
<1>2. /\ job' \in [Jobs -> Job] /\ job'[j].at = "work" /\ job'[j].target = job[j].target
      /\ job'[j].down = job[j].down
      /\ \A k \in Jobs : k # j => job'[k] = job[k]
  BY <1>1, GoesFacts DEF MigrateOK, Places
<1>3. dirty' \in BOOLEAN /\ version' \in Versions /\ applied' \subseteq 1..Last
  BY <1>1 DEF MigrateOK
<1>4. OnItsWay(j)'
  <2>1. OnItsWay(j) /\ version \in Versions
    BY DEF MigrateOK
  <2> QED BY <1>1, <1>2, <2>1 DEF OnItsWay, Versions
<1>5. ASSUME ~misled
      PROVE  UnderWay(j)' /\ (\E n \in 0..Last : applied' = 1..n) /\ applied' = 1..version'
  BY <1>1, <1>2, <1>5 DEF SchemaOK, UnderWay
<1> QED BY <1>1, <1>2, <1>3, <1>4, <1>5 DEF Works

\* The version is written, dirty, before the migration runs.
LEMMA MarkDirtyWorks ==
  ASSUME MigrateOK, SchemaOK, NEW j \in Jobs, MarkDirty(j)
  PROVE  Works(j)
<1> DEFINE x == [job[j] EXCEPT !.at = "body", !.down = ~Upward(j)]
<1>1. /\ job[j].at = "work" /\ version # job[j].target /\ version # 0
      /\ version' = IF ~Upward(j) THEN Below(version) ELSE IF version = -1 THEN 1 ELSE version + 1
      /\ dirty' = TRUE /\ job' = [job EXCEPT ![j] = x]
      /\ UNCHANGED <<outages, applied, holder, misled, up>>
  BY DEF MarkDirty, ranOf
<1>2. /\ job[j] \in Job /\ OnItsWay(j) /\ version \in Versions /\ holder = j
      /\ applied \subseteq 1..Last
  BY <1>1 DEF MigrateOK, Working
<1>3. /\ x \in Job /\ x.at = "body" /\ x.target = job[j].target
      /\ x.down = ~Upward(j) /\ (Upward(j) => x.down = FALSE)
  BY <1>2 DEF Job, Upward
<1> HIDE DEF x
<1>4. job' \in [Jobs -> Job] /\ job'[j] = x /\ \A k \in Jobs : k # j => job'[k] = job[k]
  BY <1>1, <1>3 DEF MigrateOK
<1>5. job[j].target \in Versions /\ job[j].target # 0
      /\ (job[j].down => version >= job[j].target)
  BY <1>1, <1>2 DEF OnItsWay, Working, Job
<1>8. ~misled => \E n \in 0..Last : applied' = 1..n
  BY <1>1 DEF SchemaOK
<1>6. CASE Upward(j)
  <2>1. version < job[j].target /\ version' = IF version = -1 THEN 1 ELSE version + 1
    BY <1>1, <1>6 DEF Upward
  <2>2. version' \in 1..Last
    BY <1>1, <1>2, <1>5, <2>1, DeploymentAssumption DEF Versions
  <2>3. OnItsWay(j)'
    <3>1. job'[j].at = "body" /\ ~job'[j].down /\ job'[j].target # 0 /\ version' >= 1
      BY <1>3, <1>4, <1>5, <1>6, <2>2
    <3> QED BY <3>1 DEF OnItsWay
  <2>4. 1..(version' - 1) = 1..version
    BY <1>1, <1>2, <2>1 DEF Versions
  <2>5. ~misled => UnderWay(j)'
    BY <1>1, <1>3, <1>4, <1>6, <1>2, <2>4 DEF UnderWay, SchemaOK, Body, Working
  <2> QED BY <1>1, <1>2, <1>3, <1>4, <1>8, <2>2, <2>3, <2>5, DeploymentAssumption DEF Works, Versions
<1>7. CASE ~Upward(j)
  <2>1. version > job[j].target /\ version \in 1..Last
    BY <1>1, <1>2, <1>5, <1>7, DeploymentAssumption DEF Upward, Versions
  <2>2. version' = IF version = 1 THEN -1 ELSE version - 1
    BY <1>1, <1>7 DEF Below
  <2>3. version' \in Versions /\ version' >= job[j].target
        /\ (IF version' = -1 THEN 1 ELSE version' + 1) = version
    BY <1>5, <2>1, <2>2, DeploymentAssumption DEF Versions
  <2>4. OnItsWay(j)'
    BY <1>3, <1>4, <1>5, <1>7, <2>3 DEF OnItsWay
  <2>5. ~misled => UnderWay(j)'
    <3>1. Body(j)' = version
      BY <1>3, <1>4, <1>7, <2>3 DEF Body
    <3> QED BY <1>1, <1>3, <1>4, <1>7, <1>2, <3>1 DEF UnderWay, SchemaOK, Working
  <2> QED BY <1>1, <1>2, <1>3, <1>4, <1>8, <2>3, <2>4, <2>5, DeploymentAssumption DEF Works
<1> QED BY <1>6, <1>7

\* The migration runs, or fails.
LEMMA RunBodyWorks ==
  ASSUME MigrateOK, SchemaOK, NEW j \in Jobs, RunBody(j)
  PROVE  Works(j)
<1>1. /\ job[j].at = "body" /\ Fits(j) /\ Goes(j, "clean")
      /\ applied' = IF job[j].down THEN applied \ {Body(j)} ELSE applied \cup {Body(j)}
      /\ UNCHANGED <<outages, version, dirty, holder, misled, up>>
  BY DEF RunBody, ranOf
<1>2. /\ job' \in [Jobs -> Job] /\ job'[j].at = "clean" /\ job'[j].target = job[j].target
      /\ job'[j].down = job[j].down
      /\ \A k \in Jobs : k # j => job'[k] = job[k]
  BY <1>1, GoesFacts DEF MigrateOK, Places
<1>3. /\ OnItsWay(j) /\ version \in Versions /\ holder = j /\ applied \subseteq 1..Last
      /\ job[j].down \in BOOLEAN
  BY <1>1 DEF MigrateOK, Working, Job
<1>4. OnItsWay(j)'
  BY <1>1, <1>2, <1>3 DEF OnItsWay, Working
<1>5. applied' \subseteq 1..Last
  <2>1. ~job[j].down => Body(j) \in 1..Last
    BY <1>1, <1>3, DeploymentAssumption DEF Body, OnItsWay, Versions
  <2> QED BY <1>1, <1>3, <2>1
<1>6. ASSUME ~misled PROVE dirty /\ applied' = 1..version
  <2>1. UnderWay(j)
    BY <1>1, <1>6 DEF SchemaOK, Working
  <2>2. CASE job[j].down
    <3>1. applied' = (1..Body(j)) \ {Body(j)} /\ Body(j) = IF version = -1 THEN 1 ELSE version + 1
      BY <1>1, <2>1, <2>2 DEF UnderWay, Body
    <3>2. \A n : n \in applied' <=> n \in 1..version
      BY <1>3, <3>1 DEF Versions
    <3> QED BY <1>1, <2>1, <3>2 DEF UnderWay
  <2>3. CASE ~job[j].down
    <3>1. applied' = (1..(version - 1)) \cup {version} /\ version >= 1
      BY <1>1, <1>3, <2>1, <2>3 DEF UnderWay, Body, OnItsWay
    <3>2. \A n : n \in applied' <=> n \in 1..version
      BY <1>3, <3>1 DEF Versions
    <3> QED BY <1>1, <2>1, <3>2 DEF UnderWay
  <2> QED BY <2>2, <2>3
<1>7. ASSUME ~misled PROVE \E n \in 0..Last : applied' = 1..n
  <2>1. CASE version = -1
    <3>1. applied' = 1..0
      BY <1>6, <1>7, <2>1
    <3> QED BY <3>1, DeploymentAssumption
  <2>2. CASE version # -1
    BY <1>3, <1>6, <1>7, <2>2 DEF Versions
  <2> QED BY <2>1, <2>2
<1>8. ~misled => UnderWay(j)'
  BY <1>1, <1>2, <1>6 DEF UnderWay
<1> QED BY <1>1, <1>2, <1>3, <1>4, <1>5, <1>6, <1>7, <1>8, DeploymentAssumption DEF Works, MigrateOK

\* ... and the mark is taken off.
LEMMA MarkCleanWorks ==
  ASSUME MigrateOK, SchemaOK, NEW j \in Jobs, MarkClean(j)
  PROVE  Works(j)
<1>1. /\ job[j].at = "clean" /\ dirty' = FALSE /\ Goes(j, "work")
      /\ UNCHANGED <<outages, version, applied, holder, misled, up>>
  BY DEF MarkClean, ranOf
<1>2. /\ job' \in [Jobs -> Job] /\ job'[j].at = "work" /\ job'[j].target = job[j].target
      /\ job'[j].down = job[j].down
      /\ \A k \in Jobs : k # j => job'[k] = job[k]
  BY <1>1, GoesFacts DEF MigrateOK, Places
<1>3. OnItsWay(j) /\ version \in Versions /\ holder = j /\ applied \subseteq 1..Last
  BY <1>1 DEF MigrateOK, Working
<1>4. OnItsWay(j)'
  BY <1>1, <1>2, <1>3 DEF OnItsWay, Working
<1>5. ASSUME ~misled PROVE applied = 1..version /\ \E n \in 0..Last : applied = 1..n
  BY <1>1, <1>5 DEF SchemaOK, UnderWay, Working
<1>6. UnderWay(j)'
  BY <1>1, <1>2 DEF UnderWay
<1> QED BY <1>1, <1>2, <1>3, <1>4, <1>5, <1>6, DeploymentAssumption DEF Works

-----------------------------------------------------------------------------
(* The invariants of the specification.                                    *)

\* The steps of a migration.
LEMMA MigratesKeeps ==
  ASSUME MigrateOK, SchemaOK, NEW j \in Jobs, Migrates(j)
  PROVE  MigrateOK' /\ SchemaOK'
<1>1. CASE \E target \in 1..Last, force \in BOOLEAN : RunMigrate(j, target, FALSE, force)
  <2>1. PICK target \in 1..Last, force \in BOOLEAN : RunMigrate(j, target, FALSE, force)
    BY <1>1
  <2>2. target \in Versions /\ target # 0
    BY DeploymentAssumption DEF Versions
  <2> QED BY <2>1, <2>2, RunMigrateKeeps
<1>2. CASE RunMigrate(j, -1, TRUE, FALSE)
  <2>1. -1 \in Versions /\ -1 # 0
    BY DeploymentAssumption DEF Versions
  <2> QED BY <1>2, <2>1, RunMigrateKeeps
<1>3. CASE Connect(j) \/ CheckDirty(j) \/ LockTimesOut(j) \/ (OverrideDirty(j) /\ version = -1)
             \/ (TakeLock(j) /\ dirty)
  <2>1. CASE Connect(j)
    <3>1. PICK place \in {"failed", "force", "check"} :
            Goes(j, place) /\ (place = "force" => job[j].forced >= 0)
      BY <2>1 DEF Connect
    <3>2. Quiet(j)
      BY <2>1, <3>1 DEF Connect, Quiet, Forcing, Places, ranOf
    <3> QED BY <3>2, QuietKeeps
  <2>2. CASE CheckDirty(j) \/ LockTimesOut(j) \/ (OverrideDirty(j) /\ version = -1)
               \/ (TakeLock(j) /\ dirty)
    <3>1. /\ job[j].at \in {"connect", "force", "check", "lock"}
          /\ Goes(j, "failed") \/ Goes(j, "lock")
          /\ UNCHANGED <<version, dirty, applied, holder, misled, up, outages>>
      BY <2>2 DEF CheckDirty, LockTimesOut, OverrideDirty, TakeLock, ranOf
    <3>2. Quiet(j)
      BY <3>1 DEF Quiet, Places
    <3> QED BY <3>2, QuietKeeps
  <2> QED BY <1>3, <2>1, <2>2
<1>4. CASE OverrideDirty(j) /\ version # -1
  BY <1>4, ForceKeeps
<1>5. CASE (TakeLock(j) /\ ~dirty) \/ MarkDirty(j) \/ RunBody(j) \/ MarkClean(j)
  BY <1>5, TakeLockWorks, MarkDirtyWorks, RunBodyWorks, MarkCleanWorks, WorksKeeps
<1>6. CASE FinishMigrate(j) \/ MisfitFails(j) \/ Crash(j)
  <2>1. outages' \in 0..MaxOutages
    BY <1>6, Bounds DEF FinishMigrate, MisfitFails, Crash
  <2>2. /\ Goes(j, "done") \/ Goes(j, "failed")
        /\ holder' = IF holder = j THEN None ELSE holder
    <3>1. CASE FinishMigrate(j)
      <4>1. holder = j
        BY <3>1 DEF FinishMigrate, MigrateOK, Working
      <4> QED BY <3>1, <4>1 DEF FinishMigrate
    <3> QED BY <1>6, <3>1 DEF MisfitFails, Crash, Dies
  <2>3. UNCHANGED <<version, dirty, applied, misled, up>>
    BY <1>6 DEF FinishMigrate, MisfitFails, Crash, ranOf
  <2> QED BY <2>1, <2>2, <2>3, EndsKeeps DEF Ends
<1> QED
  BY <1>1, <1>2, <1>3, <1>4, <1>5, <1>6 DEF Migrates

DeploymentInv == MigrateOK /\ SchemaOK /\ ServerOK /\ DrainOK

\* The invariant from which the safety properties follow is inductive.
THEOREM DeploymentSafe == Spec => []DeploymentInv
<1>1. Init => DeploymentInv
  <2> SUFFICES ASSUME Init PROVE DeploymentInv
    OBVIOUS
  <2>1. version = -1 /\ applied = {} /\ -1 \in Versions /\ 1..(-1) = {} /\ 1..0 = {} /\ 0 \in 0..Last
    BY DeploymentAssumption DEF Init, Versions
  <2>2. job \in [Jobs -> Job] /\ \A j \in Jobs : job[j].at = "ready" /\ job[j].target = -1
    BY <2>1 DEF Init, Job
  <2>3. \A j \in Jobs : ~Working(j) /\ ~Forcing(j) /\ OnItsWay(j) /\ holder # j
    BY <2>2, DeploymentAssumption DEF Working, Forcing, OnItsWay, Init
  <2>4. MigrateOK
    <3>1. holder = None /\ outages = 0 /\ up = TRUE /\ dirty = FALSE /\ misled = FALSE
      BY DEF Init
    <3>2. outages \in 0..MaxOutages
      BY <3>1, Bounds
    <3> QED BY <2>1, <2>2, <2>3, <3>1, <3>2 DEF MigrateOK
  <2>5. SchemaOK
    BY <2>1, <2>3 DEF Init, SchemaOK
  <2>6. ServerOK
    <3>1. server \in Server /\ server.at = "stopped"
      BY DEF Init, Server
    <3>2. 0 \in 0..MaxArrivals
      BY Bounds
    <3>3. /\ broker = FALSE /\ api = "closed" /\ metrics = "closed"
          /\ requests = 0 /\ streams = 0 /\ arrivals = 0
      BY DEF Init
    <3>4. {api, metrics} \subseteq {"closed", "listening", "failed"} /\ broker \in BOOLEAN
      BY <3>3
    <3>5. requests \in Nat /\ streams \in Nat /\ requests <= arrivals /\ streams <= arrivals
      BY <3>3
    <3>6. arrivals \in 0..MaxArrivals
      BY <3>2, <3>3
    <3>7. ~(server.at \in {"auth", "serving"} /\ server.oidc)
      BY <3>1
    <3> QED BY <3>1, <3>4, <3>5, <3>6, <3>7 DEF ServerOK
  <2>7. DrainOK
    BY DEF Init, DrainOK, AllDrained, Before
  <2> QED BY <2>4, <2>5, <2>6, <2>7 DEF DeploymentInv
<1>2. DeploymentInv /\ [Next]_vars => DeploymentInv'
  <2> SUFFICES ASSUME DeploymentInv, [Next]_vars PROVE DeploymentInv'
    OBVIOUS
  <2> USE DEF DeploymentInv
  <2>1. ASSUME UNCHANGED serveVars PROVE ServerOK' /\ DrainOK'
    BY <2>1 DEF serveVars, ServerOK, DrainOK, AllDrained
  <2>2. ASSUME UNCHANGED migrateVars, up' \in BOOLEAN, outages' \in 0..MaxOutages
        PROVE  MigrateOK' /\ SchemaOK'
    <3>1. UNCHANGED <<version, dirty, applied, holder, job, misled>>
      BY <2>2 DEF migrateVars
    <3>2. \A j \in Jobs : /\ Working(j)' = Working(j) /\ OnItsWay(j)' = OnItsWay(j)
                          /\ Forcing(j)' = Forcing(j) /\ UnderWay(j)' = UnderWay(j)
      BY <3>1 DEF Working, OnItsWay, Forcing, UnderWay, Body
    <3>3. MigrateOK'
      BY <2>2, <3>1, <3>2 DEF MigrateOK
    <3>4. SchemaOK'
      BY <3>1, <3>2 DEF SchemaOK
    <3> QED BY <3>3, <3>4
  <2>3. CASE Outage \/ Recover
    <3>1. /\ UNCHANGED <<migrateVars, serveVars>> /\ up' \in BOOLEAN
          /\ outages' \in 0..MaxOutages
      BY <2>3, Bounds DEF Outage, Recover
    <3> QED BY <2>1, <2>2, <3>1
  <2>4. ASSUME NEW j \in Jobs, Migrates(j) PROVE DeploymentInv'
    <3>1. UNCHANGED serveVars
      BY <2>4, Apart DEF MigrateStep
    <3> QED BY <2>1, <2>4, <3>1, MigratesKeeps
  <2>5. CASE ServerStep
    <3>1. UNCHANGED <<up, migrateVars>> /\ up \in BOOLEAN
      BY <2>5, Apart DEF MigrateOK
    <3>2. Breaks \/ UNCHANGED outages
      BY <2>5
         DEF ServerStep, StartServer, Ping, ChooseStore, DiscoveryFails, Serve, ReceiveRequest,
             AnswerRequest, OpenStream, ClientLeaves, Signal, ApiFails, MetricsFails,
             DeadlinePasses, Stops, BeginShutdown, CloseBroker, ApiStopped, MetricsStopped,
             Exit
    <3>3. MigrateOK' /\ SchemaOK'
      BY <2>2, <3>1, <3>2, Bounds
    <3>4. ServerOK' /\ DrainOK'
      BY <2>5, <3>1, StartupKeeps, TrafficKeeps, ShutdownKeeps DEF ServerStep
    <3> QED BY <3>3, <3>4
  <2>6. CASE UNCHANGED vars
    <3>1. UNCHANGED <<migrateVars, serveVars>> /\ up' \in BOOLEAN /\ outages' \in 0..MaxOutages
      BY <2>6 DEF vars, MigrateOK
    <3> QED BY <2>1, <2>2, <3>1
  <2> QED BY <2>3, <2>4, <2>5, <2>6, Apart DEF MigrateStep
<1> QED
  BY <1>1, <1>2, PTL DEF Spec

\* Only the job with the lock works on the schema, and SSO is served with durable
\* sessions only (TypeOK).
THEOREM DeploymentTypes == Spec => []TypeOK
<1>1. DeploymentInv => TypeOK
  <2> SUFFICES ASSUME DeploymentInv PROVE TypeOK
    OBVIOUS
  <2>1. requests \in 0..MaxArrivals /\ streams \in 0..MaxArrivals
    BY DeploymentAssumption DEF DeploymentInv, ServerOK
  <2> QED BY <2>1 DEF DeploymentInv, MigrateOK, ServerOK, TypeOK
<1> QED BY <1>1, DeploymentSafe, PTL

\* Across crashes at any point, jobs that run into each other and forced versions,
\* a clean version is the schema's unless an operator was misled (SchemaAsRecorded).
THEOREM VersionIsSchema == Spec => []SchemaAsRecorded
<1>1. DeploymentInv => SchemaAsRecorded
  BY DEF DeploymentInv, SchemaOK, SchemaAsRecorded
<1> QED BY <1>1, DeploymentSafe, PTL

\* The process outlives whatever is in flight, or its deadline (DrainsBeforeExit).
THEOREM ExitIsDrained == Spec => []DrainsBeforeExit
<1>1. DeploymentInv => DrainsBeforeExit
  BY DEF DeploymentInv, DrainOK, AllDrained, DrainsBeforeExit
<1> QED BY <1>1, DeploymentSafe, PTL
=============================================================================
