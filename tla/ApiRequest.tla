------------------------------ MODULE ApiRequest ------------------------------
(***************************************************************************)
(* A request to /api/v1 on its way through the server: the session         *)
(* middleware, Recover, MaxBody, the router, the binding of path           *)
(* parameters, metrics and Logging, the OpenAPI validator, RequireAuth and *)
(* the handler (ports/rest), then the rules of the domain (lists.go,       *)
(* service.go), and back out.  ListStore models the statements that        *)
(* follow; here a call of the repository is what it is given and how it    *)
(* ends.  Session manager, router and validator are libraries.             *)
(***************************************************************************)
EXTENDS Integers, Sequences, FiniteSets

CONSTANTS
  Requests,
  Asked,       \* what the clients ask for
  Bodies,      \* the fields of the JSON objects they send
  Tokens,      \* the strings they may send for a unit
  None, Null,  \* an absent field or value; a JSON null
  MaxName, MaxNote, SuffixLen, MaxInt32,
  MaxOutages   \* bound: outages of the database

\* Text is counted: runes once trimmed, and blanks around them.
Text == [runes: Nat, blanks: Nat]
Fields == [name: Text \cup {None}, quantity: Int \cup {None},
           unit: Tokens \cup {None}, note: Text \cup {None, Null}]
NoFields == [name |-> None, quantity |-> None, unit |-> None, note |-> None]

Reads == {"GetHealth", "ListLists", "GetList", "GetMe"}
Named == {"CreateList", "RenameList", "CopyList"}
WithBody == Named \cup {"AddItem", "UpdateItem"}
ItemSteps == {"DeleteItem", "CheckItem", "UncheckItem", "RestoreItem"}
Mutations == WithBody \cup ItemSteps \cup {"DeleteList"}
Operations == Reads \cup Mutations
Elsewhere == {"streamEvents", "unknown path", "wrong method"}

\* The operations that record who did it.
Attributed == {"CreateList", "CopyList", "AddItem", "CheckItem", "UncheckItem"}
WithIds == Operations \ {"GetHealth", "ListLists", "GetMe", "CreateList"}

\* Two units stand for the twelve.
Units == {"amount", "kg"}

ASSUME ApiRequestAssumption ==
  /\ IsFiniteSet(Requests)
  /\ Asked \subseteq Operations \cup Elsewhere
  /\ {MaxName, MaxNote, SuffixLen, MaxInt32} \subseteq Nat \ {0}
  /\ SuffixLen < MaxName
  /\ MaxOutages \in Nat
  /\ None # Null /\ None \notin Text \cup Int \cup Tokens \cup Fields /\ Null \notin Text
  /\ Bodies \subseteq Fields /\ Units \cup {""} \subseteq Tokens

VARIABLES
  setup,     \* the mode: dev-auth or not, sessions in Postgres or not
  up,        \* the database answers
  outages,
  request,
  inFlight   \* the gauge of the metrics middleware

apiVars == <<setup, up, outages, request, inFlight>>

-----------------------------------------------------------------------------
(* The rules of the domain.                                                *)

Trimmed(t) == [t EXCEPT !.blanks = 0]
AsString(t) == IF t = None THEN [runes |-> 0, blanks |-> 0] ELSE t

\* Faulty: the bound is taken for the first length refused.
ValidName_TooShort(t) == t.runes \in 1..(MaxName - 1)

ValidName(t) == t.runes \in 1..MaxName

ValidUnit(u) == u \in Units \cup {""}
CleanUnit(u) == IF u = "" THEN "amount" ELSE u

ValidQuantity(n) == n = 0 \/ n >= 1
NormalQuantity(n) == IF n = 0 THEN 1 ELSE n

HasNote(n) == n \notin {None, Null} /\ n.runes > 0
ValidNote(n) == HasNote(n) => n.runes <= MaxNote
CleanNote(n) == IF HasNote(n) THEN Trimmed(n) ELSE Null

\* Faulty: a long name is not cut.
CopyListName_Uncut(original) == {[original EXCEPT !.runes = @ + SuffixLen]}

\* The cut may fall behind blanks inside the name; they go too.
CopyListName(original) ==
  IF original.runes + SuffixLen <= MaxName
  THEN {[original EXCEPT !.runes = @ + SuffixLen]}
  ELSE {[original EXCEPT !.runes = n + SuffixLen] : n \in 1..(MaxName - SuffixLen)}

\* What the methods of Service accept of a body.
AddItemAccepts(b) ==
  /\ ValidName(AsString(b.name))
  /\ b.quantity # None => ValidQuantity(b.quantity)
  /\ b.unit # None => ValidUnit(b.unit)
  /\ ValidNote(b.note)

UpdateItemAccepts(b) ==
  /\ b.name # None => ValidName(b.name)
  /\ b.quantity # None => b.quantity >= 1
  /\ b.unit # None => ValidUnit(b.unit)
  /\ ValidNote(b.note)

Accepts(op, b) ==
  CASE op \in {"CreateList", "RenameList"} -> ValidName(AsString(b.name))
    [] op = "CopyList" -> AsString(b.name) = AsString(None) \/ ValidName(b.name)
    [] op = "AddItem" -> AddItemAccepts(b)
    [] op = "UpdateItem" -> UpdateItemAccepts(b)
    [] OTHER -> TRUE

\* ... and what they then give the repository.
AddItemGives(b) ==
  [name |-> Trimmed(b.name),
   quantity |-> NormalQuantity(IF b.quantity = None THEN 0 ELSE b.quantity),
   unit |-> CleanUnit(IF b.unit = None THEN "" ELSE b.unit),
   note |-> IF HasNote(b.note) THEN Trimmed(b.note) ELSE None]

UpdateItemGives(b) ==
  [name |-> IF b.name = None THEN None ELSE Trimmed(b.name),
   quantity |-> b.quantity,
   unit |-> IF b.unit = None THEN None ELSE CleanUnit(b.unit),
   note |-> IF b.note = None THEN None ELSE CleanNote(b.note)]

\* A copy nobody has named gets a name derived from the original's.
Derived(op, b) == op = "CopyList" /\ AsString(b.name) = AsString(None)

Gives(op, b) ==
  CASE Derived(op, b) ->
         {[NoFields EXCEPT !.name = t] :
            t \in UNION {CopyListName([runes |-> n, blanks |-> 0]) : n \in 1..MaxName}}
    [] op \in Named /\ ~Derived(op, b) -> {[NoFields EXCEPT !.name = Trimmed(b.name)]}
    [] op = "AddItem" -> {AddItemGives(b)}
    [] op = "UpdateItem" -> {UpdateItemGives(b)}
    [] OTHER -> {NoFields}

-----------------------------------------------------------------------------
(* The OpenAPI document, as the validator applies it.                      *)

Long(t) == t.runes + t.blanks
SpecName(t) == Long(t) \in 1..MaxName

SpecAllows(op, b) ==
  /\ IF b.name = None THEN op \in {"CopyList", "UpdateItem"} ELSE SpecName(b.name)
  /\ op \notin Named =>
       /\ b.quantity = None \/ b.quantity \in 1..MaxInt32
       /\ b.unit = None \/ b.unit \in Units
       /\ b.note \in {None, Null} \/ Long(b.note) <= MaxNote

\* The library writes the document's defaults into the body that passes.
WithDefaults(op, b) ==
  [b EXCEPT !.quantity = IF op = "AddItem" /\ @ = None THEN 1 ELSE @,
            !.unit = IF op \in {"AddItem", "UpdateItem"} /\ @ = None THEN "amount" ELSE @]

\* A body is read where the document declares one, and a body over the cap
\* cannot be read to its end.
Passes_Unread(i) ==
  i.op \in WithBody =>
    /\ i.form # "broken"
    /\ i.form = "none" => i.op = "CopyList"
    /\ i.form = "object" => SpecAllows(i.op, i.body)

PassesSpec(i) == Passes_Unread(i) /\ (i.op \in WithBody => i.size # "hidden")

-----------------------------------------------------------------------------
(* Requests.                                                               *)

\* form "none" is no body, size "hidden" one over the cap whose length is not
\* declared; ids says whether the identifiers in the path are UUIDs.
Input == [op: Operations \cup Elsewhere, ids: BOOLEAN, cookie: {"none", "live", "stale"},
          size: {"fits", "declared", "hidden"}, form: {"none", "broken", "object"},
          body: Fields]

\* A body nobody reads is left out, and so are fields nobody looks at.
Inputs ==
  {i \in [op: Asked, ids: BOOLEAN, cookie: {"none", "live", "stale"},
          size: {"fits", "declared", "hidden"}, form: {"none", "broken", "object"},
          body: Bodies \cup {NoFields}] :
     /\ i.op \in WithIds \/ i.ids
     /\ i.op \in WithBody \/ i.form = "none"
     /\ i.form = "object" \/ i.body = NoFields
     /\ i.op \in Named => i.body = [NoFields EXCEPT !.name = i.body.name]}

NoInput == [op |-> "unknown path", ids |-> TRUE, cookie |-> "none", size |-> "fits",
            form |-> "none", body |-> NoFields]

Observed == {"validate", "guard", "handle", "source", "serve", "publish", "leave"}
Places == Observed \cup
  {"idle", "session", "cap", "route", "bind", "observe", "stream", "panicking", "done", "aborted"}

\* answers holds the status of every response header the code writes; wrote is
\* what Recover's writer has seen of it.
Request == [at: Places, in: Input, body: Fields, user: {"nobody", "member", "devUser"},
            given: Fields \cup {None}, published: BOOLEAN, logged: BOOLEAN,
            wrote: BOOLEAN, answers: Seq(Nat)]
Idle == [at |-> "idle", in |-> NoInput, body |-> NoFields, user |-> "nobody",
         given |-> None, published |-> FALSE, logged |-> FALSE,
         wrote |-> FALSE, answers |-> <<>>]

Op(r) == request[r].in.op
Inside(r) == /\ Op(r) \in Operations
             /\ request[r].at \in Observed \cup {"panicking"}

MovesTo(r, place) == request' = [request EXCEPT ![r].at = place]

\* problem.Write or writeJSON, and the return through the middlewares.
Answered(r, status) ==
  [request[r] EXCEPT !.answers = Append(@, status), !.wrote = TRUE,
                     !.at = IF Inside(r) THEN "leave" ELSE "done"]
Answer(r, status) == request' = [request EXCEPT ![r] = Answered(r, status)]

rest == <<setup, up, outages, inFlight>>

Arrive(r) ==
  /\ request[r].at = "idle"
  /\ \E i \in Inputs :
       request' = [request EXCEPT ![r] = [Idle EXCEPT !.at = "session", !.in = i, !.body = i.body]]
  /\ UNCHANGED rest

\* LoadAndSave reads the session of the cookie from its store, for every path
\* under /api/v1.
LoadAndSave(r) ==
  /\ request[r].at = "session"
  /\ IF request[r].in.cookie # "none" /\ setup.durable /\ ~up
     THEN Answer(r, 500)
     ELSE MovesTo(r, "cap")
  /\ UNCHANGED rest

MaxBody(r) ==
  /\ request[r].at = "cap"
  /\ IF request[r].in.size = "declared" THEN Answer(r, 413) ELSE MovesTo(r, "route")
  /\ UNCHANGED rest

Route(r) ==
  /\ request[r].at = "route"
  /\ CASE Op(r) = "unknown path" -> Answer(r, 404)
       [] Op(r) = "wrong method" -> Answer(r, 405)
       [] Op(r) = "streamEvents" -> MovesTo(r, "guard")
       [] OTHER -> MovesTo(r, "bind")
  /\ UNCHANGED rest

\* The generated wrapper binds the path parameters before it runs the chain of
\* middlewares it was given.
Bind(r) ==
  /\ request[r].at = "bind"
  /\ IF request[r].in.ids THEN MovesTo(r, "observe") ELSE Answer(r, 400)
  /\ UNCHANGED rest

\* metrics.Middleware and Logging, on the way in.
EnterMetrics(r) ==
  /\ request[r].at = "observe"
  /\ inFlight' = inFlight + 1
  /\ MovesTo(r, "validate")
  /\ UNCHANGED <<setup, up, outages>>

Validate(r) ==
  /\ request[r].at = "validate"
  /\ IF PassesSpec(request[r].in)
     THEN request' = [request EXCEPT ![r].at = "guard",
                        ![r].body = IF request[r].in.form = "object"
                                    THEN WithDefaults(Op(r), @) ELSE @]
     ELSE Answer(r, 400)
  /\ UNCHANGED rest

\* Faulty: every GET is public, not only that of the health.
Public_AnyRead(r) == Op(r) \in Reads

Public(r) == Op(r) = "GetHealth"

\* publicHealth, and RequireAuth of the mode.
RequireAuth(r) ==
  /\ request[r].at = "guard"
  /\ LET place == IF Op(r) = "streamEvents" THEN "stream" ELSE "handle" IN
     CASE Public(r) -> MovesTo(r, "handle")
       [] ~Public(r) /\ setup.dev ->
            request' = [request EXCEPT ![r].user = "devUser", ![r].at = place]
       [] ~Public(r) /\ ~setup.dev /\ request[r].in.cookie = "live" ->
            request' = [request EXCEPT ![r].user = "member", ![r].at = place]
       [] OTHER -> Answer(r, 401)
  /\ UNCHANGED rest

-----------------------------------------------------------------------------
(* The handlers.                                                           *)

Broken(r) == Op(r) \in WithBody /\ request[r].in.form = "broken"
Known(r) == request[r].user # "nobody"
Suits(r) == Accepts(Op(r), request[r].body)

\* Decoding the body, the actor, and the checks the service makes before it
\* turns to the repository.  GetHealth answers 200 whatever the ping said.
Handle(r) ==
  /\ request[r].at = "handle"
  /\ CASE Op(r) = "GetHealth" -> Answer(r, 200)
       [] Op(r) = "GetMe" -> Answer(r, IF Known(r) THEN 200 ELSE 500)
       [] Broken(r) -> Answer(r, 400)
       [] ~Broken(r) /\ Op(r) \in Attributed /\ ~Known(r) -> Answer(r, 500)
       [] Op(r) = "CopyList" /\ ~Broken(r) /\ Known(r) -> MovesTo(r, "source")
       [] OTHER -> IF Suits(r) THEN MovesTo(r, "serve") ELSE Answer(r, 400)
  /\ UNCHANGED rest

\* CopyList reads its source before it looks at the name.
ReadSource(r) ==
  /\ request[r].at = "source"
  /\ \/ up /\ (IF Suits(r) THEN MovesTo(r, "serve") ELSE Answer(r, 400))
     \/ up /\ Answer(r, 404)
     \/ Answer(r, 500)
  /\ UNCHANGED rest

GivenFor(r) ==
  IF Op(r) \in Mutations THEN Gives(Op(r), request[r].body) ELSE {None}

\* Faulty: an unknown error is answered as the client's fault.
WriteError_Blames(r, err) == IF err = "ErrNotFound" THEN 404 ELSE 400

WriteError(r, err) == IF err = "ErrNotFound" THEN 404 ELSE 500

\* The repository's statements, and an error or a panic of them whatever they
\* have done.
CallRepository(r) ==
  /\ request[r].at = "serve"
  /\ \E x \in GivenFor(r) :
       \/ request' = [request EXCEPT ![r].given = x, ![r].at = "panicking"]
       \/ /\ up /\ Op(r) \in Mutations
          /\ request' = [request EXCEPT ![r].given = x, ![r].at = "publish"]
       \/ up /\ Op(r) \notin Mutations /\ Answer(r, 200)
       \/ \E err \in {"ErrNotFound", "error"} :
            /\ err = "ErrNotFound" => up
            /\ request' = [request EXCEPT ![r] =
                 [Answered(r, WriteError(r, err)) EXCEPT !.given = x]]
  /\ UNCHANGED rest

Success(op) ==
  CASE op \in {"CreateList", "CopyList", "AddItem"} -> 201
    [] op \in {"DeleteList", "DeleteItem"} -> 204
    [] OTHER -> 200

\* The hint, then the answer.
PublishAndReply(r) ==
  /\ request[r].at = "publish"
  /\ request' = [request EXCEPT ![r] = [Answered(r, Success(Op(r))) EXCEPT !.published = TRUE]]
  /\ UNCHANGED rest

\* sseHandler's first flush sends the header, past Recover's writer, which only
\* forwards it; the first frame or heartbeat is a write.  EventStream models the
\* stream.
OpenEvents(r) ==
  /\ request[r].at = "stream" /\ request[r].answers = <<>>
  /\ request' = [request EXCEPT ![r].answers = <<200>>]
  /\ UNCHANGED rest

SendFrame(r) ==
  /\ request[r].at = "stream" /\ request[r].answers # <<>> /\ ~request[r].wrote
  /\ request' = [request EXCEPT ![r].wrote = TRUE]
  /\ UNCHANGED rest

EndEvents(r) ==
  /\ request[r].at = "stream" /\ request[r].answers # <<>>
  /\ MovesTo(r, "done")
  /\ UNCHANGED rest

-----------------------------------------------------------------------------
(* The way out.                                                            *)

\* Logging writes its line, the metrics middleware counts.
LeaveMetrics(r) ==
  /\ request[r].at = "leave"
  /\ request' = [request EXCEPT ![r].at = "done", ![r].logged = TRUE]
  /\ inFlight' = inFlight - 1
  /\ UNCHANGED <<setup, up, outages>>

Panic(r) ==
  /\ request[r].at \in {"validate", "guard", "handle", "source", "publish", "stream", "leave"}
  /\ MovesTo(r, "panicking")
  /\ UNCHANGED rest

\* Recover answers if it has seen no write, and panics again if it has: the
\* connection is aborted.
Recovered(r) ==
  IF request[r].wrote THEN [request[r] EXCEPT !.at = "aborted"]
  ELSE [request[r] EXCEPT !.at = "done", !.answers = Append(@, 500)]

\* Faulty: a problem is written though the response has begun.
RecoverPanic_Always(r) ==
  /\ request[r].at = "panicking"
  /\ inFlight' = IF Inside(r) THEN inFlight - 1 ELSE inFlight
  /\ request' = [request EXCEPT ![r].at = "done", ![r].answers = Append(@, 500)]
  /\ UNCHANGED <<setup, up, outages>>

\* Faulty: the gauge is only lowered after a handler that returns.
RecoverPanic_KeepsGauge(r) ==
  /\ request[r].at = "panicking"
  /\ request' = [request EXCEPT ![r] = Recovered(r)]
  /\ UNCHANGED rest

\* A panic passes Logging, which logs nothing, and the metrics middleware, whose
\* deferred call lowers the gauge.
RecoverPanic(r) ==
  /\ request[r].at = "panicking"
  /\ inFlight' = IF Inside(r) THEN inFlight - 1 ELSE inFlight
  /\ request' = [request EXCEPT ![r] = Recovered(r)]
  /\ UNCHANGED <<setup, up, outages>>

LoseDatabase ==
  /\ up /\ outages < MaxOutages
  /\ up' = FALSE /\ outages' = outages + 1
  /\ UNCHANGED <<setup, request, inFlight>>

RegainDatabase ==
  /\ ~up
  /\ up' = TRUE
  /\ UNCHANGED <<setup, outages, request, inFlight>>

-----------------------------------------------------------------------------

ApiInit ==
  /\ setup \in [dev: BOOLEAN, durable: BOOLEAN]
  /\ up = TRUE /\ outages = 0
  /\ request = [r \in Requests |-> Idle]
  /\ inFlight = 0

Middleware(r) ==
  \/ Arrive(r) \/ LoadAndSave(r) \/ MaxBody(r) \/ Route(r) \/ Bind(r)
  \/ EnterMetrics(r) \/ Validate(r) \/ RequireAuth(r)
Handler(r) ==
  \/ Handle(r) \/ ReadSource(r) \/ CallRepository(r) \/ PublishAndReply(r)
  \/ OpenEvents(r) \/ SendFrame(r) \/ EndEvents(r)
WayOut(r) == LeaveMetrics(r) \/ Panic(r) \/ RecoverPanic(r)

ApiNext ==
  \/ \E r \in Requests : Middleware(r) \/ Handler(r) \/ WayOut(r)
  \/ LoseDatabase \/ RegainDatabase

ApiSpec == ApiInit /\ [][ApiNext]_apiVars

-----------------------------------------------------------------------------
(* Properties.                                                             *)

\* The values of the state; the gauge never falls below zero.
ApiTypeOK ==
  /\ setup \in [dev: BOOLEAN, durable: BOOLEAN]
  /\ up \in BOOLEAN /\ outages \in 0..MaxOutages
  /\ request \in [Requests -> Request]
  /\ inFlight \in Nat

\* metrics/middleware.go raises and lowers the gauge around the chain: it tells
\* how many requests are in it, also after answers, refusals and panics.
InFlightCounts == inFlight = Cardinality({r \in Requests : Inside(r)})

Served(r) == \/ request[r].at \in {"handle", "source", "serve", "publish", "stream"}
             \/ request[r].given # None

\* server.go: "health is matched by exact path and method; anything else is
\* delegated to RequireAuth".  Only a live session, or dev-auth, gets a handler
\* to run, on both routes into the API.
ServedOnlyMembers ==
  \A r \in Requests :
    Served(r) /\ Op(r) # "GetHealth" =>
      /\ setup.dev \/ request[r].in.cookie = "live"
      /\ request[r].user = IF setup.dev THEN "devUser" ELSE "member"

\* A request that ends is answered, and by one header: no handler answers and
\* then goes on, and no panic adds a problem to an answer.  (A stream is the
\* exception: recoverWriter.Flush does not note that it has started.)
OneAnswer ==
  \A r \in Requests :
    /\ request[r].at = "done" => request[r].answers # <<>>
    /\ Op(r) # "streamEvents" => Len(request[r].answers) <= 1

\* What a client may conclude from the status: refused means that the store was
\* not asked, success that it was and that the others were told.  (A 404 or a
\* 500 can follow a statement that took effect.)
AnswerTells ==
  \A r \in Requests : \A n \in 1..Len(request[r].answers) :
    LET status == request[r].answers[n] IN
    /\ status \in {400, 401, 405, 413} => request[r].given = None /\ ~request[r].published
    /\ status \in 200..299 /\ Op(r) \in Mutations => request[r].given # None /\ request[r].published

\* lists.go: what reaches the repository is trimmed, not empty, in its bounds
\* and one of the units, whichever operation it comes from: a new item is given
\* whole, a derived name of a copy fits, and no number is clamped on its way out.
GivenIsClean ==
  \A r \in Requests : request[r].given # None =>
    LET x == request[r].given IN
    /\ x.name # None => ValidName(x.name) /\ x.name.blanks = 0 /\ x.name.runes <= MaxName
    /\ x.quantity # None => x.quantity \in 1..MaxInt32
    /\ x.unit # None => x.unit \in Units
    /\ HasNote(x.note) => x.note.runes <= MaxNote /\ x.note.blanks = 0
    /\ Op(r) \in Named \cup {"AddItem"} => x.name # None
    /\ Op(r) = "AddItem" => x.quantity # None /\ x.unit # None

\* lists.go counts runes "matching the OpenAPI maxLength": a body that passed
\* the document is refused by the domain only for a name of blanks.
DomainAgreesWithSpec ==
  \A r \in Requests :
    request[r].at = "handle" /\ ~Suits(r) =>
      request[r].body.name # None /\ request[r].body.name.runes = 0

\* maxbody.go: "the oversized body is rejected either way", wherever one is read.
CapHolds ==
  \A r \in Requests :
    Op(r) \in WithBody /\ request[r].in.size # "fits" => request[r].given = None

=============================================================================
