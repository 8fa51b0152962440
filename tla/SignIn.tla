------------------------------- MODULE SignIn -------------------------------
(***************************************************************************)
(* Signing in and out with both methods configured (auth/combined.go): the *)
(* SSO round trip (oidc.go, oidc_callback.go), the password login with its *)
(* throttle and its cap on comparisons (password.go), logout, and the      *)
(* session middleware around every handler.  One browser sends requests    *)
(* that cross: tabs, double clicks and reloads.  The session manager is    *)
(* external: a request works on a copy of its session, which is written    *)
(* back with the answer if the handler changed it.                         *)
(***************************************************************************)
EXTENDS LoginThrottle

CONSTANTS
  Requests,     \* slots of requests in flight
  Accounts,     \* users with a password
  SsoUsers,     \* users of the identity provider
  Names,        \* usernames typed into the form
  Address,      \* the browser's address
  Absent,       \* no session
  Comparisons,  \* password comparisons that may run at once
  MaxSends,     \* bound: requests sent
  MaxFlows,     \* bound: SSO round trips begun
  MaxTokens,    \* bound: session tokens issued
  MaxFailures   \* bound: failures, losses and expiries

ASSUME SignInAssumption ==
  /\ Accounts \subseteq Names /\ Names \cup {Address} \subseteq Keys
  /\ Limiters = {"ip", "user"}
  /\ {"nobody", "same", "unknown"} \cap (Accounts \cup SsoUsers) = {}
  /\ {Comparisons, MaxSends, MaxFlows, MaxTokens, MaxFailures} \subseteq Nat

VARIABLES
  store,     \* the session store
  issued,    \* session tokens issued so far
  cookie,    \* the token the browser holds, or 0
  code,      \* the provider's side of each SSO round trip
  flows,     \* SSO round trips begun
  members,   \* users recorded in the members table
  req,       \* the requests in flight
  comparing, \* the requests that hold a slot of bcryptSem
  sends, failures,
  who        \* ghost: whom the browser was last told to be, if requests did not cross

vars == <<throttleVars, store, issued, cookie, code, flows, members, req, comparing, sends, failures, who>>

-----------------------------------------------------------------------------

Users == Accounts \cup SsoUsers
Tokens == 1..MaxTokens
Flows == 1..MaxFlows

\* A session: its SessionData, and the state, nonce and verifier (one round
\* trip) that an SSO login left in it.
Session == [user: Users \cup {"nobody"}, flow: 0..MaxFlows]
Empty == [user |-> "nobody", flow |-> 0]

ASSUME AbsentAssumption == Absent \notin Session

\* A request works on `data`, its copy of the session of `token` (0: none yet);
\* its answer sets the cookie to `sets` (-1: leaves it).  `flow` or `name` is
\* what it brings; `told` is a ghost: whom its answer makes the browser.
Request ==
  [at: {"free", "sent", "handle", "exchange", "name", "lookup", "wait", "compare",
        "renew", "upsert", "reset", "commit", "answer"},
   kind: {"none", "sso", "callback", "password", "logout"},
   token: 0..MaxTokens, data: Session, sets: -1..MaxTokens, flow: 0..MaxFlows,
   name: Names \cup {"none"}, alone: BOOLEAN,
   told: Users \cup {"nobody", "same", "unknown"}]

Free == [at |-> "free", kind |-> "none", token |-> 0, data |-> Empty, sets |-> -1, flow |-> 0,
         name |-> "none", alone |-> TRUE, told |-> "same"]

\* requireSession: whom the API takes the holder of a token for.
WhoIs(t) == IF t = 0 \/ store[t] = Absent THEN "nobody" ELSE store[t].user

At(r, kind, place) == req[r].at = place /\ req[r].kind = kind

\* r's handler goes on at `place`.
Goes(r, place) == req' = [req EXCEPT ![r].at = place]

\* A handler that is done: what the request brought, and its copy of the
\* session, are of no more use.
Over(x) == [Free EXCEPT !.at = "answer", !.alone = x.alone, !.told = x.told]

\* r's handler is done; the answer changes nothing in the browser.
Refuses(r) == req' = [req EXCEPT ![r] = Over(@)]

Fails == failures < MaxFailures /\ failures' = failures + 1

outside == <<cookie, sends, who>>

-----------------------------------------------------------------------------
(* The browser.                                                            *)

InFlight == {r \in Requests : req[r].at # "free"}

\* With another request in flight the two cross.
Send(r, new) ==
  /\ req[r].at = "free" /\ sends < MaxSends
  /\ sends' = sends + 1
  /\ LET sent == [new EXCEPT !.at = "sent", !.token = cookie, !.alone = (InFlight = {})] IN
     req' = [q \in Requests |-> IF q = r THEN sent
                                ELSE [req[q] EXCEPT !.alone = @ /\ req[q].at = "free"]]
  /\ who' = IF InFlight = {} THEN who ELSE "unknown"
  /\ UNCHANGED <<throttleVars, store, issued, cookie, code, flows, members, comparing, failures>>

StartSso(r) == Send(r, [Free EXCEPT !.kind = "sso"])
SubmitPassword(r, name) == Send(r, [Free EXCEPT !.kind = "password", !.name = name])
ClickLogout(r) == Send(r, [Free EXCEPT !.kind = "logout"])

\* The provider sends the browser back, with a code or without; a reload sends
\* the same callback again.
ReturnFromProvider(r, f) ==
  code[f] # "unasked" /\ Send(r, [Free EXCEPT !.kind = "callback", !.flow = f])

\* The answer arrives, in any order; its cookie replaces the browser's.
Deliver(r) ==
  /\ req[r].at = "answer"
  /\ cookie' = IF req[r].sets = -1 THEN cookie ELSE req[r].sets
  /\ who' = IF ~req[r].alone THEN "unknown" ELSE IF req[r].told = "same" THEN who ELSE req[r].told
  /\ req' = [req EXCEPT ![r] = Free]
  /\ UNCHANGED <<throttleVars, store, issued, code, flows, members, comparing, sends, failures>>

\* The connection breaks before the answer arrives.
LoseAnswer(r) ==
  /\ req[r].at = "answer" /\ Fails
  /\ req' = [req EXCEPT ![r] = Free]
  /\ who' = "unknown"
  /\ UNCHANGED <<throttleVars, store, issued, cookie, code, flows, members, comparing, sends>>

-----------------------------------------------------------------------------
(* The session manager.                                                    *)

\* A cookie without a session is as good as none.
LoadSession(r) ==
  /\ req[r].at = "sent"
  /\ LET t == req[r].token IN
     req' = [req EXCEPT ![r].at = "handle",
                        ![r].token = IF t = 0 \/ store[t] = Absent THEN 0 ELSE t,
                        ![r].data = IF t = 0 \/ store[t] = Absent THEN Empty ELSE store[t]]
  /\ UNCHANGED <<throttleVars, store, issued, code, flows, members, comparing, failures, outside>>

\* The session of a handler that changed it is written with the answer, under
\* its token or, if it has none, a new one.
CommitSession(r) ==
  /\ req[r].at = "commit"
  /\ LET t == IF req[r].token = 0 THEN issued + 1 ELSE req[r].token IN
     /\ t <= MaxTokens
     /\ store' = [store EXCEPT ![t] = req[r].data]
     /\ issued' = IF req[r].token = 0 THEN t ELSE issued
     /\ req' = [req EXCEPT ![r] = [Over(@) EXCEPT !.sets = t]]
  /\ UNCHANGED <<throttleVars, code, flows, members, comparing, failures, outside>>

CommitFails(r) ==
  /\ req[r].at = "commit" /\ Fails
  /\ req' = [req EXCEPT ![r] = [Over(@) EXCEPT !.told = "unknown"]]
  /\ UNCHANGED <<throttleVars, store, issued, code, flows, members, comparing, outside>>

\* A session reaches its lifetime, or a restart loses a store held in memory.
Expire(t) ==
  /\ store[t] # Absent /\ Fails
  /\ store' = [store EXCEPT ![t] = Absent]
  /\ who' = IF InFlight # {} THEN "unknown" ELSE IF t = cookie THEN "nobody" ELSE who
  /\ req' = [r \in Requests |-> [req[r] EXCEPT !.alone = @ /\ req[r].at = "free"]]
  /\ UNCHANGED <<throttleVars, issued, cookie, code, flows, members, comparing, sends>>

-----------------------------------------------------------------------------
(* The SSO round trip.                                                     *)

\* oidcAuthenticator.Login: state, nonce and verifier go into the session, over
\* those of an earlier round trip.
SsoLogin(r) ==
  /\ At(r, "sso", "handle") /\ flows < MaxFlows
  /\ flows' = flows + 1
  /\ code' = [code EXCEPT ![flows + 1] = "asked"]
  /\ req' = [req EXCEPT ![r].at = "commit", ![r].data.flow = flows + 1]
  /\ UNCHANGED <<throttleVars, store, issued, members, comparing, failures, outside>>

\* External: the user signs in at the provider, or gives up there.
SignInAtProvider(f, u) ==
  /\ code[f] = "asked"
  /\ code' = [code EXCEPT ![f] = u]
  /\ UNCHANGED <<throttleVars, store, issued, flows, members, req, comparing, failures, outside>>

\* validCallbackState: the state is not, or no longer, the session's.
CallbackRejected(r) ==
  /\ At(r, "callback", "handle") /\ req[r].data.flow # req[r].flow
  /\ Refuses(r)
  /\ UNCHANGED <<throttleVars, store, issued, code, flows, members, comparing, failures, outside>>

\* Callback up to the exchange: the pre-login values are read and removed, then
\* a callback without a code ends.
CallbackAccepted(r) ==
  /\ At(r, "callback", "handle") /\ req[r].data.flow = req[r].flow
  /\ req' = [req EXCEPT ![r].at = IF code[req[r].flow] = "asked" THEN "commit" ELSE "exchange",
                        ![r].data.flow = 0]
  /\ UNCHANGED <<throttleVars, store, issued, code, flows, members, comparing, failures, outside>>

\* exchangeAndVerify: a code works once, and only with the round trip's verifier
\* and nonce.
Exchange(r) ==
  /\ req[r].at = "exchange"
  /\ code[req[r].flow] \in SsoUsers
  /\ code' = [code EXCEPT ![req[r].flow] = "spent"]
  /\ req' = [req EXCEPT ![r].at = "renew", ![r].flow = 0, ![r].told = code[req[r].flow]]
  /\ UNCHANGED <<throttleVars, store, issued, flows, members, comparing, failures, outside>>

ExchangeFails(r) ==
  /\ req[r].at = "exchange"
  /\ IF code[req[r].flow] = "spent" THEN UNCHANGED failures ELSE Fails
  /\ Goes(r, "commit")
  /\ UNCHANGED <<throttleVars, store, issued, code, flows, members, comparing, outside>>

-----------------------------------------------------------------------------
(* The password login.                                                     *)

\* Login throttles the address first, ...
ThrottleAddress(r) ==
  /\ At(r, "password", "handle")
  /\ Allow("ip", Address)
  /\ IF Granted("ip", Address) THEN Goes(r, "name") ELSE Refuses(r)
  /\ UNCHANGED <<store, issued, code, flows, members, comparing, failures, outside>>

\* ... then the name.
ThrottleName(r) ==
  /\ req[r].at = "name"
  /\ Allow("user", req[r].name)
  /\ IF Granted("user", req[r].name) THEN Goes(r, "lookup") ELSE Refuses(r)
  /\ UNCHANGED <<store, issued, code, flows, members, comparing, failures, outside>>

\* authenticate: found or not, a comparison follows; only an error ends it here.
LookUp(r) ==
  /\ req[r].at = "lookup"
  /\ Goes(r, "wait")
  /\ UNCHANGED <<throttleVars, store, issued, code, flows, members, comparing, failures, outside>>

LookUpFails(r) ==
  /\ req[r].at = "lookup" /\ Fails
  /\ Refuses(r)
  /\ UNCHANGED <<throttleVars, store, issued, code, flows, members, comparing, outside>>

\* verifyPassword: at most Comparisons at a time; a client that goes away while
\* it waits gets no comparison.
AcquireSlot(r) ==
  /\ req[r].at = "wait" /\ Cardinality(comparing) < Comparisons
  /\ comparing' = comparing \cup {r}
  /\ Goes(r, "compare")
  /\ UNCHANGED <<throttleVars, store, issued, code, flows, members, failures, outside>>

GiveUpWaiting(r) ==
  /\ req[r].at = "wait" /\ Fails
  /\ Refuses(r)
  /\ UNCHANGED <<throttleVars, store, issued, code, flows, members, comparing, outside>>

\* The password is right, if the account exists, or wrong.
Matches(r) ==
  /\ req[r].name \in Accounts
  /\ req' = [req EXCEPT ![r].at = "renew", ![r].told = req[r].name]

\* Faulty: the slot of a failed comparison is kept.
Compare_KeepsSlot(r) ==
  /\ req[r].at = "compare"
  /\ \/ Matches(r) /\ comparing' = comparing \ {r}
     \/ Refuses(r) /\ UNCHANGED comparing
  /\ UNCHANGED <<throttleVars, store, issued, code, flows, members, failures, outside>>

Compare(r) ==
  /\ req[r].at = "compare"
  /\ comparing' = comparing \ {r}
  /\ Matches(r) \/ Refuses(r)
  /\ UNCHANGED <<throttleVars, store, issued, code, flows, members, failures, outside>>

\* A correct password clears the name's throttle.
ResetName(r) ==
  /\ req[r].at = "reset"
  /\ Reset("user", req[r].name)
  /\ Goes(r, "commit")
  /\ UNCHANGED <<store, issued, code, flows, members, comparing, failures, outside>>

-----------------------------------------------------------------------------
(* establishSession, the same for both methods, and Logout.                *)

\* Faulty: the session keeps its token.
RenewToken_Keeps(r) ==
  /\ req[r].at = "renew"
  /\ req' = [req EXCEPT ![r].at = "upsert", ![r].data.user = req[r].told]
  /\ UNCHANGED <<throttleVars, store, issued, code, flows, members, comparing, failures, outside>>

\* RenewToken takes the old session out of the store at once and gives the copy
\* a new token; putSessionData fills it.
RenewToken(r) ==
  /\ req[r].at = "renew" /\ issued < MaxTokens
  /\ store' = [t \in Tokens |-> IF t = req[r].token THEN Absent ELSE store[t]]
  /\ issued' = issued + 1
  /\ req' = [req EXCEPT ![r].at = "upsert", ![r].token = issued + 1, ![r].data.user = req[r].told]
  /\ UNCHANGED <<throttleVars, code, flows, members, comparing, failures, outside>>

\* The store is down: the copy stays as it was, and only a callback changed it.
RenewTokenFails(r) ==
  /\ req[r].at = "renew" /\ Fails
  /\ req' = [req EXCEPT ![r] = [(IF req[r].kind = "callback" THEN [@ EXCEPT !.at = "commit"] ELSE Over(@))
                                 EXCEPT !.told = "same"]]
  /\ UNCHANGED <<throttleVars, store, issued, code, flows, members, comparing, outside>>

\* The member is recorded.
UpsertMember(r) ==
  /\ req[r].at = "upsert"
  /\ members' = members \cup {req[r].told}
  /\ Goes(r, IF req[r].kind = "password" THEN "reset" ELSE "commit")
  /\ UNCHANGED <<throttleVars, store, issued, code, flows, comparing, failures, outside>>

\* A failure here answers 500, but the session that is written is signed in.
UpsertMemberFails(r) ==
  /\ req[r].at = "upsert" /\ Fails
  /\ req' = [req EXCEPT ![r].at = "commit", ![r].told = "unknown"]
  /\ UNCHANGED <<throttleVars, store, issued, code, flows, members, comparing, outside>>

\* Faulty: the browser goes to the provider's logout first.
Logout_RedirectsFirst(r) ==
  /\ At(r, "logout", "handle")
  /\ req' = [req EXCEPT ![r] = [Over(@) EXCEPT !.told = "nobody"]]
  /\ UNCHANGED <<throttleVars, store, issued, code, flows, members, comparing, failures, outside>>

\* Logout, of either method: the session goes, and the answer clears the cookie.
Logout(r) ==
  /\ At(r, "logout", "handle")
  /\ store' = [t \in Tokens |-> IF t = req[r].token THEN Absent ELSE store[t]]
  /\ req' = [req EXCEPT ![r] = [Over(@) EXCEPT !.sets = 0, !.told = "nobody"]]
  /\ UNCHANGED <<throttleVars, issued, code, flows, members, comparing, failures, outside>>

LogoutFails(r) ==
  /\ At(r, "logout", "handle") /\ Fails
  /\ Refuses(r)
  /\ UNCHANGED <<throttleVars, store, issued, code, flows, members, comparing, outside>>

-----------------------------------------------------------------------------

Init ==
  /\ ThrottleInit
  /\ store = [t \in Tokens |-> Absent]
  /\ issued = 0 /\ cookie = 0
  /\ code = [f \in Flows |-> "unasked"] /\ flows = 0
  /\ members = {}
  /\ req = [r \in Requests |-> Free]
  /\ comparing = {}
  /\ sends = 0 /\ failures = 0
  /\ who = "nobody"

Runs(r) ==
  \/ LoadSession(r) \/ CommitSession(r) \/ CommitFails(r)
  \/ SsoLogin(r) \/ CallbackRejected(r) \/ CallbackAccepted(r) \/ Exchange(r) \/ ExchangeFails(r)
  \/ ThrottleAddress(r) \/ ThrottleName(r) \/ LookUp(r) \/ LookUpFails(r)
  \/ AcquireSlot(r) \/ GiveUpWaiting(r) \/ Compare(r) \/ ResetName(r)
  \/ RenewToken(r) \/ RenewTokenFails(r) \/ UpsertMember(r) \/ UpsertMemberFails(r)
  \/ Logout(r) \/ LogoutFails(r)
  \/ Deliver(r) \/ LoseAnswer(r)

Sends(r) ==
  \/ StartSso(r) \/ ClickLogout(r)
  \/ \E name \in Names : SubmitPassword(r, name)
  \/ \E f \in Flows : ReturnFromProvider(r, f)

Passes ==
  Tick /\ UNCHANGED <<store, issued, cookie, code, flows, members, req, comparing, sends, failures, who>>

Next ==
  \/ \E r \in Requests : Sends(r) \/ Runs(r)
  \/ \E f \in Flows, u \in SsoUsers : SignInAtProvider(f, u)
  \/ \E t \in Tokens : Expire(t)
  \/ Passes

Spec == Init /\ [][Next]_vars

-----------------------------------------------------------------------------

\* Types; a slot of bcryptSem is held exactly while its request compares.
TypeOK ==
  /\ ThrottleTypeOK
  /\ store \in [Tokens -> Session \cup {Absent}]
  /\ issued \in 0..MaxTokens /\ cookie \in 0..MaxTokens
  /\ code \in [Flows -> {"unasked", "asked", "spent"} \cup SsoUsers] /\ flows \in 0..MaxFlows
  /\ members \subseteq Users
  /\ req \in [Requests -> Request]
  /\ comparing = {r \in Requests : req[r].at = "compare"} /\ Cardinality(comparing) <= Comparisons
  /\ sends \in 0..MaxSends /\ failures \in 0..MaxFailures
  /\ who \in Users \cup {"nobody", "unknown"}

\* A session token stands for the same user for as long as it exists anywhere:
\* in the store, in a request that still works on its copy, or brought back into
\* the store by such a request after a logout.  So the token a browser had before
\* it signed in never becomes signed in, and one of a user never becomes another
\* user's (establishSession renews the token before it stores the user).
TokenMeansOneUser ==
  \A r \in Requests :
    LET t == req[r].token IN
    req[r].at \notin {"free", "sent"} /\ t # 0 =>
      /\ store[t] # Absent => store[t].user = req[r].data.user
      /\ \A q \in Requests : req[q].at \notin {"free", "sent"} /\ req[q].token = t
                               => req[q].data.user = req[r].data.user

\* While requests do not cross, the browser is who the last answer said: a
\* sign-in that succeeded holds and is recorded among the members, a refused one
\* changes nothing, and after a logout the cookie opens nothing.
CookieTellsWho ==
  InFlight = {} /\ who # "unknown" =>
    /\ WhoIs(cookie) = who
    /\ who \in members \cup {"nobody"}
=============================================================================
