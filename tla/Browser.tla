-------------------------------- MODULE Browser --------------------------------
(***************************************************************************)
(* The web client's hold on a session: the axios interceptors of           *)
(* api-client.ts, AuthProvider, the login page and the layout's redirect,  *)
(* in several tabs of one browser, against the refresh endpoint.           *)
(*                                                                         *)
(* Tabs share the refresh cookie and nothing else: each keeps its own      *)
(* access token, isRefreshing and failedQueue.  An access token bears the  *)
(* number of the session it was issued with.  A page that is left while    *)
(* its refresh is under way leaves a Stray one behind: the server answers  *)
(* it, and the browser keeps or drops the cookie of the answer.            *)
(***************************************************************************)
EXTENDS Naturals, FiniteSets

CONSTANTS
  Tab,          \* the tabs open on the console
  Query,        \* what a page asks for once somebody is signed in
  QueriesOf,    \* the queries of each tab
  Desk,         \* the tabs in which people sign in and out, and open pages
  Where,        \* the pages people open
  Faults,       \* "ended": the sessions are revoked elsewhere; "lost": the answer to a
                \* refresh; "shed": a refresh that is turned away unread
  Breaking,     \* the requests that may meet an error other than a 401
  MaxLapses,    \* bound: so many access tokens outlive their fifteen minutes
  MaxLogins,    \* bound: no login is begun beyond so many sessions
  MaxLoads      \* bound: so many pages are opened by hand

Pages == {"login", "dashboard", "settings"}

\* The pages of the console that the interceptor redirects from.
StaffPath == {"dashboard"}

\* GET /auth/me of a page load, and of the login form.
Me == {"load", "check"}

ASSUME BrowserAssumption ==
  /\ "stray" \notin Tab
  /\ Query \cap Me = {}
  /\ QueriesOf \in [Tab -> SUBSET Query]
  /\ Desk \subseteq Tab
  /\ Where \subseteq Pages
  /\ Faults \subseteq {"ended", "lost", "shed"}
  /\ Breaking \subseteq Me \cup Query
  /\ MaxLapses \in Nat /\ MaxLogins \in Nat /\ MaxLoads \in Nat

VARIABLES
  issued,     \* so many sessions were opened; each goes by its number
  live,       \* those not revoked
  lapsed,     \* the access tokens past their time
  jar,        \* the cookie: a session, 0 for none
  page,       \* what each tab holds in memory
  call,       \* the requests of each page
  refresh,    \* the refresh each tab has under way, and the stray one
  login,      \* the login form of each tab
  loads,      \* pages opened so far
  clash       \* one cookie was presented twice, or a fault came

vars == <<issued, live, lapsed, jar, page, call, refresh, login, loads, clash>>

Stray == "stray"
NoRefresh == [state |-> "none"]
NoLogin == [state |-> "none"]

Session == 1..issued
Token == Session \cup {0}

CallState == {"none", "sent", "refused", "leading", "queued", "done", "failed"}
Pending == {"sent", "refused", "leading", "queued"}

TypeOK ==
  /\ issued \in Nat
  /\ live \subseteq Session
  /\ lapsed \subseteq Session
  /\ jar \in Token
  /\ page \in [Tab -> [where: Pages, token: Token, refreshing: BOOLEAN, user: BOOLEAN,
                       loading: BOOLEAN]]
  /\ call \in [Tab -> [Me \cup Query -> [state: CallState, token: Token, retried: BOOLEAN]]]
  /\ refresh \in [Tab \cup {Stray} ->
                       {NoRefresh} \cup [state: {"asked", "checked", "caught", "refused"}, cookie: Token]
                  \cup [state: {"granted"}, cookie: Token, session: Session]]
  /\ login \in [Tab -> [state: {"none", "asked"}] \cup [state: {"granted"}, session: Session]]
  /\ loads \in 0..MaxLoads
  /\ clash \in BOOLEAN

-----------------------------------------------------------------------------
(* Pages *)

NewPage(where) ==
  [where |-> where, token |-> 0, refreshing |-> FALSE, user |-> FALSE, loading |-> TRUE]

Unsent == [state |-> "none", token |-> 0, retried |-> FALSE]

Sent(token) == [state |-> "sent", token |-> token, retried |-> FALSE]

\* AuthProvider asks for /auth/me as soon as it is mounted, and holds no token.
NewCalls == [c \in Me \cup Query |-> IF c = "load" THEN Sent(0) ELSE Unsent]

Init ==
  /\ issued = 1
  /\ live = {1}
  /\ lapsed = {}
  /\ jar \in {0, 1}
  /\ page \in [Tab -> {NewPage(p) : p \in Where}]
  /\ call = [t \in Tab |-> NewCalls]
  /\ refresh = [r \in Tab \cup {Stray} |-> NoRefresh]
  /\ login = [t \in Tab |-> NoLogin]
  /\ loads = 0
  /\ clash = FALSE

\* Everything in memory goes with the page, except for what the network carries.
Opened(t, where) ==
  /\ page' = [page EXCEPT ![t] = NewPage(where)]
  /\ call' = [call EXCEPT ![t] = NewCalls]

\* The refresh of a page that is left goes on without it.
Left(t) ==
  IF refresh[t] = NoRefresh
  THEN refresh
  ELSE [refresh EXCEPT ![t] = NoRefresh, ![Stray] = refresh[t]]

CanLeave(t) == refresh[t] = NoRefresh \/ refresh[Stray] = NoRefresh

\* The user opens a page by its address, or reloads one.
Open(t, where) ==
  /\ loads < MaxLoads
  /\ login[t] = NoLogin
  /\ CanLeave(t)
  /\ loads' = loads + 1
  /\ Opened(t, where)
  /\ refresh' = Left(t)
  /\ UNCHANGED <<issued, live, lapsed, jar, login, clash>>

\* The layout sends a visitor nobody is known for to the login page; the page
\* is not loaded anew.
Redirect(t) ==
  /\ page[t].where # "login"
  /\ ~page[t].loading
  /\ ~page[t].user
  /\ page' = [page EXCEPT ![t].where = "login"]
  /\ UNCHANGED <<issued, live, lapsed, jar, call, refresh, login, loads, clash>>

-----------------------------------------------------------------------------
(* Requests *)

Send(t, q) ==
  /\ page[t].where # "login"
  /\ page[t].user
  /\ q \in QueriesOf[t]
  /\ call[t][q] = Unsent
  /\ call' = [call EXCEPT ![t][q] = Sent(page[t].token)]
  /\ UNCHANGED <<issued, live, lapsed, jar, page, refresh, login, loads, clash>>

\* JwtStrategy: a token is good for its fifteen minutes, whatever became of
\* its session, unless the account was suspended (EndSessions).
Valid(token) == token # 0 /\ token \notin lapsed

\* Mutant: loading is cleared when /auth/me is answered, not in a finally.
Told_Success(p, c, ok) ==
  IF c \in Me THEN [p EXCEPT !.user = ok, !.loading = @ /\ ~ok,
                             !.where = IF c = "check" /\ @ = "login" THEN "dashboard" ELSE @]
  ELSE p

\* What the page makes of an answer, or of an error: checkSession, and the login
\* form's way to the console after it.
Told(p, c, ok) ==
  IF c \in Me THEN [p EXCEPT !.user = ok, !.loading = FALSE,
                             !.where = IF c = "check" /\ @ = "login" THEN "dashboard" ELSE @]
  ELSE p

Settle(t, c, ok) ==
  /\ call' = [call EXCEPT ![t][c].state = IF ok THEN "done" ELSE "failed"]
  /\ page' = [page EXCEPT ![t] = Told(@, c, ok)]

Serve(t, c) ==
  /\ call[t][c].state = "sent"
  /\ IF Valid(call[t][c].token)
     THEN Settle(t, c, TRUE)
     ELSE /\ call' = [call EXCEPT ![t][c].state = "refused"]
          /\ UNCHANGED page
  /\ UNCHANGED <<issued, live, lapsed, jar, refresh, login, loads, clash>>

\* An answer other than a 401, or none, goes past the queue.
Break(t, c) ==
  /\ c \in Breaking
  /\ call[t][c].state = "sent"
  /\ Settle(t, c, FALSE)
  /\ UNCHANGED <<issued, live, lapsed, jar, refresh, login, loads, clash>>

\* Has another page this cookie under way, or had the page that was left?
Presented(r, cookie) ==
  cookie # 0 /\ \E o \in (Tab \cup {Stray}) \ {r} : refresh[o] # NoRefresh /\ refresh[o].cookie = cookie

\* Mutant: isRefreshing is not looked at.
Leads_Always(t) == TRUE

\* isRefreshing is not set.
Leads(t) == ~page[t].refreshing

\* The first 401 of a page refreshes the token,
Lead(t, c) ==
  /\ call[t][c].state = "refused"
  /\ ~call[t][c].retried
  /\ Leads(t)
  /\ call' = [call EXCEPT ![t][c].state = "leading", ![t][c].retried = TRUE]
  /\ page' = [page EXCEPT ![t].refreshing = TRUE]
  /\ refresh' = [refresh EXCEPT ![t] = [state |-> "asked", cookie |-> jar]]
  /\ clash' = (clash \/ Presented(t, jar))
  /\ UNCHANGED <<issued, live, lapsed, jar, login, loads>>

\* the others wait for it; their second try is not marked as one.
Enqueue(t, c) ==
  /\ call[t][c].state = "refused"
  /\ ~call[t][c].retried
  /\ ~Leads(t)
  /\ call' = [call EXCEPT ![t][c].state = "queued"]
  /\ UNCHANGED <<issued, live, lapsed, jar, page, refresh, login, loads, clash>>

GiveUp(t, c) ==
  /\ call[t][c].state = "refused"
  /\ call[t][c].retried
  /\ Settle(t, c, FALSE)
  /\ UNCHANGED <<issued, live, lapsed, jar, refresh, login, loads, clash>>

-----------------------------------------------------------------------------
(* The refresh endpoint *)

Reach(r, state) == refresh' = [refresh EXCEPT ![r].state = state]

Check(r) ==
  /\ refresh[r].state = "asked"
  /\ LET cookie == refresh[r].cookie IN
     Reach(r, IF cookie = 0 THEN "refused" ELSE IF cookie \in live THEN "checked" ELSE "caught")
  /\ UNCHANGED <<issued, live, lapsed, jar, page, call, login, loads, clash>>

\* Throttled, or never reached: to the interceptor it is a refusal.
Shed(r) ==
  /\ "shed" \in Faults
  /\ refresh[r].state = "asked"
  /\ Reach(r, "refused")
  /\ UNCHANGED <<issued, live, lapsed, jar, page, call, login, loads, clash>>

Rotate(r) ==
  /\ refresh[r].state = "checked"
  /\ issued' = issued + 1
  /\ live' = (live \ {refresh[r].cookie}) \cup {issued + 1}
  /\ refresh' = [refresh EXCEPT ![r] = [state |-> "granted", cookie |-> @.cookie,
                                        session |-> issued + 1]]
  /\ UNCHANGED <<lapsed, jar, page, call, login, loads, clash>>

\* Reuse of a revoked cookie ends every session of the account.
RevokeAll(r) ==
  /\ refresh[r].state = "caught"
  /\ live' = {}
  /\ Reach(r, "refused")
  /\ UNCHANGED <<issued, lapsed, jar, page, call, login, loads, clash>>

-----------------------------------------------------------------------------
(* Its answer, in the interceptor *)

Waiting(c) == c.state \in {"leading", "queued"}

\* Mutant: only the request that led is sent again.
Resent_Leader(calls, token) ==
  [c \in DOMAIN calls |->
     IF calls[c].state = "leading" THEN [calls[c] EXCEPT !.state = "sent", !.token = token]
     ELSE calls[c]]

\* The request that led and, by processQueue, those that waited.
Resent(calls, token) ==
  [c \in DOMAIN calls |->
     IF Waiting(calls[c]) THEN [calls[c] EXCEPT !.state = "sent", !.token = token] ELSE calls[c]]

Grant(t) ==
  /\ refresh[t].state = "granted"
  /\ jar' = refresh[t].session
  /\ page' = [page EXCEPT ![t] = [@ EXCEPT !.token = refresh[t].session, !.refreshing = FALSE]]
  /\ call' = [call EXCEPT ![t] = Resent(@, refresh[t].session)]
  /\ refresh' = [refresh EXCEPT ![t] = NoRefresh]
  /\ UNCHANGED <<issued, live, lapsed, login, loads, clash>>

\* Mutant: only the request that led is told.
Rejected_Leader(calls) ==
  [c \in DOMAIN calls |->
     IF calls[c].state = "leading" THEN [calls[c] EXCEPT !.state = "failed"] ELSE calls[c]]

\* As Resent, for a refresh that failed.
Rejected(calls) ==
  [c \in DOMAIN calls |-> IF Waiting(calls[c]) THEN [calls[c] EXCEPT !.state = "failed"] ELSE calls[c]]

ToldOfRejection(p, calls) ==
  LET wiped  == [p EXCEPT !.token = 0, !.refreshing = FALSE]
      loaded == IF Waiting(calls["load"]) THEN Told(wiped, "load", FALSE) ELSE wiped
  IN  IF Waiting(calls["check"]) THEN Told(loaded, "check", FALSE) ELSE loaded

\* The token is wiped, even one that a login brought meanwhile.  A page of the
\* console is left for the login page, which is loaded anew.
Refuse(t) ==
  /\ refresh[t].state = "refused"
  /\ refresh' = [refresh EXCEPT ![t] = NoRefresh]
  /\ IF page[t].where \in StaffPath
     THEN Opened(t, "login")
     ELSE /\ page' = [page EXCEPT ![t] = ToldOfRejection(@, call[t])]
          /\ call' = [call EXCEPT ![t] = Rejected(@)]
  /\ UNCHANGED <<issued, live, lapsed, jar, login, loads, clash>>

\* Nobody awaits a stray answer; the browser takes its cookie,
TakeStray ==
  /\ refresh[Stray].state \in {"granted", "refused"}
  /\ jar' = IF refresh[Stray].state = "granted" THEN refresh[Stray].session ELSE jar
  /\ refresh' = [refresh EXCEPT ![Stray] = NoRefresh]
  /\ UNCHANGED <<issued, live, lapsed, page, call, login, loads, clash>>

\* unless the connection went with the page.  A page that is still there takes
\* the loss for a refusal.
Lose(r) ==
  /\ "lost" \in Faults
  /\ refresh[r].state = "granted"
  /\ refresh' = [refresh EXCEPT ![r] =
       IF r = Stray THEN NoRefresh ELSE [state |-> "refused", cookie |-> @.cookie]]
  /\ clash' = TRUE
  /\ UNCHANGED <<issued, live, lapsed, jar, page, call, login, loads>>

-----------------------------------------------------------------------------
(* Signing in and out *)

Submit(t) ==
  /\ page[t].where = "login"
  /\ login[t] = NoLogin
  /\ call[t]["check"].state \notin Pending
  /\ issued < MaxLogins
  /\ login' = [login EXCEPT ![t] = [state |-> "asked"]]
  /\ UNCHANGED <<issued, live, lapsed, jar, page, call, refresh, loads, clash>>

OpenSession(t) ==
  /\ login[t].state = "asked"
  /\ issued' = issued + 1
  /\ live' = live \cup {issued + 1}
  /\ login' = [login EXCEPT ![t] = [state |-> "granted", session |-> issued + 1]]
  /\ UNCHANGED <<lapsed, jar, page, call, refresh, loads, clash>>

SignIn(t) ==
  /\ login[t].state = "granted"
  /\ jar' = login[t].session
  /\ page' = [page EXCEPT ![t].token = login[t].session]
  /\ call' = [call EXCEPT ![t]["check"] = Sent(login[t].session)]
  /\ login' = [login EXCEPT ![t] = NoLogin]
  /\ UNCHANGED <<issued, live, lapsed, refresh, loads, clash>>

\* The endpoint needs no access token: it revokes the cookie's session and
\* clears the cookie; the page is loaded anew.
Logout(t) ==
  /\ page[t].where # "login"
  /\ page[t].user
  /\ CanLeave(t)
  /\ live' = live \ {jar}
  /\ jar' = 0
  /\ clash' = (clash \/ \E r \in Tab \cup {Stray} : Presented(r, jar))
  /\ Opened(t, "login")
  /\ refresh' = Left(t)
  /\ UNCHANGED <<issued, lapsed, login, loads>>

-----------------------------------------------------------------------------
Lapse(token) ==
  /\ Cardinality(lapsed) < MaxLapses
  /\ lapsed' = lapsed \cup {token}
  /\ UNCHANGED <<issued, live, jar, page, call, refresh, login, loads, clash>>

\* A password reset, a change of role; or a suspension, after which no access
\* token is good either.
EndSessions ==
  /\ "ended" \in Faults
  /\ ~clash
  /\ live' = {}
  /\ clash' = TRUE
  /\ lapsed' \in {lapsed, Session}
  /\ UNCHANGED <<issued, jar, page, call, refresh, login, loads>>

-----------------------------------------------------------------------------
(* What the browser and the server do by themselves. *)
Progress ==
  \/ \E t \in Tab, c \in Me \cup Query :
       Serve(t, c) \/ Break(t, c) \/ Lead(t, c) \/ Enqueue(t, c) \/ GiveUp(t, c)
  \/ \E r \in Tab \cup {Stray} : Check(r) \/ Shed(r) \/ Rotate(r) \/ RevokeAll(r)
  \/ \E t \in Tab : Grant(t) \/ Refuse(t) \/ OpenSession(t) \/ SignIn(t) \/ Redirect(t)
  \/ TakeStray

(* What people, and time, do. *)
Choice ==
  \/ \E t \in Desk, where \in Where : Open(t, where)
  \/ \E t \in Tab, q \in Query : Send(t, q)
  \/ \E t \in Desk : Submit(t) \/ Logout(t)
  \/ \E token \in Session \ lapsed : Lapse(token)
  \/ EndSessions
  \/ \E r \in Tab \cup {Stray} : Lose(r)

Next == Progress \/ Choice

\* Answers arrive and handlers run; nobody has to use the console.
Spec == Init /\ [][Next]_vars /\ WF_vars(Progress)

-----------------------------------------------------------------------------
\* A request waits in failedQueue only while its page has a refresh under way
\* that will drain the queue, and only one request leads it.
QueueHasRefresh ==
  \A t \in Tab :
    /\ (\E c \in Me \cup Query : Waiting(call[t][c])) => refresh[t] # NoRefresh
    /\ page[t].refreshing <=> Cardinality({c \in Me \cup Query : call[t][c].state = "leading"}) = 1

\* The cookie is that of a live session, or its successor is on its way, until
\* two pages presented one cookie, an answer was lost, or the sessions were
\* ended elsewhere: requests that fail together in one page do not sign it out.
OnlyClashSignsOut ==
  clash \/ jar = 0 \/ jar \in live
    \/ \E r \in Tab \cup {Stray} : refresh[r].state = "granted" /\ refresh[r].cookie = jar

\* Every request of a page is answered, whatever comes of the refreshes it
\* waits for, unless the page is left.
EveryCallSettles ==
  \A t \in Tab, c \in Me \cup Query :
    call[t][c].state \in Pending ~> call[t][c].state \notin Pending

\* Every page learns who is signed in, or that nobody is, and lets the visitor
\* in or shows the login form.
EveryPageDecides ==
  \A t \in Tab : page[t].loading ~> (page[t].user \/ page[t].where = "login")
=============================================================================
