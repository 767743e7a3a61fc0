----------------------------- MODULE Browser_proofs -----------------------------
(***************************************************************************)
(* What holds of Browser for any number of tabs and requests, and however  *)
(* often people sign in, reload and leave.                                 *)
(***************************************************************************)
EXTENDS Browser, FiniteSetTheorems, TLAPS

Calls == Me \cup Query
Refresher == Tab \cup {Stray}

\* The parts of TypeOK, for a set S of sessions.
PageSet(S) ==
  [where: Pages, token: S \cup {0}, refreshing: BOOLEAN, user: BOOLEAN, loading: BOOLEAN]
CallSet(S) == [state: CallState, token: S \cup {0}, retried: BOOLEAN]
RefreshSet(S) ==
  {NoRefresh} \cup [state: {"asked", "checked", "caught", "refused"}, cookie: S \cup {0}]
              \cup [state: {"granted"}, cookie: S \cup {0}, session: S]
LoginSet(S) == [state: {"none", "asked"}] \cup [state: {"granted"}, session: S]

LEMMA Parts ==
  TypeOK <=> /\ issued \in Nat
             /\ live \subseteq Session
             /\ lapsed \subseteq Session
             /\ jar \in Session \cup {0}
             /\ page \in [Tab -> PageSet(Session)]
             /\ call \in [Tab -> [Calls -> CallSet(Session)]]
             /\ refresh \in [Refresher -> RefreshSet(Session)]
             /\ login \in [Tab -> LoginSet(Session)]
             /\ loads \in 0..MaxLoads
             /\ clash \in BOOLEAN
BY DEF TypeOK, PageSet, CallSet, RefreshSet, LoginSet, Calls, Refresher, Token

LEMMA PartsAfter ==
  TypeOK' <=> /\ issued' \in Nat
              /\ live' \subseteq Session'
              /\ lapsed' \subseteq Session'
              /\ jar' \in Session' \cup {0}
              /\ page' \in [Tab -> PageSet(Session')]
              /\ call' \in [Tab -> [Calls -> CallSet(Session')]]
              /\ refresh' \in [Refresher -> RefreshSet(Session')]
              /\ login' \in [Tab -> LoginSet(Session')]
              /\ loads' \in 0..MaxLoads
              /\ clash' \in BOOLEAN
BY DEF TypeOK, PageSet, CallSet, RefreshSet, LoginSet, Calls, Refresher, Token

LEMMA SetsGrow ==
  ASSUME NEW S, NEW T, S \subseteq T
  PROVE  /\ PageSet(S) \subseteq PageSet(T) /\ CallSet(S) \subseteq CallSet(T)
         /\ RefreshSet(S) \subseteq RefreshSet(T) /\ LoginSet(S) \subseteq LoginSet(T)
BY DEF PageSet, CallSet, RefreshSet, LoginSet

\* A refresh or a login opens a session; the others keep their numbers.
LEMMA OneMore ==
  ASSUME TypeOK, issued' = issued + 1
  PROVE  /\ issued' \in Nat
         /\ Session' = Session \cup {issued + 1}
         /\ issued + 1 \notin Session
         /\ issued + 1 # 0
         /\ 0 \notin Session
BY Parts DEF Session

-----------------------------------------------------------------------------
(* What the operators of the pages return *)

LEMMA NewPages ==
  ASSUME NEW S, NEW where \in Pages
  PROVE  /\ NewPage(where) \in PageSet(S)
         /\ NewPage(where).refreshing = FALSE
         /\ NewCalls \in [Calls -> CallSet(S)]
         /\ \A c \in Calls : NewCalls[c].state \notin {"leading", "queued"}
         /\ NewCalls["check"].state \notin Pending
<1>1. Sent(0) \in CallSet(S) /\ Unsent \in CallSet(S)
  BY DEF Sent, Unsent, CallSet, CallState
<1>2. Sent(0).state = "sent" /\ Unsent.state = "none"
  BY DEF Sent, Unsent
<1>3. NewCalls = [c \in Calls |-> IF c = "load" THEN Sent(0) ELSE Unsent] /\ "check" \in Calls
  BY DEF NewCalls, Calls, Me
<1>4. NewPage(where) \in PageSet(S) /\ NewPage(where).refreshing = FALSE
  BY DEF NewPage, PageSet
<1> HIDE DEF NewCalls, Sent, Unsent
<1>5. QED BY <1>1, <1>2, <1>3, <1>4 DEF Pending

LEMMA ToldPage ==
  ASSUME NEW S, NEW p \in PageSet(S), NEW c, NEW ok \in BOOLEAN
  PROVE  Told(p, c, ok) \in PageSet(S) /\ Told(p, c, ok).refreshing = p.refreshing
<1>1. CASE c \in Me
  <2> DEFINE to == IF c = "check" /\ p.where = "login" THEN "dashboard" ELSE p.where
  <2>1. to \in Pages
    BY DEF PageSet, Pages
  <2>2. Told(p, c, ok) = [p EXCEPT !.user = ok, !.loading = FALSE, !.where = to]
    BY <1>1 DEF Told
  <2> HIDE DEF to
  <2>3. QED BY <2>1, <2>2 DEF PageSet
<1>2. CASE c \notin Me
  BY <1>2 DEF Told
<1>3. QED BY <1>1, <1>2

LEMMA PageTokens ==
  ASSUME NEW S, NEW p \in PageSet(S), NEW token \in S \cup {0}
  PROVE  /\ [p EXCEPT !.token = token] \in PageSet(S)
         /\ [p EXCEPT !.token = token].refreshing = p.refreshing
         /\ [p EXCEPT !.token = token, !.refreshing = FALSE] \in PageSet(S)
         /\ [p EXCEPT !.token = token, !.refreshing = FALSE].refreshing = FALSE
BY DEF PageSet

LEMMA PageEdits ==
  ASSUME NEW S, NEW p \in PageSet(S)
  PROVE  /\ [p EXCEPT !.refreshing = TRUE] \in PageSet(S)
         /\ [p EXCEPT !.refreshing = TRUE].refreshing = TRUE
         /\ [p EXCEPT !.where = "login"] \in PageSet(S)
         /\ [p EXCEPT !.where = "login"].refreshing = p.refreshing
BY DEF PageSet, Pages

LEMMA RejectedPage ==
  ASSUME NEW S, NEW p \in PageSet(S), NEW calls
  PROVE  ToldOfRejection(p, calls) \in PageSet(S) /\ ToldOfRejection(p, calls).refreshing = FALSE
<1> DEFINE wiped == [p EXCEPT !.token = 0, !.refreshing = FALSE]
           loaded == IF Waiting(calls["load"]) THEN Told(wiped, "load", FALSE) ELSE wiped
<1>1. wiped \in PageSet(S) /\ wiped.refreshing = FALSE
  BY DEF PageSet
<1>2. loaded \in PageSet(S) /\ loaded.refreshing = FALSE
  <2> HIDE DEF wiped
  <2>1. Told(wiped, "load", FALSE) \in PageSet(S) /\ Told(wiped, "load", FALSE).refreshing = FALSE
    BY <1>1, ToldPage
  <2>2. QED BY <1>1, <2>1
<1>3. ToldOfRejection(p, calls) = IF Waiting(calls["check"]) THEN Told(loaded, "check", FALSE) ELSE loaded
  BY DEF ToldOfRejection
<1> HIDE DEF loaded
<1>4. Told(loaded, "check", FALSE) \in PageSet(S) /\ Told(loaded, "check", FALSE).refreshing = FALSE
  BY <1>2, ToldPage
<1>5. CASE Waiting(calls["check"])
  BY <1>3, <1>4, <1>5
<1>6. CASE ~Waiting(calls["check"])
  BY <1>2, <1>3, <1>6
<1>7. QED BY <1>5, <1>6

\* The calls of a page whose refresh was answered: none waits any more.
LEMMA Drained ==
  ASSUME NEW S, NEW calls \in [Calls -> CallSet(S)], NEW token \in S \cup {0}
  PROVE  /\ Resent(calls, token) \in [Calls -> CallSet(S)]
         /\ Rejected(calls) \in [Calls -> CallSet(S)]
         /\ \A c \in Calls : /\ Resent(calls, token)[c].state \notin {"leading", "queued"}
                             /\ Rejected(calls)[c].state \notin {"leading", "queued"}
                             /\ calls[c].state \notin Pending =>
                                  /\ Resent(calls, token)[c].state \notin Pending
                                  /\ Rejected(calls)[c].state \notin Pending
<1>1. ASSUME NEW c \in Calls
      PROVE  /\ [calls[c] EXCEPT !.state = "sent", !.token = token] \in CallSet(S)
             /\ [calls[c] EXCEPT !.state = "sent", !.token = token].state = "sent"
             /\ [calls[c] EXCEPT !.state = "failed"] \in CallSet(S)
             /\ [calls[c] EXCEPT !.state = "failed"].state = "failed"
  BY DEF CallSet, CallState
<1>2. Resent(calls, token) =
        [c \in Calls |-> IF Waiting(calls[c]) THEN [calls[c] EXCEPT !.state = "sent", !.token = token]
                         ELSE calls[c]]
  BY DEF Resent
<1>3. Rejected(calls) =
        [c \in Calls |-> IF Waiting(calls[c]) THEN [calls[c] EXCEPT !.state = "failed"] ELSE calls[c]]
  BY DEF Rejected
<1>4. ASSUME NEW c \in Calls
      PROVE  /\ Resent(calls, token)[c] \in CallSet(S)
             /\ Resent(calls, token)[c].state \notin {"leading", "queued"}
             /\ calls[c].state \notin Pending => Resent(calls, token)[c].state \notin Pending
  BY <1>1, <1>2, <1>4 DEF Waiting, Pending
<1>5. ASSUME NEW c \in Calls
      PROVE  /\ Rejected(calls)[c] \in CallSet(S)
             /\ Rejected(calls)[c].state \notin {"leading", "queued"}
             /\ calls[c].state \notin Pending => Rejected(calls)[c].state \notin Pending
  BY <1>1, <1>3, <1>5 DEF Waiting, Pending
<1>6. Resent(calls, token) \in [Calls -> CallSet(S)]
  BY <1>2, <1>4
<1>7. Rejected(calls) \in [Calls -> CallSet(S)]
  BY <1>3, <1>5
<1>8. QED BY <1>4, <1>5, <1>6, <1>7

\* One call of one page goes on to another state.
CallGoes(t, c, s) == call' = [call EXCEPT ![t][c].state = s]

LEMMA CallMoves ==
  ASSUME TypeOK, NEW t \in Tab, NEW c \in Calls, NEW s \in CallState, CallGoes(t, c, s)
  PROVE  /\ call' \in [Tab -> [Calls -> CallSet(Session)]]
         /\ call'[t][c].state = s
         /\ \A u \in Tab, d \in Calls : u # t \/ d # c => call'[u][d] = call[u][d]
<1>1. call \in [Tab -> [Calls -> CallSet(Session)]]
  BY Parts
<1>2. call[t][c] \in CallSet(Session)
  BY <1>1
<1>3. [call[t][c] EXCEPT !.state = s] \in CallSet(Session)
      /\ [call[t][c] EXCEPT !.state = s].state = s
  BY <1>2 DEF CallSet
<1>4. call' = [call EXCEPT ![t] = [call[t] EXCEPT ![c] = [call[t][c] EXCEPT !.state = s]]]
  BY DEF CallGoes
<1>5. QED BY <1>1, <1>3, <1>4

-----------------------------------------------------------------------------
(* Types *)

LEMMA InitTyped == Init /\ BrowserAssumption => TypeOK
<1> SUFFICES ASSUME Init, BrowserAssumption PROVE TypeOK
  OBVIOUS
<1>1. issued \in Nat /\ Session = 1..1 /\ live \subseteq Session
  BY DEF Init, Session
<1>2. page \in [Tab -> PageSet(Session)]
  <2>1. \A where \in Where : NewPage(where) \in PageSet(Session)
    BY NewPages DEF BrowserAssumption
  <2>2. QED BY <2>1 DEF Init
<1>3. call \in [Tab -> [Calls -> CallSet(Session)]]
  <2>1. "login" \in Pages
    BY DEF Pages
  <2>2. NewCalls \in [Calls -> CallSet(Session)]
    BY <2>1, NewPages
  <2>3. QED BY <2>2 DEF Init
<1>4. refresh \in [Refresher -> RefreshSet(Session)]
  BY DEF Init, Refresher, RefreshSet
<1>5. login \in [Tab -> LoginSet(Session)]
  BY DEF Init, LoginSet, NoLogin
<1>6. /\ lapsed \subseteq Session
      /\ jar \in Session \cup {0}
      /\ loads \in 0..MaxLoads
  BY <1>1 DEF Init, BrowserAssumption
<1>7. clash \in BOOLEAN
  BY DEF Init
<1>8. QED BY <1>1, <1>2, <1>3, <1>4, <1>5, <1>6, <1>7, Parts

\* What a page answered leaves of the types.
LEMMA Settled ==
  ASSUME TypeOK, NEW t \in Tab, NEW c \in Calls, NEW ok \in BOOLEAN, Settle(t, c, ok)
  PROVE  /\ call' \in [Tab -> [Calls -> CallSet(Session)]]
         /\ page' \in [Tab -> PageSet(Session)]
         /\ call'[t][c].state \in {"done", "failed"}
         /\ \A u \in Tab, d \in Calls : u # t \/ d # c => call'[u][d] = call[u][d]
         /\ \A u \in Tab : page'[u].refreshing = page[u].refreshing
<1> DEFINE s == IF ok THEN "done" ELSE "failed"
<1>1. s \in CallState /\ s \in {"done", "failed"}
  BY DEF CallState
<1>2. call' = [call EXCEPT ![t][c].state = s]
  BY DEF Settle
<1> HIDE DEF s
<1>3. page \in [Tab -> PageSet(Session)]
  BY Parts
<1>4. Told(page[t], c, ok) \in PageSet(Session) /\ Told(page[t], c, ok).refreshing = page[t].refreshing
  BY <1>3, ToldPage
<1>5. page' = [page EXCEPT ![t] = Told(page[t], c, ok)]
  BY DEF Settle
<1>6. page' \in [Tab -> PageSet(Session)] /\ \A u \in Tab : page'[u].refreshing = page[u].refreshing
  BY <1>3, <1>4, <1>5
<1>7. /\ call' \in [Tab -> [Calls -> CallSet(Session)]]
      /\ call'[t][c].state = s
      /\ \A u \in Tab, d \in Calls : u # t \/ d # c => call'[u][d] = call[u][d]
  <2>1. TypeOK /\ s \in CallState
    BY <1>1
  <2>2. CallGoes(t, c, s)
    BY <1>2 DEF CallGoes
  <2>3. QED BY <2>1, <2>2, CallMoves
<1>8. QED BY <1>1, <1>6, <1>7

\* A refresh that goes on to another state keeps its cookie.
LEMMA RefreshMoves ==
  ASSUME NEW S, NEW f \in RefreshSet(S), f # NoRefresh, f.state # "granted",
         NEW s \in {"asked", "checked", "caught", "refused"}
  PROVE  /\ [f EXCEPT !.state = s] \in RefreshSet(S)
         /\ [f EXCEPT !.state = s].state = s
         /\ [f EXCEPT !.state = s].cookie = f.cookie
         /\ [f EXCEPT !.state = s] # NoRefresh
<1>1. f \in [state: {"asked", "checked", "caught", "refused"}, cookie: S \cup {0}]
  BY DEF RefreshSet
<1>2. [f EXCEPT !.state = s] \in [state: {"asked", "checked", "caught", "refused"}, cookie: S \cup {0}]
      /\ [f EXCEPT !.state = s].state = s /\ [f EXCEPT !.state = s].cookie = f.cookie
  BY <1>1
<1>3. [f EXCEPT !.state = s].state # "none" /\ NoRefresh.state = "none"
  BY <1>2 DEF NoRefresh
<1> DEFINE g == [f EXCEPT !.state = s]
<1> HIDE DEF g
<1>4. g \in RefreshSet(S) /\ g # NoRefresh
  BY <1>2, <1>3 DEF RefreshSet, g
<1>5. QED BY <1>2, <1>4 DEF g

\* What is said of a refresh by its state.
LEMMA RefreshParts ==
  ASSUME NEW S, NEW f \in RefreshSet(S)
  PROVE  /\ f.state \in {"none", "asked", "checked", "caught", "refused", "granted"}
         /\ f.state = "none" <=> f = NoRefresh
         /\ f # NoRefresh => f.cookie \in S \cup {0}
         /\ f.state = "granted" => f.session \in S
BY DEF RefreshSet, NoRefresh

LEMMA LoginParts ==
  ASSUME NEW S, NEW f \in LoginSet(S)
  PROVE  /\ f.state \in {"none", "asked", "granted"}
         /\ f.state = "none" <=> f = NoLogin
         /\ f.state = "granted" => f.session \in S
BY DEF LoginSet, NoLogin

\* The refresh of a page that is left.
LEMMA LeftTyped ==
  ASSUME TypeOK, NEW t \in Tab, "stray" \notin Tab
  PROVE  /\ Left(t) \in [Refresher -> RefreshSet(Session)]
         /\ Left(t)[t] = NoRefresh
         /\ \A u \in Tab : u # t => Left(t)[u] = refresh[u]
         /\ Left(t)[Stray] = IF refresh[t] = NoRefresh THEN refresh[Stray] ELSE refresh[t]
<1>1. refresh \in [Refresher -> RefreshSet(Session)] /\ NoRefresh \in RefreshSet(Session)
  BY Parts DEF RefreshSet
<1>2. t \in Refresher /\ Stray \in Refresher /\ Stray \notin Tab /\ Tab \subseteq Refresher
  BY DEF Refresher, Stray
<1>3. CASE refresh[t] = NoRefresh
  BY <1>1, <1>2, <1>3 DEF Left
<1>4. CASE refresh[t] # NoRefresh
  <2>1. Left(t) = [refresh EXCEPT ![t] = NoRefresh, ![Stray] = refresh[t]]
    BY <1>4 DEF Left
  <2>2. /\ Left(t)[t] = NoRefresh /\ Left(t)[Stray] = refresh[t]
        /\ \A u \in Tab : u # t => Left(t)[u] = refresh[u]
    BY <1>1, <1>2, <2>1
  <2>3. Left(t) \in [Refresher -> RefreshSet(Session)]
    <3>1. refresh[t] \in RefreshSet(Session)
      BY <1>1, <1>2
    <3>2. QED BY <1>1, <3>1, <2>1
  <2>4. QED BY <1>4, <2>2, <2>3
<1>5. QED BY <1>3, <1>4

\* A page that is opened.
LEMMA OpenedTyped ==
  ASSUME TypeOK, NEW t \in Tab, NEW where \in Pages, Opened(t, where)
  PROVE  /\ page' \in [Tab -> PageSet(Session)] /\ call' \in [Tab -> [Calls -> CallSet(Session)]]
         /\ page'[t].refreshing = FALSE
         /\ \A c \in Calls : call'[t][c].state \notin {"leading", "queued"}
         /\ call'[t]["check"].state \notin Pending
         /\ \A u \in Tab : u # t => page'[u] = page[u] /\ call'[u] = call[u]
<1>1. page \in [Tab -> PageSet(Session)] /\ call \in [Tab -> [Calls -> CallSet(Session)]]
  BY Parts
<1>2. page' = [page EXCEPT ![t] = NewPage(where)] /\ call' = [call EXCEPT ![t] = NewCalls]
  BY DEF Opened
<1>3. /\ NewPage(where) \in PageSet(Session)
      /\ NewPage(where).refreshing = FALSE
      /\ NewCalls \in [Calls -> CallSet(Session)]
      /\ \A c \in Calls : NewCalls[c].state \notin {"leading", "queued"}
      /\ NewCalls["check"].state \notin Pending
  BY NewPages
<1>4. page'[t] = NewPage(where) /\ call'[t] = NewCalls
  BY <1>1, <1>2
<1>5. page' \in [Tab -> PageSet(Session)] /\ call' \in [Tab -> [Calls -> CallSet(Session)]]
  BY <1>1, <1>2, <1>3
<1>6. \A u \in Tab : u # t => page'[u] = page[u] /\ call'[u] = call[u]
  BY <1>1, <1>2
<1>7. QED BY <1>3, <1>4, <1>5, <1>6

LEMMA StepTyped ==
  ASSUME TypeOK, BrowserAssumption, Next
  PROVE  TypeOK'
<1>0. /\ issued \in Nat /\ live \subseteq Session /\ lapsed \subseteq Session
      /\ jar \in Session \cup {0}
      /\ page \in [Tab -> PageSet(Session)]
      /\ call \in [Tab -> [Calls -> CallSet(Session)]]
      /\ refresh \in [Refresher -> RefreshSet(Session)]
      /\ login \in [Tab -> LoginSet(Session)]
      /\ loads \in 0..MaxLoads
      /\ clash \in BOOLEAN
  BY Parts
<1>s. issued' = issued => Session' = Session
  BY DEF Session
<1>r. Tab \subseteq Refresher /\ Stray \in Refresher
  BY DEF Refresher
<1>n. NoRefresh \in RefreshSet(Session) /\ NoLogin \in LoginSet(Session)
  BY DEF RefreshSet, LoginSet, NoLogin
<1>q. ASSUME UNCHANGED <<issued, live, lapsed, jar, refresh, login, loads, clash>>,
             page' \in [Tab -> PageSet(Session)], call' \in [Tab -> [Calls -> CallSet(Session)]]
      PROVE  TypeOK'
  BY <1>0, <1>s, <1>q, PartsAfter
<1>1. ASSUME NEW t \in Tab, NEW c \in Calls, Serve(t, c) PROVE TypeOK'
  <2>1. CASE Valid(call[t][c].token)
    <3>1. Settle(t, c, TRUE) /\ UNCHANGED <<issued, live, lapsed, jar, refresh, login, loads, clash>>
      BY <1>1, <2>1 DEF Serve
    <3>2. QED BY <3>1, <1>q, Settled
  <2>2. CASE ~Valid(call[t][c].token)
    <3>1. call' = [call EXCEPT ![t][c].state = "refused"]
          /\ UNCHANGED <<issued, live, lapsed, jar, page, refresh, login, loads, clash>>
      BY <1>1, <2>2 DEF Serve
    <3>2. "refused" \in CallState
      BY DEF CallState
    <3>3. CallGoes(t, c, "refused")
      BY <3>1 DEF CallGoes
    <3>4. call' \in [Tab -> [Calls -> CallSet(Session)]]
      BY <3>2, <3>3, CallMoves
    <3>5. QED BY <3>1, <3>4, <1>0, <1>q
  <2>3. QED BY <2>1, <2>2
<1>2. ASSUME NEW t \in Tab, NEW c \in Calls, Lead(t, c) PROVE TypeOK'
  <2>1. call' \in [Tab -> [Calls -> CallSet(Session)]]
    <3>1. call[t][c] \in CallSet(Session)
      BY <1>0
    <3>2. [call[t][c] EXCEPT !.state = "leading", !.retried = TRUE] \in CallSet(Session)
      BY <3>1 DEF CallSet, CallState
    <3>3. call' = [call EXCEPT ![t] = [call[t] EXCEPT ![c] =
                     [call[t][c] EXCEPT !.state = "leading", !.retried = TRUE]]]
      BY <1>2, <1>0 DEF Lead
    <3>4. QED BY <3>2, <3>3, <1>0
  <2>2. page' \in [Tab -> PageSet(Session)]
    <3>1. page' = [page EXCEPT ![t] = [page[t] EXCEPT !.refreshing = TRUE]]
      BY <1>0, <1>2 DEF Lead
    <3>2. [page[t] EXCEPT !.refreshing = TRUE] \in PageSet(Session)
      <4>1. page[t] \in PageSet(Session)
        BY <1>0
      <4>2. QED BY <4>1, PageEdits
    <3>3. QED BY <1>0, <3>1, <3>2
  <2>3. refresh' \in [Refresher -> RefreshSet(Session)]
    <3>1. [state |-> "asked", cookie |-> jar] \in RefreshSet(Session)
      BY <1>0 DEF RefreshSet
    <3>2. refresh' = [refresh EXCEPT ![t] = [state |-> "asked", cookie |-> jar]]
      BY <1>2 DEF Lead
    <3>3. QED BY <1>0, <1>r, <3>1, <3>2
  <2>4. clash' \in BOOLEAN
    BY <1>2 DEF Lead
  <2>5. UNCHANGED <<issued, live, lapsed, jar, login, loads>>
    BY <1>2 DEF Lead
  <2>6. QED BY <2>1, <2>2, <2>3, <2>4, <2>5, <1>0, <1>s, PartsAfter
<1>3. ASSUME NEW t \in Tab, NEW c \in Calls, Enqueue(t, c) PROVE TypeOK'
  <2>1. call' = [call EXCEPT ![t][c].state = "queued"]
        /\ UNCHANGED <<issued, live, lapsed, jar, page, refresh, login, loads, clash>>
    BY <1>3 DEF Enqueue
  <2>2. "queued" \in CallState
    BY DEF CallState
  <2>3. CallGoes(t, c, "queued")
    BY <2>1 DEF CallGoes
  <2>4. call' \in [Tab -> [Calls -> CallSet(Session)]]
    BY <2>2, <2>3, CallMoves
  <2>5. QED BY <2>1, <2>4, <1>0, <1>q
<1>4. ASSUME NEW t \in Tab, NEW c \in Calls, GiveUp(t, c) \/ Break(t, c) PROVE TypeOK'
  <2>1. Settle(t, c, FALSE) /\ UNCHANGED <<issued, live, lapsed, jar, refresh, login, loads, clash>>
    BY <1>4 DEF GiveUp, Break
  <2>2. QED BY <2>1, <1>q, Settled
<1>x. ASSUME NEW r \in Refresher, NEW s \in {"asked", "checked", "caught", "refused"},
             refresh[r].state \in {"asked", "checked", "caught"}, Reach(r, s)
      PROVE  refresh' \in [Refresher -> RefreshSet(Session)]
  <2>1. refresh[r] \in RefreshSet(Session)
    BY <1>0
  <2>2. refresh[r] # NoRefresh /\ refresh[r].state # "granted"
    BY <1>x DEF NoRefresh
  <2>3. [refresh[r] EXCEPT !.state = s] \in RefreshSet(Session)
    BY <2>1, <2>2, RefreshMoves
  <2>4. refresh' = [refresh EXCEPT ![r] = [refresh[r] EXCEPT !.state = s]]
    BY <1>x DEF Reach
  <2>5. QED BY <2>3, <2>4, <1>0
<1>5. ASSUME NEW r \in Refresher, Check(r) PROVE TypeOK'
  <2> DEFINE s == IF refresh[r].cookie = 0 THEN "refused"
                  ELSE IF refresh[r].cookie \in live THEN "checked" ELSE "caught"
  <2>1. Reach(r, s) /\ refresh[r].state = "asked"
        /\ UNCHANGED <<issued, live, lapsed, jar, page, call, login, loads, clash>>
    BY <1>5 DEF Check
  <2>2. s \in {"asked", "checked", "caught", "refused"}
    OBVIOUS
  <2> HIDE DEF s
  <2>3. refresh' \in [Refresher -> RefreshSet(Session)]
    BY <2>1, <2>2, <1>x
  <2>4. QED BY <2>1, <2>3, <1>0, <1>s, PartsAfter
<1>d. ASSUME NEW r \in Refresher, Shed(r) PROVE TypeOK'
  <2>1. Reach(r, "refused") /\ refresh[r].state = "asked"
        /\ UNCHANGED <<issued, live, lapsed, jar, page, call, login, loads, clash>>
    BY <1>d DEF Shed
  <2>2. refresh' \in [Refresher -> RefreshSet(Session)]
    BY <2>1, <1>x
  <2>3. QED BY <2>1, <2>2, <1>0, <1>s, PartsAfter
<1>6. ASSUME NEW r \in Refresher, Rotate(r) PROVE TypeOK'
  <2>1. refresh[r].state = "checked" /\ issued' = issued + 1
        /\ live' = (live \ {refresh[r].cookie}) \cup {issued + 1}
        /\ UNCHANGED <<lapsed, jar, page, call, login, loads, clash>>
    BY <1>6 DEF Rotate
  <2>2. Session' = Session \cup {issued + 1} /\ issued' \in Nat
    BY <2>1, OneMore
  <2>3. /\ PageSet(Session) \subseteq PageSet(Session') /\ CallSet(Session) \subseteq CallSet(Session')
        /\ RefreshSet(Session) \subseteq RefreshSet(Session') /\ LoginSet(Session) \subseteq LoginSet(Session')
    <3>1. Session \subseteq Session'
      BY <2>2
    <3> DEFINE S == Session
               T == Session'
    <3> HIDE DEF S, T
    <3>2. S \subseteq T
      BY <3>1 DEF S, T
    <3>3. /\ PageSet(S) \subseteq PageSet(T) /\ CallSet(S) \subseteq CallSet(T)
          /\ RefreshSet(S) \subseteq RefreshSet(T) /\ LoginSet(S) \subseteq LoginSet(T)
      BY <3>2, SetsGrow
    <3>4. QED BY <3>3 DEF S, T
  <2>4. refresh' \in [Refresher -> RefreshSet(Session')]
    <3>1. refresh[r].cookie \in Session \cup {0}
      BY <1>0, <2>1, RefreshParts DEF NoRefresh
    <3>2. [state |-> "granted", cookie |-> refresh[r].cookie, session |-> issued + 1] \in RefreshSet(Session')
      BY <2>2, <3>1 DEF RefreshSet
    <3>3. refresh' = [refresh EXCEPT ![r] = [state |-> "granted", cookie |-> refresh[r].cookie,
                                             session |-> issued + 1]]
      BY <1>6 DEF Rotate
    <3>4. refresh \in [Refresher -> RefreshSet(Session')]
      BY <1>0, <2>3
    <3>5. QED BY <3>2, <3>3, <3>4
  <2>5. page \in [Tab -> PageSet(Session')] /\ login \in [Tab -> LoginSet(Session')]
    BY <1>0, <2>3
  <2>6. call \in [Tab -> [Calls -> CallSet(Session')]]
    BY <1>0, <2>3
  <2>7. live' \subseteq Session' /\ lapsed' \subseteq Session' /\ jar' \in Session' \cup {0}
    BY <1>0, <2>1, <2>2
  <2>8. QED BY <1>0, <2>1, <2>2, <2>4, <2>5, <2>6, <2>7, PartsAfter
<1>7. ASSUME NEW r \in Refresher, RevokeAll(r) PROVE TypeOK'
  <2>1. Reach(r, "refused") /\ refresh[r].state = "caught" /\ live' = {}
        /\ UNCHANGED <<issued, lapsed, jar, page, call, login, loads, clash>>
    BY <1>7 DEF RevokeAll
  <2>2. refresh' \in [Refresher -> RefreshSet(Session)]
    BY <2>1, <1>x
  <2>3. QED BY <2>1, <2>2, <1>0, <1>s, PartsAfter
<1>8. ASSUME NEW t \in Tab, Grant(t) PROVE TypeOK'
  <2>1. refresh[t].state = "granted" /\ jar' = refresh[t].session
        /\ UNCHANGED <<issued, live, lapsed, login, loads, clash>>
        /\ page' = [page EXCEPT ![t] = [page[t] EXCEPT !.token = refresh[t].session,
                                                       !.refreshing = FALSE]]
        /\ call' = [call EXCEPT ![t] = Resent(call[t], refresh[t].session)]
        /\ refresh' = [refresh EXCEPT ![t] = NoRefresh]
    BY <1>8, <1>0 DEF Grant
  <2>2. refresh[t].session \in Session
    BY <1>0, <1>r, <2>1, RefreshParts
  <2>3. page' \in [Tab -> PageSet(Session)]
    <3>1. [page[t] EXCEPT !.token = refresh[t].session, !.refreshing = FALSE] \in PageSet(Session)
      <4>1. page[t] \in PageSet(Session)
        BY <1>0
      <4>2. QED BY <4>1, <2>2, PageTokens
    <3>2. QED BY <1>0, <2>1, <3>1
  <2>4. call' \in [Tab -> [Calls -> CallSet(Session)]]
    <3>1. Resent(call[t], refresh[t].session) \in [Calls -> CallSet(Session)]
      BY <1>0, <2>2, Drained
    <3>2. QED BY <1>0, <2>1, <3>1
  <2>5. refresh' \in [Refresher -> RefreshSet(Session)]
    BY <1>0, <1>n, <2>1
  <2>6. QED BY <1>0, <1>s, <2>1, <2>2, <2>3, <2>4, <2>5, PartsAfter
<1>9. ASSUME NEW t \in Tab, Refuse(t) PROVE TypeOK'
  <2>1. UNCHANGED <<issued, live, lapsed, jar, login, loads, clash>>
        /\ refresh' = [refresh EXCEPT ![t] = NoRefresh]
    BY <1>9 DEF Refuse
  <2>2. refresh' \in [Refresher -> RefreshSet(Session)]
    BY <1>0, <1>n, <2>1
  <2>3. page' \in [Tab -> PageSet(Session)] /\ call' \in [Tab -> [Calls -> CallSet(Session)]]
    <3>1. CASE page[t].where \in StaffPath
      <4>1. Opened(t, "login") /\ "login" \in Pages
        BY <1>9, <3>1 DEF Refuse, Pages
      <4>2. QED BY <4>1, OpenedTyped
    <3>2. CASE page[t].where \notin StaffPath
      <4>1. page' = [page EXCEPT ![t] = ToldOfRejection(page[t], call[t])]
            /\ call' = [call EXCEPT ![t] = Rejected(call[t])]
        BY <1>9, <1>0, <3>2 DEF Refuse
      <4>2. Rejected(call[t]) \in [Calls -> CallSet(Session)]
        <5>1. 0 \in Session \cup {0} /\ call[t] \in [Calls -> CallSet(Session)]
          BY <1>0
        <5>2. QED BY <5>1, Drained
      <4>3. ToldOfRejection(page[t], call[t]) \in PageSet(Session)
        BY <1>0, RejectedPage
      <4>4. QED BY <1>0, <4>1, <4>2, <4>3
    <3>3. QED BY <3>1, <3>2
  <2>4. QED BY <1>0, <1>s, <2>1, <2>2, <2>3, PartsAfter
<1>10. ASSUME NEW t \in Tab, OpenSession(t) PROVE TypeOK'
  <2>1. issued' = issued + 1 /\ live' = live \cup {issued + 1}
        /\ login' = [login EXCEPT ![t] = [state |-> "granted", session |-> issued + 1]]
        /\ UNCHANGED <<lapsed, jar, page, call, refresh, loads, clash>>
    BY <1>10 DEF OpenSession
  <2>2. Session' = Session \cup {issued + 1} /\ issued' \in Nat
    BY <2>1, OneMore
  <2>3. /\ PageSet(Session) \subseteq PageSet(Session') /\ CallSet(Session) \subseteq CallSet(Session')
        /\ RefreshSet(Session) \subseteq RefreshSet(Session') /\ LoginSet(Session) \subseteq LoginSet(Session')
    <3>1. Session \subseteq Session'
      BY <2>2
    <3> DEFINE S == Session
               T == Session'
    <3> HIDE DEF S, T
    <3>2. S \subseteq T
      BY <3>1 DEF S, T
    <3>3. /\ PageSet(S) \subseteq PageSet(T) /\ CallSet(S) \subseteq CallSet(T)
          /\ RefreshSet(S) \subseteq RefreshSet(T) /\ LoginSet(S) \subseteq LoginSet(T)
      BY <3>2, SetsGrow
    <3>4. QED BY <3>3 DEF S, T
  <2>4. login' \in [Tab -> LoginSet(Session')]
    <3>1. [state |-> "granted", session |-> issued + 1] \in LoginSet(Session')
      BY <2>2 DEF LoginSet
    <3>2. login \in [Tab -> LoginSet(Session')]
      BY <1>0, <2>3
    <3>3. QED BY <2>1, <3>1, <3>2
  <2>5. page \in [Tab -> PageSet(Session')] /\ refresh \in [Refresher -> RefreshSet(Session')]
    BY <1>0, <2>3
  <2>6. call \in [Tab -> [Calls -> CallSet(Session')]]
    BY <1>0, <2>3
  <2>7. live' \subseteq Session' /\ lapsed' \subseteq Session' /\ jar' \in Session' \cup {0}
    BY <1>0, <2>1, <2>2
  <2>8. QED BY <1>0, <2>1, <2>2, <2>4, <2>5, <2>6, <2>7, PartsAfter
<1>11. ASSUME NEW t \in Tab, SignIn(t) PROVE TypeOK'
  <2>1. login[t].state = "granted" /\ jar' = login[t].session
        /\ page' = [page EXCEPT ![t] = [page[t] EXCEPT !.token = login[t].session]]
        /\ call' = [call EXCEPT ![t]["check"] = Sent(login[t].session)]
        /\ login' = [login EXCEPT ![t] = NoLogin]
        /\ UNCHANGED <<issued, live, lapsed, refresh, loads, clash>>
    BY <1>0, <1>11 DEF SignIn
  <2>2. login[t].session \in Session
    BY <1>0, <2>1, LoginParts
  <2>3. page' \in [Tab -> PageSet(Session)]
    <3>1. [page[t] EXCEPT !.token = login[t].session] \in PageSet(Session)
      <4>1. page[t] \in PageSet(Session)
        BY <1>0
      <4>2. QED BY <4>1, <2>2, PageTokens
    <3>2. QED BY <1>0, <2>1, <3>1
  <2>4. call' \in [Tab -> [Calls -> CallSet(Session)]]
    <3>1. Sent(login[t].session) \in CallSet(Session)
      BY <2>2 DEF Sent, CallSet, CallState
    <3>2. QED BY <1>0, <2>1, <3>1
  <2>5. login' \in [Tab -> LoginSet(Session)]
    BY <1>0, <1>n, <2>1
  <2>6. QED BY <1>0, <1>s, <2>1, <2>2, <2>3, <2>4, <2>5, PartsAfter
<1>12. ASSUME NEW t \in Tab, Redirect(t) PROVE TypeOK'
  <2>1. page' \in [Tab -> PageSet(Session)]
    <3>1. page' = [page EXCEPT ![t] = [page[t] EXCEPT !.where = "login"]]
      BY <1>0, <1>12 DEF Redirect
    <3>2. [page[t] EXCEPT !.where = "login"] \in PageSet(Session)
      <4>1. page[t] \in PageSet(Session)
        BY <1>0
      <4>2. QED BY <4>1, PageEdits
    <3>3. QED BY <1>0, <3>1, <3>2
  <2>2. UNCHANGED <<issued, live, lapsed, jar, call, refresh, login, loads, clash>>
    BY <1>12 DEF Redirect
  <2>3. QED BY <1>0, <1>q, <2>1, <2>2
<1>13. CASE TakeStray
  <2>1. refresh' = [refresh EXCEPT ![Stray] = NoRefresh]
        /\ UNCHANGED <<issued, live, lapsed, page, call, login, loads>>
    BY <1>13 DEF TakeStray
  <2>2. refresh' \in [Refresher -> RefreshSet(Session)]
    BY <1>0, <1>n, <2>1
  <2>3. jar' \in Session \cup {0}
    BY <1>0, <1>r, <1>13, RefreshParts DEF TakeStray
  <2>4. clash' \in BOOLEAN
    BY <1>0, <1>13 DEF TakeStray
  <2>5. QED BY <1>0, <1>s, <2>1, <2>2, <2>3, <2>4, PartsAfter
<1>l. ASSUME NEW r \in Refresher, Lose(r) PROVE TypeOK'
  <2> DEFINE f == IF r = Stray THEN NoRefresh
                  ELSE [state |-> "refused", cookie |-> refresh[r].cookie]
  <2>1. /\ refresh[r].state = "granted" /\ refresh' = [refresh EXCEPT ![r] = f] /\ clash' = TRUE
        /\ UNCHANGED <<issued, live, lapsed, jar, page, call, login, loads>>
    BY <1>l DEF Lose
  <2>2. refresh[r].cookie \in Session \cup {0}
    <3>1. refresh[r] # NoRefresh /\ refresh[r] \in RefreshSet(Session)
      BY <1>0, <2>1 DEF NoRefresh
    <3>2. QED BY <3>1, RefreshParts
  <2>3. f \in RefreshSet(Session)
    BY <1>n, <2>2 DEF RefreshSet
  <2> HIDE DEF f
  <2>4. refresh' \in [Refresher -> RefreshSet(Session)]
    BY <1>0, <2>1, <2>3
  <2>5. QED BY <1>0, <1>s, <2>1, <2>4, PartsAfter
<1>14. ASSUME NEW t \in Tab, NEW where \in Pages, Open(t, where) PROVE TypeOK'
  <2>1. loads < MaxLoads /\ loads' = loads + 1 /\ Opened(t, where) /\ refresh' = Left(t)
        /\ UNCHANGED <<issued, live, lapsed, jar, login, clash>>
    BY <1>14 DEF Open
  <2>2. loads' \in 0..MaxLoads
    BY <1>0, <2>1 DEF BrowserAssumption
  <2>3. refresh' \in [Refresher -> RefreshSet(Session)]
    BY <2>1, LeftTyped DEF BrowserAssumption
  <2>4. page' \in [Tab -> PageSet(Session)] /\ call' \in [Tab -> [Calls -> CallSet(Session)]]
    BY <2>1, OpenedTyped
  <2>5. QED BY <1>0, <1>s, <2>1, <2>2, <2>3, <2>4, PartsAfter
<1>15. ASSUME NEW t \in Tab, NEW q \in Query, Send(t, q) PROVE TypeOK'
  <2>1. call' = [call EXCEPT ![t][q] = Sent(page[t].token)]
        /\ UNCHANGED <<issued, live, lapsed, jar, page, refresh, login, loads, clash>>
    BY <1>15 DEF Send
  <2>2. page[t].token \in Session \cup {0}
    BY <1>0 DEF PageSet
  <2>3. Sent(page[t].token) \in CallSet(Session)
    BY <2>2 DEF Sent, CallSet, CallState
  <2>4. q \in Calls
    BY DEF Calls
  <2>5. call' \in [Tab -> [Calls -> CallSet(Session)]]
    BY <1>0, <2>1, <2>3, <2>4
  <2>6. QED BY <1>0, <1>q, <2>1, <2>5
<1>16. ASSUME NEW t \in Tab, Submit(t) PROVE TypeOK'
  <2>1. login' = [login EXCEPT ![t] = [state |-> "asked"]]
        /\ UNCHANGED <<issued, live, lapsed, jar, page, call, refresh, loads, clash>>
    BY <1>16 DEF Submit
  <2>2. login' \in [Tab -> LoginSet(Session)]
    BY <1>0, <2>1 DEF LoginSet
  <2>3. QED BY <1>0, <1>s, <2>1, <2>2, PartsAfter
<1>17. ASSUME NEW t \in Tab, Logout(t) PROVE TypeOK'
  <2>1. live' = live \ {jar} /\ jar' = 0 /\ Opened(t, "login") /\ refresh' = Left(t)
        /\ UNCHANGED <<issued, lapsed, login, loads>> /\ "login" \in Pages
    BY <1>17 DEF Logout, Pages
  <2>2. clash' \in BOOLEAN
    BY <1>17 DEF Logout
  <2>3. refresh' \in [Refresher -> RefreshSet(Session)]
    BY <2>1, LeftTyped DEF BrowserAssumption
  <2>4. page' \in [Tab -> PageSet(Session)] /\ call' \in [Tab -> [Calls -> CallSet(Session)]]
    BY <2>1, OpenedTyped
  <2>5. QED BY <1>0, <1>s, <2>1, <2>2, <2>3, <2>4, PartsAfter
<1>18. ASSUME NEW token \in Session, Lapse(token) PROVE TypeOK'
  <2>1. lapsed' = lapsed \cup {token}
        /\ UNCHANGED <<issued, live, jar, page, call, refresh, login, loads, clash>>
    BY <1>18 DEF Lapse
  <2>2. QED BY <1>0, <1>s, <2>1, PartsAfter
<1>19. ASSUME EndSessions PROVE TypeOK'
  <2>1. live' = {} /\ clash' = TRUE /\ lapsed' \in {lapsed, Session}
        /\ UNCHANGED <<issued, jar, page, call, refresh, login, loads>>
    BY <1>19 DEF EndSessions
  <2>2. QED BY <1>0, <1>s, <2>1, PartsAfter
<1>20. QED
  <2>1. Desk \subseteq Tab /\ Where \subseteq Pages
    BY DEF BrowserAssumption
  <2>2. QED
    BY <2>1, <1>1, <1>2, <1>3, <1>4, <1>5, <1>6, <1>7, <1>8, <1>9, <1>10, <1>11, <1>12, <1>13, <1>14,
       <1>15, <1>16, <1>17, <1>18, <1>19, <1>d, <1>l DEF Next, Progress, Choice, Calls, Refresher

\* Every variable keeps its type, whatever the numbers of tabs, pages and logins.
THEOREM TypeCorrect == Spec => []TypeOK
<1>1. Init => TypeOK
  BY InitTyped, BrowserAssumption
<1>2. TypeOK /\ [Next]_vars => TypeOK'
  <2>1. ASSUME TypeOK, Next PROVE TypeOK'
    BY <2>1, StepTyped, BrowserAssumption
  <2>2. ASSUME TypeOK, UNCHANGED vars PROVE TypeOK'
    BY <2>2, Parts, PartsAfter DEF vars, Session
  <2>3. QED BY <2>1, <2>2
<1>3. QED BY <1>1, <1>2, PTL DEF Spec

-----------------------------------------------------------------------------
(* Queues *)

\* A page that refreshes has one request that leads, and others only if it
\* refreshes; the login form asks once its own check is answered.
QueueTab(t) ==
  /\ (page[t].refreshing = TRUE) <=> (refresh[t] # NoRefresh)
  /\ (page[t].refreshing = TRUE) <=> (\E c \in Calls : call[t][c].state = "leading")
  /\ \A c, d \in Calls : call[t][c].state = "leading" /\ call[t][d].state = "leading" => c = d
  /\ page[t].refreshing = FALSE => \A c \in Calls : call[t][c].state # "queued"
  /\ login[t] # NoLogin => call[t]["check"].state \notin Pending

QueueInv == TypeOK /\ \A t \in Tab : QueueTab(t)

\* Nothing about the page's refresh changes.
LEMMA QueueKept ==
  ASSUME NEW u \in Tab, QueueTab(u),
         page'[u].refreshing = page[u].refreshing, call'[u] = call[u],
         refresh'[u] = NoRefresh <=> refresh[u] = NoRefresh,
         login'[u] = login[u] \/ login[u] # NoLogin \/ call[u]["check"].state \notin Pending
  PROVE  QueueTab(u)'
BY DEF QueueTab

\* A request that does not wait goes on to a state in which it does not.
LEMMA QueueCall ==
  ASSUME NEW u \in Tab, QueueTab(u), NEW c \in Calls,
         page'[u].refreshing = page[u].refreshing,
         call[u][c].state \notin {"leading", "queued"},
         call'[u][c].state \notin {"leading", "queued"},
         \A d \in Calls : d # c => call'[u][d] = call[u][d],
         call[u][c].state \in Pending \/ call'[u][c].state \notin Pending \/ c # "check",
         refresh'[u] = refresh[u], login'[u] = login[u]
  PROVE  QueueTab(u)'
<1>1. \A d \in Calls : /\ call'[u][d].state = "leading" <=> call[u][d].state = "leading"
                       /\ call'[u][d].state = "queued" <=> call[u][d].state = "queued"
  OBVIOUS
<1>2. login'[u] # NoLogin => call'[u]["check"].state \notin Pending
  <2>1. "check" \in Calls
    BY DEF Calls, Me
  <2>2. QED BY <2>1 DEF QueueTab
<1>3. QED BY <1>1, <1>2 DEF QueueTab

\* A page none of whose requests waits, and that does not refresh.
LEMMA QueueIdle ==
  ASSUME NEW u \in Tab, page'[u].refreshing = FALSE, refresh'[u] = NoRefresh,
         \A c \in Calls : call'[u][c].state \notin {"leading", "queued"},
         login'[u] # NoLogin => call'[u]["check"].state \notin Pending
  PROVE  QueueTab(u)'
BY DEF QueueTab

LEMMA QueueInit == Init /\ BrowserAssumption => QueueInv
<1> SUFFICES ASSUME Init, BrowserAssumption PROVE QueueInv
  OBVIOUS
<1>1. TypeOK
  BY InitTyped
<1>2. ASSUME NEW t \in Tab PROVE QueueTab(t)
  <2>1. \A where \in Where : NewPage(where).refreshing = FALSE
    BY NewPages DEF BrowserAssumption
  <2>2. page[t].refreshing = FALSE
    BY <2>1 DEF Init
  <2>3. "login" \in Pages
    BY DEF Pages
  <2>4. \A c \in Calls : NewCalls[c].state \notin {"leading", "queued"}
    BY <2>3, NewPages
  <2>5. call[t] = NewCalls /\ refresh[t] = NoRefresh /\ login[t] = NoLogin
    BY DEF Init
  <2>6. QED BY <2>2, <2>4, <2>5 DEF QueueTab
<1>3. QED BY <1>1, <1>2 DEF QueueInv

LEMMA StepQueues ==
  ASSUME QueueInv, BrowserAssumption, Next
  PROVE  QueueInv'
<1>0. /\ page \in [Tab -> PageSet(Session)]
      /\ call \in [Tab -> [Calls -> CallSet(Session)]]
      /\ refresh \in [Refresher -> RefreshSet(Session)]
      /\ login \in [Tab -> LoginSet(Session)]
  BY Parts DEF QueueInv
<1>r. Tab \subseteq Refresher /\ Stray \in Refresher /\ Stray \notin Tab
  BY DEF Refresher, BrowserAssumption, Stray
<1>i. TypeOK /\ \A t \in Tab : QueueTab(t)
  BY DEF QueueInv
<1>b. \A t \in Tab : page[t].refreshing \in BOOLEAN
  BY <1>0 DEF PageSet
<1> SUFFICES ASSUME NEW u \in Tab PROVE QueueTab(u)'
  <2>1. TypeOK'
    BY <1>i, StepTyped
  <2>2. QED BY <2>1 DEF QueueInv
<1>k. ASSUME UNCHANGED <<page, call, login>>, refresh'[u] = NoRefresh <=> refresh[u] = NoRefresh
      PROVE  QueueTab(u)'
  BY <1>i, <1>k, QueueKept
<1>1. ASSUME NEW t \in Tab, NEW c \in Calls, NEW ok \in BOOLEAN, Settle(t, c, ok),
             call[t][c].state \notin {"leading", "queued"}, UNCHANGED <<refresh, login>>
      PROVE  QueueTab(u)'
  <2>1. /\ call'[t][c].state \in {"done", "failed"}
        /\ \A v \in Tab, d \in Calls : v # t \/ d # c => call'[v][d] = call[v][d]
        /\ \A v \in Tab : page'[v].refreshing = page[v].refreshing
    BY <1>1, <1>i, Settled
  <2>2. CASE u = t
    BY <1>1, <1>i, <2>1, <2>2, QueueCall DEF Pending
  <2>3. CASE u # t
    <3>1. call'[u] = call[u]
      BY <1>1, <1>0, <2>3 DEF Settle
    <3>2. QED BY <1>1, <1>i, <2>1, <3>1, QueueKept
  <2>4. QED BY <2>2, <2>3
<1>2. ASSUME NEW t \in Tab, NEW c \in Calls, Serve(t, c) PROVE QueueTab(u)'
  <2>1. CASE Valid(call[t][c].token)
    BY <1>2, <2>1, <1>1 DEF Serve
  <2>2. CASE ~Valid(call[t][c].token)
    <3>1. call' = [call EXCEPT ![t][c].state = "refused"] /\ call[t][c].state = "sent"
          /\ UNCHANGED <<page, refresh, login>>
      BY <1>2, <2>2 DEF Serve
    <3>2. "refused" \in CallState
      BY DEF CallState
    <3>3. /\ call'[t][c].state = "refused"
          /\ \A v \in Tab, d \in Calls : v # t \/ d # c => call'[v][d] = call[v][d]
      <4>1. call'[t][c].state = "refused"
        <5>1. call[t][c] \in CallSet(Session)
          BY <1>0
        <5>2. [call[t][c] EXCEPT !.state = "refused"].state = "refused"
          BY <5>1 DEF CallSet
        <5>3. QED BY <1>0, <3>1, <5>2
      <4>2. TypeOK /\ CallGoes(t, c, "refused")
        BY <1>i, <3>1 DEF CallGoes
      <4>3. \A v \in Tab, d \in Calls : v # t \/ d # c => call'[v][d] = call[v][d]
        BY <3>2, <4>2, CallMoves
      <4>4. QED BY <4>1, <4>3
    <3>4. CASE u = t
      BY <1>i, <3>1, <3>3, <3>4, QueueCall DEF Pending
    <3>5. CASE u # t
      <4>1. call'[u] = call[u]
        BY <1>0, <3>1, <3>5
      <4>2. QED BY <1>i, <3>1, <4>1, QueueKept
    <3>6. QED BY <3>4, <3>5
  <2>3. QED BY <2>1, <2>2
<1>3. ASSUME NEW t \in Tab, NEW c \in Calls, Lead(t, c) PROVE QueueTab(u)'
  <2>1. /\ call[t][c].state = "refused" /\ ~page[t].refreshing
        /\ page' = [page EXCEPT ![t] = [page[t] EXCEPT !.refreshing = TRUE]]
        /\ refresh' = [refresh EXCEPT ![t] = [state |-> "asked", cookie |-> jar]]
        /\ call' = [call EXCEPT ![t] = [call[t] EXCEPT ![c] =
                      [call[t][c] EXCEPT !.state = "leading", !.retried = TRUE]]]
        /\ login' = login
    BY <1>0, <1>3 DEF Lead, Leads
  <2>2. CASE u # t
    <3>1. page'[u] = page[u] /\ call'[u] = call[u] /\ refresh'[u] = refresh[u]
      BY <1>0, <1>r, <2>1, <2>2
    <3>2. QED BY <1>i, <2>1, <3>1, QueueKept
  <2>3. CASE u = t
    <3>1. page'[t].refreshing = TRUE
      <4>1. page[t] \in PageSet(Session)
        BY <1>0
      <4>2. [page[t] EXCEPT !.refreshing = TRUE].refreshing = TRUE
        BY <4>1, PageEdits
      <4>3. QED BY <1>0, <2>1, <4>2
    <3>2. refresh'[t] # NoRefresh
      <4>1. refresh'[t].state = "asked"
        BY <1>0, <1>r, <2>1
      <4>2. QED BY <4>1 DEF NoRefresh
    <3>3. call'[t][c].state = "leading" /\ \A d \in Calls : d # c => call'[t][d] = call[t][d]
      <4>1. call[t][c] \in CallSet(Session)
        BY <1>0
      <4>2. [call[t][c] EXCEPT !.state = "leading", !.retried = TRUE].state = "leading"
        BY <4>1 DEF CallSet
      <4>3. QED BY <1>0, <2>1, <4>2
    <3>4. \A d \in Calls : call[t][d].state # "leading" /\ call[t][d].state # "queued"
      BY <1>b, <1>i, <2>1 DEF QueueTab
    <3>5. login'[t] # NoLogin => call'[t]["check"].state \notin Pending
      <4>1. "check" \in Calls
        BY DEF Calls, Me
      <4>2. QED BY <4>1, <1>i, <2>1, <3>3 DEF QueueTab, Pending
    <3>6. QED BY <2>3, <3>1, <3>2, <3>3, <3>4, <3>5 DEF QueueTab
  <2>4. QED BY <2>2, <2>3
<1>4. ASSUME NEW t \in Tab, NEW c \in Calls, Enqueue(t, c) PROVE QueueTab(u)'
  <2>1. call' = [call EXCEPT ![t][c].state = "queued"] /\ call[t][c].state = "refused"
        /\ page[t].refreshing /\ UNCHANGED <<page, refresh, login>>
    BY <1>4 DEF Enqueue, Leads
  <2>2. "queued" \in CallState
    BY DEF CallState
  <2>3. /\ call'[t][c].state = "queued"
        /\ \A v \in Tab, d \in Calls : v # t \/ d # c => call'[v][d] = call[v][d]
    <3>1. TypeOK
      BY <1>i
    <3>2. CallGoes(t, c, "queued")
      BY <2>1 DEF CallGoes
    <3>3. call'[t][c].state = "queued"
      BY <2>2, <3>1, <3>2, CallMoves
    <3>4. \A v \in Tab, d \in Calls : v # t \/ d # c => call'[v][d] = call[v][d]
      BY <2>2, <3>1, <3>2, CallMoves
    <3>5. QED BY <3>3, <3>4
  <2>4. CASE u # t
    <3>1. call'[u] = call[u]
      BY <1>0, <2>1, <2>4
    <3>2. QED BY <1>i, <2>1, <3>1, QueueKept
  <2>5. CASE u = t
    <3>1. page[t].refreshing = TRUE
      BY <1>b, <2>1
    <3>2. \A d \in Calls : call'[t][d].state = "leading" <=> call[t][d].state = "leading"
      BY <2>1, <2>3
    <3>3. login'[t] # NoLogin => call'[t]["check"].state \notin Pending
      <4>1. "check" \in Calls
        BY DEF Calls, Me
      <4>2. QED BY <4>1, <1>i, <2>1, <2>3 DEF QueueTab, Pending
    <3>4. QED BY <1>i, <2>1, <2>5, <3>1, <3>2, <3>3 DEF QueueTab
  <2>6. QED BY <2>4, <2>5
<1>5. ASSUME NEW t \in Tab, NEW c \in Calls, GiveUp(t, c) \/ Break(t, c) PROVE QueueTab(u)'
  BY <1>5, <1>1 DEF GiveUp, Break
<1>6. ASSUME NEW r \in Refresher, NEW s \in {"asked", "checked", "caught", "refused"},
             refresh[r].state \in {"asked", "checked", "caught"}, Reach(r, s)
      PROVE  refresh'[u] = NoRefresh <=> refresh[u] = NoRefresh
  <2>1. refresh[r] \in RefreshSet(Session)
    BY <1>0
  <2>2. refresh[r] # NoRefresh /\ refresh[r].state # "granted"
    BY <1>6 DEF NoRefresh
  <2>3. [refresh[r] EXCEPT !.state = s] # NoRefresh
    <3>1. [refresh[r] EXCEPT !.state = s].state = s
      BY <2>1, <2>2, RefreshMoves
    <3>2. s # "none" /\ NoRefresh.state = "none"
      BY DEF NoRefresh
    <3>3. QED BY <3>1, <3>2
  <2>4. refresh' = [refresh EXCEPT ![r] = [refresh[r] EXCEPT !.state = s]]
    BY <1>6 DEF Reach
  <2>5. QED BY <1>0, <1>r, <2>2, <2>3, <2>4
<1>7. ASSUME NEW r \in Refresher, Check(r) PROVE QueueTab(u)'
  <2> DEFINE s == IF refresh[r].cookie = 0 THEN "refused"
                  ELSE IF refresh[r].cookie \in live THEN "checked" ELSE "caught"
  <2>1. Reach(r, s) /\ refresh[r].state = "asked" /\ UNCHANGED <<page, call, login>>
    BY <1>7 DEF Check
  <2>2. s \in {"asked", "checked", "caught", "refused"}
    OBVIOUS
  <2> HIDE DEF s
  <2>3. QED BY <2>1, <2>2, <1>6, <1>k
<1>d. ASSUME NEW r \in Refresher, Shed(r) PROVE QueueTab(u)'
  BY <1>d, <1>6, <1>k DEF Shed
<1>8. ASSUME NEW r \in Refresher, Rotate(r) PROVE QueueTab(u)'
  <2>1. /\ refresh[r].state = "checked"
        /\ refresh' = [refresh EXCEPT ![r] = [state |-> "granted", cookie |-> refresh[r].cookie,
                                              session |-> issued + 1]]
        /\ UNCHANGED <<page, call, login>>
    BY <1>8 DEF Rotate
  <2>2. refresh[r] # NoRefresh /\ [state |-> "granted", cookie |-> refresh[r].cookie,
                                   session |-> issued + 1] # NoRefresh
    BY <2>1 DEF NoRefresh
  <2>3. QED BY <1>0, <1>r, <1>k, <2>1, <2>2
<1>9. ASSUME NEW r \in Refresher, RevokeAll(r) PROVE QueueTab(u)'
  BY <1>9, <1>6, <1>k DEF RevokeAll
<1>10. ASSUME NEW t \in Tab, Grant(t) PROVE QueueTab(u)'
  <2>1. refresh[t].state = "granted"
        /\ page' = [page EXCEPT ![t] = [page[t] EXCEPT !.token = refresh[t].session,
                                                       !.refreshing = FALSE]]
        /\ call' = [call EXCEPT ![t] = Resent(call[t], refresh[t].session)]
        /\ refresh' = [refresh EXCEPT ![t] = NoRefresh] /\ login' = login
    BY <1>10, <1>0 DEF Grant
  <2>2. CASE u # t
    <3>1. page'[u] = page[u] /\ call'[u] = call[u] /\ refresh'[u] = refresh[u]
      BY <1>0, <1>r, <2>1, <2>2
    <3>2. QED BY <1>i, <2>1, <3>1, QueueKept
  <2>3. CASE u = t
    <3>1. refresh[t].session \in Session /\ refresh[t].session \in Session \cup {0}
      BY <1>0, <1>r, <2>1, RefreshParts
    <3>2. page[t] \in PageSet(Session) /\ call[t] \in [Calls -> CallSet(Session)]
      BY <1>0
    <3>3. page'[t].refreshing = FALSE
      <4>1. [page[t] EXCEPT !.token = refresh[t].session, !.refreshing = FALSE].refreshing = FALSE
        BY <3>2 DEF PageSet
      <4>2. QED BY <1>0, <2>1, <4>1
    <3>4. call'[t] = Resent(call[t], refresh[t].session) /\ refresh'[t] = NoRefresh
      BY <1>0, <1>r, <2>1
    <3>5. \A c \in Calls : /\ Resent(call[t], refresh[t].session)[c].state \notin {"leading", "queued"}
                           /\ call[t][c].state \notin Pending =>
                                Resent(call[t], refresh[t].session)[c].state \notin Pending
      BY <3>1, <3>2, Drained
    <3>6. login'[t] # NoLogin => call'[t]["check"].state \notin Pending
      <4>1. "check" \in Calls
        BY DEF Calls, Me
      <4>2. QED BY <4>1, <1>i, <2>1, <3>4, <3>5 DEF QueueTab
    <3>7. QED BY <2>3, <3>3, <3>4, <3>5, <3>6, QueueIdle
  <2>4. QED BY <2>2, <2>3
<1>11. ASSUME NEW t \in Tab, NEW where \in Pages, Opened(t, where), login' = login,
              refresh'[t] = NoRefresh, \A v \in Tab : v # t => refresh'[v] = refresh[v]
       PROVE  QueueTab(u)'
  <2>1. /\ page'[t].refreshing = FALSE
        /\ \A c \in Calls : call'[t][c].state \notin {"leading", "queued"}
        /\ \A v \in Tab : v # t => page'[v] = page[v] /\ call'[v] = call[v]
    BY <1>11, <1>i, OpenedTyped
  <2>2. CASE u # t
    BY <1>11, <1>i, <2>1, <2>2, QueueKept
  <2>3. CASE u = t
    <3>1. call'[t]["check"].state \notin Pending
      BY <1>11, <1>i, OpenedTyped
    <3>2. QED BY <1>11, <2>1, <2>3, <3>1, QueueIdle
  <2>4. QED BY <2>2, <2>3
<1>12. ASSUME NEW t \in Tab, Refuse(t) PROVE QueueTab(u)'
  <2>1. refresh' = [refresh EXCEPT ![t] = NoRefresh] /\ login' = login
    BY <1>12 DEF Refuse
  <2>2. refresh'[t] = NoRefresh /\ \A v \in Tab : v # t => refresh'[v] = refresh[v]
    BY <1>0, <1>r, <2>1
  <2>3. CASE page[t].where \in StaffPath
    <3>1. Opened(t, "login") /\ "login" \in Pages
      BY <1>12, <2>3 DEF Refuse, Pages
    <3>2. QED BY <3>1, <2>1, <2>2, <1>11
  <2>4. CASE page[t].where \notin StaffPath
    <3>1. page' = [page EXCEPT ![t] = ToldOfRejection(page[t], call[t])]
          /\ call' = [call EXCEPT ![t] = Rejected(call[t])]
      BY <1>12, <1>0, <2>4 DEF Refuse
    <3>2. CASE u # t
      <4>1. page'[u] = page[u] /\ call'[u] = call[u] /\ refresh'[u] = refresh[u]
        BY <1>0, <2>2, <3>1, <3>2
      <4>2. QED BY <1>i, <2>1, <4>1, QueueKept
    <3>3. CASE u = t
      <4>1. page[t] \in PageSet(Session) /\ call[t] \in [Calls -> CallSet(Session)]
            /\ 0 \in Session \cup {0}
        BY <1>0
      <4>2. page'[t] = ToldOfRejection(page[t], call[t]) /\ call'[t] = Rejected(call[t])
        BY <1>0, <3>1
      <4>3. page'[t].refreshing = FALSE
        <5>1. ToldOfRejection(page[t], call[t]).refreshing = FALSE
          BY <4>1, RejectedPage, Zenon
        <5>2. QED BY <4>2, <5>1
      <4>4. \A c \in Calls : /\ Rejected(call[t])[c].state \notin {"leading", "queued"}
                             /\ call[t][c].state \notin Pending => Rejected(call[t])[c].state \notin Pending
        BY <4>1, Drained
      <4>5. login'[t] # NoLogin => call'[t]["check"].state \notin Pending
        <5>1. "check" \in Calls
          BY DEF Calls, Me
        <5>2. QED BY <5>1, <1>i, <2>1, <4>2, <4>4 DEF QueueTab
      <4>6. QED BY <2>2, <3>3, <4>2, <4>3, <4>4, <4>5, QueueIdle
    <3>4. QED BY <3>2, <3>3
  <2>5. QED BY <2>3, <2>4
<1>13. ASSUME NEW t \in Tab, OpenSession(t) PROVE QueueTab(u)'
  <2>1. login[t].state = "asked"
        /\ login' = [login EXCEPT ![t] = [state |-> "granted", session |-> issued + 1]]
        /\ UNCHANGED <<page, call, refresh>>
    BY <1>13 DEF OpenSession
  <2>2. login[t] # NoLogin
    BY <2>1 DEF NoLogin
  <2>3. u # t => login'[u] = login[u]
    BY <1>0, <2>1
  <2>4. QED BY <1>i, <2>1, <2>2, <2>3, QueueKept
<1>14. ASSUME NEW t \in Tab, SignIn(t) PROVE QueueTab(u)'
  <2>1. login[t].state = "granted"
        /\ page' = [page EXCEPT ![t] = [page[t] EXCEPT !.token = login[t].session]]
        /\ call' = [call EXCEPT ![t] = [call[t] EXCEPT !["check"] = Sent(login[t].session)]]
        /\ login' = [login EXCEPT ![t] = NoLogin] /\ refresh' = refresh
    BY <1>14, <1>0 DEF SignIn
  <2>2. CASE u # t
    <3>1. page'[u] = page[u] /\ call'[u] = call[u] /\ login'[u] = login[u]
      BY <1>0, <2>1, <2>2
    <3>2. QED BY <1>i, <2>1, <3>1, QueueKept
  <2>3. CASE u = t
    <3>1. login[t].session \in Session \cup {0} /\ page[t] \in PageSet(Session)
      BY <1>0, <2>1, LoginParts
    <3>2. page'[t].refreshing = page[t].refreshing
      <4>1. [page[t] EXCEPT !.token = login[t].session].refreshing = page[t].refreshing
        BY <3>1, PageTokens
      <4>2. QED BY <1>0, <2>1, <4>1
    <3>3. "check" \in Calls /\ Sent(login[t].session).state = "sent" /\ NoLogin.state = "none"
      BY DEF Calls, Me, Sent, NoLogin
    <3>4. call[t]["check"].state \notin Pending
      BY <1>i, <2>1, <3>3 DEF QueueTab
    <3>5. call'[t]["check"].state = "sent" /\ \A d \in Calls : d # "check" => call'[t][d] = call[t][d]
      BY <1>0, <2>1, <3>3
    <3>6. \A d \in Calls : /\ call'[t][d].state = "leading" <=> call[t][d].state = "leading"
                           /\ call'[t][d].state = "queued" <=> call[t][d].state = "queued"
      BY <3>4, <3>5 DEF Pending
    <3>7. login'[t] = NoLogin
      BY <1>0, <2>1
    <3>8. QED BY <1>i, <2>1, <2>3, <3>2, <3>6, <3>7 DEF QueueTab
  <2>4. QED BY <2>2, <2>3
<1>15. ASSUME NEW t \in Tab, Redirect(t) PROVE QueueTab(u)'
  <2>1. page' = [page EXCEPT ![t] = [page[t] EXCEPT !.where = "login"]]
        /\ UNCHANGED <<call, refresh, login>>
    BY <1>0, <1>15 DEF Redirect
  <2>2. page'[u].refreshing = page[u].refreshing
    <3>1. page[t] \in PageSet(Session)
      BY <1>0
    <3>2. [page[t] EXCEPT !.where = "login"].refreshing = page[t].refreshing
      BY <3>1, PageEdits
    <3>3. QED BY <1>0, <2>1, <3>2
  <2>3. QED BY <1>i, <2>1, <2>2, QueueKept
<1>16. CASE TakeStray
  <2>1. refresh' = [refresh EXCEPT ![Stray] = NoRefresh] /\ UNCHANGED <<page, call, login>>
    BY <1>16 DEF TakeStray
  <2>2. QED BY <1>0, <1>r, <1>k, <2>1
<1>l. ASSUME NEW r \in Refresher, Lose(r) PROVE QueueTab(u)'
  <2> DEFINE f == IF r = Stray THEN NoRefresh
                  ELSE [state |-> "refused", cookie |-> refresh[r].cookie]
  <2>1. refresh[r].state = "granted" /\ refresh' = [refresh EXCEPT ![r] = f]
        /\ UNCHANGED <<page, call, login>>
    BY <1>l DEF Lose
  <2>2. refresh[r] # NoRefresh /\ (r # Stray => f # NoRefresh)
    BY <2>1 DEF NoRefresh
  <2> HIDE DEF f
  <2>3. CASE u = r
    <3>1. u # Stray /\ refresh'[u] = f
      BY <1>0, <1>r, <2>1, <2>3
    <3>2. QED BY <1>k, <2>1, <2>2, <2>3, <3>1
  <2>4. CASE u # r
    <3>1. refresh'[u] = refresh[u]
      BY <1>0, <1>r, <2>1, <2>4
    <3>2. QED BY <1>k, <2>1, <3>1
  <2>5. QED BY <2>3, <2>4
<1>17. ASSUME NEW t \in Tab, NEW where \in Pages, Open(t, where) PROVE QueueTab(u)'
  <2>1. Opened(t, where) /\ refresh' = Left(t) /\ login' = login
    BY <1>17 DEF Open
  <2>2. refresh'[t] = NoRefresh /\ \A v \in Tab : v # t => refresh'[v] = refresh[v]
    BY <1>i, <2>1, LeftTyped DEF BrowserAssumption
  <2>3. QED BY <1>11, <2>1, <2>2
<1>18. ASSUME NEW t \in Tab, NEW q \in Query, Send(t, q) PROVE QueueTab(u)'
  <2>1. call' = [call EXCEPT ![t] = [call[t] EXCEPT ![q] = Sent(page[t].token)]]
        /\ call[t][q] = Unsent /\ UNCHANGED <<page, refresh, login>>
    BY <1>0, <1>18 DEF Send
  <2>2. q \in Calls /\ q # "check" /\ Sent(page[t].token).state = "sent" /\ Unsent.state = "none"
    BY DEF Calls, Sent, Unsent, Me, BrowserAssumption
  <2>3. CASE u # t
    <3>1. call'[u] = call[u]
      BY <1>0, <2>1, <2>3
    <3>2. QED BY <1>i, <2>1, <3>1, QueueKept
  <2>4. CASE u = t
    <3>1. call'[t][q].state = "sent" /\ call[t][q].state = "none"
          /\ \A d \in Calls : d # q => call'[t][d] = call[t][d]
      BY <1>0, <2>1, <2>2
    <3>2. QED BY <1>i, <2>1, <2>2, <2>4, <3>1, QueueCall
  <2>5. QED BY <2>3, <2>4
<1>19. ASSUME NEW t \in Tab, Submit(t) PROVE QueueTab(u)'
  <2>1. call[t]["check"].state \notin Pending /\ login' = [login EXCEPT ![t] = [state |-> "asked"]]
        /\ UNCHANGED <<page, call, refresh>>
    BY <1>19 DEF Submit
  <2>2. u # t => login'[u] = login[u]
    BY <1>0, <2>1
  <2>3. QED BY <1>i, <2>1, <2>2, QueueKept
<1>20. ASSUME NEW t \in Tab, Logout(t) PROVE QueueTab(u)'
  <2>1. Opened(t, "login") /\ refresh' = Left(t) /\ login' = login /\ "login" \in Pages
    BY <1>20 DEF Logout, Pages
  <2>2. refresh'[t] = NoRefresh /\ \A v \in Tab : v # t => refresh'[v] = refresh[v]
    BY <1>i, <2>1, LeftTyped DEF BrowserAssumption
  <2>3. QED BY <1>11, <2>1, <2>2
<1>21. ASSUME (\E token \in Session : Lapse(token)) \/ EndSessions PROVE QueueTab(u)'
  BY <1>21, <1>k DEF Lapse, EndSessions
<1>22. QED
  <2>1. Desk \subseteq Tab /\ Where \subseteq Pages
    BY DEF BrowserAssumption
  <2>2. QED
    BY <2>1, <1>2, <1>3, <1>4, <1>5, <1>7, <1>8, <1>9, <1>10, <1>12, <1>13, <1>14,
       <1>15, <1>16, <1>17, <1>18, <1>19, <1>20, <1>21, <1>d, <1>l DEF Next, Progress, Choice, Calls, Refresher

\* failedQueue: a request waits only while its page has a refresh under way, and
\* one request leads each refresh, however many pages share the cookie.
THEOREM QueueIsDrained == Spec => []QueueHasRefresh
<1>1. Init => QueueInv
  BY QueueInit, BrowserAssumption
<1>2. QueueInv /\ [Next]_vars => QueueInv'
  <2>1. ASSUME QueueInv, Next PROVE QueueInv'
    BY <2>1, StepQueues, BrowserAssumption
  <2>2. ASSUME QueueInv, UNCHANGED vars PROVE QueueInv'
    <3>1. TypeOK' /\ \A t \in Tab : QueueTab(t)
      BY <2>2, Parts, PartsAfter DEF vars, Session, QueueInv
    <3>2. \A t \in Tab : QueueTab(t)'
      BY <2>2, <3>1, QueueKept DEF vars
    <3>3. QED BY <3>1, <3>2 DEF QueueInv
  <2>3. QED BY <2>1, <2>2
<1>3. QueueInv => QueueHasRefresh
  <2> SUFFICES ASSUME QueueInv, NEW t \in Tab
               PROVE  /\ (\E c \in Me \cup Query : Waiting(call[t][c])) => refresh[t] # NoRefresh
                      /\ page[t].refreshing <=>
                           Cardinality({c \in Me \cup Query : call[t][c].state = "leading"}) = 1
    BY DEF QueueHasRefresh
  <2>0. QueueTab(t) /\ page[t].refreshing \in BOOLEAN
    BY Parts DEF QueueInv, PageSet
  <2>1. (\E c \in Me \cup Query : Waiting(call[t][c])) => refresh[t] # NoRefresh
    BY <2>0 DEF QueueTab, Waiting, Calls
  <2> DEFINE leaders == {c \in Me \cup Query : call[t][c].state = "leading"}
  <2>2. CASE page[t].refreshing = TRUE
    <3>1. PICK c \in Calls : call[t][c].state = "leading"
      BY <2>0, <2>2 DEF QueueTab
    <3>2. leaders = {c}
      BY <2>0, <3>1 DEF QueueTab, Calls
    <3>3. Cardinality(leaders) = 1
      BY <3>2, FS_Singleton
    <3>4. QED BY <2>1, <2>2, <3>3
  <2>3. CASE page[t].refreshing = FALSE
    <3>1. leaders = {}
      BY <2>0, <2>3 DEF QueueTab, Calls
    <3>2. Cardinality(leaders) = 0
      BY <3>1, FS_EmptySet
    <3>3. QED BY <2>1, <2>3, <3>2
  <2>4. QED BY <2>0, <2>2, <2>3
<1>4. QED BY <1>1, <1>2, <1>3, PTL DEF Spec

-----------------------------------------------------------------------------
(* Cookies *)

\* Until two pages present one cookie: every cookie under way is that of a live
\* session and of one refresh only; the sessions on their way to the browser are
\* live, known to nobody yet and distinct; and the cookie's own session is live,
\* or its successor is on its way.
Unspent ==
  \A r \in Refresher : refresh[r].state \in {"asked", "checked"} => refresh[r].cookie \in live \cup {0}

NoneCaught == \A r \in Refresher : refresh[r].state # "caught"

OneEach ==
  \A r, o \in Refresher :
    r # o /\ refresh[r].state # "none" /\ refresh[o].state # "none" /\ refresh[r].cookie = refresh[o].cookie
      => refresh[r].cookie = 0

GrantsAreNew ==
  \A r \in Refresher : refresh[r].state = "granted" =>
    /\ refresh[r].session \in live
    /\ refresh[r].session # jar
    /\ \A o \in Refresher :
         /\ refresh[o].state # "none" => refresh[r].session # refresh[o].cookie
         /\ o # r /\ refresh[o].state = "granted" => refresh[r].session # refresh[o].session

LoginsAreNew ==
  \A t \in Tab : login[t].state = "granted" =>
    /\ login[t].session \in live
    /\ login[t].session # jar
    /\ \A o \in Refresher :
         /\ refresh[o].state # "none" => login[t].session # refresh[o].cookie
         /\ refresh[o].state = "granted" => login[t].session # refresh[o].session
    /\ \A u \in Tab : u # t /\ login[u].state = "granted" => login[t].session # login[u].session

Succeeded ==
  \/ jar = 0
  \/ jar \in live
  \/ \E r \in Refresher : refresh[r].state = "granted" /\ refresh[r].cookie = jar

Cookies == Unspent /\ NoneCaught /\ OneEach /\ GrantsAreNew /\ LoginsAreNew /\ Succeeded

CookieInv == QueueInv /\ (clash = FALSE => Cookies)

\* A refresh whose answer brings nothing is over.
LEMMA CookiesDropped ==
  ASSUME Cookies, TypeOK, NEW r \in Refresher, refresh[r].state # "granted",
         refresh' = [refresh EXCEPT ![r] = NoRefresh], UNCHANGED <<live, jar, login>>
  PROVE  Cookies'
<1>1. NoRefresh.state = "none" /\ refresh \in [Refresher -> RefreshSet(Session)]
  BY Parts DEF NoRefresh
<1>2. refresh'[r].state = "none" /\ \A o \in Refresher : o # r => refresh'[o] = refresh[o]
  BY <1>1
<1>3. Unspent' /\ NoneCaught' /\ OneEach'
  BY <1>2 DEF Cookies, Unspent, NoneCaught, OneEach
<1>4. GrantsAreNew'
  BY <1>2 DEF Cookies, GrantsAreNew
<1>5. LoginsAreNew'
  BY <1>2 DEF Cookies, LoginsAreNew
<1>6. Succeeded'
  BY <1>2 DEF Cookies, Succeeded
<1>7. QED BY <1>3, <1>4, <1>5, <1>6 DEF Cookies

\* The cookie of a refresh arrives.
LEMMA CookiesDelivered ==
  ASSUME Cookies, TypeOK, NEW r \in Refresher, refresh[r].state = "granted", jar' = refresh[r].session,
         refresh' = [refresh EXCEPT ![r] = NoRefresh], UNCHANGED <<live, login>>
  PROVE  Cookies'
<1>1. NoRefresh.state = "none" /\ refresh \in [Refresher -> RefreshSet(Session)]
  BY Parts DEF NoRefresh
<1>2. refresh'[r].state = "none" /\ \A o \in Refresher : o # r => refresh'[o] = refresh[o]
  BY <1>1
<1>3. Unspent' /\ NoneCaught' /\ OneEach'
  BY <1>2 DEF Cookies, Unspent, NoneCaught, OneEach
<1>4. GrantsAreNew'
  BY <1>2 DEF Cookies, GrantsAreNew
<1>5. LoginsAreNew'
  BY <1>2 DEF Cookies, LoginsAreNew, GrantsAreNew
<1>6. Succeeded'
  BY DEF Cookies, GrantsAreNew, Succeeded
<1>7. QED BY <1>3, <1>4, <1>5, <1>6 DEF Cookies

\* A page is left, and its refresh goes on without it.
LEMMA CookiesLeft ==
  ASSUME Cookies, TypeOK, "stray" \notin Tab, NEW t \in Tab, CanLeave(t), refresh' = Left(t),
         UNCHANGED <<live, jar, login>>
  PROVE  Cookies'
<1>1. t \in Refresher /\ Stray \in Refresher /\ t # Stray /\ \A o \in Refresher : o = Stray \/ o \in Tab
  BY DEF Refresher, Stray
<1>2. CASE refresh[t] = NoRefresh
  <2>1. refresh' = refresh
    BY <1>2 DEF Left
  <2>2. QED BY <2>1 DEF Cookies, Unspent, NoneCaught, OneEach, GrantsAreNew, LoginsAreNew, Succeeded
<1>3. CASE refresh[t] # NoRefresh
  <2>1. /\ refresh'[t].state = "none" /\ refresh[Stray].state = "none" /\ refresh'[Stray] = refresh[t]
        /\ \A o \in Refresher : o # t /\ o # Stray => refresh'[o] = refresh[o]
    <3>1. NoRefresh.state = "none" /\ refresh[Stray] = NoRefresh
      BY <1>3 DEF NoRefresh, CanLeave
    <3>2. QED BY <3>1, <1>1, <1>3, LeftTyped
  <2>2. Unspent' /\ NoneCaught'
    BY <1>1, <2>1 DEF Cookies, Unspent, NoneCaught
  <2>3. OneEach'
    BY <1>1, <2>1 DEF Cookies, OneEach
  <2>4. GrantsAreNew'
    BY <1>1, <2>1 DEF Cookies, GrantsAreNew
  <2>5. LoginsAreNew'
    BY <1>1, <2>1 DEF Cookies, LoginsAreNew
  <2>6. Succeeded'
    BY <1>1, <2>1 DEF Cookies, Succeeded
  <2>7. QED BY <2>2, <2>3, <2>4, <2>5, <2>6 DEF Cookies
<1>4. QED BY <1>2, <1>3

LEMMA StepCookies ==
  ASSUME CookieInv, BrowserAssumption, Next
  PROVE  CookieInv'
<1>i. TypeOK /\ QueueInv
  BY DEF CookieInv, QueueInv
<1>0. /\ issued \in Nat /\ live \subseteq Session /\ jar \in Session \cup {0}
      /\ page \in [Tab -> PageSet(Session)]
      /\ refresh \in [Refresher -> RefreshSet(Session)]
      /\ login \in [Tab -> LoginSet(Session)]
      /\ clash \in BOOLEAN
  BY <1>i, Parts
<1>f. \A r \in Refresher :
        /\ refresh[r].state \in {"none", "asked", "checked", "caught", "refused", "granted"}
        /\ refresh[r].state = "none" <=> refresh[r] = NoRefresh
        /\ refresh[r].state # "none" => refresh[r].cookie \in Session \cup {0}
        /\ refresh[r].state = "granted" => refresh[r].session \in Session
  BY <1>0, RefreshParts DEF NoRefresh
<1>g. \A t \in Tab : login[t].state = "granted" => login[t].session \in Session
  BY <1>0, LoginParts
<1>r. Tab \subseteq Refresher /\ Stray \in Refresher /\ Stray \notin Tab
  BY DEF Refresher, BrowserAssumption, Stray
<1>z. 0 \notin Session
  BY <1>i, Parts DEF Session
<1> SUFFICES ASSUME clash' = FALSE PROVE Cookies'
  <2>1. QueueInv'
    BY <1>i, StepQueues
  <2>2. QED BY <2>1 DEF CookieInv
<1>u. ASSUME UNCHANGED <<live, jar, refresh, login, clash>> PROVE Cookies'
  BY <1>u DEF CookieInv, Cookies, Unspent, NoneCaught, OneEach, GrantsAreNew, LoginsAreNew, Succeeded
<1>h. clash' = clash => Cookies
  BY DEF CookieInv
<1>1. ASSUME NEW t \in Tab, NEW c \in Calls,
             Serve(t, c) \/ Break(t, c) \/ Enqueue(t, c) \/ GiveUp(t, c)
      PROVE  Cookies'
  BY <1>1, <1>u DEF Serve, Break, Enqueue, GiveUp, Settle
<1>2. ASSUME NEW t \in Tab, NEW c \in Calls, Lead(t, c) PROVE Cookies'
  <2>1. /\ ~page[t].refreshing
        /\ refresh' = [refresh EXCEPT ![t] = [state |-> "asked", cookie |-> jar]]
        /\ clash' = (clash \/ Presented(t, jar))
        /\ UNCHANGED <<live, jar, login>>
    BY <1>2 DEF Lead, Leads
  <2>2. Cookies /\ ~Presented(t, jar)
    BY <1>0, <2>1 DEF CookieInv
  <2>3. refresh[t].state = "none"
    <3>1. page[t].refreshing \in BOOLEAN
      BY <1>0 DEF PageSet
    <3>2. QueueTab(t)
      BY <1>i DEF QueueInv
    <3>3. QED BY <1>f, <1>r, <2>1, <3>1, <3>2 DEF QueueTab
  <2>4. /\ refresh'[t].state = "asked" /\ refresh'[t].cookie = jar
        /\ \A o \in Refresher : o # t => refresh'[o] = refresh[o]
    BY <1>0, <1>r, <2>1
  <2>5. jar # 0 => \A o \in Refresher : o # t /\ refresh[o].state # "none" => refresh[o].cookie # jar
    BY <1>f, <2>2 DEF Presented, Refresher
  <2>6. jar = 0 \/ jar \in live
    BY <2>2, <2>3, <2>5 DEF Cookies, Succeeded
  <2>7. Unspent' /\ NoneCaught'
    BY <1>r, <2>1, <2>2, <2>4, <2>6 DEF Cookies, Unspent, NoneCaught
  <2>8. OneEach'
    BY <1>r, <2>2, <2>4, <2>5 DEF Cookies, OneEach
  <2>9. GrantsAreNew'
    BY <1>r, <2>1, <2>2, <2>4 DEF Cookies, GrantsAreNew
  <2>10. LoginsAreNew'
    BY <1>r, <2>1, <2>2, <2>4 DEF Cookies, LoginsAreNew
  <2>11. Succeeded'
    BY <2>1, <2>6 DEF Succeeded
  <2>12. QED BY <2>7, <2>8, <2>9, <2>10, <2>11 DEF Cookies
<1>3. ASSUME NEW r \in Refresher, Check(r) \/ Shed(r) PROVE Cookies'
  <2> DEFINE s == IF Shed(r) \/ refresh[r].cookie = 0 THEN "refused"
                  ELSE IF refresh[r].cookie \in live THEN "checked" ELSE "caught"
  <2>1. Reach(r, s) /\ refresh[r].state = "asked" /\ UNCHANGED <<live, jar, login, clash>>
    BY <1>3 DEF Check, Shed
  <2>2. Cookies
    BY <1>h, <2>1
  <2>3. s \in {"checked", "refused"} /\ (s = "checked" => refresh[r].cookie \in live)
    BY <2>1, <2>2 DEF Cookies, Unspent
  <2> HIDE DEF s
  <2>4. /\ refresh'[r].state = s /\ refresh'[r].cookie = refresh[r].cookie
        /\ \A o \in Refresher : o # r => refresh'[o] = refresh[o]
    <3>1. refresh[r] \in RefreshSet(Session) /\ refresh[r] # NoRefresh /\ refresh[r].state # "granted"
      BY <1>0, <2>1 DEF NoRefresh
    <3>2. [refresh[r] EXCEPT !.state = s].state = s
          /\ [refresh[r] EXCEPT !.state = s].cookie = refresh[r].cookie
      BY <2>3, <3>1, RefreshMoves
    <3>3. refresh' = [refresh EXCEPT ![r] = [refresh[r] EXCEPT !.state = s]]
      BY <2>1 DEF Reach
    <3>4. QED BY <1>0, <3>2, <3>3
  <2>5. Unspent' /\ NoneCaught'
    BY <2>1, <2>2, <2>3, <2>4 DEF Cookies, Unspent, NoneCaught
  <2>6. OneEach'
    BY <2>1, <2>2, <2>3, <2>4 DEF Cookies, OneEach
  <2>7. GrantsAreNew'
    BY <2>1, <2>2, <2>3, <2>4 DEF Cookies, GrantsAreNew
  <2>8. LoginsAreNew'
    BY <2>1, <2>2, <2>3, <2>4 DEF Cookies, LoginsAreNew
  <2>9. Succeeded'
    BY <2>1, <2>2, <2>3, <2>4 DEF Cookies, Succeeded
  <2>10. QED BY <2>5, <2>6, <2>7, <2>8, <2>9 DEF Cookies
<1>4. ASSUME NEW r \in Refresher, Rotate(r) PROVE Cookies'
  <2>1. /\ refresh[r].state = "checked" /\ issued' = issued + 1
        /\ live' = (live \ {refresh[r].cookie}) \cup {issued + 1}
        /\ refresh' = [refresh EXCEPT ![r] = [state |-> "granted", cookie |-> refresh[r].cookie,
                                              session |-> issued + 1]]
        /\ UNCHANGED <<jar, login, clash>>
    BY <1>4 DEF Rotate
  <2>2. Cookies
    BY <1>h, <2>1
  <2>3. /\ refresh'[r].state = "granted" /\ refresh'[r].cookie = refresh[r].cookie
        /\ refresh'[r].session = issued + 1
        /\ \A o \in Refresher : o # r => refresh'[o] = refresh[o]
    BY <1>0, <2>1
  <2>4. issued + 1 \notin Session /\ issued + 1 # 0
    BY <1>i, <2>1, OneMore
  <2>5. \A o \in Refresher :
          /\ refresh'[o].state # "none" <=> refresh[o].state # "none"
          /\ refresh[o].state # "none" => /\ refresh'[o].cookie = refresh[o].cookie
                                          /\ issued + 1 # refresh[o].cookie
          /\ refresh[o].state = "granted" => issued + 1 # refresh[o].session /\ o # r
    BY <1>f, <2>1, <2>3, <2>4
  <2>6. Unspent' /\ NoneCaught'
    BY <2>1, <2>2, <2>3 DEF Cookies, Unspent, NoneCaught, OneEach
  <2>7. OneEach'
    BY <2>2, <2>5 DEF Cookies, OneEach
  <2>8. GrantsAreNew'
    <3>1. issued + 1 # jar
      BY <1>0, <2>4
    <3>2. \A o \in Refresher : refresh[o].state = "granted" => refresh[o].session # refresh[r].cookie
      BY <2>1, <2>2 DEF Cookies, GrantsAreNew
    <3>3. \A o \in Refresher : refresh'[o].state = "granted" /\ o # r => refresh[o].state = "granted"
                                                               /\ refresh'[o].session = refresh[o].session
      BY <2>3
    <3>4. QED BY <2>1, <2>2, <2>3, <2>5, <3>1, <3>2, <3>3 DEF Cookies, GrantsAreNew
  <2>9. LoginsAreNew'
    <3>1. \A t \in Tab : login[t].state = "granted" => login[t].session # refresh[r].cookie
                                                   /\ login[t].session # issued + 1
      BY <1>g, <2>1, <2>2, <2>4 DEF Cookies, LoginsAreNew
    <3>2. QED BY <2>1, <2>2, <2>3, <2>5, <3>1 DEF Cookies, LoginsAreNew
  <2>10. Succeeded'
    <3>1. CASE jar = refresh[r].cookie
      BY <2>1, <2>3, <3>1 DEF Succeeded
    <3>2. CASE jar # refresh[r].cookie
      <4>1. jar \in live => jar \in live'
        BY <2>1, <3>2
      <4>2. \A o \in Refresher : refresh[o].state = "granted" => refresh'[o] = refresh[o]
        BY <2>1, <2>3
      <4>3. QED BY <2>1, <2>2, <4>1, <4>2 DEF Cookies, Succeeded
    <3>3. QED BY <3>1, <3>2
  <2>11. QED BY <2>6, <2>7, <2>8, <2>9, <2>10 DEF Cookies
<1>5. ASSUME NEW r \in Refresher, RevokeAll(r) PROVE Cookies'
  BY <1>5, <1>h DEF RevokeAll, Cookies, NoneCaught
<1>6. ASSUME NEW t \in Tab, Grant(t) PROVE Cookies'
  <2>1. refresh[t].state = "granted" /\ jar' = refresh[t].session
        /\ refresh' = [refresh EXCEPT ![t] = NoRefresh] /\ UNCHANGED <<live, login, clash>>
    BY <1>6 DEF Grant
  <2>2. QED BY <1>h, <1>i, <1>r, <2>1, CookiesDelivered
<1>7. ASSUME NEW t \in Tab, Refuse(t) PROVE Cookies'
  <2>1. refresh[t].state # "granted"
        /\ refresh' = [refresh EXCEPT ![t] = NoRefresh] /\ UNCHANGED <<live, jar, login, clash>>
    BY <1>7 DEF Refuse
  <2>2. QED BY <1>h, <1>i, <1>r, <2>1, CookiesDropped
<1>8. ASSUME TakeStray PROVE Cookies'
  <2>1. refresh' = [refresh EXCEPT ![Stray] = NoRefresh] /\ UNCHANGED <<live, login, clash>>
    BY <1>8 DEF TakeStray
  <2>2. CASE refresh[Stray].state = "granted"
    <3>1. jar' = refresh[Stray].session
      BY <1>8, <2>2 DEF TakeStray
    <3>2. QED BY <1>h, <1>i, <1>r, <2>1, <2>2, <3>1, CookiesDelivered
  <2>3. CASE refresh[Stray].state # "granted"
    <3>1. jar' = jar
      BY <1>8, <2>3 DEF TakeStray
    <3>2. QED BY <1>h, <1>i, <1>r, <2>1, <2>3, <3>1, CookiesDropped
  <2>4. QED BY <2>2, <2>3
<1>9. ASSUME (\E r \in Refresher : Lose(r)) \/ EndSessions PROVE Cookies'
  BY <1>9 DEF Lose, EndSessions
<1>10. ASSUME NEW t \in Tab, OpenSession(t) PROVE Cookies'
  <2>1. issued' = issued + 1 /\ live' = live \cup {issued + 1} /\ login[t].state = "asked"
        /\ login' = [login EXCEPT ![t] = [state |-> "granted", session |-> issued + 1]]
        /\ UNCHANGED <<jar, refresh, clash>>
    BY <1>10 DEF OpenSession
  <2>2. Cookies
    BY <1>h, <2>1
  <2>3. login'[t].state = "granted" /\ login'[t].session = issued + 1
        /\ \A u \in Tab : u # t => login'[u] = login[u]
    BY <1>0, <2>1
  <2>4. issued + 1 \notin Session /\ issued + 1 # 0 /\ issued + 1 # jar
    BY <1>0, <1>i, <2>1, OneMore
  <2>5. Unspent' /\ NoneCaught' /\ OneEach' /\ Succeeded'
    BY <2>1, <2>2 DEF Cookies, Unspent, NoneCaught, OneEach, Succeeded
  <2>6. GrantsAreNew'
    BY <2>1, <2>2 DEF Cookies, GrantsAreNew
  <2>7. LoginsAreNew'
    <3>1. \A o \in Refresher : /\ refresh[o].state # "none" => issued + 1 # refresh[o].cookie
                               /\ refresh[o].state = "granted" => issued + 1 # refresh[o].session
      BY <1>f, <2>4
    <3>2. \A u \in Tab : login[u].state = "granted" => issued + 1 # login[u].session
      BY <1>g, <2>4
    <3>3. QED BY <2>1, <2>2, <2>3, <2>4, <3>1, <3>2 DEF Cookies, LoginsAreNew
  <2>8. QED BY <2>5, <2>6, <2>7 DEF Cookies
<1>11. ASSUME NEW t \in Tab, SignIn(t) PROVE Cookies'
  <2>1. login[t].state = "granted" /\ jar' = login[t].session /\ login' = [login EXCEPT ![t] = NoLogin]
        /\ UNCHANGED <<live, refresh, clash>>
    BY <1>11 DEF SignIn
  <2>2. Cookies
    BY <1>h, <2>1
  <2>3. login'[t].state = "none" /\ \A u \in Tab : u # t => login'[u] = login[u]
    BY <1>0, <2>1 DEF NoLogin
  <2>4. Unspent' /\ NoneCaught' /\ OneEach' /\ Succeeded'
    BY <2>1, <2>2 DEF Cookies, Unspent, NoneCaught, OneEach, Succeeded, LoginsAreNew
  <2>5. GrantsAreNew'
    BY <2>1, <2>2 DEF Cookies, GrantsAreNew, LoginsAreNew
  <2>6. LoginsAreNew'
    BY <2>1, <2>2, <2>3 DEF Cookies, LoginsAreNew
  <2>7. QED BY <2>4, <2>5, <2>6 DEF Cookies
<1>12. ASSUME NEW t \in Tab, Redirect(t) PROVE Cookies'
  BY <1>12, <1>u DEF Redirect
<1>13. ASSUME NEW t \in Tab, NEW where \in Pages, Open(t, where) PROVE Cookies'
  <2>1. CanLeave(t) /\ refresh' = Left(t) /\ UNCHANGED <<live, jar, login, clash>>
    BY <1>13 DEF Open
  <2>2. QED BY <1>h, <1>i, <2>1, CookiesLeft DEF BrowserAssumption
<1>14. ASSUME NEW t \in Tab, NEW q \in Query, Send(t, q) PROVE Cookies'
  BY <1>14, <1>u DEF Send
<1>15. ASSUME NEW t \in Tab, Submit(t) PROVE Cookies'
  <2>1. login' = [login EXCEPT ![t] = [state |-> "asked"]] /\ UNCHANGED <<live, jar, refresh, clash>>
    BY <1>15 DEF Submit
  <2>2. Cookies
    BY <1>h, <2>1
  <2>3. login'[t].state = "asked" /\ \A u \in Tab : u # t => login'[u] = login[u]
    BY <1>0, <2>1
  <2>4. Unspent' /\ NoneCaught' /\ OneEach' /\ Succeeded' /\ GrantsAreNew'
    BY <2>1, <2>2 DEF Cookies, Unspent, NoneCaught, OneEach, Succeeded, GrantsAreNew
  <2>5. LoginsAreNew'
    BY <2>1, <2>2, <2>3 DEF Cookies, LoginsAreNew
  <2>6. QED BY <2>4, <2>5 DEF Cookies
<1>16. ASSUME NEW t \in Tab, Logout(t) PROVE Cookies'
  <2>1. live' = live \ {jar} /\ jar' = 0 /\ CanLeave(t) /\ refresh' = Left(t) /\ login' = login
        /\ clash' = (clash \/ \E r \in Tab \cup {Stray} : Presented(r, jar))
    BY <1>16 DEF Logout
  <2>2. Cookies /\ \A r \in Refresher : ~Presented(r, jar)
    BY <1>0, <2>1 DEF CookieInv, Refresher
  <2>3. jar # 0 => \A o \in Refresher : refresh[o].state # "none" => refresh[o].cookie # jar
    <3>1. \A o \in Refresher : \E r \in Refresher : r # o
      BY <1>r
    <3>2. QED BY <1>f, <2>2, <3>1 DEF Presented, Refresher
  <2>4. jar = 0 => live' = live
    BY <1>0, <1>z, <2>1
  <2>5. t \in Refresher /\ t # Stray /\ \A o \in Refresher : o = Stray \/ o \in Tab
    BY <1>r DEF Refresher
  <2>6. /\ refresh'[t].state = "none"
        /\ refresh'[Stray] = IF refresh[t].state = "none" THEN refresh[Stray] ELSE refresh[t]
        /\ refresh[t].state = "none" \/ refresh[Stray].state = "none"
        /\ \A o \in Refresher : o # t /\ o # Stray => refresh'[o] = refresh[o]
    <3>1. NoRefresh.state = "none"
      BY DEF NoRefresh
    <3>2. QED BY <1>f, <1>i, <1>r, <2>1, <2>5, <3>1, LeftTyped DEF BrowserAssumption, CanLeave
  <2>7. \A s \in live : s # jar => s \in live'
    BY <2>1
  <2>8. Unspent' /\ NoneCaught'
    <3>1. \A r \in Refresher : refresh[r].state \in {"asked", "checked"} => refresh[r].cookie \in live' \cup {0}
      BY <2>2, <2>3, <2>4, <2>7 DEF Cookies, Unspent
    <3>2. QED BY <1>r, <2>2, <2>5, <2>6, <3>1 DEF Cookies, Unspent, NoneCaught
  <2>9. OneEach'
    BY <1>r, <2>2, <2>5, <2>6 DEF Cookies, OneEach
  <2>10. GrantsAreNew'
    <3>1. \A r \in Refresher : refresh[r].state = "granted" => refresh[r].session \in live' /\ refresh[r].session # 0
      BY <1>f, <1>z, <2>2, <2>7 DEF Cookies, GrantsAreNew
    <3>2. QED BY <1>r, <2>1, <2>2, <2>5, <2>6, <3>1 DEF Cookies, GrantsAreNew
  <2>11. LoginsAreNew'
    <3>1. \A u \in Tab : login[u].state = "granted" => login[u].session \in live' /\ login[u].session # 0
      BY <1>g, <1>z, <2>2, <2>7 DEF Cookies, LoginsAreNew
    <3>2. QED BY <1>r, <2>1, <2>2, <2>5, <2>6, <3>1 DEF Cookies, LoginsAreNew
  <2>12. Succeeded'
    BY <2>1 DEF Succeeded
  <2>13. QED BY <2>8, <2>9, <2>10, <2>11, <2>12 DEF Cookies
<1>17. ASSUME NEW token \in Session, Lapse(token) PROVE Cookies'
  BY <1>17, <1>u DEF Lapse
<1>18. QED
  <2>1. Desk \subseteq Tab /\ Where \subseteq Pages
    BY DEF BrowserAssumption
  <2>2. QED
    BY <2>1, <1>1, <1>2, <1>3, <1>4, <1>5, <1>6, <1>7, <1>8, <1>9, <1>10, <1>11, <1>12, <1>13, <1>14,
       <1>15, <1>16, <1>17 DEF Next, Progress, Choice, Calls, Refresher

\* refresh: until one cookie is presented twice, an answer is lost or the sessions
\* are ended elsewhere, the cookie stands for a live session, or its successor is
\* on its way, whatever the pages ask for, refresh, leave and sign in and out of.
THEOREM OnlyAClashSignsOut == Spec => []OnlyClashSignsOut
<1>1. Init => CookieInv
  <2> SUFFICES ASSUME Init PROVE CookieInv
    OBVIOUS
  <2>1. QueueInv
    BY QueueInit, BrowserAssumption
  <2>2. \A r \in Refresher : refresh[r].state = "none"
    BY DEF Init, Refresher, NoRefresh
  <2>3. \A t \in Tab : login[t].state = "none"
    BY DEF Init, NoLogin
  <2>4. jar = 0 \/ jar \in live
    BY DEF Init
  <2>5. Cookies
    BY <2>2, <2>3, <2>4
       DEF Cookies, Unspent, NoneCaught, OneEach, GrantsAreNew, LoginsAreNew, Succeeded
  <2>6. QED BY <2>1, <2>5 DEF CookieInv
<1>2. CookieInv /\ [Next]_vars => CookieInv'
  <2>1. ASSUME CookieInv, Next PROVE CookieInv'
    BY <2>1, StepCookies, BrowserAssumption
  <2>2. ASSUME CookieInv, UNCHANGED vars PROVE CookieInv'
    <3>1. TypeOK' /\ \A t \in Tab : QueueTab(t)
      BY <2>2, Parts, PartsAfter DEF vars, Session, QueueInv, CookieInv
    <3>2. \A t \in Tab : QueueTab(t)'
      BY <2>2, <3>1, QueueKept DEF vars
    <3>3. clash' = FALSE => Cookies'
      BY <2>2 DEF vars, CookieInv, Cookies, Unspent, NoneCaught, OneEach, GrantsAreNew, LoginsAreNew, Succeeded
    <3>4. QED BY <3>1, <3>2, <3>3 DEF QueueInv, CookieInv
  <2>3. QED BY <2>1, <2>2
<1>3. CookieInv => OnlyClashSignsOut
  <2> SUFFICES ASSUME CookieInv PROVE OnlyClashSignsOut
    OBVIOUS
  <2>1. clash \in BOOLEAN
    BY Parts DEF CookieInv, QueueInv
  <2>2. CASE clash = TRUE
    BY <2>2 DEF OnlyClashSignsOut
  <2>3. CASE clash = FALSE
    BY <2>3 DEF CookieInv, Cookies, Succeeded, OnlyClashSignsOut, Refresher
  <2>4. QED BY <2>1, <2>2, <2>3
<1>4. QED BY <1>1, <1>2, <1>3, PTL DEF Spec
=============================================================================
