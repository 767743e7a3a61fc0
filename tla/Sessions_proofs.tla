------------------------------ MODULE Sessions_proofs ------------------------------
(***************************************************************************)
(* What holds of Sessions for every number of accounts, requests, failures *)
(* and deadlines.                                                          *)
(***************************************************************************)
EXTENDS Sessions, FiniteSetTheorems, TLAPS

-----------------------------------------------------------------------------
(* What a step does to each table *)

\* Sessions that are as they were, or have been revoked or have expired.
Marked(s, t) ==
  /\ t \in Seq(Session) /\ Len(t) = Len(s)
  /\ \A i \in 1..Len(s) :
       /\ t[i].user = s[i].user /\ t[i].password = s[i].password
       /\ t[i].replacedBy = s[i].replacedBy
       /\ s[i].revoked => t[i].revoked

LEMMA RequestIs ==
  ASSUME NEW r \in Request
  PROVE  /\ r.op = "login" => r.user \in User /\ r.seenFailed \in Nat /\ r.password \in Nat
         /\ r.op = "open" => r.user \in User /\ r.password \in Nat
         /\ r.op \in {"reuse", "forgot", "issue"} => r.user \in User
         /\ r.op = "update" => /\ r.user \in User /\ r.status \in UserStatus \cup {Same}
                               /\ r.role \in UserRole \cup {Same} /\ r.ends \in BOOLEAN
BY DEF Request

LEMMA AllRevokedMarks ==
  ASSUME TypeOK, NEW u
  PROVE  /\ Marked(sessions, AllRevoked(u))
         /\ \A i \in DOMAIN sessions : sessions[i].user = u => AllRevoked(u)[i].revoked
<1> DEFINE t == AllRevoked(u)
<1>1. \A i \in 1..Len(sessions) : sessions[i] \in Session
  BY DEF TypeOK
<1>2. t = [i \in 1..Len(sessions) |->
             IF sessions[i].user = u THEN [sessions[i] EXCEPT !.revoked = TRUE] ELSE sessions[i]]
  BY DEF AllRevoked, TypeOK
<1>3. \A i \in 1..Len(sessions) : t[i] \in Session
  BY <1>1, <1>2 DEF Session
<1>4. t \in Seq(Session) /\ Len(t) = Len(sessions)
  BY <1>2, <1>3 DEF TypeOK
<1>5. \A i \in 1..Len(sessions) :
        /\ t[i].user = sessions[i].user /\ t[i].password = sessions[i].password
        /\ t[i].replacedBy = sessions[i].replacedBy
        /\ sessions[i].revoked => t[i].revoked
        /\ sessions[i].user = u => t[i].revoked
  BY <1>1, <1>2 DEF Session
<1>6. QED BY <1>4, <1>5 DEF Marked, TypeOK

\* A session that is revoked, or expires.
LEMMA OneMarks ==
  ASSUME TypeOK, NEW i \in DOMAIN sessions, NEW row \in Session,
         row.user = sessions[i].user, row.password = sessions[i].password,
         row.replacedBy = sessions[i].replacedBy, sessions[i].revoked => row.revoked
  PROVE  Marked(sessions, [sessions EXCEPT ![i] = row])
BY DEF Marked, TypeOK

LEMMA Unmarked == TypeOK => Marked(sessions, sessions)
BY DEF TypeOK, Marked

LEMMA RowIs ==
  ASSUME TypeOK, NEW i \in DOMAIN sessions
  PROVE  sessions[i].user \in User /\ sessions[i].password \in Nat
<1>1. sessions[i] \in Session
  BY DEF TypeOK
<1>2. QED BY <1>1 DEF Session

LEMMA NewSessionIs ==
  ASSUME NEW u \in User, NEW p \in Nat
  PROVE  NewSession(u, p) \in Session /\ NewSession(u, p).replacedBy = 0
BY DEF NewSession, Session

\* The transactions that revoke sessions, or write other tables only.
Revokes(w) == CommitReuse(w) \/ CommitReset(w) \/ CommitUpdate(w) \/ CommitRevoke(w)

LEMMA RevokesMark ==
  ASSUME TypeOK, NEW w \in Worker, Revokes(w)
  PROVE  Marked(sessions, sessions')
<1>1. CASE CommitReuse(w) \/ CommitReset(w) \/ CommitUpdate(w)
  BY <1>1, AllRevokedMarks, Unmarked DEF CommitReuse, CommitReset, CommitUpdate, Ended
<1>2. CASE CommitRevoke(w)
  <2> DEFINE i == req[w].session
             row == [sessions[i] EXCEPT !.revoked = TRUE]
  <2>1. i \in DOMAIN sessions /\ sessions[i] \in Session
    BY <1>2 DEF CommitRevoke, TypeOK
  <2>2. sessions' = [sessions EXCEPT ![i] = row]
    BY <1>2 DEF CommitRevoke
  <2>3. /\ row \in Session /\ row.user = sessions[i].user /\ row.password = sessions[i].password
        /\ row.replacedBy = sessions[i].replacedBy /\ row.revoked
    BY <2>1 DEF Session
  <2> HIDE DEF i, row
  <2>4. QED BY <2>1, <2>2, <2>3, OneMarks
<1>3. QED BY <1>1, <1>2 DEF Revokes

LEMMA ExpiryMarks ==
  ASSUME TypeOK, NEW i \in DOMAIN sessions, ExpireSession(i)
  PROVE  Marked(sessions, sessions') /\ \A j \in DOMAIN sessions : sessions'[j].revoked = sessions[j].revoked
<1> DEFINE row == [sessions[i] EXCEPT !.expired = TRUE]
<1>1. sessions[i] \in Session
  BY DEF TypeOK
<1>2. sessions' = [sessions EXCEPT ![i] = row]
  BY DEF ExpireSession
<1>3. /\ row \in Session /\ row.user = sessions[i].user /\ row.password = sessions[i].password
      /\ row.replacedBy = sessions[i].replacedBy /\ row.revoked = sessions[i].revoked
  BY <1>1 DEF Session
<1> HIDE DEF row
<1>4. \A j \in DOMAIN sessions : sessions'[j].revoked = sessions[j].revoked
  BY <1>2, <1>3 DEF TypeOK
<1>5. QED BY <1>2, <1>3, <1>4, OneMarks

LEMMA SessionsStep ==
  ASSUME TypeOK, [Next]_vars
  PROVE  \/ Marked(sessions, sessions')
         \/ \E u \in User, p \in Nat : sessions' = Append(sessions, NewSession(u, p))
         \/ \E i \in DOMAIN sessions : sessions' = Rotated(i)
<1> DEFINE Goal == \/ Marked(sessions, sessions')
                   \/ \E u \in User, p \in Nat : sessions' = Append(sessions, NewSession(u, p))
                   \/ \E i \in DOMAIN sessions : sessions' = Rotated(i)
<1>1. ASSUME UNCHANGED sessions PROVE Goal
  BY <1>1, Unmarked
<1>2. \A w \in Worker : req[w] \in Request
  BY DEF TypeOK
<1>3. ASSUME NEW w \in Worker, OpenSession(w) PROVE Goal
  BY <1>2, <1>3, RequestIs DEF OpenSession
<1>4. ASSUME NEW w \in Worker, CommitRefresh(w) PROVE Goal
  BY <1>4 DEF CommitRefresh, TypeOK
<1>5. ASSUME NEW w \in Worker, Revokes(w) PROVE Goal
  BY <1>5, RevokesMark
<1>6. ASSUME NEW i \in DOMAIN sessions, ExpireSession(i) PROVE Goal
  BY <1>6, ExpiryMarks
<1>7. ASSUME NEW w \in Worker,
             FailLogin(w) \/ PassLogin(w) \/ DropResets(w) \/ IssueReset(w) \/ Abort(w)
      PROVE  UNCHANGED sessions
  BY <1>7 DEF FailLogin, PassLogin, DropResets, IssueReset, Abort
<1>8. ASSUME NEW w \in Worker, Begin(w) PROVE UNCHANGED sessions
  BY <1>8 DEF Begin, Receive, BeginLogin, BeginRefresh, BeginReuse, BeginRevoke, BeginForgot,
       BeginReset, BeginUpdateStatus, BeginUpdateRole, BeginUpdate
<1>9. ASSUME (\E u \in User : Unlock(u)) \/ (\E k \in DOMAIN resets : ExpireReset(k)) \/ UNCHANGED vars
       PROVE  UNCHANGED sessions
  BY <1>9 DEF Unlock, ExpireReset, vars
<1> HIDE DEF Goal
<1>10. Goal
  BY <1>1, <1>3, <1>4, <1>5, <1>6, <1>7, <1>8, <1>9 DEF Next, Finish, Revokes
<1>11. QED BY <1>10 DEF Goal

LEMMA ReplacedIs ==
  ASSUME NEW s \in Session, NEW n \in Nat
  PROVE  /\ Replaced(s, n) \in Session
         /\ Replaced(s, n).user = s.user /\ Replaced(s, n).password = s.password
         /\ Replaced(s, n).revoked /\ Replaced(s, n).replacedBy = n
BY DEF Session, Replaced

LEMMA RotatedIs ==
  ASSUME TypeOK, NEW i \in DOMAIN sessions
  PROVE  /\ Rotated(i) \in Seq(Session) /\ Len(Rotated(i)) = Len(sessions) + 1
         /\ \A j \in DOMAIN sessions :
              /\ Rotated(i)[j].user = sessions[j].user /\ Rotated(i)[j].password = sessions[j].password
              /\ j # i => Rotated(i)[j] = sessions[j]
         /\ Rotated(i)[i].revoked /\ Rotated(i)[i].replacedBy = Len(sessions) + 1
         /\ Rotated(i)[Len(sessions) + 1] = NewSession(sessions[i].user, sessions[i].password)
<1> DEFINE row == Replaced(sessions[i], Len(sessions) + 1)
           old == [sessions EXCEPT ![i] = row]
           new == NewSession(sessions[i].user, sessions[i].password)
<1>1. sessions[i] \in Session /\ Len(sessions) \in Nat /\ i \in 1..Len(sessions)
  BY DEF TypeOK
<1>2. /\ row \in Session /\ row.user = sessions[i].user /\ row.password = sessions[i].password
      /\ row.revoked /\ row.replacedBy = Len(sessions) + 1
  <2>1. Len(sessions) + 1 \in Nat
    BY <1>1
  <2>2. QED BY <1>1, <2>1, ReplacedIs
<1>3. new \in Session
  BY <1>1, NewSessionIs DEF Session
<1>4. Rotated(i) = Append(old, new)
  BY <1>1 DEF Rotated, Session, TypeOK
<1> HIDE DEF row, new
<1>5. /\ old \in Seq(Session) /\ Len(old) = Len(sessions) /\ old[i] = row
      /\ \A j \in DOMAIN sessions \ {i} : old[j] = sessions[j]
  BY <1>1, <1>2 DEF TypeOK
<1> HIDE DEF old
<1>6. /\ Append(old, new) \in Seq(Session) /\ Len(Append(old, new)) = Len(sessions) + 1
      /\ \A j \in DOMAIN sessions : Append(old, new)[j] = old[j]
      /\ Append(old, new)[Len(sessions) + 1] = new
  BY <1>1, <1>3, <1>5 DEF TypeOK
<1>7. QED BY <1>1, <1>2, <1>4, <1>5, <1>6 DEF new

\* An account that a step writes: it is the account of the request, with the lock of
\* its failures, or with the one it had.
LEMMA FailedIs ==
  ASSUME NEW a \in Account, NEW n \in Nat
  PROVE  /\ Failed(a, n) \in Account
         /\ Failed(a, n).locked => Failed(a, n).failed >= LockAfter
         /\ Failed(a, n).password = a.password
<1>1. ASSUME NEW v \in BOOLEAN
      PROVE  LET b == [a EXCEPT !.failed = n, !.locked = v]
             IN  b \in Account /\ b.locked = v /\ b.failed = n /\ b.password = a.password
  BY DEF Account
<1>2. CASE n >= LockAfter
  <2>1. (n >= LockAfter) = TRUE
    BY <1>2
  <2>2. Failed(a, n) = [a EXCEPT !.failed = n, !.locked = TRUE]
    BY <2>1 DEF Failed
  <2>3. QED BY <1>1, <1>2, <2>2
<1>3. CASE ~(n >= LockAfter)
  <2>1. (n >= LockAfter) = FALSE
    BY <1>3
  <2>2. Failed(a, n) = [a EXCEPT !.failed = n, !.locked = FALSE]
    BY <2>1 DEF Failed
  <2>3. QED BY <1>1, <2>2
<1>4. QED BY <1>2, <1>3

LEMMA ClearedIs ==
  ASSUME NEW a \in Account
  PROVE  Cleared(a) \in Account /\ ~Cleared(a).locked /\ Cleared(a).password = a.password
BY DEF Cleared, Account

LEMMA RenewedIs ==
  ASSUME NEW a \in Account
  PROVE  Renewed(a) \in Account /\ ~Renewed(a).locked /\ Renewed(a).password = a.password + 1
<1>1. a.password + 1 \in Nat
  BY DEF Account
<1>2. QED BY <1>1, ClearedIs DEF Renewed, Account

LEMMA UpdatedIs ==
  ASSUME NEW a \in Account, NEW r,
         r.status \in UserStatus \cup {Same}, r.role \in UserRole \cup {Same}
  PROVE  /\ Updated(a, r) \in Account /\ Updated(a, r).password = a.password
         /\ Updated(a, r).locked = a.locked /\ Updated(a, r).failed = a.failed
BY DEF Updated, Set, Account

LEMMA UnlockedIs ==
  ASSUME NEW a \in Account
  PROVE  LET b == [a EXCEPT !.locked = FALSE]
         IN  b \in Account /\ ~b.locked /\ b.password = a.password
BY DEF Account

\* One account at most is written, and only a reset changes its password.
Wrote(u, a) ==
  /\ u \in User /\ a \in Account
  /\ users' = [users EXCEPT ![u] = a]
  /\ a.locked => a.failed >= LockAfter

LEMMA UsersStep ==
  ASSUME TypeOK, LockIsEarned, [Next]_vars
  PROVE  \/ UNCHANGED users
         \/ \E u, a : Wrote(u, a) /\ a.password = users[u].password
         \/ \E w \in Worker : CommitReset(w) /\ \E u, a : Wrote(u, a)
<1> DEFINE SamePassword == \E u, a : Wrote(u, a) /\ a.password = users[u].password
           Goal == \/ UNCHANGED users
                   \/ SamePassword
                   \/ \E w \in Worker : CommitReset(w) /\ \E u, a : Wrote(u, a)
<1> USE DEF Wrote
<1>1. (\A w \in Worker : req[w] \in Request) /\ \A u \in User : users[u] \in Account
  BY DEF TypeOK
<1>2. ASSUME NEW w \in Worker, FailLogin(w) PROVE SamePassword
  <2>1. req[w].user \in User /\ req[w].seenFailed + 1 \in Nat
    BY <1>1, <1>2, RequestIs DEF FailLogin
  <2>2. users' = [users EXCEPT ![req[w].user] = Failed(users[req[w].user], req[w].seenFailed + 1)]
    BY <1>2 DEF FailLogin
  <2> DEFINE u == req[w].user
             a == Failed(users[u], req[w].seenFailed + 1)
  <2>3. a \in Account /\ (a.locked => a.failed >= LockAfter) /\ a.password = users[u].password
    BY <1>1, <2>1, FailedIs
  <2> HIDE DEF a, u
  <2>4. u \in User /\ users' = [users EXCEPT ![u] = a]
    BY <2>1, <2>2 DEF a, u
  <2>5. QED BY <2>3, <2>4
<1>3. ASSUME NEW w \in Worker, PassLogin(w) PROVE SamePassword
  <2>1. req[w].user \in User
    BY <1>1, <1>3, RequestIs DEF PassLogin
  <2>2. users' = [users EXCEPT ![req[w].user] = Cleared(users[req[w].user])]
    BY <1>3 DEF PassLogin
  <2>3. QED BY <1>1, <2>1, <2>2, ClearedIs
<1>4. ASSUME NEW w \in Worker, CommitReset(w) PROVE \E u, a : Wrote(u, a)
  <2> DEFINE u == resets[req[w].token].user
  <2>1. resets[req[w].token] \in Reset
    BY <1>4 DEF CommitReset, TypeOK
  <2>2. u \in User
    BY <2>1 DEF Reset
  <2>3. users' = [users EXCEPT ![u] = Renewed(users[u])]
    BY <1>4 DEF CommitReset
  <2>4. QED BY <1>1, <2>2, <2>3, RenewedIs
<1>5. ASSUME NEW w \in Worker, CommitUpdate(w) PROVE SamePassword
  <2> DEFINE r == req[w]
  <2>1. r.user \in User /\ r.status \in UserStatus \cup {Same} /\ r.role \in UserRole \cup {Same}
    BY <1>1, <1>5, RequestIs DEF CommitUpdate
  <2>2. users' = [users EXCEPT ![r.user] = Updated(users[r.user], r)]
    BY <1>5 DEF CommitUpdate
  <2> DEFINE u == r.user
             a == Updated(users[u], r)
  <2>3. /\ a \in Account /\ a.password = users[u].password
        /\ a.locked = users[u].locked /\ a.failed = users[u].failed
    BY <1>1, <2>1, UpdatedIs
  <2>4. users[u].locked => users[u].failed >= LockAfter
    BY <2>1 DEF LockIsEarned
  <2> HIDE DEF a, u
  <2>5. u \in User /\ users' = [users EXCEPT ![u] = a]
    BY <2>1, <2>2 DEF a, u
  <2>6. QED BY <2>3, <2>4, <2>5
<1>6. ASSUME NEW u \in User, Unlock(u) PROVE SamePassword
  <2> DEFINE a == [users[u] EXCEPT !.locked = FALSE]
  <2>1. users' = [users EXCEPT ![u] = a]
    BY <1>6 DEF Unlock
  <2>2. a \in Account /\ ~a.locked /\ a.password = users[u].password
    BY <1>1, UnlockedIs
  <2> HIDE DEF a
  <2>3. QED BY <2>1, <2>2
<1>7. ASSUME NEW w \in Worker,
             OpenSession(w) \/ CommitRefresh(w) \/ CommitReuse(w) \/ CommitRevoke(w)
             \/ DropResets(w) \/ IssueReset(w) \/ Abort(w)
      PROVE  UNCHANGED users
  BY <1>7 DEF OpenSession, CommitRefresh, CommitReuse, CommitRevoke, DropResets, IssueReset, Abort
<1>8. ASSUME NEW w \in Worker, Begin(w) PROVE UNCHANGED users
  BY <1>8 DEF Begin, Receive, BeginLogin, BeginRefresh, BeginReuse, BeginRevoke, BeginForgot,
       BeginReset, BeginUpdateStatus, BeginUpdateRole, BeginUpdate
<1>9. ASSUME (\E i \in DOMAIN sessions : ExpireSession(i)) \/ (\E k \in DOMAIN resets : ExpireReset(k))
             \/ UNCHANGED vars
      PROVE  UNCHANGED users
  BY <1>9 DEF ExpireSession, ExpireReset, vars
<1> HIDE DEF SamePassword, Wrote
<1>10. Goal
  BY <1>2, <1>3, <1>4, <1>5, <1>6, <1>7, <1>8, <1>9 DEF Next, Finish
<1>11. QED BY <1>10 DEF SamePassword

\* The links of an account that have been used.
Used(u) == {k \in DOMAIN resets : resets[k].user = u /\ resets[k].row = "used"}

\* Links that are as they were, or have been deleted or have expired.
Faded(s, t) ==
  /\ t \in Seq(Reset) /\ Len(t) = Len(s)
  /\ \A k \in 1..Len(s) : t[k].user = s[k].user /\ (t[k].row = "used" <=> s[k].row = "used")

LEMMA ResetsStep ==
  ASSUME TypeOK, [Next]_vars
  PROVE  \/ Faded(resets, resets')
         \/ \E row \in Reset : row.row = "open" /\ resets' = Append(resets, row)
         \/ \E w \in Worker : CommitReset(w)
<1> DEFINE Goal == \/ Faded(resets, resets')
                   \/ \E row \in Reset : row.row = "open" /\ resets' = Append(resets, row)
                   \/ \E w \in Worker : CommitReset(w)
<1>1. ASSUME UNCHANGED resets PROVE Goal
  BY <1>1 DEF Faded, TypeOK
<1>2. ASSUME NEW w \in Worker, DropResets(w) PROVE Faded(resets, resets')
  <2> DEFINE u == req[w].user
  <2>1. resets' = [k \in 1..Len(resets) |->
                     IF resets[k].user = u /\ resets[k].row = "open"
                     THEN [resets[k] EXCEPT !.row = "deleted"] ELSE resets[k]]
    BY <1>2 DEF DropResets, TypeOK
  <2>2. \A k \in 1..Len(resets) : resets[k] \in Reset
    BY DEF TypeOK
  <2>3. \A k \in 1..Len(resets) :
          /\ resets'[k] \in Reset /\ resets'[k].user = resets[k].user
          /\ resets'[k].row = "used" <=> resets[k].row = "used"
    BY <2>1, <2>2 DEF Reset
  <2>4. resets' \in Seq(Reset) /\ Len(resets') = Len(resets)
    BY <2>1, <2>3 DEF TypeOK
  <2>5. QED BY <2>3, <2>4 DEF Faded
<1>3. ASSUME NEW k \in DOMAIN resets, ExpireReset(k) PROVE Faded(resets, resets')
  <2> DEFINE row == [resets[k] EXCEPT !.expired = TRUE]
  <2>1. resets' = [resets EXCEPT ![k] = row]
    BY <1>3 DEF ExpireReset
  <2>2. row \in Reset /\ row.user = resets[k].user /\ row.row = resets[k].row
    <3>1. resets[k] \in Reset
      BY DEF TypeOK
    <3>2. QED BY <3>1 DEF Reset
  <2> HIDE DEF row
  <2>3. QED BY <2>1, <2>2 DEF Faded, TypeOK
<1>4. ASSUME NEW w \in Worker, IssueReset(w) PROVE Goal
  <2> DEFINE row == [user |-> req[w].user, row |-> "open", expired |-> FALSE]
  <2>1. req[w].user \in User
    BY <1>4, RequestIs DEF IssueReset, TypeOK
  <2>2. row \in Reset
    BY <2>1 DEF Reset
  <2>3. QED BY <1>4, <2>2 DEF IssueReset
<1>5. ASSUME NEW w \in Worker,
             FailLogin(w) \/ PassLogin(w) \/ OpenSession(w) \/ CommitRefresh(w) \/ CommitReuse(w)
             \/ CommitRevoke(w) \/ CommitUpdate(w) \/ Abort(w)
      PROVE  UNCHANGED resets
  BY <1>5 DEF FailLogin, PassLogin, OpenSession, CommitRefresh, CommitReuse, CommitRevoke,
       CommitUpdate, Abort
<1>6. ASSUME NEW w \in Worker, Begin(w) PROVE UNCHANGED resets
  BY <1>6 DEF Begin, Receive, BeginLogin, BeginRefresh, BeginReuse, BeginRevoke, BeginForgot,
       BeginReset, BeginUpdateStatus, BeginUpdateRole, BeginUpdate
<1>7. ASSUME (\E i \in DOMAIN sessions : ExpireSession(i)) \/ (\E u \in User : Unlock(u))
             \/ UNCHANGED vars
      PROVE  UNCHANGED resets
  BY <1>7 DEF ExpireSession, Unlock, vars
<1>8. QED
  BY <1>1, <1>2, <1>3, <1>4, <1>5, <1>6, <1>7 DEF Next, Finish

\* A reset uses the link it was given, which was open.
LEMMA ResetStep ==
  ASSUME TypeOK, NEW w \in Worker, CommitReset(w)
  PROVE  \E k \in DOMAIN resets, row \in Reset :
           /\ resets[k].row = "open" /\ row.row = "used" /\ row.user = resets[k].user
           /\ resets' = [resets EXCEPT ![k] = row]
           /\ users' = [users EXCEPT ![row.user] = Renewed(users[row.user])]
           /\ sessions' = AllRevoked(row.user)
<1> DEFINE k == req[w].token
           row == [resets[k] EXCEPT !.row = "used"]
<1>1. k \in DOMAIN resets /\ resets[k] \in Reset
  BY DEF CommitReset, TypeOK
<1>2. /\ resets[k].row = "open" /\ resets' = [resets EXCEPT ![k] = row]
      /\ users' = [users EXCEPT ![resets[k].user] = Renewed(users[resets[k].user])]
      /\ sessions' = AllRevoked(resets[k].user)
  BY DEF CommitReset, Redeemable, Ended
<1>3. row \in Reset /\ row.row = "used" /\ row.user = resets[k].user
  BY <1>1 DEF Reset
<1> HIDE DEF k, row
<1>4. QED BY <1>1, <1>2, <1>3

-----------------------------------------------------------------------------
(* Types *)

\* A request that may be in flight: the session or link it names is there.
RequestOK(r, s, k) ==
  /\ r \in Request
  /\ r.op \in {"refresh", "revoke"} => r.session \in DOMAIN s
  /\ r.op = "reset" => r.token \in DOMAIN k

LEMMA IdleOK == \A s, k : RequestOK(Idle, s, k)
BY DEF RequestOK, Idle, Request

LEMMA UpdatingOK ==
  ASSUME NEW u \in User, NEW status \in Statuses \cup {Same}, NEW role \in Roles \cup {Same},
         NEW ends \in BOOLEAN, NEW s, NEW k
  PROVE  RequestOK(Updating(u, status, role, ends), s, k)
BY SessionAssumption DEF RequestOK, Updating, Request

\* One request goes on to another step, or ends.
LEMMA RequestStep ==
  ASSUME TypeOK, [Next]_vars
  PROVE  \/ UNCHANGED req
         \/ \E w \in Worker : \E r : RequestOK(r, sessions, resets) /\ req' = [req EXCEPT ![w] = r]
<1> DEFINE Goal == \E w \in Worker : \E r : RequestOK(r, sessions, resets) /\ req' = [req EXCEPT ![w] = r]
<1>1. ASSUME NEW w \in Worker, NEW r, Receive(w, r), RequestOK(r, sessions, resets) PROVE Goal
  BY <1>1 DEF Receive
<1>2. ASSUME NEW w \in Worker, Answer(w) PROVE Goal
  BY <1>2, IdleOK DEF Answer
<1> HIDE DEF Goal
<1>3. ASSUME NEW w \in Worker, Begin(w) PROVE Goal
  <2>1. ASSUME NEW u \in User, NEW right \in BOOLEAN, BeginLogin(w, u, right) PROVE Goal
    <3> DEFINE r == [op |-> "login", user |-> u, seenFailed |-> users[u].failed,
                     password |-> users[u].password, right |-> right]
    <3>1. users[u].failed \in Nat /\ users[u].password \in Nat
      BY DEF TypeOK, Account
    <3>2. RequestOK(r, sessions, resets)
      BY <3>1 DEF RequestOK, Request
    <3> HIDE DEF r
    <3>3. Receive(w, r)
      BY <2>1 DEF BeginLogin, r
    <3>4. QED BY <3>2, <3>3, <1>1
  <2>2. ASSUME NEW i \in DOMAIN sessions, BeginRefresh(w, i) \/ BeginReuse(w, i) \/ BeginRevoke(w, i)
        PROVE  Goal
    <3>1. i \in Nat \ {0} /\ sessions[i].user \in User
      BY RowIs DEF TypeOK
    <3>2. /\ RequestOK([op |-> "refresh", session |-> i], sessions, resets)
          /\ RequestOK([op |-> "revoke", session |-> i], sessions, resets)
          /\ RequestOK([op |-> "reuse", user |-> sessions[i].user], sessions, resets)
      BY <3>1 DEF RequestOK, Request
    <3>3. QED BY <2>2, <3>2, <1>1 DEF BeginRefresh, BeginReuse, BeginRevoke
  <2>3. ASSUME NEW u \in User, BeginForgot(w, u) PROVE Goal
    <3>1. RequestOK([op |-> "forgot", user |-> u], sessions, resets)
      BY DEF RequestOK, Request
    <3>2. QED BY <2>3, <3>1, <1>1 DEF BeginForgot
  <2>4. ASSUME NEW k \in DOMAIN resets, BeginReset(w, k) PROVE Goal
    <3>1. k \in Nat \ {0}
      BY DEF TypeOK
    <3>2. RequestOK([op |-> "reset", token |-> k], sessions, resets)
      BY <3>1 DEF RequestOK, Request
    <3>3. QED BY <2>4, <3>2, <1>1 DEF BeginReset
  <2>5. ASSUME NEW by, NEW u \in User, NEW status \in Statuses, BeginUpdateStatus(w, by, u, status)
        PROVE  Goal
    <3> DEFINE ends == status \in {"SUSPENDED", "DISABLED"}
    <3>1. ends \in BOOLEAN
      OBVIOUS
    <3>2. Receive(w, Updating(u, status, Same, ends))
      BY <2>5 DEF BeginUpdateStatus
    <3> HIDE DEF ends
    <3>3. RequestOK(Updating(u, status, Same, ends), sessions, resets)
      BY <3>1, UpdatingOK
    <3>4. QED BY <3>2, <3>3, <1>1
  <2>6. ASSUME NEW by, NEW u \in User, NEW role \in Roles, BeginUpdateRole(w, by, u, role)
        PROVE  Goal
    BY <2>6, <1>1, UpdatingOK DEF BeginUpdateRole
  <2>7. ASSUME NEW by, NEW u \in User, NEW status \in Statuses \cup {Same}, NEW role \in Roles \cup {Same},
               BeginUpdate(w, by, u, status, role)
        PROVE  Goal
    BY <2>7, <1>1, UpdatingOK DEF BeginUpdate
  <2>8. QED BY <1>3, <2>1, <2>2, <2>3, <2>4, <2>5, <2>6, <2>7 DEF Begin
<1>4. ASSUME NEW w \in Worker, PassLogin(w) PROVE Goal
  <2> DEFINE r == [op |-> "open", user |-> req[w].user, password |-> req[w].password]
  <2>1. req[w].user \in User /\ req[w].password \in Nat
    BY <1>4, RequestIs DEF PassLogin, TypeOK
  <2>2. RequestOK(r, sessions, resets)
    BY <2>1 DEF RequestOK, Request
  <2>3. req' = [req EXCEPT ![w] = r]
    BY <1>4 DEF PassLogin
  <2> HIDE DEF r
  <2>4. QED BY <2>2, <2>3 DEF Goal
<1>5. ASSUME NEW w \in Worker, DropResets(w) PROVE Goal
  <2> DEFINE r == [req[w] EXCEPT !.op = "issue"]
  <2>1. req[w] \in Request /\ req[w].op = "forgot"
    BY <1>5 DEF DropResets, TypeOK
  <2>2. RequestOK(r, sessions, resets)
    BY <2>1 DEF RequestOK, Request
  <2>3. req' = [req EXCEPT ![w] = r]
    BY <1>5 DEF DropResets
  <2> HIDE DEF r
  <2>4. QED BY <2>2, <2>3 DEF Goal
<1>6. ASSUME NEW w \in Worker,
             FailLogin(w) \/ OpenSession(w) \/ CommitRefresh(w) \/ CommitReuse(w) \/ CommitRevoke(w)
             \/ IssueReset(w) \/ CommitReset(w) \/ CommitUpdate(w) \/ Abort(w)
      PROVE  Goal
  BY <1>2, <1>6 DEF FailLogin, OpenSession, CommitRefresh, CommitReuse, CommitRevoke, IssueReset,
       CommitReset, CommitUpdate, Abort
<1>7. ASSUME (\E u \in User : Unlock(u)) \/ (\E i \in DOMAIN sessions : ExpireSession(i))
             \/ (\E k \in DOMAIN resets : ExpireReset(k)) \/ UNCHANGED vars
      PROVE  UNCHANGED req
  BY <1>7 DEF Unlock, ExpireSession, ExpireReset, vars
<1>8. (UNCHANGED req) \/ Goal
  BY <1>3, <1>4, <1>5, <1>6, <1>7 DEF Next, Finish
<1>9. QED BY <1>8 DEF Goal

Base == TypeOK /\ LockIsEarned

LEMMA InitBase == Init => Base
<1> SUFFICES ASSUME Init PROVE Base
  OBVIOUS
<1>1. users \in [User -> Account] /\ LockIsEarned
  <2> DEFINE New == [status: {"ACTIVE"}, role: Roles, failed: {0}, locked: {FALSE}, password: {0}]
  <2>1. ASSUME NEW a \in New PROVE a \in Account /\ ~a.locked
    <3>1. /\ a = [status |-> a.status, role |-> a.role, failed |-> a.failed, locked |-> a.locked,
                  password |-> a.password]
          /\ a.status = "ACTIVE" /\ a.role \in Roles /\ a.failed = 0 /\ a.locked = FALSE /\ a.password = 0
      OBVIOUS
    <3>2. a.role \in UserRole /\ a.status \in UserStatus
      BY <3>1, SessionAssumption DEF UserStatus
    <3> HIDE DEF New
    <3>3. [status |-> a.status, role |-> a.role, failed |-> 0, locked |-> FALSE, password |-> 0] \in Account
      BY <3>2 DEF Account
    <3>4. a \in Account
      BY <3>1, <3>3
    <3>5. QED BY <3>1, <3>4
  <2>2. users \in [User -> New]
    BY DEF Init
  <2> HIDE DEF New
  <2>3. QED BY <2>1, <2>2 DEF LockIsEarned
<1>2. sessions \in Seq(Session) /\ resets \in Seq(Reset)
  BY DEF Init
<1>3. \A w \in Worker : RequestOK(req[w], sessions, resets)
  BY IdleOK DEF Init
<1>4. req \in [Worker -> Request]
  BY <1>3 DEF Init, RequestOK
<1>5. QED BY <1>1, <1>2, <1>3, <1>4 DEF Base, TypeOK, RequestOK

\* Rows are never deleted from the two tables that requests point into.
LEMMA RowsStay ==
  ASSUME TypeOK, [Next]_vars
  PROVE  /\ sessions' \in Seq(Session) /\ DOMAIN sessions \subseteq DOMAIN sessions'
         /\ resets' \in Seq(Reset) /\ DOMAIN resets \subseteq DOMAIN resets'
<1>1. sessions' \in Seq(Session) /\ DOMAIN sessions \subseteq DOMAIN sessions'
  <2>1. CASE Marked(sessions, sessions')
    BY <2>1 DEF Marked, TypeOK
  <2>2. ASSUME NEW u \in User, NEW p \in Nat, sessions' = Append(sessions, NewSession(u, p))
        PROVE  <1>1!1 /\ <1>1!2
    BY <2>2, NewSessionIs DEF TypeOK
  <2>3. ASSUME NEW i \in DOMAIN sessions, sessions' = Rotated(i) PROVE <1>1!1 /\ <1>1!2
    BY <2>3, RotatedIs DEF TypeOK
  <2>4. QED BY <2>1, <2>2, <2>3, SessionsStep
<1>2. resets' \in Seq(Reset) /\ DOMAIN resets \subseteq DOMAIN resets'
  <2>1. CASE Faded(resets, resets')
    BY <2>1 DEF Faded, TypeOK
  <2>2. ASSUME NEW row \in Reset, resets' = Append(resets, row) PROVE <1>2!1 /\ <1>2!2
    BY <2>2 DEF TypeOK
  <2>3. ASSUME NEW w \in Worker, CommitReset(w) PROVE <1>2!1 /\ <1>2!2
    <3>1. PICK k \in DOMAIN resets, row \in Reset : resets' = [resets EXCEPT ![k] = row]
      BY <2>3, ResetStep
    <3>2. QED BY <3>1 DEF TypeOK
  <2>4. QED BY <2>1, <2>2, <2>3, ResetsStep
<1>3. QED BY <1>1, <1>2

LEMMA NextBase == Base /\ [Next]_vars => Base'
<1> SUFFICES ASSUME Base, [Next]_vars PROVE Base'
  OBVIOUS
<1> USE DEF Base
<1>1. users' \in [User -> Account] /\ LockIsEarned'
  <2>1. ASSUME NEW u, NEW a, Wrote(u, a) PROVE users' \in [User -> Account] /\ LockIsEarned'
    BY <2>1 DEF Wrote, TypeOK, LockIsEarned
  <2>2. CASE UNCHANGED users
    BY <2>2 DEF TypeOK, LockIsEarned
  <2>3. QED BY <2>1, <2>2, UsersStep
<1>2. \A w \in Worker : RequestOK(req'[w], sessions', resets')
  <2>1. \A r : RequestOK(r, sessions, resets) => RequestOK(r, sessions', resets')
    BY RowsStay DEF RequestOK
  <2>2. \A w \in Worker : RequestOK(req[w], sessions, resets)
    BY DEF TypeOK, RequestOK
  <2>3. QED BY <2>1, <2>2, RequestStep DEF TypeOK
<1>3. req' \in [Worker -> Request]
  BY RequestStep DEF TypeOK, RequestOK
<1>4. QED BY <1>1, <1>2, <1>3, RowsStay DEF TypeOK, RequestOK

LEMMA AlwaysBase == Spec => []Base
BY InitBase, NextBase, PTL DEF Spec

\* Rows have the columns they should, and a request in flight points at rows that exist.
THEOREM TypeCorrect == Spec => []TypeOK
<1>1. Base => TypeOK
  BY DEF Base
<1>2. QED BY <1>1, AlwaysBase, PTL

\* An account is locked only with the failures that lock it, however stale the
\* counts are from which logins and resets write.
THEOREM LocksAreEarned == Spec => []LockIsEarned
<1>1. Base => LockIsEarned
  BY DEF Base
<1>2. QED BY <1>1, AlwaysBase, PTL

-----------------------------------------------------------------------------
(* Rotation *)

LEMMA NextReplaced == TypeOK /\ ReplacedIsDead /\ [Next]_vars => ReplacedIsDead'
<1> SUFFICES ASSUME TypeOK, ReplacedIsDead, [Next]_vars PROVE ReplacedIsDead'
  OBVIOUS
<1>1. Len(sessions) \in Nat /\ DOMAIN sessions = 1..Len(sessions)
  BY DEF TypeOK
<1>2. CASE Marked(sessions, sessions')
  BY <1>1, <1>2 DEF Marked, ReplacedIsDead
<1>3. ASSUME NEW u \in User, NEW p \in Nat, sessions' = Append(sessions, NewSession(u, p))
      PROVE  ReplacedIsDead'
  <2>1. /\ Len(sessions') = Len(sessions) + 1 /\ DOMAIN sessions' = 1..(Len(sessions) + 1)
        /\ \A i \in DOMAIN sessions : sessions'[i] = sessions[i]
        /\ sessions'[Len(sessions) + 1].replacedBy = 0
    BY <1>3, NewSessionIs DEF TypeOK
  <2>2. QED BY <1>1, <2>1 DEF ReplacedIsDead
<1>4. ASSUME NEW i \in DOMAIN sessions, sessions' = Rotated(i) PROVE ReplacedIsDead'
  <2> DEFINE n == Len(sessions) + 1
  <2>1. sessions[i].user \in User /\ sessions[i].password \in Nat
    BY RowIs
  <2>2. /\ sessions'[n].replacedBy = 0 /\ sessions'[n].user = sessions[i].user
        /\ sessions'[n].password = sessions[i].password
    <3>1. sessions'[n] = NewSession(sessions[i].user, sessions[i].password)
      BY <1>4, RotatedIs
    <3>2. QED BY <3>1 DEF NewSession
  <2>3. Len(sessions') = n /\ DOMAIN sessions' = 1..n
    BY <1>4, RotatedIs DEF TypeOK
  <2>4. ASSUME NEW j \in DOMAIN sessions', sessions'[j].replacedBy # 0
        PROVE  /\ sessions'[j].revoked /\ sessions'[j].replacedBy \in (j + 1)..Len(sessions')
               /\ sessions'[sessions'[j].replacedBy].user = sessions'[j].user
               /\ sessions'[sessions'[j].replacedBy].password = sessions'[j].password
    <3>1. j \in DOMAIN sessions
      BY <1>1, <2>2, <2>3, <2>4
    <3>2. CASE j = i
      BY <1>1, <1>4, <2>2, <2>3, <3>1, <3>2, RotatedIs
    <3>3. CASE j # i
      <4>1. sessions'[j] = sessions[j]
        BY <1>4, <3>1, <3>3, RotatedIs
      <4>2. /\ sessions[j].revoked /\ sessions[j].replacedBy \in (j + 1)..Len(sessions)
            /\ sessions[sessions[j].replacedBy].user = sessions[j].user
            /\ sessions[sessions[j].replacedBy].password = sessions[j].password
        BY <2>4, <3>1, <4>1 DEF ReplacedIsDead
      <4>3. sessions[j].replacedBy \in DOMAIN sessions
        BY <1>1, <3>1, <4>2
      <4>4. QED BY <1>1, <1>4, <2>3, <4>1, <4>2, <4>3, RotatedIs
    <3>4. QED BY <3>2, <3>3
  <2>5. QED BY <2>4 DEF ReplacedIsDead
<1>5. QED BY <1>2, <1>3, <1>4, SessionsStep

\* A refresh token that was exchanged is dead and leads to a later session of the
\* same login, even when two requests exchange it together.
THEOREM ReplacedStaysDead == Spec => []ReplacedIsDead
<1>1. Init => ReplacedIsDead
  BY DEF Init, ReplacedIsDead
<1>2. QED BY <1>1, NextReplaced, TypeCorrect, PTL DEF Spec

-----------------------------------------------------------------------------
(* Reset links *)

LEMMA UsedIsFinite ==
  ASSUME TypeOK, NEW u
  PROVE  IsFiniteSet(Used(u))
<1>1. Used(u) \in SUBSET (1..Len(resets)) /\ Len(resets) \in Nat
  BY DEF Used, TypeOK
<1>2. IsFiniteSet(1..Len(resets))
  BY <1>1, FS_Interval
<1>3. QED BY <1>1, <1>2, FS_Subset

LEMMA PasswordsKept ==
  ASSUME Base, [Next]_vars, ~\E w \in Worker : CommitReset(w)
  PROVE  \A u \in User : users'[u].password = users[u].password
<1>1. ASSUME NEW v, NEW a, Wrote(v, a), a.password = users[v].password
      PROVE  \A u \in User : users'[u].password = users[u].password
  BY <1>1 DEF Wrote, TypeOK, Base
<1>2. QED BY <1>1, UsersStep DEF Base

LinksCounted == \A u \in User : users[u].password = Cardinality(Used(u))

LEMMA NextCounted == Base /\ LinksCounted /\ [Next]_vars => LinksCounted'
<1> SUFFICES ASSUME Base, LinksCounted, [Next]_vars, NEW u \in User
             PROVE  users'[u].password = Cardinality(Used(u)')
  BY DEF LinksCounted
<1> USE DEF Base
<1>1. CASE \E w \in Worker : CommitReset(w)
  <2>1. PICK k \in DOMAIN resets, row \in Reset :
          /\ resets[k].row = "open" /\ row.row = "used" /\ row.user = resets[k].user
          /\ resets' = [resets EXCEPT ![k] = row]
          /\ users' = [users EXCEPT ![row.user] = Renewed(users[row.user])]
    BY <1>1, ResetStep
  <2>2. row.user \in User
    BY DEF Reset
  <2>3. DOMAIN resets' = DOMAIN resets /\ resets'[k] = row
        /\ \A j \in DOMAIN resets \ {k} : resets'[j] = resets[j]
    BY <2>1 DEF TypeOK
  <2>4. CASE u = row.user
    <3>1. Used(u)' = Used(u) \cup {k} /\ k \notin Used(u)
      BY <2>1, <2>3, <2>4 DEF Used
    <3>2. Cardinality(Used(u)') = Cardinality(Used(u)) + 1
      BY <3>1, UsedIsFinite, FS_AddElement
    <3>3. users'[u].password = users[u].password + 1
      BY <2>1, <2>4, RenewedIs DEF TypeOK
    <3>4. QED BY <3>2, <3>3 DEF LinksCounted
  <2>5. CASE u # row.user
    <3>1. Used(u)' = Used(u)
      BY <2>1, <2>3, <2>5 DEF Used
    <3>2. users'[u] = users[u]
      BY <2>1, <2>5 DEF TypeOK
    <3>3. QED BY <3>1, <3>2 DEF LinksCounted
  <2>6. QED BY <2>4, <2>5
<1>2. CASE ~\E w \in Worker : CommitReset(w)
  <2>1. Used(u)' = Used(u)
    <3>1. CASE Faded(resets, resets')
      BY <3>1 DEF Faded, Used, TypeOK
    <3>2. ASSUME NEW row \in Reset, row.row = "open", resets' = Append(resets, row)
          PROVE  Used(u)' = Used(u)
      <4>1. DOMAIN resets' = DOMAIN resets \cup {Len(resets) + 1}
            /\ resets'[Len(resets) + 1] = row /\ \A j \in DOMAIN resets : resets'[j] = resets[j]
        BY <3>2 DEF TypeOK
      <4>2. QED BY <3>2, <4>1 DEF Used
    <3>3. QED BY <1>2, <3>1, <3>2, ResetsStep
  <2>2. users'[u].password = users[u].password
    BY <1>2, PasswordsKept
  <2>3. QED BY <2>1, <2>2 DEF LinksCounted
<1>3. QED BY <1>1, <1>2

\* Each change of a password has used up a link of its own: two requests with one
\* link cannot both change it.
THEOREM LinksWorkOnce == Spec => []LinkPerPassword
<1>1. Init => LinksCounted
  <2> SUFFICES ASSUME Init, NEW u \in User PROVE users[u].password = Cardinality(Used(u))
    BY DEF LinksCounted
  <2>1. Used(u) = {} /\ users[u].password = 0
    <3>1. DOMAIN resets = {}
      BY DEF Init
    <3>2. users[u] \in [status: {"ACTIVE"}, role: Roles, failed: {0}, locked: {FALSE}, password: {0}]
      BY DEF Init
    <3>3. QED BY <3>1, <3>2 DEF Used
  <2>2. QED BY <2>1, FS_EmptySet
<1>2. LinksCounted => LinkPerPassword
  BY DEF LinksCounted, LinkPerPassword, Used
<1>3. QED BY <1>1, <1>2, NextCounted, AlwaysBase, PTL DEF Spec

-----------------------------------------------------------------------------
(* Requests one at a time *)

\* What the only request has read still holds.
ReadingHolds ==
  \A w \in Worker :
    /\ req[w].op \in {"login", "open"} => req[w].password = users[req[w].user].password
    /\ req[w].op = "refresh" => ~sessions[req[w].session].revoked

LEMMA NextAlone ==
  ASSUME \A v, w \in Worker : v = w,
         Base, ReadingHolds, NoSessionOutlivesPassword, [Next]_vars
  PROVE  ReadingHolds' /\ NoSessionOutlivesPassword'
<1> USE DEF Base
<1>1. ASSUME Marked(sessions, sessions'), \A u \in User : users'[u].password = users[u].password
      PROVE  NoSessionOutlivesPassword'
  <2>1. /\ DOMAIN sessions' = DOMAIN sessions
        /\ \A i \in DOMAIN sessions :
             /\ sessions'[i].user = sessions[i].user /\ sessions'[i].password = sessions[i].password
             /\ sessions[i].revoked => sessions'[i].revoked
    BY <1>1 DEF Marked, TypeOK
  <2>2. QED BY <1>1, <2>1, RowIs DEF NoSessionOutlivesPassword
<1>2. ASSUME NEW w \in Worker, req'[w].op \notin {"login", "open", "refresh"} PROVE ReadingHolds'
  BY <1>2 DEF ReadingHolds
<1>3. ASSUME NEW w \in Worker, Begin(w) PROVE ReadingHolds' /\ NoSessionOutlivesPassword'
  <2>1. UNCHANGED <<users, sessions>>
    BY <1>3 DEF Begin, Receive, BeginLogin, BeginRefresh, BeginReuse, BeginRevoke, BeginForgot,
         BeginReset, BeginUpdateStatus, BeginUpdateRole, BeginUpdate
  <2>2. NoSessionOutlivesPassword'
    BY <2>1 DEF NoSessionOutlivesPassword
  <2>3. \/ \E u \in User : req'[w].op = "login" /\ req'[w].user = u /\ req'[w].password = users[u].password
        \/ \E i \in DOMAIN sessions : req'[w].op = "refresh" /\ req'[w].session = i /\ ~sessions[i].revoked
        \/ req'[w].op \notin {"login", "open", "refresh"}
    BY <1>3 DEF Begin, Receive, BeginLogin, BeginRefresh, Rotatable, BeginReuse, BeginRevoke, BeginForgot,
         BeginReset, BeginUpdateStatus, BeginUpdateRole, BeginUpdate, Updating, TypeOK
  <2>4. ReadingHolds'
    BY <2>1, <2>3 DEF ReadingHolds
  <2>5. QED BY <2>2, <2>4
<1>4. ASSUME NEW w \in Worker, PassLogin(w) PROVE ReadingHolds' /\ NoSessionOutlivesPassword'
  <2>1. UNCHANGED sessions /\ req[w].op = "login"
        /\ req' = [req EXCEPT ![w] = [op |-> "open", user |-> req[w].user, password |-> req[w].password]]
    BY <1>4 DEF PassLogin
  <2>2. \A u \in User : users'[u].password = users[u].password
    BY <1>4, PasswordsKept DEF PassLogin, CommitReset
  <2>3. req[w].user \in User
    BY <2>1, RequestIs DEF TypeOK
  <2>4. ReadingHolds'
    BY <2>1, <2>2, <2>3 DEF ReadingHolds, TypeOK
  <2>5. QED BY <1>1, <2>1, <2>2, <2>4, Unmarked
<1>5. ASSUME NEW w \in Worker, OpenSession(w) PROVE ReadingHolds' /\ NoSessionOutlivesPassword'
  <2> DEFINE new == NewSession(req[w].user, req[w].password)
  <2>1. sessions' = Append(sessions, new) /\ UNCHANGED users /\ req'[w] = Idle
    BY <1>5 DEF OpenSession, Answer, TypeOK
  <2>2. req[w].user \in User /\ req[w].password \in Nat /\ req[w].password = users[req[w].user].password
    BY <1>5, RequestIs DEF OpenSession, TypeOK, ReadingHolds
  <2>3. new \in Session /\ new.password = users[new.user].password
    BY <2>2, NewSessionIs DEF NewSession
  <2> HIDE DEF new
  <2>4. DOMAIN sessions' = DOMAIN sessions \cup {Len(sessions) + 1} /\ sessions'[Len(sessions) + 1] = new
        /\ \A i \in DOMAIN sessions : sessions'[i] = sessions[i]
    BY <2>1, <2>3 DEF TypeOK
  <2>5. NoSessionOutlivesPassword'
    BY <2>1, <2>3, <2>4 DEF NoSessionOutlivesPassword
  <2>6. QED BY <1>2, <2>1, <2>5 DEF Idle
<1>6. ASSUME NEW w \in Worker, CommitRefresh(w) PROVE ReadingHolds' /\ NoSessionOutlivesPassword'
  <2> DEFINE i == req[w].session
             n == Len(sessions) + 1
  <2>1. sessions' = Rotated(i) /\ UNCHANGED users /\ req'[w] = Idle
    BY <1>6 DEF CommitRefresh, Answer, TypeOK
  <2>2. i \in DOMAIN sessions /\ ~sessions[i].revoked
    BY <1>6 DEF CommitRefresh, TypeOK, ReadingHolds
  <2>3. sessions[i].password = users[sessions[i].user].password
    BY <2>2 DEF NoSessionOutlivesPassword
  <2> HIDE DEF i
  <2>4. DOMAIN sessions' = DOMAIN sessions \cup {n}
    <3>1. sessions' \in Seq(Session) /\ Len(sessions') = n
      BY <2>1, <2>2, RotatedIs
    <3>2. DOMAIN sessions = 1..Len(sessions) /\ Len(sessions) \in Nat
      BY DEF TypeOK
    <3>3. QED BY <3>1, <3>2
  <2>5. sessions'[n].user = sessions[i].user /\ sessions'[n].password = sessions[i].password
    <3>1. sessions'[n] = NewSession(sessions[i].user, sessions[i].password)
      BY <2>1, <2>2, RotatedIs
    <3>2. QED BY <3>1 DEF NewSession
  <2>6. sessions'[i].revoked /\ \A j \in DOMAIN sessions \ {i} : sessions'[j] = sessions[j]
    BY <2>1, <2>2, RotatedIs
  <2>7. NoSessionOutlivesPassword'
    BY <2>1, <2>3, <2>4, <2>5, <2>6 DEF NoSessionOutlivesPassword
  <2>8. QED BY <1>2, <2>1, <2>7 DEF Idle
<1>7. ASSUME NEW w \in Worker, CommitReset(w) PROVE ReadingHolds' /\ NoSessionOutlivesPassword'
  <2>1. PICK row \in Reset :
          /\ users' = [users EXCEPT ![row.user] = Renewed(users[row.user])]
          /\ sessions' = AllRevoked(row.user)
    BY <1>7, ResetStep
  <2>2. req'[w] = Idle
    BY <1>7 DEF CommitReset, Answer, TypeOK
  <2>3. \A u \in User \ {row.user} : users'[u] = users[u]
    BY <2>1 DEF TypeOK
  <2>4. /\ DOMAIN sessions' = DOMAIN sessions
        /\ \A i \in DOMAIN sessions :
             /\ sessions'[i].user = sessions[i].user /\ sessions'[i].password = sessions[i].password
             /\ sessions[i].revoked \/ sessions[i].user = row.user => sessions'[i].revoked
    BY <2>1, AllRevokedMarks DEF Marked, TypeOK
  <2>5. NoSessionOutlivesPassword'
    BY <2>3, <2>4, RowIs DEF NoSessionOutlivesPassword
  <2>6. QED BY <1>2, <2>2, <2>5 DEF Idle
<1>8. ASSUME NEW w \in Worker,
             FailLogin(w) \/ CommitReuse(w) \/ CommitRevoke(w) \/ DropResets(w) \/ IssueReset(w)
             \/ CommitUpdate(w) \/ Abort(w),
             ~\E v \in Worker : CommitReset(v)
      PROVE  ReadingHolds' /\ NoSessionOutlivesPassword'
  <2>1. req'[w].op \notin {"login", "open", "refresh"}
    BY <1>8 DEF FailLogin, CommitReuse, CommitRevoke, DropResets, IssueReset, CommitUpdate, Abort,
         Answer, Idle, TypeOK, Request
  <2>2. UNCHANGED sessions \/ Revokes(w)
    BY <1>8 DEF FailLogin, DropResets, IssueReset, Abort, Revokes
  <2>3. Marked(sessions, sessions')
    BY <2>2, RevokesMark, Unmarked
  <2>4. QED BY <1>1, <1>2, <1>8, <2>1, <2>3, PasswordsKept
<1>9. ASSUME (\E u \in User : Unlock(u)) \/ (\E k \in DOMAIN resets : ExpireReset(k)) \/ UNCHANGED vars
             \/ \E i \in DOMAIN sessions : ExpireSession(i),
             ~\E v \in Worker : CommitReset(v)
      PROVE  ReadingHolds' /\ NoSessionOutlivesPassword'
  <2>1. UNCHANGED req /\ Marked(sessions, sessions')
        /\ \A i \in DOMAIN sessions : sessions'[i].revoked = sessions[i].revoked
    BY <1>9, ExpiryMarks, Unmarked DEF Unlock, ExpireReset, ExpireSession, vars
  <2>2. \A u \in User : users'[u].password = users[u].password
    BY <1>9, PasswordsKept
  <2>3. \A w \in Worker : /\ req[w].op \in {"login", "open"} => req[w].user \in User
                          /\ req[w].op = "refresh" => req[w].session \in DOMAIN sessions
    BY RequestIs DEF TypeOK
  <2>4. ReadingHolds'
    BY <2>1, <2>2, <2>3 DEF ReadingHolds
  <2>5. QED BY <1>1, <2>1, <2>2, <2>4
<1>10. QED
  BY <1>3, <1>4, <1>5, <1>6, <1>7, <1>8, <1>9 DEF Next, Finish

\* The password of an account is the one each of its live sessions was opened with,
\* when no request overlaps another.
THEOREM SessionsEndWithPasswords ==
  ASSUME \A v, w \in Worker : v = w
  PROVE  Spec => []NoSessionOutlivesPassword
<1> DEFINE Inv == ReadingHolds /\ NoSessionOutlivesPassword
<1>1. Init => Inv
  BY DEF Init, ReadingHolds, NoSessionOutlivesPassword, Idle
<1>2. Base /\ Inv /\ [Next]_vars => Inv'
  BY NextAlone
<1>3. QED BY <1>1, <1>2, AlwaysBase, PTL DEF Spec
=============================================================================
