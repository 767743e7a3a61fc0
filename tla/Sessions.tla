-------------------------------- MODULE Sessions --------------------------------
(***************************************************************************)
(* AuthService and the parts of UsersService that end sessions: login with *)
(* its lockout, refresh with rotation and reuse detection, logout, password*)
(* reset, and changes of a user's status and role.                         *)
(*                                                                         *)
(* A Worker is one request.  Login and forgotPassword write with several   *)
(* statements that commit on their own, so they have a step for each; the  *)
(* others write once, or in one transaction, from what Begin read.         *)
(***************************************************************************)
EXTENDS Lifecycle, Naturals, Sequences, FiniteSets

CONSTANTS
  User,         \* the staff accounts
  Worker,       \* the requests that can be in flight together
  Statuses,     \* the statuses administrators hand out
  Roles,        \* the roles they hand out
  LockAfter,    \* the failures that lock an account: 5
  Deadlines,    \* which deadlines can pass: of locks, of sessions, of reset links
  MaxFailures,  \* bound: no wrong password is offered beyond so many failures
  MaxLogins,    \* bound: no login that succeeds is begun beyond so many sessions
  MaxSessions,  \* bound: no refresh is begun beyond so many sessions
  MaxResets     \* bound: no reset link is asked for beyond so many

UserStatus == {"ACTIVE", "SUSPENDED", "INVITED", "DISABLED"}

ASSUME SessionAssumption ==
  /\ Statuses \subseteq UserStatus
  /\ Roles \subseteq UserRole /\ Roles # {}
  /\ Deadlines \subseteq {"lock", "session", "link"}
  /\ LockAfter \in Nat \ {0}
  /\ MaxFailures \in Nat /\ MaxLogins \in Nat /\ MaxSessions \in Nat /\ MaxResets \in Nat

VARIABLES
  users,     \* User rows
  sessions,  \* RefreshSession rows, in the order they were created
  resets,    \* the PasswordResetToken rows ever created, in order
  req        \* what each worker is doing

vars == <<users, sessions, resets, req>>

-----------------------------------------------------------------------------
(* Rows *)

\* password: how often the account's password was changed.  locked: lockedUntil
\* is in the future.
Account ==
  [status: UserStatus, role: UserRole, failed: Nat, locked: BOOLEAN, password: Nat]

\* replacedBy: 0 for null.  password: the one that the login of its chain gave.
Session ==
  [user: User, password: Nat, revoked: BOOLEAN, replacedBy: Nat, expired: BOOLEAN]

\* A row is there while "open"; a reset deletes it, as does asking for another.
Reset == [user: User, row: {"open", "deleted", "used"}, expired: BOOLEAN]

Idle == [op |-> "idle"]

Same == "same"   \* a field that the body of update leaves out

Request ==
       [op: {"idle"}]
  \cup [op: {"login"}, user: User, seenFailed: Nat, password: Nat, right: BOOLEAN]
  \cup [op: {"open"}, user: User, password: Nat]
  \cup [op: {"refresh", "revoke"}, session: Nat \ {0}]
  \cup [op: {"reuse", "forgot", "issue"}, user: User]
  \cup [op: {"reset"}, token: Nat \ {0}]
  \cup [op: {"update"}, user: User, status: UserStatus \cup {Same}, role: UserRole \cup {Same},
        ends: BOOLEAN]

TypeOK ==
  /\ users \in [User -> Account]
  /\ sessions \in Seq(Session)
  /\ resets \in Seq(Reset)
  /\ req \in [Worker -> Request]
  /\ \A w \in Worker :
       /\ req[w].op \in {"refresh", "revoke"} => req[w].session \in DOMAIN sessions
       /\ req[w].op = "reset" => req[w].token \in DOMAIN resets

Init ==
  /\ users \in [User -> [status: {"ACTIVE"}, role: Roles, failed: {0}, locked: {FALSE},
                         password: {0}]]
  /\ sessions = <<>>
  /\ resets = <<>>
  /\ req = [w \in Worker |-> Idle]

-----------------------------------------------------------------------------
Receive(w, r) ==
  /\ req[w] = Idle
  /\ req' = [req EXCEPT ![w] = r]
  /\ UNCHANGED <<users, sessions, resets>>

Answer(w) == req' = [req EXCEPT ![w] = Idle]

\* updateMany where the user is u and revokedAt is null.
AllRevoked(u) ==
  [i \in DOMAIN sessions |->
     IF sessions[i].user = u THEN [sessions[i] EXCEPT !.revoked = TRUE] ELSE sessions[i]]

NewSession(u, password) ==
  [user |-> u, password |-> password, revoked |-> FALSE, replacedBy |-> 0, expired |-> FALSE]

\* Mutant: the lock stands when the counter is cleared.
Cleared_Locked(account) == [account EXCEPT !.failed = 0]

\* failedLoginAttempts: 0, lockedUntil: null
Cleared(account) == [account EXCEPT !.failed = 0, !.locked = FALSE]

-----------------------------------------------------------------------------
(* Login: validateUser, then login *)

BeginLogin(w, u, right) ==
  /\ users[u].status = "ACTIVE"
  /\ ~users[u].locked
  /\ right => Len(sessions) < MaxLogins
  /\ ~right => users[u].failed < MaxFailures
  /\ Receive(w, [op |-> "login", user |-> u, seenFailed |-> users[u].failed,
                 password |-> users[u].password, right |-> right])

\* Both columns are written whatever they hold by now.
Failed(account, attempts) ==
  [account EXCEPT !.failed = attempts, !.locked = attempts >= LockAfter]

FailLogin(w) ==
  LET r == req[w] IN
  /\ r.op = "login"
  /\ ~r.right
  /\ users' = [users EXCEPT ![r.user] = Failed(@, r.seenFailed + 1)]
  /\ Answer(w)
  /\ UNCHANGED <<sessions, resets>>

PassLogin(w) ==
  LET r == req[w] IN
  /\ r.op = "login"
  /\ r.right
  /\ users' = [users EXCEPT ![r.user] = Cleared(@)]
  /\ req' = [req EXCEPT ![w] = [op |-> "open", user |-> r.user, password |-> r.password]]
  /\ UNCHANGED <<sessions, resets>>

OpenSession(w) ==
  /\ req[w].op = "open"
  /\ sessions' = Append(sessions, NewSession(req[w].user, req[w].password))
  /\ Answer(w)
  /\ UNCHANGED <<users, resets>>

-----------------------------------------------------------------------------
(* Refresh *)

Rotatable(i) ==
  /\ ~sessions[i].revoked
  /\ ~sessions[i].expired
  /\ users[sessions[i].user].status = "ACTIVE"

BeginRefresh(w, i) ==
  /\ Rotatable(i)
  /\ Len(sessions) < MaxSessions
  /\ Receive(w, [op |-> "refresh", session |-> i])

Replaced(session, by) == [session EXCEPT !.revoked = TRUE, !.replacedBy = by]

\* Mutant: the old session is linked to the new one and stays valid.
Rotated_Alive(i) ==
  Append([sessions EXCEPT ![i].replacedBy = Len(sessions) + 1],
         NewSession(sessions[i].user, sessions[i].password))

\* One new session, and the old one revoked in its favour.
Rotated(i) ==
  Append([sessions EXCEPT ![i] = Replaced(@, Len(sessions) + 1)],
         NewSession(sessions[i].user, sessions[i].password))

CommitRefresh(w) ==
  /\ req[w].op = "refresh"
  /\ sessions' = Rotated(req[w].session)
  /\ Answer(w)
  /\ UNCHANGED <<users, resets>>

\* A token whose session was revoked is taken for a stolen one.
BeginReuse(w, i) ==
  /\ sessions[i].revoked
  /\ Receive(w, [op |-> "reuse", user |-> sessions[i].user])

CommitReuse(w) ==
  /\ req[w].op = "reuse"
  /\ sessions' = AllRevoked(req[w].user)
  /\ Answer(w)
  /\ UNCHANGED <<users, resets>>

-----------------------------------------------------------------------------
(* logout, whatever its session's state, and revokeSession, of a live one *)

BeginRevoke(w, i) == Receive(w, [op |-> "revoke", session |-> i])

CommitRevoke(w) ==
  /\ req[w].op = "revoke"
  /\ sessions' = [sessions EXCEPT ![req[w].session].revoked = TRUE]
  /\ Answer(w)
  /\ UNCHANGED <<users, resets>>

-----------------------------------------------------------------------------
(* Password reset *)

BeginForgot(w, u) ==
  /\ Len(resets) < MaxResets
  /\ Receive(w, [op |-> "forgot", user |-> u])

\* The deletion of the user's earlier tokens, and the creation of the new one.
DropResets(w) ==
  LET u == req[w].user IN
  /\ req[w].op = "forgot"
  /\ resets' = [i \in DOMAIN resets |->
                  IF resets[i].user = u /\ resets[i].row = "open"
                  THEN [resets[i] EXCEPT !.row = "deleted"] ELSE resets[i]]
  /\ req' = [req EXCEPT ![w].op = "issue"]
  /\ UNCHANGED <<users, sessions>>

IssueReset(w) ==
  /\ req[w].op = "issue"
  /\ resets' = Append(resets, [user |-> req[w].user, row |-> "open", expired |-> FALSE])
  /\ Answer(w)
  /\ UNCHANGED <<users, sessions>>

BeginReset(w, k) ==
  /\ resets[k].row = "open"
  /\ ~resets[k].expired
  /\ Receive(w, [op |-> "reset", token |-> k])

\* Mutant: the row is deleted by deleteMany, which finds nothing without failing.
Redeemable_Always(k) == resets[k].row # "nothing"

\* The deletion by id fails, and the transaction with it, when the row is gone.
Redeemable(k) == resets[k].row = "open"

\* Mutant: the sessions of the account are left alone.
Ended_Nothing(u) == sessions

\* Every session of the account is revoked with the change.
Ended(u) == AllRevoked(u)

Renewed(account) == [Cleared(account) EXCEPT !.password = account.password + 1]

CommitReset(w) ==
  LET k == req[w].token
      u == resets[k].user
  IN
  /\ req[w].op = "reset"
  /\ Redeemable(k)
  /\ users' = [users EXCEPT ![u] = Renewed(@)]
  /\ resets' = [resets EXCEPT ![k].row = "used"]
  /\ sessions' = Ended(u)
  /\ Answer(w)

-----------------------------------------------------------------------------
(* UsersService, by somebody else with a role that may *)

\* canManageUser, for a manager of the target's branches.
CanManage(by, u, action) ==
  LET role == users[u].role IN
  \/ by = "SYSTEM_ADMIN"
  \/ by = "OWNER" /\ role \notin {"SYSTEM_ADMIN", "OWNER"}
  \/ /\ by = "BRANCH_MANAGER"
     /\ action # "CHANGE_ROLE"
     /\ role \in {"FRONT_DESK", "TECHNICIAN"}

Updating(u, status, role, ends) ==
  [op |-> "update", user |-> u, status |-> status, role |-> role, ends |-> ends]

\* updateStatus revokes the sessions of an account that is shut.
BeginUpdateStatus(w, by, u, status) ==
  /\ CanManage(by, u, "SUSPEND")
  /\ Receive(w, Updating(u, status, Same, status \in {"SUSPENDED", "DISABLED"}))

BeginUpdateRole(w, by, u, role) ==
  /\ CanManage(by, u, "CHANGE_ROLE")
  /\ Receive(w, Updating(u, Same, role, TRUE))

\* update takes either field, or both, and revokes nothing.
BeginUpdate(w, by, u, status, role) ==
  /\ CanManage(by, u, "UPDATE")
  /\ status # Same \/ role # Same   \* the other fields are not modelled
  /\ Receive(w, Updating(u, status, role, FALSE))

Set(old, new) == IF new = Same THEN old ELSE new

Updated(account, r) ==
  [account EXCEPT !.status = Set(account.status, r.status), !.role = Set(account.role, r.role)]

CommitUpdate(w) ==
  LET r == req[w] IN
  /\ r.op = "update"
  /\ users' = [users EXCEPT ![r.user] = Updated(@, r)]
  /\ sessions' = IF r.ends THEN Ended(r.user) ELSE sessions
  /\ Answer(w)
  /\ UNCHANGED resets

-----------------------------------------------------------------------------
\* Time passes: fifteen minutes, seven days, one hour.
Unlock(u) ==
  /\ "lock" \in Deadlines
  /\ users[u].locked
  /\ users' = [users EXCEPT ![u].locked = FALSE]
  /\ UNCHANGED <<sessions, resets, req>>

ExpireSession(i) ==
  /\ "session" \in Deadlines
  /\ ~sessions[i].revoked   \* of a revoked one nobody asks
  /\ ~sessions[i].expired
  /\ sessions' = [sessions EXCEPT ![i].expired = TRUE]
  /\ UNCHANGED <<users, resets, req>>

ExpireReset(k) ==
  /\ "link" \in Deadlines
  /\ resets[k].row = "open"
  /\ ~resets[k].expired
  /\ resets' = [resets EXCEPT ![k].expired = TRUE]
  /\ UNCHANGED <<users, sessions, req>>

\* A statement fails, or the process dies, before the next one commits.
Abort(w) ==
  /\ req[w] # Idle
  /\ Answer(w)
  /\ UNCHANGED <<users, sessions, resets>>

Begin(w) ==
  \/ \E u \in User, right \in BOOLEAN : BeginLogin(w, u, right)
  \/ \E i \in DOMAIN sessions : BeginRefresh(w, i) \/ BeginReuse(w, i) \/ BeginRevoke(w, i)
  \/ \E u \in User : BeginForgot(w, u)
  \/ \E k \in DOMAIN resets : BeginReset(w, k)
  \/ \E by \in UserRole \ {"FRONT_DESK", "TECHNICIAN"}, u \in User :
       \/ \E status \in Statuses : BeginUpdateStatus(w, by, u, status)
       \/ \E role \in Roles : BeginUpdateRole(w, by, u, role)
       \/ \E status \in Statuses \cup {Same}, role \in Roles \cup {Same} :
            BeginUpdate(w, by, u, status, role)

Finish(w) ==
  \/ FailLogin(w)
  \/ PassLogin(w)
  \/ OpenSession(w)
  \/ CommitRefresh(w)
  \/ CommitReuse(w)
  \/ CommitRevoke(w)
  \/ DropResets(w)
  \/ IssueReset(w)
  \/ CommitReset(w)
  \/ CommitUpdate(w)
  \/ Abort(w)

Next ==
  \/ \E w \in Worker : Begin(w) \/ Finish(w)
  \/ \E u \in User : Unlock(u)
  \/ \E i \in DOMAIN sessions : ExpireSession(i)
  \/ \E k \in DOMAIN resets : ExpireReset(k)

Spec == Init /\ [][Next]_vars

-----------------------------------------------------------------------------
(* Invariants that hold whatever the requests in flight *)

\* A lock is never without the failures that earn it: the two columns are
\* written by failures, successes and resets that may all be stale.
LockIsEarned == \A u \in User : users[u].locked => users[u].failed >= LockAfter

\* Rotation leaves a trail: a session that was replaced is dead, whoever refreshed
\* it and how often, and what replaced it is a later session of the same login.
ReplacedIsDead ==
  \A i \in DOMAIN sessions : sessions[i].replacedBy # 0 =>
    /\ sessions[i].revoked
    /\ sessions[i].replacedBy \in (i + 1)..Len(sessions)
    /\ sessions[sessions[i].replacedBy].user = sessions[i].user
    /\ sessions[sessions[i].replacedBy].password = sessions[i].password

\* A reset link changes the password once, however many requests present it
\* together: each change of a password has a link of its own.
LinkPerPassword ==
  \A u \in User :
    users[u].password = Cardinality({k \in DOMAIN resets : resets[k].user = u
                                                         /\ resets[k].row = "used"})

-----------------------------------------------------------------------------
(* Properties that need the requests to come one at a time *)

\* No live session was opened with a password that has been changed since.
NoSessionOutlivesPassword ==
  \A i \in DOMAIN sessions :
    ~sessions[i].revoked => sessions[i].password = users[sessions[i].user].password
=============================================================================
