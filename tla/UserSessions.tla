---------------------------- MODULE UserSessions ----------------------------
(***************************************************************************)
(* Passwords, lockouts and session tokens: overlapping requests of         *)
(* http_api/routes_auth.py over the rows of users/repositories.py.  Each   *)
(* request is one transaction (get_write_session): it decides on the       *)
(* snapshot it reads, and its UPDATEs meet the rows as they are when it    *)
(* commits.  A request takes the times it writes at its start.             *)
(*                                                                         *)
(* Passwords are abstracted to whether the one given is the stored one,    *)
(* tokens to the sessions they name.  A request that is refused without a  *)
(* write -- no credential, a lock that runs, a dead token, a session of    *)
(* somebody else -- changes nothing and has no step.  The row locks of the *)
(* database only order the commits, and a deadlock ends as an abandoned    *)
(* request does.                                                           *)
(***************************************************************************)
EXTENDS Integers, FiniteSets

CONSTANTS
  Users, Clients,
  MaxSessions,     \* bound on the sessions issued
  MaxFailed,       \* max_failed_attempts
  LockoutTicks,    \* lockout_minutes
  SessionTicks,    \* session_minutes
  MaxClock,        \* bound on the time
  None             \* NULL

(* Ids are random and never compared in the code: here they count.            *)
SessionIds == 1 .. MaxSessions

ASSUME AccountsAssumption ==
  /\ {MaxFailed, LockoutTicks, SessionTicks} \subseteq Nat \ {0}
  /\ {MaxSessions, MaxClock} \subseteq Nat /\ None \notin Nat \cup Users

VARIABLES
  clock,
  active,        \* the users whose status is ACTIVE
  credential,    \* user -> counter and lock
  sessions,      \* id -> row, NoSession when unused
  request,       \* client -> the transaction it runs
  overlapped,    \* observer: users whose logins have overlapped
  failed,        \* observer: wrong passwords answered since the counter was reset,
                 \* counted until logins overlap
  loggedOut      \* observer: sessions that existed when a logout-all committed

vars == <<clock, active, credential, sessions, request, failed, overlapped,
          loggedOut>>
observers == <<failed, overlapped, loggedOut>>

NoSession == [user |-> None, expires |-> None, revoked |-> None, seen |-> None]
NoRequest == [kind |-> "idle"]
Cleared == [count |-> 0, locked |-> None]

Init ==
  /\ clock = 0
  /\ active = Users
  /\ credential = [u \in Users |-> Cleared]
  /\ sessions = [s \in SessionIds |-> NoSession]
  /\ request = [c \in Clients |-> NoRequest]
  /\ failed = [u \in Users |-> 0]
  /\ overlapped = {}
  /\ loggedOut = {}

-----------------------------------------------------------------------------
(***************************************************************************)
(* Requests begin: what they read decides what they will write.            *)
(***************************************************************************)
LogsIn(c, u) == request[c].kind \in {"wrong", "right"} /\ request[c].user = u
LoginRuns(u) == \E c \in Clients : LogsIn(c, u)

Working(c) == request[c].kind # "idle"

Start(c, q) ==
  /\ ~Working(c)
  /\ request' = [request EXCEPT ![c] = q]
  /\ UNCHANGED <<clock, active, credential, sessions>>

IsLocked(u) == credential[u].locked # None /\ credential[u].locked > clock

Issued == {s \in SessionIds : sessions[s] # NoSession}
Issuing == {c \in Clients : request[c].kind = "right"}
Room == Cardinality(Issued) + Cardinality(Issuing) < MaxSessions

Login(c, u, kind) ==
  /\ ~IsLocked(u)
  /\ kind = "right" => Room
  /\ Start(c, [kind |-> kind, user |-> u, seen |-> credential[u],
               mayHold |-> u \in active, at |-> clock])
  /\ overlapped' = overlapped \cup (IF LoginRuns(u) THEN {u} ELSE {})
  /\ UNCHANGED <<failed, loggedOut>>

(* resolve_active_session and the user behind it. *)
Resolves(s) ==
  /\ sessions[s].user \in active
  /\ sessions[s].revoked = None /\ sessions[s].expires > clock

Authenticated(kind, s, target) ==
  [kind |-> kind, session |-> s, row |-> sessions[s], target |-> target,
   at |-> clock]

Me(c, s) ==
  /\ Resolves(s)
  /\ Start(c, Authenticated("me", s, None)) /\ UNCHANGED observers

RevokeOwned(c, s, target) ==
  /\ Resolves(s)
  /\ sessions[target].user = sessions[s].user
  /\ Start(c, Authenticated("revoke", s, target)) /\ UNCHANGED observers

LogoutAll(c, s) ==
  /\ Resolves(s)
  /\ Start(c, Authenticated("logout_all", s, None)) /\ UNCHANGED observers

(* No authentication: a dead token is no error. *)
Logout(c, s) ==
  /\ sessions[s] # NoSession
  /\ Start(c, Authenticated("logout", s, None)) /\ UNCHANGED observers

-----------------------------------------------------------------------------
(***************************************************************************)
(* What a request commits.                                                 *)
(***************************************************************************)
(* The ORM writes the columns whose value differs from the one it read.       *)
Column(now, read, new) == IF new = read THEN now ELSE new

(* Mutant: the failure is raised before its bookkeeping is committed. *)
RegisterFailureRolledBack(now, q) == now

RegisterFailure(now, q) ==
  LET attempts == q.seen.count + 1
      locked == IF attempts >= MaxFailed THEN q.at + LockoutTicks ELSE None
  IN  [count  |-> Column(now.count, q.seen.count, attempts),
       locked |-> Column(now.locked, q.seen.locked, locked)]

RegisterSuccess(now, q) ==
  [count  |-> Column(now.count, q.seen.count, 0),
   locked |-> Column(now.locked, q.seen.locked, None)]

(* touch_session writes nothing when it was last seen in the same second. *)
Touches(q) == q.row.seen # q.at

(* Mutant: a touch writes the row back as it was read. *)
TouchedWhole(rows, q) == [rows EXCEPT ![q.session] = [q.row EXCEPT !.seen = q.at]]

Touched(rows, q) ==
  IF Touches(q) THEN [rows EXCEPT ![q.session].seen = q.at] ELSE rows

(* Mutant: a session is revoked again. *)
RevokedAgain(rows, ids, at) ==
  [s \in SessionIds |-> IF s \in ids THEN [rows[s] EXCEPT !.revoked = at] ELSE rows[s]]

(* revoke_session and revoke_user_sessions: WHERE revoked_at_utc IS NULL. *)
Revoked(rows, ids, at) ==
  [s \in SessionIds |-> IF s \in ids /\ rows[s].revoked = None
                        THEN [rows[s] EXCEPT !.revoked = at] ELSE rows[s]]

SessionsOf(u) == {s \in SessionIds : sessions[s].user = u}

Written(q) ==
  CASE q.kind = "me" -> Touched(sessions, q)
    [] q.kind = "revoke" -> Revoked(Touched(sessions, q), {q.target}, q.at)
    [] q.kind = "logout" -> Revoked(sessions, {q.session}, q.at)
    [] q.kind = "logout_all" ->
         Revoked(Touched(sessions, q), SessionsOf(q.row.user), q.at)

Ends(c) == request' = [request EXCEPT ![c] = NoRequest]

(* A wrong password: login commits the failure, then reports it. *)
CommitFailure(c) ==
  /\ request[c].kind = "wrong"
  /\ LET q == request[c]
     IN  /\ credential' = [credential EXCEPT ![q.user] = RegisterFailure(@, q)]
         /\ failed' = [failed EXCEPT ![q.user] =
                         IF q.user \in overlapped THEN @ ELSE @ + 1]
  /\ Ends(c)
  /\ UNCHANGED <<clock, active, sessions, overlapped, loggedOut>>

CommitLogin(c) ==
  /\ request[c].kind = "right" /\ request[c].mayHold
  /\ LET q == request[c]
     IN  /\ credential' = [credential EXCEPT ![q.user] = RegisterSuccess(@, q)]
         /\ failed' = [failed EXCEPT ![q.user] = 0]
         /\ \E s \in SessionIds :
              /\ Issued = 1 .. s - 1
              /\ sessions' = [sessions EXCEPT ![s] =
                   [user |-> q.user, expires |-> q.at + SessionTicks,
                    revoked |-> None, seen |-> None]]
  /\ Ends(c)
  /\ UNCHANGED <<clock, active, overlapped, loggedOut>>

CommitSessions(c) ==
  /\ request[c].kind \in {"me", "revoke", "logout", "logout_all"}
  /\ sessions' = Written(request[c])
  /\ loggedOut' = loggedOut \cup (IF request[c].kind = "logout_all"
                                  THEN SessionsOf(request[c].row.user) ELSE {})
  /\ Ends(c)
  /\ UNCHANGED <<clock, active, credential, failed, overlapped>>

Commit(c) == CommitFailure(c) \/ CommitLogin(c) \/ CommitSessions(c)

RollBack(c) ==
  /\ Ends(c)
  /\ UNCHANGED <<clock, active, credential, sessions, observers>>

(* The right password of a user who is not active: the reset of the counter   *)
(* is rolled back with the refusal.                                           *)
Forbid(c) ==
  request[c].kind = "right" /\ ~request[c].mayHold /\ RollBack(c)

(* A deadlock, a lost connection, a process that died. *)
Abandon(c) == Working(c) /\ RollBack(c)

-----------------------------------------------------------------------------
(***************************************************************************)
(* Calls of the repositories outside the API, each a transaction of its    *)
(* own that overlaps with nothing but running requests.                    *)
(***************************************************************************)
(* set_password and unlock: both clear the counter; tokens stay valid. *)
ClearCounter(u) ==
  /\ credential' = [credential EXCEPT ![u] = Cleared]
  /\ failed' = [failed EXCEPT ![u] = 0]
  /\ overlapped' = overlapped \cup (IF LoginRuns(u) THEN {u} ELSE {})
  /\ UNCHANGED <<clock, active, sessions, request, loggedOut>>

SetStatus(u) ==
  /\ active' = IF u \in active THEN active \ {u} ELSE active \cup {u}
  /\ UNCHANGED <<clock, credential, sessions, request, observers>>

Tick ==
  /\ clock < MaxClock
  /\ clock' = clock + 1
  /\ UNCHANGED <<active, credential, sessions, request, observers>>

Next ==
  \/ Tick
  \/ \E u \in Users : ClearCounter(u) \/ SetStatus(u)
  \/ \E c \in Clients :
       \/ \E u \in Users, kind \in {"wrong", "right"} : Login(c, u, kind)
       \/ \E s \in SessionIds :
            \/ Me(c, s) \/ Logout(c, s) \/ LogoutAll(c, s)
            \/ \E target \in SessionIds : RevokeOwned(c, s, target)
       \/ Commit(c) \/ Forbid(c) \/ Abandon(c)

Spec == Init /\ [][Next]_vars

-----------------------------------------------------------------------------
(* As long as the logins of a user do not overlap, the counter is the number  *)
(* of wrong passwords answered since it was reset, and a lock runs from the   *)
(* failure that brought it to the maximum: no failure is lost with the        *)
(* transaction that reported it ("commit the failure bookkeeping before       *)
(* reporting the failure", users/repositories.py:312).                        *)
CountIsExact ==
  \A u \in Users \ overlapped :
    /\ credential[u].count = failed[u]
    /\ credential[u].locked # None <=> failed[u] >= MaxFailed

(* "Revoke every session this user holds": whatever logins, touches and       *)
(* revocations ran beside a logout-all, none of the sessions that existed     *)
(* when it committed is alive then or later.                                  *)
LoggedOutEverywhere == \A s \in loggedOut : sessions[s].revoked # None

(* A session ends once: its first revocation stands, with its time, and       *)
(* neither its owner nor its expiry ever move.                                *)
Lasting(row) == [row EXCEPT !.seen = None]
FirstRevocationStands ==
  [][\A s \in Issued :
       IF sessions[s].revoked # None
       THEN Lasting(sessions'[s]) = Lasting(sessions[s])
       ELSE [Lasting(sessions'[s]) EXCEPT !.revoked = None] = Lasting(sessions[s])]_vars
=============================================================================
