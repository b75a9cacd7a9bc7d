-------------------------- MODULE UserSessionsProofs --------------------------
(* Logins, touches and revocations of overlapping requests, for any users,    *)
(* clients, limits and bounds: the failure counter is exact until logins      *)
(* overlap, a logout-all ends every session there is, and the first           *)
(* revocation of a session stands.                                            *)
EXTENDS UserSessions, TLAPS

Times == Nat \cup {None}
Credentials == [count : Nat, locked : Times]
SessionRows == [user : Users, expires : Nat, revoked : Times, seen : Times]
LoginRequests == [kind : {"wrong", "right"}, user : Users, seen : Credentials,
                  mayHold : BOOLEAN, at : Nat]
SessionRequests == [kind : {"me", "revoke", "logout", "logout_all"},
                    session : SessionIds, row : SessionRows,
                    target : SessionIds \cup {None}, at : Nat]

TypesFit ==
  /\ clock \in Nat
  /\ active \subseteq Users
  /\ credential \in [Users -> Credentials]
  /\ sessions \in [SessionIds -> SessionRows \cup {NoSession}]
  /\ request \in [Clients -> {NoRequest} \cup LoginRequests \cup SessionRequests]
  /\ failed \in [Users -> Nat]

(* Requests work on sessions that exist, and a logout-all names only such.    *)
SessionsExist ==
  /\ loggedOut \subseteq Issued
  /\ \A c \in Clients : request[c].kind \in {"me", "revoke", "logout", "logout_all"}
       => request[c].session \in Issued
  /\ \A c \in Clients : request[c].kind = "revoke" => request[c].target \in Issued

(* Until the logins of a user overlap, at most one runs, and the credential   *)
(* is what it read.                                                           *)
OneLogin ==
  \A u \in Users \ overlapped : \A c \in Clients :
    LogsIn(c, u) => /\ request[c].seen = credential[u]
                    /\ \A d \in Clients : LogsIn(d, u) => d = c

IInv == TypesFit /\ SessionsExist /\ OneLogin /\ CountIsExact /\ LoggedOutEverywhere

-----------------------------------------------------------------------------
(* What the kind of a request tells about it.                                 *)
LEMMA RequestKinds ==
  ASSUME TypesFit, NEW c \in Clients
  PROVE  /\ request[c].kind \in {"wrong", "right"} => request[c] \in LoginRequests
         /\ request[c].kind \in {"me", "revoke", "logout", "logout_all"}
              => request[c] \in SessionRequests
<1>1. request[c] \in {NoRequest} \cup LoginRequests \cup SessionRequests
  BY DEF TypesFit
<1>2. NoRequest.kind = "idle"
  BY DEF NoRequest
<1>3. request[c] \in SessionRequests =>
        request[c].kind \in {"me", "revoke", "logout", "logout_all"}
  BY DEF SessionRequests
<1>4. request[c] \in LoginRequests => request[c].kind \in {"wrong", "right"}
  BY DEF LoginRequests
<1>. QED
  BY <1>1, <1>2, <1>3, <1>4

(* A session that has an owner was issued.                                    *)
LEMMA OwnedIsIssued ==
  ASSUME TypesFit, NEW s \in SessionIds
  PROVE  /\ sessions[s].user \in Users <=> s \in Issued
         /\ s \in Issued => sessions[s] \in SessionRows
<1>1. sessions[s] \in SessionRows \cup {NoSession}
  BY DEF TypesFit
<1>2. NoSession.user \notin Users
  BY AccountsAssumption DEF NoSession
<1>3. sessions[s] \in SessionRows => sessions[s].user \in Users
  BY DEF SessionRows
<1>. QED
  BY <1>1, <1>2, <1>3 DEF Issued

(* Nobody has failed, no session was issued.                                  *)
LEMMA InitInv == Init => IInv
<1> SUFFICES ASSUME Init PROVE IInv
  OBVIOUS
<1>1. Cleared \in Credentials
  BY DEF Cleared, Credentials, Times
<1>2. TypesFit
  BY <1>1 DEF Init, TypesFit
<1>3. \A c \in Clients : request[c].kind = "idle"
  BY DEF Init, NoRequest
<1>4. SessionsExist
  BY <1>3 DEF Init, SessionsExist
<1>5. OneLogin
  BY <1>3 DEF OneLogin, LogsIn
<1>6. CountIsExact
  BY AccountsAssumption DEF Init, CountIsExact, Cleared
<1>7. LoggedOutEverywhere
  BY DEF Init, LoggedOutEverywhere
<1>. QED
  BY <1>2, <1>4, <1>5, <1>6, <1>7 DEF IInv

-----------------------------------------------------------------------------
(* A login begins: it read the credential as it is, and if another of the     *)
(* user runs, the two overlap from now on.                                    *)
LEMMA LoginInv ==
  ASSUME IInv, NEW c \in Clients, NEW u \in Users, NEW kind \in {"wrong", "right"},
         Login(c, u, kind)
  PROVE  IInv'
<1> DEFINE q == [kind |-> kind, user |-> u, seen |-> credential[u],
                 mayHold |-> u \in active, at |-> clock]
<1>1. TypesFit /\ SessionsExist /\ OneLogin /\ CountIsExact /\ LoggedOutEverywhere
  BY DEF IInv
<1>2. /\ request' = [request EXCEPT ![c] = q]
      /\ UNCHANGED <<clock, active, credential, sessions, failed, loggedOut>>
      /\ overlapped' = overlapped \cup (IF LoginRuns(u) THEN {u} ELSE {})
  BY DEF Login, Start
<1>3. /\ q \in LoginRequests
      /\ q.kind = kind /\ q.user = u /\ q.seen = credential[u]
  BY <1>1 DEF TypesFit, LoginRequests
<1> HIDE DEF q
<1>4. \A d \in Clients : request'[d] = IF d = c THEN q ELSE request[d]
  BY <1>1, <1>2 DEF TypesFit
<1>5. TypesFit'
  BY <1>1, <1>2, <1>3 DEF TypesFit
<1>6. SessionsExist'
  BY <1>1, <1>2, <1>3, <1>4 DEF SessionsExist, Issued
<1>7. OneLogin'
  <2> SUFFICES ASSUME NEW v \in Users, v \notin overlapped',
                      NEW d \in Clients, LogsIn(d, v)'
               PROVE  /\ request'[d].seen = credential'[v]
                      /\ \A e \in Clients : LogsIn(e, v)' => e = d
    BY DEF OneLogin
  <2>1. v \notin overlapped /\ (v = u => ~LoginRuns(u))
    BY <1>2
  <2>2. \A e \in Clients : LogsIn(e, v)' <=> IF e = c THEN v = u ELSE LogsIn(e, v)
    BY <1>3, <1>4 DEF LogsIn
  <2>3. CASE v = u
    <3>1. \A e \in Clients : LogsIn(e, v)' => e = c
      BY <2>1, <2>2, <2>3 DEF LoginRuns
    <3>. QED
      BY <1>2, <1>3, <1>4, <2>3, <3>1
  <2>4. CASE v # u
    BY <1>1, <1>2, <1>4, <2>1, <2>2, <2>4 DEF OneLogin
  <2>. QED
    BY <2>3, <2>4
<1>8. CountIsExact'
  BY <1>1, <1>2 DEF CountIsExact
<1>9. LoggedOutEverywhere'
  BY <1>1, <1>2 DEF LoggedOutEverywhere
<1>. QED
  BY <1>5, <1>6, <1>7, <1>8, <1>9 DEF IInv

(* A request on sessions begins, or a request ends without a commit: only the *)
(* requests change, and none of them becomes a login.                         *)
LEMMA RequestsOnly ==
  ASSUME IInv, NEW c \in Clients, NEW q \in {NoRequest} \cup SessionRequests,
         q \in SessionRequests => q.session \in Issued,
         q.kind = "revoke" => q.target \in Issued,
         request' = [request EXCEPT ![c] = q],
         clock' \in Nat, active' \subseteq Users,
         UNCHANGED <<credential, sessions, failed, overlapped, loggedOut>>
  PROVE  IInv'
<1>1. TypesFit /\ SessionsExist /\ OneLogin /\ CountIsExact /\ LoggedOutEverywhere
  BY DEF IInv
<1>2. \A d \in Clients : request'[d] = IF d = c THEN q ELSE request[d]
  BY <1>1 DEF TypesFit
<1>3. /\ q.kind \notin {"wrong", "right"}
      /\ q.kind \in {"me", "revoke", "logout", "logout_all"} => q \in SessionRequests
  BY DEF SessionRequests, NoRequest
<1>4. TypesFit'
  BY <1>1 DEF TypesFit
<1>5. SessionsExist'
  BY <1>1, <1>2, <1>3 DEF SessionsExist, Issued
<1>6. OneLogin'
  <2>1. \A d \in Clients : \A u : LogsIn(d, u)' <=> d # c /\ LogsIn(d, u)
    BY <1>2, <1>3 DEF LogsIn
  <2>. QED
    BY <1>1, <1>2, <2>1 DEF OneLogin
<1>7. CountIsExact'
  BY <1>1 DEF CountIsExact
<1>8. LoggedOutEverywhere'
  BY <1>1 DEF LoggedOutEverywhere
<1>. QED
  BY <1>4, <1>5, <1>6, <1>7, <1>8 DEF IInv

(* Me, revoke, logout and logout-all begin.                                   *)
LEMMA SessionRequestInv ==
  ASSUME IInv, NEW c \in Clients, NEW s \in SessionIds,
         \/ Me(c, s) \/ Logout(c, s) \/ LogoutAll(c, s)
         \/ \E target \in SessionIds : RevokeOwned(c, s, target)
  PROVE  IInv'
<1>1. TypesFit /\ SessionsExist
  BY DEF IInv
<1>2. Resolves(s) => s \in Issued
  BY <1>1, OwnedIsIssued DEF Resolves, TypesFit
<1>3. s \in Issued
  BY <1>2 DEF Me, Logout, LogoutAll, RevokeOwned, Issued
<1>4. sessions[s] \in SessionRows
  BY <1>1, <1>3, OwnedIsIssued
<1>5. PICK kind \in {"me", "revoke", "logout", "logout_all"},
           target \in SessionIds \cup {None} :
        /\ Start(c, Authenticated(kind, s, target)) /\ UNCHANGED observers
        /\ kind = "revoke" => target \in SessionIds
                              /\ sessions[target].user = sessions[s].user
  BY DEF Me, Logout, LogoutAll, RevokeOwned
<1> DEFINE q == Authenticated(kind, s, target)
<1>6. /\ q \in SessionRequests
      /\ q.session = s /\ q.kind = kind /\ q.target = target
  BY <1>1, <1>4 DEF Authenticated, SessionRequests, TypesFit
<1>7. kind = "revoke" => target \in Issued
  BY <1>1, <1>3, <1>5, OwnedIsIssued
<1>8. /\ request' = [request EXCEPT ![c] = q]
      /\ UNCHANGED <<clock, active, credential, sessions, failed, overlapped, loggedOut>>
  BY <1>5 DEF Start, observers
<1>9. clock' \in Nat /\ active' \subseteq Users
  BY <1>1, <1>8 DEF TypesFit
<1> HIDE DEF q
<1>. QED
  BY <1>3, <1>6, <1>7, <1>8, <1>9, RequestsOnly

(* A refused or abandoned request leaves nothing behind.                      *)
LEMMA RollBackInv ==
  ASSUME IInv, NEW c \in Clients, RollBack(c)
  PROVE  IInv'
<1>1. /\ request' = [request EXCEPT ![c] = NoRequest]
      /\ UNCHANGED <<clock, active, credential, sessions, failed, overlapped, loggedOut>>
  BY DEF RollBack, Ends, observers
<1>2. NoRequest.kind = "idle" /\ NoRequest \notin SessionRequests
  BY DEF NoRequest, SessionRequests
<1>3. clock' \in Nat /\ active' \subseteq Users
  BY <1>1 DEF IInv, TypesFit
<1>. QED
  BY <1>1, <1>2, <1>3, RequestsOnly

-----------------------------------------------------------------------------
(* What the failure writes: exact when the credential is as the login read it.*)
LEMMA FailureRegistered ==
  ASSUME NEW now \in Credentials, NEW q \in LoginRequests
  PROVE  /\ RegisterFailure(now, q) \in Credentials
         /\ q.seen = now =>
              /\ RegisterFailure(now, q).count = now.count + 1
              /\ RegisterFailure(now, q).locked # None <=> now.count + 1 >= MaxFailed
<1>1. /\ q.seen \in Credentials /\ q.at \in Nat
      /\ now.count \in Nat /\ now.locked \in Times
  BY DEF LoginRequests, Credentials
<1>2. q.seen.count \in Nat /\ q.seen.locked \in Times
  BY <1>1 DEF Credentials
<1> DEFINE attempts == q.seen.count + 1
           locked == IF attempts >= MaxFailed THEN q.at + LockoutTicks ELSE None
           count == Column(now.count, q.seen.count, attempts)
           lock == Column(now.locked, q.seen.locked, locked)
<1>3. attempts \in Nat /\ attempts # q.seen.count
  BY <1>2
<1>4. locked \in Times /\ (locked # None <=> attempts >= MaxFailed)
  BY <1>1, AccountsAssumption DEF Times
<1>5. RegisterFailure(now, q) = [count |-> count, locked |-> lock]
  BY DEF RegisterFailure
<1> HIDE DEF attempts, locked
<1>6. count = attempts /\ lock \in Times
  BY <1>1, <1>3, <1>4 DEF Column
<1>7. q.seen = now => lock = locked
  BY DEF Column
<1> HIDE DEF count, lock
<1>8. RegisterFailure(now, q) \in Credentials
  BY <1>3, <1>5, <1>6 DEF Credentials
<1>9. /\ RegisterFailure(now, q).count = attempts
      /\ RegisterFailure(now, q).locked = lock
  BY <1>5, <1>6
<1>10. q.seen = now => attempts = now.count + 1
  BY DEF attempts
<1>. QED
  BY <1>4, <1>7, <1>8, <1>9, <1>10

(* What a right password writes: a cleared credential, if it was as read.     *)
LEMMA SuccessRegistered ==
  ASSUME NEW now \in Credentials, NEW q \in LoginRequests
  PROVE  /\ RegisterSuccess(now, q) \in Credentials
         /\ q.seen = now => RegisterSuccess(now, q).count = 0
                            /\ RegisterSuccess(now, q).locked = None
<1>1. now.count \in Nat /\ now.locked \in Times
  BY DEF Credentials
<1> DEFINE count == Column(now.count, q.seen.count, 0)
           lock == Column(now.locked, q.seen.locked, None)
<1>2. count \in Nat /\ lock \in Times
  BY <1>1 DEF Column, Times
<1>3. q.seen = now => count = 0 /\ lock = None
  BY DEF Column
<1>4. RegisterSuccess(now, q) = [count |-> count, locked |-> lock]
  BY DEF RegisterSuccess
<1> HIDE DEF count, lock
<1>. QED
  BY <1>2, <1>3, <1>4 DEF Credentials

(* A login commits, well or not: its user's counter moves, and no other login *)
(* of the user is left unless they overlapped.                                *)
LEMMA LoginEnds ==
  ASSUME IInv, NEW c \in Clients, request[c] \in LoginRequests,
         NEW row \in Credentials, NEW n \in Nat,
         request[c].user \notin overlapped => row.count = n,
         request[c].user \notin overlapped => (row.locked # None <=> n >= MaxFailed),
         credential' = [credential EXCEPT ![request[c].user] = row],
         failed' = [failed EXCEPT ![request[c].user] = n],
         Ends(c), UNCHANGED <<clock, active, overlapped, loggedOut>>,
         sessions' \in [SessionIds -> SessionRows \cup {NoSession}],
         Issued \subseteq Issued',
         \A s \in Issued : sessions'[s].revoked = sessions[s].revoked
  PROVE  IInv'
<1>1. TypesFit /\ SessionsExist /\ OneLogin /\ CountIsExact /\ LoggedOutEverywhere
  BY DEF IInv
<1> DEFINE u == request[c].user
<1>2. u \in Users /\ request[c].kind \in {"wrong", "right"}
  BY DEF LoginRequests
<1>3. /\ request' = [request EXCEPT ![c] = NoRequest]
      /\ credential' = [credential EXCEPT ![u] = row]
      /\ failed' = [failed EXCEPT ![u] = n]
  BY DEF Ends
<1>4. u \notin overlapped => row.count = n /\ (row.locked # None <=> n >= MaxFailed)
  OBVIOUS
<1>5. LogsIn(c, u)
  BY <1>2 DEF LogsIn
<1> HIDE DEF u
<1>6. \A d \in Clients : request'[d] = IF d = c THEN NoRequest ELSE request[d]
  BY <1>1, <1>3 DEF TypesFit
<1>7. NoRequest.kind = "idle"
  BY DEF NoRequest
<1>8. TypesFit'
  <2>1. credential' \in [Users -> Credentials]
    BY <1>1, <1>2, <1>3 DEF TypesFit
  <2>2. failed' \in [Users -> Nat]
    BY <1>1, <1>2, <1>3 DEF TypesFit
  <2>3. request' \in [Clients -> {NoRequest} \cup LoginRequests \cup SessionRequests]
    <3> DEFINE Requests == LoginRequests \cup SessionRequests
    <3>1. request \in [Clients -> {NoRequest} \cup Requests]
      BY <1>1 DEF TypesFit
    <3> HIDE DEF Requests
    <3>2. request' \in [Clients -> {NoRequest} \cup Requests]
      BY <1>3, <3>1
    <3>. QED
      BY <3>2 DEF Requests
  <2>. QED
    BY <1>1, <2>1, <2>2, <2>3 DEF TypesFit
<1>9. SessionsExist'
  BY <1>1, <1>6, <1>7 DEF SessionsExist
<1>10. OneLogin'
  <2>1. \A d \in Clients : \A v : LogsIn(d, v)' <=> d # c /\ LogsIn(d, v)
    BY <1>6, <1>7 DEF LogsIn
  <2>2. \A v \in Users \ {u} : credential'[v] = credential[v]
    BY <1>1, <1>3 DEF TypesFit
  <2>. QED
    BY <1>1, <1>2, <1>5, <1>6, <2>1, <2>2 DEF OneLogin
<1>11. CountIsExact'
  <2>1. /\ \A v \in Users \ {u} : credential'[v] = credential[v] /\ failed'[v] = failed[v]
        /\ credential'[u] = row /\ failed'[u] = n
    BY <1>1, <1>2, <1>3 DEF TypesFit
  <2>. QED
    BY <1>1, <1>4, <2>1 DEF CountIsExact
<1>12. LoggedOutEverywhere'
  BY <1>1 DEF LoggedOutEverywhere, SessionsExist
<1>. QED
  BY <1>8, <1>9, <1>10, <1>11, <1>12 DEF IInv

(* A wrong password is counted once, with the lock that follows from it.      *)
LEMMA CommitFailureInv ==
  ASSUME IInv, NEW c \in Clients, CommitFailure(c)
  PROVE  IInv'
<1> DEFINE q == request[c]
           row == RegisterFailure(credential[q.user], q)
           n == IF q.user \in overlapped THEN failed[q.user] ELSE failed[q.user] + 1
<1>1. TypesFit /\ OneLogin /\ CountIsExact
  BY DEF IInv
<1>2. q \in LoginRequests
  BY <1>1, RequestKinds DEF CommitFailure
<1>3. q.user \in Users /\ LogsIn(c, q.user)
  BY <1>2 DEF LoginRequests, LogsIn
<1>4. credential[q.user] \in Credentials /\ failed[q.user] \in Nat
  BY <1>1, <1>3 DEF TypesFit
<1>5. n \in Nat
  BY <1>4
<1>6. row \in Credentials
  BY <1>2, <1>4, FailureRegistered
<1>7. ASSUME q.user \notin overlapped
      PROVE  row.count = n /\ (row.locked # None <=> n >= MaxFailed)
  <2>1. q.seen = credential[q.user] /\ credential[q.user].count = failed[q.user]
    BY <1>1, <1>3, <1>7 DEF OneLogin, CountIsExact
  <2>2. n = credential[q.user].count + 1
    BY <1>7, <2>1
  <2>. QED
    BY <1>2, <1>4, <2>1, <2>2, FailureRegistered
<1>8. /\ credential' = [credential EXCEPT ![q.user] = row]
      /\ failed' = [failed EXCEPT ![q.user] = n]
      /\ Ends(c) /\ UNCHANGED <<clock, active, sessions, overlapped, loggedOut>>
  BY DEF CommitFailure
<1>9. /\ sessions' \in [SessionIds -> SessionRows \cup {NoSession}]
      /\ Issued' = Issued
      /\ \A s \in Issued : sessions'[s].revoked = sessions[s].revoked
  BY <1>1, <1>8 DEF TypesFit, Issued
<1> HIDE DEF row, n
<1>. QED
  BY <1>2, <1>5, <1>6, <1>7, <1>8, <1>9, LoginEnds

(* A new session takes the next id; nothing else about sessions moves.        *)
LEMMA NewSession ==
  ASSUME TypesFit, NEW c \in Clients, CommitLogin(c)
  PROVE  /\ request[c] \in LoginRequests
         /\ sessions' \in [SessionIds -> SessionRows \cup {NoSession}]
         /\ Issued \subseteq Issued'
         /\ \A s \in Issued : sessions'[s] = sessions[s]
<1>1. request[c] \in LoginRequests
  BY RequestKinds DEF CommitLogin
<1> DEFINE q == request[c]
<1>2. PICK s \in SessionIds :
        /\ Issued = 1 .. s - 1
        /\ sessions' = [sessions EXCEPT ![s] =
             [user |-> q.user, expires |-> q.at + SessionTicks, revoked |-> None,
              seen |-> None]]
  BY DEF CommitLogin
<1>3. q.user \in Users /\ q.at + SessionTicks \in Nat
  BY <1>1, AccountsAssumption DEF LoginRequests
<1>4. [user |-> q.user, expires |-> q.at + SessionTicks, revoked |-> None,
       seen |-> None] \in SessionRows
  BY <1>3 DEF SessionRows, Times
<1>5. s \notin Issued
  BY <1>2, AccountsAssumption DEF SessionIds
<1>6. sessions \in [SessionIds -> SessionRows \cup {NoSession}]
  BY DEF TypesFit
<1>7. sessions' \in [SessionIds -> SessionRows \cup {NoSession}]
  BY <1>2, <1>4, <1>6
<1>8. \A t \in Issued : sessions'[t] = sessions[t]
  BY <1>2, <1>5, <1>6 DEF Issued
<1>9. Issued \subseteq Issued'
  BY <1>8 DEF Issued
<1>. QED
  BY <1>1, <1>7, <1>8, <1>9

(* A right password clears the counter and issues a session.                  *)
LEMMA CommitLoginInv ==
  ASSUME IInv, NEW c \in Clients, CommitLogin(c)
  PROVE  IInv'
<1> DEFINE q == request[c]
           row == RegisterSuccess(credential[q.user], q)
<1>1. TypesFit /\ OneLogin
  BY DEF IInv
<1>2. /\ q \in LoginRequests
      /\ sessions' \in [SessionIds -> SessionRows \cup {NoSession}]
      /\ Issued \subseteq Issued'
      /\ \A s \in Issued : sessions'[s].revoked = sessions[s].revoked
  BY <1>1, NewSession
<1>3. q.user \in Users /\ LogsIn(c, q.user)
  BY <1>2 DEF LoginRequests, LogsIn
<1>4. credential[q.user] \in Credentials
  BY <1>1, <1>3 DEF TypesFit
<1>5. row \in Credentials
  BY <1>2, <1>4, SuccessRegistered
<1>6. ASSUME q.user \notin overlapped
      PROVE  row.count = 0 /\ (row.locked # None <=> 0 >= MaxFailed)
  <2>1. q.seen = credential[q.user]
    BY <1>1, <1>3, <1>6 DEF OneLogin
  <2>. QED
    BY <1>2, <1>4, <2>1, SuccessRegistered, AccountsAssumption
<1>7. /\ credential' = [credential EXCEPT ![q.user] = row]
      /\ failed' = [failed EXCEPT ![q.user] = 0]
      /\ Ends(c) /\ UNCHANGED <<clock, active, overlapped, loggedOut>>
  BY DEF CommitLogin
<1> HIDE DEF row
<1>. QED
  BY <1>2, <1>5, <1>6, <1>7, LoginEnds

-----------------------------------------------------------------------------
(* What a request on sessions writes: no row is lost, none is revoked twice,  *)
(* and a logout-all leaves none of the user's alive.                          *)
LEMMA SessionsWritten ==
  ASSUME TypesFit, SessionsExist, NEW c \in Clients, CommitSessions(c)
  PROVE  /\ sessions' \in [SessionIds -> SessionRows \cup {NoSession}]
         /\ Issued' = Issued
         /\ \A s \in Issued :
              /\ sessions'[s].user = sessions[s].user
              /\ sessions'[s].expires = sessions[s].expires
              /\ sessions[s].revoked # None => sessions'[s].revoked = sessions[s].revoked
         /\ request[c].kind = "logout_all" =>
              \A s \in SessionsOf(request[c].row.user) :
                s \in Issued /\ sessions'[s].revoked # None
<1> DEFINE q == request[c]
           Sound(rows) ==
             /\ rows \in [SessionIds -> SessionRows \cup {NoSession}]
             /\ \A s \in SessionIds \ Issued : rows[s] = NoSession
             /\ \A s \in Issued :
                  /\ rows[s] \in SessionRows
                  /\ rows[s].user = sessions[s].user
                  /\ rows[s].expires = sessions[s].expires
                  /\ sessions[s].revoked # None => rows[s].revoked = sessions[s].revoked
<1>1. /\ q.kind \in {"me", "revoke", "logout", "logout_all"}
      /\ sessions' = Written(q)
  BY DEF CommitSessions
<1>2. /\ q.session \in SessionIds /\ q.row \in SessionRows /\ q.at \in Nat
      /\ q.session \in Issued /\ (q.kind = "revoke" => q.target \in Issued)
  BY <1>1, RequestKinds DEF SessionRequests, SessionsExist
<1>3. SessionsOf(q.row.user) \subseteq Issued
  BY <1>2, OwnedIsIssued DEF SessionsOf, SessionRows
<1>4. Sound(sessions)
  BY OwnedIsIssued DEF TypesFit, Issued
<1>5. ASSUME NEW rows, Sound(rows), NEW ids \in SUBSET Issued
      PROVE  /\ Sound(Revoked(rows, ids, q.at))
             /\ \A s \in ids : Revoked(rows, ids, q.at)[s].revoked # None
  <2>1. q.at # None
    BY <1>2, AccountsAssumption
  <2>2. ASSUME NEW s \in SessionIds
        PROVE  Revoked(rows, ids, q.at)[s]
                 = IF s \in ids /\ rows[s].revoked = None
                   THEN [rows[s] EXCEPT !.revoked = q.at] ELSE rows[s]
    BY DEF Revoked
  <2>3. ASSUME NEW row \in SessionRows
        PROVE  /\ [row EXCEPT !.revoked = q.at] \in SessionRows
               /\ [row EXCEPT !.revoked = q.at].user = row.user
               /\ [row EXCEPT !.revoked = q.at].expires = row.expires
               /\ [row EXCEPT !.revoked = q.at].revoked = q.at
    BY <1>2 DEF SessionRows, Times
  <2>4. ASSUME NEW s \in SessionIds \ Issued
        PROVE  Revoked(rows, ids, q.at)[s] = NoSession
    BY <1>5, <2>2
  <2>5. ASSUME NEW s \in Issued
        PROVE  /\ Revoked(rows, ids, q.at)[s] \in SessionRows
               /\ Revoked(rows, ids, q.at)[s].user = sessions[s].user
               /\ Revoked(rows, ids, q.at)[s].expires = sessions[s].expires
               /\ sessions[s].revoked # None =>
                    Revoked(rows, ids, q.at)[s].revoked = sessions[s].revoked
               /\ s \in ids => Revoked(rows, ids, q.at)[s].revoked # None
    <3>1. s \in SessionIds /\ rows[s] \in SessionRows
      BY <1>5 DEF Issued
    <3>2. CASE s \in ids /\ rows[s].revoked = None
      <4>1. Revoked(rows, ids, q.at)[s] = [rows[s] EXCEPT !.revoked = q.at]
        BY <2>2, <3>1, <3>2
      <4>2. sessions[s].revoked = None
        BY <1>5, <3>2
      <4>. QED
        BY <1>5, <2>1, <2>3, <3>1, <4>1, <4>2
    <3>3. CASE ~(s \in ids /\ rows[s].revoked = None)
      <4>1. Revoked(rows, ids, q.at)[s] = rows[s]
        BY <2>2, <3>1, <3>3
      <4>. QED
        BY <1>5, <3>1, <3>3, <4>1
    <3>. QED
      BY <3>2, <3>3
  <2>6. Revoked(rows, ids, q.at) \in [SessionIds -> SessionRows \cup {NoSession}]
    <3>1. \A s \in SessionIds :
            Revoked(rows, ids, q.at)[s] \in SessionRows \cup {NoSession}
      BY <2>4, <2>5
    <3>. QED
      BY <3>1 DEF Revoked
  <2>. QED
    BY <2>4, <2>5, <2>6
<1>6. Sound(Touched(sessions, q))
  <2>1. CASE ~Touches(q)
    BY <1>4, <2>1 DEF Touched
  <2>2. CASE Touches(q)
    <3>1. Touched(sessions, q) = [sessions EXCEPT ![q.session].seen = q.at]
      BY <2>2 DEF Touched
    <3>2. ASSUME NEW row \in SessionRows
          PROVE  /\ [row EXCEPT !.seen = q.at] \in SessionRows
                 /\ [row EXCEPT !.seen = q.at].user = row.user
                 /\ [row EXCEPT !.seen = q.at].expires = row.expires
                 /\ [row EXCEPT !.seen = q.at].revoked = row.revoked
      BY <1>2 DEF SessionRows, Times
    <3> DEFINE new == [sessions[q.session] EXCEPT !.seen = q.at]
    <3>3. sessions[q.session] \in SessionRows
      BY <1>2, <1>4
    <3>4. /\ new \in SessionRows
          /\ new.user = sessions[q.session].user
          /\ new.expires = sessions[q.session].expires
          /\ new.revoked = sessions[q.session].revoked
      BY <3>2, <3>3
    <3>5. Touched(sessions, q) = [sessions EXCEPT ![q.session] = new]
      BY <3>1
    <3> HIDE DEF new
    <3>6. /\ Touched(sessions, q) \in [SessionIds -> SessionRows \cup {NoSession}]
          /\ \A s \in SessionIds :
               Touched(sessions, q)[s] = IF s = q.session THEN new ELSE sessions[s]
      BY <1>4, <3>4, <3>5
    <3>. QED
      BY <1>2, <1>4, <3>4, <3>6 DEF Issued
  <2>. QED
    BY <2>1, <2>2
<1> HIDE DEF Sound
<1>7. /\ Sound(Written(q))
      /\ q.kind = "logout_all" =>
           \A s \in SessionsOf(q.row.user) : Written(q)[s].revoked # None
  <2>1. CASE q.kind = "me"
    BY <1>6, <2>1 DEF Written
  <2>2. CASE q.kind = "revoke"
    BY <1>2, <1>5, <1>6, <2>2 DEF Written
  <2>3. CASE q.kind = "logout"
    BY <1>2, <1>4, <1>5, <2>3 DEF Written
  <2>4. CASE q.kind = "logout_all"
    BY <1>3, <1>5, <1>6, <2>4 DEF Written
  <2>. QED
    BY <1>1, <2>1, <2>2, <2>3, <2>4
<1>8. Issued' = Issued
  <2>1. NoSession \notin SessionRows
    BY AccountsAssumption DEF NoSession, SessionRows
  <2>. QED
    BY <1>1, <1>7, <2>1 DEF Sound, Issued
<1>. QED
  BY <1>1, <1>3, <1>7, <1>8 DEF Sound

(* A commit on sessions leaves the logins alone and undoes no revocation.     *)
LEMMA CommitSessionsInv ==
  ASSUME IInv, NEW c \in Clients, CommitSessions(c)
  PROVE  IInv'
<1>1. TypesFit /\ SessionsExist /\ OneLogin /\ CountIsExact /\ LoggedOutEverywhere
  BY DEF IInv
<1>2. /\ request' = [request EXCEPT ![c] = NoRequest]
      /\ request[c].kind \in {"me", "revoke", "logout", "logout_all"}
      /\ loggedOut' = loggedOut \cup (IF request[c].kind = "logout_all"
                                      THEN SessionsOf(request[c].row.user) ELSE {})
      /\ UNCHANGED <<clock, active, credential, failed, overlapped>>
  BY DEF CommitSessions, Ends
<1>3. /\ sessions' \in [SessionIds -> SessionRows \cup {NoSession}]
      /\ Issued' = Issued
      /\ \A s \in Issued :
           sessions[s].revoked # None => sessions'[s].revoked = sessions[s].revoked
      /\ request[c].kind = "logout_all" =>
           \A s \in SessionsOf(request[c].row.user) :
             s \in Issued /\ sessions'[s].revoked # None
  BY <1>1, SessionsWritten
<1>4. \A d \in Clients : request'[d] = IF d = c THEN NoRequest ELSE request[d]
  BY <1>1, <1>2 DEF TypesFit
<1>5. NoRequest.kind = "idle"
  BY DEF NoRequest
<1>6. TypesFit'
  BY <1>1, <1>2, <1>3 DEF TypesFit
<1>7. SessionsExist'
  BY <1>1, <1>2, <1>3, <1>4, <1>5 DEF SessionsExist
<1>8. OneLogin'
  <2>1. \A d \in Clients : \A u : LogsIn(d, u)' <=> d # c /\ LogsIn(d, u)
    BY <1>2, <1>4, <1>5 DEF LogsIn
  <2>. QED
    BY <1>1, <1>2, <1>4, <2>1 DEF OneLogin
<1>9. CountIsExact'
  BY <1>1, <1>2 DEF CountIsExact
<1>10. LoggedOutEverywhere'
  BY <1>1, <1>2, <1>3 DEF LoggedOutEverywhere, SessionsExist
<1>. QED
  BY <1>6, <1>7, <1>8, <1>9, <1>10 DEF IInv

-----------------------------------------------------------------------------
(* set_password and unlock: a login that runs then no longer has the row it read. *)
LEMMA ClearCounterInv ==
  ASSUME IInv, NEW u \in Users, ClearCounter(u)
  PROVE  IInv'
<1>1. TypesFit /\ SessionsExist /\ OneLogin /\ CountIsExact /\ LoggedOutEverywhere
  BY DEF IInv
<1>2. /\ credential' = [credential EXCEPT ![u] = Cleared]
      /\ failed' = [failed EXCEPT ![u] = 0]
      /\ overlapped' = overlapped \cup (IF LoginRuns(u) THEN {u} ELSE {})
      /\ UNCHANGED <<clock, active, sessions, request, loggedOut>>
  BY DEF ClearCounter
<1>3. Cleared \in Credentials /\ Cleared.count = 0 /\ Cleared.locked = None
  BY DEF Cleared, Credentials, Times
<1>4. /\ \A v \in Users \ {u} : credential'[v] = credential[v] /\ failed'[v] = failed[v]
      /\ credential'[u] = Cleared /\ failed'[u] = 0
  BY <1>1, <1>2 DEF TypesFit
<1>5. TypesFit'
  BY <1>1, <1>2, <1>3 DEF TypesFit
<1>6. SessionsExist'
  BY <1>1, <1>2 DEF SessionsExist, Issued
<1>7. OneLogin'
  <2>1. \A d \in Clients : \A v : LogsIn(d, v)' <=> LogsIn(d, v)
    BY <1>2 DEF LogsIn
  <2>. QED
    BY <1>1, <1>2, <1>4, <2>1 DEF OneLogin, LoginRuns
<1>8. CountIsExact'
  BY <1>1, <1>2, <1>3, <1>4, AccountsAssumption DEF CountIsExact
<1>9. LoggedOutEverywhere'
  BY <1>1, <1>2 DEF LoggedOutEverywhere
<1>. QED
  BY <1>5, <1>6, <1>7, <1>8, <1>9 DEF IInv

(* The status of a user, and the time.                                        *)
LEMMA RestInv ==
  ASSUME IInv, clock' \in Nat, active' \subseteq Users,
         UNCHANGED <<credential, sessions, request, failed, overlapped, loggedOut>>
  PROVE  IInv'
<1>1. TypesFit'
  BY DEF IInv, TypesFit
<1>2. SessionsExist'
  BY DEF IInv, SessionsExist, Issued
<1>3. OneLogin'
  BY DEF IInv, OneLogin, LogsIn
<1>4. CountIsExact' /\ LoggedOutEverywhere'
  BY DEF IInv, CountIsExact, LoggedOutEverywhere
<1>. QED
  BY <1>1, <1>2, <1>3, <1>4 DEF IInv

(* Every step keeps the invariant.                                            *)
LEMMA NextInv == IInv /\ [Next]_vars => IInv'
<1> SUFFICES ASSUME IInv, [Next]_vars PROVE IInv'
  OBVIOUS
<1>1. CASE \E u \in Users : ClearCounter(u)
  BY <1>1, ClearCounterInv
<1>2. CASE Tick \/ (\E u \in Users : SetStatus(u)) \/ UNCHANGED vars
  <2>1. clock' \in Nat /\ active' \subseteq Users
    BY <1>2 DEF IInv, TypesFit, Tick, SetStatus, vars
  <2>2. UNCHANGED <<credential, sessions, request, failed, overlapped, loggedOut>>
    BY <1>2 DEF Tick, SetStatus, vars, observers
  <2>. QED
    BY <2>1, <2>2, RestInv
<1>3. CASE \E c \in Clients, u \in Users, kind \in {"wrong", "right"} : Login(c, u, kind)
  BY <1>3, LoginInv
<1>4. CASE \E c \in Clients, s \in SessionIds :
             \/ Me(c, s) \/ Logout(c, s) \/ LogoutAll(c, s)
             \/ \E target \in SessionIds : RevokeOwned(c, s, target)
  BY <1>4, SessionRequestInv
<1>5. CASE \E c \in Clients : Commit(c)
  BY <1>5, CommitFailureInv, CommitLoginInv, CommitSessionsInv DEF Commit
<1>6. CASE \E c \in Clients : Forbid(c) \/ Abandon(c)
  BY <1>6, RollBackInv DEF Forbid, Abandon
<1>. QED
  BY <1>1, <1>2, <1>3, <1>4, <1>5, <1>6 DEF Next

(* The invariant holds in every reachable state.                              *)
LEMMA Accounts == Spec => []IInv
  BY InitInv, NextInv, PTL DEF Spec

(* register_failure and register_success (users/repositories.py): the counter *)
(* counts and the lock follows it, until the logins of a user overlap.        *)
THEOREM CountIsExactHolds == Spec => []CountIsExact
<1>1. IInv => CountIsExact
  BY DEF IInv
<1>. QED
  BY <1>1, Accounts, PTL

(* revoke_user_sessions: no session that existed survives a logout-all.       *)
THEOREM LoggedOutEverywhereHolds == Spec => []LoggedOutEverywhere
<1>1. IInv => LoggedOutEverywhere
  BY DEF IInv
<1>. QED
  BY <1>1, Accounts, PTL

(* What no step does to a session that was issued.                            *)
LEMMA RowLasts ==
  ASSUME TypesFit, SessionsExist, [Next]_vars, NEW s \in Issued
  PROVE  /\ sessions[s] \in SessionRows /\ sessions'[s] \in SessionRows
         /\ sessions'[s].user = sessions[s].user
         /\ sessions'[s].expires = sessions[s].expires
         /\ sessions[s].revoked # None => sessions'[s].revoked = sessions[s].revoked
<1>1. s \in SessionIds /\ sessions[s] \in SessionRows
  BY OwnedIsIssued DEF Issued
<1>2. CASE \E c \in Clients : CommitLogin(c)
  BY <1>1, <1>2, NewSession
<1>3. CASE \E c \in Clients : CommitSessions(c)
  <2>1. /\ sessions' \in [SessionIds -> SessionRows \cup {NoSession}] /\ s \in Issued'
        /\ sessions'[s].user = sessions[s].user
        /\ sessions'[s].expires = sessions[s].expires
        /\ sessions[s].revoked # None => sessions'[s].revoked = sessions[s].revoked
    BY <1>3, SessionsWritten
  <2>2. sessions'[s] \in SessionRows
    BY <1>1, <2>1 DEF Issued
  <2>. QED
    BY <1>1, <2>1, <2>2
<1>4. CASE sessions' = sessions
  BY <1>1, <1>4
<1>5. \/ \E c \in Clients : CommitLogin(c)
      \/ \E c \in Clients : CommitSessions(c)
      \/ sessions' = sessions
  BY DEF Next, vars, Tick, ClearCounter, SetStatus, Login, Start, Me, Logout, LogoutAll,
         RevokeOwned, Commit, CommitFailure, Forbid, Abandon, RollBack
<1>. QED
  BY <1>2, <1>3, <1>4, <1>5

(* revoked_at_utc is written once, and nothing else of a session but when it  *)
(* was last seen.                                                             *)
THEOREM FirstRevocationStandsHolds == Spec => FirstRevocationStands
<1>1. ASSUME IInv, [Next]_vars
      PROVE  \A s \in Issued :
               IF sessions[s].revoked # None
               THEN Lasting(sessions'[s]) = Lasting(sessions[s])
               ELSE [Lasting(sessions'[s]) EXCEPT !.revoked = None] = Lasting(sessions[s])
  <2> TAKE s \in Issued
  <2>1. /\ sessions[s] \in SessionRows /\ sessions'[s] \in SessionRows
        /\ sessions'[s].user = sessions[s].user
        /\ sessions'[s].expires = sessions[s].expires
        /\ sessions[s].revoked # None => sessions'[s].revoked = sessions[s].revoked
    BY <1>1, RowLasts DEF IInv
  <2>2. \A row \in SessionRows :
          Lasting(row) = [user |-> row.user, expires |-> row.expires,
                          revoked |-> row.revoked, seen |-> None]
    BY DEF Lasting, SessionRows
  <2>. QED
    BY <2>1, <2>2
<1>2. IInv /\ [Next]_vars =>
        [\A s \in Issued :
           IF sessions[s].revoked # None
           THEN Lasting(sessions'[s]) = Lasting(sessions[s])
           ELSE [Lasting(sessions'[s]) EXCEPT !.revoked = None]
                  = Lasting(sessions[s])]_vars
  BY <1>1
<1>. QED
  BY <1>2, Accounts, PTL DEF Spec, FirstRevocationStands
=============================================================================
