---------------------------- MODULE AccountProofs ----------------------------
(***************************************************************************)
(* What holds of AccountSessions for any users, passwords, logins and      *)
(* requests, any number of threads and any TTL.  A login carries what it   *)
(* has observed from its first transaction to its second: what the Argon2  *)
(* work makes of it speaks of the observed row only, and the second        *)
(* transaction compares that with the row it locks.  A session row is      *)
(* created once and never loses revoked_at, since each update sets its     *)
(* own column.                                                             *)
(***************************************************************************)
EXTENDS AccountSessions, LegacyClaim, TLAPS

LoginPlaces == {"idle", "queued_to_verify", "verifying", "queued_to_hash", "hashing", "ready",
                "issued", "refused", "cancelled"}
LoginRow == [at : LoginPlaces, user : Users \cup {None}, password : Passwords \cup {None},
             observed : UserRow \cup {None}, replacement : Hash \cup {None}, since : Nat]

RequestPlaces == {"idle", "read", "authenticated", "logging_out", "revoking", "admitted",
                  "unauthorized", "forbidden", "logged_out"}
RequestRow == [at : RequestPlaces, session : Logins \cup {None}, row : SessionRow \cup {None},
               since : Nat, logout : BOOLEAN, late : BOOLEAN]

AccountTypes ==
  /\ user \in [Users -> UserRow \cup {None}]
  /\ session \in [Logins -> SessionRow \cup {None}]
  /\ login \in [Logins -> LoginRow]
  /\ running \subseteq Logins
  /\ request \in [Requests -> RequestRow]
  /\ loggedOut \subseteq Logins
  /\ salt \in 0..MaxSalt
  /\ now \in Nat

\* From the first transaction to the second a login speaks of a user that exists ...
Observing(l) ==
  login[l].at # "idle" =>
    /\ login[l].user \in Users /\ login[l].password \in Passwords
    /\ login[l].observed # None => user[login[l].user] \in UserRow

\* ... with the password that was verified, and rehashes that password only.
Verifying(l) ==
  /\ login[l].at \in {"queued_to_hash", "hashing", "ready"} =>
       login[l].observed \in UserRow /\ Verified(l)
  /\ login[l].at \in {"queued_to_hash", "hashing"} => login[l].observed.hash.outdated
  /\ login[l].at \in {"queued_to_verify", "verifying", "queued_to_hash", "hashing"} =>
       login[l].replacement = None
  /\ login[l].at = "ready" /\ login[l].replacement # None =>
       /\ login[l].observed.hash.outdated
       /\ login[l].replacement \in Hash
       /\ login[l].replacement.password = login[l].password
       /\ ~login[l].replacement.outdated

LoginInvariant ==
  /\ AccountTypes
  /\ \A l \in Logins : Observing(l) /\ Verifying(l)

\* A session row exists from its login on, and for every request that found it.
Carries(r) == request[r].at \in {"read", "authenticated", "logging_out", "revoking", "admitted"}

SessionInvariant ==
  /\ \A l \in Logins : login[l].at # "issued" => session[l] = None
  /\ \A r \in Requests : Carries(r) =>
       request[r].session \in Logins /\ session[request[r].session] \in SessionRow
  /\ \A s \in loggedOut : session[s] \in SessionRow /\ session[s].revoked
  /\ \A r \in Requests : ~request[r].late

AccountInvariant == LoginInvariant /\ SessionInvariant

--------------------------------------------------------------------------
\* The invariant holds initially.
LEMMA AccountsInit == ASSUME Init PROVE AccountInvariant
BY SessionsAssumption
DEF Init, AccountInvariant, LoginInvariant, SessionInvariant, AccountTypes, Observing, Verifying,
    Carries, NoLogin, NoRequest, LoginRow, RequestRow, LoginPlaces, RequestPlaces, UserRow

\* An update of one users row leaves the rows rows.
UsersStay ==
  /\ user' \in [Users -> UserRow \cup {None}]
  /\ \A p \in Users : user[p] \in UserRow => user'[p] \in UserRow

\* Writing one row of `users` is such an update.
LEMMA UserUpdate ==
  ASSUME AccountTypes, NEW p \in Users, NEW row \in UserRow, user' = [user EXCEPT ![p] = row]
  PROVE  UsersStay
BY DEF AccountTypes, UsersStay

\* What operators and the clock do.
Outside ==
  \/ \E p \in Users, w \in Passwords : BootstrapUser(p, w) \/ ResetPassword(p, w)
  \/ \E p \in Users : Deactivate(p)
  \/ Tick \/ UNCHANGED vars

\* Operators and the clock touch no session and no request.
LEMMA OutsideStep ==
  ASSUME AccountTypes, Outside
  PROVE  /\ UsersStay /\ salt' \in 0..MaxSalt /\ now' \in Nat
         /\ UNCHANGED <<session, login, running, request, loggedOut>>
<1> DEFINE Goal == /\ UsersStay /\ salt' \in 0..MaxSalt /\ now' \in Nat
                   /\ UNCHANGED <<session, login, running, request, loggedOut>>
<1>1. /\ salt \in 0..MaxSalt /\ MaxSalt \in Nat /\ now \in Nat
      /\ user \in [Users -> UserRow \cup {None}]
  BY SessionsAssumption DEF AccountTypes
<1>2. ASSUME NEW p \in Users, NEW w \in Passwords, BootstrapUser(p, w) \/ ResetPassword(p, w)
      PROVE  Goal
  <2> DEFINE hash == [password |-> w, outdated |-> FALSE, salt |-> salt]
  <2>1. hash \in Hash
    BY <1>1 DEF Hash
  <2>2. salt' \in 0..MaxSalt /\ now' \in Nat /\ UNCHANGED <<session, login, running, request, loggedOut>>
    BY <1>1, <1>2 DEF BootstrapUser, ResetPassword, sessions
  <2>3. CASE BootstrapUser(p, w)
    <3>1. user' = [user EXCEPT ![p] = [hash |-> hash, active |-> TRUE]]
      BY <2>3 DEF BootstrapUser
    <3>2. [hash |-> hash, active |-> TRUE] \in UserRow
      BY <2>1 DEF UserRow
    <3> QED BY <2>2, <3>1, <3>2, UserUpdate
  <2>4. CASE ResetPassword(p, w)
    <3>1. user[p] \in UserRow /\ user' = [user EXCEPT ![p] = [user[p] EXCEPT !.hash = hash]]
      BY <1>1, <2>4 DEF ResetPassword
    <3>2. [user[p] EXCEPT !.hash = hash] \in UserRow
      BY <2>1, <3>1 DEF UserRow
    <3> QED BY <2>2, <3>1, <3>2, UserUpdate
  <2> QED BY <1>2, <2>3, <2>4
<1>3. ASSUME NEW p \in Users, Deactivate(p) PROVE Goal
  <2>1. user[p] \in UserRow /\ user' = [user EXCEPT ![p] = [user[p] EXCEPT !.active = FALSE]]
    BY <1>1, <1>3 DEF Deactivate
  <2>2. [user[p] EXCEPT !.active = FALSE] \in UserRow
    BY <2>1 DEF UserRow
  <2> QED BY <1>1, <1>3, <2>1, <2>2, UserUpdate DEF Deactivate, sessions
<1>4. CASE Tick
  <2>1. user' = user /\ UNCHANGED <<session, login, running, request, loggedOut>>
    BY <1>4 DEF Tick, accounts, sessions
  <2>2. now' \in Nat /\ salt' = salt
    BY <1>1, <1>4 DEF Tick, accounts
  <2> QED BY <1>1, <2>1, <2>2 DEF UsersStay
<1>5. CASE UNCHANGED vars
  BY <1>1, <1>5 DEF vars, UsersStay
<1> QED BY <1>2, <1>3, <1>4, <1>5 DEF Outside

--------------------------------------------------------------------------
(* The steps of a login. *)

\* A login that does not move is not disturbed.
LEMMA OtherLogin ==
  ASSUME LoginInvariant, UsersStay, NEW m \in Logins, login'[m] = login[m]
  PROVE  Observing(m)' /\ Verifying(m)'
BY DEF LoginInvariant, AccountTypes, UsersStay, Observing, Verifying, Verified

\* A login that moves keeps the invariant if its own parts hold of the new row.
LEMMA LoginMoves ==
  ASSUME LoginInvariant, UsersStay, NEW l \in Logins, NEW row \in LoginRow,
         login' = [login EXCEPT ![l] = row],
         Observing(l)', Verifying(l)',
         session' \in [Logins -> SessionRow \cup {None}], running' \subseteq Logins,
         UNCHANGED <<request, loggedOut, salt, now>>
  PROVE  LoginInvariant'
<1>1. \A m \in Logins \ {l} : login'[m] = login[m]
  BY DEF LoginInvariant, AccountTypes
<1>2. \A m \in Logins : Observing(m)' /\ Verifying(m)'
  BY <1>1, OtherLogin
<1>3. AccountTypes'
  BY DEF LoginInvariant, AccountTypes, UsersStay
<1> QED BY <1>2, <1>3 DEF LoginInvariant

\* Before its second transaction a login creates nothing.
Unfinished(l) ==
  /\ login[l].at # "issued"
  /\ login' = [login EXCEPT ![l] = login'[l]]
  /\ UNCHANGED <<session, request, loggedOut>>

\* The first transaction of a login carries the observed row.
LEMMA ObserveStep ==
  ASSUME LoginInvariant, NEW l \in Logins, NEW p \in Users, NEW w \in Passwords, ObserveUser(l, p, w)
  PROVE  LoginInvariant' /\ Unfinished(l)
<1> DEFINE row == [NoLogin EXCEPT !.at = "queued_to_verify", !.user = p, !.password = w,
                                  !.observed = user[p], !.since = now]
<1>1. /\ login[l].at = "idle" /\ login' = [login EXCEPT ![l] = row]
      /\ UNCHANGED <<user, session, request, loggedOut, running, salt, now>>
  BY DEF ObserveUser, accounts, sessions
<1>2. AccountTypes BY DEF LoginInvariant
<1>3. row \in LoginRow
  BY <1>2 DEF AccountTypes, LoginRow, LoginPlaces, NoLogin
<1>4. login'[l] = row
  BY <1>1, <1>2 DEF AccountTypes
<1>5. row.at = "queued_to_verify" /\ row.user = p /\ row.password = w
      /\ row.observed = user[p] /\ row.replacement = None
  BY DEF NoLogin
<1>6. Observing(l)' /\ Verifying(l)'
  BY <1>1, <1>2, <1>4, <1>5 DEF Observing, Verifying, AccountTypes
<1>7. UsersStay
  BY <1>1, <1>2 DEF UsersStay, AccountTypes
<1>8. session' \in [Logins -> SessionRow \cup {None}] /\ running' \subseteq Logins
  BY <1>1, <1>2 DEF AccountTypes
<1>9. LoginInvariant'
  BY <1>1, <1>3, <1>6, <1>7, <1>8, LoginMoves
<1> QED BY <1>1, <1>4, <1>9 DEF Unfinished

\* The Argon2 work and a client that leaves: the fields observed do not change.
LEMMA WorkStep ==
  ASSUME LoginInvariant, NEW l \in Logins, StartWork(l) \/ FinishWork(l) \/ CancelLogin(l)
  PROVE  LoginInvariant' /\ Unfinished(l)
<1>1. AccountTypes /\ Observing(l) /\ Verifying(l)
  BY DEF LoginInvariant
<1>2. login[l] \in LoginRow
  BY <1>1 DEF AccountTypes
<1>3. UNCHANGED <<user, session, request, loggedOut, salt, now>>
  BY DEF StartWork, FinishWork, CancelLogin, accounts, sessions
<1>4. UsersStay /\ session' \in [Logins -> SessionRow \cup {None}]
  BY <1>1, <1>3 DEF UsersStay, AccountTypes
<1> DEFINE Good(row) == /\ row \in LoginRow /\ login' = [login EXCEPT ![l] = row]
                        /\ row.at # "idle" /\ row.user = login[l].user
                        /\ row.password = login[l].password /\ row.observed = login[l].observed
           Kept == running' \subseteq Logins /\ login[l].at \notin {"idle", "issued"}
<1>5. CASE StartWork(l)
  <2> DEFINE row == [login[l] EXCEPT !.at = IF @ = "queued_to_verify" THEN "verifying" ELSE "hashing"]
  <2>1. login' = [login EXCEPT ![l] = row]
    BY <1>1, <1>5 DEF StartWork, AccountTypes
  <2>2. Good(row) /\ Kept
    BY <1>1, <1>2, <1>5, <2>1 DEF StartWork, AccountTypes, LoginRow, LoginPlaces
  <2>3. row.replacement = login[l].replacement
    BY <1>2 DEF LoginRow
  <2>4. login'[l] = row
    BY <1>1, <2>1 DEF AccountTypes
  <2>5. Observing(l)'
    BY <1>1, <1>3, <2>2, <2>4 DEF Observing
  <2>6. Verifying(l)'
    BY <1>1, <1>2, <1>5, <2>2, <2>3, <2>4 DEF Verifying, Verified, StartWork, LoginRow
  <2> HIDE DEF row
  <2>7. LoginInvariant'
    BY <1>3, <1>4, <2>2, <2>5, <2>6, LoginMoves
  <2> QED BY <1>3, <2>2, <2>4, <2>7 DEF Unfinished
<1>6. CASE FinishWork(l) /\ login[l].at = "verifying"
  <2> DEFINE row == [login[l] EXCEPT !.at =
             IF ~Verified(l) THEN "refused"
             ELSE IF login[l].observed.hash.outdated THEN "queued_to_hash" ELSE "ready"]
  <2>1. login' = [login EXCEPT ![l] = row]
    BY <1>1, <1>6 DEF FinishWork, AccountTypes
  <2>2. Good(row) /\ Kept
    BY <1>1, <1>2, <1>6, <2>1 DEF FinishWork, AccountTypes, LoginRow, LoginPlaces
  <2>3. row.replacement = None
    BY <1>1, <1>2, <1>6 DEF LoginRow, Verifying
  <2>4. login'[l] = row
    BY <1>1, <2>1 DEF AccountTypes
  <2>5. Observing(l)'
    BY <1>1, <1>3, <1>6, <2>2, <2>4 DEF Observing
  <2>6. Verified(l)' <=> Verified(l)
    BY <2>2, <2>4 DEF Verified
  <2>7. /\ row.at \in {"queued_to_hash", "hashing", "ready"} => Verified(l)
        /\ row.at \in {"queued_to_hash", "hashing"} => login[l].observed.hash.outdated
    BY <1>2 DEF LoginRow
  <2>8. Verified(l) => login[l].observed \in UserRow
    BY <1>2 DEF Verified, LoginRow
  <2>9. Verifying(l)'
    BY <2>2, <2>3, <2>4, <2>6, <2>7, <2>8 DEF Verifying
  <2> HIDE DEF row
  <2>10. LoginInvariant'
    BY <1>3, <1>4, <2>2, <2>5, <2>9, LoginMoves
  <2> QED BY <1>3, <2>2, <2>4, <2>10 DEF Unfinished
<1>7. CASE FinishWork(l) /\ login[l].at = "hashing"
  <2> DEFINE hash == [password |-> login[l].password, outdated |-> FALSE, salt |-> l]
             row == [login[l] EXCEPT !.at = "ready", !.replacement = hash]
  <2>1. login' = [login EXCEPT ![l] = row]
    BY <1>1, <1>7 DEF FinishWork, AccountTypes
  <2>2. hash \in Hash /\ hash.password = login[l].password /\ ~hash.outdated
    BY <1>1, <1>7 DEF Hash, Observing
  <2>3. Good(row) /\ Kept
    BY <1>1, <1>2, <1>7, <2>1, <2>2 DEF FinishWork, AccountTypes, LoginRow, LoginPlaces
  <2>4. row.replacement = hash /\ row.at = "ready"
    BY <1>2 DEF LoginRow
  <2>5. login'[l] = row
    BY <1>1, <2>1 DEF AccountTypes
  <2>6. Observing(l)'
    BY <1>1, <1>3, <1>7, <2>3, <2>5 DEF Observing
  <2>7. Verified(l)' <=> Verified(l)
    BY <2>3, <2>5 DEF Verified
  <2> HIDE DEF hash, row
  <2>8. Verifying(l)'
    BY <1>1, <1>7, <2>2, <2>3, <2>4, <2>5, <2>7 DEF Verifying
  <2>9. LoginInvariant'
    BY <1>3, <1>4, <2>3, <2>6, <2>8, LoginMoves
  <2> QED BY <1>3, <2>3, <2>5, <2>9 DEF Unfinished
<1>8. CASE FinishWork(l) /\ login[l].at = "cancelled"
  <2>1. login' = login /\ running' \subseteq Logins
    BY <1>1, <1>8 DEF FinishWork, AccountTypes
  <2>2. login' = [login EXCEPT ![l] = login[l]]
    BY <1>1, <2>1 DEF AccountTypes
  <2>3. Observing(l)' /\ Verifying(l)'
    BY <1>4, <2>1, OtherLogin
  <2>4. LoginInvariant'
    BY <1>2, <1>3, <1>4, <2>1, <2>2, <2>3, LoginMoves
  <2> QED BY <1>3, <1>8, <2>1, <2>2, <2>4 DEF Unfinished
<1>9. CASE CancelLogin(l)
  <2> DEFINE row == [login[l] EXCEPT !.at = "cancelled"]
  <2>1. login' = [login EXCEPT ![l] = row]
    BY <1>1, <1>9 DEF CancelLogin, AccountTypes
  <2>2. Good(row) /\ Kept /\ row.at = "cancelled"
    BY <1>1, <1>2, <1>9, <2>1 DEF CancelLogin, AccountTypes, LoginRow, LoginPlaces
  <2>3. login'[l] = row
    BY <1>1, <2>1 DEF AccountTypes
  <2>4. Observing(l)'
    BY <1>1, <1>3, <2>2, <2>3 DEF Observing
  <2> HIDE DEF row
  <2>5. Verifying(l)'
    BY <2>2, <2>3 DEF Verifying
  <2>6. LoginInvariant'
    BY <1>3, <1>4, <2>2, <2>4, <2>5, LoginMoves
  <2> QED BY <1>3, <2>2, <2>3, <2>6 DEF Unfinished
<1> QED BY <1>5, <1>6, <1>7, <1>8, <1>9 DEF FinishWork

\* CommitLogin refuses, or issues a session on the hash that was verified.
LEMMA CommitStep ==
  ASSUME AccountInvariant, NEW l \in Logins, CommitLogin(l)
  PROVE  /\ LoginInvariant'
         /\ \/ Unfinished(l)
            \/ /\ login[l].at = "ready" /\ login' = [login EXCEPT ![l].at = "issued"]
               /\ \E row \in SessionRow : session' = [session EXCEPT ![l] = row]
               /\ login[l].user \in Users
               /\ user[login[l].user].hash.password = login[l].password
               /\ user[login[l].user].active
               /\ \/ user' = user
                  \/ \E hash \in Hash :
                       /\ user' = [user EXCEPT ![login[l].user].hash = hash]
                       /\ hash.password = login[l].password /\ ~hash.outdated
                       /\ user[login[l].user] \in UserRow
                       /\ user[login[l].user].hash.outdated
               /\ UNCHANGED <<request, loggedOut>>
<1> DEFINE p == login[l].user
<1>1. LoginInvariant /\ AccountTypes /\ Observing(l) /\ Verifying(l)
  BY DEF AccountInvariant, LoginInvariant
<1>2. login[l] \in LoginRow /\ login[l].at = "ready"
  BY <1>1 DEF AccountTypes, CommitLogin
<1>3. /\ p \in Users /\ user[p] \in UserRow /\ login[l].password \in Passwords
      /\ login[l].observed \in UserRow /\ Verified(l)
      /\ login[l].replacement # None =>
            /\ login[l].observed.hash.outdated /\ login[l].replacement \in Hash
            /\ login[l].replacement.password = login[l].password
            /\ ~login[l].replacement.outdated
  BY <1>1, <1>2 DEF Observing, Verifying, Verified
<1>4. UNCHANGED <<request, loggedOut, salt, now, running>>
  BY DEF CommitLogin
<1>5. running' \subseteq Logins
  BY <1>1, <1>4 DEF AccountTypes
<1>6. CASE user[p].active /\ user[p].hash = login[l].observed.hash
  <2> DEFINE row == [login[l] EXCEPT !.at = "issued"]
             fresh == NewSession(p, login[l].since)
             hash == login[l].replacement
  <2>1. /\ user' = (IF hash = None THEN user ELSE [user EXCEPT ![p].hash = hash])
        /\ session' = [session EXCEPT ![l] = fresh]
        /\ login' = [login EXCEPT ![l].at = "issued"]
    BY <1>6 DEF CommitLogin
  <2>2. fresh \in SessionRow
    <3>1. login[l].since \in Nat /\ TTL \in Nat
      BY <1>2, SessionsAssumption DEF LoginRow
    <3> QED BY <1>3, <3>1 DEF NewSession, SessionRow
  <2>3. login' = [login EXCEPT ![l] = row]
    BY <1>1, <2>1 DEF AccountTypes
  <2>4. row \in LoginRow /\ row.at = "issued" /\ row.user = p
        /\ row.password = login[l].password /\ row.observed = login[l].observed
    BY <1>2 DEF LoginRow, LoginPlaces
  <2>5. login'[l] = row
    BY <1>1, <2>3 DEF AccountTypes
  <2>6. UsersStay
    <3>1. CASE hash = None
      BY <1>1, <2>1, <3>1 DEF UsersStay, AccountTypes
    <3>2. CASE hash # None
      <4>1. user' = [user EXCEPT ![p] = [user[p] EXCEPT !.hash = hash]]
        BY <1>1, <1>3, <2>1, <3>2 DEF AccountTypes
      <4>2. [user[p] EXCEPT !.hash = hash] \in UserRow
        BY <1>3, <3>2 DEF UserRow
      <4> QED BY <1>1, <1>3, <4>1, <4>2, UserUpdate
    <3> QED BY <3>1, <3>2
  <2>7. session' \in [Logins -> SessionRow \cup {None}]
    BY <1>1, <2>1, <2>2 DEF AccountTypes
  <2>8. Observing(l)'
    BY <1>3, <2>4, <2>5, <2>6 DEF Observing, UsersStay
  <2>9. user[p].hash.password = login[l].password
    BY <1>3, <1>6 DEF Verified
  <2>10. hash = None => user' = user
    BY <2>1
  <2>11. hash # None => /\ user' = [user EXCEPT ![p].hash = hash] /\ hash \in Hash
                        /\ hash.password = login[l].password /\ ~hash.outdated
                        /\ user[p].hash.outdated
    BY <1>3, <1>6, <2>1
  <2>12. \E r \in SessionRow : session' = [session EXCEPT ![l] = r]
    BY <2>1, <2>2
  <2>13. login' = [login EXCEPT ![l].at = "issued"]
    BY <2>1
  <2> HIDE DEF row, fresh, hash
  <2>14. Verifying(l)'
    BY <2>4, <2>5 DEF Verifying
  <2>15. LoginInvariant'
    BY <1>1, <1>4, <1>5, <2>3, <2>4, <2>6, <2>7, <2>8, <2>14, LoginMoves
  <2> QED BY <1>2, <1>3, <1>4, <1>6, <2>9, <2>10, <2>11, <2>12, <2>13, <2>15
<1>7. CASE ~(user[p].active /\ user[p].hash = login[l].observed.hash)
  <2> DEFINE row == [login[l] EXCEPT !.at = "refused"]
  <2>1. login' = [login EXCEPT ![l] = row] /\ UNCHANGED <<user, session>>
    BY <1>1, <1>7 DEF AccountTypes, CommitLogin
  <2>2. row \in LoginRow /\ row.at = "refused" /\ row.user = p
        /\ row.password = login[l].password /\ row.observed = login[l].observed
    BY <1>2 DEF LoginRow, LoginPlaces
  <2>3. login'[l] = row
    BY <1>1, <2>1 DEF AccountTypes
  <2>4. UsersStay /\ session' \in [Logins -> SessionRow \cup {None}]
    BY <1>1, <2>1 DEF UsersStay, AccountTypes
  <2>5. Observing(l)'
    BY <1>1, <1>3, <2>1, <2>2, <2>3 DEF Observing
  <2> HIDE DEF row
  <2>6. Verifying(l)'
    BY <2>2, <2>3 DEF Verifying
  <2>7. LoginInvariant'
    BY <1>1, <1>4, <1>5, <2>1, <2>2, <2>4, <2>5, <2>6, LoginMoves
  <2> QED BY <1>2, <1>4, <2>1, <2>3, <2>7 DEF Unfinished
<1> QED BY <1>6, <1>7

--------------------------------------------------------------------------
(* Requests. *)

\* The steps of a request leave accounts and logins alone.
RequestAction(r) ==
  \/ \E s \in Logins, logout \in BOOLEAN : ReadSession(r, s, logout)
  \/ RequestStep(r)

\* What a request may do to a session row: nothing, touch it, or revoke it.
SessionMoves ==
  \/ UNCHANGED <<session, loggedOut>>
  \/ \E s \in Logins, row \in SessionRow :
       /\ session[s] \in SessionRow
       /\ session' = [session EXCEPT ![s] = row]
       /\ session[s].revoked => row.revoked
       /\ loggedOut' = loggedOut \/ (loggedOut' = loggedOut \cup {s} /\ row.revoked)

\* A request that goes on carries a session that exists, and none that was logged out.
Admissible(row) ==
  /\ row \in RequestRow /\ ~row.late
  /\ row.at \in {"read", "authenticated", "logging_out", "revoking", "admitted"} =>
       row.session \in Logins /\ session[row.session] \in SessionRow

\* What a request may do to sessions, and where it may be afterwards.
LEMMA RequestMoves ==
  ASSUME AccountInvariant, NEW r \in Requests, RequestAction(r)
  PROVE  /\ UNCHANGED <<user, login, running, salt, now>>
         /\ \E row : Admissible(row) /\ request' = [request EXCEPT ![r] = row]
         /\ SessionMoves
<1>1. AccountTypes /\ SessionInvariant
  BY DEF AccountInvariant, LoginInvariant
<1>2. request[r] \in RequestRow /\ ~request[r].late /\ now \in Nat
      /\ request \in [Requests -> RequestRow]
  BY <1>1 DEF AccountTypes, SessionInvariant
<1>3. Carries(r) => request[r].session \in Logins /\ session[request[r].session] \in SessionRow
  BY <1>1 DEF SessionInvariant
<1>4. \A outcome \in RequestPlaces \ {"read", "authenticated", "logging_out", "revoking", "admitted"} :
        Admissible(Ended(outcome))
  BY DEF Admissible, Ended, NoRequest, RequestRow
<1>5. ASSUME NEW place \in RequestPlaces, Carries(r)
      PROVE  Admissible([request[r] EXCEPT !.at = place])
  BY <1>2, <1>3, <1>5 DEF Admissible, RequestRow
<1>6. ASSUME NEW s \in Logins, NEW logout \in BOOLEAN, ReadSession(r, s, logout)
      PROVE  \E row : Admissible(row) /\ request' = [request EXCEPT ![r] = row]
  <2>1. session[s] \in SessionRow
    BY <1>1, <1>6 DEF ReadSession, AccountTypes
  <2>2. CASE Active(s, now)
    <3> DEFINE row == [at |-> "read", session |-> s, row |-> session[s], since |-> now,
                       logout |-> logout, late |-> s \in loggedOut]
    <3>1. s \notin loggedOut
      BY <1>1, <2>2 DEF Active, Live, SessionInvariant
    <3>2. Admissible(row)
      BY <1>2, <2>1, <3>1 DEF Admissible, RequestRow, RequestPlaces
    <3>3. request' = [request EXCEPT ![r] = row]
      BY <1>6, <2>2 DEF ReadSession
    <3> QED BY <3>2, <3>3
  <2>3. CASE ~Active(s, now)
    <3>1. request' = [request EXCEPT ![r] = Ended("unauthorized")]
      BY <1>6, <2>3 DEF ReadSession
    <3> QED BY <1>4, <3>1 DEF RequestPlaces
  <2> QED BY <2>2, <2>3
<1>7. CASE \E s \in Logins, logout \in BOOLEAN : ReadSession(r, s, logout)
  <2>1. UNCHANGED <<user, session, login, running, loggedOut, salt, now>>
    BY <1>7 DEF ReadSession
  <2> QED BY <1>6, <1>7, <2>1 DEF SessionMoves
<1>8. CASE Touch(r)
  <2> DEFINE s == request[r].session
             row == [session[s] EXCEPT !.seen = request[r].since]
             next == [request[r] EXCEPT !.at = "authenticated", !.row = None, !.since = 0]
  <2>1. Carries(r) BY <1>8 DEF Touch, Carries
  <2>2. s \in Logins /\ session[s] \in SessionRow /\ request[r].since \in Nat
    BY <1>2, <1>3, <2>1 DEF RequestRow
  <2>3. row \in SessionRow /\ row.revoked = session[s].revoked
    BY <2>2 DEF SessionRow
  <2>4. session' = [session EXCEPT ![s] = row] /\ loggedOut' = loggedOut
    BY <1>1, <1>8, <2>2 DEF Touch, AccountTypes
  <2>5. SessionMoves
    BY <2>2, <2>3, <2>4 DEF SessionMoves
  <2>6. request' = [request EXCEPT ![r] = next]
    BY <1>2, <1>8 DEF Touch
  <2>7. Admissible(next)
    BY <1>2, <1>3, <2>1 DEF Admissible, RequestRow, RequestPlaces
  <2> QED BY <1>8, <2>5, <2>6, <2>7 DEF Touch
<1>9. CASE ValidateCsrf(r)
  <2>1. UNCHANGED <<user, session, login, running, loggedOut, salt, now>> /\ Carries(r)
    BY <1>9 DEF ValidateCsrf, Carries
  <2>2. PICK passes \in CheckedAgain(request[r].session, now), matches \in BOOLEAN :
          request' = [request EXCEPT ![r] =
            IF ~passes THEN Ended("unauthorized")
            ELSE IF ~matches THEN Ended("forbidden")
            ELSE [request[r] EXCEPT !.at = IF request[r].logout THEN "logging_out" ELSE "admitted"]]
    BY <1>2, <1>9 DEF ValidateCsrf
  <2>3. /\ Admissible(Ended("unauthorized")) /\ Admissible(Ended("forbidden"))
        /\ Admissible([request[r] EXCEPT !.at = "logging_out"])
        /\ Admissible([request[r] EXCEPT !.at = "admitted"])
    BY <1>4, <1>5, <2>1 DEF RequestPlaces
  <2>4. \E row : Admissible(row) /\ request' = [request EXCEPT ![r] = row]
    BY <2>2, <2>3, Zenon
  <2> QED BY <2>1, <2>4 DEF SessionMoves
<1>10. CASE ReadToRevoke(r)
  <2>1. UNCHANGED <<user, session, login, running, loggedOut, salt, now>> /\ Carries(r)
    BY <1>10 DEF ReadToRevoke, Carries
  <2>2. PICK passes \in CheckedAgain(request[r].session, now) :
          request' = [request EXCEPT ![r] =
            IF passes THEN [request[r] EXCEPT !.at = "revoking"] ELSE Ended("unauthorized")]
    BY <1>2, <1>10 DEF ReadToRevoke
  <2>3. Admissible(Ended("unauthorized")) /\ Admissible([request[r] EXCEPT !.at = "revoking"])
    BY <1>4, <1>5, <2>1 DEF RequestPlaces
  <2>4. \E row : Admissible(row) /\ request' = [request EXCEPT ![r] = row]
    BY <2>2, <2>3, Zenon
  <2> QED BY <2>1, <2>4 DEF SessionMoves
<1>11. CASE Revoke(r)
  <2> DEFINE s == request[r].session
             row == [session[s] EXCEPT !.revoked = TRUE]
  <2>1. Carries(r) BY <1>11 DEF Revoke, Carries
  <2>2. s \in Logins /\ session[s] \in SessionRow
    BY <1>3, <2>1
  <2>3. row \in SessionRow /\ row.revoked
    BY <2>2 DEF SessionRow
  <2>4. session' = [session EXCEPT ![s] = row] /\ loggedOut' = loggedOut \cup {s}
    BY <1>1, <1>11, <2>2 DEF Revoke, AccountTypes
  <2>5. SessionMoves
    BY <2>2, <2>3, <2>4 DEF SessionMoves
  <2>6. request' = [request EXCEPT ![r] = Ended("logged_out")]
    BY <1>11 DEF Revoke
  <2> QED BY <1>4, <1>11, <2>5, <2>6 DEF Revoke, RequestPlaces
<1>12. CASE EndRequest(r)
  <2>1. request' = [request EXCEPT ![r] = NoRequest]
    BY <1>12 DEF EndRequest
  <2>2. Admissible(NoRequest)
    BY DEF Admissible, NoRequest, RequestRow, RequestPlaces
  <2> QED BY <1>12, <2>1, <2>2 DEF EndRequest, SessionMoves
<1> QED BY <1>7, <1>8, <1>9, <1>10, <1>11, <1>12 DEF RequestAction, RequestStep

--------------------------------------------------------------------------
\* Every step of Next is one of these four kinds.
LEMMA StepKinds ==
  ASSUME AccountInvariant, [Next]_vars
  PROVE  \/ Outside
         \/ \E l \in Logins : LoginInvariant' /\ Unfinished(l)
         \/ \E l \in Logins : CommitLogin(l)
         \/ \E r \in Requests : RequestAction(r)
<1>1. LoginInvariant BY DEF AccountInvariant
<1>2. ASSUME NEW l \in Logins, NEW p \in Users, NEW w \in Passwords, ObserveUser(l, p, w)
      PROVE  LoginInvariant' /\ Unfinished(l)
  BY <1>1, <1>2, ObserveStep
<1>3. ASSUME NEW l \in Logins, StartWork(l) \/ FinishWork(l) \/ CancelLogin(l)
      PROVE  LoginInvariant' /\ Unfinished(l)
  BY <1>1, <1>3, WorkStep
<1> QED BY <1>2, <1>3 DEF Next, Outside, LoginStep, RequestAction

\* A session that is not there yet stays away unless a login issues it.
LEMMA OnlyLoginsCreate ==
  ASSUME AccountInvariant, NEW r \in Requests, RequestAction(r)
  PROVE  /\ \A l \in Logins : session[l] = None => session'[l] = None
         /\ \A l \in Logins : session[l] \in SessionRow => session'[l] \in SessionRow
         /\ session' \in [Logins -> SessionRow \cup {None}] /\ loggedOut' \subseteq Logins
         /\ \A s \in loggedOut' : session'[s] \in SessionRow /\ session'[s].revoked
<1>1. SessionMoves BY RequestMoves
<1>2. /\ session \in [Logins -> SessionRow \cup {None}] /\ loggedOut \subseteq Logins
      /\ \A s \in loggedOut : session[s] \in SessionRow /\ session[s].revoked
  BY DEF AccountInvariant, LoginInvariant, AccountTypes, SessionInvariant
<1> QED BY <1>1, <1>2, NoneAssumption DEF SessionMoves

\* Every step keeps the invariant.
LEMMA AccountsNext == ASSUME AccountInvariant, [Next]_vars PROVE AccountInvariant'
<1>1. LoginInvariant /\ AccountTypes /\ SessionInvariant
  BY DEF AccountInvariant, LoginInvariant
<1>2. CASE Outside
  <2>1. /\ UsersStay /\ salt' \in 0..MaxSalt /\ now' \in Nat
        /\ UNCHANGED <<session, login, running, request, loggedOut>>
    BY <1>1, <1>2, OutsideStep
  <2>2. \A l \in Logins : Observing(l)' /\ Verifying(l)'
    BY <1>1, <2>1, OtherLogin
  <2>3. AccountTypes'
    BY <1>1, <2>1 DEF AccountTypes, UsersStay
  <2>4. SessionInvariant'
    BY <1>1, <2>1 DEF SessionInvariant, Carries
  <2> QED BY <2>2, <2>3, <2>4 DEF AccountInvariant, LoginInvariant
<1>3. ASSUME NEW l \in Logins, LoginInvariant', Unfinished(l) PROVE AccountInvariant'
  <2>1. \A m \in Logins : login'[m].at # "issued" => login[m].at # "issued"
    BY <1>1, <1>3 DEF Unfinished, AccountTypes
  <2> QED BY <1>1, <1>3, <2>1 DEF Unfinished, AccountInvariant, SessionInvariant, Carries
<1>4. ASSUME NEW l \in Logins, CommitLogin(l) PROVE AccountInvariant'
  <2>1. LoginInvariant' BY <1>4, CommitStep
  <2>2. CASE Unfinished(l) BY <1>3, <2>1, <2>2
  <2>3. ASSUME login[l].at = "ready", login' = [login EXCEPT ![l].at = "issued"],
               NEW row \in SessionRow, session' = [session EXCEPT ![l] = row],
               UNCHANGED <<request, loggedOut>>
        PROVE  SessionInvariant'
    <3>1. session[l] = None
      BY <1>1, <2>3 DEF SessionInvariant
    <3>2. \A m \in Logins : login'[m].at # "issued" => m # l /\ login[m].at # "issued"
      BY <1>1, <2>3 DEF AccountTypes, LoginRow
    <3>3. \A m \in Logins : session'[m] = IF m = l THEN row ELSE session[m]
      BY <1>1, <2>3 DEF AccountTypes
    <3>4. \A s \in loggedOut : s \in Logins /\ s # l
      BY <1>1, <3>1, NoneAssumption DEF SessionInvariant, AccountTypes
    <3> QED BY <1>1, <2>3, <3>1, <3>2, <3>3, <3>4 DEF SessionInvariant, Carries
  <2> QED BY <1>4, <2>1, <2>2, <2>3, CommitStep DEF AccountInvariant
<1>5. ASSUME NEW r \in Requests, RequestAction(r) PROVE AccountInvariant'
  <2>1. PICK row : Admissible(row) /\ request' = [request EXCEPT ![r] = row]
    BY <1>5, RequestMoves
  <2>2. UNCHANGED <<user, login, running, salt, now>>
    BY <1>5, RequestMoves
  <2>3. /\ \A l \in Logins : session[l] = None => session'[l] = None
        /\ \A l \in Logins : session[l] \in SessionRow => session'[l] \in SessionRow
        /\ session' \in [Logins -> SessionRow \cup {None}] /\ loggedOut' \subseteq Logins
        /\ \A s \in loggedOut' : session'[s] \in SessionRow /\ session'[s].revoked
    BY <1>5, OnlyLoginsCreate
  <2>4. AccountTypes'
    BY <1>1, <2>1, <2>2, <2>3 DEF AccountTypes, Admissible
  <2>5. LoginInvariant'
    <3>1. UsersStay BY <1>1, <2>2 DEF UsersStay, AccountTypes
    <3> QED BY <1>1, <2>2, <2>4, <3>1, OtherLogin DEF LoginInvariant
  <2>6. \A q \in Requests : Carries(q)' =>
          request'[q].session \in Logins /\ session[request'[q].session] \in SessionRow
    BY <1>1, <2>1 DEF AccountTypes, SessionInvariant, Carries, Admissible
  <2>7. \A q \in Requests : ~request'[q].late
    BY <1>1, <2>1 DEF AccountTypes, SessionInvariant, Admissible
  <2>8. SessionInvariant'
    BY <1>1, <2>2, <2>3, <2>6, <2>7 DEF SessionInvariant
  <2> QED BY <2>5, <2>8 DEF AccountInvariant
<1> QED BY <1>2, <1>3, <1>4, <1>5, StepKinds

\* A logout is final: no request that comes after its answer is admitted, whatever
\* touches of the row were under way.
THEOREM LogoutsAreFinal == Spec => []LogoutIsFinal
<1>1. AccountInvariant => LogoutIsFinal
  BY DEF AccountInvariant, SessionInvariant, LogoutIsFinal
<1> QED BY <1>1, AccountsInit, AccountsNext, PTL DEF Spec

\* What creates a session, if anything does.
LEMMA Creation ==
  ASSUME AccountInvariant, [Next]_vars, NEW l \in Logins, session[l] = None, session'[l] # None
  PROVE  /\ login[l].user \in Users
         /\ user[login[l].user].hash.password = login[l].password
         /\ user[login[l].user].active
         /\ \/ user' = user
            \/ \E hash \in Hash :
                 /\ user' = [user EXCEPT ![login[l].user].hash = hash]
                 /\ hash.password = login[l].password /\ ~hash.outdated
                 /\ user[login[l].user] \in UserRow
                 /\ user[login[l].user].hash.outdated
<1>1. AccountTypes BY DEF AccountInvariant, LoginInvariant
<1>2. ~Outside
  BY <1>1, OutsideStep
<1>3. \A m \in Logins : ~Unfinished(m)
  BY DEF Unfinished
<1>4. \A r \in Requests : ~RequestAction(r)
  BY OnlyLoginsCreate
<1>5. PICK m \in Logins : CommitLogin(m)
  BY <1>2, <1>3, <1>4, StepKinds
<1>6. \E row \in SessionRow : session' = [session EXCEPT ![m] = row]
  BY <1>3, <1>5, CommitStep
<1>7. m = l
  BY <1>1, <1>6 DEF AccountTypes
<1> QED BY <1>3, <1>5, <1>7, CommitStep

\* No session on a password that was changed, or for a user that was deactivated,
\* during the Argon2 work.
THEOREM SessionsOnCurrentPasswords == Spec => IssuedOnCurrentPassword
<1>1. AccountInvariant /\ [Next]_vars =>
        [\A l \in Logins : session[l] = None /\ session'[l] # None =>
            /\ user[login[l].user].hash.password = login[l].password
            /\ user[login[l].user].active]_vars
  BY Creation
<1> QED BY <1>1, AccountsInit, AccountsNext, PTL DEF Spec, IssuedOnCurrentPassword

\* A rehash replaces an outdated hash by one of the same password.
THEOREM RehashesKeepPasswords == Spec => RehashKeepsThePassword
<1> DEFINE Kept(p) == user'[p] # user[p] =>
             /\ user'[p].hash.password = user[p].hash.password
             /\ user[p].hash.outdated /\ ~user'[p].hash.outdated
<1>1. ASSUME AccountInvariant, [Next]_vars, NEW l \in Logins, session[l] = None, session'[l] # None,
             NEW p \in Users
      PROVE  Kept(p)
  <2>1. user \in [Users -> UserRow \cup {None}]
    BY <1>1 DEF AccountInvariant, LoginInvariant, AccountTypes
  <2>2. CASE user' = user BY <2>2
  <2>3. ASSUME NEW hash \in Hash, user' = [user EXCEPT ![login[l].user].hash = hash],
               hash.password = login[l].password, ~hash.outdated,
               login[l].user \in Users,
               user[login[l].user].hash.password = login[l].password,
               user[login[l].user] \in UserRow, user[login[l].user].hash.outdated
        PROVE  Kept(p)
    <3>1. CASE p # login[l].user BY <2>1, <2>3, <3>1
    <3>2. CASE p = login[l].user
      <4>1. user'[p].hash = hash
        BY <2>1, <2>3, <3>2 DEF UserRow
      <4> QED BY <2>3, <3>2, <4>1
    <3> QED BY <3>1, <3>2
  <2> QED BY <1>1, <2>2, <2>3, Creation
<1>2. AccountInvariant /\ [Next]_vars =>
        [\A l \in Logins : session[l] = None /\ session'[l] # None => \A p \in Users : Kept(p)]_vars
  BY <1>1
<1> QED BY <1>2, AccountsInit, AccountsNext, PTL DEF Spec, RehashKeepsThePassword

--------------------------------------------------------------------------
(***************************************************************************)
(* LegacyClaim, for any number of operators, users and knowledge bases.    *)
(* What an operator has selected stays without owner until it commits:     *)
(* other claims wait for the advisory lock, and whoever creates a          *)
(* knowledge base creates one that the selection cannot contain.           *)
(***************************************************************************)
ClaimRow == [at : {"idle", "owner_locked", "serialized", "inserting"},
             owner : Principals \cup {Nobody}, eligible : SUBSET KnowledgeBases]

ClaimTypes ==
  /\ exists \subseteq KnowledgeBases
  /\ role \in [Principals -> [KnowledgeBases -> Roles]]
  /\ active \subseteq Principals
  /\ advisory \in Operators \cup {Nobody}
  /\ claim \in [Operators -> ClaimRow]

ClaimInvariant ==
  /\ ClaimTypes
  /\ \A o \in Operators : claim[o].at # "idle" => claim[o].owner \in active
  /\ \A o \in Operators : claim[o].at \in {"serialized", "inserting"} => advisory = o
  /\ \A o \in Operators : claim[o].at = "inserting" =>
       \A k \in claim[o].eligible : k \in exists /\ Unowned(k)

\* The invariant holds initially.
LEMMA ClaimInitHolds == ASSUME ClaimInit PROVE ClaimInvariant
BY LegacyAssumption
DEF ClaimInit, ClaimInvariant, ClaimTypes, ClaimRow, NoClaim, Roles, Memberships, NoRole

\* Moving one claim on disturbs no other.
LEMMA ClaimMoves ==
  ASSUME ClaimInvariant, NEW o \in Operators, NEW row \in ClaimRow,
         claim' = [claim EXCEPT ![o] = row], UNCHANGED <<exists, role, active>>,
         advisory' \in Operators \cup {Nobody},
         \A p \in Operators \ {o} : advisory = p => advisory' = p,
         row.at # "idle" => row.owner \in active,
         row.at \in {"serialized", "inserting"} => advisory' = o,
         row.at = "inserting" => \A k \in row.eligible : k \in exists /\ Unowned(k)
  PROVE  ClaimInvariant'
BY DEF ClaimInvariant, ClaimTypes, Unowned

\* Taking memberships away, or giving them outside of every selection, keeps the rest.
LEMMA MembershipsMove ==
  ASSUME ClaimInvariant, role' \in [Principals -> [KnowledgeBases -> Roles]],
         exists \subseteq exists', exists' \subseteq KnowledgeBases,
         UNCHANGED <<active, advisory, claim>>,
         \A k \in exists : Unowned(k) => Unowned(k)'
  PROVE  ClaimInvariant'
BY DEF ClaimInvariant, ClaimTypes, ClaimRow

\* Every step keeps the invariant.
LEMMA ClaimNextHolds == ASSUME ClaimInvariant, [ClaimNext]_claimVars PROVE ClaimInvariant'
<1>1. ClaimTypes BY DEF ClaimInvariant
<1>2. \A o \in Operators : claim[o] \in ClaimRow
  BY <1>1 DEF ClaimTypes
<1>3. ASSUME NEW p \in Principals, NEW k \in KnowledgeBases, CreateKnowledgeBase(p, k) PROVE ClaimInvariant'
  <2>1. /\ role' = [role EXCEPT ![p] = [role[p] EXCEPT ![k] = Owner]]
        /\ exists' = exists \cup {k} /\ k \notin exists
        /\ UNCHANGED <<active, advisory, claim>>
    BY <1>1, <1>3 DEF CreateKnowledgeBase, ClaimTypes
  <2>2. role' \in [Principals -> [KnowledgeBases -> Roles]]
    BY <1>1, <2>1 DEF ClaimTypes, Roles, Memberships
  <2>3. \A m \in exists : Unowned(m) => Unowned(m)'
    BY <1>1, <2>1 DEF ClaimTypes, Unowned
  <2> QED BY <1>1, <2>1, <2>2, <2>3, MembershipsMove DEF ClaimTypes
<1>4. ASSUME NEW p \in Principals, NEW k \in KnowledgeBases, RemoveMembership(p, k) PROVE ClaimInvariant'
  <2>1. /\ role' = [role EXCEPT ![p] = [role[p] EXCEPT ![k] = NoRole]]
        /\ UNCHANGED <<exists, active, advisory, claim>>
    BY <1>1, <1>4 DEF RemoveMembership, ClaimTypes
  <2>2. role' \in [Principals -> [KnowledgeBases -> Roles]]
    BY <1>1, <2>1 DEF ClaimTypes, Roles
  <2>3. \A m \in exists : Unowned(m) => Unowned(m)'
    BY <1>1, <2>1 DEF ClaimTypes, Unowned
  <2> QED BY <1>1, <2>1, <2>2, <2>3, MembershipsMove DEF ClaimTypes
<1>5. ASSUME NEW o \in Operators, NEW p \in Principals, LockOwner(o, p) PROVE ClaimInvariant'
  <2> DEFINE row == [NoClaim EXCEPT !.at = "owner_locked", !.owner = p]
  <2>1. row \in ClaimRow /\ row.at = "owner_locked" /\ row.owner = p
    BY DEF NoClaim, ClaimRow
  <2> HIDE DEF row
  <2>2. claim' = [claim EXCEPT ![o] = row] /\ UNCHANGED <<exists, role, active, advisory>> /\ p \in active
    BY <1>5 DEF LockOwner, row
  <2> QED BY <1>1, <2>1, <2>2, ClaimMoves DEF ClaimTypes
<1>6. ASSUME NEW o \in Operators, TakeAdvisoryLock(o) PROVE ClaimInvariant'
  <2> DEFINE row == [claim[o] EXCEPT !.at = "serialized"]
  <2>1. row \in ClaimRow /\ row.at = "serialized" /\ row.owner = claim[o].owner
    BY <1>2 DEF ClaimRow
  <2>2. claim' = [claim EXCEPT ![o] = row]
    BY <1>1, <1>6 DEF TakeAdvisoryLock, ClaimTypes
  <2> HIDE DEF row
  <2>3. /\ advisory = Nobody /\ advisory' = o /\ UNCHANGED <<exists, role, active>>
        /\ claim[o].owner \in active
    BY <1>6 DEF TakeAdvisoryLock, ClaimInvariant
  <2> QED BY <2>1, <2>2, <2>3, LegacyAssumption, ClaimMoves
<1>7. ASSUME NEW o \in Operators, SelectEligible(o) PROVE ClaimInvariant'
  <2> DEFINE row == [claim[o] EXCEPT !.at = "inserting", !.eligible = {k \in exists : Unowned(k)}]
  <2>1. {k \in exists : Unowned(k)} \in SUBSET KnowledgeBases
    BY <1>1 DEF ClaimTypes
  <2>2. /\ row \in ClaimRow /\ row.at = "inserting" /\ row.owner = claim[o].owner
        /\ row.eligible = {k \in exists : Unowned(k)}
    BY <1>2, <2>1 DEF ClaimRow
  <2>3. claim' = [claim EXCEPT ![o] = row]
    BY <1>1, <1>7 DEF SelectEligible, ClaimTypes
  <2> HIDE DEF row
  <2>4. /\ UNCHANGED <<exists, role, active, advisory>>
        /\ claim[o].owner \in active /\ advisory = o
    BY <1>7 DEF SelectEligible, ClaimInvariant
  <2> QED BY <2>2, <2>3, <2>4, ClaimMoves
<1>8. ASSUME NEW o \in Operators, AbortClaim(o) PROVE ClaimInvariant'
  <2>1. NoClaim \in ClaimRow /\ NoClaim.at = "idle"
    BY DEF NoClaim, ClaimRow
  <2>2. claim' = [claim EXCEPT ![o] = NoClaim] /\ UNCHANGED <<exists, role, active>>
    BY <1>8 DEF AbortClaim
  <2>3. /\ advisory' \in Operators \cup {Nobody}
        /\ \A p \in Operators \ {o} : advisory = p => advisory' = p
    BY <1>1, <1>8 DEF AbortClaim, Freed, ClaimTypes
  <2> QED BY <2>1, <2>2, <2>3, ClaimMoves
<1>9. ASSUME NEW o \in Operators, CommitClaim(o) PROVE ClaimInvariant'
  <2> DEFINE p == claim[o].owner
  <2>1. /\ claim[o].at = "inserting" /\ p \in active /\ p \in Principals /\ advisory = o
        /\ claim' = [claim EXCEPT ![o] = NoClaim] /\ UNCHANGED <<exists, active>>
    BY <1>1, <1>9 DEF CommitClaim, ClaimInvariant, ClaimTypes
  <2>2. NoClaim \in ClaimRow /\ NoClaim.at = "idle"
    BY DEF NoClaim, ClaimRow
  <2>3. role' \in [Principals -> [KnowledgeBases -> Roles]]
    <3>1. role[p] \in [KnowledgeBases -> Roles]
      BY <1>1, <2>1 DEF ClaimTypes
    <3>2. role' = [role EXCEPT ![p] = [k \in KnowledgeBases |->
                     IF k \in claim[o].eligible /\ role[p][k] = NoRole THEN Owner ELSE role[p][k]]]
      BY <1>1, <1>9, <2>1 DEF CommitClaim, ClaimTypes
    <3>3. [k \in KnowledgeBases |-> IF k \in claim[o].eligible /\ role[p][k] = NoRole THEN Owner ELSE role[p][k]]
            \in [KnowledgeBases -> Roles]
      BY <3>1 DEF Roles, Memberships
    <3> QED BY <1>1, <3>2, <3>3 DEF ClaimTypes
  <2>4. advisory' \in Operators \cup {Nobody}
    BY <1>1, <1>9 DEF CommitClaim, Freed, ClaimTypes
  <2>5. \A q \in Operators : claim'[q].at # "idle" => q # o /\ claim'[q] = claim[q]
    BY <1>1, <2>1, <2>2 DEF ClaimTypes
  <2>6. \A q \in Operators : claim'[q].at \notin {"serialized", "inserting"}
    BY <2>1, <2>5 DEF ClaimInvariant
  <2>7. ClaimTypes'
    BY <1>1, <2>1, <2>2, <2>3, <2>4 DEF ClaimTypes
  <2> QED BY <2>1, <2>5, <2>6, <2>7 DEF ClaimInvariant
<1>10. ASSUME NEW p \in Principals, DeactivateUser(p) PROVE ClaimInvariant'
  BY <1>1, <1>10 DEF DeactivateUser, ClaimInvariant, ClaimTypes, ClaimRow, Unowned
<1>11. CASE UNCHANGED claimVars
  BY <1>11 DEF claimVars, ClaimInvariant, ClaimTypes, Unowned
<1> QED BY <1>3, <1>4, <1>5, <1>6, <1>7, <1>8, <1>9, <1>10, <1>11 DEF ClaimNext

\* However many operators run the command for however many users, ownership is only
\* given to a knowledge base without members, and to a user who is active.
THEOREM ClaimsFailClosed == ClaimSpec => ClaimsOnlyUnowned
<1> DEFINE Given(p, k) == role[p][k] = NoRole /\ role'[p][k] = Owner => Unowned(k) /\ p \in active
<1>1. ASSUME ClaimInvariant, [ClaimNext]_claimVars, NEW p \in Principals, NEW k \in exists PROVE Given(p, k)
  <2>1. ClaimTypes /\ k \in KnowledgeBases
    BY <1>1 DEF ClaimInvariant, ClaimTypes
  <2>2. CASE role' = role
    BY <2>2 DEF Owner, NoRole
  <2>3. ASSUME NEW q \in Principals, NEW m \in KnowledgeBases, CreateKnowledgeBase(q, m) PROVE Given(p, k)
    <3>1. m # k /\ role' = [role EXCEPT ![q] = [role[q] EXCEPT ![m] = Owner]]
      BY <2>1, <2>3 DEF CreateKnowledgeBase, ClaimTypes
    <3>2. role'[p][k] = role[p][k]
      BY <2>1, <3>1 DEF ClaimTypes
    <3> QED BY <3>2 DEF Owner, NoRole
  <2>4. ASSUME NEW q \in Principals, NEW m \in KnowledgeBases, RemoveMembership(q, m) PROVE Given(p, k)
    <3>1. role' = [role EXCEPT ![q] = [role[q] EXCEPT ![m] = NoRole]]
      BY <2>1, <2>4 DEF RemoveMembership, ClaimTypes
    <3>2. role'[p][k] \in {NoRole, role[p][k]}
      BY <2>1, <3>1 DEF ClaimTypes
    <3> QED BY <3>2 DEF Owner, NoRole
  <2>5. ASSUME NEW o \in Operators, CommitClaim(o) PROVE Given(p, k)
    <3>1. /\ claim[o].owner \in active
          /\ \A j \in claim[o].eligible : Unowned(j)
      BY <1>1, <2>5 DEF CommitClaim, ClaimInvariant
    <3>2. p # claim[o].owner \/ k \notin claim[o].eligible => role'[p][k] = role[p][k]
      BY <2>1, <2>5 DEF CommitClaim, ClaimTypes
    <3> QED BY <3>1, <3>2 DEF Owner, NoRole
  <2> QED
    BY <1>1, <2>2, <2>3, <2>4, <2>5
    DEF ClaimNext, LockOwner, TakeAdvisoryLock, SelectEligible, AbortClaim, DeactivateUser, claimVars
<1>2. ClaimInvariant /\ [ClaimNext]_claimVars =>
        [\A p \in Principals, k \in exists :
           role[p][k] = NoRole /\ role'[p][k] = Owner => Unowned(k) /\ p \in active]_claimVars
  BY <1>1
<1> QED BY <1>2, ClaimInitHolds, ClaimNextHolds, PTL DEF ClaimSpec, ClaimsOnlyUnowned
==========================================================================
