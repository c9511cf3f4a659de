--------------------------- MODULE AccountSessions ---------------------------
(***************************************************************************)
(* Local accounts and opaque server-side sessions: AuthenticationService,  *)
(* PasswordWorkLimiter and the operator's bootstrap-user.                  *)
(*                                                                         *)
(* A login reads the user in one transaction, verifies (and, for outdated  *)
(* parameters, recomputes) the Argon2id hash outside of any transaction on *)
(* an executor of few threads, and creates the session in a second         *)
(* transaction that locks the user.  A request reads its session row       *)
(* without a lock and updates it later in the same transaction, checks the *)
(* session again for the CSRF token, and a logout once more to revoke it.  *)
(*                                                                         *)
(* A hash is the password it was made from, whether its parameters are     *)
(* outdated, and the salt that makes the string unlike any other.          *)
(***************************************************************************)
EXTENDS FiniteSets, Integers

CONSTANTS
  Users, Passwords,
  Logins,          \* login requests; each may create one session, of its name
  Requests,        \* requests that carry a session cookie
  MaxConcurrency,  \* ARGON2_MAX_CONCURRENCY
  TTL,             \* session_ttl
  MaxTime,         \* bound: the clock stops here
  MaxSalt,         \* bound: hashes the operators compute
  None

ASSUME SessionsAssumption ==
  /\ MaxConcurrency \in 1..8
  /\ TTL \in Nat \ {0}
  /\ MaxTime \in Nat
  /\ MaxSalt \in Nat \ {0}

VARIABLES
  user,      \* user[p]: the users row, or None before bootstrap
  session,   \* session[l]: the user_sessions row that login l created, or None
  login,     \* login[l]: a login and where it is
  running,   \* logins whose job occupies a thread of the password executor
  request,   \* request[r]: a request and where it is
  loggedOut, \* sessions whose logout was answered
  salt,      \* salts drawn
  now

vars == <<user, session, login, running, request, loggedOut, salt, now>>

Hash == [password : Passwords, outdated : BOOLEAN, salt : (0..MaxSalt) \cup Logins]
UserRow == [hash : Hash, active : BOOLEAN]
SessionRow == [user : Users, revoked : BOOLEAN, expires : Nat, seen : Nat \cup {None}]

ASSUME NoneAssumption == None \notin SessionRow

NewSession(p, since) ==
  [user |-> p, revoked |-> FALSE, expires |-> since + TTL, seen |-> None]

NoLogin == [at |-> "idle", user |-> None, password |-> None, observed |-> None,
            replacement |-> None, since |-> 0]
NoRequest == [at |-> "idle", session |-> None, row |-> None, since |-> 0,
              logout |-> FALSE, late |-> FALSE]

\* Users may date from before a release with stronger Argon2 parameters.
Init ==
  /\ user \in [Users -> {None} \cup {u \in UserRow : u.active /\ u.hash.outdated /\ u.hash.salt = 0}]
  /\ session = [l \in Logins |-> None]
  /\ login = [l \in Logins |-> NoLogin]
  /\ running = {}
  /\ request = [r \in Requests |-> NoRequest]
  /\ loggedOut = {}
  /\ salt = 1
  /\ now = 0

accounts == <<user, salt>>
sessions == <<session, request, loggedOut>>

--------------------------------------------------------------------------
(* Accounts. *)

\* bootstrap_user: the first of two runs of one e-mail address wins.
BootstrapUser(p, w) ==
  /\ user[p] = None
  /\ salt < MaxSalt
  /\ salt' = salt + 1
  /\ user' = [user EXCEPT ![p] = [hash   |-> [password |-> w, outdated |-> FALSE, salt |-> salt],
                                  active |-> TRUE]]
  /\ UNCHANGED <<sessions, login, running, now>>

\* An operator of the database resets a password or deactivates a user.
ResetPassword(p, w) ==
  /\ user[p] # None
  /\ salt < MaxSalt
  /\ salt' = salt + 1
  /\ user' = [user EXCEPT ![p].hash = [password |-> w, outdated |-> FALSE, salt |-> salt]]
  /\ UNCHANGED <<sessions, login, running, now>>

Deactivate(p) ==
  /\ user[p] # None
  /\ user[p].active
  /\ user' = [user EXCEPT ![p].active = FALSE]
  /\ UNCHANGED <<salt, sessions, login, running, now>>

--------------------------------------------------------------------------
(* Login. *)

\* get_for_authentication_by_email: a snapshot, without lock.
ObserveUser(l, p, w) ==
  /\ login[l].at = "idle"
  /\ login' = [login EXCEPT ![l] =
       [NoLogin EXCEPT !.at = "queued_to_verify", !.user = p, !.password = w,
                       !.observed = user[p], !.since = now]]
  /\ UNCHANGED <<accounts, sessions, running, now>>

\* PasswordWorkLimiter.run: a job waits for one of the executor's threads.
StartWork(l) ==
  /\ login[l].at \in {"queued_to_verify", "queued_to_hash"}
  /\ l \notin running
  /\ Cardinality(running) < MaxConcurrency
  /\ running' = running \cup {l}
  /\ login' = [login EXCEPT ![l].at = IF @ = "queued_to_verify" THEN "verifying" ELSE "hashing"]
  /\ UNCHANGED <<accounts, sessions, now>>

\* verify_password: an unknown user costs the same work as a known one.
Verified(l) ==
  /\ login[l].observed # None
  /\ login[l].observed.hash.password = login[l].password
  /\ login[l].observed.active

\* Mutant: a login given up keeps its thread.
FinishWorkOfWaiting(l) ==
  /\ l \in running
  /\ running' = running \ {l}
  /\ \/ /\ login[l].at = "verifying"
        /\ login' = [login EXCEPT ![l].at =
             IF ~Verified(l) THEN "refused"
             ELSE IF login[l].observed.hash.outdated THEN "queued_to_hash" ELSE "ready"]
     \/ /\ login[l].at = "hashing"
        /\ login' = [login EXCEPT ![l].at = "ready",
             ![l].replacement = [password |-> login[l].password, outdated |-> FALSE, salt |-> l]]
  /\ UNCHANGED <<accounts, sessions, now>>

\* The thread is done with its job, also when nobody waits for it any more.
FinishWork(l) ==
  /\ l \in running
  /\ running' = running \ {l}
  /\ \/ /\ login[l].at = "verifying"
        /\ login' = [login EXCEPT ![l].at =
             IF ~Verified(l) THEN "refused"
             ELSE IF login[l].observed.hash.outdated THEN "queued_to_hash" ELSE "ready"]
     \/ /\ login[l].at = "hashing"
        /\ login' = [login EXCEPT ![l].at = "ready",
             ![l].replacement = [password |-> login[l].password, outdated |-> FALSE, salt |-> l]]
     \/ /\ login[l].at = "cancelled"
        /\ login' = login
  /\ UNCHANGED <<accounts, sessions, now>>

\* Mutant: trusts the hash that was verified.
CommitLoginUnchecked(l) ==
  /\ login[l].at = "ready"
  /\ LET p == login[l].user IN
     IF user[p].active
       THEN /\ user' = IF login[l].replacement = None THEN user
                       ELSE [user EXCEPT ![p].hash = login[l].replacement]
            /\ session' = [session EXCEPT ![l] = NewSession(p, login[l].since)]
            /\ login' = [login EXCEPT ![l].at = "issued"]
       ELSE /\ login' = [login EXCEPT ![l].at = "refused"]
            /\ UNCHANGED <<user, session>>
  /\ UNCHANGED <<salt, running, request, loggedOut, now>>

\* Mutant: a login that rehashes does not compare.
CommitRehashUnchecked(l) ==
  /\ login[l].at = "ready"
  /\ LET p == login[l].user IN
     IF user[p].active /\ (login[l].replacement # None \/ user[p].hash = login[l].observed.hash)
       THEN /\ user' = IF login[l].replacement = None THEN user
                       ELSE [user EXCEPT ![p].hash = login[l].replacement]
            /\ session' = [session EXCEPT ![l] = NewSession(p, login[l].since)]
            /\ login' = [login EXCEPT ![l].at = "issued"]
       ELSE /\ login' = [login EXCEPT ![l].at = "refused"]
            /\ UNCHANGED <<user, session>>
  /\ UNCHANGED <<salt, running, request, loggedOut, now>>

\* The second transaction locks the user, and refuses if the user became
\* inactive or the stored hash is no longer the one that was verified.
CommitLogin(l) ==
  /\ login[l].at = "ready"
  /\ LET p == login[l].user IN
     IF user[p].active /\ user[p].hash = login[l].observed.hash
       THEN /\ user' = IF login[l].replacement = None THEN user
                       ELSE [user EXCEPT ![p].hash = login[l].replacement]
            /\ session' = [session EXCEPT ![l] = NewSession(p, login[l].since)]
            /\ login' = [login EXCEPT ![l].at = "issued"]
       ELSE /\ login' = [login EXCEPT ![l].at = "refused"]
            /\ UNCHANGED <<user, session>>
  /\ UNCHANGED <<salt, running, request, loggedOut, now>>

\* The client disconnects: the coroutine ends, the thread does not.
CancelLogin(l) ==
  /\ login[l].at \in {"queued_to_verify", "verifying", "queued_to_hash", "hashing", "ready"}
  /\ login' = [login EXCEPT ![l].at = "cancelled"]
  /\ UNCHANGED <<accounts, sessions, running, now>>

--------------------------------------------------------------------------
(* Requests of a session. *)

\* What the query of _active_session selects at time t.
Live(s, t) ==
  /\ session[s] # None
  /\ ~session[s].revoked
  /\ session[s].expires > t

\* _active_session on the committed rows.
Active(s, t) == Live(s, t) /\ user[session[s].user].active

\* What a later _active_session of the same request may find: the query runs anew, but a
\* user the request's AsyncSession still holds is the one it has found active before
\* (expire_on_commit is off).
CheckedAgain(s, t) == {Live(s, t), Active(s, t)}

Ended(outcome) == [NoRequest EXCEPT !.at = outcome]

\* authenticate_session reads the row as it is now.
ReadSession(r, s, logout) ==
  /\ request[r].at = "idle"
  /\ session[s] # None
  /\ request' = [request EXCEPT ![r] =
       IF Active(s, now)
         THEN [at |-> "read", session |-> s, row |-> session[s], since |-> now,
               logout |-> logout, late |-> s \in loggedOut]
         ELSE Ended("unauthorized")]
  /\ UNCHANGED <<user, session, login, running, loggedOut, salt, now>>

\* Mutant: writes the row back as it was read.
TouchWholeRow(r) ==
  /\ request[r].at = "read"
  /\ session' = [session EXCEPT ![request[r].session] =
                   [request[r].row EXCEPT !.seen = request[r].since]]
  /\ request' = [request EXCEPT ![r].at = "authenticated", ![r].row = None,
                                 ![r].since = 0]
  /\ UNCHANGED <<user, login, running, loggedOut, salt, now>>

\* touch_for_authentication: UPDATE sets last_seen_at alone, then COMMIT.
Touch(r) ==
  /\ request[r].at = "read"
  /\ session' = [session EXCEPT ![request[r].session].seen = request[r].since]
  /\ request' = [request EXCEPT ![r].at = "authenticated", ![r].row = None,
                                 ![r].since = 0]
  /\ UNCHANGED <<user, login, running, loggedOut, salt, now>>

\* validate_csrf: the session must still be active, and the token its own.
ValidateCsrf(r) ==
  /\ request[r].at = "authenticated"
  /\ \E passes \in CheckedAgain(request[r].session, now), matches \in BOOLEAN :
       request' = [request EXCEPT ![r] =
         IF ~passes THEN Ended("unauthorized")
         ELSE IF ~matches THEN Ended("forbidden")
         ELSE [@ EXCEPT !.at = IF request[r].logout THEN "logging_out" ELSE "admitted"]]
  /\ UNCHANGED <<user, session, login, running, loggedOut, salt, now>>

\* revoke_session: reads the row, which must be active once more ...
ReadToRevoke(r) ==
  /\ request[r].at = "logging_out"
  /\ \E passes \in CheckedAgain(request[r].session, now) :
       request' = [request EXCEPT ![r] =
         IF passes THEN [@ EXCEPT !.at = "revoking"] ELSE Ended("unauthorized")]
  /\ UNCHANGED <<user, session, login, running, loggedOut, salt, now>>

\* ... and sets revoked_at.
Revoke(r) ==
  /\ request[r].at = "revoking"
  /\ session' = [session EXCEPT ![request[r].session].revoked = TRUE]
  /\ request' = [request EXCEPT ![r] = Ended("logged_out")]
  /\ loggedOut' = loggedOut \cup {request[r].session}
  /\ UNCHANGED <<user, login, running, salt, now>>

\* A transaction fails or the client goes away; the cookie may be used again.
EndRequest(r) ==
  /\ request[r].at # "idle"
  /\ request' = [request EXCEPT ![r] = NoRequest]
  /\ UNCHANGED <<user, session, login, running, loggedOut, salt, now>>

Tick ==
  /\ now < MaxTime
  /\ now' = now + 1
  /\ UNCHANGED <<accounts, sessions, login, running>>

LoginStep(l) == StartWork(l) \/ FinishWork(l) \/ CommitLogin(l)
RequestStep(r) == Touch(r) \/ ValidateCsrf(r) \/ ReadToRevoke(r) \/ Revoke(r) \/ EndRequest(r)

Next ==
  \/ \E p \in Users, w \in Passwords : BootstrapUser(p, w) \/ ResetPassword(p, w)
  \/ \E p \in Users : Deactivate(p)
  \/ \E l \in Logins, p \in Users, w \in Passwords : ObserveUser(l, p, w)
  \/ \E l \in Logins : LoginStep(l) \/ CancelLogin(l)
  \/ \E r \in Requests, s \in Logins, logout \in BOOLEAN : ReadSession(r, s, logout)
  \/ \E r \in Requests : RequestStep(r)
  \/ Tick

\* Every job on a thread ends, the executor's queue is first in, first out, and a
\* login whose password is verified reaches its second transaction.
Spec == Init /\ [][Next]_vars /\ \A l \in Logins : WF_vars(LoginStep(l))

--------------------------------------------------------------------------
\* A session is created only with the password its user has at that moment, and
\* only for an active user, although the password was verified against a row
\* read before the Argon2 work.
IssuedOnCurrentPassword ==
  [][\A l \in Logins :
       session[l] = None /\ session'[l] # None =>
         /\ user[login[l].user].hash.password = login[l].password
         /\ user[login[l].user].active]_vars

\* A login may replace a hash, never a password: the rehash of a slow login does
\* not undo a reset that took place meanwhile, nor a rehash that was faster.
RehashKeepsThePassword ==
  [][\A l \in Logins : session[l] = None /\ session'[l] # None =>
       \A p \in Users : user'[p] # user[p] =>
         /\ user'[p].hash.password = user[p].hash.password
         /\ user[p].hash.outdated /\ ~user'[p].hash.outdated]_vars

\* After a logout was answered its session admits no request that comes later,
\* whatever updates of the row were under way when it was revoked.
LogoutIsFinal ==
  \A r \in Requests : request[r].late => request[r].at \notin {"read", "authenticated", "admitted"}

\* A login comes to its end however many others are at work, queued or given up:
\* a thread whose client has gone is free again when its job is done.
LoginsEnd ==
  \A l \in Logins : login[l].at \notin {"idle", "issued", "refused", "cancelled"}
                     ~> login[l].at \in {"issued", "refused", "cancelled"}
==========================================================================
