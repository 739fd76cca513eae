---------------------------- MODULE AuthSessions ----------------------------
(***************************************************************************)
(* src/auth.ts: the administrator, the sessions and the failed attempts in *)
(* D1, and the requests that act on them.  Each D1 call is a step; between *)
(* two of them other requests run, and a request may die.  A password is   *)
(* hashed with a fresh salt, so that a hash identifies the row it was read *)
(* from; it is current if its scheme and iterations are those of today.    *)
(***************************************************************************)
EXTENDS Naturals, FiniteSets

CONSTANTS
  Requests,    \* requests being served at the same time
  Passwords,
  Ips,         \* addresses requests come from
  Email,       \* the subject of attempts by address of the administrator
  Limit,       \* LOGIN_IP_LIMIT and LOGIN_EMAIL_LIMIT, for each subject
  Cap,         \* MAX_ACTIVE_SESSIONS
  NoAdmin,
  MaxSessions, \* bound: sessions created
  MaxSalt,     \* bound: hashes made
  MaxClock,    \* bound: time stamps
  MaxCalls     \* bound: requests made

Subjects == Ips \union {Email}
SessionIds == 1..MaxSessions

ASSUME AuthAssumption ==
  /\ IsFiniteSet(Requests) /\ Email \notin Ips
  /\ Limit \in [Subjects -> Nat \ {0}]
  /\ Cap \in Nat /\ MaxSessions \in Nat /\ MaxSalt \in Nat /\ MaxClock \in Nat /\ MaxCalls \in Nat
  /\ \A p \in Passwords, n \in 0..MaxSalt, c \in BOOLEAN :
       NoAdmin # [password |-> p, salt |-> n, current |-> c]

VARIABLES
  admin,      \* the row of admins: its hash, or NoAdmin
  sessions,   \* admin_sessions, by the order of their insertion
  failures,   \* auth_attempts: failures of each subject within the window
  req,        \* what each request does next, and its locals
  salts,      \* hashes made so far
  clock,
  calls,      \* requests made so far
  chosen,     \* the password that was last set (history)
  untrimmed   \* logins that died before they trimmed the sessions (history)

vars == <<admin, sessions, failures, req, salts, clock, calls, chosen, untrimmed>>

Hashes == [password : Passwords, salt : 0..MaxSalt, current : BOOLEAN]
NoSession == [status |-> "none", created |-> 0, password |-> NoAdmin, raced |-> FALSE,
              expired |-> FALSE]
Idle == [at |-> "idle", password |-> NoAdmin, new |-> NoAdmin, ip |-> NoAdmin, row |-> NoAdmin,
         session |-> 0, created |-> 0, raced |-> FALSE, left |-> {}]

Live == {i \in SessionIds : sessions[i].status = "live"}
Used == {i \in SessionIds : sessions[i].status # "none"}

Init ==
  /\ \/ admin = NoAdmin
     \/ \E p \in Passwords, c \in BOOLEAN : admin = [password |-> p, salt |-> 0, current |-> c]
  /\ chosen = IF admin = NoAdmin THEN NoAdmin ELSE admin.password
  /\ sessions = [i \in SessionIds |-> NoSession]
  /\ failures = [s \in Subjects |-> 0]
  /\ req = [r \in Requests |-> Idle]
  /\ salts = 0 /\ clock = 0 /\ calls = 0 /\ untrimmed = 0

At(r, step) == req[r].at = step
Goto(r, step) == req' = [req EXCEPT ![r].at = step]
Leave(r) == req' = [req EXCEPT ![r] = Idle]
Call(r, local) ==
  /\ At(r, "idle")
  /\ calls < MaxCalls /\ calls' = calls + 1
  /\ req' = [req EXCEPT ![r] = local]

\* A fresh salt, within the bound.
Hash(p, h) ==
  /\ salts < MaxSalt /\ salts' = salts + 1
  /\ h = [password |-> p, salt |-> salts + 1, current |-> TRUE]

Revoke(i) == [sessions EXCEPT ![i].status = IF @ = "live" THEN "revoked" ELSE @]
RevokeThese(S) ==
  [i \in SessionIds |-> IF i \in S THEN [sessions[i] EXCEPT !.status = "revoked"] ELSE sessions[i]]

\* bootstrap: nobody is there yet; the row is unique.
StartBootstrap(r, p) ==
  /\ admin = NoAdmin
  /\ Call(r, [Idle EXCEPT !.at = "insert_admin", !.password = p])
  /\ UNCHANGED <<admin, sessions, failures, salts, clock, chosen, untrimmed>>

InsertAdmin(r) ==
  /\ At(r, "insert_admin")
  /\ \/ /\ admin = NoAdmin
        /\ Hash(req[r].password, admin')
        /\ chosen' = req[r].password
        /\ req' = [req EXCEPT ![r].at = "stamp", ![r].row = admin']
     \/ admin # NoAdmin /\ Leave(r) /\ UNCHANGED <<admin, chosen, salts>>
  /\ UNCHANGED <<sessions, failures, clock, calls, untrimmed>>

StartLogin(r, p, ip) ==
  /\ admin # NoAdmin
  /\ Call(r, [Idle EXCEPT !.at = "limit", !.password = p, !.ip = ip, !.left = {ip, Email}])
  /\ UNCHANGED <<admin, sessions, failures, salts, clock, chosen, untrimmed>>

\* Of the two calls a login issues together, one per subject, that of s answers; the login
\* goes on to the next step with the last answer.
Answered(r, s) == [req[r] EXCEPT !.left = @ \ {s}]

\* Variant: a count does not stop anybody.
CountFailuresOnly(r, s) ==
  /\ At(r, "limit") /\ s \in req[r].left
  /\ req' = [req EXCEPT ![r] = IF req[r].left = {s} THEN [Answered(r, s) EXCEPT !.at = "read_admin"]
                                                   ELSE Answered(r, s)]
  /\ UNCHANGED <<admin, sessions, failures, salts, clock, calls, chosen, untrimmed>>

\* enforceLoginRateLimit counts the failures of the address and those of the administrator.
EnforceLoginRateLimit(r, s) ==
  /\ At(r, "limit") /\ s \in req[r].left
  /\ req' = [req EXCEPT ![r] = IF failures[s] >= Limit[s] THEN Idle
                               ELSE IF req[r].left = {s} THEN [Answered(r, s) EXCEPT !.at = "read_admin"]
                               ELSE Answered(r, s)]
  /\ UNCHANGED <<admin, sessions, failures, salts, clock, calls, chosen, untrimmed>>

\* The row is read here; the password is then verified against what was read.
ReadAdmin(r) ==
  /\ At(r, "read_admin")
  /\ LET read == [req[r] EXCEPT !.row = admin, !.raced = FALSE]
     IN  req' = [req EXCEPT ![r] = IF req[r].password = admin.password
                                   THEN [read EXCEPT !.at = "upgrade"]
                                   ELSE [read EXCEPT !.at = "record", !.left = {req[r].ip, Email}]]
  /\ UNCHANGED <<admin, sessions, failures, salts, clock, calls, chosen, untrimmed>>

\* A failure is recorded for the address and for the administrator; an insert that throws
\* does not stop the other.
RecordFailure(r, s) ==
  /\ At(r, "record") /\ s \in req[r].left
  /\ failures' = [failures EXCEPT ![s] = @ + 1] \/ UNCHANGED failures
  /\ req' = [req EXCEPT ![r] = IF req[r].left = {s} THEN Idle ELSE Answered(r, s)]
  /\ UNCHANGED <<admin, sessions, salts, clock, calls, chosen, untrimmed>>

\* Variant: the UPDATE is for the administrator, whatever the hash is now.
UpgradePasswordHashBlindly(r) ==
  /\ At(r, "upgrade")
  /\ \/ req[r].row.current /\ UNCHANGED <<admin, salts>>
     \/ ~req[r].row.current /\ Hash(req[r].row.password, admin')
  /\ Goto(r, "stamp")
  /\ UNCHANGED <<sessions, failures, clock, calls, chosen, untrimmed>>

\* Only if the hash is the one that was read.
UpgradePasswordHash(r) ==
  /\ At(r, "upgrade")
  /\ \/ req[r].row.current /\ UNCHANGED <<admin, salts>>
     \/ ~req[r].row.current /\ admin = req[r].row /\ Hash(req[r].row.password, admin')
     \/ ~req[r].row.current /\ admin # req[r].row /\ UNCHANGED <<admin, salts>>
  /\ Goto(r, "stamp")
  /\ UNCHANGED <<sessions, failures, clock, calls, chosen, untrimmed>>

\* createSession: created_at is taken, then hashes are awaited, then the row is inserted.
Stamp(r) ==
  /\ At(r, "stamp")
  /\ req' = [req EXCEPT ![r].at = "insert", ![r].created = clock]
  /\ UNCHANGED <<admin, sessions, failures, salts, clock, calls, chosen, untrimmed>>

InsertSession(r) ==
  /\ At(r, "insert")
  /\ \E i \in SessionIds :
       /\ i \notin Used /\ \A j \in 1..(i - 1) : j \in Used
       /\ sessions' = [sessions EXCEPT ![i] =
                         [status |-> "live", created |-> req[r].created,
                          password |-> req[r].row.password, raced |-> req[r].raced,
                          expired |-> FALSE]]
  /\ Goto(r, "trim")
  /\ UNCHANGED <<admin, failures, salts, clock, calls, chosen, untrimmed>>

\* Variant: the newest sessions are revoked, if they are more than the cap.
TrimSessionsFew(r) ==
  /\ At(r, "trim")
  /\ \E K \in SUBSET Live :
       /\ Cardinality(K) = Cap + 1 \/ (K = Live /\ Cardinality(Live) <= Cap + 1)
       /\ sessions' = RevokeThese(Live \ K)
  /\ Leave(r)
  /\ untrimmed' = 0
  /\ UNCHANGED <<admin, failures, salts, clock, calls, chosen>>

\* Cap of the newest stay; which ones among equal time stamps is not said.
TrimSessions(r) ==
  /\ At(r, "trim")
  /\ \E K \in SUBSET Live :
       /\ Cardinality(K) = Cap \/ (K = Live /\ Cardinality(Live) <= Cap)
       /\ \A k \in K, j \in Live \ K : sessions[k].created >= sessions[j].created
       /\ sessions' = RevokeThese(Live \ K)
  /\ Leave(r)
  /\ untrimmed' = 0
  /\ UNCHANGED <<admin, failures, salts, clock, calls, chosen>>

\* getSession, for a request that comes with a cookie: a session that is over, or presented
\* by another user agent, is revoked; with a live one the request goes on.
StartAuthorized(r, i, step) ==
  /\ sessions[i].status = "live"
  /\ \/ ~sessions[i].expired /\ Call(r, [step EXCEPT !.session = i])
     \/ Call(r, [Idle EXCEPT !.at = "revoke", !.session = i])
  /\ UNCHANGED <<admin, sessions, failures, salts, clock, chosen, untrimmed>>

\* revokeSession, by getSession or by logout.
RevokeSession(r) ==
  /\ At(r, "revoke")
  /\ sessions' = Revoke(req[r].session)
  /\ Leave(r)
  /\ UNCHANGED <<admin, failures, salts, clock, calls, chosen, untrimmed>>

LogoutAll(r) ==
  /\ At(r, "logout_all")
  /\ sessions' = RevokeThese(Live)
  /\ Leave(r)
  /\ UNCHANGED <<admin, failures, salts, clock, calls, chosen, untrimmed>>

\* changePassword reads the row and verifies the current password, ...
ReadForChange(r) ==
  /\ At(r, "read_for_change")
  /\ req' = [req EXCEPT ![r] = IF req[r].password = admin.password
                               THEN [@ EXCEPT !.at = "commit", !.row = admin] ELSE Idle]
  /\ UNCHANGED <<admin, sessions, failures, salts, clock, calls, chosen, untrimmed>>

\* Requests whose password was verified and whose session is not there yet.
Entering(r) == req[r].at \in {"upgrade", "stamp", "insert"}

\* Variant: only the session of the request is revoked.
CommitChangeKeeping(r) ==
  /\ At(r, "commit")
  /\ Hash(req[r].new, admin')
  /\ chosen' = req[r].new
  /\ sessions' = Revoke(req[r].session)
  /\ req' = [q \in Requests |-> IF q = r THEN Idle
                                ELSE IF Entering(q) THEN [req[q] EXCEPT !.raced = TRUE] ELSE req[q]]
  /\ UNCHANGED <<failures, clock, calls, untrimmed>>

\* ... and replaces the hash and revokes all sessions in one batch.
CommitChange(r) ==
  /\ At(r, "commit")
  /\ Hash(req[r].new, admin')
  /\ chosen' = req[r].new
  /\ sessions' = RevokeThese(Live)
  /\ req' = [q \in Requests |-> IF q = r THEN Idle
                                ELSE IF Entering(q) THEN [req[q] EXCEPT !.raced = TRUE] ELSE req[q]]
  /\ UNCHANGED <<failures, clock, calls, untrimmed>>

\* A D1 call throws, or the invocation is cut short.
Die(r) ==
  /\ ~At(r, "idle")
  /\ untrimmed' = IF At(r, "trim") THEN untrimmed + 1 ELSE untrimmed
  /\ Leave(r)
  /\ UNCHANGED <<admin, sessions, failures, salts, clock, calls, chosen>>

\* Time passes: stamps, the window of attempts, the life of a session.
Tick ==
  /\ clock < MaxClock /\ clock' = clock + 1
  /\ UNCHANGED <<admin, sessions, failures, req, salts, calls, chosen, untrimmed>>

Forget(s) ==
  /\ failures[s] > 0
  /\ failures' = [failures EXCEPT ![s] = 0]
  /\ UNCHANGED <<admin, sessions, req, salts, clock, calls, chosen, untrimmed>>

Expire(i) ==
  /\ sessions[i].status = "live" /\ ~sessions[i].expired
  /\ sessions' = [sessions EXCEPT ![i].expired = TRUE]
  /\ UNCHANGED <<admin, failures, req, salts, clock, calls, chosen, untrimmed>>

\* cleanupAuth, by the cron: expired sessions, and those revoked long ago.
CleanupAuth ==
  /\ \E S \in SUBSET {i \in SessionIds : sessions[i].status = "revoked"} :
       LET gone == S \union {i \in Live : sessions[i].expired}
       IN  /\ gone # {}
           /\ sessions' = [i \in SessionIds |->
                             IF i \in gone THEN [sessions[i] EXCEPT !.status = "deleted"] ELSE sessions[i]]
  /\ UNCHANGED <<admin, failures, req, salts, clock, calls, chosen, untrimmed>>

Serve(r) ==
  \/ \E p \in Passwords : StartBootstrap(r, p) \/ \E ip \in Ips : StartLogin(r, p, ip)
  \/ \E i \in SessionIds :
       \/ StartAuthorized(r, i, [Idle EXCEPT !.at = "revoke"])
       \/ StartAuthorized(r, i, [Idle EXCEPT !.at = "logout_all"])
       \/ \E p, n \in Passwords :
            p # n /\ StartAuthorized(r, i, [Idle EXCEPT !.at = "read_for_change", !.password = p,
                                                        !.new = n])
  \/ \E s \in Subjects : EnforceLoginRateLimit(r, s) \/ RecordFailure(r, s)
  \/ InsertAdmin(r) \/ ReadAdmin(r)
  \/ UpgradePasswordHash(r) \/ Stamp(r) \/ InsertSession(r) \/ TrimSessions(r)
  \/ RevokeSession(r) \/ LogoutAll(r) \/ ReadForChange(r) \/ CommitChange(r) \/ Die(r)

Next ==
  \/ \E r \in Requests : Serve(r)
  \/ Tick \/ CleanupAuth
  \/ \E s \in Subjects : Forget(s)
  \/ \E i \in SessionIds : Expire(i)

Spec == Init /\ [][Next]_vars
-----------------------------------------------------------------------------
Steps == {"idle", "insert_admin", "limit", "read_admin", "record", "upgrade", "stamp", "insert",
          "trim", "revoke", "logout_all", "read_for_change", "commit"}

Secrets == Passwords \union {NoAdmin}
SessionRows == [status : {"none", "live", "revoked", "deleted"}, created : Nat, password : Secrets,
                raced : BOOLEAN, expired : BOOLEAN]
Locals == [at : Steps, password : Secrets, new : Secrets, ip : Ips \union {NoAdmin},
           row : Hashes \union {NoAdmin}, session : Nat, created : Nat, raced : BOOLEAN,
           left : SUBSET Subjects]

\* The type of every variable.
TypeOK ==
  /\ admin \in Hashes \union {NoAdmin}
  /\ chosen \in Secrets
  /\ sessions \in [SessionIds -> SessionRows]
  /\ failures \in [Subjects -> Nat]
  /\ req \in [Requests -> Locals]
  /\ salts \in Nat /\ clock \in Nat /\ calls \in Nat /\ untrimmed \in Nat

\* The stored hash is of the password that was last set by bootstrap or changePassword: the
\* rehash of a login that read the row before a change never brings the old password back.
PasswordIsTheChosenOne == admin # NoAdmin => admin.password = chosen

\* A session is live with an earlier password only if its login had verified that password
\* already when the password was changed.
StaleSessionsRaced == \A i \in Live : sessions[i].password # chosen => sessions[i].raced

\* Logins that have a session and have not trimmed the others yet; attempts on a subject that
\* have passed the check and are not recorded yet.
Trimming == {r \in Requests : At(r, "trim")}
Attempts(r, s) ==
  \/ At(r, "limit") /\ s \in {req[r].ip, Email} \ req[r].left
  \/ At(r, "read_admin") /\ s \in {req[r].ip, Email}
  \/ At(r, "record") /\ s \in req[r].left
Attempting(s) == {r \in Requests : Attempts(r, s)}

\* There are no more live sessions than the cap and the logins that did not trim (yet).
SessionsCapped == Cardinality(Live) <= Cap + Cardinality(Trimming) + untrimmed

\* A subject exceeds its limit of failures within the window by the requests served at the
\* same time at most, those included that are between the check and the record.
FailuresBounded ==
  \A s \in Subjects :
    failures[s] + Cardinality(Attempting(s)) <= Limit[s] - 1 + Cardinality(Requests)

\* Both limits of the login hold, up to the requests that pass their checks together: the live
\* sessions, and the failures of an address or of the administrator.
LimitsHold == SessionsCapped /\ FailuresBounded
=============================================================================
