----------------------- MODULE AdministrationProofs -----------------------
(***************************************************************************)
(* Proofs about the administration: its sessions and password (module      *)
(* AuthSessions), for any number of requests served at once, of passwords  *)
(* and sessions, and for any limits; and its console (module Console), for *)
(* any conversations, folders and texts, any size of a page and any number *)
(* of clicks, faults, keys and messages.                                   *)
(***************************************************************************)
EXTENDS AuthSessions, Console, FiniteSetTheorems, SequenceTheorems, TLAPS

-----------------------------------------------------------------------------
(* PART ONE: sessions and the password                                     *)

\* The constants are numbers, and no hash is taken for a missing row.
LEMMA Constants ==
  /\ Limit \in [Subjects -> Nat \ {0}] /\ Cap \in Nat
  /\ MaxSessions \in Nat /\ MaxSalt \in Nat /\ MaxClock \in Nat /\ MaxCalls \in Nat
  /\ SessionIds \in SUBSET Nat
  /\ NoAdmin \notin Hashes
BY AuthAssumption DEF Hashes, SessionIds

\* The locals of a request after a step of it.
LEMMA LocalTypes ==
  ASSUME TypeOK, NEW r \in Requests
  PROVE  /\ Idle \in Locals
         /\ Leave(r) => req' \in [Requests -> Locals]
         /\ \A step \in Steps : Goto(r, step) => req' \in [Requests -> Locals]
         /\ \A l \in Locals : Call(r, l) => req' \in [Requests -> Locals] /\ calls' \in Nat
<1>1. Idle \in Locals
  BY DEF Idle, Locals, Steps, Secrets
<1>2. \A step \in Steps : [req[r] EXCEPT !.at = step] \in Locals
  BY DEF TypeOK, Locals
<1>3. ASSUME NEW step \in Steps, Goto(r, step)
      PROVE  req' \in [Requests -> Locals]
  <2>1. req' = [req EXCEPT ![r] = [req[r] EXCEPT !.at = step]]
    BY <1>3 DEF Goto
  <2>. QED
    BY <1>2, <2>1 DEF TypeOK
<1>4. ASSUME NEW l \in Locals, Call(r, l)
      PROVE  req' \in [Requests -> Locals] /\ calls' \in Nat
  BY <1>4 DEF Call, TypeOK
<1>5. Leave(r) => req' \in [Requests -> Locals]
  BY <1>1 DEF Leave, TypeOK
<1>. QED
  BY <1>1, <1>3, <1>4, <1>5

\* What Hash yields.
LEMMA HashType ==
  ASSUME TypeOK, NEW p \in Passwords, NEW h, Hash(p, h)
  PROVE  h \in Hashes /\ h.password = p /\ h # NoAdmin /\ salts' \in Nat
<1>1. salts + 1 \in 0..MaxSalt
  BY Constants DEF Hash, TypeOK
<1>2. h \in Hashes /\ h.password = p
  BY <1>1 DEF Hash, Hashes
<1>3. h # NoAdmin
  BY <1>2, Constants
<1>4. salts' \in Nat
  BY DEF Hash, TypeOK
<1>. QED
  BY <1>2, <1>3, <1>4

\* Revocations keep the rows of sessions.
LEMMA RevokeTypes ==
  ASSUME TypeOK
  PROVE  /\ \A i : Revoke(i) \in [SessionIds -> SessionRows]
         /\ \A S : RevokeThese(S) \in [SessionIds -> SessionRows]
BY DEF TypeOK, Revoke, RevokeThese, SessionRows

\* A request has the password and the address it came with while it needs them.
HasPassword ==
  \A r \in Requests :
    /\ req[r].at \in {"insert_admin", "limit", "read_admin"} => req[r].password \in Passwords
    /\ req[r].at \in {"limit", "read_admin"} => req[r].ip \in Ips
    /\ req[r].at \in {"read_for_change", "commit"} => req[r].new \in Passwords

\* Requests that have verified a password have read a row; without an administrator there is
\* neither a live session nor a request past bootstrap.
Present ==
  /\ \A r \in Requests : Entering(r) => req[r].row \in Hashes
  /\ admin = NoAdmin => Live = {} /\ \A r \in Requests : req[r].at \in {"idle", "insert_admin"}

\* A login that is about to get a session has verified the password of today, or was overtaken
\* by its change.
LoginsRaced == \A r \in Requests : Entering(r) => req[r].raced \/ req[r].row.password = chosen

\* The inductive invariant.
AuthInv ==
  HasPassword /\ Present /\ PasswordIsTheChosenOne /\ LoginsRaced /\ StaleSessionsRaced

-----------------------------------------------------------------------------
(* Types *)

LEMMA TypeStep ==
  ASSUME TypeOK, HasPassword, Present, [Next]_vars
  PROVE  TypeOK'
<1>1. ASSUME NEW r \in Requests, NEW p \in Passwords, StartBootstrap(r, p)
      PROVE  TypeOK'
  <2>1. [Idle EXCEPT !.at = "insert_admin", !.password = p] \in Locals
    BY DEF Idle, Locals, Steps, Secrets
  <2>. QED
    BY <1>1, <2>1, LocalTypes DEF StartBootstrap, TypeOK
<1>2. ASSUME NEW r \in Requests, NEW p \in Passwords, NEW ip \in Ips, StartLogin(r, p, ip)
      PROVE  TypeOK'
  <2>1. [Idle EXCEPT !.at = "limit", !.password = p, !.ip = ip, !.left = {ip, Email}] \in Locals
    BY DEF Idle, Locals, Steps, Secrets, Subjects
  <2>. QED
    BY <1>2, <2>1, LocalTypes DEF StartLogin, TypeOK
<1>3. ASSUME NEW r \in Requests, NEW i \in SessionIds, NEW l \in Locals, StartAuthorized(r, i, l)
      PROVE  TypeOK'
  <2>1. /\ [l EXCEPT !.session = i] \in Locals
        /\ [Idle EXCEPT !.at = "revoke", !.session = i] \in Locals
    BY Constants DEF Idle, Locals, Steps, Secrets
  <2>. QED
    BY <1>3, <2>1, LocalTypes DEF StartAuthorized, TypeOK
<1>4. ASSUME NEW r \in Requests, InsertAdmin(r)
      PROVE  TypeOK'
  <2>1. req[r].password \in Passwords
    BY <1>4 DEF InsertAdmin, At, HasPassword
  <2>2. CASE admin # NoAdmin
    BY <1>4, <2>2, LocalTypes DEF InsertAdmin, TypeOK
  <2>3. CASE admin = NoAdmin
    <3>1. admin' \in Hashes /\ salts' \in Nat
      BY <1>4, <2>1, <2>3, HashType DEF InsertAdmin
    <3>2. req' \in [Requests -> Locals]
      BY <1>4, <2>3, <3>1 DEF InsertAdmin, TypeOK, Locals, Steps
    <3>. QED
      BY <1>4, <2>1, <2>3, <3>1, <3>2 DEF InsertAdmin, TypeOK, Secrets
  <2>. QED
    BY <2>2, <2>3
<1>5. ASSUME NEW r \in Requests, NEW s \in Subjects, EnforceLoginRateLimit(r, s)
      PROVE  TypeOK'
  <2>1. /\ Answered(r, s) \in Locals /\ [Answered(r, s) EXCEPT !.at = "read_admin"] \in Locals
        /\ Idle \in Locals
    BY LocalTypes DEF Answered, TypeOK, Locals, Steps
  <2>. QED
    BY <1>5, <2>1 DEF EnforceLoginRateLimit, TypeOK
<1>6. ASSUME NEW r \in Requests, ReadAdmin(r)
      PROVE  TypeOK'
  <2>. DEFINE read == [req[r] EXCEPT !.row = admin, !.raced = FALSE]
  <2>1. req[r].ip \in Ips
    BY <1>6 DEF ReadAdmin, At, HasPassword
  <2>2. /\ [read EXCEPT !.at = "upgrade"] \in Locals
        /\ [read EXCEPT !.at = "record", !.left = {req[r].ip, Email}] \in Locals
    BY <2>1 DEF TypeOK, Locals, Steps, Subjects
  <2>. QED
    BY <1>6, <2>2 DEF ReadAdmin, TypeOK
<1>7. ASSUME NEW r \in Requests, NEW s \in Subjects, RecordFailure(r, s)
      PROVE  TypeOK'
  <2>1. Answered(r, s) \in Locals /\ Idle \in Locals
    BY LocalTypes DEF Answered, TypeOK, Locals
  <2>2. req' \in [Requests -> Locals]
    BY <1>7, <2>1 DEF RecordFailure, TypeOK
  <2>3. failures' \in [Subjects -> Nat]
    BY <1>7 DEF RecordFailure, TypeOK
  <2>. QED
    BY <1>7, <2>2, <2>3 DEF RecordFailure, TypeOK
<1>8. ASSUME NEW r \in Requests, UpgradePasswordHash(r)
      PROVE  TypeOK'
  <2>1. req[r].row.password \in Passwords
    BY <1>8 DEF UpgradePasswordHash, At, Entering, Present, Hashes
  <2>2. CASE Hash(req[r].row.password, admin')
    BY <1>8, <2>1, <2>2, HashType, LocalTypes DEF UpgradePasswordHash, TypeOK, Steps
  <2>3. CASE UNCHANGED <<admin, salts>>
    BY <1>8, <2>3, LocalTypes DEF UpgradePasswordHash, TypeOK, Steps
  <2>. QED
    BY <1>8, <2>2, <2>3 DEF UpgradePasswordHash
<1>9. ASSUME NEW r \in Requests, Stamp(r)
      PROVE  TypeOK'
  <2>1. [req[r] EXCEPT !.at = "insert", !.created = clock] \in Locals
    BY DEF TypeOK, Locals, Steps
  <2>2. req' = [req EXCEPT ![r] = [req[r] EXCEPT !.at = "insert", !.created = clock]]
    BY <1>9 DEF Stamp
  <2>. QED
    BY <1>9, <2>1, <2>2 DEF Stamp, TypeOK
<1>10. ASSUME NEW r \in Requests, InsertSession(r)
       PROVE  TypeOK'
  <2>1. /\ req[r].row.password \in Passwords
        /\ req[r].created \in Nat /\ req[r].raced \in BOOLEAN
    BY <1>10 DEF InsertSession, At, Entering, Present, Hashes, TypeOK, Locals
  <2>2. [status |-> "live", created |-> req[r].created, password |-> req[r].row.password,
         raced |-> req[r].raced, expired |-> FALSE] \in SessionRows
    BY <2>1 DEF SessionRows, Secrets
  <2>3. sessions' \in [SessionIds -> SessionRows]
    BY <1>10, <2>2 DEF InsertSession, TypeOK
  <2>. QED
    BY <1>10, <2>3, LocalTypes DEF InsertSession, TypeOK, Steps
<1>11. ASSUME NEW r \in Requests, TrimSessions(r)
       PROVE  TypeOK'
  BY <1>11, LocalTypes, RevokeTypes DEF TrimSessions, TypeOK
<1>12. ASSUME NEW r \in Requests, RevokeSession(r) \/ LogoutAll(r)
       PROVE  TypeOK'
  BY <1>12, LocalTypes, RevokeTypes DEF RevokeSession, LogoutAll, TypeOK
<1>13. ASSUME NEW r \in Requests, ReadForChange(r)
       PROVE  TypeOK'
  <2>1. [req[r] EXCEPT !.at = "commit", !.row = admin] \in Locals
    BY DEF TypeOK, Locals, Steps
  <2>. QED
    BY <1>13, <2>1, LocalTypes DEF ReadForChange, TypeOK
<1>14. ASSUME NEW r \in Requests, CommitChange(r)
       PROVE  TypeOK'
  <2>1. req[r].new \in Passwords
    BY <1>14 DEF CommitChange, At, HasPassword
  <2>2. \A q \in Requests : [req[q] EXCEPT !.raced = TRUE] \in Locals
    BY DEF TypeOK, Locals
  <2>3. req' \in [Requests -> Locals]
    BY <1>14, <2>2, LocalTypes DEF CommitChange, TypeOK
  <2>. QED
    BY <1>14, <2>1, <2>3, HashType, RevokeTypes DEF CommitChange, TypeOK, Secrets
<1>15. ASSUME NEW r \in Requests, Die(r)
       PROVE  TypeOK'
  BY <1>15, LocalTypes DEF Die, TypeOK
<1>16. CASE Tick
  BY <1>16 DEF Tick, TypeOK
<1>17. ASSUME NEW s \in Subjects, Forget(s)
       PROVE  TypeOK'
  BY <1>17 DEF Forget, TypeOK
<1>18. ASSUME NEW i \in SessionIds, Expire(i)
       PROVE  TypeOK'
  BY <1>18 DEF Expire, TypeOK, SessionRows
<1>19. CASE CleanupAuth
  BY <1>19 DEF CleanupAuth, TypeOK, SessionRows
<1>20. CASE UNCHANGED vars
  BY <1>20 DEF vars, TypeOK
<1>21. /\ [Idle EXCEPT !.at = "revoke"] \in Locals
       /\ [Idle EXCEPT !.at = "logout_all"] \in Locals
       /\ \A p, n \in Passwords :
            [Idle EXCEPT !.at = "read_for_change", !.password = p, !.new = n] \in Locals
  BY DEF Idle, Locals, Steps, Secrets
<1>. QED
  BY <1>1, <1>2, <1>3, <1>4, <1>5, <1>6, <1>7, <1>8, <1>9, <1>10, <1>11, <1>12, <1>13, <1>14,
     <1>15, <1>16, <1>17, <1>18, <1>19, <1>20, <1>21 DEF Next, Serve

-----------------------------------------------------------------------------
(* Passwords *)

\* A step of one request that leaves the administrator, the sessions and the password alone, and
\* after which the request is where a request may be that has no verified password in hand.
LEMMA QuietStep ==
  ASSUME TypeOK, AuthInv, NEW r \in Requests,
         UNCHANGED <<admin, chosen, sessions>>,
         NEW l \in Locals, req' = [req EXCEPT ![r] = l],
         l.at \notin {"upgrade", "stamp", "insert"},
         l.at \in {"insert_admin", "limit", "read_admin"} => l.password \in Passwords,
         l.at \in {"limit", "read_admin"} => l.ip \in Ips,
         l.at \in {"read_for_change", "commit"} => l.new \in Passwords,
         admin = NoAdmin => l.at \in {"idle", "insert_admin"}
  PROVE  AuthInv'
<1>1. \A q \in Requests : req'[q] = IF q = r THEN l ELSE req[q]
  BY DEF TypeOK
<1>2. HasPassword'
  BY <1>1 DEF AuthInv, HasPassword
<1>3. Present'
  BY <1>1 DEF AuthInv, Present, Entering, Live
<1>4. PasswordIsTheChosenOne' /\ StaleSessionsRaced'
  BY DEF AuthInv, PasswordIsTheChosenOne, StaleSessionsRaced, Live
<1>5. LoginsRaced'
  BY <1>1 DEF AuthInv, LoginsRaced, Entering
<1>. QED
  BY <1>2, <1>3, <1>4, <1>5 DEF AuthInv

\* A step of one request that moves on with a verified password.
LEMMA EnteringStep ==
  ASSUME TypeOK, AuthInv, NEW r \in Requests, NEW step \in {"stamp", "insert", "trim"},
         Entering(r), UNCHANGED <<admin, chosen, sessions>>,
         \A q \in Requests : q # r => req'[q] = req[q],
         req'[r].row = req[r].row, req'[r].raced = req[r].raced, req'[r].at = step
  PROVE  AuthInv'
<1>1. admin # NoAdmin
  BY DEF AuthInv, Present, Entering
<1>2. HasPassword'
  BY DEF AuthInv, HasPassword
<1>3. Present'
  BY <1>1 DEF AuthInv, Present, Entering, Live
<1>4. PasswordIsTheChosenOne' /\ StaleSessionsRaced'
  BY DEF AuthInv, PasswordIsTheChosenOne, StaleSessionsRaced, Live
<1>5. LoginsRaced'
  BY DEF AuthInv, LoginsRaced, Entering
<1>. QED
  BY <1>2, <1>3, <1>4, <1>5 DEF AuthInv

\* A step that only takes sessions away.
LEMMA RevokingStep ==
  ASSUME TypeOK, AuthInv, UNCHANGED <<admin, chosen>>, Live' \subseteq Live,
         \A i \in Live' : /\ sessions'[i].password = sessions[i].password
                         /\ sessions'[i].raced = sessions[i].raced,
         \A q \in Requests : req'[q] = req[q] \/ req'[q] = Idle
  PROVE  AuthInv'
<1>1. HasPassword'
  BY DEF AuthInv, HasPassword, Idle
<1>2. Present'
  BY DEF AuthInv, Present, Entering, Idle
<1>3. PasswordIsTheChosenOne' /\ StaleSessionsRaced'
  BY DEF AuthInv, PasswordIsTheChosenOne, StaleSessionsRaced
<1>4. LoginsRaced'
  BY DEF AuthInv, LoginsRaced, Entering, Idle
<1>. QED
  BY <1>1, <1>2, <1>3, <1>4 DEF AuthInv

\* Revocations only take sessions away.
LEMMA RevokingTakesAway ==
  ASSUME TypeOK,
         \/ UNCHANGED sessions
         \/ \E i : sessions' = Revoke(i)
         \/ \E S : sessions' = RevokeThese(S)
  PROVE  /\ Live' \subseteq Live
         /\ \A i \in Live' : /\ sessions'[i].password = sessions[i].password
                            /\ sessions'[i].raced = sessions[i].raced
BY DEF TypeOK, Live, Revoke, RevokeThese, SessionRows

LEMMA AuthStep ==
  ASSUME TypeOK, AuthInv, [Next]_vars
  PROVE  AuthInv'
<1>0. ASSUME NEW r \in Requests
      PROVE  /\ Idle \in Locals /\ Idle.at = "idle"
             /\ At(r, "idle") \/ admin # NoAdmin \/ At(r, "insert_admin")
  BY LocalTypes DEF Idle, AuthInv, Present, At
<1>1. ASSUME NEW r \in Requests, NEW p \in Passwords, StartBootstrap(r, p)
      PROVE  AuthInv'
  <2>. DEFINE l == [Idle EXCEPT !.at = "insert_admin", !.password = p]
  <2>1. l \in Locals /\ l.at = "insert_admin" /\ l.password = p
    BY DEF Idle, Locals, Steps, Secrets
  <2>2. req' = [req EXCEPT ![r] = l] /\ UNCHANGED <<admin, chosen, sessions>>
    BY <1>1 DEF StartBootstrap, Call
  <2>. HIDE DEF l
  <2>. QED
    BY <2>1, <2>2, QuietStep
<1>2. ASSUME NEW r \in Requests, NEW p \in Passwords, NEW ip \in Ips, StartLogin(r, p, ip)
      PROVE  AuthInv'
  <2>. DEFINE l == [Idle EXCEPT !.at = "limit", !.password = p, !.ip = ip, !.left = {ip, Email}]
  <2>1. l \in Locals /\ l.at = "limit" /\ l.password = p /\ l.ip = ip
    BY DEF Idle, Locals, Steps, Secrets, Subjects
  <2>2. req' = [req EXCEPT ![r] = l] /\ UNCHANGED <<admin, chosen, sessions>> /\ admin # NoAdmin
    BY <1>2 DEF StartLogin, Call
  <2>. HIDE DEF l
  <2>. QED
    BY <2>1, <2>2, QuietStep
<1>3. ASSUME NEW r \in Requests, NEW i \in SessionIds, NEW l \in Locals, StartAuthorized(r, i, l),
             l.at \in {"revoke", "logout_all", "read_for_change"},
             l.at = "read_for_change" => l.new \in Passwords
      PROVE  AuthInv'
  <2>. DEFINE a == [l EXCEPT !.session = i]
              b == [Idle EXCEPT !.at = "revoke", !.session = i]
  <2>1. a \in Locals /\ a.at = l.at /\ a.new = l.new
    BY Constants DEF Locals
  <2>2. b \in Locals /\ b.at = "revoke"
    BY Constants DEF Idle, Locals, Steps, Secrets
  <2>3. /\ req' = [req EXCEPT ![r] = a] \/ req' = [req EXCEPT ![r] = b]
        /\ UNCHANGED <<admin, chosen, sessions>>
    BY <1>3 DEF StartAuthorized, Call
  <2>4. admin # NoAdmin
    BY <1>3 DEF StartAuthorized, AuthInv, Present, Live
  <2>. HIDE DEF a, b
  <2>. QED
    BY <1>3, <2>1, <2>2, <2>3, <2>4, QuietStep
<1>4. ASSUME NEW r \in Requests, InsertAdmin(r)
      PROVE  AuthInv'
  <2>1. req[r].password \in Passwords
    BY <1>4 DEF InsertAdmin, At, AuthInv, HasPassword
  <2>2. CASE admin # NoAdmin
    <3>1. req' = [req EXCEPT ![r] = Idle] /\ UNCHANGED <<admin, chosen, sessions>>
      BY <1>4, <2>2 DEF InsertAdmin, Leave
    <3>. QED
      BY <1>0, <2>2, <3>1, QuietStep
  <2>3. CASE admin = NoAdmin
    <3>1. admin' \in Hashes /\ admin' # NoAdmin /\ admin'.password = req[r].password
      BY <1>4, <2>1, <2>3, HashType DEF InsertAdmin
    <3>2. /\ chosen' = req[r].password /\ sessions' = sessions
          /\ \A q \in Requests : q # r => req'[q] = req[q]
          /\ req'[r].at = "stamp" /\ req'[r].row = admin'
      BY <1>4, <2>3 DEF InsertAdmin, TypeOK, Locals
    <3>3. Live' = {} /\ \A q \in Requests : q # r => ~Entering(q)'
      BY <2>3, <3>2 DEF AuthInv, Present, Live, Entering
    <3>4. HasPassword'
      BY <3>2 DEF AuthInv, HasPassword
    <3>5. Present' /\ PasswordIsTheChosenOne' /\ StaleSessionsRaced' /\ LoginsRaced'
      BY <3>1, <3>2, <3>3
         DEF Present, PasswordIsTheChosenOne, StaleSessionsRaced, LoginsRaced, Entering
    <3>. QED
      BY <3>4, <3>5 DEF AuthInv
  <2>. QED
    BY <2>2, <2>3
<1>5. ASSUME NEW r \in Requests, NEW s \in Subjects, EnforceLoginRateLimit(r, s)
      PROVE  AuthInv'
  <2>1. \/ req' = [req EXCEPT ![r] = Idle]
        \/ req' = [req EXCEPT ![r] = Answered(r, s)]
        \/ req' = [req EXCEPT ![r] = [Answered(r, s) EXCEPT !.at = "read_admin"]]
    BY <1>5 DEF EnforceLoginRateLimit
  <2>2. /\ req[r].at = "limit" /\ req[r] \in Locals
        /\ req[r].password \in Passwords /\ req[r].ip \in Ips
    BY <1>5 DEF EnforceLoginRateLimit, At, TypeOK, AuthInv, HasPassword
  <2>3. UNCHANGED <<admin, chosen, sessions>> /\ admin # NoAdmin
    BY <1>0, <1>5 DEF EnforceLoginRateLimit, At
  <2>4. ASSUME NEW l \in Locals, req' = [req EXCEPT ![r] = l], l.at \in {"limit", "read_admin"},
               l.password \in Passwords, l.ip \in Ips
        PROVE  AuthInv'
    BY <2>3, <2>4, QuietStep
  <2>5. /\ Answered(r, s) \in Locals /\ Answered(r, s).at = "limit"
        /\ Answered(r, s).password = req[r].password /\ Answered(r, s).ip = req[r].ip
    BY <2>2 DEF Answered, Locals
  <2>6. LET l == [Answered(r, s) EXCEPT !.at = "read_admin"]
        IN  /\ l \in Locals /\ l.at = "read_admin"
            /\ l.password = req[r].password /\ l.ip = req[r].ip
    BY <2>5 DEF Locals, Steps
  <2>7. CASE req' = [req EXCEPT ![r] = Idle]
    BY <1>0, <2>3, <2>7, QuietStep
  <2>8. CASE req' = [req EXCEPT ![r] = Answered(r, s)]
    BY <2>2, <2>4, <2>5, <2>8
  <2>9. CASE req' = [req EXCEPT ![r] = [Answered(r, s) EXCEPT !.at = "read_admin"]]
    BY <2>2, <2>4, <2>6, <2>9
  <2>. QED
    BY <2>1, <2>7, <2>8, <2>9
<1>6. ASSUME NEW r \in Requests, ReadAdmin(r)
      PROVE  AuthInv'
  <2>1. admin # NoAdmin /\ admin \in Hashes /\ admin.password = chosen
    BY <1>0, <1>6 DEF ReadAdmin, At, TypeOK, AuthInv, PasswordIsTheChosenOne
  <2>2. /\ UNCHANGED <<admin, chosen, sessions>>
        /\ \A q \in Requests : q # r => req'[q] = req[q]
        /\ req'[r].row = admin
        /\ req'[r].at \in {"upgrade", "record"}
    BY <1>6 DEF ReadAdmin, TypeOK, Locals
  <2>3. HasPassword'
    BY <2>2 DEF AuthInv, HasPassword
  <2>4. Present'
    BY <2>1, <2>2 DEF AuthInv, Present, Entering, Live
  <2>5. PasswordIsTheChosenOne' /\ StaleSessionsRaced'
    BY <2>2 DEF AuthInv, PasswordIsTheChosenOne, StaleSessionsRaced, Live
  <2>6. LoginsRaced'
    BY <2>1, <2>2 DEF AuthInv, LoginsRaced, Entering
  <2>. QED
    BY <2>3, <2>4, <2>5, <2>6 DEF AuthInv
<1>7. ASSUME NEW r \in Requests, Die(r) \/ \E s \in Subjects : RecordFailure(r, s)
      PROVE  AuthInv'
  <2>1. \/ req' = [req EXCEPT ![r] = Idle]
        \/ \E s \in Subjects : /\ req' = [req EXCEPT ![r] = Answered(r, s)]
                              /\ req[r].at = "record"
    BY <1>7 DEF RecordFailure, Die, Leave, At
  <2>2. UNCHANGED <<admin, chosen, sessions>>
    BY <1>7 DEF RecordFailure, Die
  <2>3. CASE req' = [req EXCEPT ![r] = Idle]
    BY <1>0, <2>2, <2>3, QuietStep
  <2>4. ASSUME NEW s \in Subjects, req' = [req EXCEPT ![r] = Answered(r, s)], req[r].at = "record"
        PROVE  AuthInv'
    <3>1. Answered(r, s) \in Locals /\ Answered(r, s).at = "record"
      BY <2>4 DEF Answered, TypeOK, Locals
    <3>2. admin # NoAdmin
      BY <2>4 DEF AuthInv, Present
    <3>. QED
      BY <2>2, <2>4, <3>1, <3>2, QuietStep
  <2>. QED
    BY <2>1, <2>3, <2>4
<1>8. ASSUME NEW r \in Requests, UpgradePasswordHash(r)
      PROVE  AuthInv'
  <2>1. /\ Entering(r) /\ UNCHANGED <<chosen, sessions>>
        /\ \A q \in Requests : q # r => req'[q] = req[q]
        /\ req'[r].row = req[r].row /\ req'[r].raced = req[r].raced /\ req'[r].at = "stamp"
    BY <1>8 DEF UpgradePasswordHash, At, Goto, Entering, TypeOK, Locals
  <2>2. CASE UNCHANGED admin
    BY <2>1, <2>2, EnteringStep
  <2>3. CASE admin = req[r].row /\ Hash(req[r].row.password, admin')
    <3>1. admin \in Hashes /\ admin # NoAdmin /\ admin.password = chosen
      BY <2>1, <2>3, Constants DEF AuthInv, Present, PasswordIsTheChosenOne
    <3>2. admin.password \in Passwords
      BY <3>1 DEF Hashes
    <3>3. admin' \in Hashes /\ admin' # NoAdmin /\ admin'.password = chosen
      BY <2>3, <3>1, <3>2, HashType
    <3>4. HasPassword'
      BY <2>1 DEF AuthInv, HasPassword
    <3>5. Present'
      BY <2>1, <3>3 DEF AuthInv, Present, Entering
    <3>6. PasswordIsTheChosenOne' /\ StaleSessionsRaced'
      BY <2>1, <3>3 DEF AuthInv, PasswordIsTheChosenOne, StaleSessionsRaced, Live
    <3>7. LoginsRaced'
      BY <2>1 DEF AuthInv, LoginsRaced, Entering
    <3>. QED
      BY <3>4, <3>5, <3>6, <3>7 DEF AuthInv
  <2>. QED
    BY <1>8, <2>2, <2>3 DEF UpgradePasswordHash
<1>9. ASSUME NEW r \in Requests, Stamp(r)
      PROVE  AuthInv'
  <2>1. /\ Entering(r) /\ UNCHANGED <<admin, chosen, sessions>>
        /\ \A q \in Requests : q # r => req'[q] = req[q]
        /\ req'[r].row = req[r].row /\ req'[r].raced = req[r].raced /\ req'[r].at = "insert"
    BY <1>9 DEF Stamp, At, Entering, TypeOK, Locals
  <2>. QED
    BY <2>1, EnteringStep
<1>10. ASSUME NEW r \in Requests, InsertSession(r)
       PROVE  AuthInv'
  <2>1. /\ Entering(r) /\ UNCHANGED <<admin, chosen>>
        /\ \A q \in Requests : q # r => req'[q] = req[q]
        /\ req'[r].at = "trim"
    BY <1>10 DEF InsertSession, At, Goto, Entering, TypeOK, Locals
  <2>2. PICK i \in SessionIds :
          /\ \A j \in SessionIds : j # i => sessions'[j] = sessions[j]
          /\ sessions'[i].password = req[r].row.password /\ sessions'[i].raced = req[r].raced
    BY <1>10 DEF InsertSession, TypeOK
  <2>3. req[r].raced \/ req[r].row.password = chosen
    BY <2>1 DEF AuthInv, LoginsRaced
  <2>4. HasPassword'
    BY <2>1 DEF AuthInv, HasPassword
  <2>5. Present'
    BY <2>1 DEF AuthInv, Present, Entering
  <2>6. PasswordIsTheChosenOne' /\ LoginsRaced'
    BY <2>1 DEF AuthInv, PasswordIsTheChosenOne, LoginsRaced, Entering
  <2>7. StaleSessionsRaced'
    BY <2>1, <2>2, <2>3 DEF AuthInv, StaleSessionsRaced, Live
  <2>. QED
    BY <2>4, <2>5, <2>6, <2>7 DEF AuthInv
<1>11. ASSUME NEW r \in Requests, TrimSessions(r) \/ RevokeSession(r) \/ LogoutAll(r)
       PROVE  AuthInv'
  <2>1. UNCHANGED <<admin, chosen>> /\ \A q \in Requests : req'[q] = req[q] \/ req'[q] = Idle
    BY <1>11 DEF TrimSessions, RevokeSession, LogoutAll, Leave, TypeOK
  <2>2. (\E i : sessions' = Revoke(i)) \/ (\E S : sessions' = RevokeThese(S))
    BY <1>11 DEF TrimSessions, RevokeSession, LogoutAll
  <2>. QED
    BY <2>1, <2>2, RevokingTakesAway, RevokingStep
<1>12. ASSUME NEW r \in Requests, ReadForChange(r)
       PROVE  AuthInv'
  <2>. DEFINE l == [req[r] EXCEPT !.at = "commit", !.row = admin]
  <2>1. l \in Locals /\ l.at = "commit" /\ l.new \in Passwords
    BY <1>12 DEF ReadForChange, At, TypeOK, Locals, Steps, AuthInv, HasPassword
  <2>2. /\ req' = [req EXCEPT ![r] = l] \/ req' = [req EXCEPT ![r] = Idle]
        /\ UNCHANGED <<admin, chosen, sessions>>
    BY <1>12 DEF ReadForChange
  <2>3. admin # NoAdmin
    BY <1>0, <1>12 DEF ReadForChange, At
  <2>. HIDE DEF l
  <2>. QED
    BY <1>0, <2>1, <2>2, <2>3, QuietStep
<1>13. ASSUME NEW r \in Requests, CommitChange(r)
       PROVE  AuthInv'
  <2>1. req[r].new \in Passwords
    BY <1>13 DEF CommitChange, At, AuthInv, HasPassword
  <2>2. /\ admin' \in Hashes /\ admin' # NoAdmin /\ admin'.password = req[r].new
        /\ chosen' = req[r].new
    BY <1>13, <2>1, HashType DEF CommitChange
  <2>3. Live' = {}
    BY <1>13 DEF CommitChange, RevokeThese, Live, TypeOK, SessionRows
  <2>4. ASSUME NEW q \in Requests
        PROVE  \/ req'[q].at = "idle"
               \/ /\ req'[q].at = req[q].at /\ req'[q].password = req[q].password
                  /\ req'[q].ip = req[q].ip
                  /\ req'[q].new = req[q].new /\ req'[q].row = req[q].row
                  /\ Entering(q) => req'[q].raced
    <3>1. CASE q = r
      BY <1>13, <3>1 DEF CommitChange, Idle
    <3>2. CASE q # r /\ Entering(q)
      <4>1. req'[q] = [req[q] EXCEPT !.raced = TRUE] /\ req[q] \in Locals
        BY <1>13, <3>2 DEF CommitChange, TypeOK
      <4>. QED
        BY <4>1 DEF Locals
    <3>3. CASE q # r /\ ~Entering(q)
      BY <1>13, <3>3 DEF CommitChange
    <3>. QED
      BY <3>1, <3>2, <3>3
  <2>5. HasPassword'
    BY <2>4 DEF AuthInv, HasPassword
  <2>6. Present'
    BY <2>2, <2>4 DEF AuthInv, Present, Entering
  <2>7. PasswordIsTheChosenOne' /\ StaleSessionsRaced'
    BY <2>2, <2>3 DEF PasswordIsTheChosenOne, StaleSessionsRaced
  <2>8. LoginsRaced'
    BY <2>4 DEF LoginsRaced, Entering
  <2>. QED
    BY <2>5, <2>6, <2>7, <2>8 DEF AuthInv
<1>14. CASE Tick \/ UNCHANGED vars \/ \E s \in Subjects : Forget(s)
  <2>1. UNCHANGED <<admin, chosen, sessions, req>>
    BY <1>14 DEF Tick, Forget, vars
  <2>. QED
    BY <2>1, RevokingTakesAway, RevokingStep
<1>15. ASSUME NEW i \in SessionIds, Expire(i)
       PROVE  AuthInv'
  <2>1. UNCHANGED <<admin, chosen, req>>
    BY <1>15 DEF Expire
  <2>2. /\ Live' \subseteq Live
        /\ \A j \in Live' : /\ sessions'[j].password = sessions[j].password
                           /\ sessions'[j].raced = sessions[j].raced
    BY <1>15 DEF Expire, Live, TypeOK, SessionRows
  <2>. QED
    BY <2>1, <2>2, RevokingStep
<1>16. CASE CleanupAuth
  <2>1. UNCHANGED <<admin, chosen, req>>
    BY <1>16 DEF CleanupAuth
  <2>2. /\ Live' \subseteq Live
        /\ \A j \in Live' : /\ sessions'[j].password = sessions[j].password
                           /\ sessions'[j].raced = sessions[j].raced
    BY <1>16 DEF CleanupAuth, Live, TypeOK, SessionRows
  <2>. QED
    BY <2>1, <2>2, RevokingStep
<1>17. /\ [Idle EXCEPT !.at = "revoke"] \in Locals /\ [Idle EXCEPT !.at = "revoke"].at = "revoke"
       /\ [Idle EXCEPT !.at = "logout_all"] \in Locals
       /\ [Idle EXCEPT !.at = "logout_all"].at = "logout_all"
  BY DEF Idle, Locals, Steps, Secrets
<1>18. ASSUME NEW p \in Passwords, NEW n \in Passwords
       PROVE  LET l == [Idle EXCEPT !.at = "read_for_change", !.password = p, !.new = n]
              IN  l \in Locals /\ l.at = "read_for_change" /\ l.new \in Passwords
  BY DEF Idle, Locals, Steps, Secrets
<1>. QED
  BY <1>1, <1>2, <1>3, <1>4, <1>5, <1>6, <1>7, <1>8, <1>9, <1>10, <1>11, <1>12, <1>13, <1>14,
     <1>15, <1>16, <1>17, <1>18 DEF Next, Serve

LEMMA AuthInit == Init => TypeOK /\ AuthInv
<1>. SUFFICES ASSUME Init PROVE TypeOK /\ AuthInv
  OBVIOUS
<1>1. admin \in Hashes \union {NoAdmin} /\ chosen \in Secrets
  BY Constants DEF Init, Hashes, Secrets
<1>2. TypeOK
  <2>1. Idle \in Locals /\ NoSession \in SessionRows
    BY DEF Idle, Locals, Steps, Secrets, NoSession, SessionRows
  <2>. QED
    BY <1>1, <2>1 DEF Init, TypeOK
<1>3. Live = {}
  BY DEF Init, Live, NoSession
<1>4. admin # NoAdmin => admin.password = chosen
  BY DEF Init
<1>. QED
  BY <1>2, <1>3, <1>4
     DEF Init, AuthInv, HasPassword, Present, LoginsRaced, StaleSessionsRaced,
         PasswordIsTheChosenOne, Entering, Idle

LEMMA AuthInvariant == Spec => [](TypeOK /\ AuthInv)
<1>1. TypeOK /\ AuthInv /\ [Next]_vars => (TypeOK /\ AuthInv)'
  BY TypeStep, AuthStep DEF AuthInv
<1>. QED
  BY <1>1, AuthInit, PTL DEF Spec

\* Every variable keeps its type, for any number of requests served at once.
THEOREM TypeCorrect == Spec => []TypeOK
BY AuthInvariant, PTL

\* The hash in the row of the administrator is always of the password that was set last: a
\* rehash is stored only over the hash that was read, so that it never undoes a change.
THEOREM PasswordChosen == Spec => []PasswordIsTheChosenOne
<1>1. AuthInv => PasswordIsTheChosenOne
  BY DEF AuthInv
<1>. QED
  BY <1>1, AuthInvariant, PTL

\* A live session that entered with an earlier password belongs to a login that had verified it
\* before the change and created its session after it.
THEOREM StaleRaced == Spec => []StaleSessionsRaced
<1>1. AuthInv => StaleSessionsRaced
  BY DEF AuthInv
<1>. QED
  BY <1>1, AuthInvariant, PTL

-----------------------------------------------------------------------------
(* Limits *)

\* The sets that are counted are finite.
LEMMA Counted ==
  /\ IsFiniteSet(Requests) /\ Cardinality(Requests) \in Nat
  /\ \A S \in SUBSET Requests :
       IsFiniteSet(S) /\ Cardinality(S) \in Nat /\ Cardinality(S) <= Cardinality(Requests)
  /\ \A S \in SUBSET SessionIds : IsFiniteSet(S) /\ Cardinality(S) \in Nat
<1>1. IsFiniteSet(Requests)
  BY AuthAssumption
<1>2. IsFiniteSet(SessionIds)
  BY Constants, FS_Interval DEF SessionIds
<1>. QED
  BY <1>1, <1>2, FS_Subset, FS_CardinalityType

LEMMA Monotone ==
  ASSUME NEW S, NEW T \in SUBSET S, IsFiniteSet(S)
  PROVE  IsFiniteSet(T) /\ Cardinality(T) <= Cardinality(S)
BY FS_Subset

\* No login comes to trim, trims or dies, and no attempt passes a check.
CalmRequests ==
  \A q \in Requests :
    /\ At(q, "trim")' <=> At(q, "trim")
    /\ \A s \in Subjects : Attempts(q, s)' => Attempts(q, s)

LessFailures == \A s \in Subjects : failures'[s] <= failures[s]

\* A subject without a new failure or attempt stays within its bound.
LEMMA BoundKept ==
  ASSUME TypeOK, TypeOK', LimitsHold, NEW s \in Subjects, failures'[s] <= failures[s],
         Attempting(s)' \subseteq Attempting(s)
  PROVE  failures'[s] + Cardinality(Attempting(s)') <= Limit[s] - 1 + Cardinality(Requests)
<1>1. /\ Cardinality(Attempting(s)') <= Cardinality(Attempting(s))
      /\ Cardinality(Attempting(s)') \in Nat /\ Cardinality(Attempting(s)) \in Nat
  BY Counted, Monotone DEF Attempting
<1>2. failures[s] + Cardinality(Attempting(s)) <= Limit[s] - 1 + Cardinality(Requests)
  BY DEF LimitsHold, FailuresBounded
<1>3. failures[s] \in Nat /\ failures'[s] \in Nat /\ Limit[s] \in Nat
  BY Constants DEF TypeOK
<1>. QED
  BY <1>1, <1>2, <1>3, Counted

\* Such a step, if it adds no session and no failure.
LEMMA CalmStep ==
  ASSUME TypeOK, TypeOK', LimitsHold, Live' \subseteq Live, untrimmed' = untrimmed,
         LessFailures, CalmRequests
  PROVE  LimitsHold'
<1>1. Trimming' = Trimming
  BY DEF Trimming, At, CalmRequests
<1>2. Cardinality(Live') <= Cardinality(Live) /\ Cardinality(Live') \in Nat
  BY Counted, Monotone DEF Live
<1>3. SessionsCapped'
  <2>1. Cardinality(Trimming) \in Nat /\ Cardinality(Live) \in Nat
    BY Counted DEF Trimming, Live
  <2>. QED
    BY <1>1, <1>2, <2>1, Constants DEF LimitsHold, SessionsCapped, TypeOK
<1>4. ASSUME NEW s \in Subjects
      PROVE  failures'[s] + Cardinality(Attempting(s)') <= Limit[s] - 1 + Cardinality(Requests)
  BY BoundKept DEF Attempting, CalmRequests, LessFailures
<1>. QED
  BY <1>3, <1>4 DEF LimitsHold, FailuresBounded

\* A request that leaves, or turns to something that neither trims nor attempts.
LEMMA LeavingStep ==
  ASSUME TypeOK, TypeOK', LimitsHold, NEW r \in Requests, NEW l \in Locals,
         l.at \notin {"trim", "read_admin", "record"}, ~At(r, "trim"),
         l.at = "limit" => l.left = {l.ip, Email},
         req' = [req EXCEPT ![r] = l],
         UNCHANGED <<failures, untrimmed>>, Live' \subseteq Live
  PROVE  LimitsHold'
<1>1. \A q \in Requests : req'[q] = IF q = r THEN l ELSE req[q]
  BY DEF TypeOK
<1>2. CalmRequests
  BY <1>1 DEF CalmRequests, At, Attempts
<1>3. LessFailures
  BY DEF TypeOK, LessFailures
<1>. QED
  BY <1>2, <1>3, CalmStep

\* A session comes with a login that is going to trim.
LEMMA InsertSessionCapped ==
  ASSUME TypeOK, TypeOK', LimitsHold, NEW r \in Requests, InsertSession(r)
  PROVE  LimitsHold'
<1>1. /\ req[r].at = "insert" /\ req'[r].at = "trim"
      /\ \A q \in Requests : q # r => req'[q] = req[q]
      /\ UNCHANGED <<failures, untrimmed>>
  BY DEF InsertSession, At, Goto, TypeOK, Locals
<1>2. Trimming' = Trimming \union {r} /\ r \notin Trimming
  BY <1>1 DEF Trimming, At
<1>3. PICK i \in SessionIds : \A j \in SessionIds : j # i => sessions'[j] = sessions[j]
  BY DEF InsertSession, TypeOK
<1>4. Live' \subseteq Live \union {i} /\ Live \subseteq SessionIds
  BY <1>3 DEF Live
<1>5. /\ IsFiniteSet(Live) /\ Cardinality(Live) \in Nat /\ IsFiniteSet(Trimming)
      /\ Cardinality(Trimming) \in Nat /\ Cardinality(Live') \in Nat
  BY Counted DEF Live, Trimming
<1>6. Cardinality(Live') <= Cardinality(Live) + 1
  <2>1. /\ IsFiniteSet(Live \union {i})
        /\ Cardinality(Live \union {i}) = IF i \in Live THEN Cardinality(Live) ELSE Cardinality(Live) + 1
    BY <1>5, FS_AddElement
  <2>2. Cardinality(Live') <= Cardinality(Live \union {i})
    BY <1>4, <2>1, Monotone
  <2>. QED
    BY <1>5, <2>1, <2>2
<1>7. Cardinality(Trimming') = Cardinality(Trimming) + 1
  BY <1>2, <1>5, FS_AddElement
<1>8. SessionsCapped'
  BY <1>1, <1>5, <1>6, <1>7, Constants DEF LimitsHold, SessionsCapped, TypeOK
<1>9. ASSUME NEW s \in Subjects
      PROVE  Attempting(s)' = Attempting(s)
  BY <1>1 DEF Attempting, Attempts, At
<1>. QED
  BY <1>1, <1>8, <1>9 DEF LimitsHold, FailuresBounded

\* A login trims what others and itself have left.
LEMMA TrimSessionsCapped ==
  ASSUME TypeOK, TypeOK', LimitsHold, NEW r \in Requests, TrimSessions(r)
  PROVE  LimitsHold'
<1>1. /\ req[r].at = "trim" /\ req'[r] = Idle
      /\ \A q \in Requests : q # r => req'[q] = req[q]
      /\ failures' = failures /\ untrimmed' = 0
  BY DEF TrimSessions, At, Leave, TypeOK
<1>2. PICK K \in SUBSET Live : /\ Cardinality(K) = Cap \/ (K = Live /\ Cardinality(Live) <= Cap)
                              /\ sessions' = RevokeThese(Live \ K)
  BY DEF TrimSessions
<1>3. Live' \subseteq K
  BY <1>2 DEF Live, RevokeThese, TypeOK, SessionRows
<1>4. Cardinality(Live') <= Cap
  <2>0. K \in SUBSET SessionIds
    BY DEF Live
  <2>1. IsFiniteSet(K) /\ Cardinality(K) \in Nat /\ Cardinality(K) <= Cap
    BY <1>2, <2>0, Counted, Constants
  <2>2. Cardinality(Live') <= Cardinality(K) /\ Cardinality(Live') \in Nat
    BY <1>3, <2>1, Monotone, Counted DEF Live
  <2>. QED
    BY <2>1, <2>2, Constants
<1>5. SessionsCapped'
  <2>1. Cardinality(Trimming') \in Nat /\ Cardinality(Live') \in Nat
    BY Counted DEF Trimming, Live
  <2>. QED
    BY <1>1, <1>4, <2>1, Constants DEF SessionsCapped
<1>6. ASSUME NEW s \in Subjects
      PROVE  Attempting(s)' = Attempting(s)
  BY <1>1 DEF Attempting, Attempts, At, Idle
<1>. QED
  BY <1>1, <1>5, <1>6 DEF LimitsHold, FailuresBounded

\* A login that dies before it trims is counted from now on.
LEMMA DieCapped ==
  ASSUME TypeOK, TypeOK', LimitsHold, NEW r \in Requests, Die(r)
  PROVE  LimitsHold'
<1>1. /\ req' = [req EXCEPT ![r] = Idle] /\ req'[r] = Idle
      /\ \A q \in Requests : q # r => req'[q] = req[q]
      /\ failures' = failures /\ Live' = Live
  BY DEF Die, Leave, TypeOK, Live
<1>2. CASE ~At(r, "trim")
  <2>1. untrimmed' = untrimmed /\ Idle.at = "idle"
    BY <1>2 DEF Die, Idle
  <2>. QED
    BY <1>1, <1>2, <2>1, LocalTypes, LeavingStep
<1>3. CASE At(r, "trim")
  <2>1. untrimmed' = untrimmed + 1
    BY <1>3 DEF Die
  <2>2. Trimming' = Trimming \ {r} /\ r \in Trimming
    BY <1>1, <1>3 DEF Trimming, At, Idle
  <2>3. /\ IsFiniteSet(Trimming) /\ Cardinality(Trimming) \in Nat /\ Cardinality(Live) \in Nat
        /\ Cardinality(Trimming') \in Nat
    BY Counted DEF Trimming, Live
  <2>4. Cardinality(Trimming') = Cardinality(Trimming) - 1
    BY <2>2, <2>3, FS_RemoveElement
  <2>5. SessionsCapped'
    BY <1>1, <2>1, <2>3, <2>4, Constants DEF LimitsHold, SessionsCapped, TypeOK
  <2>6. ASSUME NEW s \in Subjects
        PROVE  Attempting(s)' = Attempting(s)
    BY <1>1, <1>3 DEF Attempting, Attempts, At, Idle
  <2>. QED
    BY <1>1, <2>5, <2>6 DEF LimitsHold, FailuresBounded
<1>. QED
  BY <1>2, <1>3

\* An attempt that passes saw a count below the limit.
LEMMA CheckBounded ==
  ASSUME TypeOK, TypeOK', LimitsHold, NEW r \in Requests, NEW s \in Subjects,
         EnforceLoginRateLimit(r, s)
  PROVE  LimitsHold'
<1>1. /\ UNCHANGED <<failures, untrimmed, sessions>> /\ Live' = Live
      /\ req[r].at = "limit" /\ s \in req[r].left
  BY DEF EnforceLoginRateLimit, Live, At
<1>2. CASE req' = [req EXCEPT ![r] = Idle]
  <2>1. Idle.at = "idle" /\ Idle \in Locals
    BY LocalTypes DEF Idle
  <2>. QED
    BY <1>1, <1>2, <2>1, LeavingStep DEF At
<1>3. CASE req' # [req EXCEPT ![r] = Idle]
  <2>1. /\ ~(failures[s] >= Limit[s])
        /\ req'[r].ip = req[r].ip
        /\ \/ req'[r].at = "limit" /\ req'[r].left = req[r].left \ {s}
           \/ req'[r].at = "read_admin" /\ req[r].left = {s}
        /\ \A q \in Requests : q # r => req'[q] = req[q]
    BY <1>1, <1>3 DEF EnforceLoginRateLimit, Answered, TypeOK, Locals
  <2>2. Trimming' = Trimming
    BY <1>1, <2>1 DEF Trimming, At
  <2>3. ASSUME NEW t \in Subjects
        PROVE  failures'[t] + Cardinality(Attempting(t)') <= Limit[t] - 1 + Cardinality(Requests)
    <3>1. CASE t = s
      <4>1. failures[t] < Limit[t] /\ failures[t] \in Nat /\ Limit[t] \in Nat
        BY <2>1, <3>1, Constants DEF TypeOK
      <4>2. /\ Cardinality(Attempting(t)') <= Cardinality(Requests)
            /\ Cardinality(Attempting(t)') \in Nat /\ Cardinality(Requests) \in Nat
        BY Counted DEF Attempting
      <4>. QED
        BY <1>1, <4>1, <4>2
    <3>2. CASE t # s
      <4>1. Attempting(t)' \subseteq Attempting(t)
        BY <1>1, <2>1, <3>2 DEF Attempting, Attempts, At
      <4>2. failures'[t] <= failures[t]
        BY <1>1 DEF TypeOK
      <4>. QED
        BY <4>1, <4>2, BoundKept
    <3>. QED
      BY <3>1, <3>2
  <2>. QED
    BY <1>1, <2>2, <2>3 DEF LimitsHold, SessionsCapped, FailuresBounded
<1>. QED
  BY <1>2, <1>3

\* What is recorded was counted as an attempt.
LEMMA RecordBounded ==
  ASSUME TypeOK, TypeOK', LimitsHold, NEW r \in Requests, NEW s \in Subjects,
         RecordFailure(r, s)
  PROVE  LimitsHold'
<1>1. /\ UNCHANGED <<untrimmed, sessions>> /\ Live' = Live
      /\ req[r].at = "record" /\ s \in req[r].left
      /\ req'[r].at = "idle" \/ (req'[r].at = "record" /\ req'[r].left = req[r].left \ {s})
      /\ \A q \in Requests : q # r => req'[q] = req[q]
  BY DEF RecordFailure, Answered, Live, At, Idle, TypeOK, Locals
<1>2. Trimming' = Trimming
  BY <1>1 DEF Trimming, At
<1>3. ASSUME NEW t \in Subjects
      PROVE  failures'[t] + Cardinality(Attempting(t)') <= Limit[t] - 1 + Cardinality(Requests)
  <2>1. Attempting(t)' \subseteq Attempting(t)
    BY <1>1 DEF Attempting, Attempts, At
  <2>2. CASE failures'[t] = failures[t]
    BY <2>1, <2>2, BoundKept DEF TypeOK
  <2>3. CASE t = s /\ failures'[t] = failures[t] + 1
    <3>1. Attempting(t)' \subseteq Attempting(t) \ {r} /\ r \in Attempting(t)
      BY <1>1, <2>1, <2>3 DEF Attempting, Attempts, At
    <3>2. /\ IsFiniteSet(Attempting(t)) /\ Cardinality(Attempting(t)) \in Nat
          /\ Cardinality(Attempting(t)') \in Nat /\ IsFiniteSet(Attempting(t) \ {r})
      BY Counted DEF Attempting
    <3>3. Cardinality(Attempting(t) \ {r}) = Cardinality(Attempting(t)) - 1
      BY <3>1, <3>2, FS_RemoveElement
    <3>4. Cardinality(Attempting(t)') <= Cardinality(Attempting(t) \ {r})
      BY <3>1, <3>2, Monotone
    <3>5. failures[t] + Cardinality(Attempting(t)) <= Limit[t] - 1 + Cardinality(Requests)
      BY DEF LimitsHold, FailuresBounded
    <3>6. failures[t] \in Nat /\ Limit[t] \in Nat
      BY Constants DEF TypeOK
    <3>. QED
      BY <2>3, <3>2, <3>3, <3>4, <3>5, <3>6, Counted
  <2>. QED
    BY <2>2, <2>3 DEF RecordFailure, TypeOK
<1>. QED
  BY <1>1, <1>2, <1>3 DEF LimitsHold, SessionsCapped, FailuresBounded

LEMMA LimitsStep ==
  ASSUME TypeOK, TypeOK', AuthInv, LimitsHold, [Next]_vars
  PROVE  LimitsHold'
<1>1. ASSUME NEW r \in Requests, NEW l \in Locals, Call(r, l),
             l.at \notin {"trim", "read_admin", "record"},
             l.at = "limit" => l.left = {l.ip, Email},
             UNCHANGED <<failures, untrimmed, sessions>>
      PROVE  LimitsHold'
  BY <1>1, LeavingStep DEF Call, At, Live
<1>2. ASSUME NEW r \in Requests, NEW p \in Passwords, StartBootstrap(r, p)
      PROVE  LimitsHold'
  <2>. DEFINE l == [Idle EXCEPT !.at = "insert_admin", !.password = p]
  <2>1. l \in Locals /\ l.at = "insert_admin"
    BY DEF Idle, Locals, Steps, Secrets
  <2>. HIDE DEF l
  <2>. QED
    BY <1>1, <1>2, <2>1 DEF StartBootstrap, l
<1>3. ASSUME NEW r \in Requests, NEW p \in Passwords, NEW ip \in Ips, StartLogin(r, p, ip)
      PROVE  LimitsHold'
  <2>. DEFINE l == [Idle EXCEPT !.at = "limit", !.password = p, !.ip = ip, !.left = {ip, Email}]
  <2>1. l \in Locals /\ l.at = "limit" /\ l.left = {l.ip, Email}
    BY DEF Idle, Locals, Steps, Secrets, Subjects
  <2>. HIDE DEF l
  <2>. QED
    BY <1>1, <1>3, <2>1 DEF StartLogin, l
<1>4. ASSUME NEW r \in Requests, NEW i \in SessionIds, NEW l \in Locals, StartAuthorized(r, i, l),
             l.at \in {"revoke", "logout_all", "read_for_change"}
      PROVE  LimitsHold'
  <2>. DEFINE a == [l EXCEPT !.session = i]
              b == [Idle EXCEPT !.at = "revoke", !.session = i]
  <2>1. a \in Locals /\ a.at = l.at
    BY Constants DEF Locals
  <2>2. b \in Locals /\ b.at = "revoke"
    BY Constants DEF Idle, Locals, Steps, Secrets
  <2>3. Call(r, a) \/ Call(r, b)
    BY <1>4 DEF StartAuthorized
  <2>. HIDE DEF a, b
  <2>. QED
    BY <1>1, <1>4, <2>1, <2>2, <2>3 DEF StartAuthorized
<1>5. ASSUME NEW r \in Requests,
             InsertAdmin(r) \/ UpgradePasswordHash(r) \/ Stamp(r) \/ ReadAdmin(r)
      PROVE  LimitsHold'
  <2>1. /\ Live' = Live /\ UNCHANGED <<failures, untrimmed>>
        /\ LessFailures
    BY <1>5 DEF InsertAdmin, UpgradePasswordHash, Stamp, ReadAdmin, Live, TypeOK, LessFailures
  <2>2. \A q \in Requests : q # r => req'[q] = req[q]
    BY <1>5 DEF InsertAdmin, UpgradePasswordHash, Stamp, ReadAdmin, Goto, Leave, TypeOK
  <2>3. /\ req[r].at # "trim" /\ req'[r].at # "trim"
        /\ \A s \in Subjects : Attempts(r, s)' => Attempts(r, s)
    <3>1. CASE InsertAdmin(r)
      BY <3>1 DEF InsertAdmin, At, Leave, Idle, TypeOK, Locals, Attempts
    <3>2. CASE UpgradePasswordHash(r) \/ Stamp(r)
      BY <3>2 DEF UpgradePasswordHash, Stamp, At, Goto, TypeOK, Locals, Attempts
    <3>3. CASE ReadAdmin(r)
      <4>1. /\ req[r].at = "read_admin"
            /\ req'[r].at = "upgrade" \/ (req'[r].at = "record" /\ req'[r].left = {req[r].ip, Email})
        BY <3>3 DEF ReadAdmin, At, TypeOK, Locals
      <4>. QED
        BY <4>1 DEF At, Attempts
    <3>. QED
      BY <1>5, <3>1, <3>2, <3>3
  <2>4. \A q \in Requests : q # r => \A s \in Subjects : Attempts(q, s)' <=> Attempts(q, s)
    BY <2>2 DEF Attempts, At
  <2>. QED
    BY <2>1, <2>2, <2>3, <2>4, CalmStep DEF CalmRequests, At
<1>6. ASSUME NEW r \in Requests, RevokeSession(r) \/ LogoutAll(r)
      PROVE  LimitsHold'
  <2>1. /\ req' = [req EXCEPT ![r] = Idle] /\ Idle \in Locals /\ Idle.at = "idle" /\ ~At(r, "trim")
        /\ UNCHANGED <<failures, untrimmed>>
    BY <1>6, LocalTypes DEF RevokeSession, LogoutAll, Leave, Idle, At
  <2>2. Live' \subseteq Live
    BY <1>6, RevokingTakesAway DEF RevokeSession, LogoutAll
  <2>. QED
    BY <2>1, <2>2, LeavingStep
<1>7. ASSUME NEW r \in Requests, ReadForChange(r)
      PROVE  LimitsHold'
  <2>. DEFINE l == [req[r] EXCEPT !.at = "commit", !.row = admin]
  <2>1. l \in Locals /\ l.at = "commit" /\ Idle \in Locals /\ Idle.at = "idle"
    BY LocalTypes DEF TypeOK, Locals, Steps, Idle
  <2>2. req' = [req EXCEPT ![r] = l] \/ req' = [req EXCEPT ![r] = Idle]
    BY <1>7 DEF ReadForChange
  <2>3. Live' = Live /\ UNCHANGED <<failures, untrimmed>> /\ ~At(r, "trim")
    BY <1>7 DEF ReadForChange, Live, At
  <2>. HIDE DEF l
  <2>. QED
    BY <2>1, <2>2, <2>3, LeavingStep
<1>8. ASSUME NEW r \in Requests, CommitChange(r)
      PROVE  LimitsHold'
  <2>1. /\ Live' \subseteq Live /\ UNCHANGED <<failures, untrimmed>>
        /\ LessFailures
    BY <1>8, RevokingTakesAway DEF CommitChange, TypeOK, LessFailures
  <2>2. ASSUME NEW q \in Requests
        PROVE  /\ At(q, "trim")' <=> At(q, "trim")
               /\ \A s \in Subjects : Attempts(q, s)' => Attempts(q, s)
    <3>1. CASE q = r
      BY <1>8, <3>1 DEF CommitChange, At, Idle, Attempts
    <3>2. CASE q # r /\ Entering(q)
      <4>1. req'[q] = [req[q] EXCEPT !.raced = TRUE] /\ req[q] \in Locals
        BY <1>8, <3>2 DEF CommitChange, TypeOK
      <4>. QED
        BY <4>1 DEF Locals, At, Attempts
    <3>3. CASE q # r /\ ~Entering(q)
      <4>1. req'[q] = req[q]
        BY <1>8, <3>3 DEF CommitChange
      <4>. QED
        BY <4>1 DEF At, Attempts
    <3>. QED
      BY <3>1, <3>2, <3>3
  <2>. QED
    BY <2>1, <2>2, CalmStep DEF CalmRequests
<1>9. CASE Tick \/ CleanupAuth \/ UNCHANGED vars \/ (\E s \in Subjects : Forget(s))
           \/ (\E i \in SessionIds : Expire(i))
  <2>1. Live' \subseteq Live
    BY <1>9 DEF Tick, CleanupAuth, vars, Forget, Expire, Live, TypeOK, SessionRows
  <2>2. UNCHANGED <<req, untrimmed>> /\ LessFailures
    BY <1>9 DEF Tick, CleanupAuth, vars, Forget, Expire, TypeOK, LessFailures
  <2>3. CalmRequests
    BY <2>2 DEF CalmRequests, At, Attempts
  <2>. QED
    BY <2>1, <2>2, <2>3, CalmStep
<1>10. /\ [Idle EXCEPT !.at = "revoke"] \in Locals /\ [Idle EXCEPT !.at = "revoke"].at = "revoke"
       /\ [Idle EXCEPT !.at = "logout_all"] \in Locals
       /\ [Idle EXCEPT !.at = "logout_all"].at = "logout_all"
  BY DEF Idle, Locals, Steps, Secrets
<1>11. ASSUME NEW p \in Passwords, NEW n \in Passwords
       PROVE  LET l == [Idle EXCEPT !.at = "read_for_change", !.password = p, !.new = n]
              IN  l \in Locals /\ l.at = "read_for_change"
  BY DEF Idle, Locals, Steps, Secrets
<1>. QED
  BY <1>2, <1>3, <1>4, <1>5, <1>6, <1>7, <1>8, <1>9, <1>10, <1>11, InsertSessionCapped,
     TrimSessionsCapped, DieCapped, CheckBounded, RecordBounded DEF Next, Serve

\* Concurrent logins exceed the cap of sessions and the limit of failures by what passed the
\* checks together, and by no more.
THEOREM LimitsAreKept == Spec => []LimitsHold
<1>1. Init => LimitsHold
  <2>. SUFFICES ASSUME Init PROVE LimitsHold
    OBVIOUS
  <2>1. Live = {} /\ Trimming = {} /\ \A s \in Subjects : Attempting(s) = {}
    BY DEF Init, Live, NoSession, Trimming, At, Idle, Attempting, Attempts
  <2>2. untrimmed = 0 /\ \A s \in Subjects : failures[s] = 0
    BY DEF Init
  <2>3. Cardinality({}) = 0
    BY FS_EmptySet
  <2>4. \A s \in Subjects : Limit[s] \in Nat \ {0}
    BY Constants
  <2>. QED
    BY <2>1, <2>2, <2>3, <2>4, Counted, Constants DEF LimitsHold, SessionsCapped, FailuresBounded
<1>2. TypeOK /\ AuthInv /\ TypeOK' /\ LimitsHold /\ [Next]_vars => LimitsHold'
  BY LimitsStep
<1>. QED
  BY <1>1, <1>2, AuthInvariant, PTL DEF Spec

-----------------------------------------------------------------------------
(* PART TWO: the console                                                   *)

\* The constants are numbers, and the conversations are not zero.
LEMMA ConsoleConstants ==
  /\ PageLimit \in Nat \ {0} /\ MaxArrivals \in Nat /\ MessageLimit \in Nat \ {0}
  /\ MaxKeys \in Nat /\ MaxClicks \in Nat /\ MaxFaults \in Nat
  /\ Threads \subseteq Nat \ {0} /\ IsFiniteSet(Threads) /\ NoThread \notin Threads
  /\ Inbox \in Folders /\ "new" \notin Folders /\ "gone" \notin Folders /\ "" \notin Texts
BY ListAssumption, DetailAssumption, ComposeAssumption, ConsoleAssumption DEF NoThread

-----------------------------------------------------------------------------
(* What a step of the console does to the list, to the pane and to the dialog *)

\* The list and the server: a load goes on, a folder is chosen, or a conversation changes.
ListMove ==
  \/ UNCHANGED listVars
  \/ /\ folder' \in Folders /\ UNCHANGED server
     /\ \/ \E reset \in BOOLEAN, f \in Folders, by \in {"none", "task", "submit"} :
                Ask(reset, f, by) /\ (reset \/ hasMore)
        \/ UNCHANGED <<load, view, moved>>
  \/ LoadServed \/ LoadShown \/ LoadFails
  \/ /\ UNCHANGED <<folder, view, load>>
     /\ \E t \in Threads, f \in Folders : AddMessage(t, f) /\ rows[t].folder # "gone"
  \/ /\ UNCHANGED <<arrivals, folder, view, load>>
     /\ \E t \in Threads, f \in Folders \union {"gone"} : MoveTo(t, f) /\ There(t)

\* The pane.
DetailMove ==
  \/ UNCHANGED detailVars
  \/ /\ UNCHANGED rows
     /\ \/ closeDetail \/ loadOlderMessages \/ Answer \/ NoAnswerComes
        \/ \E t \in Conversations : openThread(t)

\* The dialog.
ComposeMove ==
  \/ UNCHANGED composeVars
  \/ Draft \/ Cancel \/ (\E w \in Texts : submitCompose(w)) \/ Post \/ PostKnown \/ NotSent
  \/ PostFails \/ Sent \/ \E answer \in {"taken", "failed"} : PostStored(answer)
  \/ /\ UNCHANGED <<open, draft, keys, taken, sent>>
     /\ \/ submit' = NoSubmit
        \/ submit' = [submit EXCEPT !.at = "opened", !.waits = request'] /\ request' \in Nat

\* The conversations that a handler may open.
LEMMA SomeThread ==
  ASSUME ConsoleTypeOK
  PROVE  /\ \A n \in DOMAIN threads : threads[n] \in Conversations
         /\ selected \in Conversations /\ submit.thread \in Conversations
         /\ detail.thread \in Conversations
<1>1. threads \in Seq(Threads)
  BY DEF ConsoleTypeOK, ListTypeOK
<1>2. \A n \in DOMAIN threads : threads[n] \in Threads
  BY <1>1
<1>. QED
  BY <1>2 DEF ConsoleTypeOK, DetailTypeOK, ComposeTypeOK, Details, Submits, Conversations

\* A reload is a move of the list, also when it is dropped.
LEMMA AskMoves ==
  ASSUME NEW f \in Folders, NEW by \in {"none", "task", "submit"},
         loadThreads(TRUE, f, by), folder' \in Folders, UNCHANGED server
  PROVE  ListMove
BY DEF loadThreads, ListMove

\* Every step is one of these for each of the three.
LEMMA Moves ==
  ASSUME ConsoleTypeOK, [ConsoleNext]_consoleVars
  PROVE  ListMove /\ DetailMove /\ ComposeMove
<1>. USE DEF listVars, detailVars, composeVars, rest, server, view, draft
<1>0. folder \in Folders /\ request \in Nat
  BY DEF ConsoleTypeOK, ListTypeOK, DetailTypeOK
<1>1. CASE UNCHANGED consoleVars
  BY <1>1 DEF consoleVars, ListMove, DetailMove, ComposeMove
<1>2. ASSUME NEW f \in Folders, setFolder(f)
      PROVE  ListMove /\ DetailMove /\ ComposeMove
  <2>1. ListMove
    BY <1>2, AskMoves DEF setFolder
  <2>. QED
    BY <1>2, <2>1 DEF setFolder, closeDetail, DetailMove, ComposeMove
<1>3. CASE LoadMore \/ refreshMailboxView
  <2>1. ListMove
    BY <1>0, <1>3 DEF LoadMore, refreshMailboxView, ListMove
  <2>. QED
    BY <1>3, <2>1 DEF LoadMore, refreshMailboxView, DetailMove, ComposeMove
<1>4. CASE OpenRow \/ Older \/ Act
  <2>1. DetailMove
    BY <1>4, SomeThread DEF OpenRow, Older, Act, DetailMove
  <2>. QED
    BY <1>4, <2>1 DEF OpenRow, Older, Act, ListMove, ComposeMove
<1>5. CASE ActServed
  <2>1. ListMove
    BY <1>5 DEF ActServed, ConsoleTypeOK, ListMove
  <2>. QED
    BY <1>5, <2>1 DEF ActServed, DetailMove, ComposeMove
<1>6. CASE ActReload
  <2>1. ListMove
    BY <1>0, <1>6, AskMoves DEF ActReload
  <2>. QED
    BY <1>6, <2>1 DEF ActReload, DetailMove, ComposeMove
<1>7. CASE ActEnds
  <2>1. DetailMove
    BY <1>7, SomeThread DEF ActEnds, DetailMove
  <2>. QED
    BY <1>7, <2>1 DEF ActEnds, ListMove, ComposeMove
<1>8. CASE SentReload
  <2>1. ListMove
    BY <1>0, <1>8, AskMoves DEF SentReload
  <2>. QED
    BY <1>8, <2>1 DEF SentReload, DetailMove, ComposeMove
<1>9. CASE SentOpen
  <2>1. DetailMove
    BY <1>9, SomeThread DEF SentOpen, DetailMove
  <2>2. request' \in Nat
    BY <1>0, <1>9 DEF SentOpen, openThread
  <2>3. ComposeMove
    BY <1>9, <2>2 DEF SentOpen, ComposeMove
  <2>. QED
    BY <1>9, <2>1, <2>3 DEF SentOpen, ListMove
<1>10. CASE SentEnds
  BY <1>10 DEF SentEnds, ListMove, DetailMove, ComposeMove
<1>11. CASE ListStep
  <2>1. ASSUME NEW t \in Threads, Arrive(t)
        PROVE  ListMove
    <3>1. rows[t].folder \in Folders /\ rows[t].folder # "gone"
      BY <2>1 DEF Arrive, There, ConsoleTypeOK, ListTypeOK
    <3>. QED
      BY <2>1, <3>1 DEF Arrive, ListMove
  <2>2. ListMove
    BY <1>11, <2>1 DEF ListStep, ListMove
  <2>. QED
    BY <1>11, <2>2 DEF ListStep, DetailMove, ComposeMove
<1>12. CASE DetailStep
  BY <1>12 DEF DetailStep, ListMove, DetailMove, ComposeMove
<1>13. CASE ComposeStep
  BY <1>13 DEF ComposeStep, ListMove, DetailMove, ComposeMove
<1>14. ASSUME NEW answer \in {"taken", "failed"}, PostStored(answer),
              UNCHANGED <<folder, view, load, detailVars>>
       PROVE  ListMove /\ DetailMove /\ ComposeMove
  <2>1. PICK t \in Target(submit.request), f \in Folders :
          (There(t) => f = rows[t].folder) /\ AddMessage(t, f)
    BY <1>14 DEF PostStored
  <2>2. t \in Threads /\ rows[t].folder # "gone"
    BY <2>1 DEF Target, There
  <2>3. ListMove
    BY <1>14, <2>1, <2>2 DEF ListMove
  <2>. QED
    BY <1>14, <2>3 DEF DetailMove, ComposeMove
<1>15. CASE Stored
  BY <1>14, <1>15 DEF Stored
<1>16. CASE Failure
  <2>1. CASE PostStored("failed") /\ UNCHANGED <<folder, view, load, detailVars>>
    BY <1>14, <2>1
  <2>2. CASE ~(PostStored("failed") /\ UNCHANGED <<folder, view, load, detailVars>>)
    BY <1>16, <2>2 DEF Failure, ListMove, DetailMove, ComposeMove
  <2>. QED
    BY <2>1, <2>2
<1>. QED
  BY <1>1, <1>2, <1>3, <1>4, <1>5, <1>6, <1>7, <1>8, <1>9, <1>10, <1>11, <1>12, <1>13, <1>15, <1>16
     DEF ConsoleNext

-----------------------------------------------------------------------------
(* The order of the list: a set of conversations has a place for each *)

\* One of two conversations precedes the other.
LEMMA Order ==
  ASSUME ListTypeOK
  PROVE  /\ \A s, t \in Threads : s = t \/ Precedes(s, t) \/ Precedes(t, s)
         /\ \A s, t \in Threads : Precedes(s, t) => s # t /\ ~Precedes(t, s)
         /\ \A s, t, u \in Threads : Precedes(s, t) /\ Precedes(t, u) => Precedes(s, u)
<1>. rows \in [Threads -> [folder : Folders \union {"new", "gone"}, at : Nat, count : Nat]]
  BY DEF ListTypeOK
<1>. \A s \in Threads : s \in Nat /\ rows[s].at \in Nat
  BY ConsoleConstants
<1>. QED
  BY DEF Precedes

\* The conversations of S that precede t, and the place that they leave to it.
Ahead(S, t) == {s \in S : Precedes(s, t)}
Place(S, t) == Cardinality(Ahead(S, t))

\* The place of a conversation is less than the number of them, and no two have the same one.
LEMMA Places ==
  ASSUME ListTypeOK, NEW S \in SUBSET Threads
  PROVE  /\ IsFiniteSet(S) /\ Cardinality(S) \in Nat
         /\ \A t \in S : Place(S, t) \in Nat /\ Place(S, t) < Cardinality(S)
         /\ \A s, t \in S : Precedes(s, t) => Place(S, s) < Place(S, t)
<1>1. \A T \in SUBSET Threads : IsFiniteSet(T) /\ Cardinality(T) \in Nat
  BY ConsoleConstants, FS_Subset, FS_CardinalityType
<1>2. \A T, U \in SUBSET Threads : T \subseteq U /\ T # U => Cardinality(T) < Cardinality(U)
  BY <1>1, FS_Subset
<1>3. \A t \in S : Ahead(S, t) \in SUBSET Threads /\ Ahead(S, t) \subseteq S /\ t \notin Ahead(S, t)
  BY Order DEF Ahead
<1>4. ASSUME NEW t \in S
      PROVE  Place(S, t) \in Nat /\ Place(S, t) < Cardinality(S)
  BY <1>1, <1>2, <1>3 DEF Place
<1>5. ASSUME NEW s \in S, NEW t \in S, Precedes(s, t)
      PROVE  Place(S, s) < Place(S, t)
  <2>1. Ahead(S, s) \subseteq Ahead(S, t)
    BY <1>5, Order DEF Ahead
  <2>2. s \in Ahead(S, t) /\ s \notin Ahead(S, s)
    BY <1>3, <1>5 DEF Ahead
  <2>. QED
    BY <1>2, <1>3, <2>1, <2>2 DEF Place
<1>. QED
  BY <1>1, <1>4, <1>5

\* Every place is taken.
LEMMA PlaceTaken ==
  ASSUME ListTypeOK, NEW S \in SUBSET Threads, NEW n \in 1..Cardinality(S)
  PROVE  \E t \in S : Place(S, t) = n - 1
<1>. DEFINE k == Cardinality(S)
            F == [t \in S |-> Place(S, t) + 1]
<1>1. k \in Nat /\ IsFiniteSet(1..k) /\ Cardinality(1..k) = k
  BY Places, FS_Interval
<1>2. F \in [S -> 1..k]
  BY <1>1, Places
<1>3. ASSUME NEW s \in S, NEW t \in S, F[s] = F[t]
      PROVE  s = t
  <2>1. Place(S, s) = Place(S, t)
    BY <1>3, Places
  <2>. QED
    BY <2>1, Places, Order
<1>4. F \in Injection(S, 1..k)
  BY <1>2, <1>3 DEF Injection, IsInjective
<1>5. F \in Surjection(S, 1..k)
  BY <1>1, <1>4, FS_Injection
<1>6. PICK t \in S : F[t] = n
  BY <1>5 DEF Surjection
<1>. QED
  BY <1>1, <1>6, Places

\* What the server lists: everything that is found, once, in its order.
Found(f, c) == {t \in Threads : rows[t].folder = f /\ Below(t, c)}

\* listThreads lists each of them once, by the order of the list.
LEMMA Listing ==
  ASSUME ListTypeOK, NEW f, NEW c
  PROVE  /\ listThreads(f, c) \in Seq(Found(f, c)) /\ Len(listThreads(f, c)) \in Nat
         /\ \A t \in Found(f, c) : \E n \in 1..Len(listThreads(f, c)) : listThreads(f, c)[n] = t
         /\ \A m, n \in 1..Len(listThreads(f, c)) :
              m < n => Precedes(listThreads(f, c)[m], listThreads(f, c)[n])
<1>. DEFINE found == Found(f, c)
            all == listThreads(f, c)
            k == Cardinality(found)
<1>1. found \in SUBSET Threads
  BY DEF Found
<1>2. all = [n \in 1..k |-> CHOOSE t \in found : Place(found, t) = n - 1]
  BY DEF listThreads, Found, Place, Ahead
<1>. HIDE DEF found, all
<1>3. k \in Nat
  BY <1>1, Places
<1>4. \A n \in 1..k : all[n] \in found /\ Place(found, all[n]) = n - 1
  BY <1>1, <1>2, PlaceTaken
<1>5. all \in Seq(found) /\ Len(all) = k
  BY <1>2, <1>3, <1>4
<1>6. ASSUME NEW t \in found
      PROVE  \E n \in 1..k : all[n] = t
  <2>1. Place(found, t) + 1 \in 1..k
    BY <1>1, <1>3, Places
  <2>2. all[Place(found, t) + 1] \in found /\ Place(found, all[Place(found, t) + 1]) = Place(found, t)
    BY <1>1, <1>4, <2>1, Places
  <2>3. all[Place(found, t) + 1] = t
    BY <1>1, <2>2, Places, Order
  <2>. QED
    BY <2>1, <2>3
<1>7. ASSUME NEW m \in 1..k, NEW n \in 1..k, m < n
      PROVE  Precedes(all[m], all[n])
  <2>1. all[m] \in found /\ all[n] \in found /\ Place(found, all[m]) < Place(found, all[n])
    BY <1>3, <1>4, <1>7
  <2>. QED
    BY <1>1, <2>1, Places, Order
<1>. QED
  BY <1>3, <1>5, <1>6, <1>7 DEF found, all

\* What a page holds: the beginning of what is found, and everything if it is the last one.
LEMMA Served ==
  ASSUME ListTypeOK, LoadServed
  PROVE  /\ load' = [load EXCEPT !.at = "served", !.more = load'.more, !.page = load'.page]
         /\ load'.more \in BOOLEAN /\ load'.page \in Seq([thread : Threads, at : Nat])
         /\ Len(load'.page) \in Nat /\ (load'.more => Len(load'.page) \in 1..Len(load'.page))
         /\ \A n \in 1..Len(load'.page) :
              /\ load'.page[n].thread \in Found(load.folder, load.cursor)
              /\ load'.page[n].at = rows[load'.page[n].thread].at
         /\ \A m, n \in 1..Len(load'.page) :
              m < n => Precedes(load'.page[m].thread, load'.page[n].thread)
         /\ \A t \in Found(load.folder, load.cursor) :
              \/ \E n \in 1..Len(load'.page) : load'.page[n].thread = t
              \/ load'.more /\ Precedes(load'.page[Len(load'.page)].thread, t)
<1>. DEFINE found == Found(load.folder, load.cursor)
            all == listThreads(load.folder, load.cursor)
            size == IF Len(all) < PageLimit THEN Len(all) ELSE PageLimit
            part == SubSeq(all, 1, size)
            page == [n \in 1..Len(part) |-> [thread |-> part[n], at |-> rows[part[n]].at]]
<1>1. load' = [load EXCEPT !.at = "served", !.more = Len(all) > PageLimit, !.page = page]
      /\ load \in Loads
  BY DEF LoadServed, ListTypeOK
<1>2. load'.page = page /\ load'.more = (Len(all) > PageLimit)
  BY <1>1 DEF Loads
<1>3. /\ all \in Seq(found) /\ Len(all) \in Nat
      /\ \A t \in found : \E n \in 1..Len(all) : all[n] = t
      /\ \A m, n \in 1..Len(all) : m < n => Precedes(all[m], all[n])
  BY Listing
<1>. HIDE DEF all
<1>4. PageLimit \in Nat \ {0} /\ size \in Nat /\ size <= Len(all)
  <2>1. PageLimit \in Nat \ {0}
    BY ConsoleConstants
  <2>. QED
    BY <1>3, <2>1
<1>5. \A t \in found : t \in Threads /\ rows[t].at \in Nat
  BY DEF ListTypeOK, Found
<1>. HIDE DEF found
<1>6. Len(part) = size /\ \A n \in 1..size : part[n] = all[n] /\ all[n] \in found
  <2>1. 1 \in Nat /\ size \in Nat /\ size <= Len(all) /\ 1 \in Int
    BY <1>4
  <2>2. \A n \in 1..size : n \in 1..Len(all)
    BY <1>3, <1>4
  <2>. QED
    BY <1>3, <2>1, <2>2
<1>. HIDE DEF part
<1>7. /\ Len(page) = size /\ page \in Seq([thread : Threads, at : Nat])
      /\ \A n \in 1..size : page[n].thread = all[n] /\ page[n].at = rows[all[n]].at
  BY <1>4, <1>5, <1>6
<1>. HIDE DEF page
<1>8. \A m, n \in 1..size : m < n => Precedes(page[m].thread, page[n].thread)
  <2>1. \A n \in 1..size : n \in 1..Len(all) /\ page[n].thread = all[n]
    BY <1>3, <1>4, <1>7
  <2>. QED
    BY <1>3, <2>1
<1>9. Len(all) > PageLimit => size \in 1..size
  BY <1>3, <1>4
<1>10. ASSUME NEW t \in found
       PROVE  \/ \E n \in 1..size : page[n].thread = t
              \/ Len(all) > PageLimit /\ Precedes(page[size].thread, t)
  <2>1. PICK n \in 1..Len(all) : all[n] = t
    BY <1>3
  <2>2. CASE n <= size
    <3>1. n \in 1..size
      BY <1>3, <1>4, <2>2
    <3>. QED
      BY <1>7, <2>1, <3>1
  <2>3. CASE n > size
    <3>1. Len(all) > PageLimit /\ size \in 1..size /\ size \in 1..Len(all) /\ size < n
      BY <1>3, <1>4, <2>3
    <3>. QED
      BY <1>3, <1>7, <2>1, <3>1
  <2>. QED
    BY <1>3, <1>4, <2>2, <2>3
<1>11. Len(page) = size /\ size \in Nat /\ load'.page = page
  BY <1>2, <1>4, <1>7
<1>12. \A n \in 1..size : page[n].thread \in found /\ page[n].at = rows[page[n].thread].at
  BY <1>6, <1>7
<1>13. load' = [load EXCEPT !.at = "served", !.more = load'.more, !.page = load'.page]
  BY <1>1, <1>2
<1>. HIDE DEF size
<1>14. load'.more => Len(load'.page) \in 1..Len(load'.page)
  BY <1>2, <1>9, <1>11
<1>15. \A n \in 1..Len(load'.page) :
         load'.page[n].thread \in found /\ load'.page[n].at = rows[load'.page[n].thread].at
  BY <1>11, <1>12
<1>16. \A m, n \in 1..Len(load'.page) : m < n => Precedes(load'.page[m].thread, load'.page[n].thread)
  BY <1>8, <1>11
<1>17. \A t \in found : \/ \E n \in 1..Len(load'.page) : load'.page[n].thread = t
                        \/ load'.more /\ Precedes(load'.page[Len(load'.page)].thread, t)
  BY <1>2, <1>10, <1>11
<1>18. load'.page \in Seq([thread : Threads, at : Nat]) /\ load'.more \in BOOLEAN
       /\ Len(load'.page) \in Nat
  BY <1>2, <1>7, <1>11
<1>. QED
  BY <1>13, <1>14, <1>15, <1>16, <1>17, <1>18 DEF found

-----------------------------------------------------------------------------
(* Types *)

\* No cursor and no load are typed.
LEMMA NoLoadTyped ==
  NoCursor \in Cursors /\ NoLoad \in Loads /\ ~NoLoad.more /\ <<>> \in Seq([thread : Threads, at : Nat])
<1>1. <<>> \in Seq([thread : Threads, at : Nat])
  OBVIOUS
<1>. QED
  BY <1>1 DEF NoCursor, NoLoad, Loads, Cursors

\* The list starts out typed.
LEMMA ListInitTypes ==
  ListInit => ListTypeOK
<1>. SUFFICES ASSUME ListInit PROVE ListTypeOK
  OBVIOUS
<1>1. 0 \in Nat /\ 1 \in Nat /\ 2 \in Nat /\ <<>> \in Seq(Threads)
  OBVIOUS
<1>2. load \in Loads /\ ~load.more
  BY NoLoadTyped, ConsoleConstants DEF ListInit, NoLoad, Loads
<1>3. rows \in [Threads -> [folder : Folders \union {"new", "gone"}, at : Nat, count : Nat]]
  BY <1>1 DEF ListInit
<1>. QED
  BY <1>1, <1>2, <1>3, NoLoadTyped, ConsoleConstants DEF ListInit, ListTypeOK

\* And stays typed, whatever moves in it.
LEMMA ListTypeStep ==
  ASSUME ListTypeOK, ListMove
  PROVE  ListTypeOK'
<1>. USE DEF ListTypeOK, listVars, server, view
<1>1. CASE UNCHANGED listVars
  BY <1>1
<1>2. ASSUME folder' \in Folders, UNCHANGED server,
             NEW reset \in BOOLEAN, NEW f \in Folders, NEW by \in {"none", "task", "submit"},
             Ask(reset, f, by)
      PROVE  ListTypeOK'
  <2>1. load' \in Loads /\ cursor' \in Cursors /\ ~load'.more
    BY <1>2, NoLoadTyped DEF Ask, NoLoad, Loads
  <2>. QED
    BY <1>2, <2>1 DEF Ask
<1>3. CASE folder' \in Folders /\ UNCHANGED <<server, load, view, moved>>
  BY <1>3
<1>4. CASE LoadServed
  <2>1. /\ load' = [load EXCEPT !.at = "served", !.more = load'.more, !.page = load'.page]
        /\ load'.more \in BOOLEAN /\ load'.page \in Seq([thread : Threads, at : Nat])
        /\ load'.more => Len(load'.page) \in 1..Len(load'.page)
    BY <1>4, Served
  <2>2. load'.more => load'.page # <<>>
    BY <2>1
  <2>3. load' \in Loads
    BY <2>1 DEF Loads
  <2>. QED
    BY <1>4, <2>2, <2>3 DEF LoadServed
<1>5. CASE LoadShown
  <2>. DEFINE page == [n \in 1..Len(load.page) |-> load.page[n].thread]
  <2>2. load.page \in Seq([thread : Threads, at : Nat])
    BY DEF Loads
  <2>3. page \in Seq(Threads)
    <3>1. Len(load.page) \in Nat
          /\ \A n \in 1..Len(load.page) : load.page[n] \in [thread : Threads, at : Nat]
      BY <2>2, ElementOfSeq, LenProperties
    <3>2. \A n \in 1..Len(load.page) : load.page[n].thread \in Threads
      BY <3>1
    <3>. QED
      BY <3>1, <3>2
  <2>4. threads' \in Seq(Threads)
    <3>. HIDE DEF page
    <3>. QED
      BY <1>5, <2>3, ConcatProperties DEF LoadShown, page
  <2>5. ASSUME load.more
        PROVE  Last(load.page) \in Cursors
    <3>1. Len(load.page) \in 1..Len(load.page)
      BY <2>2, <2>5
    <3>2. load.page[Len(load.page)] \in [thread : Threads, at : Nat]
      BY <2>2, <3>1, ElementOfSeq
    <3>. QED
      BY <3>2 DEF Last, Cursors
  <2>. QED
    BY <1>5, <2>4, <2>5, NoLoadTyped DEF LoadShown, Loads
<1>6. CASE LoadFails
  BY <1>6, NoLoadTyped DEF LoadFails
<1>7. ASSUME NEW t \in Threads, NEW f \in Folders, AddMessage(t, f), UNCHANGED <<folder, view, load>>
      PROVE  ListTypeOK'
  BY <1>7 DEF AddMessage
<1>8. ASSUME NEW t \in Threads, NEW f \in Folders \union {"gone"}, MoveTo(t, f),
             UNCHANGED <<arrivals, folder, view, load>>
      PROVE  ListTypeOK'
  BY <1>8 DEF MoveTo
<1>. QED
  BY <1>1, <1>2, <1>3, <1>4, <1>5, <1>6, <1>7, <1>8 DEF ListMove

\* What the pane shows is the conversation that is selected.
PaneShows ==
  pane # NoDetail => pane = detail /\ selected = detail.thread /\ detail.thread \in Threads

\* What an answer tells of a conversation that it found.
LEMMA AnswerTypes ==
  ASSUME ListTypeOK, NEW t \in Conversations, NEW offset \in Nat
  PROVE  /\ NoAnswer \in Answers /\ NoDetail \in Details
         /\ countMessages(t, offset) \in Answers
         /\ \A answer \in Answers :
              (answer.there => t \in Threads) => readMessages(t, offset, answer) \in Answers
         /\ \A answer \in Answers : Opened(t, answer) \in Details
         /\ \A d \in Details, answer \in Answers : Extended(d, answer) \in Details
<1>1. NoAnswer \in Answers /\ NoDetail \in Details
  BY DEF NoAnswer, Answers, NoDetail, Details, Conversations
<1>2. /\ t # NoThread => t \in Threads
      /\ t \in Threads => rows[t].count \in Nat
  BY DEF ListTypeOK, Conversations
<1>3. countMessages(t, offset) \in Answers
  <2>1. CASE t # NoThread /\ There(t)
    <3>1. countMessages(t, offset) =
            [there |-> TRUE, messages |-> {}, more |-> offset + MessageLimit < rows[t].count,
             total |-> rows[t].count, read |-> 0]
      BY <2>1 DEF countMessages, NoAnswer
    <3>. QED
      BY <1>2, <2>1, <3>1 DEF Answers
  <2>. QED
    BY <1>1, <2>1 DEF countMessages
<1>4. ASSUME NEW answer \in Answers
      PROVE  /\ (answer.there => t \in Threads) => readMessages(t, offset, answer) \in Answers
             /\ Opened(t, answer) \in Details
             /\ \A d \in Details : Extended(d, answer) \in Details
  <2>1. Opened(t, answer) \in Details
    BY <1>1 DEF Opened, Details, Answers
  <2>2. ASSUME NEW d \in Details
        PROVE  Extended(d, answer) \in Details
    BY DEF Extended, Details, Answers
  <2>3. ASSUME answer.there => t \in Threads
        PROVE  readMessages(t, offset, answer) \in Answers
    <3>1. CASE answer.there /\ There(t)
      <4>. DEFINE page == {n \in 1..rows[t].count : /\ n <= rows[t].count - offset
                                                  /\ n > rows[t].count - offset - MessageLimit}
      <4>1. rows[t].count \in Nat
        BY <1>2, <2>3, <3>1
      <4>3. page \in SUBSET Nat
        BY <4>1
      <4>2. readMessages(t, offset, answer) = [answer EXCEPT !.read = rows[t].count, !.messages = page]
        BY <3>1 DEF readMessages
      <4>. HIDE DEF page
      <4>. QED
        BY <4>1, <4>2, <4>3 DEF Answers
    <3>. QED
      BY <3>1 DEF readMessages
  <2>. QED
    BY <2>1, <2>2, <2>3
<1>. QED
  BY <1>1, <1>3, <1>4

\* The pane starts out typed.
LEMMA DetailInitTypes ==
  DetailInit => DetailTypeOK
BY DEF DetailInit, DetailTypeOK, Conversations, NoDetail, Details

\* The messages of a detail can be counted, and what was found has a conversation.
Readable ==
  /\ \A o \in opens : o.answer.there => o.thread \in Threads
  /\ \A o \in olders : /\ IsFiniteSet(o.detail.messages)
                       /\ o.answer.there => o.detail.thread \in Threads

\* And stays typed.
LEMMA DetailTypeStep ==
  ASSUME ListTypeOK, DetailTypeOK, Readable, DetailMove
  PROVE  DetailTypeOK'
<1>. USE DEF DetailTypeOK, detailVars
<1>. DEFINE Opening == [request : Nat, thread : Conversations, at : Stages, answer : Answers]
            Reading == [detail : Details, at : Stages, answer : Answers]
<1>1. CASE UNCHANGED detailVars
  BY <1>1
<1>2. 0 \in Nat /\ NoThread \in Conversations /\ NoAnswer \in Answers /\ NoDetail \in Details
  BY AnswerTypes DEF Conversations
<1>3. CASE closeDetail
  BY <1>2, <1>3 DEF closeDetail
<1>4. CASE loadOlderMessages
  BY <1>2, <1>4 DEF loadOlderMessages, Stages
<1>5. ASSUME NEW t \in Conversations, openThread(t)
      PROVE  DetailTypeOK'
  BY <1>2, <1>5 DEF openThread, Stages
<1>6. CASE NoAnswerComes
  BY <1>2, <1>6 DEF NoAnswerComes, OpenFails, OlderFails
<1>7. ASSUME NEW o \in opens, OpenCounted(o) \/ OpenServed(o) \/ OpenShown(o) \/ MarkedRead(o)
      PROVE  DetailTypeOK'
  <2>1. o \in Opening /\ o.thread \in Conversations /\ o.answer \in Answers
        /\ (o.answer.there => o.thread \in Threads)
    BY DEF Readable
  <2>2. /\ countMessages(o.thread, 0) \in Answers /\ readMessages(o.thread, 0, o.answer) \in Answers
        /\ Opened(o.thread, o.answer) \in Details
    BY <1>2, <2>1, AnswerTypes
  <2>3. CASE OpenCounted(o)
    BY <2>1, <2>2, <2>3 DEF OpenCounted, Stages
  <2>4. CASE OpenServed(o)
    BY <2>1, <2>2, <2>4 DEF OpenServed, Stages
  <2>5. CASE OpenShown(o)
    <3>1. Show(Opened(o.thread, o.answer)) =>
            objects' \in Nat /\ detail' \in Details /\ pane' \in Details
      BY <2>2 DEF Show, Details
    <3>2. [o EXCEPT !.at = "marking", !.answer = NoAnswer] \in Opening
      BY <1>2, <2>1 DEF Stages
    <3>3. opens' \subseteq Opening
      BY <2>5, <3>2 DEF OpenShown
    <3>. QED
      BY <1>2, <2>5, <3>1, <3>3 DEF OpenShown
  <2>6. CASE MarkedRead(o)
    BY <2>6 DEF MarkedRead
  <2>. QED
    BY <1>7, <2>3, <2>4, <2>5, <2>6
<1>8. ASSUME NEW o \in olders, OlderCounted(o) \/ OlderServed(o) \/ OlderShown(o)
      PROVE  DetailTypeOK'
  <2>. DEFINE offset == Cardinality(o.detail.messages)
  <2>1. o \in Reading /\ o.detail \in Details /\ o.detail.thread \in Conversations
        /\ o.answer \in Answers /\ offset \in Nat /\ (o.answer.there => o.detail.thread \in Threads)
    BY FS_CardinalityType DEF Details, Readable
  <2>. HIDE DEF offset
  <2>2. /\ countMessages(o.detail.thread, offset) \in Answers
        /\ readMessages(o.detail.thread, offset, o.answer) \in Answers
        /\ Extended(o.detail, o.answer) \in Details
    BY <2>1, AnswerTypes
  <2>3. CASE OlderCounted(o)
    BY <2>1, <2>2, <2>3 DEF OlderCounted, Stages, offset
  <2>4. CASE OlderServed(o)
    BY <2>1, <2>2, <2>4 DEF OlderServed, Stages, offset
  <2>5. CASE OlderShown(o)
    <3>1. Show(Extended(o.detail, o.answer)) =>
            objects' \in Nat /\ detail' \in Details /\ pane' \in Details
      BY <2>2 DEF Show, Details
    <3>. QED
      BY <2>5, <3>1 DEF OlderShown
  <2>. QED
    BY <1>8, <2>3, <2>4, <2>5
<1>. QED
  BY <1>1, <1>3, <1>4, <1>5, <1>6, <1>7, <1>8 DEF DetailMove, Answer

\* The number of keys is bounded.
LEMMA KeyBound ==
  MaxKeys \in Nat
BY ComposeAssumption

\* What the dialog begins with is typed.
LEMMA NothingComposed ==
  /\ NoPayload \in Payloads /\ NoRequest \in Posts /\ NoSubmit \in Submits
  /\ NotTaken \in [thread : Conversations, request : Posts]
  /\ NoSubmit.at = "none" /\ NoKey = 0
<1>1. NoPayload \in Payloads /\ NoRequest \in Posts /\ NoThread \in Conversations
  BY DEF NoPayload, Payloads, NoRequest, Posts, Conversations
<1>2. 0 \in 0..MaxKeys /\ 0 \in Nat
  BY KeyBound
<1>. QED
  BY <1>1, <1>2 DEF NoSubmit, Submits, NotTaken, NoKey

\* The dialog starts out typed.
LEMMA ComposeInitTypes ==
  ComposeInit => ComposeTypeOK
<1>. SUFFICES ASSUME ComposeInit PROVE ComposeTypeOK
  OBVIOUS
<1>1. NoThread \in Conversations /\ 0 \in 0..MaxKeys /\ 0 \in 0..0 /\ 0 \in Nat
  BY KeyBound DEF Conversations
<1>2. <<>> \in Seq([draft : Nat, key : 1..0, request : Posts])
  OBVIOUS
<1>. QED
  BY <1>1, <1>2, NothingComposed DEF ComposeInit, ComposeTypeOK

\* And stays typed, since a key is taken from those that were made.
LEMMA ComposeTypeStep ==
  ASSUME ConsoleTypeOK, ComposeMove
  PROVE  ComposeTypeOK'
<1>. USE DEF ComposeTypeOK, draft, NoKey
<1>0. /\ ComposeTypeOK /\ selected \in Conversations /\ detail.thread \in Conversations
      /\ NoThread \in Conversations
  BY SomeThread DEF ConsoleTypeOK, Conversations
<1>k. /\ keys \in 0..MaxKeys /\ key \in 0..keys /\ drafts \in Nat /\ MaxKeys \in Nat
      /\ open \/ submit.at = "files" => key # 0
      /\ submit.at = "posted" => submit.key # 0
  BY <1>0, KeyBound
<1>1. CASE UNCHANGED composeVars
  BY <1>0, <1>1 DEF composeVars
<1>2. ASSUME NEW m \in {"compose", "reply", "forward"}, NEW p \in Conversations, openDraft(m, p)
      PROVE  ComposeTypeOK'
  <2>1. keys' \in 0..MaxKeys /\ key' \in 0..keys' /\ key' # 0 /\ drafts' \in Nat
    BY <1>2, <1>k DEF openDraft
  <2>2. sent' \in Seq([draft : Nat, key : 1..keys', request : Posts])
    <3>1. [draft : Nat, key : 1..keys, request : Posts]
            \subseteq [draft : Nat, key : 1..keys', request : Posts]
      BY <1>2, <1>k DEF openDraft
    <3>2. sent \in Seq([draft : Nat, key : 1..keys, request : Posts]) /\ sent' = sent
      BY <1>0, <1>2 DEF ComposeTypeOK, openDraft
    <3>. QED
      BY <3>1, <3>2, SeqMonotonic
  <2>. QED
    BY <1>0, <1>2, <2>1, <2>2, NothingComposed DEF openDraft
<1>3. CASE Draft
  BY <1>0, <1>2, <1>3 DEF Draft
<1>4. CASE Cancel
  BY <1>0, <1>4 DEF Cancel
<1>5. ASSUME NEW w \in Texts, submitCompose(w)
      PROVE  ComposeTypeOK'
  BY <1>0, <1>5, NothingComposed DEF submitCompose, Submits
<1>6. CASE Post
  <2>. DEFINE payload == Payload(submit.text)
              asked == [forward |-> IF mode = "forward" THEN parent ELSE NoThread, payload |-> payload]
  <2>1. payload \in Payloads /\ asked \in Posts /\ submit \in Submits /\ submit.at = "files"
    BY <1>0, <1>6 DEF Post, Payload, Payloads, Posts, Submits
  <2>2. keys' \in 0..MaxKeys /\ key' \in 1..keys' /\ keys \in Nat /\ keys <= keys'
    BY <1>6, <1>k DEF Post, ComposeKey
  <2>. HIDE DEF payload
  <2>3. submit' = [submit EXCEPT !.at = "posted", !.key = key', !.request = asked]
        /\ sent' = Append(sent, [draft |-> drafts, key |-> key', request |-> asked])
        /\ attempted' = payload /\ UNCHANGED <<open, mode, parent, drafts, taken>>
    BY <1>6 DEF Post, payload
  <2>. HIDE DEF asked
  <2>6. key' \in 0..MaxKeys /\ key' # 0
    BY <2>2, KeyBound
  <2>4. submit' \in Submits /\ submit'.at = "posted" /\ submit'.key # 0
    BY <2>1, <2>3, <2>6 DEF Submits
  <2>5. sent' \in Seq([draft : Nat, key : 1..keys', request : Posts])
    <3>. DEFINE E == [draft : Nat, key : 1..keys', request : Posts]
                e == [draft |-> drafts, key |-> key', request |-> asked]
    <3>1. [draft : Nat, key : 1..keys, request : Posts] \subseteq E
      BY <2>2
    <3>2. e \in E
      BY <1>0, <2>1, <2>2
    <3>3. sent \in Seq(E)
      BY <1>0, <3>1, SeqMonotonic
    <3>. HIDE DEF E, e
    <3>4. Append(sent, e) \in Seq(E)
      BY <3>2, <3>3
    <3>. QED
      BY <2>3, <3>4 DEF E, e
  <2>. QED
    BY <1>0, <2>1, <2>2, <2>3, <2>4, <2>5
<1>7. ASSUME NEW answer \in {"taken", "failed"}, PostStored(answer)
      PROVE  ComposeTypeOK'
  <2>1. PICK t \in Threads :
          /\ taken' = [taken EXCEPT ![submit.key] = [thread |-> t, request |-> submit.request]]
          /\ submit' = [submit EXCEPT !.at = answer, !.thread = t]
    BY <1>7 DEF PostStored, Target
  <2>2. submit \in Submits /\ submit.request \in Posts /\ t \in Conversations
    BY <1>0, <2>1 DEF Submits, Conversations
  <2>3. submit' \in Submits /\ submit'.at = answer
    BY <2>1, <2>2 DEF Submits
  <2>4. taken' \in [1..MaxKeys -> [thread : Conversations, request : Posts]]
    BY <1>0, <2>1, <2>2
  <2>. QED
    BY <1>0, <1>7, <2>3, <2>4 DEF PostStored
<1>8. CASE PostKnown
  <2>1. submit \in Submits /\ submit.key \in 1..MaxKeys
    <3>1. submit \in Submits /\ submit.key \in 0..MaxKeys /\ submit.key # 0
      BY <1>0, <1>8, <1>k DEF ComposeTypeOK, PostKnown, Submits
    <3>. QED
      BY <3>1, KeyBound
  <2>2. submit' \in Submits /\ submit'.at = "taken"
    BY <1>0, <1>8, <2>1 DEF PostKnown, Submits
  <2>. QED
    BY <1>0, <1>8, <2>2 DEF PostKnown
<1>9. CASE PostFails \/ NotSent
  <2>1. submit \in Submits
    BY <1>0 DEF ComposeTypeOK
  <2>2. submit' \in Submits /\ submit'.at \in {"none", "failed"}
    BY <1>9, <2>1, NothingComposed DEF PostFails, NotSent, Submits
  <2>3. UNCHANGED <<open, mode, parent, key, attempted, drafts, keys, taken, sent>>
    BY <1>9 DEF PostFails, NotSent
  <2>. QED
    BY <1>0, <2>2, <2>3
<1>10. CASE Sent
  <2>1. submit \in Submits /\ 0 \in 0..keys
    BY <1>0, <1>k DEF ComposeTypeOK
  <2>2. submit' \in Submits /\ submit'.at = "reload"
    BY <1>10, <2>1 DEF Sent, Submits
  <2>. QED
    BY <1>0, <1>10, <2>1, <2>2, NothingComposed DEF Sent, ComposeTypeOK
<1>11. CASE UNCHANGED <<open, draft, keys, taken, sent>> /\ submit' = NoSubmit
  BY <1>0, <1>11, NothingComposed
<1>12. CASE /\ UNCHANGED <<open, draft, keys, taken, sent>> /\ request' \in Nat
            /\ submit' = [submit EXCEPT !.at = "opened", !.waits = request']
  BY <1>0, <1>12 DEF Submits
<1>. QED
  BY <1>1, <1>3, <1>4, <1>5, <1>6, <1>7, <1>8, <1>9, <1>10, <1>11, <1>12 DEF ComposeMove

\* The bounds and the task in flight, which is on the conversation that the pane shows.
LEMMA TaskTypeStep ==
  ASSUME ConsoleTypeOK, PaneShows, [ConsoleNext]_consoleVars
  PROVE  /\ clicks' \in 0..MaxClicks /\ faults' \in 0..MaxFaults
         /\ task' \in [at : {"none", "posted", "served", "loaded"},
                       kind : {"none", "status", "read", "retry"},
                       thread : Conversations, to : Folders \union {"none", "gone"}]
         /\ task'.at = "posted" => task'.thread \in Threads
         /\ task'.at = "posted" /\ task'.kind = "status" => task'.to \in Folders \union {"gone"}
<1>. DEFINE Tasks == [at : {"none", "posted", "served", "loaded"},
                      kind : {"none", "status", "read", "retry"},
                      thread : Conversations, to : Folders \union {"none", "gone"}]
            Bounds == clicks' \in 0..MaxClicks /\ faults' \in 0..MaxFaults
            Task == /\ task' \in Tasks
                    /\ task'.at = "posted" => task'.thread \in Threads
                    /\ task'.at = "posted" /\ task'.kind = "status" =>
                         task'.to \in Folders \union {"gone"}
<1>1. /\ clicks \in 0..MaxClicks /\ faults \in 0..MaxFaults /\ task \in Tasks
      /\ task.at = "posted" => task.thread \in Threads
      /\ task.at = "posted" /\ task.kind = "status" => task.to \in Folders \union {"gone"}
  BY DEF ConsoleTypeOK
<1>2. MaxClicks \in Nat /\ MaxFaults \in Nat
  BY ConsoleAssumption
<1>3. /\ Click => clicks' \in 0..MaxClicks
      /\ Fails => faults' \in 0..MaxFaults
  BY <1>1, <1>2 DEF Click, Fails
<1>4. NoTask \in Tasks /\ NoTask.at = "none"
  BY DEF NoTask, Conversations
<1>5. CASE UNCHANGED consoleVars
  BY <1>1, <1>5 DEF consoleVars
<1>6. CASE (\E f \in Folders : setFolder(f)) \/ LoadMore \/ refreshMailboxView \/ OpenRow \/ Older
  <2>1. Click /\ UNCHANGED <<faults, task>>
    BY <1>6 DEF setFolder, LoadMore, refreshMailboxView, OpenRow, Older, rest
  <2>. QED
    BY <1>1, <1>3, <2>1
<1>7. CASE Act
  <2>1. selected \in Threads /\ detail.thread \in Threads
    BY <1>7 DEF Act, PaneShows
  <2>2. Click /\ UNCHANGED faults
    BY <1>7 DEF Act
  <2>3. \/ \E f \in Folders \union {"gone"} :
             task' = [at |-> "posted", kind |-> "status", thread |-> detail.thread, to |-> f]
        \/ \E k \in {"read", "retry"} :
             task' = [at |-> "posted", kind |-> k, thread |-> selected, to |-> "none"]
    BY <1>7 DEF Act
  <2>4. Task
    BY <2>1, <2>3 DEF Conversations
  <2>. QED
    BY <1>1, <1>3, <2>2, <2>4
<1>8. CASE ActServed \/ ActReload \/ ActEnds
  <2>1. UNCHANGED clicks /\ (UNCHANGED faults \/ Fails)
    BY <1>8 DEF ActServed, ActReload, ActEnds
  <2>2. task' = NoTask \/ task' = [task EXCEPT !.at = "loaded"] \/ task' = [task EXCEPT !.at = "served"]
    BY <1>8 DEF ActServed, ActReload, ActEnds
  <2>3. Task
    BY <1>1, <1>4, <2>2
  <2>. QED
    BY <1>1, <1>3, <2>1, <2>3
<1>9. CASE SentReload \/ SentOpen \/ SentEnds \/ ListStep \/ DetailStep \/ ComposeStep \/ Stored
  <2>1. UNCHANGED <<clicks, faults, task>>
    BY <1>9 DEF SentReload, SentOpen, SentEnds, ListStep, DetailStep, ComposeStep, Stored
  <2>. QED
    BY <1>1, <2>1
<1>10. CASE Failure
  <2>1. Fails /\ UNCHANGED clicks /\ (UNCHANGED task \/ task' = NoTask)
    BY <1>10 DEF Failure
  <2>. QED
    BY <1>1, <1>3, <1>4, <2>1
<1>. QED
  BY <1>5, <1>6, <1>7, <1>8, <1>9, <1>10 DEF ConsoleNext

-----------------------------------------------------------------------------
(* The keys of the drafts *)

\* What would be sent with a payload as the draft is now.
Asked(payload) == [forward |-> IF mode = "forward" THEN parent ELSE NoThread, payload |-> payload]

\* The key of the draft is on the requests with its last content and on no other, and on the last
\* request of the draft; the drafts and the keys of the requests are from before.
KeysInv ==
  /\ \A i \in 1..Len(sent) :
       /\ sent[i].draft <= drafts
       /\ key # NoKey /\ sent[i].key = key =>
            attempted # NoPayload /\ sent[i].request = Asked(attempted)
       /\ key # NoKey /\ i = Len(sent) /\ sent[i].draft = drafts => sent[i].key = key
  /\ KeysFollowContent

\* What the type invariant says of the requests.
LEMMA SentTypes ==
  ASSUME ComposeTypeOK
  PROVE  /\ Len(sent) \in Nat /\ DOMAIN sent = 1..Len(sent)
         /\ \A i \in 1..Len(sent) : sent[i].draft \in Nat /\ sent[i].key \in Nat /\ sent[i].key <= keys
         /\ keys \in Nat /\ drafts \in Nat /\ key \in Nat /\ key <= keys
<1>1. sent \in Seq([draft : Nat, key : 1..keys, request : Posts])
  BY DEF ComposeTypeOK
<1>2. \A i \in 1..Len(sent) : sent[i] \in [draft : Nat, key : 1..keys, request : Posts]
  BY <1>1, ElementOfSeq
<1>3. keys \in 0..MaxKeys /\ key \in 0..keys /\ drafts \in Nat
  BY DEF ComposeTypeOK
<1>4. \A i \in 1..Len(sent) : sent[i].draft \in Nat /\ sent[i].key \in 1..keys
  BY <1>2
<1>5. keys \in Nat /\ key \in Nat /\ key <= keys
  BY <1>3, KeyBound
<1>. QED
  BY <1>1, <1>3, <1>4, <1>5, LenProperties

\* Post is the step that matters: the key it sends is a new one, or the one of the same content.
LEMMA KeysStep ==
  ASSUME ComposeTypeOK, ComposeMove, KeysInv
  PROVE  KeysInv'
<1>0. /\ Len(sent) \in Nat /\ DOMAIN sent = 1..Len(sent)
      /\ \A i \in 1..Len(sent) : sent[i].draft \in Nat /\ sent[i].key \in Nat /\ sent[i].key <= keys
      /\ keys \in Nat /\ drafts \in Nat /\ key \in Nat /\ key <= keys
  BY SentTypes
<1>l. Len(sent) \in Nat /\ keys \in Nat /\ drafts \in Nat
  BY <1>0
<1>1. /\ \A i \in 1..Len(sent) :
           /\ sent[i].draft <= drafts
           /\ key # 0 /\ sent[i].key = key =>
                attempted # NoPayload /\ sent[i].request = Asked(attempted)
           /\ key # 0 /\ i = Len(sent) /\ sent[i].draft = drafts => sent[i].key = key
      /\ KeysFollowContent
  BY DEF KeysInv, NoKey
<1>2. ASSUME NEW m, NEW p, openDraft(m, p)
      PROVE  KeysInv'
  <2>1. sent' = sent /\ drafts' = drafts + 1 /\ key' = keys + 1 /\ keys' = keys + 1
    BY <1>2 DEF openDraft
  <2>2. KeysFollowContent'
    BY <1>1, <2>1 DEF KeysFollowContent
  <2>3. \A i \in 1..Len(sent) : sent[i].draft < drafts' /\ sent[i].key < key'
    <3>1. \A i \in 1..Len(sent) : /\ sent[i].draft \in Nat /\ sent[i].draft <= drafts
                                  /\ sent[i].key \in Nat /\ sent[i].key <= keys
      BY <1>0, <1>1
    <3>2. \A n \in Nat : (n <= drafts => n < drafts') /\ (n <= keys => n < key')
      BY <1>l, <2>1
    <3>. QED
      BY <3>1, <3>2
  <2>4. \A i \in 1..Len(sent) : sent[i].draft <= drafts' /\ sent[i].key # key' /\ sent[i].draft # drafts'
    BY <1>0, <2>1, <2>3
  <2>. QED
    BY <2>1, <2>2, <2>4 DEF KeysInv
<1>3. CASE UNCHANGED <<mode, parent, key, attempted, drafts, keys, sent>>
  BY <1>3 DEF KeysInv, KeysFollowContent, Asked
<1>4. CASE Sent
  <2>1. sent' = sent /\ drafts' = drafts /\ key' = 0
    BY <1>4 DEF Sent, NoKey
  <2>2. KeysFollowContent'
    BY <1>1, <2>1 DEF KeysFollowContent
  <2>. QED
    BY <1>1, <2>1, <2>2 DEF KeysInv, NoKey
<1>5. CASE Post
  <2>. DEFINE payload == Payload(submit.text)
              last == [draft |-> drafts, key |-> key', request |-> Asked(payload)]
  <2>1. submit.text \in Texts /\ key # 0
    BY <1>5 DEF Post, ComposeTypeOK, NoKey
  <2>2. payload # NoPayload
    <3>1. payload.text = submit.text /\ NoPayload.text = ""
      BY DEF Payload, NoPayload
    <3>2. "" \notin Texts
      BY ComposeAssumption
    <3>. QED
      BY <2>1, <3>1, <3>2
  <2>. HIDE DEF payload
  <2>3. /\ ComposeKey(payload) /\ attempted' = payload /\ sent' = Append(sent, last)
        /\ UNCHANGED <<mode, parent, drafts>>
    BY <1>5 DEF Post, Asked, payload
  <2>5. Asked(attempted)' = Asked(payload)
    BY <2>3 DEF Asked
  <2>6. \A q, r : Asked(q) = Asked(r) => q = r
    <3>1. \A q : Asked(q).payload = q
      BY DEF Asked
    <3>. QED
      BY <3>1
  <2>7. /\ Len(sent') = Len(sent) + 1
        /\ \A i \in 1..Len(sent) : sent'[i] = sent[i]
        /\ sent'[Len(sent) + 1] = last /\ DOMAIN sent' = 1..Len(sent) + 1
    <3>. HIDE DEF last
    <3>1. sent \in Seq([draft : Nat, key : 1..keys, request : Posts])
      BY DEF ComposeTypeOK
    <3>. QED
      BY <2>3, <3>1, AppendProperties
  <2>8. last.draft = drafts /\ last.key = key' /\ last.request = Asked(payload)
    OBVIOUS
  <2>. HIDE DEF last
  <2>9. key' # 0 /\ key' \in Nat
    BY <1>0, <2>1, <2>3 DEF ComposeKey
  \* A request before with the key of this one was the same.
  <2>10. ASSUME NEW i \in 1..Len(sent), sent[i].key = key'
         PROVE  sent[i].request = Asked(payload)
    <3>1. ~(attempted # NoPayload /\ attempted # payload) /\ key' = key
      BY <1>0, <2>3, <2>10 DEF ComposeKey
    <3>. QED
      BY <1>1, <2>1, <2>10, <3>1
  \* And one of the same draft, just before, with the same content has the key of this one.
  <2>11. ASSUME Len(sent) \in 1..Len(sent), sent[Len(sent)].draft = drafts,
                sent[Len(sent)].request = Asked(payload)
         PROVE  sent[Len(sent)].key = key'
    <3>1. sent[Len(sent)].key = key
      BY <1>1, <2>1, <2>11
    <3>2. attempted = payload
      BY <1>1, <2>1, <2>6, <2>11, <3>1
    <3>. QED
      BY <2>3, <3>1, <3>2 DEF ComposeKey
  <2>12. KeysFollowContent'
    <3>. SUFFICES ASSUME NEW i \in 1..Len(sent) + 1, NEW j \in 1..Len(sent) + 1
                  PROVE  /\ sent'[i].key = sent'[j].key => sent'[i].request = sent'[j].request
                         /\ /\ j = i + 1 /\ sent'[i].draft = sent'[j].draft
                            /\ sent'[i].request = sent'[j].request
                            => sent'[i].key = sent'[j].key
      BY <2>7 DEF KeysFollowContent
    <3>1. CASE i \in 1..Len(sent) /\ j \in 1..Len(sent)
      <4>1. sent'[i] = sent[i] /\ sent'[j] = sent[j] /\ i \in DOMAIN sent /\ j \in DOMAIN sent
        BY <1>0, <2>7, <3>1
      <4>. QED
        BY <1>1, <4>1 DEF KeysFollowContent
    <3>2. CASE i \in 1..Len(sent) /\ j = Len(sent) + 1
      <4>1. sent'[i] = sent[i] /\ sent'[j] = last
        BY <2>7, <3>2
      <4>2. sent'[i].key = sent'[j].key => sent'[i].request = sent'[j].request
        BY <2>8, <2>10, <3>2, <4>1
      <4>3. j = i + 1 => i = Len(sent)
        BY <1>l, <3>2
      <4>. QED
        BY <2>8, <2>11, <3>2, <4>1, <4>2, <4>3
    <3>3. CASE i = Len(sent) + 1 /\ j \in 1..Len(sent)
      <4>1. sent'[i] = last /\ sent'[j] = sent[j]
        BY <2>7, <3>3
      <4>2. j # i + 1
        BY <1>0, <3>3
      <4>. QED
        BY <2>8, <2>10, <3>3, <4>1, <4>2
    <3>4. CASE i = Len(sent) + 1 /\ j = Len(sent) + 1
      BY <1>0, <3>4
    <3>. QED
      BY <1>0, <3>1, <3>2, <3>3, <3>4
  <2>13. ASSUME NEW i \in 1..Len(sent')
         PROVE  /\ sent'[i].draft <= drafts'
                /\ sent'[i].key = key' => attempted' # NoPayload /\ sent'[i].request = Asked(attempted)'
                /\ i = Len(sent') => sent'[i].key = key'
    <3>1. CASE i \in 1..Len(sent)
      <4>1. sent'[i] = sent[i] /\ i # Len(sent')
        BY <1>0, <2>7, <3>1
      <4>. QED
        BY <1>1, <2>2, <2>3, <2>5, <2>10, <3>1, <4>1
    <3>2. CASE i = Len(sent) + 1
      <4>1. sent'[i] = last
        BY <2>7, <3>2
      <4>. QED
        BY <1>0, <2>2, <2>3, <2>5, <2>8, <4>1
    <3>. QED
      BY <1>0, <2>7, <3>1, <3>2
  <2>. QED
    BY <2>12, <2>13 DEF KeysInv
<1>6. CASE Draft
  BY <1>2, <1>6 DEF Draft
<1>7. CASE UNCHANGED composeVars \/ UNCHANGED <<open, draft, keys, taken, sent>>
  BY <1>3, <1>7 DEF composeVars, draft
<1>8. CASE Cancel \/ (\E w \in Texts : submitCompose(w)) \/ PostKnown \/ NotSent \/ PostFails
           \/ \E answer \in {"taken", "failed"} : PostStored(answer)
  BY <1>3, <1>8 DEF Cancel, submitCompose, PostKnown, NotSent, PostFails, PostStored, draft
<1>. QED
  BY <1>4, <1>5, <1>6, <1>7, <1>8 DEF ComposeMove

\* Nothing was sent at first.
LEMMA KeysInit ==
  ComposeInit => KeysInv
BY DEF ComposeInit, KeysInv, KeysFollowContent, NoKey

-----------------------------------------------------------------------------
(* The pages of a conversation *)

\* The messages of a page, when there are c.
Page(c, offset) == {n \in 1..c : n <= c - offset /\ n > c - offset - MessageLimit}

\* A range of the messages that goes to the first of those that were there, at least.
Range1(messages, first) ==
  \E lo \in Nat, hi \in Nat : 1 <= lo /\ lo <= hi + 1 /\ first <= hi /\ messages = lo..hi

\* A page has a size.
LEMMA PageSized ==
  MessageLimit \in Nat /\ MessageLimit >= 1
BY DetailAssumption

\* Messages that have numbers can be counted.
LEMMA Counting ==
  ASSUME NEW c \in Nat, NEW M \in SUBSET (1..c)
  PROVE  /\ IsFiniteSet(M) /\ Cardinality(M) \in Nat
         /\ \A N \in SUBSET M : IsFiniteSet(N) /\ Cardinality(N) <= Cardinality(M)
         /\ c <= Cardinality(M) => M = 1..c
<1>1. IsFiniteSet(1..c) /\ Cardinality(1..c) = c
  BY FS_Interval
<1>2. IsFiniteSet(M) /\ Cardinality(M) <= c /\ (Cardinality(M) = c => M = 1..c)
  BY <1>1, FS_Subset
<1>3. Cardinality(M) \in Nat
  BY <1>2, FS_CardinalityType
<1>4. \A N \in SUBSET M : IsFiniteSet(N) /\ Cardinality(N) <= Cardinality(M)
  BY <1>2, FS_Subset
<1>5. c <= Cardinality(M) => M = 1..c
  <2>. DEFINE m == Cardinality(M)
  <2>1. m \in Nat /\ m <= c /\ (m = c => M = 1..c)
    BY <1>2, <1>3
  <2>. HIDE DEF m
  <2>2. c <= m => M = 1..c
    BY <2>1
  <2>. QED
    BY <2>2 DEF m
<1>. QED
  BY <1>2, <1>3, <1>4, <1>5

\* The first page goes to the newest message.
LEMMA FirstPage ==
  ASSUME NEW c \in Nat, c >= 1
  PROVE  /\ Page(c, 0) \subseteq 1..c
         /\ c > MessageLimit => Cardinality(Page(c, 0)) >= MessageLimit
         /\ c <= MessageLimit => 1 \in Page(c, 0)
         /\ \A first \in Nat : first <= c => Range1(Page(c, 0), first)
<1>. DEFINE lo == IF c > MessageLimit THEN c - MessageLimit + 1 ELSE 1
<1>1. Page(c, 0) = lo..c /\ lo \in Nat /\ 1 <= lo /\ lo <= c
  BY PageSized DEF Page
<1>2. c > MessageLimit => Cardinality(lo..c) = MessageLimit
  <2>1. c > MessageLimit => c - lo + 1 = MessageLimit
    BY PageSized
  <2>. QED
    BY <1>1, <2>1, FS_Interval
<1>3. \A first \in Nat : first <= c => Range1(Page(c, 0), first)
  <2>. HIDE DEF lo
  <2>1. lo <= c + 1
    BY <1>1
  <2>. QED
    BY <1>1, <2>1 DEF Range1
<1>. QED
  BY <1>1, <1>2, <1>3, PageSized

\* An older page follows the messages that are shown, if no more than two pages came in.
LEMMA NextPage ==
  ASSUME NEW c \in Nat, NEW M \in SUBSET (1..c), Cardinality(M) >= MessageLimit
  PROVE  /\ M \union Page(c, Cardinality(M)) \subseteq 1..c
         /\ Cardinality(M \union Page(c, Cardinality(M))) >= MessageLimit
         /\ c <= Cardinality(M) + MessageLimit => 1 \in M \union Page(c, Cardinality(M))
         /\ \A first \in Nat :
              c <= first + 2 * MessageLimit /\ Range1(M, first)
                => Range1(M \union Page(c, Cardinality(M)), first)
<1>. DEFINE s == Cardinality(M)
            U == M \union Page(c, s)
<1>1. s \in Nat /\ s >= 1 /\ (c <= s => M = 1..c) /\ MessageLimit \in Nat /\ MessageLimit >= 1
      /\ s >= MessageLimit
  <2>1. s \in Nat /\ (c <= s => M = 1..c)
    BY Counting
  <2>. QED
    BY <2>1, PageSized
<1>2. U \subseteq 1..c
  BY DEF Page
<1>3. Cardinality(U) >= MessageLimit
  <2>1. M \in SUBSET U
    OBVIOUS
  <2>2. Cardinality(M) <= Cardinality(U) /\ Cardinality(U) \in Nat
    BY <1>2, <2>1, Counting
  <2>. QED
    BY <1>1, <2>2
<1>. HIDE DEF s
<1>4. ASSUME c <= s + MessageLimit
      PROVE  1 \in U
  <2>1. CASE c <= s
    <3>1. M = 1..c /\ c # 0
      <4>1. c = 0 => s = 0
        <5>1. c = 0 => M = {}
          OBVIOUS
        <5>. QED
          BY <5>1, FS_EmptySet DEF s
      <4>. QED
        BY <1>1, <2>1, <4>1
    <3>. QED
      BY <3>1
  <2>2. CASE c > s
    <3>1. 1 \in 1..c /\ 1 <= c - s /\ 1 > c - s - MessageLimit
      BY <1>1, <1>4, <2>2
    <3>. QED
      BY <3>1 DEF Page
  <2>. QED
    BY <1>1, <2>1, <2>2
<1>5. ASSUME NEW first \in Nat, c <= first + 2 * MessageLimit, Range1(M, first)
      PROVE  Range1(U, first)
  <2>1. PICK lo \in Nat, hi \in Nat : 1 <= lo /\ lo <= hi + 1 /\ first <= hi /\ M = lo..hi
    BY <1>5 DEF Range1
  <2>2. s = hi - lo + 1 /\ lo <= hi
    <3>1. lo > hi => M = {}
      BY <2>1
    <3>2. lo <= hi
      BY <1>1, <2>1, <3>1, FS_EmptySet DEF s
    <3>. QED
      BY <2>1, <3>2, FS_Interval DEF s
  <2>3. hi <= c
    <3>1. hi \in M
      BY <2>1, <2>2
    <3>. QED
      BY <3>1
  <2>. DEFINE p == IF c - s - MessageLimit > 0 THEN c - s - MessageLimit + 1 ELSE 1
              q == c - s
              low == IF p < lo THEN p ELSE lo
              high == IF q > hi THEN q ELSE hi
  <2>4. CASE q < 1
    <3>1. Page(c, s) = {}
      BY <1>1, <2>4 DEF Page
    <3>. QED
      BY <1>5, <3>1
  <2>5. CASE q >= 1
    <3>1. q \in Nat /\ p \in Nat /\ 1 <= p /\ p <= hi + 1 /\ q >= lo - 1 /\ p <= q
      BY <1>1, <1>5, <2>1, <2>2, <2>3, <2>5
    <3>2. Page(c, s) = p..q
      BY <1>1, <2>5 DEF Page
    <3>. HIDE DEF p, q
    <3>3. (lo..hi) \union (p..q) = low..high
      BY <2>1, <2>2, <3>1
    <3>4. low \in Nat /\ high \in Nat /\ 1 <= low /\ low <= high + 1 /\ first <= high
      BY <2>1, <2>2, <3>1
    <3>. HIDE DEF low, high
    <3>. QED
      BY <2>1, <3>2, <3>3, <3>4 DEF Range1
  <2>. QED
    BY <1>1, <2>4, <2>5
<1>. QED
  BY <1>2, <1>3, <1>4, <1>5 DEF s

-----------------------------------------------------------------------------
(* The pane *)

\* A conversation that is there, or was, has messages.
RowsHave == \A t \in Threads : rows[t].folder # "new" => rows[t].count >= 1

\* A conversation gets messages and loses none, and one that is deleted does not come back.
RowsGrow ==
  \A t \in Threads :
    /\ rows[t].count \in Nat /\ rows'[t].count \in Nat /\ rows[t].count <= rows'[t].count
    /\ rows[t].folder # "new" => rows'[t].folder # "new"
    /\ rows[t].folder # "new" /\ There(t)' => There(t)

\* What is true of a detail, in whatever state it is shown.
Sound(d) ==
  /\ d.thread \in Threads /\ rows[d.thread].folder # "new"
  /\ d.messages \subseteq 1..rows[d.thread].count
  /\ There(d.thread) =>
       /\ d.more => Cardinality(d.messages) >= MessageLimit
       /\ d.more \/ 1 \in d.messages \/ d.read > d.total
       /\ rows[d.thread].count <= d.first + 2 * MessageLimit => Range1(d.messages, d.first)

\* An answer that found the conversation t: what it counted, before it reads.
CountTells(t, answer, offset) ==
  /\ t \in Threads /\ rows[t].folder # "new"
  /\ answer.messages = {} /\ 1 <= answer.total /\ answer.total <= rows[t].count
  /\ answer.more = (offset + MessageLimit < answer.total)

\* What is true of an openThread in flight, by the stage of its answer.
OpenSound(o) ==
  o.answer.there =>
    /\ o.at \in {"counted", "served"}
    /\ o.at = "counted" => CountTells(o.thread, o.answer, 0)
    /\ o.at = "served" => Sound(Opened(o.thread, o.answer))

\* And of a loadOlderMessages in flight.
OlderSound(o) ==
  /\ Sound(o.detail) /\ o.detail.more
  /\ o.answer.there =>
       /\ o.at # "asked"
       /\ o.at = "counted" => CountTells(o.detail.thread, o.answer, Cardinality(o.detail.messages))
       /\ o.at = "served" => Sound(Extended(o.detail, o.answer))

\* The inductive invariant of the pane.
PaneInv ==
  /\ RowsHave
  /\ PaneShows
  /\ detail # NoDetail => Sound(detail)
  /\ \A o \in opens : OpenSound(o)
  /\ \A o \in olders : OlderSound(o)

\* The fields of the details that are made of an answer.
LEMMA Fields ==
  ASSUME NEW answer \in Answers, NEW t \in Conversations, NEW d \in Details
  PROVE  /\ Opened(t, answer).thread = t /\ Opened(t, answer).messages = answer.messages
         /\ Opened(t, answer).more = answer.more /\ Opened(t, answer).read = answer.read
         /\ Opened(t, answer).total = answer.total /\ Opened(t, answer).first = answer.total
         /\ Extended(d, answer).thread = d.thread
         /\ Extended(d, answer).messages = d.messages \union answer.messages
         /\ Extended(d, answer).more = answer.more /\ Extended(d, answer).read = answer.read
         /\ Extended(d, answer).total = answer.total /\ Extended(d, answer).first = d.first
BY DEF Opened, Extended, NoDetail, Details, Answers

\* Whatever moves in the list, the conversations only grow.
LEMMA RowsMove ==
  ASSUME ListTypeOK, ListMove, RowsHave
  PROVE  RowsGrow /\ RowsHave'
<1>. USE DEF listVars, server, view
<1>1. \A t \in Threads : rows[t].count \in Nat
  BY DEF ListTypeOK
<1>2. CASE UNCHANGED rows
  BY <1>1, <1>2 DEF RowsGrow, RowsHave, There
<1>3. ASSUME NEW t \in Threads, NEW f \in Folders, AddMessage(t, f), rows[t].folder # "gone"
      PROVE  RowsGrow /\ RowsHave'
  <2>1. f # "new" /\ f # "gone"
    BY ListAssumption
  <2>2. /\ rows'[t].folder = f /\ rows'[t].count = rows[t].count + 1
        /\ \A s \in Threads \ {t} : rows'[s] = rows[s]
    BY <1>3 DEF AddMessage, ListTypeOK
  <2>. QED
    BY <1>1, <1>3, <2>1, <2>2 DEF RowsGrow, RowsHave, There
<1>4. ASSUME NEW t \in Threads, NEW f \in Folders \union {"gone"}, MoveTo(t, f), There(t)
      PROVE  RowsGrow /\ RowsHave'
  <2>1. f # "new"
    BY ListAssumption
  <2>2. /\ rows'[t].folder = f /\ rows'[t].count = rows[t].count
        /\ \A s \in Threads \ {t} : rows'[s] = rows[s]
    BY <1>4 DEF MoveTo, ListTypeOK
  <2>. QED
    BY <1>1, <1>4, <2>1, <2>2 DEF RowsGrow, RowsHave, There
<1>. QED
  BY <1>2, <1>3, <1>4 DEF ListMove, Ask, LoadServed, LoadShown, LoadFails

\* What is sound stays so when messages come in.
LEMMA SoundStays ==
  ASSUME RowsGrow, NEW d \in Details, Sound(d)
  PROVE  Sound(d)'
<1>. DEFINE t == d.thread
            c == rows[t].count
            e == rows'[t].count
<1>1. /\ t \in Threads /\ c \in Nat /\ e \in Nat /\ c <= e /\ rows'[t].folder # "new"
      /\ There(t)' => There(t)
  BY DEF Sound, RowsGrow
<1>2. d.messages \subseteq 1..c /\ d.first \in Nat
  BY DEF Sound, Details
<1>3. There(t) =>
        /\ d.more => Cardinality(d.messages) >= MessageLimit
        /\ d.more \/ 1 \in d.messages \/ d.read > d.total
        /\ c <= d.first + 2 * MessageLimit => Range1(d.messages, d.first)
  BY DEF Sound
<1>. HIDE DEF c, e
<1>4. d.messages \subseteq 1..e
  BY <1>1, <1>2
<1>5. e <= d.first + 2 * MessageLimit => c <= d.first + 2 * MessageLimit
  BY <1>1, <1>2, PageSized
<1>6. There(t)' =>
        /\ d.more => Cardinality(d.messages) >= MessageLimit
        /\ d.more \/ 1 \in d.messages \/ d.read > d.total
        /\ e <= d.first + 2 * MessageLimit => Range1(d.messages, d.first)
  BY <1>1, <1>3, <1>5
<1>. QED
  BY <1>1, <1>4, <1>6 DEF Sound, c, e, Range1

\* What was counted is there still when messages come in.
LEMMA CountStays ==
  ASSUME RowsGrow, NEW t, NEW answer \in Answers, NEW offset, CountTells(t, answer, offset)
  PROVE  CountTells(t, answer, offset)'
<1>. DEFINE c == rows[t].count
            e == rows'[t].count
<1>1. c \in Nat /\ e \in Nat /\ c <= e /\ rows'[t].folder # "new" /\ t \in Threads
  BY DEF CountTells, RowsGrow
<1>2. answer.total \in Nat /\ answer.total <= c
  BY DEF CountTells, Answers
<1>. HIDE DEF c, e
<1>3. answer.total <= e
  BY <1>1, <1>2
<1>. QED
  BY <1>1, <1>3 DEF CountTells, e

\* What a count tells.
LEMMA CountSound ==
  ASSUME ListTypeOK, RowsHave, NEW t \in Conversations, NEW offset \in Nat,
         countMessages(t, offset).there
  PROVE  CountTells(t, countMessages(t, offset), offset)
<1>1. t # NoThread /\ There(t)
  BY DEF countMessages, NoAnswer
<1>2. t \in Threads /\ rows[t].count \in Nat
  BY <1>1 DEF ListTypeOK, Conversations
<1>3. rows[t].folder # "new" /\ rows[t].count >= 1
  BY <1>1, <1>2 DEF There, RowsHave
<1>4. countMessages(t, offset) =
        [there |-> TRUE, messages |-> {}, more |-> offset + MessageLimit < rows[t].count,
         total |-> rows[t].count, read |-> 0]
  BY <1>1 DEF countMessages, NoAnswer
<1>. QED
  BY <1>2, <1>3, <1>4 DEF CountTells

\* What is read after a count.
LEMMA Reading ==
  ASSUME ListTypeOK, NEW t \in Threads, NEW offset \in Nat, NEW answer \in Answers, answer.there
  PROVE  /\ readMessages(t, offset, answer).more = answer.more
         /\ readMessages(t, offset, answer).total = answer.total
         /\ readMessages(t, offset, answer).there
         /\ ~There(t) => readMessages(t, offset, answer) = answer
         /\ There(t) => /\ readMessages(t, offset, answer).read = rows[t].count
                        /\ readMessages(t, offset, answer).messages = Page(rows[t].count, offset)
<1>1. CASE There(t)
  <2>1. readMessages(t, offset, answer) =
          [answer EXCEPT !.read = rows[t].count, !.messages = Page(rows[t].count, offset)]
    BY <1>1 DEF readMessages, Page
  <2>. QED
    BY <1>1, <2>1 DEF Answers
<1>2. CASE ~There(t)
  BY <1>2 DEF readMessages
<1>. QED
  BY <1>1, <1>2

\* A conversation that is opened is sound as soon as it was read.
LEMMA OpenRead ==
  ASSUME ListTypeOK, NEW t \in Threads, NEW answer \in Answers, answer.there, CountTells(t, answer, 0)
  PROVE  Sound(Opened(t, readMessages(t, 0, answer)))
<1>. DEFINE got == readMessages(t, 0, answer)
            c == rows[t].count
            d == Opened(t, got)
<1>1. got \in Answers /\ 0 \in Nat /\ NoDetail \in Details /\ t \in Conversations
  BY AnswerTypes DEF Conversations
<1>2. /\ got.more = answer.more /\ got.total = answer.total
      /\ ~There(t) => got = answer
      /\ There(t) => got.read = c /\ got.messages = Page(c, 0)
  BY <1>1, Reading
<1>. HIDE DEF got
<1>3. /\ d.thread = t /\ d.messages = got.messages /\ d.more = got.more /\ d.read = got.read
      /\ d.total = got.total /\ d.first = got.total
  BY <1>1, Fields
<1>. HIDE DEF d
<1>4. c \in Nat /\ answer.total \in Nat
  BY DEF ListTypeOK, Answers
<1>5. /\ rows[t].folder # "new" /\ answer.messages = {} /\ 1 <= answer.total /\ answer.total <= c
      /\ answer.more = (0 + MessageLimit < answer.total)
  BY DEF CountTells
<1>. HIDE DEF c
<1>6. CASE ~There(t)
  BY <1>2, <1>3, <1>5, <1>6 DEF Sound, d, got
<1>7. CASE There(t)
  <2>1. got.messages = Page(c, 0) /\ got.read = c /\ c >= 1
    BY <1>2, <1>4, <1>5, <1>7
  <2>2. /\ Page(c, 0) \subseteq 1..c
        /\ c > MessageLimit => Cardinality(Page(c, 0)) >= MessageLimit
        /\ c <= MessageLimit => 1 \in Page(c, 0)
        /\ Range1(Page(c, 0), answer.total)
    BY <1>4, <1>5, <2>1, FirstPage
  <2>. DEFINE all == answer.total
  <2>8. all \in Nat /\ all <= c /\ answer.more = (0 + MessageLimit < all)
    BY <1>4, <1>5
  <2>. HIDE DEF all
  <2>9. /\ 0 + MessageLimit < all => c > MessageLimit
        /\ ~(0 + MessageLimit < all) => c <= MessageLimit \/ c > all
    BY <1>4, <2>8, PageSized
  <2>3. answer.more => c > MessageLimit
    BY <2>8, <2>9
  <2>4. ~answer.more => c <= MessageLimit \/ c > answer.total
    BY <2>8, <2>9 DEF all
  <2>5. /\ d.more => Cardinality(d.messages) >= MessageLimit
        /\ d.more \/ 1 \in d.messages \/ d.read > d.total
        /\ Range1(d.messages, d.first)
    BY <1>2, <1>3, <2>1, <2>2, <2>3, <2>4
  <2>6. d.messages \subseteq 1..rows[d.thread].count /\ rows[d.thread].folder # "new"
    BY <1>3, <1>5, <2>1, <2>2 DEF c
  <2>. QED
    BY <1>3, <2>5, <2>6 DEF Sound, d, got
<1>. QED
  BY <1>6, <1>7

\* And so is one that is extended by an older page.
LEMMA OlderRead ==
  ASSUME ListTypeOK, NEW d \in Details, Sound(d), d.more, NEW answer \in Answers, answer.there,
         CountTells(d.thread, answer, Cardinality(d.messages))
  PROVE  Sound(Extended(d, readMessages(d.thread, Cardinality(d.messages), answer)))
<1>. DEFINE t == d.thread
            s == Cardinality(d.messages)
            got == readMessages(t, s, answer)
            c == rows[t].count
            x == Extended(d, got)
<1>1. /\ t \in Threads /\ rows[t].folder # "new" /\ d.messages \subseteq 1..c
      /\ There(t) => /\ s >= MessageLimit
                     /\ c <= d.first + 2 * MessageLimit => Range1(d.messages, d.first)
  BY DEF Sound
<1>2. c \in Nat /\ answer.total \in Nat /\ d.first \in Nat
  BY <1>1 DEF ListTypeOK, Answers, Details
<1>3. /\ 1 <= answer.total /\ answer.total <= c /\ answer.messages = {}
      /\ answer.more = (s + MessageLimit < answer.total)
  BY DEF CountTells
<1>4. s \in Nat /\ t \in Conversations
  BY <1>1, <1>2, Counting DEF Conversations
<1>. HIDE DEF t, s, c
<1>5. got \in Answers
  BY <1>1, <1>4, AnswerTypes
<1>6. /\ got.more = answer.more /\ got.total = answer.total
      /\ ~There(t) => got = answer
      /\ There(t) => got.read = c /\ got.messages = Page(c, s)
  BY <1>1, <1>4, Reading DEF c
<1>. HIDE DEF got
<1>7. /\ x.thread = t /\ x.messages = d.messages \union got.messages /\ x.more = got.more
      /\ x.read = got.read /\ x.total = got.total /\ x.first = d.first
  BY <1>4, <1>5, Fields DEF t
<1>. HIDE DEF x
<1>8. CASE ~There(t)
  <2>1. x.messages = d.messages
    BY <1>3, <1>6, <1>7, <1>8
  <2>2. Sound(x)
    BY <1>1, <1>7, <1>8, <2>1 DEF Sound, c
  <2>. QED
    BY <2>2 DEF x, got, t, s
<1>9. CASE There(t)
  <2>1. got.messages = Page(c, s) /\ got.read = c /\ s >= MessageLimit
    BY <1>1, <1>6, <1>9
  <2>. DEFINE U == d.messages \union Page(c, s)
  <2>2. /\ U \subseteq 1..c /\ Cardinality(U) >= MessageLimit
        /\ c <= s + MessageLimit => 1 \in U
        /\ \A first \in Nat :
              c <= first + 2 * MessageLimit /\ Range1(d.messages, first) => Range1(U, first)
    BY <1>1, <1>2, <2>1, NextPage DEF s
  <2>. HIDE DEF U
  <2>. DEFINE all == answer.total
  <2>8. all \in Nat /\ all <= c /\ answer.more = (s + MessageLimit < all)
    BY <1>2, <1>3
  <2>. HIDE DEF all
  <2>9. ~(s + MessageLimit < all) => c <= s + MessageLimit \/ c > all
    BY <1>2, <1>4, <2>8, PageSized
  <2>3. ~answer.more => c <= s + MessageLimit \/ c > answer.total
    BY <2>8, <2>9 DEF all
  <2>4. x.messages = U
    BY <1>7, <2>1 DEF U
  <2>5. /\ Cardinality(x.messages) >= MessageLimit
        /\ x.more \/ 1 \in x.messages \/ x.read > x.total
        /\ c <= x.first + 2 * MessageLimit => Range1(x.messages, x.first)
    BY <1>1, <1>2, <1>6, <1>7, <1>9, <2>1, <2>2, <2>3, <2>4
  <2>6. Sound(x)
    BY <1>1, <1>7, <2>2, <2>4, <2>5 DEF Sound, c
  <2>. QED
    BY <2>6 DEF x, got, t, s
<1>. QED
  BY <1>8, <1>9

\* What is sound of the pane, or of a call in flight, stays so whatever happens to the conversations.
LEMMA PaneStays ==
  ASSUME DetailTypeOK, RowsGrow, PaneInv
  PROVE  /\ \A d \in Details : Sound(d) => Sound(d)'
         /\ \A o \in opens : OpenSound(o)'
         /\ \A o \in olders : OlderSound(o)'
<1>1. \A d \in Details : Sound(d) => Sound(d)'
  BY SoundStays
<1>2. ASSUME NEW o \in opens
      PROVE  OpenSound(o)'
  <2>1. o.thread \in Conversations /\ o.answer \in Answers /\ OpenSound(o)
    BY DEF DetailTypeOK, PaneInv
  <2>2. Opened(o.thread, o.answer) \in Details
    <3>1. NoDetail \in Details
      BY DEF NoDetail, Details, Conversations
    <3>. QED
      BY <2>1, <3>1 DEF Opened, Details, Answers
  <2>3. CountTells(o.thread, o.answer, 0) => CountTells(o.thread, o.answer, 0)'
    BY <2>1, CountStays
  <2>4. Sound(Opened(o.thread, o.answer)) => Sound(Opened(o.thread, o.answer))'
    BY <2>2, SoundStays
  <2>. QED
    BY <2>1, <2>3, <2>4 DEF OpenSound
<1>3. ASSUME NEW o \in olders
      PROVE  OlderSound(o)'
  <2>. DEFINE s == Cardinality(o.detail.messages)
  <2>1. o.detail \in Details /\ o.answer \in Answers /\ OlderSound(o)
    BY DEF DetailTypeOK, PaneInv
  <2>2. Extended(o.detail, o.answer) \in Details
    BY <2>1 DEF Extended, Details, Answers
  <2>3. CountTells(o.detail.thread, o.answer, s) => CountTells(o.detail.thread, o.answer, s)'
    BY <2>1, CountStays
  <2>4. Sound(Extended(o.detail, o.answer)) => Sound(Extended(o.detail, o.answer))'
    BY <2>2, SoundStays
  <2>5. Sound(o.detail)'
    BY <2>1, SoundStays DEF OlderSound
  <2>. QED
    BY <2>1, <2>3, <2>4, <2>5 DEF OlderSound
<1>. QED
  BY <1>1, <1>2, <1>3

\* The calls in flight can be typed.
LEMMA PaneReadable ==
  ASSUME ListTypeOK, DetailTypeOK, PaneInv
  PROVE  Readable
<1>1. ASSUME NEW o \in opens, o.answer.there
      PROVE  o.thread \in Threads
  <2>1. OpenSound(o) /\ o.at \in Stages /\ o.answer \in Answers /\ o.thread \in Conversations
    BY DEF PaneInv, DetailTypeOK
  <2>2. Opened(o.thread, o.answer).thread = o.thread
    BY DEF Opened, NoDetail
  <2>. QED
    BY <1>1, <2>1, <2>2 DEF OpenSound, CountTells, Sound, Stages
<1>2. ASSUME NEW o \in olders
      PROVE  IsFiniteSet(o.detail.messages) /\ o.detail.thread \in Threads
  <2>1. Sound(o.detail)
    BY DEF PaneInv, OlderSound
  <2>2. o.detail.thread \in Threads /\ o.detail.messages \subseteq 1..rows[o.detail.thread].count
        /\ rows[o.detail.thread].count \in Nat
    BY <2>1 DEF Sound, ListTypeOK
  <2>. QED
    BY <2>2, Counting
<1>. QED
  BY <1>1, <1>2 DEF Readable

\* A detail that is shown is sound, whatever its object.
LEMMA ShownSound ==
  ASSUME RowsGrow, NEW d \in Details, Sound(d), NEW id, detail' = [d EXCEPT !.id = id]
  PROVE  Sound(detail)' /\ detail'.thread = d.thread /\ d.thread \in Threads
<1>1. /\ detail'.thread = d.thread /\ detail'.messages = d.messages /\ detail'.more = d.more
      /\ detail'.read = d.read /\ detail'.total = d.total /\ detail'.first = d.first
  BY DEF Details
<1>2. Sound(d)'
  BY SoundStays
<1>. QED
  BY <1>1, <1>2 DEF Sound, Range1

\* Every step of the pane, or of what it shows, keeps its invariant.
LEMMA PaneStep ==
  ASSUME ListTypeOK, DetailTypeOK, ListMove, DetailMove, PaneInv
  PROVE  PaneInv'
<1>1. RowsGrow /\ RowsHave'
  BY RowsMove DEF PaneInv
<1>2. /\ \A d \in Details : Sound(d) => Sound(d)'
      /\ \A o \in opens : OpenSound(o)'
      /\ \A o \in olders : OlderSound(o)'
  BY <1>1, PaneStays
<1>3. PaneShows /\ (detail # NoDetail => Sound(detail)) /\ detail \in Details
  BY DEF PaneInv, DetailTypeOK
<1>4. CASE UNCHANGED detailVars
  BY <1>1, <1>2, <1>3, <1>4 DEF detailVars, PaneInv, PaneShows
<1>5. CASE closeDetail
  BY <1>1, <1>2, <1>5 DEF closeDetail, PaneInv, PaneShows
<1>6. CASE NoAnswerComes
  BY <1>1, <1>2, <1>3, <1>6 DEF NoAnswerComes, OpenFails, OlderFails, PaneInv, PaneShows
<1>7. ASSUME NEW t \in Conversations, openThread(t), UNCHANGED rows
      PROVE  PaneInv'
  <2>1. PICK new : new = [request |-> request', thread |-> t, at |-> "asked", answer |-> NoAnswer]
    OBVIOUS
  <2>2. OpenSound(new)'
    BY <2>1 DEF OpenSound, NoAnswer
  <2>3. opens' = opens \union {new} /\ pane' = NoDetail /\ UNCHANGED <<detail, olders>>
    BY <1>7, <2>1 DEF openThread
  <2>4. \A o \in opens' : OpenSound(o)'
    BY <1>2, <2>2, <2>3
  <2>. QED
    BY <1>1, <1>2, <1>3, <2>3, <2>4 DEF PaneInv, PaneShows
<1>8. CASE loadOlderMessages
  <2>0. PICK new : new = [detail |-> detail, at |-> "asked", answer |-> NoAnswer]
    OBVIOUS
  <2>1. detail.more /\ pane # NoDetail /\ UNCHANGED <<detail, pane, selected, opens>>
        /\ olders' = olders \union {new}
    BY <1>8, <2>0 DEF loadOlderMessages
  <2>2. new.detail \in Details /\ new.detail.more /\ Sound(new.detail) /\ ~new.answer.there
    BY <1>3, <2>0, <2>1 DEF PaneShows, NoAnswer
  <2>3. OlderSound(new)'
    BY <1>2, <2>2 DEF OlderSound
  <2>4. \A o \in olders' : OlderSound(o)'
    BY <1>2, <2>1, <2>3
  <2>. QED
    BY <1>1, <1>2, <1>3, <2>1, <2>4 DEF PaneInv, PaneShows
<1>9. ASSUME NEW o \in opens, UNCHANGED rows,
             OpenCounted(o) \/ OpenServed(o) \/ OpenShown(o) \/ MarkedRead(o)
      PROVE  PaneInv'
  <2>1. o.thread \in Conversations /\ o.answer \in Answers /\ o.at \in Stages /\ OpenSound(o)
    BY DEF DetailTypeOK, PaneInv
  <2>2. CASE OpenCounted(o)
    <3>1. PICK new : new = [o EXCEPT !.at = "counted", !.answer = countMessages(o.thread, 0)]
      OBVIOUS
    <3>2. new.thread = o.thread /\ new.at = "counted" /\ new.answer = countMessages(o.thread, 0)
      BY <3>1 DEF DetailTypeOK
    <3>3. countMessages(o.thread, 0) \in Answers
      BY <2>1, AnswerTypes
    <3>4. new.answer.there => CountTells(new.thread, new.answer, 0)
      BY <2>1, <3>2, CountSound DEF PaneInv
    <3>5. new.answer.there => CountTells(new.thread, new.answer, 0)'
      BY <1>1, <3>2, <3>3, <3>4, CountStays
    <3>6. OpenSound(new)'
      BY <3>2, <3>5 DEF OpenSound
    <3>7. opens' = (opens \ {o}) \union {new} /\ UNCHANGED <<selected, detail, pane, olders>>
      BY <2>2, <3>1 DEF OpenCounted
    <3>8. \A a \in opens' : OpenSound(a)'
      BY <1>2, <3>6, <3>7
    <3>. QED
      BY <1>1, <1>2, <1>3, <3>7, <3>8 DEF PaneInv, PaneShows
  <2>3. CASE OpenServed(o)
    <3>1. PICK new : new = [o EXCEPT !.at = "served", !.answer = readMessages(o.thread, 0, o.answer)]
      OBVIOUS
    <3>2. new.thread = o.thread /\ new.at = "served" /\ new.answer = readMessages(o.thread, 0, o.answer)
      BY <3>1 DEF DetailTypeOK
    <3>3. o.at = "counted"
      BY <2>3 DEF OpenServed
    <3>4. ASSUME new.answer.there
          PROVE  Sound(Opened(new.thread, new.answer))'
      <4>1. o.answer.there
        BY <3>2, <3>4 DEF readMessages
      <4>2. CountTells(o.thread, o.answer, 0) /\ o.thread \in Threads
        BY <2>1, <3>3, <4>1 DEF OpenSound, CountTells
      <4>3. Sound(Opened(new.thread, new.answer))
        BY <2>1, <3>2, <4>1, <4>2, OpenRead
      <4>4. Opened(new.thread, new.answer) \in Details
        BY <2>1, <3>2, <4>2, AnswerTypes
      <4>. QED
        BY <1>1, <4>3, <4>4, SoundStays
    <3>5. OpenSound(new)'
      BY <3>2, <3>4 DEF OpenSound
    <3>6. opens' = (opens \ {o}) \union {new} /\ UNCHANGED <<selected, detail, pane, olders>>
      BY <2>3, <3>1 DEF OpenServed
    <3>7. \A a \in opens' : OpenSound(a)'
      BY <1>2, <3>5, <3>6
    <3>. QED
      BY <1>1, <1>2, <1>3, <3>6, <3>7 DEF PaneInv, PaneShows
  <2>4. CASE OpenShown(o)
    <3>1. \A a \in opens' : OpenSound(a)'
      <4>1. PICK new : new = [o EXCEPT !.at = "marking", !.answer = NoAnswer]
        OBVIOUS
      <4>2. new.at = "marking" /\ new.answer = NoAnswer
        BY <4>1 DEF DetailTypeOK
      <4>3. OpenSound(new)'
        BY <4>2 DEF OpenSound, NoAnswer
      <4>4. opens' \subseteq opens \union {new}
        BY <2>4, <4>1 DEF OpenShown
      <4>. QED
        BY <1>2, <4>3, <4>4
    <3>2. UNCHANGED <<selected, olders>>
      BY <2>4 DEF OpenShown
    <3>3. CASE detail' = detail /\ pane' \in {pane, NoDetail}
      BY <1>1, <1>2, <1>3, <3>1, <3>2, <3>3 DEF PaneInv, PaneShows
    <3>4. CASE selected = o.thread /\ o.answer.there /\ Show(Opened(o.thread, o.answer))
      <4>1. PICK d : d = Opened(o.thread, o.answer)
        OBVIOUS
      <4>2. d \in Details /\ d.thread = o.thread /\ Sound(d)
        <5>1. o.at = "served" /\ Sound(d)
          BY <2>1, <2>4, <3>4, <4>1 DEF OpenShown, OpenSound
        <5>. QED
          BY <2>1, <4>1, <5>1, Fields, AnswerTypes
      <4>3. detail' = [d EXCEPT !.id = objects'] /\ pane' = detail'
        BY <3>4, <4>1 DEF Show
      <4>. QED
        BY <1>1, <1>2, <3>1, <3>2, <3>4, <4>2, <4>3, ShownSound DEF PaneInv, PaneShows
    <3>. QED
      BY <2>4, <3>3, <3>4 DEF OpenShown, IsLast
  <2>5. CASE MarkedRead(o)
    BY <1>1, <1>2, <1>3, <2>5 DEF MarkedRead, PaneInv, PaneShows
  <2>. QED
    BY <1>9, <2>2, <2>3, <2>4, <2>5
<1>10. ASSUME NEW o \in olders, UNCHANGED rows, OlderCounted(o) \/ OlderServed(o) \/ OlderShown(o)
       PROVE  PaneInv'
  <2>1. o.detail \in Details /\ o.answer \in Answers /\ o.at \in Stages /\ OlderSound(o)
    BY DEF DetailTypeOK, PaneInv
  <2>2. PICK s : s = Cardinality(o.detail.messages)
    OBVIOUS
  <2>3. s \in Nat /\ o.detail.thread \in Threads /\ o.detail.thread \in Conversations
    <3>1. IsFiniteSet(o.detail.messages) /\ Sound(o.detail)
      BY <2>1, PaneReadable DEF Readable, OlderSound
    <3>. QED
      BY <2>2, <3>1, FS_CardinalityType DEF Sound, Conversations
  <2>4. CASE OlderCounted(o)
    <3>1. PICK new : new = [o EXCEPT !.at = "counted", !.answer = countMessages(o.detail.thread, s)]
      OBVIOUS
    <3>2. /\ new.detail = o.detail /\ new.at = "counted"
          /\ new.answer = countMessages(o.detail.thread, s)
      BY <3>1 DEF DetailTypeOK
    <3>3. countMessages(o.detail.thread, s) \in Answers
      BY <2>3, AnswerTypes
    <3>4. new.answer.there => CountTells(new.detail.thread, new.answer, s)
      BY <2>3, <3>2, CountSound DEF PaneInv
    <3>5. new.answer.there => CountTells(new.detail.thread, new.answer, s)'
      BY <1>1, <3>2, <3>3, <3>4, CountStays
    <3>6. Sound(new.detail)' /\ new.detail.more
      BY <1>2, <2>1, <3>2 DEF OlderSound
    <3>7. OlderSound(new)'
      BY <2>2, <3>2, <3>5, <3>6 DEF OlderSound
    <3>8. olders' = (olders \ {o}) \union {new} /\ UNCHANGED <<selected, detail, pane, opens>>
      BY <2>2, <2>4, <3>1 DEF OlderCounted
    <3>9. \A a \in olders' : OlderSound(a)'
      BY <1>2, <3>7, <3>8
    <3>. QED
      BY <1>1, <1>2, <1>3, <3>8, <3>9 DEF PaneInv, PaneShows
  <2>5. CASE OlderServed(o)
    <3>1. PICK new :
            new = [o EXCEPT !.at = "served", !.answer = readMessages(o.detail.thread, s, o.answer)]
      OBVIOUS
    <3>2. /\ new.detail = o.detail /\ new.at = "served"
          /\ new.answer = readMessages(o.detail.thread, s, o.answer)
      BY <3>1 DEF DetailTypeOK
    <3>3. o.at = "counted"
      BY <2>5 DEF OlderServed
    <3>4. ASSUME new.answer.there
          PROVE  Sound(Extended(new.detail, new.answer))'
      <4>1. o.answer.there
        BY <3>2, <3>4 DEF readMessages
      <4>2. CountTells(o.detail.thread, o.answer, s) /\ Sound(o.detail) /\ o.detail.more
        BY <2>1, <2>2, <3>3, <4>1 DEF OlderSound
      <4>3. Sound(Extended(new.detail, new.answer))
        BY <2>1, <2>2, <3>2, <4>1, <4>2, OlderRead
      <4>4. Extended(new.detail, new.answer) \in Details
        BY <2>1, <2>3, <3>2, AnswerTypes
      <4>. QED
        BY <1>1, <4>3, <4>4, SoundStays
    <3>5. Sound(new.detail)' /\ new.detail.more
      BY <1>2, <2>1, <3>2 DEF OlderSound
    <3>6. OlderSound(new)'
      BY <3>2, <3>4, <3>5 DEF OlderSound
    <3>7. olders' = (olders \ {o}) \union {new} /\ UNCHANGED <<selected, detail, pane, opens>>
      BY <2>2, <2>5, <3>1 DEF OlderServed
    <3>8. \A a \in olders' : OlderSound(a)'
      BY <1>2, <3>6, <3>7
    <3>. QED
      BY <1>1, <1>2, <1>3, <3>7, <3>8 DEF PaneInv, PaneShows
  <2>6. CASE OlderShown(o)
    <3>1. \A a \in olders' : OlderSound(a)'
      BY <1>2, <2>6 DEF OlderShown
    <3>2. UNCHANGED <<selected, opens>>
      BY <2>6 DEF OlderShown
    <3>3. CASE UNCHANGED <<detail, pane>>
      BY <1>1, <1>2, <1>3, <3>1, <3>2, <3>3 DEF PaneInv, PaneShows
    <3>4. CASE selected = o.detail.thread /\ o.answer.there /\ Show(Extended(o.detail, o.answer))
      <4>1. PICK d : d = Extended(o.detail, o.answer)
        OBVIOUS
      <4>2. d \in Details /\ d.thread = o.detail.thread /\ Sound(d)
        <5>1. o.at = "served" /\ Sound(d)
          BY <2>1, <2>6, <3>4, <4>1 DEF OlderShown, OlderSound
        <5>. QED
          BY <2>1, <2>3, <4>1, <5>1, Fields, AnswerTypes
      <4>3. detail' = [d EXCEPT !.id = objects'] /\ pane' = detail'
        BY <3>4, <4>1 DEF Show
      <4>. QED
        BY <1>1, <1>2, <3>1, <3>2, <3>4, <4>2, <4>3, ShownSound DEF PaneInv, PaneShows
    <3>. QED
      BY <2>6, <3>3, <3>4 DEF OlderShown
  <2>. QED
    BY <1>10, <2>4, <2>5, <2>6
<1>. QED
  BY <1>4, <1>5, <1>6, <1>7, <1>8, <1>9, <1>10 DEF DetailMove, Answer

\* What the invariant says of the pane is that it is whole.
LEMMA PaneWhole ==
  ASSUME ListTypeOK, DetailTypeOK, PaneInv
  PROVE  PaneIsWhole
<1>. SUFFICES ASSUME pane # NoDetail PROVE
       /\ pane.thread = selected /\ pane = detail
       /\ There(pane.thread) =>
            /\ rows[pane.thread].count <= pane.first + 2 * MessageLimit =>
                 \A n \in pane.messages : \A k \in n..rows[pane.thread].count :
                   k \in pane.messages \/ \A j \in pane.messages : j < k
            /\ pane.more \/ 1 \in pane.messages \/ pane.read > pane.total
  BY DEF PaneIsWhole
<1>1. pane = detail /\ selected = pane.thread /\ pane.thread \in Threads /\ Sound(pane)
  BY DEF PaneInv, PaneShows
<1>2. ASSUME There(pane.thread), rows[pane.thread].count <= pane.first + 2 * MessageLimit,
             NEW n \in pane.messages, NEW k \in n..rows[pane.thread].count
      PROVE  k \in pane.messages \/ \A j \in pane.messages : j < k
  <2>1. Range1(pane.messages, pane.first)
    BY <1>1, <1>2 DEF Sound
  <2>2. PICK lo \in Nat, hi \in Nat : pane.messages = lo..hi
    BY <2>1 DEF Range1
  <2>3. n \in Nat /\ lo <= n /\ k \in Int /\ n <= k
    BY <2>2
  <2>. QED
    BY <2>2, <2>3
<1>. QED
  BY <1>1, <1>2 DEF Sound

\* Nothing is shown at first.
LEMMA PaneInit ==
  ListInit /\ DetailInit => PaneInv
<1>. SUFFICES ASSUME ListInit, DetailInit PROVE PaneInv
  OBVIOUS
<1>1. RowsHave
  BY ListAssumption DEF ListInit, RowsHave
<1>. QED
  BY <1>1 DEF DetailInit, PaneInv, PaneShows

-----------------------------------------------------------------------------
(* The list *)

\* A sequence holds an element once, or not at all.
Once(s, t) == \E n \in 1..Len(s) : s[n] = t /\ \A m \in 1..Len(s) : s[m] = t => m = n
Never(s, t) == \A n \in 1..Len(s) : s[n] # t
Holds(s, t, wanted) == (wanted => Once(s, t)) /\ (~wanted => Never(s, t))

\* One cursor is after another one.
After(a, b) == b = NoCursor \/ a.at < b.at \/ (a.at = b.at /\ a.thread < b.thread)

\* Whether t is to be among what was listed of f, up to c if there is more.
Wanted(t, f, more, c) == rows[t].folder = f /\ (more => ~Below(t, c))

\* The conversations of the page that was served.
PageThreads == [n \in 1..Len(load.page) |-> load.page[n].thread]

\* The list that is shown, as long as no first page is on its way.
ListShown ==
  ~spoiled /\ listed # "none" /\ ~(Loading /\ load.reset) =>
    \A t \in Threads \ moved : Holds(threads, t, Wanted(t, listed, hasMore, cursor))

\* A page that was served goes from the cursor it was asked with to its last conversation.
PageServed ==
  load.at = "served" =>
    /\ load.more => After(Last(load.page), load.cursor) /\ Last(load.page) # NoCursor
    /\ \A t \in Threads \ moved :
         Holds(PageThreads, t,
               Below(t, load.cursor) /\ Wanted(t, load.folder, load.more, Last(load.page)))

\* A load begins at the start, or where the list ends.
LoadFollows ==
  Loading => IF load.reset THEN load.cursor = NoCursor
             ELSE hasMore /\ load.cursor = cursor /\ (~spoiled => load.folder = listed)

\* The inductive invariant of the list.
ListInv == ListShown /\ PageServed /\ LoadFollows

\* A sequence that goes on after another one.
LEMMA HoldsConcat ==
  ASSUME NEW S, NEW a \in Seq(S), NEW b \in Seq(S), NEW t
  PROVE  /\ Once(a, t) /\ Never(b, t) => Once(a \o b, t)
         /\ Never(a, t) /\ Once(b, t) => Once(a \o b, t)
         /\ Never(a, t) /\ Never(b, t) => Never(a \o b, t)
<1>. DEFINE c == a \o b
<1>1. /\ Len(a) \in Nat /\ Len(b) \in Nat /\ Len(c) = Len(a) + Len(b)
      /\ \A n \in 1..Len(a) : c[n] = a[n]
      /\ \A n \in Len(a) + 1..Len(a) + Len(b) : c[n] = b[n - Len(a)]
  BY ConcatProperties, LenProperties
<1>. HIDE DEF c
<1>2. ASSUME NEW n \in 1..Len(c)
      PROVE  n \in 1..Len(a) \/ (n \in Len(a) + 1..Len(a) + Len(b) /\ n - Len(a) \in 1..Len(b))
  BY <1>1
<1>3. ASSUME Once(a, t), Never(b, t)
      PROVE  Once(c, t)
  <2>1. PICK n \in 1..Len(a) : a[n] = t /\ \A m \in 1..Len(a) : a[m] = t => m = n
    BY <1>3 DEF Once
  <2>2. n \in 1..Len(c) /\ c[n] = t
    BY <1>1, <2>1
  <2>3. ASSUME NEW m \in 1..Len(c), c[m] = t
        PROVE  m = n
    BY <1>1, <1>2, <1>3, <2>1, <2>3 DEF Never
  <2>. QED
    BY <2>2, <2>3 DEF Once
<1>4. ASSUME Never(a, t), Once(b, t)
      PROVE  Once(c, t)
  <2>1. PICK n \in 1..Len(b) : b[n] = t /\ \A m \in 1..Len(b) : b[m] = t => m = n
    BY <1>4 DEF Once
  <2>2. /\ n + Len(a) \in Len(a) + 1..Len(a) + Len(b) /\ n + Len(a) \in 1..Len(c)
        /\ (n + Len(a)) - Len(a) = n
    BY <1>1
  <2>3. c[n + Len(a)] = t
    BY <1>1, <2>1, <2>2
  <2>4. ASSUME NEW m \in 1..Len(c), c[m] = t
        PROVE  m = n + Len(a)
    <3>1. m \notin 1..Len(a)
      BY <1>1, <1>4, <2>4 DEF Never
    <3>2. m \in Len(a) + 1..Len(a) + Len(b) /\ m - Len(a) \in 1..Len(b)
      BY <1>2, <3>1
    <3>3. b[m - Len(a)] = t
      BY <1>1, <2>4, <3>2
    <3>4. m - Len(a) = n
      BY <2>1, <3>2, <3>3
    <3>. QED
      BY <1>1, <3>2, <3>4
  <2>. QED
    BY <2>2, <2>3, <2>4 DEF Once
<1>5. ASSUME Never(a, t), Never(b, t)
      PROVE  Never(c, t)
  BY <1>1, <1>2, <1>5 DEF Never
<1>. QED
  BY <1>3, <1>4, <1>5 DEF c

\* The number of times that a sequence holds an element.
LEMMA HoldsCounted ==
  ASSUME NEW S, NEW s \in Seq(S), NEW t, NEW wanted \in BOOLEAN, Holds(s, t, wanted)
  PROVE  Cardinality({n \in DOMAIN s : s[n] = t}) = IF wanted THEN 1 ELSE 0
<1>. DEFINE places == {n \in DOMAIN s : s[n] = t}
<1>1. DOMAIN s = 1..Len(s)
  BY LenProperties
<1>2. CASE wanted
  <2>1. PICK n \in 1..Len(s) : s[n] = t /\ \A m \in 1..Len(s) : s[m] = t => m = n
    BY <1>2 DEF Holds, Once
  <2>2. places = {n}
    BY <1>1, <2>1
  <2>. QED
    BY <1>2, <2>2, FS_Singleton
<1>3. CASE ~wanted
  <2>1. places = {}
    BY <1>1, <1>3 DEF Holds, Never
  <2>. QED
    BY <1>3, <2>1, FS_EmptySet
<1>. QED
  BY <1>2, <1>3

\* A conversation that does not change keeps its place among the cursors.
LEMMA BelowStays ==
  ASSUME NEW t, rows'[t] = rows[t], NEW c
  PROVE  Below(t, c)' <=> Below(t, c)
BY DEF Below

\* What the server answers is a page as it should be.
LEMMA ServedPage ==
  ASSUME ListTypeOK, LoadServed
  PROVE  PageServed'
<1>. DEFINE page == load'.page
            f == load.folder
            c == load.cursor
            more == load'.more
            last == Last(page)
            size == Len(page)
<1>1. /\ load' = [load EXCEPT !.at = "served", !.more = load'.more, !.page = load'.page]
      /\ page \in Seq([thread : Threads, at : Nat]) /\ size \in Nat /\ (more => size \in 1..size)
      /\ \A n \in 1..size : page[n].thread \in Found(f, c) /\ page[n].at = rows[page[n].thread].at
      /\ \A m, n \in 1..size : m < n => Precedes(page[m].thread, page[n].thread)
      /\ \A t \in Found(f, c) : \/ \E n \in 1..size : page[n].thread = t
                                \/ more /\ Precedes(page[size].thread, t)
  BY Served
<1>2. load'.folder = f /\ load'.cursor = c /\ load'.at = "served" /\ rows' = rows /\ more \in BOOLEAN
  <2>1. load \in Loads /\ rows' = rows /\ more \in BOOLEAN
    BY Served DEF ListTypeOK, LoadServed
  <2>. QED
    BY <1>1, <2>1 DEF Loads
<1>3. PageThreads' = [n \in 1..size |-> page[n].thread]
  BY DEF PageThreads
<1>. HIDE DEF page, more, size
<1>4. Len(PageThreads') = size /\ \A n \in 1..size : PageThreads'[n] = page[n].thread
  BY <1>1, <1>3
<1>5. last = page[size]
  BY DEF Last, size
<1>6. \A t \in Threads : t \in Nat \ {0} /\ rows[t].at \in Nat
  BY ListAssumption DEF ListTypeOK
<1>7. Found(f, c) \subseteq Threads
  BY DEF Found
<1>8. \A n \in 1..size : /\ page[n].thread \in Threads /\ page[n].at = rows[page[n].thread].at
                         /\ rows[page[n].thread].folder = f /\ Below(page[n].thread, c)
  BY <1>1, <1>7 DEF Found
<1>9. ASSUME NEW m \in 1..size, NEW n \in 1..size, page[m].thread = page[n].thread
      PROVE  m = n
  <2>1. ~Precedes(page[m].thread, page[n].thread) /\ ~Precedes(page[n].thread, page[m].thread)
    BY <1>8, <1>9, Order
  <2>2. ~(m < n) /\ ~(n < m)
    BY <1>1, <2>1
  <2>. QED
    BY <1>1, <2>2
<1>10. ASSUME more
       PROVE  /\ After(last, c) /\ last # NoCursor /\ size \in 1..size
              /\ \A t \in Threads : Below(t, last) <=> Precedes(last.thread, t)
  <2>1. size \in 1..size /\ last.thread \in Threads /\ last.at = rows[last.thread].at
        /\ Below(last.thread, c)
    BY <1>1, <1>5, <1>8, <1>10
  <2>2. last # NoCursor
    BY <1>6, <2>1 DEF NoCursor
  <2>3. After(last, c)
    BY <2>1 DEF After, Below
  <2>4. \A t \in Threads : Below(t, last) <=> Precedes(last.thread, t)
    BY <1>6, <2>1, <2>2 DEF Below, Precedes
  <2>. QED
    BY <2>1, <2>2, <2>3, <2>4
<1>11. ASSUME NEW t \in Threads
       PROVE  Holds(PageThreads', t, Below(t, c) /\ Wanted(t, f, more, last))
  <2>1. ASSUME Below(t, c), Wanted(t, f, more, last)
        PROVE  Once(PageThreads', t)
    <3>1. t \in Found(f, c) /\ ~(more /\ Precedes(page[size].thread, t))
      BY <1>5, <1>10, <2>1 DEF Found, Wanted
    <3>2. PICK n \in 1..size : page[n].thread = t
      BY <1>1, <3>1
    <3>. QED
      BY <1>4, <1>9, <3>2 DEF Once
  <2>2. ASSUME NEW n \in 1..size, page[n].thread = t
        PROVE  Below(t, c) /\ Wanted(t, f, more, last)
    <3>1. Below(t, c) /\ rows[t].folder = f
      BY <1>8, <2>2
    <3>2. ASSUME more
          PROVE  ~Below(t, last)
      <4>1. n = size \/ n < size
        BY <1>1
      <4>2. t = last.thread \/ Precedes(t, last.thread)
        BY <1>1, <1>5, <1>10, <2>2, <3>2, <4>1
      <4>3. last.thread \in Threads
        BY <1>5, <1>8, <1>10, <3>2
      <4>4. ~Precedes(last.thread, t)
        BY <4>2, <4>3, Order
      <4>. QED
        BY <1>10, <3>2, <4>4
    <3>. QED
      BY <3>1, <3>2 DEF Wanted
  <2>. QED
    BY <1>4, <2>1, <2>2 DEF Holds, Never
<1>12. load'.more = more /\ Last(load'.page) = last
  BY DEF more, page
<1>13. more => After(last, c) /\ last # NoCursor
  BY <1>10
<1>14. \A t \in Threads : Holds(PageThreads', t, Below(t, c) /\ Wanted(t, f, more, last))
  BY <1>11
<1>15. UNCHANGED rows
  BY <1>2
<1>. HIDE DEF last
<1>. QED
  BY <1>2, <1>12, <1>13, <1>14, <1>15 DEF PageServed, Holds, Wanted, Below
\* A page that follows the list, or replaces it, makes a list as it should be.
LEMMA ListGoesOn ==
  ASSUME ListTypeOK, ListInv, LoadShown
  PROVE  ListShown'
<1>. DEFINE last == Last(load.page)
            f == load.folder
            c == load.cursor
<1>1. /\ threads' = IF load.reset THEN PageThreads ELSE threads \o PageThreads
      /\ hasMore' = load.more /\ (load.more => cursor' = last) /\ load.at = "served"
      /\ listed' = (IF load.reset THEN f ELSE listed) /\ spoiled' = (spoiled /\ ~load.reset)
      /\ UNCHANGED <<rows, moved>>
  BY DEF LoadShown, PageThreads
<1>2. PageThreads \in Seq(Threads) /\ threads \in Seq(Threads)
  <2>1. load.page \in Seq([thread : Threads, at : Nat]) /\ threads \in Seq(Threads)
    BY DEF ListTypeOK, Loads
  <2>2. Len(load.page) \in Nat
        /\ \A n \in 1..Len(load.page) : load.page[n] \in [thread : Threads, at : Nat]
    BY <2>1, ElementOfSeq, LenProperties
  <2>. QED
    BY <2>1, <2>2 DEF PageThreads
<1>3. load.reset \in BOOLEAN /\ load.more \in BOOLEAN /\ hasMore \in BOOLEAN
      /\ \A t \in Threads : t \in Nat /\ rows[t].at \in Nat
  BY ListAssumption DEF ListTypeOK, Loads
<1>4. /\ load.more => After(last, c) /\ last # NoCursor
      /\ \A t \in Threads \ moved : Holds(PageThreads, t, Below(t, c) /\ Wanted(t, f, load.more, last))
  BY <1>1 DEF ListInv, PageServed
<1>5. Loading /\ IF load.reset THEN c = NoCursor
                 ELSE hasMore /\ c = cursor /\ (~spoiled => f = listed)
  BY <1>1 DEF Loading, ListInv, LoadFollows
<1>6. ASSUME ~spoiled', listed' # "none", NEW t \in Threads \ moved
      PROVE  Holds(threads', t, Wanted(t, listed', load.more, last))
  <2>1. CASE load.reset
    BY <1>1, <1>4, <1>5, <1>6, <2>1 DEF Holds, Below
  <2>2. CASE ~load.reset
    <3>1. ~spoiled /\ listed # "none" /\ f = listed /\ listed' = listed /\ hasMore /\ c = cursor
          /\ threads' = threads \o PageThreads
      BY <1>1, <1>5, <1>6, <2>2
    <3>2. Holds(threads, t, Wanted(t, f, TRUE, c))
      BY <1>6, <2>2, <3>1 DEF ListInv, ListShown
    <3>3. Holds(PageThreads, t, Below(t, c) /\ Wanted(t, f, load.more, last))
      BY <1>4, <1>6
    \* What is not after the cursor is not after the page.
    <3>4. load.more /\ Below(t, last) => Below(t, c)
      <4>1. load.more => last.at \in Nat /\ last.thread \in Nat /\ c.at \in Nat /\ c.thread \in Nat
        <5>1. load.page \in Seq([thread : Threads, at : Nat]) /\ c \in Cursors
              /\ (load.more => load.page # <<>>)
          BY DEF ListTypeOK, Loads
        <5>2. load.more => Len(load.page) \in 1..Len(load.page)
          BY <5>1
        <5>3. load.more => last \in [thread : Threads, at : Nat]
          BY <5>1, <5>2, ElementOfSeq DEF Last
        <5>. QED
          BY <1>3, <5>1, <5>3 DEF Cursors
      <4>. QED
        BY <1>3, <1>4, <4>1 DEF After, Below
    <3>5. CASE Below(t, c)
      <4>1. Never(threads, t)
        BY <3>2, <3>5 DEF Holds, Wanted
      <4>2. Holds(PageThreads, t, Wanted(t, listed', load.more, last))
        BY <3>1, <3>3, <3>5 DEF Holds
      <4>3. /\ Once(PageThreads, t) => Once(threads', t)
            /\ Never(PageThreads, t) => Never(threads', t)
        BY <1>2, <3>1, <4>1, HoldsConcat
      <4>. QED
        BY <4>2, <4>3 DEF Holds
    <3>6. CASE ~Below(t, c)
      <4>1. Never(PageThreads, t)
        BY <3>3, <3>6 DEF Holds
      <4>2. Wanted(t, f, TRUE, c) <=> Wanted(t, listed', load.more, last)
        BY <3>1, <3>4, <3>6 DEF Wanted
      <4>3. /\ Once(threads, t) => Once(threads', t)
            /\ Never(threads, t) => Never(threads', t)
        BY <1>2, <3>1, <4>1, HoldsConcat
      <4>. QED
        BY <3>2, <4>2, <4>3 DEF Holds
    <3>. QED
      BY <3>5, <3>6
  <2>. QED
    BY <2>1, <2>2
<1>7. ASSUME ~spoiled', listed' # "none", NEW t \in Threads \ moved
      PROVE  Holds(threads', t, Wanted(t, listed', hasMore', cursor'))
  BY <1>1, <1>6, <1>7 DEF Holds, Wanted
<1>. HIDE DEF last, f, c
<1>. QED
  BY <1>1, <1>7 DEF ListShown, Holds, Wanted, Below

\* What changes conversations marks them as moved, so that the others are listed as before.
LEMMA ListMoved ==
  ASSUME ListTypeOK, ListInv, UNCHANGED <<view, load>>, moved \subseteq moved',
         \A t \in Threads \ moved' : rows'[t] = rows[t]
  PROVE  ListInv'
<1>. USE DEF view
<1>1. \A t \in Threads \ moved' : t \in Threads \ moved
  OBVIOUS
<1>2. ListShown'
  BY <1>1 DEF ListInv, ListShown, Holds, Wanted, Below, Loading
<1>3. PageServed'
  BY <1>1 DEF ListInv, PageServed, PageThreads, Holds, Wanted, Below
<1>4. LoadFollows'
  BY DEF ListInv, LoadFollows, Loading
<1>. QED
  BY <1>2, <1>3, <1>4 DEF ListInv

\* Every move keeps it.
LEMMA ListInvStep ==
  ASSUME ListTypeOK, ListMove, ListInv
  PROVE  ListInv'
<1>. USE DEF listVars, server, view
<1>1. CASE UNCHANGED listVars
  BY <1>1, ListMoved
<1>2. ASSUME UNCHANGED server, NEW reset \in BOOLEAN, NEW f \in Folders,
             NEW by \in {"none", "task", "submit"}, Ask(reset, f, by), reset \/ hasMore
      PROVE  ListInv'
  <2>1. /\ load'.at = "asked" /\ load'.reset = reset /\ load'.folder = f
        /\ load'.cursor = (IF reset THEN NoCursor ELSE cursor)
    BY <1>2 DEF Ask, NoLoad
  <2>2. /\ ~Loading /\ cursor' = (IF reset THEN NoCursor ELSE cursor)
        /\ spoiled' = (spoiled \/ (~reset /\ f # listed))
        /\ UNCHANGED <<threads, hasMore, listed, moved, rows>>
    BY <1>2 DEF Ask
  <2>3. LoadFollows' /\ PageServed'
    BY <1>2, <2>1, <2>2 DEF LoadFollows, PageServed, Loading
  <2>4. ListShown'
    <3>1. CASE reset
      BY <2>1, <3>1 DEF ListShown, Loading
    <3>2. CASE ~reset
      BY <2>1, <2>2, <3>2 DEF ListInv, ListShown, Loading, Holds, Wanted, Below
    <3>. QED
      BY <3>1, <3>2
  <2>. QED
    BY <2>3, <2>4 DEF ListInv
<1>3. CASE UNCHANGED server /\ UNCHANGED <<load, view, moved>>
  BY <1>3, ListMoved
<1>4. CASE LoadServed
  <2>1. PageServed'
    BY <1>4, ServedPage
  <2>2. /\ load' = [load EXCEPT !.at = "served", !.more = load'.more, !.page = load'.page]
        /\ load \in Loads /\ load.at = "asked" /\ UNCHANGED <<rows, view>>
        /\ moved' = IF load.reset THEN {} ELSE moved
    BY <1>4, Served DEF LoadServed, ListTypeOK
  <2>3. load'.at = "served" /\ load'.reset = load.reset /\ load'.folder = load.folder
        /\ load'.cursor = load.cursor
    BY <2>2 DEF Loads
  <2>4. LoadFollows'
    BY <2>2, <2>3 DEF ListInv, LoadFollows, Loading
  <2>5. ListShown'
    BY <2>2, <2>3 DEF ListInv, ListShown, Loading, Holds, Wanted, Below
  <2>. QED
    BY <2>1, <2>4, <2>5 DEF ListInv
<1>5. CASE LoadShown
  <2>1. ListShown'
    BY <1>5, ListGoesOn
  <2>2. load' = NoLoad
    BY <1>5 DEF LoadShown
  <2>. QED
    BY <2>1, <2>2 DEF ListInv, PageServed, LoadFollows, Loading, NoLoad
<1>6. CASE LoadFails
  <2>1. /\ load' = NoLoad /\ spoiled' = (spoiled \/ load.reset)
        /\ UNCHANGED <<rows, moved, threads, cursor, hasMore, listed>>
    BY <1>6 DEF LoadFails
  <2>2. ListShown'
    BY <2>1 DEF ListInv, ListShown, Loading, Holds, Wanted, Below
  <2>. QED
    BY <2>1, <2>2 DEF ListInv, PageServed, LoadFollows, Loading, NoLoad
<1>7. ASSUME NEW t \in Threads, NEW f \in Folders, AddMessage(t, f), UNCHANGED <<folder, view, load>>
      PROVE  ListInv'
  <2>1. moved \subseteq moved' /\ \A s \in Threads \ moved' : rows'[s] = rows[s]
    BY <1>7 DEF AddMessage, ListTypeOK
  <2>. QED
    BY <1>7, <2>1, ListMoved
<1>8. ASSUME NEW t \in Threads, NEW f \in Folders \union {"gone"}, MoveTo(t, f),
             UNCHANGED <<arrivals, folder, view, load>>
      PROVE  ListInv'
  <2>1. moved \subseteq moved' /\ \A s \in Threads \ moved' : rows'[s] = rows[s]
    BY <1>8 DEF MoveTo, ListTypeOK
  <2>. QED
    BY <1>8, <2>1, ListMoved
<1>9. ASSUME \E reset \in BOOLEAN, f \in Folders, by \in {"none", "task", "submit"} :
               Ask(reset, f, by) /\ (reset \/ hasMore),
             UNCHANGED server
      PROVE  ListInv'
  BY <1>2, <1>9
<1>. HIDE DEF listVars, server, view
<1>10. CASE /\ UNCHANGED <<folder, view, load>>
            /\ \E t \in Threads, f \in Folders : AddMessage(t, f) /\ rows[t].folder # "gone"
  BY <1>7, <1>10
<1>11. CASE /\ UNCHANGED <<arrivals, folder, view, load>>
            /\ \E t \in Threads, f \in Folders \union {"gone"} : MoveTo(t, f) /\ There(t)
  BY <1>8, <1>11
<1>. QED
  BY <1>1, <1>3, <1>4, <1>5, <1>6, <1>9, <1>10, <1>11 DEF ListMove

\* Nothing is listed at first.
LEMMA ListBegins ==
  ListInit => ListInv
BY DEF ListInit, ListInv, ListShown, PageServed, LoadFollows, Loading, NoLoad

\* And it says that the list is exact.
LEMMA ListExact ==
  ASSUME ListTypeOK, ListInv
  PROVE  ListIsExact
<1>. SUFFICES ASSUME ~Loading, ~spoiled, listed # "none", NEW t \in Threads \ moved
     PROVE  Cardinality({n \in DOMAIN threads : threads[n] = t}) =
              IF rows[t].folder = listed /\ (hasMore => ~Below(t, cursor)) THEN 1 ELSE 0
  BY DEF ListIsExact
<1>1. Holds(threads, t, Wanted(t, listed, hasMore, cursor)) /\ threads \in Seq(Threads)
  BY DEF ListInv, ListShown, ListTypeOK
<1>2. Wanted(t, listed, hasMore, cursor) \in BOOLEAN
  BY DEF Wanted
<1>3. Cardinality({n \in DOMAIN threads : threads[n] = t}) =
        IF Wanted(t, listed, hasMore, cursor) THEN 1 ELSE 0
  BY <1>1, <1>2, HoldsCounted
<1>. QED
  BY <1>3 DEF Wanted

-----------------------------------------------------------------------------
(* The console *)

\* The inductive invariant of the console.
ConsoleInv == ConsoleTypeOK /\ KeysInv /\ PaneInv /\ ListInv

\* It holds at first.
LEMMA ConsoleInits ==
  ConsoleInit => ConsoleInv
<1>. SUFFICES ASSUME ConsoleInit PROVE ConsoleInv
  OBVIOUS
<1>1. ListInit /\ DetailInit /\ ComposeInit /\ clicks = 0 /\ faults = 0 /\ task = NoTask
  BY DEF ConsoleInit
<1>2. 0 \in 0..MaxClicks /\ 0 \in 0..MaxFaults
  <2>1. MaxClicks \in Nat /\ MaxFaults \in Nat
    BY ConsoleAssumption
  <2>. QED
    BY <2>1
<1>3. ListTypeOK /\ DetailTypeOK /\ ComposeTypeOK
  BY <1>1, ListInitTypes, DetailInitTypes, ComposeInitTypes
<1>4. ConsoleTypeOK
  BY <1>1, <1>2, <1>3 DEF NoTask, Conversations, ConsoleTypeOK
<1>. QED
  BY <1>1, <1>4, KeysInit, PaneInit, ListBegins DEF ConsoleInv

\* And every step keeps it, by what the step does to the list, the pane and the dialog.
LEMMA ConsoleInvStep ==
  ConsoleInv /\ [ConsoleNext]_consoleVars => ConsoleInv'
<1>. SUFFICES ASSUME ConsoleInv, [ConsoleNext]_consoleVars PROVE ConsoleInv'
  OBVIOUS
<1>1. /\ ConsoleTypeOK /\ ListTypeOK /\ DetailTypeOK /\ ComposeTypeOK
      /\ KeysInv /\ PaneInv /\ ListInv /\ PaneShows
  BY DEF ConsoleInv, ConsoleTypeOK, PaneInv
<1>2. ListMove /\ DetailMove /\ ComposeMove
  BY <1>1, Moves
<1>3. ListTypeOK'
  BY <1>1, <1>2, ListTypeStep
<1>4. DetailTypeOK'
  BY <1>1, <1>2, PaneReadable, DetailTypeStep
<1>5. ComposeTypeOK'
  BY <1>1, <1>2, ComposeTypeStep
<1>6. ConsoleTypeOK'
  BY <1>1, <1>3, <1>4, <1>5, TaskTypeStep DEF ConsoleTypeOK
<1>7. KeysInv'
  BY <1>1, <1>2, KeysStep
<1>8. PaneInv'
  BY <1>1, <1>2, PaneStep
<1>9. ListInv'
  BY <1>1, <1>2, ListInvStep
<1>. QED
  BY <1>6, <1>7, <1>8, <1>9 DEF ConsoleInv

\* What the three properties of the console follow from holds in every state.
THEOREM ConsoleInvariant ==
  ConsoleSpec => []ConsoleInv
BY ConsoleInits, ConsoleInvStep, PTL DEF ConsoleSpec

\* Every variable of the console has its type.
THEOREM ConsoleTypeCorrect ==
  ConsoleSpec => []ConsoleTypeOK
<1>1. ConsoleInv => ConsoleTypeOK
  BY DEF ConsoleInv
<1>. QED
  BY <1>1, ConsoleInvariant, PTL

\* loadThreads lists every conversation that did not move exactly once, however its pages and the
\* conversations interleave.
THEOREM ListedOnce ==
  ConsoleSpec => []ListIsExact
<1>1. ConsoleInv => ListIsExact
  BY ListExact DEF ConsoleInv, ConsoleTypeOK
<1>. QED
  BY <1>1, ConsoleInvariant, PTL

\* openThread and loadOlderMessages show the selected conversation, without a gap as long as no more
\* than two pages of messages came in, and down to its first message.
THEOREM ShownWhole ==
  ConsoleSpec => []PaneIsWhole
<1>1. ConsoleInv => PaneIsWhole
  BY PaneWhole DEF ConsoleInv, ConsoleTypeOK
<1>. QED
  BY <1>1, ConsoleInvariant, PTL

\* submitCompose never sends a key with two contents, nor a draft again as it was with another key.
THEOREM KeysFollow ==
  ConsoleSpec => []KeysFollowContent
<1>1. ConsoleInv => KeysFollowContent
  BY DEF ConsoleInv, KeysInv
<1>. QED
  BY <1>1, ConsoleInvariant, PTL
=============================================================================
