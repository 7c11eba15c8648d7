----------------------------- MODULE ControlAccess -----------------------------
(***************************************************************************)
(* Who may administer the control plane: users, second factors, recovery    *)
(* codes and sessions (media_bridge_control/bootstrap.py), the login        *)
(* limiter (security.py) and the routes that use them (api.py).             *)
(*                                                                          *)
(* Requests run in the threads of the server's pool and meet in PostgreSQL  *)
(* at READ COMMITTED: a row read FOR UPDATE stays locked to the end of the  *)
(* transaction, any other read sees what is committed at that moment.  A    *)
(* transaction whose reads are all of rows it has locked is one step; one   *)
(* that also reads rows it has not locked is a read and a commit.           *)
(***************************************************************************)
EXTENDS Integers, Sequences, FiniteSets, FiniteSetsExt

CONSTANTS
    Users,        \* user names
    Admin,        \* the default administrator, "admin"
    Clients,      \* addresses that requests come from
    Threads,      \* requests being served
    Sessions,     \* session selectors that may still be issued
    Codes,        \* recovery codes that may still be issued
    Limit,        \* failures the login limiter tolerates
    Window,       \* for how long it counts them
    SessionTtl,   \* SESSION_TTL
    MaxPw,        \* bound on the passwords, 1 is the system default
    MaxFailures,  \* bound on the failures the limiter holds and the events together
    MaxEvents,    \* bound on the events: enrolments, user changes, ticks and restarts
    None

ASSUME AdminAssumption == Admin \in Users /\ None \notin Users \cup Clients \cup Threads \cup Sessions \cup Codes
ASSUME ThreadsAssumption == IsFiniteSet(Threads)
ASSUME BoundsAssumption ==
    {Limit, Window, SessionTtl, MaxPw, MaxFailures, MaxEvents} \subseteq Nat \ {0}

VARIABLES
    now,       \* service.now()
    users,     \* table users
    locks,     \* row locks on users
    codes,     \* table recovery_codes: the use of each code
    sessions,  \* table admin_sessions
    attempts,  \* LoginRateLimiter._attempts, in memory
    task,      \* what each thread is doing
    secrets,   \* TOTP secrets generated so far
    happened   \* history: how many users changed and processes restarted

vars == <<now, users, locks, codes, sessions, attempts, task, secrets, happened>>
accountVars == <<users, locks, secrets>>
sessionVars == <<codes, sessions>>

\* "other" is operator or viewer: the user routes are for administrators only.
Roles == {"admin", "other"}
Row == [role : Roles \cup {"absent"}, active : BOOLEAN, pw : 0 .. MaxPw, secret : 0 .. MaxEvents]
Absent == [role |-> "absent", active |-> FALSE, pw |-> 0, secret |-> 0]
DefaultAdmin(secret) == [role |-> "admin", active |-> TRUE, pw |-> 1, secret |-> secret]

Vias == {"password", "totp", "recovery"}
Session == [state : {"unissued", "open", "revoked"}, user : Users \cup {None},
            via : Vias \cup {"none"}, code : Codes \cup {None}, expires : Nat,
            refreshed : BOOLEAN]  \* previous_csrf_digest is set
NoSession == [state |-> "unissued", user |-> None, via |-> "none", code |-> None,
              expires |-> 0, refreshed |-> FALSE]

Idle == [pc |-> "idle", client |-> None, user |-> None, session |-> None, via |-> "none", at |-> 0,
         next |-> Absent]
Task == [pc : {"idle", "login", "insert", "recovery", "enroll", "authorized", "update",
               "audit", "refresh", "logout"},
         client : Clients \cup {None}, user : Users \cup {None}, session : Sessions \cup {None}, via : Vias \cup {"none"},
         at : Nat, next : Row]

\* What the limiter counts by: the kind of login, the client's address and the
\* account.  Only the default administrator has a recovery address and so ever
\* a code; the recovery logins of others, which always fail, are left out.
Keys == {"login"} \X Clients \X Users \cup {"recovery"} \X Clients \X {Admin}

\* The state right after the first start, which ran ensure_default_admin.
Init ==
    /\ now = 0
    /\ users = [u \in Users |-> IF u = Admin THEN DefaultAdmin(0) ELSE Absent]
    /\ locks = [u \in Users |-> None]
    /\ codes = [c \in Codes |-> "unissued"]
    /\ sessions = [s \in Sessions |-> NoSession]
    /\ attempts = [k \in Keys |-> << >>]
    /\ task = [t \in Threads |-> Idle]
    /\ secrets = 0 /\ happened = 0

Return(t) == task' = [task EXCEPT ![t] = Idle]
Goto(t, r) == task' = [task EXCEPT ![t] = r]
Unlocked(u) == locks[u] = None
Events == now + secrets + happened
Failures == MapThenSumSet(LAMBDA k : Len(attempts[k]), Keys)
Room == Events < MaxEvents /\ Failures + Events < MaxFailures

-------------------------------------------------------------------------------
(* The limiter forgets, from the left, failures that have left the window.   *)

Active(k, at) ==
    LET q == attempts[k]
        n == CHOOSE i \in 0 .. Len(q) :
                /\ \A j \in 1 .. i : q[j] <= at - Window
                /\ i = Len(q) \/ q[i + 1] > at - Window
    IN  SubSeq(q, n + 1, Len(q))

\* A faulty limit that lets one attempt too many through.
AllowOneMore(k, at) == Len(Active(k, at)) <= Limit

Allow(k, at) == Len(Active(k, at)) < Limit

RecordFailure(k, at) ==
    /\ Failures + Events < MaxFailures
    /\ attempts' = [attempts EXCEPT ![k] = Append(Active(k, at), at)]
ClearFailures(k) == attempts' = [attempts EXCEPT ![k] = << >>]

(* Logging in.  The limiter is asked before the database is, and the user     *)
(* row is read without a lock before the session row is inserted.             *)

LoginAllow(t) ==
    /\ task[t].pc = "idle"
    /\ \E c \in Clients, u \in Users :
          /\ Allow(<<"login", c, u>>, now)
          /\ attempts' = [attempts EXCEPT ![<<"login", c, u>>] = Active(<<"login", c, u>>, now)]
          /\ Goto(t, [Idle EXCEPT !.pc = "login", !.client = c, !.user = u, !.at = now])
    /\ UNCHANGED <<now, accountVars, sessionVars, happened>>

Knows(u, guess) == users[u].active /\ users[u].pw = guess

\* A faulty login that asks for the second factor only once it is enrolled.
TotpWhenEnrolled(u) == users[u].secret /= 0

\* totp_required is set for the default administrator only; an enrolled
\* secret requires TOTP of everyone.
NeedsTotp(u) == u = Admin \/ users[u].secret /= 0

\* The password is wrong, or right but not enough, or right.
LoginRead(t) ==
    /\ task[t].pc = "login"
    /\ \E guess \in 1 .. MaxPw :
       LET u == task[t].user IN
       \/ /\ ~Knows(u, guess)
          /\ RecordFailure(<<"login", task[t].client, u>>, task[t].at)
          /\ Return(t)
       \/ /\ Knows(u, guess) /\ NeedsTotp(u)
          /\ Return(t)
          /\ UNCHANGED attempts
       \/ /\ Knows(u, guess) /\ ~NeedsTotp(u)
          /\ task' = [task EXCEPT ![t] = [@ EXCEPT !.pc = "insert", !.via = "password"]]
          /\ UNCHANGED attempts
    /\ UNCHANGED <<now, accountVars, sessionVars, happened>>

\* login_with_totp has no limiter; a code proves knowledge of a secret.
TotpLoginRead(t) ==
    /\ task[t].pc = "idle"
    /\ \E u \in Users, guess \in 1 .. MaxPw, secret \in 1 .. secrets :
          /\ Knows(u, guess) /\ users[u].secret = secret
          /\ Goto(t, [Idle EXCEPT !.pc = "insert", !.user = u, !.via = "totp", !.at = now])
    /\ UNCHANGED <<now, accountVars, sessionVars, attempts, happened>>

OpenSession(s, u, via, c, at) ==
    /\ sessions[s].state = "unissued"
    /\ sessions' = [sessions EXCEPT ![s] = [state |-> "open", user |-> u, via |-> via, code |-> c,
                                            expires |-> at + SessionTtl, refreshed |-> FALSE]]

InsertSession(t) ==
    /\ task[t].pc = "insert"
    /\ \E s \in Sessions : OpenSession(s, task[t].user, task[t].via, None, task[t].at)
    /\ IF task[t].via = "password" THEN ClearFailures(<<"login", task[t].client, task[t].user>>)
                                   ELSE UNCHANGED attempts
    /\ Return(t)
    /\ UNCHANGED <<now, accountVars, codes, happened>>

\* Nothing records a failure under the key of these requests, so the limiter
\* never refuses one.
RequestRecoveryCode(t) ==
    /\ task[t].pc = "idle"
    /\ Unlocked(Admin) /\ users[Admin].active
    /\ \E c \in Codes : codes[c] = "unissued" /\ codes' = [codes EXCEPT ![c] = "unused"]
    /\ UNCHANGED <<now, accountVars, sessions, attempts, task, happened>>

RecoveryAllow(t) ==
    /\ task[t].pc = "idle"
    /\ \E c \in Clients :
          /\ Allow(<<"recovery", c, Admin>>, now)
          /\ attempts' = [attempts EXCEPT ![<<"recovery", c, Admin>>] = Active(<<"recovery", c, Admin>>, now)]
          /\ Goto(t, [Idle EXCEPT !.pc = "recovery", !.client = c, !.user = Admin, !.at = now])
    /\ UNCHANGED <<now, accountVars, sessionVars, happened>>

\* A faulty recovery that does not mark the code.
UseNothing(c) == codes[c] = "unused" /\ UNCHANGED codes

Use(c) == codes[c] = "unused" /\ codes' = [codes EXCEPT ![c] = "used"]

\* The user row and the unused codes are locked, so this is one step.
RecoveryLogin(t) ==
    /\ task[t].pc = "recovery" /\ Unlocked(task[t].user)
    /\ LET u == task[t].user IN
       \E guess \in 1 .. MaxPw :
       \/ /\ Knows(u, guess)
          /\ \E c \in Codes, s \in Sessions :
                Use(c) /\ OpenSession(s, u, "recovery", c, task[t].at)
          /\ ClearFailures(<<"recovery", task[t].client, u>>)
       \/ /\ RecordFailure(<<"recovery", task[t].client, u>>, task[t].at)
          /\ UNCHANGED sessionVars
    /\ Return(t)
    /\ UNCHANGED <<now, accountVars, happened>>

(* TOTP enrolment: the password is verified in one transaction and the new    *)
(* secret is stored, in force at once, in another.                            *)

EnrollVerify(t) ==
    /\ task[t].pc = "idle"
    /\ \E u \in Users, guess \in 1 .. MaxPw :
          /\ Unlocked(u) /\ Knows(u, guess)
          /\ Goto(t, [Idle EXCEPT !.pc = "enroll", !.user = u])
    /\ UNCHANGED <<now, accountVars, sessionVars, attempts, happened>>

Enroll(t) ==
    /\ task[t].pc = "enroll" /\ Unlocked(task[t].user)
    /\ IF users[task[t].user].active
         THEN /\ Room
              /\ secrets' = secrets + 1
              /\ users' = [users EXCEPT ![task[t].user].secret = secrets + 1]
         ELSE UNCHANGED <<users, secrets>>
    /\ Return(t)
    /\ UNCHANGED <<now, locks, sessionVars, attempts, happened>>

-------------------------------------------------------------------------------
(* Using a session. *)

\* authenticate: the session and then its user, two reads of one transaction.
Accepts(s) ==
    /\ sessions[s].state = "open" /\ sessions[s].expires > now
    /\ users[sessions[s].user].active

Authenticated(t, pc) ==
    /\ task[t].pc = "idle"
    /\ \E s \in Sessions :
          /\ Accepts(s)
          /\ pc = "authorized" => users[sessions[s].user].role = "admin"
          /\ Goto(t, [Idle EXCEPT !.pc = pc, !.session = s])
    /\ UNCHANGED <<now, accountVars, sessionVars, attempts, happened>>

\* authorize for the user routes, and the entry of refresh_csrf and logout.
Authorize(t) == Authenticated(t, "authorized")
RefreshBegin(t) == Authenticated(t, "refresh")
LogoutBegin(t) == Authenticated(t, "logout")

\* A faulty refresh that writes the whole row it authenticated.
RefreshWritesRow(t) ==
    /\ task[t].pc = "refresh"
    /\ sessions' = [sessions EXCEPT ![task[t].session] = [@ EXCEPT !.refreshed = TRUE, !.state = "open"]]
    /\ Return(t)
    /\ UNCHANGED <<now, accountVars, codes, attempts, happened>>

\* The row is locked and only its CSRF digests are written.
RefreshCsrf(t) ==
    /\ task[t].pc = "refresh"
    /\ sessions' = [sessions EXCEPT ![task[t].session].refreshed = TRUE]
    /\ Return(t)
    /\ UNCHANGED <<now, accountVars, codes, attempts, happened>>

Logout(t) ==
    /\ task[t].pc = "logout"
    /\ sessions' = [sessions EXCEPT ![task[t].session].state = "revoked"]
    /\ Return(t)
    /\ UNCHANGED <<now, accountVars, codes, attempts, happened>>

-------------------------------------------------------------------------------
(* Administration of users.  Every change is audited in a later transaction; *)
(* the audit log is that of GatewayConnections.                              *)

Changed(t) ==
    /\ Room
    /\ happened' = happened + 1
    /\ task' = [task EXCEPT ![t] = [Idle EXCEPT !.pc = "audit"]]

CreateUser(t) ==
    /\ task[t].pc = "authorized"
    /\ \E u \in Users, role \in Roles :
          /\ users[u] = Absent
          /\ users' = [users EXCEPT ![u] = [role |-> role, active |-> TRUE, pw |-> 1, secret |-> 0]]
    /\ Changed(t)
    /\ UNCHANGED <<now, locks, secrets, sessionVars, attempts>>

ActiveAdmins == {u \in Users : users[u].role = "admin" /\ users[u].active}

\* The default administrator keeps its password and stays active, and the
\* last active administrator stays one.
MayBecome(u, row) ==
    /\ u = Admin => row.pw = users[u].pw /\ row.active
    /\ u \in ActiveAdmins /\ (row.role /= "admin" \/ ~row.active) => Cardinality(ActiveAdmins) > 1

\* A faulty update that stores the role of the request even if it has none.
NextRowVerbatim(u, role, active, pw) ==
    [users[u] EXCEPT !.role = role, !.active = active, !.pw = pw]

\* A request may leave the role out ("none"), and the row keeps its own.
NextRow(u, role, active, pw) ==
    [users[u] EXCEPT !.role = IF role = "none" THEN @ ELSE role, !.active = active, !.pw = pw]

\* update_user locks the row it changes and counts the others unlocked.
UpdateRead(t) ==
    /\ task[t].pc = "authorized"
    /\ \E u \in Users, role \in Roles \cup {"none"}, active \in BOOLEAN, pw \in 1 .. MaxPw :
       LET row == NextRow(u, role, active, pw) IN
          /\ Room
          /\ users[u] /= Absent /\ Unlocked(u)
          /\ MayBecome(u, row)
          /\ locks' = [locks EXCEPT ![u] = t]
          /\ task' = [task EXCEPT ![t] = [@ EXCEPT !.pc = "update", !.user = u, !.next = row]]
    /\ UNCHANGED <<now, users, secrets, sessionVars, attempts, happened>>

UpdateCommit(t) ==
    /\ task[t].pc = "update"
    /\ users' = [users EXCEPT ![task[t].user] = task[t].next]
    /\ locks' = [locks EXCEPT ![task[t].user] = None]
    /\ Changed(t)
    /\ UNCHANGED <<now, secrets, sessionVars, attempts>>

\* A request that is refused after authorization, or whose transaction fails and is rolled back.
Abandon(t) ==
    /\ task[t].pc /= "idle"
    /\ locks' = [u \in Users |-> IF locks[u] = t THEN None ELSE locks[u]]
    /\ Return(t)
    /\ UNCHANGED <<now, users, secrets, sessionVars, attempts, happened>>

AuditWrite(t) ==
    /\ task[t].pc = "audit"
    /\ Return(t)
    /\ UNCHANGED <<now, accountVars, sessionVars, attempts, happened>>

Tick ==
    /\ Room
    /\ now' = now + 1
    /\ UNCHANGED <<accountVars, sessionVars, attempts, task, happened>>

\* The table of the limiter is full of other keys, and a new one pushes this
\* one out with its failures.
Evict(k) ==
    /\ attempts[k] /= << >>
    /\ attempts' = [attempts EXCEPT ![k] = << >>]
    /\ UNCHANGED <<now, accountVars, sessionVars, task, happened>>

\* The process dies and starts again: open transactions are rolled back, the
\* limiter is empty, and ensure_default_admin resets the administrator's row
\* except for its TOTP secret.
Restart ==
    /\ Room
    /\ happened' = happened + 1
    /\ task' = [t \in Threads |-> Idle]
    /\ locks' = [u \in Users |-> None]
    /\ attempts' = [k \in Keys |-> << >>]
    /\ users' = [users EXCEPT ![Admin] = DefaultAdmin(@.secret)]
    /\ UNCHANGED <<now, secrets, sessionVars>>

Step(t) ==
    \/ LoginAllow(t) \/ LoginRead(t) \/ TotpLoginRead(t) \/ InsertSession(t)
    \/ RequestRecoveryCode(t) \/ RecoveryAllow(t) \/ RecoveryLogin(t)
    \/ EnrollVerify(t) \/ Enroll(t)
    \/ Authorize(t) \/ RefreshBegin(t) \/ RefreshCsrf(t) \/ LogoutBegin(t) \/ Logout(t)
    \/ CreateUser(t) \/ UpdateRead(t) \/ UpdateCommit(t) \/ Abandon(t) \/ AuditWrite(t)

Next == (\E t \in Threads : Step(t)) \/ Tick \/ (\E k \in Keys : Evict(k)) \/ Restart

Spec == Init /\ [][Next]_vars

-------------------------------------------------------------------------------
TypeOK ==
    /\ now \in Nat
    /\ users \in [Users -> Row]
    /\ locks \in [Users -> Threads \cup {None}]
    /\ codes \in [Codes -> {"unissued", "unused", "used"}]
    /\ sessions \in [Sessions -> Session]
    /\ attempts \in [Keys -> Seq(Nat)]
    /\ task \in [Threads -> Task]
    /\ secrets \in 0 .. MaxEvents
    /\ happened \in 0 .. MaxEvents

\* "last_admin_required": some active user is an administrator, whatever
\* administrators do to each other's accounts and their own.
LastAdminStays == ActiveAdmins /= {}

\* A recovery code opens one session at most, however many requests present
\* it at the same time.
CodeOpensOneSession ==
    \A r, s \in Sessions :
        sessions[r].code /= None /\ sessions[r].code = sessions[s].code => r = s

\* The default administrator, whose password is known, only ever gets a
\* session by a second factor, through enrolments, demotions and restarts.
AdminNeedsSecondFactor ==
    \A s \in Sessions : sessions[s].user = Admin => sessions[s].via \in {"totp", "recovery"}

\* A session that was logged out never comes back, not even when another tab
\* of it refreshes its CSRF token at the same time.
RevokedStaysRevoked ==
    [][\A s \in Sessions : sessions[s].state = "revoked" => sessions'[s].state = "revoked"]_vars

\* Within its window the limiter never counts more failures of one client
\* address against one account than the limit and the requests that had passed
\* it before the limit was reached.  Each address has a count of its own, and
\* it starts again with a login, a restart or a key that pushes it out.
FailuresBounded ==
    \A k \in Keys :
        Cardinality({i \in DOMAIN attempts[k] : attempts[k][i] > now - Window})
            <= Limit + Cardinality(Threads) - 1

\* The way in is guarded (login, enrolment, the rate limiter): the three
\* properties above together.
LoginGuarded == CodeOpensOneSession /\ AdminNeedsSecondFactor /\ FailuresBounded

===============================================================================
