----------------------------- MODULE ControlProofs -----------------------------
(***************************************************************************)
(* The control plane for any number of users, requests, sessions, codes,   *)
(* rows and connections.  Three inductive invariants, one per component:   *)
(* AccessInv, ManagedInv and ConnectionInv; at the end they are those of   *)
(* the composition that TLC runs.                                          *)
(***************************************************************************)
EXTENDS MCControl, FiniteSetTheorems, WellFoundedInduction, TLAPS

(***************************************************************************)
(* ControlAccess                                                           *)
(***************************************************************************)

\* A thread without a request and the row of nobody are well typed.
LEMMA IdleTask == Idle \in Task /\ Absent \in Row
BY AdminAssumption, BoundsAssumption DEF Idle, Task, Absent, Row, Roles

\* A nonempty set of naturals has a least element.
LEMMA Least ==
    ASSUME NEW S \in SUBSET Nat, S # {}
    PROVE  \E n \in S : \A m \in S : n <= m
<1>1. \E n \in S : \A m \in S : <<m, n>> \notin OpToRel(<, Nat)
    BY NatLessThanWellFounded, WFMin
<1>2. PICK n \in S : \A m \in S : <<m, n>> \notin OpToRel(<, Nat)
    BY <1>1
<1>3. ASSUME NEW m \in S PROVE n <= m
  <2>1. m \in Nat /\ n \in Nat /\ <<m, n>> \in Nat \X Nat
    OBVIOUS
  <2>2. <<m, n>> \in OpToRel(<, Nat) <=> m < n
    BY <2>1 DEF OpToRel
  <2>3. ~(m < n)
    BY <1>2, <2>2
  <2>4. QED
    BY <2>1, <2>3
<1>4. QED
    BY <1>3

\* What the limiter keeps is an end of what it held, and all it drops is old.
LEMMA ActiveType ==
    ASSUME TypeOK, NEW k \in Keys, NEW at \in Nat
    PROVE  \E n \in 0 .. Len(attempts[k]) :
              /\ Active(k, at) = SubSeq(attempts[k], n + 1, Len(attempts[k]))
              /\ \A j \in 1 .. n : attempts[k][j] <= at - Window
<1> DEFINE q == attempts[k]
           Past(i) == /\ \A j \in 1 .. i : q[j] <= at - Window
                      /\ i = Len(q) \/ q[i + 1] > at - Window
           Stops == {i \in 0 .. Len(q) : i = Len(q) \/ q[i + 1] > at - Window}
<1>1. q \in Seq(Nat) /\ Len(q) \in Nat /\ Window \in Nat
    BY BoundsAssumption DEF TypeOK
<1>2. PICK n \in Stops : \A m \in Stops : n <= m
  <2>1. Len(q) \in Stops /\ Stops \in SUBSET Nat
    BY <1>1
  <2>2. QED
    BY <2>1, Least
<1>3. Past(n)
  <2> SUFFICES ASSUME NEW j \in 1 .. n PROVE q[j] <= at - Window
    OBVIOUS
  <2>1. j - 1 \in 0 .. Len(q) /\ j - 1 \notin Stops /\ (j - 1) + 1 = j
    <3>1. j \in Nat /\ n \in Nat /\ j <= n /\ n <= Len(q) /\ 1 <= j
      BY <1>1, <1>2
    <3>2. j - 1 \in 0 .. Len(q) /\ ~(n <= j - 1) /\ (j - 1) + 1 = j
      BY <1>1, <3>1
    <3>3. QED
      BY <1>2, <3>2
  <2>2. q[j] \in Nat
    BY <1>1, <1>2, SMTT(30)
  <2>3. QED
    BY <1>1, <2>1, <2>2, SMTT(30)
<1> HIDE DEF Past
<1>4. DEFINE c == CHOOSE i \in 0 .. Len(q) : Past(i)
<1>5. c \in 0 .. Len(q) /\ Past(c)
    BY <1>2, <1>3
<1>6. Active(k, at) = SubSeq(q, c + 1, Len(q))
    BY DEF Active, Past
<1>7. QED
    BY <1>5, <1>6 DEF Past

-------------------------------------------------------------------------------
\* The states between the limiter and the check of a password or a code.
Admits(r) == r.pc \in {"login", "recovery"}

\* A request that names a user or a session names one there is; a session for
\* the default administrator is only ever inserted for a second factor.
Sound(r) ==
    /\ r \in Task
    /\ r.pc \in {"login", "insert", "enroll", "update"} => r.user \in Users
    /\ r.pc = "recovery" => r.user = Admin
    /\ Admits(r) => r.client \in Clients
    /\ r.pc = "insert" /\ r.via = "password" => r.client \in Clients
    /\ r.pc = "insert" => r.via \in {"password", "totp"} /\ (r.user = Admin => r.via = "totp")
    /\ r.pc \in {"refresh", "logout"} => r.session \in Sessions

TasksSound == \A t \in Threads : Sound(task[t])

\* A thread goes on to r.
Gets(t, r) == task' = [task EXCEPT ![t] = r] /\ Sound(r)

\* An idle thread is sound.
LEMMA IdleSound == Sound(Idle) /\ ~Admits(Idle)
BY IdleTask DEF Sound, Idle, Admits

\* A thread that goes on to a sound state leaves all threads sound.
LEMMA GetsSound ==
    ASSUME TypeOK, TasksSound, NEW t \in Threads, NEW r, Gets(t, r)
    PROVE  task' \in [Threads -> Task] /\ TasksSound'
<1>1. task \in [Threads -> Task] /\ r \in Task /\ Sound(r)
    BY DEF TypeOK, Gets, Sound
<1>2. task' \in [Threads -> Task] /\ \A u \in Threads : task'[u] = task[u] \/ task'[u] = r
    BY <1>1 DEF Gets
<1>3. QED
    BY <1>1, <1>2 DEF TasksSound, Sound

\* Every step of a request leads to a sound state, and only the two that ask
\* the limiter lead to one that may record a failure.
LEMMA TaskStep ==
    ASSUME TypeOK, TasksSound, NEW t \in Threads, Step(t), task' # task
    PROVE  \E r : Gets(t, r) /\ (Admits(r) => LoginAllow(t) \/ RecoveryAllow(t))
<1> USE AdminAssumption, IdleTask DEF Gets
<1>0. task \in [Threads -> Task] /\ now \in Nat /\ users \in [Users -> Row] /\ Sound(task[t])
    BY DEF TypeOK, TasksSound
<1>1. CASE Return(t)
    BY <1>1, IdleSound DEF Return
<1>2. CASE LoginAllow(t)
  <2>1. PICK c \in Clients, u \in Users :
          task' = [task EXCEPT ![t] = [Idle EXCEPT !.pc = "login", !.client = c, !.user = u, !.at = now]]
    BY <1>2 DEF LoginAllow, Goto
  <2>2. Sound([Idle EXCEPT !.pc = "login", !.client = c, !.user = u, !.at = now])
    BY <1>0 DEF Sound, Task, Admits
  <2>3. QED
    BY <1>2, <2>1, <2>2
<1>3. CASE LoginRead(t)
  <2> DEFINE r == [task[t] EXCEPT !.pc = "insert", !.via = "password"]
  <2>1. CASE task' = [task EXCEPT ![t] = r] /\ ~NeedsTotp(task[t].user) /\ task[t].pc = "login"
    <3>1. Sound(r) /\ ~Admits(r)
      BY <1>0, <2>1 DEF Sound, Task, Admits, NeedsTotp, Vias
    <3>2. QED
      BY <2>1, <3>1
  <2>2. QED
    BY <1>1, <1>3, <2>1 DEF LoginRead, Return
<1>4. CASE TotpLoginRead(t)
  <2> DEFINE r(u) == [Idle EXCEPT !.pc = "insert", !.user = u, !.via = "totp", !.at = now]
  <2>1. PICK u \in Users : task' = [task EXCEPT ![t] = r(u)]
    BY <1>4 DEF TotpLoginRead, Goto
  <2>2. Sound(r(u)) /\ ~Admits(r(u))
    <3>1. r(u) \in Task /\ r(u).pc = "insert" /\ r(u).user = u /\ r(u).via = "totp"
      BY <1>0 DEF Idle, Task, Vias
    <3> HIDE DEF r
    <3>2. QED
      BY <3>1 DEF Sound, Admits
  <2> HIDE DEF r
  <2>3. QED
    BY <2>1, <2>2
<1>5. CASE RecoveryAllow(t)
  <2> DEFINE r(c) == [Idle EXCEPT !.pc = "recovery", !.client = c, !.user = Admin, !.at = now]
  <2>1. PICK c \in Clients : task' = [task EXCEPT ![t] = r(c)]
    BY <1>5 DEF RecoveryAllow, Goto
  <2>2. Sound(r(c))
    <3>1. r(c) \in Task /\ r(c).pc = "recovery" /\ r(c).user = Admin /\ r(c).client = c
      BY <1>0 DEF Task
    <3> HIDE DEF r
    <3>2. QED
      BY <3>1 DEF Sound, Admits
  <2> HIDE DEF r
  <2>3. QED
    BY <1>5, <2>1, <2>2
<1>6. CASE EnrollVerify(t)
  <2>1. PICK u \in Users : task' = [task EXCEPT ![t] = [Idle EXCEPT !.pc = "enroll", !.user = u]]
    BY <1>6 DEF EnrollVerify, Goto
  <2>2. /\ Sound([Idle EXCEPT !.pc = "enroll", !.user = u])
        /\ ~Admits([Idle EXCEPT !.pc = "enroll", !.user = u])
    BY <1>0 DEF Idle, Sound, Task, Admits
  <2>3. QED
    BY <2>1, <2>2
<1>7. CASE Authorize(t) \/ RefreshBegin(t) \/ LogoutBegin(t)
  <2>1. PICK s \in Sessions, pc \in {"authorized", "refresh", "logout"} :
          task' = [task EXCEPT ![t] = [Idle EXCEPT !.pc = pc, !.session = s]]
    BY <1>7 DEF Authorize, RefreshBegin, LogoutBegin, Authenticated, Goto
  <2>2. Sound([Idle EXCEPT !.pc = pc, !.session = s]) /\ ~Admits([Idle EXCEPT !.pc = pc, !.session = s])
    BY <1>0 DEF Sound, Task, Admits
  <2>3. QED
    BY <2>1, <2>2
<1>8. CASE CreateUser(t) \/ UpdateCommit(t)
  <2>1. Sound([Idle EXCEPT !.pc = "audit"]) /\ ~Admits([Idle EXCEPT !.pc = "audit"])
    BY <1>0 DEF Sound, Task, Admits
  <2>2. QED
    BY <1>8, <2>1 DEF CreateUser, UpdateCommit, Changed
<1>9. CASE UpdateRead(t)
  <2>1. PICK u \in Users, role \in Roles \cup {"none"}, active \in BOOLEAN, pw \in 1 .. MaxPw :
          /\ task' = [task EXCEPT ![t] =
                [@ EXCEPT !.pc = "update", !.user = u, !.next = NextRow(u, role, active, pw)]]
    BY <1>9, ZenonT(60) DEF UpdateRead
  <2>2. NextRow(u, role, active, pw) \in Row
    <3> DEFINE kept == IF role = "none" THEN users[u].role ELSE role
    <3>1. users[u] \in Row /\ kept \in Roles \cup {"absent"} /\ pw \in 0 .. MaxPw
      BY <1>0, BoundsAssumption DEF Row, Roles
    <3>2. NextRow(u, role, active, pw) = [users[u] EXCEPT !.role = kept, !.active = active, !.pw = pw]
      BY DEF NextRow
    <3> HIDE DEF kept
    <3>3. QED
      BY <3>1, <3>2 DEF Row
  <2>3. /\ Sound([task[t] EXCEPT !.pc = "update", !.user = u, !.next = NextRow(u, role, active, pw)])
        /\ ~Admits([task[t] EXCEPT !.pc = "update", !.user = u, !.next = NextRow(u, role, active, pw)])
    BY <1>0, <2>2, ZenonT(60) DEF Sound, Task, Admits
  <2>4. QED
    BY <1>0, <2>1, <2>3
<1>10. QED
    BY <1>1, <1>2, <1>3, <1>4, <1>5, <1>6, <1>7, <1>8, <1>9 DEF Step, InsertSession, RecoveryLogin,
       RequestRecoveryCode, Enroll, RefreshCsrf, Logout, Abandon, AuditWrite

-------------------------------------------------------------------------------
\* A session that was opened with a recovery code has used it up.
SessionInv(s) ==
    /\ sessions[s].state = "unissued" => sessions[s].code = None
    /\ sessions[s].code # None => codes[sessions[s].code] = "used"

\* The part of the invariant that is about sessions and codes.
SessionsHold ==
    /\ codes \in [Codes -> {"unissued", "unused", "used"}]
    /\ sessions \in [Sessions -> Session]
    /\ \A s \in Sessions : SessionInv(s)
    /\ CodeOpensOneSession
    /\ AdminNeedsSecondFactor

\* Every step of a request keeps it.
LEMMA SessionStep ==
    ASSUME TypeOK, TasksSound, SessionsHold, NEW t \in Threads, Step(t)
    PROVE  SessionsHold'
<1> USE AdminAssumption, BoundsAssumption DEF SessionsHold
<1>0. Sound(task[t]) /\ task[t] \in Task
    BY DEF TasksSound, Sound
<1>1. CASE UNCHANGED <<codes, sessions>>
    BY <1>1 DEF SessionInv, CodeOpensOneSession, AdminNeedsSecondFactor
<1>2. CASE InsertSession(t)
  <2> DEFINE r == task[t]
  <2>1. PICK s \in Sessions : OpenSession(s, r.user, r.via, None, r.at)
    BY <1>2 DEF InsertSession
  <2>2. /\ codes' = codes /\ r.user \in Users /\ r.via \in {"password", "totp"}
        /\ r.user = Admin => r.via = "totp" 
        /\ r.at + SessionTtl \in Nat
    BY <1>0, <1>2 DEF InsertSession, Sound, Task
  <2>3. /\ sessions' \in [Sessions -> Session] /\ \A z \in Sessions \ {s} : sessions'[z] = sessions[z]
        /\ sessions'[s].state = "open" /\ sessions'[s].code = None
        /\ sessions'[s].user = r.user /\ sessions'[s].via = r.via
    BY <2>1, <2>2 DEF OpenSession, Session, Vias
  <2>4. QED
    BY <2>2, <2>3 DEF SessionInv, CodeOpensOneSession, AdminNeedsSecondFactor
<1>3. CASE RequestRecoveryCode(t)
  <2>1. PICK c \in Codes : codes[c] = "unissued" /\ codes' = [codes EXCEPT ![c] = "unused"]
    BY <1>3 DEF RequestRecoveryCode
  <2>2. sessions' = sessions /\ \A s \in Sessions : sessions[s] \in Session
    BY <1>3 DEF RequestRecoveryCode
  <2>3. QED
    BY <2>1, <2>2 DEF SessionInv, CodeOpensOneSession, AdminNeedsSecondFactor, Session
<1>4. CASE RecoveryLogin(t) /\ ~UNCHANGED <<codes, sessions>>
  <2> DEFINE r == task[t]
  <2>1. PICK c \in Codes, s \in Sessions : Use(c) /\ OpenSession(s, r.user, "recovery", c, r.at)
    BY <1>4 DEF RecoveryLogin, sessionVars
  <2>2. /\ codes[c] = "unused" /\ codes' = [codes EXCEPT ![c] = "used"] 
        /\ r.user = Admin /\ r.at + SessionTtl \in Nat
    BY <1>0, <1>4, <2>1 DEF RecoveryLogin, Sound, Task, Use
  <2>3. /\ sessions' \in [Sessions -> Session] /\ \A z \in Sessions \ {s} : sessions'[z] = sessions[z]
        /\ sessions'[s].state = "open" /\ sessions'[s].code = c
        /\ sessions'[s].user = Admin /\ sessions'[s].via = "recovery"
    BY <2>1, <2>2 DEF OpenSession, Session, Vias
  <2>4. \A z \in Sessions \ {s} : sessions[z].code # c /\ sessions[z].code \in Codes \cup {None}
    BY <2>2 DEF SessionInv, Session
  <2>5. QED
    BY <2>2, <2>3, <2>4 DEF SessionInv, CodeOpensOneSession, AdminNeedsSecondFactor
<1>5. CASE RefreshCsrf(t) \/ Logout(t)
  <2> DEFINE s == task[t].session
  <2>1. codes' = codes /\ s \in Sessions
    BY <1>0, <1>5 DEF RefreshCsrf, Logout, Sound
  <2>2. /\ sessions' \in [Sessions -> Session] /\ \A z \in Sessions \ {s} : sessions'[z] = sessions[z]
        /\ sessions'[s].state \in {sessions[s].state, "revoked"} /\ sessions'[s].code = sessions[s].code
        /\ sessions'[s].user = sessions[s].user /\ sessions'[s].via = sessions[s].via
    <3>1. CASE RefreshCsrf(t)
      <4> DEFINE r == [sessions[s] EXCEPT !.refreshed = TRUE]
      <4>1. sessions[s] \in Session /\ sessions' = [sessions EXCEPT ![s] = r]
        BY <2>1, <3>1 DEF RefreshCsrf
      <4>2. r \in Session
        BY <4>1 DEF Session
      <4>3. r.state = sessions[s].state /\ r.code = sessions[s].code /\ r.user = sessions[s].user
            /\ r.via = sessions[s].via
        BY <4>1 DEF Session
      <4> HIDE DEF r
      <4>4. QED
        BY <2>1, <4>1, <4>2, <4>3
    <3>2. CASE Logout(t)
      BY <3>2, <2>1 DEF Logout, Session
    <3>3. QED
      BY <1>5, <3>1, <3>2
  <2>3. QED
    BY <2>1, <2>2 DEF SessionInv, CodeOpensOneSession, AdminNeedsSecondFactor
<1>6. QED
    BY <1>1, <1>2, <1>3, <1>4, <1>5 DEF Step, LoginAllow, LoginRead, TotpLoginRead, RecoveryAllow,
       EnrollVerify,
       Enroll, Authorize, RefreshBegin, LogoutBegin, Authenticated, CreateUser, UpdateRead,
       UpdateCommit, Abandon,
       AuditWrite, sessionVars

-------------------------------------------------------------------------------
\* The places of the failures that are later than since.
Recent(q, since) == {i \in DOMAIN q : q[i] > since}

\* They are finite, and not more than the failures.
LEMMA RecentOf ==
    ASSUME NEW q \in Seq(Nat), NEW since \in Int
    PROVE  /\ IsFiniteSet(Recent(q, since)) /\ Cardinality(Recent(q, since)) \in Nat
           /\ Cardinality(Recent(q, since)) <= Len(q)
<1>1. Recent(q, since) \in SUBSET (1 .. Len(q)) /\ Len(q) \in Nat
    BY DEF Recent
<1>2. IsFiniteSet(1 .. Len(q)) /\ Cardinality(1 .. Len(q)) = Len(q)
  <2>1. 1 \in Int /\ Len(q) \in Int
    BY <1>1
  <2>2. IsFiniteSet(1 .. Len(q)) /\ Cardinality(1 .. Len(q)) = IF 1 > Len(q) THEN 0 ELSE Len(q) - 1 + 1
    BY <2>1, FS_Interval
  <2>3. QED
    BY <1>1, <2>2
<1>3. QED
    BY <1>1, <1>2, FS_Subset, FS_CardinalityType

\* Forgetting failures from the left makes them no more.
LEMMA RecentOfSuffix ==
    ASSUME NEW q \in Seq(Nat), NEW since \in Int, NEW n \in 0 .. Len(q)
    PROVE  LET p == SubSeq(q, n + 1, Len(q)) IN
           /\ p \in Seq(Nat)
           /\ Cardinality(Recent(p, since)) <= Cardinality(Recent(q, since))
<1> DEFINE p == SubSeq(q, n + 1, Len(q))
           f == [i \in Recent(p, since) |-> i + n]
<1>1. p \in Seq(Nat) /\ Len(p) = Len(q) - n /\ \A i \in 1 .. Len(p) : p[i] = q[i + n] /\ q[i + n] \in Nat
    BY DEF p
<1> HIDE DEF p
<1>2. f \in Injection(Recent(p, since), Recent(q, since))
  <2>1. \A i \in Recent(p, since) : i \in 1 .. Len(p) /\ i + n \in Recent(q, since)
    <3>1. Len(q) \in Nat /\ n \in Nat /\ Len(p) \in Nat
      BY <1>1
    <3> SUFFICES ASSUME NEW i \in Recent(p, since) PROVE i \in 1 .. Len(p) /\ i + n \in Recent(q, since)
      OBVIOUS
    <3>2. i \in 1 .. Len(p) /\ p[i] > since
      BY <1>1, SMTT(30) DEF Recent
    <3>3. i + n \in 1 .. Len(q) /\ q[i + n] > since
      BY <1>1, <3>1, <3>2, SMTT(30)
    <3>4. QED
      BY <3>2, <3>3 DEF Recent
  <2>2. f \in [Recent(p, since) -> Recent(q, since)]
    BY <2>1
  <2>3. \A i, j \in Recent(p, since) : f[i] = f[j] => i = j
    BY <2>1, <1>1
  <2>4. QED
    BY <2>2, <2>3 DEF Injection, IsInjective
<1>3. Cardinality(Recent(p, since)) <= Cardinality(Recent(q, since))
    BY <1>2, RecentOf, FS_Injection
<1>4. QED
    BY <1>1, <1>3 DEF p

\* One more failure makes them at most one more.
LEMMA RecentOfAppend ==
    ASSUME NEW q \in Seq(Nat), NEW since \in Int, NEW at \in Nat
    PROVE  Cardinality(Recent(Append(q, at), since)) <= Cardinality(Recent(q, since)) + 1
<1>1. Recent(Append(q, at), since) \in SUBSET (Recent(q, since) \cup {Len(q) + 1})
    BY DEF Recent
<1>2. /\ IsFiniteSet(Recent(q, since) \cup {Len(q) + 1})
      /\ Cardinality(Recent(q, since) \cup {Len(q) + 1}) <= Cardinality(Recent(q, since)) + 1
  <2>1. IsFiniteSet(Recent(q, since)) /\ Cardinality(Recent(q, since)) \in Nat
    BY RecentOf
  <2>2. /\ IsFiniteSet(Recent(q, since) \cup {Len(q) + 1})
        /\ Cardinality(Recent(q, since) \cup {Len(q) + 1}) =
             IF Len(q) + 1 \in Recent(q, since) THEN Cardinality(Recent(q, since))
             ELSE Cardinality(Recent(q, since)) + 1
    BY <2>1, FS_AddElement
  <2>3. QED
    BY <2>1, <2>2
<1>3. /\ Cardinality(Recent(Append(q, at), since)) <= Cardinality(Recent(q, since) \cup {Len(q) + 1})
      /\ Cardinality(Recent(Append(q, at), since)) \in Nat /\ Cardinality(Recent(q, since)) \in Nat
      /\ Cardinality(Recent(q, since) \cup {Len(q) + 1}) \in Nat
    BY <1>1, <1>2, RecentOf, FS_Subset, FS_CardinalityType
<1>4. QED
    BY <1>2, <1>3

-------------------------------------------------------------------------------
\* The requests that have passed the limiter and may still record a failure.
Uses(r, k) == r.pc = k[1] /\ r.client = k[2] /\ r.user = k[3]
InFlight(k) == {t \in Threads : Uses(task[t], k)}
Since == now - Window
\* The recent failures and the requests in flight together: what the limiter
\* bounds, although it only counts the failures.
Spared(k) ==
    Cardinality(Recent(attempts[k], Since)) + Cardinality(InFlight(k)) <= Limit - 1 + Cardinality(Threads)
Bounded == \A k \in Keys : Spared(k)

\* Requests in flight are threads.
LEMMA InFlightType ==
    ASSUME NEW k
    PROVE  /\ IsFiniteSet(InFlight(k)) /\ Cardinality(InFlight(k)) \in Nat /\ Cardinality(Threads) \in Nat
           /\ Cardinality(InFlight(k)) <= Cardinality(Threads)
           /\ InFlight(k) \in SUBSET Threads
BY ThreadsAssumption, FS_Subset, FS_CardinalityType DEF InFlight

\* A key that holds no more recent failures than before, and no more tasks
\* that may add one.
LEMMA Calm ==
    ASSUME NEW k \in Keys, attempts[k] \in Seq(Nat), attempts'[k] \in Seq(Nat), Since \in Int, Since' \in Int,
           Spared(k),
           Cardinality(Recent(attempts'[k], Since')) <= Cardinality(Recent(attempts[k], Since)),
           InFlight(k)' \subseteq InFlight(k)
    PROVE  Spared(k)'
<1>1. /\ Cardinality(InFlight(k)') \in Nat /\ Cardinality(InFlight(k)) \in Nat
      /\ Cardinality(InFlight(k)') <= Cardinality(InFlight(k))
    BY InFlightType, FS_Subset, FS_CardinalityType
<1>2. Cardinality(Recent(attempts'[k], Since')) \in Nat /\ Cardinality(Recent(attempts[k], Since)) \in Nat
    BY RecentOf
<1>3. QED
    BY <1>1, <1>2, InFlightType, BoundsAssumption, SMTT(30) DEF Spared

\* What a step of one thread does to the requests in flight.
LEMMA Mine ==
    ASSUME task \in [Threads -> Task], NEW t \in Threads, NEW r, Gets(t, r), NEW k \in Keys
    PROVE  /\ InFlight(k)' \subseteq InFlight(k) \cup (IF Uses(r, k) THEN {t} ELSE {})
           /\ r.pc \notin {"login", "recovery"} => InFlight(k)' \subseteq InFlight(k) \ {t}
BY DEF InFlight, Uses, Gets, Sound, Keys

\* Keys of the limiter are triples.
LEMMA KeyTriple ==
    ASSUME NEW k \in Keys, NEW l \in Keys, k[1] = l[1], k[2] = l[2], k[3] = l[3]
    PROVE  k = l
BY DEF Keys

\* The limiter lets a request in.
LEMMA Admitted ==
    ASSUME TypeOK, Bounded, NEW t \in Threads, NEW r, Gets(t, r), NEW k0 \in Keys,
           Allow(k0, now), attempts' = [attempts EXCEPT ![k0] = Active(k0, now)],
           Uses(r, k0), now' = now
    PROVE  attempts' \in [Keys -> Seq(Nat)] /\ Bounded'
<1>0. /\ now \in Nat /\ Since \in Int /\ Since' = Since
      /\ attempts \in [Keys -> Seq(Nat)] /\ task \in [Threads -> Task]
      /\ Limit \in Nat \ {0}
    BY BoundsAssumption DEF TypeOK, Since
<1>1. PICK n \in 0 .. Len(attempts[k0]) :
        Active(k0, now) = SubSeq(attempts[k0], n + 1, Len(attempts[k0]))
    BY <1>0, ActiveType
<1>2. Active(k0, now) \in Seq(Nat)
    BY <1>0, <1>1, RecentOfSuffix
<1>3. attempts' \in [Keys -> Seq(Nat)]
    BY <1>0, <1>2
<1>4. Spared(k0)'
  <2> DEFINE q == Active(k0, now)
             c == Cardinality(Recent(q, Since))
             f == Cardinality(InFlight(k0)')
             n0 == Cardinality(Threads)
  <2>1. attempts'[k0] = q /\ Len(q) < Limit /\ Len(q) \in Nat
    BY <1>0, <1>2 DEF Allow
  <2>2. c \in Nat /\ c <= Len(q)
    BY <1>0, <1>2, RecentOf
  <2>3. f \in Nat /\ n0 \in Nat /\ f <= n0
    <3>1. InFlight(k0)' \in SUBSET Threads
      BY DEF InFlight
    <3>2. QED
      BY <3>1, ThreadsAssumption, FS_Subset, FS_CardinalityType
  <2>4. Spared(k0)' <=> c + f <= Limit - 1 + n0
    BY <1>0, <2>1 DEF Spared
  <2> HIDE DEF c, f, n0, q
  <2>5. QED
    BY <1>0, <2>1, <2>2, <2>3, <2>4
<1>5. ASSUME NEW k \in Keys \ {k0} PROVE Spared(k)'
  <2>1. attempts'[k] = attempts[k]
    BY <1>0
  <2>2. InFlight(k)' \subseteq InFlight(k)
    <3>1. ~Uses(r, k)
      BY KeyTriple DEF Uses
    <3>2. QED
      BY <1>0, <3>1, Mine
  <2>3. Cardinality(Recent(attempts'[k], Since')) <= Cardinality(Recent(attempts[k], Since))
    <3> DEFINE c == Cardinality(Recent(attempts[k], Since))
               d == Cardinality(Recent(attempts'[k], Since'))
    <3>1. c = d
      BY <1>0, <2>1
    <3>2. c \in Nat
      BY <1>0, RecentOf
    <3>3. d <= c
      <4> HIDE DEF c, d
      <4>1. QED
        BY <3>1, <3>2
    <3>4. QED
      BY <3>3
  <2>4. QED
    BY <1>0, <1>3, <2>2, <2>3, Calm DEF Bounded
<1>6. QED
    BY <1>3, <1>4, <1>5 DEF Bounded

\* A failure is recorded by a request that has been in flight.
LEMMA Recorded ==
    ASSUME TypeOK, Bounded, NEW t \in Threads, NEW k0 \in Keys, NEW at \in Nat,
           Uses(task[t], k0),
           attempts' = [attempts EXCEPT ![k0] = Append(Active(k0, at), at)], Return(t), now' = now
    PROVE  attempts' \in [Keys -> Seq(Nat)] /\ Bounded'
<1>0. /\ now \in Nat /\ Since \in Int /\ Since' = Since
      /\ attempts \in [Keys -> Seq(Nat)] /\ task \in [Threads -> Task]
      /\ Limit \in Nat \ {0} /\ Gets(t, Idle) /\ Idle.pc = "idle"
    BY BoundsAssumption, IdleSound DEF TypeOK, Since, Gets, Return, Idle
<1>1. PICK n \in 0 .. Len(attempts[k0]) : Active(k0, at) = SubSeq(attempts[k0], n + 1, Len(attempts[k0]))
    BY <1>0, ActiveType
<1>2. /\ Active(k0, at) \in Seq(Nat)
      /\ Cardinality(Recent(Active(k0, at), Since)) <= Cardinality(Recent(attempts[k0], Since))
    BY <1>0, <1>1, RecentOfSuffix
<1>3. attempts' \in [Keys -> Seq(Nat)]
    BY <1>0, <1>2
<1>4. Spared(k0)'
  <2>1. Cardinality(Recent(attempts'[k0], Since')) <= Cardinality(Recent(Active(k0, at), Since)) + 1
    BY <1>0, <1>2, <1>3, RecentOfAppend
  <2>2. /\ Cardinality(Recent(attempts'[k0], Since')) \in Nat /\ Cardinality(Recent(attempts[k0], Since)) \in Nat
        /\ Cardinality(Recent(Active(k0, at), Since)) \in Nat
    BY <1>0, <1>2, <1>3, RecentOf
  <2>3. t \in InFlight(k0)
    BY DEF InFlight
  <2>4. InFlight(k0)' \subseteq InFlight(k0) \ {t}
    BY <1>0, Mine
  <2>5. /\ Cardinality(InFlight(k0)') \in Nat /\ Cardinality(InFlight(k0)) \in Nat
        /\ Cardinality(InFlight(k0)') <= Cardinality(InFlight(k0)) - 1
    BY <2>3, <2>4, InFlightType, FS_Subset, FS_RemoveElement, FS_CardinalityType
  <2> DEFINE c == Cardinality(Recent(attempts[k0], Since))
             d == Cardinality(Recent(attempts'[k0], Since'))
             f == Cardinality(InFlight(k0))
             g == Cardinality(InFlight(k0)')
  <2>6. d <= c + 1 /\ d \in Nat /\ c \in Nat
    BY <1>2, <2>1, <2>2
  <2>7. c + f <= Limit - 1 + Cardinality(Threads)
    BY DEF Bounded, Spared
  <2>8. Spared(k0)' <=> d + g <= Limit - 1 + Cardinality(Threads)
    BY DEF Spared
  <2>9. g \in Nat /\ f \in Nat /\ g <= f - 1 /\ Cardinality(Threads) \in Nat
    BY <2>5, InFlightType
  <2> HIDE DEF c, d, f, g
  <2>10. QED
    BY <1>0, <2>6, <2>7, <2>8, <2>9
<1>5. ASSUME NEW k \in Keys \ {k0} PROVE Spared(k)'
  <2>1. attempts'[k] = attempts[k]
    BY <1>0, <1>3
  <2>2. InFlight(k)' \subseteq InFlight(k)
    BY <1>0, Mine
  <2>3. Cardinality(Recent(attempts'[k], Since')) <= Cardinality(Recent(attempts[k], Since))
    <3> DEFINE c == Cardinality(Recent(attempts[k], Since))
               d == Cardinality(Recent(attempts'[k], Since'))
    <3>1. c = d
      BY <1>0, <2>1
    <3>2. c \in Nat
      BY <1>0, RecentOf
    <3>3. d <= c
      <4> HIDE DEF c, d
      <4>1. QED
        BY <3>1, <3>2
    <3>4. QED
      BY <3>3
  <2>4. QED
    BY <1>0, <1>3, <2>2, <2>3, Calm DEF Bounded
<1>6. QED
    BY <1>3, <1>4, <1>5 DEF Bounded

\* A step that admits nobody and records nothing.
LEMMA Forgiven ==
    ASSUME TypeOK, Bounded, \A k \in Keys : InFlight(k)' \subseteq InFlight(k),
           now' = now \/ now' = now + 1,
           attempts' \in [Keys -> Seq(Nat)], \A k \in Keys : attempts'[k] \in {attempts[k], << >>}
    PROVE  Bounded'
<1>0. /\ now \in Nat /\ Since \in Int /\ Since' \in Int /\ Since <= Since'
      /\ attempts \in [Keys -> Seq(Nat)]
    BY BoundsAssumption DEF TypeOK, Since
<1>2. ASSUME NEW k \in Keys PROVE Spared(k)'
  <2>1. Recent(attempts'[k], Since') \subseteq Recent(attempts[k], Since)
    BY <1>0 DEF Recent
  <2>2. IsFiniteSet(Recent(attempts[k], Since))
    BY <1>0, RecentOf
  <2>3. Cardinality(Recent(attempts'[k], Since')) <= Cardinality(Recent(attempts[k], Since))
    BY <2>1, <2>2, FS_Subset
  <2>4. QED
    BY <1>0, <2>3, Calm DEF Bounded
<1>3. QED
    BY <1>2 DEF Bounded

\* Every step of a request keeps the bound on failures.
LEMMA AttemptsStep ==
    ASSUME TypeOK, TasksSound, Bounded, NEW t \in Threads, Step(t)
    PROVE  attempts' \in [Keys -> Seq(Nat)] /\ Bounded'
<1> USE AdminAssumption, BoundsAssumption
<1>0. /\ task \in [Threads -> Task] /\ now \in Nat /\ Sound(task[t]) /\ task[t].at \in Nat
      /\ attempts \in [Keys -> Seq(Nat)] /\ now' = now
    BY DEF TypeOK, TasksSound, Task, Step, LoginAllow, LoginRead, TotpLoginRead, RecoveryAllow,
       RecoveryLogin,
       InsertSession, RequestRecoveryCode, EnrollVerify, Enroll, Authorize, RefreshBegin, LogoutBegin,
       Authenticated,
       CreateUser, UpdateRead, UpdateCommit, Abandon, AuditWrite, RefreshCsrf, Logout
<1>1. CASE LoginAllow(t)
  <2>1. PICK c \in Clients, u \in Users :
          /\ Allow(<<"login", c, u>>, now)
          /\ attempts' = [attempts EXCEPT ![<<"login", c, u>>] = Active(<<"login", c, u>>, now)]
          /\ task' = [task EXCEPT ![t] = [Idle EXCEPT !.pc = "login", !.client = c, !.user = u, !.at = now]]
    BY <1>1 DEF LoginAllow, Goto
  <2> DEFINE r == [Idle EXCEPT !.pc = "login", !.client = c, !.user = u, !.at = now]
             k == <<"login", c, u>>
  <2>2. Sound(r) /\ Uses(r, k) /\ k \in Keys
    <3>1. r \in Task /\ r.pc = k[1] /\ r.client = k[2] /\ r.user = k[3]
      BY <1>0, IdleTask DEF Task
    <3>2. k \in Keys
      BY DEF Keys
    <3> HIDE DEF r
    <3>3. k[1] \in {"login", "recovery"} /\ k[2] \in Clients /\ k[3] \in Users /\ (k[1] = "recovery" => k[3] = Admin)
      OBVIOUS
    <3> HIDE DEF k
    <3>4. QED
      BY <3>1, <3>2, <3>3 DEF Sound, Admits, Uses
  <2>3. Gets(t, r)
    BY <2>1, <2>2 DEF Gets
  <2> HIDE DEF r, k
  <2>4. Allow(k, now) /\ attempts' = [attempts EXCEPT ![k] = Active(k, now)]
    BY <2>1 DEF k
  <2>5. QED
    BY <1>0, <2>2, <2>3, <2>4, Admitted
<1>2. CASE RecoveryAllow(t)
  <2>1. PICK c \in Clients :
          /\ Allow(<<"recovery", c, Admin>>, now)
          /\ attempts' = [attempts EXCEPT ![<<"recovery", c, Admin>>] =
                                        Active(<<"recovery", c, Admin>>, now)]
          /\ task' = [task EXCEPT ![t] = [Idle EXCEPT !.pc = "recovery", !.client = c, !.user = Admin,
                                                    !.at = now]]
    BY <1>2 DEF RecoveryAllow, Goto
  <2> DEFINE r == [Idle EXCEPT !.pc = "recovery", !.client = c, !.user = Admin, !.at = now]
             k == <<"recovery", c, Admin>>
  <2>2. Sound(r) /\ Uses(r, k) /\ k \in Keys
    <3>1. r \in Task /\ r.pc = k[1] /\ r.client = k[2] /\ r.user = k[3]
      BY <1>0, IdleTask DEF Task
    <3>2. k \in Keys
      BY DEF Keys
    <3> HIDE DEF r
    <3>3. k[1] \in {"login", "recovery"} /\ k[2] \in Clients /\ k[3] \in Users /\ (k[1] = "recovery" => k[3] = Admin)
      OBVIOUS
    <3> HIDE DEF k
    <3>4. QED
      BY <3>1, <3>2, <3>3 DEF Sound, Admits, Uses
  <2>3. Gets(t, r)
    BY <2>1, <2>2 DEF Gets
  <2> HIDE DEF r, k
  <2>4. Allow(k, now) /\ attempts' = [attempts EXCEPT ![k] = Active(k, now)]
    BY <2>1 DEF k
  <2>5. QED
    BY <1>0, <2>2, <2>3, <2>4, Admitted
<1>3. CASE LoginRead(t) /\ attempts' # attempts
  <2> DEFINE k == <<"login", task[t].client, task[t].user>>
             at == task[t].at
  <2>1. attempts' = [attempts EXCEPT ![k] = Append(Active(k, at), at)] /\ Return(t) /\ task[t].pc = "login"
    BY <1>3 DEF LoginRead, RecordFailure
  <2>2. k \in Keys /\ Uses(task[t], k)
    BY <1>0, <2>1, SMTT(30) DEF Sound, Admits, Keys, Uses
  <2> HIDE DEF k
  <2>3. QED
    BY <1>0, <2>1, <2>2, Recorded
<1>4. CASE RecoveryLogin(t) /\ ~ClearFailures(<<"recovery", task[t].client, task[t].user>>)
  <2> DEFINE k == <<"recovery", task[t].client, task[t].user>>
             at == task[t].at
  <2>1. /\ attempts' = [attempts EXCEPT ![k] = Append(Active(k, at), at)]
        /\ Return(t) /\ task[t].pc = "recovery"
    BY <1>0, <1>4 DEF RecoveryLogin, RecordFailure, ClearFailures, Sound
  <2>2. k \in Keys /\ Uses(task[t], k)
    BY <1>0, <2>1, SMTT(30) DEF Sound, Admits, Keys, Uses
  <2> HIDE DEF k
  <2>3. QED
    BY <1>0, <2>1, <2>2, Recorded
<1>5. CASE /\ ~LoginAllow(t) /\ ~RecoveryAllow(t)
           /\ (attempts' = attempts \/ \E k \in Keys : ClearFailures(k))
  <2>1. attempts' \in [Keys -> Seq(Nat)] /\ \A k \in Keys : attempts'[k] \in {attempts[k], << >>}
    <3>1. << >> \in Seq(Nat)
      OBVIOUS
    <3>2. QED
      BY <1>0, <1>5, <3>1 DEF ClearFailures
  <2>2. ASSUME NEW k \in Keys PROVE InFlight(k)' \subseteq InFlight(k)
    <3>1. CASE task' = task
      BY <3>1 DEF InFlight
    <3>2. CASE task' # task
      <4>1. PICK r : Gets(t, r) /\ ~Admits(r)
        BY <1>5, <3>2, TaskStep
      <4>2. QED
        BY <1>0, <4>1, Mine DEF Admits
    <3>3. QED
      BY <3>1, <3>2
  <2>3. QED
    BY <1>0, <2>1, <2>2, Forgiven
<1>6. \/ LoginRead(t) /\ attempts' = attempts
      \/ InsertSession(t)
      \/ RecoveryLogin(t) /\ ClearFailures(<<"recovery", task[t].client, task[t].user>>)
      => attempts' = attempts \/ \E k \in Keys : ClearFailures(k)
  <2>1. CASE LoginRead(t) /\ attempts' = attempts
    BY <2>1
  <2>2. CASE InsertSession(t)
    <3> DEFINE k == <<"login", task[t].client, task[t].user>>
    <3>1. task[t].via = "password" => k \in Keys
      BY <1>0, <2>2 DEF InsertSession, Sound, Keys
    <3>2. attempts' = attempts \/ (task[t].via = "password" /\ ClearFailures(k))
      BY <2>2 DEF InsertSession
    <3>3. QED
      BY <3>1, <3>2
  <2>3. CASE RecoveryLogin(t) /\ ClearFailures(<<"recovery", task[t].client, task[t].user>>)
    <3>1. <<"recovery", task[t].client, task[t].user>> \in Keys
      BY <1>0, <2>3 DEF RecoveryLogin, Sound, Admits, Keys
    <3>2. QED
      BY <2>3, <3>1
  <2>4. QED
    BY <2>1, <2>2, <2>3
<1>7. QED
    BY <1>1, <1>2, <1>3, <1>4, <1>5, <1>6 DEF Step, TotpLoginRead, RequestRecoveryCode,
       EnrollVerify, Enroll, Authorize, RefreshBegin, LogoutBegin, Authenticated, CreateUser, UpdateRead,
       UpdateCommit, Abandon, AuditWrite, RefreshCsrf, Logout, sessionVars

-------------------------------------------------------------------------------
\* Every step of a request keeps the rows and counters typed, and the time.
LEMMA AccountsStep ==
    ASSUME TypeOK, TasksSound, NEW t \in Threads, Step(t)
    PROVE  /\ now' = now
           /\ users' \in [Users -> Row]
           /\ locks' \in [Users -> Threads \cup {None}]
           /\ secrets' \in 0 .. MaxEvents /\ happened' \in 0 .. MaxEvents
<1> USE AdminAssumption, BoundsAssumption
<1>0. /\ task[t] \in Task /\ Sound(task[t])
      /\ now \in Nat /\ secrets \in 0 .. MaxEvents /\ happened \in 0 .. MaxEvents
      /\ users \in [Users -> Row] /\ locks \in [Users -> Threads \cup {None}]
    BY DEF TypeOK, TasksSound
<1>1. CASE now' = now /\ UNCHANGED accountVars /\ happened' = happened
    BY <1>0, <1>1 DEF accountVars
<1>2. CASE Enroll(t)
  <2>1. CASE Room /\ secrets' = secrets + 1 /\ users' = [users EXCEPT ![task[t].user].secret = secrets + 1]
    <3>1. secrets + 1 \in 0 .. MaxEvents
      BY <1>0, <2>1 DEF Room, Events
    <3>2. users' \in [Users -> Row]
      <4> DEFINE row == [users[task[t].user] EXCEPT !.secret = secrets + 1]
      <4>1. users' = [users EXCEPT ![task[t].user] = row] /\ task[t].user \in Users
        BY <1>0, <1>2, <2>1 DEF Enroll, Sound
      <4>2. row \in Row
        BY <1>0, <3>1, <4>1 DEF Row
      <4> HIDE DEF row
      <4>3. QED
        BY <1>0, <4>1, <4>2
    <3>3. QED
      BY <1>0, <1>2, <2>1, <3>1, <3>2 DEF Enroll
  <2>2. QED
    BY <1>0, <1>2, <2>1 DEF Enroll
<1>3. CASE CreateUser(t)
  <2>1. PICK u \in Users, role \in Roles :
          users' = [users EXCEPT ![u] = [role |-> role, active |-> TRUE, pw |-> 1, secret |-> 0]]
    BY <1>3 DEF CreateUser
  <2>2. [role |-> role, active |-> TRUE, pw |-> 1, secret |-> 0] \in Row
    BY DEF Row
  <2>3. happened' \in 0 .. MaxEvents
    BY <1>0, <1>3 DEF CreateUser, Changed, Room, Events
  <2>4. QED
    BY <1>0, <1>3, <2>1, <2>2, <2>3 DEF CreateUser
<1>4. CASE UpdateRead(t)
    BY <1>0, <1>4 DEF UpdateRead
<1>5. CASE UpdateCommit(t)
  <2>1. task[t].next \in Row
    BY <1>0 DEF Task
  <2>2. happened' \in 0 .. MaxEvents
    BY <1>0, <1>5 DEF UpdateCommit, Changed, Room, Events
  <2>3. QED
    BY <1>0, <1>5, <2>1, <2>2 DEF UpdateCommit
<1>6. CASE Abandon(t)
    BY <1>0, <1>6 DEF Abandon
<1>7. QED
    BY <1>1, <1>2, <1>3, <1>4, <1>5, <1>6 DEF Step, LoginAllow, LoginRead, TotpLoginRead, RecoveryAllow,
       RecoveryLogin, InsertSession, RequestRecoveryCode, EnrollVerify, Authorize, RefreshBegin,
       LogoutBegin,
       Authenticated, AuditWrite, RefreshCsrf, Logout

\* The inductive invariant.
AccessInv == TypeOK /\ TasksSound /\ SessionsHold /\ Bounded

\* Every step keeps the invariant.
LEMMA AccessStep ==
    ASSUME AccessInv, [Next]_vars
    PROVE  AccessInv'
<1> USE AdminAssumption, BoundsAssumption DEF AccessInv
<1>1. ASSUME NEW t \in Threads, Step(t) PROVE AccessInv'
  <2>1. task' \in [Threads -> Task] /\ TasksSound'
    BY <1>1, TaskStep, GetsSound DEF TypeOK, TasksSound
  <2>2. QED
    BY <1>1, <2>1, AccountsStep, AttemptsStep, SessionStep DEF TypeOK, SessionsHold
<1>2. CASE Tick
  <2>1. TypeOK' /\ TasksSound' /\ SessionsHold'
    BY <1>2 DEF Tick, TypeOK, TasksSound, SessionsHold, SessionInv, CodeOpensOneSession,
       AdminNeedsSecondFactor,
       accountVars, sessionVars
  <2>2. Bounded'
    BY <1>2, Forgiven DEF Tick, TypeOK, InFlight
  <2>3. QED
    BY <2>1, <2>2
<1>3. CASE Restart
  <2>1. TypeOK'
    <3>1. << >> \in Seq(Nat) /\ users[Admin] \in Row /\ DefaultAdmin(users[Admin].secret) \in Row
      BY DEF TypeOK, Row, Roles, DefaultAdmin
    <3>2. QED
      BY <1>3, <3>1, IdleTask DEF Restart, Room, Events, TypeOK, sessionVars
  <2>2. TasksSound'
    BY <1>3, IdleSound DEF Restart, TasksSound
  <2>3. SessionsHold'
    BY <1>3 DEF Restart, SessionsHold, SessionInv, CodeOpensOneSession, AdminNeedsSecondFactor,
       sessionVars
  <2>4. Bounded'
    <3>1. attempts' \in [Keys -> Seq(Nat)] /\ \A k \in Keys : attempts'[k] = << >> /\ InFlight(k)' = {}
      BY <1>3 DEF Restart, InFlight, Uses, Idle, Keys
    <3>2. QED
      BY <1>3, <3>1, Forgiven DEF Restart
  <2>5. QED
    BY <2>1, <2>2, <2>3, <2>4
<1>4. ASSUME NEW k \in Keys, Evict(k) PROVE AccessInv'
  <2>1. << >> \in Seq(Nat) /\ attempts \in [Keys -> Seq(Nat)]
    BY DEF TypeOK
  <2>2. /\ attempts' \in [Keys -> Seq(Nat)]
        /\ \A l \in Keys : attempts'[l] \in {attempts[l], << >>}
    BY <1>4, <2>1 DEF Evict
  <2>3. TypeOK' /\ TasksSound' /\ SessionsHold'
    BY <1>4, <2>2 DEF Evict, TypeOK, TasksSound, SessionsHold, SessionInv, CodeOpensOneSession,
       AdminNeedsSecondFactor, accountVars, sessionVars
  <2>4. Bounded'
    BY <1>4, <2>2, Forgiven DEF Evict, InFlight
  <2>5. QED
    BY <2>3, <2>4
<1>5. CASE UNCHANGED vars
    BY <1>5, Forgiven DEF vars, accountVars, sessionVars, TypeOK, TasksSound, SessionsHold, SessionInv,
       CodeOpensOneSession, AdminNeedsSecondFactor, InFlight
<1>6. QED
    BY <1>1, <1>2, <1>3, <1>4, <1>5 DEF Next

\* It holds when the control plane starts.
LEMMA AccessInit == Init => AccessInv
<1> SUFFICES ASSUME Init PROVE AccessInv
    OBVIOUS
<1> USE AdminAssumption, BoundsAssumption DEF Init
<1>1. TypeOK
  <2>1. NoSession \in Session /\ << >> \in Seq(Nat) /\ DefaultAdmin(0) \in Row
    BY DEF NoSession, Session, Row, Roles, DefaultAdmin
  <2>2. QED
    BY <2>1, IdleTask DEF TypeOK
<1>2. TasksSound
    BY IdleSound DEF TasksSound
<1>3. SessionsHold
    BY <1>1 DEF TypeOK, SessionsHold, SessionInv, NoSession, CodeOpensOneSession, AdminNeedsSecondFactor
<1>4. Bounded
  <2> SUFFICES ASSUME NEW k \in Keys PROVE Spared(k)
    BY DEF Bounded
  <2>1. Recent(attempts[k], Since) = {} /\ InFlight(k) = {}
    BY DEF Recent, InFlight, Uses, Idle, Keys
  <2>2. Cardinality(Recent(attempts[k], Since)) = 0 /\ Cardinality(InFlight(k)) = 0
    BY <2>1, FS_EmptySet
  <2>3. Cardinality(Threads) \in Nat /\ Limit \in Nat \ {0}
    BY InFlightType
  <2>4. QED
    BY <2>2, <2>3 DEF Spared
<1>5. QED
    BY <1>1, <1>2, <1>3, <1>4 DEF AccessInv

\* It is an invariant.
LEMMA AccessInvariance == Spec => []AccessInv
BY AccessInit, AccessStep, PTL DEF Spec

\* The state of users, sessions and the limiter stays well typed, for any number
\* of users, requests, sessions and codes.
THEOREM AccessTypeCorrect == Spec => []TypeOK
BY AccessInvariance, PTL DEF AccessInv

\* With the requests in flight counted, the limiter keeps what it promises.
LEMMA BoundedFailures == AccessInv => FailuresBounded
<1> SUFFICES ASSUME AccessInv, NEW k \in Keys
             PROVE  Cardinality({i \in DOMAIN attempts[k] : attempts[k][i] > now - Window})
                        <= Limit + Cardinality(Threads) - 1
    BY DEF FailuresBounded
<1>1. Spared(k) /\ attempts[k] \in Seq(Nat) /\ Since \in Int /\ Limit \in Nat
    BY BoundsAssumption DEF AccessInv, Bounded, TypeOK, Since
<1>2. Cardinality(Recent(attempts[k], Since)) \in Nat
    BY <1>1, RecentOf
<1>3. Cardinality(Recent(attempts[k], Since)) <= Limit + Cardinality(Threads) - 1
    BY <1>1, <1>2, InFlightType DEF Spared
<1>4. QED
    BY <1>3 DEF Recent, Since

\* A recovery code opens one session at most, the default administrator never
\* gets in without a second factor, and the login limiter is overrun by the
\* requests in flight at most, whatever requests do at the same time.
THEOREM LoginIsGuarded == Spec => []LoginGuarded
<1>1. AccessInv => LoginGuarded
    BY BoundedFailures DEF AccessInv, SessionsHold, LoginGuarded
<1>2. QED
    BY <1>1, AccessInvariance, PTL

\* No step changes the state of a revoked session.
LEMMA RevokedStep ==
    ASSUME AccessInv, [Next]_vars, NEW s \in Sessions, sessions[s].state = "revoked"
    PROVE  sessions'[s].state = "revoked"
<1> USE DEF AccessInv
<1>0. sessions \in [Sessions -> Session]
    BY DEF TypeOK
<1>1. CASE UNCHANGED sessions
    BY <1>1
<1>2. ASSUME NEW t \in Threads, InsertSession(t) PROVE sessions'[s].state = "revoked"
    BY <1>0, <1>2 DEF InsertSession, OpenSession
<1>3. ASSUME NEW t \in Threads, RecoveryLogin(t) PROVE sessions'[s].state = "revoked"
    BY <1>0, <1>3 DEF RecoveryLogin, OpenSession, sessionVars
<1>4. ASSUME NEW t \in Threads, RefreshCsrf(t) \/ Logout(t) PROVE sessions'[s].state = "revoked"
  <2>1. task[t].session \in Sessions
    BY <1>4 DEF TasksSound, Sound, RefreshCsrf, Logout
  <2>2. sessions[s] \in Session /\ DOMAIN sessions[s] = {"state", "user", "via", "code", "expires", "refreshed"}
    BY <1>0 DEF Session
  <2>3. CASE RefreshCsrf(t)
    <3> DEFINE r == [sessions[task[t].session] EXCEPT !.refreshed = TRUE]
    <3>1. sessions' = [sessions EXCEPT ![task[t].session] = r]
      BY <2>3 DEF RefreshCsrf
    <3>2. r.state = sessions[task[t].session].state
      BY <1>0, <2>1 DEF Session
    <3> HIDE DEF r
    <3>3. QED
      BY <1>0, <2>1, <3>1, <3>2
  <2>4. CASE Logout(t)
    BY <1>0, <2>1, <2>4 DEF Logout, Session
  <2>5. QED
    BY <1>4, <2>3, <2>4
<1>5. QED
    BY <1>1, <1>2, <1>3, <1>4 DEF Next, Step, Tick, Evict, Restart, vars, LoginAllow, LoginRead, TotpLoginRead,
       RecoveryAllow, RequestRecoveryCode, EnrollVerify, Enroll, Authorize, RefreshBegin, LogoutBegin,
       Authenticated,
       CreateUser, UpdateRead, UpdateCommit, Abandon, AuditWrite, sessionVars

\* A session that was logged out stays revoked, also when another request
\* refreshes it at the same time (refresh_csrf, logout).
THEOREM RevokedSessionsStay == Spec => RevokedStaysRevoked
<1>1. AccessInv /\ [Next]_vars
        => [\A s \in Sessions : sessions[s].state = "revoked" => sessions'[s].state = "revoked"]_vars
    BY RevokedStep
<1>2. QED
    BY <1>1, AccessInvariance, PTL DEF Spec, RevokedStaysRevoked

(***************************************************************************)
(* ManagedConfiguration                                                    *)
(***************************************************************************)

\* The writes a request may have planned.
ManagedWrites ==
    [table : {"provider"}, mode : {"insert", "update"}, id : Providers, row : ProviderRow]
    \cup [table : {"provider"}, mode : {"delete"}, id : Providers, row : {NoEntry}]
    \cup [table : {"profile"}, mode : {"insert", "update"}, id : Profiles, row : ProfileRow]
    \cup [table : {"profile"}, mode : {"delete"}, id : Profiles, row : {NoEntry}]
    \cup [table : {"model"}, mode : {"insert", "update"}, id : Models,
          row : [provider : Providers, profile : Profiles \cup {NoEntry}]]
    \cup [table : {"model"}, mode : {"delete"}, id : Models, row : {NoEntry}]
    \cup [table : {"policy"}, mode : {"insert", "delete"}, id : Policies, row : {NoEntry}]

\* The provider of every model exists: the foreign key.
Linked == \A m \in Models : model[m] # NoEntry => provider[model[m].provider] # NoEntry

\* The revisions of the drafts, which have no gaps.
Revisions == {d.revision : d \in drafts}
Gapless == IsFiniteSet(drafts) /\ \E n \in 0 .. MaxDrafts : Revisions = 1 .. n

\* What a request holds between its reads and its commit.  A draft has read
\* from one state, where the models referred to providers that existed.
RequestInv(c) ==
    /\ req[c].pc = "write" => req[c].write \in ManagedWrites
    /\ req[c].pc = "draft" =>
         /\ \A r \in req[c].seen.models : r.provider \in req[c].providers
         /\ \E n \in Nat : n < MaxDrafts /\ req[c].seen.revisions = 1 .. n
         /\ req[c].seen.revisions \subseteq Revisions

\* The inductive invariant: DraftIsClosed rests on the foreign key, the bound on
\* revisions on their having no gaps.
ManagedInv ==
    /\ ManagedTypeOK
    /\ req = [c \in Requests |-> req[c]]
    /\ \A m \in Models : model[m] # NoEntry => model[m].provider \in Providers
    /\ Linked
    /\ Gapless
    /\ \A c \in Requests : RequestInv(c)
    /\ DraftIsClosed

\* Every write that passes the checks has its type.
LEMMA WritesType == ASSUME ManagedTypeOK PROVE Writes \subseteq ManagedWrites
<1> USE DEF ManagedTypeOK, ManagedWrites, Insert, Update, Delete
<1>1. ProviderWrites \subseteq ManagedWrites
    BY DEF ProviderWrites, ProviderRow
<1>2. ProfileWrites \subseteq ManagedWrites
    BY DEF ProfileWrites
<1>3. InsertsChecked \subseteq ManagedWrites
    BY DEF InsertsChecked, ModelInserts
<1>4. ModelUpdates \subseteq ManagedWrites
    BY DEF ModelUpdates
<1>5. ModelDeletes \subseteq ManagedWrites
    BY DEF ModelDeletes
<1>6. PolicyWrites \subseteq ManagedWrites
    BY DEF PolicyWrites
<1>7. QED
    BY <1>1, <1>2, <1>3, <1>4, <1>5, <1>6 DEF Writes

\* As long as there are fewer drafts than the bound, so are revisions.
LEMMA FewerRevisions ==
    ASSUME Gapless, Cardinality(drafts) < MaxDrafts
    PROVE  \E n \in Nat : n < MaxDrafts /\ Revisions = 1 .. n
<1>1. PICK n \in 0 .. MaxDrafts : Revisions = 1 .. n
    BY DEF Gapless
<1>2. n \in Nat /\ MaxDrafts \in Nat
    BY DraftsAssumption
<1> DEFINE f == [d \in drafts |-> d.revision]
<1>3. f \in Surjection(drafts, Revisions)
    BY DEF Surjection, Revisions
<1>4. Cardinality(1 .. n) <= Cardinality(drafts) /\ Cardinality(drafts) \in Nat
    BY <1>1, <1>3, FS_Surjection, FS_CardinalityType DEF Gapless
<1>5. Cardinality(1 .. n) = n
  <2>1. Cardinality(1 .. n) = IF 1 > n THEN 0 ELSE n - 1 + 1
    BY <1>2, FS_Interval
  <2>2. QED
    BY <1>2, <2>1
<1>6. QED
    BY <1>1, <1>2, <1>4, <1>5

\* The next revision is one more than the last.
LEMMA RevisionAfter ==
    ASSUME NEW body, NEW n \in Nat, body.revisions = 1 .. n
    PROVE  NextRevision(body) = n + 1
<1>1. CASE n = 0
    BY <1>1 DEF NextRevision
<1>2. CASE n # 0
  <2> DEFINE m == CHOOSE x \in 1 .. n : \A k \in 1 .. n : k <= x
  <2>1. n \in 1 .. n /\ \A k \in 1 .. n : k <= n
    BY <1>2
  <2>2. m \in 1 .. n /\ \A k \in 1 .. n : k <= m
    BY <2>1
  <2>3. m = n
    BY <2>1, <2>2
  <2>4. NextRevision(body) = 1 + m
    BY <2>1 DEF NextRevision
  <2> HIDE DEF m
  <2>5. QED
    BY <2>3, <2>4
<1>3. QED
    BY <1>1, <1>2

\* A commit that the database accepts leaves tables whose models are linked.
LEMMA CommitKeepsTables ==
    ASSUME ManagedInv, NEW c \in Requests, Commit(c)
    PROVE  /\ provider' \in [Providers -> ProviderRow \cup {NoEntry}]
           /\ profile' \in [Profiles -> ProfileRow \cup {NoEntry}]
           /\ model' \in [Models -> ModelRow \cup {NoEntry}]
           /\ policy' \subseteq Policies
           /\ \A m \in Models : model'[m] # NoEntry => model'[m].provider \in Providers
           /\ Linked'
<1> DEFINE w == req[c].write
<1> USE DraftsAssumption, NoEntryAssumption DEF ManagedInv, ManagedTypeOK
<1>1. w \in ManagedWrites /\ Accepted(w)
    BY DEF RequestInv, Commit
<1>2. CASE w.table = "provider"
  <2>1. w.id \in Providers /\ w.row \in ProviderRow \cup {NoEntry} /\ (w.mode = "delete" <=> w.row = NoEntry)
    BY <1>1, <1>2 DEF ManagedWrites
  <2>2. /\ provider' = [provider EXCEPT ![w.id] = w.row]
        /\ profile' = profile /\ model' = model /\ policy' = policy
    BY <1>2 DEF Commit
  <2>3. w.mode = "delete" => \A m \in Models : model[m] # NoEntry => model[m].provider # w.id
    BY <1>1, <1>2 DEF Accepted, References
  <2>4. QED
    BY <2>1, <2>2, <2>3 DEF Linked
<1>3. CASE w.table = "profile"
  <2>1. w.id \in Profiles /\ w.row \in ProfileRow \cup {NoEntry}
    BY <1>1, <1>3 DEF ManagedWrites
  <2>2. /\ provider' = provider /\ profile' = [profile EXCEPT ![w.id] = w.row]
        /\ model' = model /\ policy' = policy
    BY <1>3 DEF Commit
  <2>3. QED
    BY <2>1, <2>2 DEF Linked
<1>4. CASE w.table = "model"
  <2>1. /\ w.id \in Models /\ w.row \in ModelRow \cup {NoEntry}
        /\ w.mode # "delete" => w.row.provider \in Providers
        /\ w.mode = "delete" => w.row = NoEntry
    BY <1>1, <1>4 DEF ManagedWrites, ModelRow
  <2>2. /\ provider' = provider /\ profile' = profile
        /\ model' = [model EXCEPT ![w.id] = w.row] /\ policy' = policy
    BY <1>4 DEF Commit
  <2>3. w.mode # "delete" => provider[w.row.provider] # NoEntry
    BY <1>1, <1>4 DEF Accepted, References
  <2>4. QED
    BY <2>1, <2>2, <2>3 DEF Linked
<1>5. CASE w.table = "policy"
  <2>1. w.id \in Policies
    BY <1>1, <1>5 DEF ManagedWrites
  <2>2. provider' = provider /\ profile' = profile /\ model' = model /\ policy' \subseteq policy \cup {w.id}
    BY <1>5 DEF Commit
  <2>3. QED
    BY <2>1, <2>2 DEF Linked
<1>6. QED
    BY <1>1, <1>2, <1>3, <1>4, <1>5 DEF ManagedWrites

\* What the step of one request leaves to the others.
LEMMA OtherRequests ==
    ASSUME ManagedInv, NEW c \in Requests, NEW r, req' = [req EXCEPT ![c] = r],
           Revisions \subseteq Revisions', r.pc \in {"idle", "write", "draft"}, RequestInv(c)'
    PROVE  /\ \A b \in Requests : RequestInv(b)'
           /\ \A b \in Requests : req'[b].pc \in {"idle", "write", "draft"}
           /\ req' = [b \in Requests |-> req'[b]]
<1>1. \A b \in Requests : req'[b] = IF b = c THEN r ELSE req[b]
    BY DEF ManagedInv
<1>2. ASSUME NEW b \in Requests \ {c} PROVE RequestInv(b)'
  <2>1. req'[b] = req[b] /\ RequestInv(b)
    BY <1>1 DEF ManagedInv
  <2>2. QED
    BY <2>1 DEF RequestInv
<1>3. QED
    BY <1>1, <1>2 DEF ManagedInv, ManagedTypeOK

\* Every step of a request keeps the invariant.
LEMMA ManagedStep ==
    ASSUME ManagedInv, NEW c \in Requests,
           Plan(c) \/ Commit(c) \/ Rollback(c) \/ DraftBegins(c) \/ DraftEnds(c)
    PROVE  ManagedInv'
<1> USE DraftsAssumption, NoEntryAssumption DEF NoRequest
<1>0. req = [b \in Requests |-> req[b]]
    BY DEF ManagedInv
<1>1. CASE Plan(c)
  <2>1. PICK w \in Writes : req' = [req EXCEPT ![c] = [pc |-> "write", write |-> w]]
    BY <1>1 DEF Plan
  <2>2. req'[c] = [pc |-> "write", write |-> w] /\ w \in ManagedWrites
    BY <1>0, <2>1, WritesType DEF ManagedInv
  <2>3. RequestInv(c)'
    BY <2>2 DEF RequestInv
  <2>4. UNCHANGED <<tables, drafts, Revisions>>
    BY <1>1 DEF Plan, Revisions
  <2>5. QED
    BY <2>1, <2>3, <2>4, OtherRequests DEF ManagedInv, ManagedTypeOK, tables, Linked, Gapless,
       DraftIsClosed
<1>2. CASE Commit(c)
  <2>1. req' = [req EXCEPT ![c] = NoRequest] /\ UNCHANGED <<drafts, Revisions>>
    BY <1>2 DEF Commit, Revisions
  <2>2. RequestInv(c)'
    BY <1>0, <2>1 DEF RequestInv
  <2>3. QED
    BY <1>2, <2>1, <2>2, CommitKeepsTables, OtherRequests
       DEF ManagedInv, ManagedTypeOK, Gapless, DraftIsClosed
<1>3. CASE Rollback(c)
  <2>1. req' = [req EXCEPT ![c] = NoRequest] /\ UNCHANGED <<tables, drafts, Revisions>>
    BY <1>3 DEF Rollback, Revisions
  <2>2. RequestInv(c)'
    BY <1>0, <2>1 DEF RequestInv
  <2>3. QED
    BY <2>1, <2>2, OtherRequests DEF ManagedInv, ManagedTypeOK, tables, Linked, Gapless, DraftIsClosed
<1>4. CASE DraftBegins(c)
  <2> DEFINE r == [pc |-> "draft", seen |-> Body, providers |-> {p \in Providers : provider[p] # NoEntry}]
  <2>1. /\ req' = [req EXCEPT ![c] = r] /\ UNCHANGED <<tables, drafts, Revisions>>
        /\ Cardinality(drafts) < MaxDrafts
    BY <1>4 DEF DraftBegins, Revisions
  <2>2. r.seen.revisions = Revisions /\ r.seen.models = Rows(model)
    BY DEF Body, Revisions
  <2>3. \A x \in r.seen.models : x.provider \in r.providers
    BY <2>2 DEF Rows, ManagedInv, ManagedTypeOK, Linked
  <2>4. RequestInv(c)'
    <3>1. \E n \in Nat : n < MaxDrafts /\ r.seen.revisions = 1 .. n
      BY <2>1, <2>2, FewerRevisions DEF ManagedInv
    <3>2. req'[c] = r /\ r.pc = "draft"
      BY <1>0, <2>1
    <3> HIDE DEF r
    <3>3. QED
      BY <2>1, <2>2, <2>3, <3>1, <3>2 DEF RequestInv
  <2>5. QED
    BY <2>1, <2>4, OtherRequests DEF ManagedInv, ManagedTypeOK, tables, Linked, Gapless, DraftIsClosed
<1>5. CASE DraftEnds(c)
  <2> DEFINE body == req[c].seen
             d == [providers |-> req[c].providers, models |-> body.models, profiles |-> body.profiles,
                   policies |-> body.policies, revision |-> NextRevision(body)]
  <2>1. req' = [req EXCEPT ![c] = NoRequest] /\ UNCHANGED tables /\ req[c].pc = "draft"
    BY <1>5 DEF DraftEnds
  <2>2. drafts' = drafts \/ (drafts' = drafts \cup {d} /\ body.policies = 1)
    BY <1>5 DEF DraftEnds, Seen, Complete
  <2>3. RequestInv(c)'
    BY <1>0, <2>1 DEF RequestInv
  <2>4. CASE drafts' = drafts
    BY <2>1, <2>3, <2>4, OtherRequests DEF ManagedInv, ManagedTypeOK, tables, Linked, Gapless,
       DraftIsClosed, Revisions
  <2>5. CASE drafts' = drafts \cup {d} /\ body.policies = 1
    <3>1. PICK n \in Nat : n < MaxDrafts /\ body.revisions = 1 .. n /\ body.revisions \subseteq Revisions
      BY <2>1 DEF ManagedInv, RequestInv
    <3>2. d.revision = n + 1
      BY <3>1, RevisionAfter
    <3>3. d.policies = 1 /\ \A r \in d.models : r.provider \in d.providers
      BY <2>1, <2>5 DEF ManagedInv, RequestInv
    <3> HIDE DEF d
    <3>4. Revisions' = Revisions \cup {n + 1}
      BY <2>5, <3>2 DEF Revisions
    <3>5. Gapless'
      <4>1. PICK m \in 0 .. MaxDrafts : Revisions = 1 .. m
        BY DEF ManagedInv, Gapless
      <4>2. n <= m
        <5>1. CASE n = 0
          BY <4>1, <5>1
        <5>2. CASE n # 0
          <6>1. n \in 1 .. n
            BY <5>2
          <6>2. QED
            BY <3>1, <4>1, <6>1
        <5>3. QED
          BY <5>1, <5>2
      <4>3. Revisions' = 1 .. m \/ (n = m /\ Revisions' = 1 .. (m + 1))
        BY <3>4, <4>1, <4>2
      <4>4. m + 1 \in 0 .. MaxDrafts \/ n < m
        BY <3>1, <4>1, <4>2
      <4>5. IsFiniteSet(drafts')
        BY <2>5, FS_AddElement DEF ManagedInv, Gapless
      <4>6. QED
        BY <4>1, <4>2, <4>3, <4>4, <4>5 DEF Gapless
    <3>6. DraftIsClosed' /\ \A x \in drafts' : x.revision \in 1 .. MaxDrafts
      BY <2>5, <3>1, <3>2, <3>3 DEF ManagedInv, ManagedTypeOK, DraftIsClosed
    <3>7. QED
      BY <2>1, <2>3, <3>4, <3>5, <3>6, OtherRequests DEF ManagedInv, ManagedTypeOK, tables, Linked
  <2>6. QED
    BY <2>2, <2>4, <2>5
<1>6. QED
    BY <1>1, <1>2, <1>3, <1>4, <1>5

\* So does every step of the component.
LEMMA ManagedStepInv ==
    ASSUME ManagedInv, [ManagedNext]_managedVars
    PROVE  ManagedInv'
<1>1. CASE UNCHANGED managedVars
    BY <1>1 DEF managedVars, tables, ManagedInv, ManagedTypeOK, Linked, Gapless, Revisions, RequestInv,
       DraftIsClosed
<1>2. QED
    BY <1>1, ManagedStep DEF ManagedNext

\* Empty tables satisfy it.
LEMMA ManagedInitInv == ManagedInit => ManagedInv
<1> SUFFICES ASSUME ManagedInit PROVE ManagedInv
    OBVIOUS
<1>1. Gapless
  <2>1. Revisions = 1 .. 0 /\ 0 \in 0 .. MaxDrafts
    BY DraftsAssumption DEF ManagedInit, Revisions
  <2>2. QED
    BY <2>1, FS_EmptySet DEF ManagedInit, Gapless
<1>2. QED
    BY <1>1 DEF ManagedInit, ManagedInv, ManagedTypeOK, NoRequest, Linked, RequestInv, DraftIsClosed

\* It is an invariant.
LEMMA ManagedInvariance == ManagedSpec => []ManagedInv
BY ManagedInitInv, ManagedStepInv, PTL DEF ManagedSpec

\* The tables stay well typed and revisions within their bound.
THEOREM ManagedTypeCorrect == ManagedSpec => []ManagedTypeOK
BY ManagedInvariance, PTL DEF ManagedInv

\* Whatever is committed while create_validated_draft reads, every model of its
\* draft has its provider in the draft, and the draft has one policy.
THEOREM DraftsAreClosed == ManagedSpec => []DraftIsClosed
BY ManagedInvariance, PTL DEF ManagedInv

(***************************************************************************)
(* GatewayConnections                                                      *)
(***************************************************************************)

WorkKinds == {"none", "created", "updated", "revoked", "tested", "credential", "lab"}
\* What a request is doing.
Work == [pc : {"idle", "write", "call", "audit", "answer", "lab", "clean", "clean, failed", "failed"},
         n : Nat, kind : WorkKinds, k : Connections \cup {NoRow, "none", "issued", "revoked"},
         asset : BOOLEAN, read : ConnectionRow \cup {NoRow}, row : ConnectionRow \cup {NoRow}]

\* The row of a connection that was created is never deleted.
Exists(k) == k \in Connections /\ conn[k] \in ConnectionRow
Revoked(k) == Exists(k) /\ conn[k].revoked = TRUE

\* What a request relies on between its steps: that the rows it read are there
\* still, that what it will write does not take back a revocation, and that what
\* it will report has happened.
WorkInv(t) ==
    /\ work[t] \in Work
    /\ work[t].pc # "idle" => work[t].n \in 1 .. requests
    /\ work[t].pc \in {"write", "call"} => Exists(work[t].k) /\ work[t].kind # "lab"
    /\ work[t].pc = "write" =>
         /\ work[t].read \in ConnectionRow /\ work[t].row \in ConnectionRow
         /\ work[t].read.revoked = TRUE => work[t].row.revoked = TRUE /\ Revoked(work[t].k)
         /\ work[t].kind = "revoked" => work[t].row.revoked = TRUE
    /\ work[t].pc = "call" => work[t].kind = "tested"
    /\ work[t].pc \in {"audit", "answer", "clean"} => work[t].n \in done
    /\ work[t].pc = "answer" => work[t].n \in audit
    /\ work[t].pc \in {"audit", "answer"} /\ work[t].kind = "lab" => work[t].n \notin remote
    /\ work[t].pc \in {"audit", "answer"} /\ work[t].kind = "revoked" => Revoked(work[t].k)
    /\ work[t].pc = "lab" /\ work[t].asset = FALSE => work[t].n \notin remote
    /\ work[t].pc \in {"lab", "clean", "clean, failed"} => work[t].kind = "lab"

\* What is true of a success that has been answered.
AnswerInv(a) ==
    /\ a.n \in 1 .. requests /\ a.n \in audit
    /\ a.kind = "lab" => a.n \notin remote
    /\ a.kind = "revoked" => Revoked(a.k)

\* The inductive invariant.
ConnectionInv ==
    /\ ConnectionTypeOK
    /\ audit \subseteq done
    /\ work \in [Tasks -> Work]
    /\ \A t \in Tasks : WorkInv(t)
    /\ \A a \in answered : AnswerInv(a)

\* What no step takes back.
Grows ==
    /\ requests' \in {requests, requests + 1}
    /\ done \subseteq done' /\ audit \subseteq audit'
    /\ \A n \in 1 .. requests : n \in remote' => n \in remote
    /\ \A k : Exists(k) => Exists(k)'
    /\ \A k : Revoked(k) => Revoked(k)'

\* A task without a request is well typed.
LEMMA WaitingWork == Waiting \in Work
BY DEF Waiting, Work, WorkKinds

\* A step of one request leaves what the others rely on.
LEMMA KeepsWork ==
    ASSUME ConnectionTypeOK, Grows, NEW t \in Tasks, WorkInv(t), work'[t] = work[t]
    PROVE  WorkInv(t)'
<1>1. requests \in Nat /\ requests' \in Nat /\ 1 .. requests \subseteq 1 .. requests'
    BY RunsAssumption DEF ConnectionTypeOK, Grows
<1>2. QED
    BY <1>1 DEF Grows, WorkInv

\* No step makes an answer wrong.
LEMMA KeepsAnswer ==
    ASSUME ConnectionTypeOK, Grows, NEW a, AnswerInv(a)
    PROVE  AnswerInv(a)'
<1>1. requests \in Nat /\ requests' \in Nat /\ 1 .. requests \subseteq 1 .. requests'
    BY RunsAssumption DEF ConnectionTypeOK, Grows
<1>2. QED
    BY <1>1 DEF Grows, AnswerInv

\* All requests have what they rely on if the one that moves has.
LEMMA OneMoves ==
    ASSUME ConnectionInv, Grows, NEW t \in Tasks, NEW w, work' = [work EXCEPT ![t] = w], WorkInv(t)'
    PROVE  work' \in [Tasks -> Work] /\ \A u \in Tasks : WorkInv(u)'
<1>1. work'[t] = w /\ w \in Work
    BY DEF ConnectionInv, WorkInv
<1>2. work' \in [Tasks -> Work] /\ \A u \in Tasks \ {t} : work'[u] = work[u]
    BY <1>1 DEF ConnectionInv
<1>3. QED
    BY <1>2, KeepsWork DEF ConnectionInv

\* A request takes a number nothing else has.
LEMMA TakesOne ==
    ASSUME ConnectionInv, NEW t \in Tasks, NEW w \in Work, Takes(t, w)
    PROVE  /\ requests' = requests + 1 /\ requests' \in 1 .. MaxRequests
           /\ work' = [work EXCEPT ![t] = [w EXCEPT !.n = requests']]
           /\ work'[t] \in Work
           /\ work'[t].n = requests' /\ work'[t].pc = w.pc /\ work'[t].kind = w.kind /\ work'[t].k = w.k
           /\ work'[t].asset = w.asset /\ work'[t].read = w.read /\ work'[t].row = w.row
           /\ requests' \in 1 .. requests' /\ requests' \notin remote
<1>1. requests \in 0 .. MaxRequests /\ remote \subseteq 1 .. requests /\ work \in [Tasks -> Work]
    BY DEF ConnectionInv, ConnectionTypeOK
<1>2. requests' = requests + 1 /\ requests' \in 1 .. MaxRequests
    BY <1>1, RunsAssumption DEF Takes
<1>3. work' = [work EXCEPT ![t] = [w EXCEPT !.n = requests']]
    BY DEF Takes, Goes
<1> DEFINE x == [w EXCEPT !.n = requests']
<1>4. /\ x \in Work /\ x.n = requests' /\ x.pc = w.pc /\ x.kind = w.kind /\ x.k = w.k
      /\ x.asset = w.asset /\ x.read = w.read /\ x.row = w.row
  <2>1. requests' \in Nat
    BY <1>2
  <2>2. QED
    BY <2>1 DEF Work
<1>5. QED
  <2>1. work'[t] = x
    BY <1>1, <1>3
  <2> HIDE DEF x
  <2>2. QED
    BY <1>1, <1>2, <1>3, <1>4, <2>1 DEF x

\* A request that moves on keeps its number and what it is about.
LEMMA MovesOn ==
    ASSUME ConnectionInv, NEW t \in Tasks,
           NEW pc \in {"audit", "answer", "clean", "clean, failed", "failed"}, Moves(t, pc)
    PROVE  /\ work' = [work EXCEPT ![t] = [work[t] EXCEPT !.pc = pc]]
           /\ work'[t] \in Work /\ work'[t] = [work[t] EXCEPT !.pc = pc]
           /\ work'[t].pc = pc /\ work'[t].n = work[t].n /\ work'[t].kind = work[t].kind
           /\ work'[t].k = work[t].k /\ work'[t].asset = work[t].asset
BY DEF ConnectionInv, Moves, Goes, Work

\* What is flushed is a row, whose column revoked is written if it was changed.
LEMMA FlushedRow ==
    ASSUME NEW current \in ConnectionRow, NEW read \in ConnectionRow, NEW row \in ConnectionRow
    PROVE  /\ Flushed(current, read, row) \in ConnectionRow
           /\ Flushed(current, read, row).revoked =
                IF row.revoked # read.revoked THEN row.revoked ELSE current.revoked
<1> DEFINE f == Flushed(current, read, row)
<1>1. DOMAIN current = {"enabled", "status", "revoked"}
    BY DEF ConnectionRow
<1>2. f = [c \in {"enabled", "status", "revoked"} |-> IF row[c] # read[c] THEN row[c] ELSE current[c]]
    BY <1>1 DEF Flushed
<1>3. /\ f.enabled \in BOOLEAN /\ f.revoked \in BOOLEAN
      /\ f.status \in {"untested", "ready", "failed", "revoked"}
    BY <1>2 DEF ConnectionRow
<1>4. f = [enabled |-> f.enabled, status |-> f.status, revoked |-> f.revoked]
    BY <1>2
<1>5. f \in ConnectionRow
    BY <1>3, <1>4 DEF ConnectionRow
<1>6. QED
    BY <1>2, <1>5

\* What the rest of the invariant asks of a step.
LEMMA Remains ==
    ASSUME ConnectionInv, Grows, NEW t \in Tasks, NEW w, work' = [work EXCEPT ![t] = w], WorkInv(t)',
           ConnectionTypeOK', audit' \subseteq done',
           \A a \in answered' \ answered : AnswerInv(a)'
    PROVE  ConnectionInv'
BY OneMoves, KeepsAnswer DEF ConnectionInv

\* A connection is created.
LEMMA CreateStep ==
    ASSUME ConnectionInv, NEW t \in Tasks, Create(t)
    PROVE  ConnectionInv'
<1>1. PICK k \in Connections, enabled \in BOOLEAN :
        /\ conn[k] = NoRow
        /\ Takes(t, [Waiting EXCEPT !.pc = "audit", !.kind = "created", !.k = k])
        /\ conn' = [conn EXCEPT ![k] = [enabled |-> enabled, status |-> "untested", revoked |-> FALSE]]
        /\ done' = done \cup {requests'}
        /\ UNCHANGED <<cred, audit, answered, remote>>
    BY DEF Create
<1> DEFINE w == [Waiting EXCEPT !.pc = "audit", !.kind = "created", !.k = k]
           row == [enabled |-> enabled, status |-> "untested", revoked |-> FALSE]
<1>2. w \in Work /\ w.pc = "audit" /\ w.kind = "created"
    BY WaitingWork DEF Work, WorkKinds
<1>3. Takes(t, w)
    BY <1>1
<1>4. row \in ConnectionRow
    BY DEF ConnectionRow
<1> HIDE DEF w, row
<1>5. conn' = [conn EXCEPT ![k] = row]
    BY <1>1 DEF row
<1>6. /\ requests' = requests + 1 /\ requests' \in 1 .. MaxRequests
      /\ work' = [work EXCEPT ![t] = [w EXCEPT !.n = requests']]
      /\ work'[t] \in Work /\ work'[t].pc = "audit" /\ work'[t].n = requests'
      /\ work'[t].kind = "created"
      /\ requests' \in 1 .. requests' /\ requests' \notin remote
    BY <1>2, <1>3, TakesOne
<1>7. conn \in [Connections -> ConnectionRow \cup {NoRow}]
    BY DEF ConnectionInv, ConnectionTypeOK
<1>8. Grows
    BY <1>1, <1>4, <1>5, <1>6, <1>7, NoRowAssumption DEF Grows, Exists, Revoked
<1>9. WorkInv(t)'
  <2>1. work'[t].n \in done'
    BY <1>1, <1>6
  <2>2. /\ work'[t] \in Work /\ work'[t].pc = "audit" /\ work'[t].n \in 1 .. requests'
        /\ work'[t].kind = "created"
    BY <1>6
  <2>3. QED
    BY <2>1, <2>2 DEF WorkInv
<1>10. ConnectionTypeOK' /\ audit' \subseteq done'
  <2>1. conn' \in [Connections -> ConnectionRow \cup {NoRow}]
    BY <1>4, <1>5, <1>7
  <2>2. requests \in Nat /\ 1 .. requests \subseteq 1 .. requests' /\ requests' \in 0 .. MaxRequests
    BY <1>6 DEF ConnectionInv, ConnectionTypeOK
  <2>3. QED
    BY <1>1, <1>6, <2>1, <2>2 DEF ConnectionInv, ConnectionTypeOK
<1>11. QED
    BY <1>1, <1>6, <1>8, <1>9, <1>10, Remains

\* A request that begins and changes no row.
LEMMA BeginStep ==
    ASSUME ConnectionInv, NEW t \in Tasks, NEW w \in Work, Takes(t, w),
           w.pc \in {"write", "call", "lab"}, UNCHANGED <<conn, cred, done, audit, answered>>,
           remote' = remote \/ (remote' = remote \cup {requests'} /\ w.pc = "lab" /\ w.asset = TRUE),
           w.pc \in {"write", "call"} => Exists(w.k) /\ w.kind # "lab",
           w.pc = "write" => /\ w.read \in ConnectionRow /\ w.row \in ConnectionRow
                             /\ w.read.revoked = TRUE => w.row.revoked = TRUE /\ Revoked(w.k)
                             /\ w.kind = "revoked" => w.row.revoked = TRUE,
           w.pc = "call" => w.kind = "tested",
           w.pc = "lab" => w.kind = "lab"
    PROVE  ConnectionInv'
<1>1. /\ requests' = requests + 1 /\ requests' \in 1 .. MaxRequests
      /\ work' = [work EXCEPT ![t] = [w EXCEPT !.n = requests']]
      /\ requests' \in 1 .. requests' /\ requests' \notin remote
    BY TakesOne
<1>2. /\ work'[t] \in Work
      /\ work'[t].n = requests' /\ work'[t].pc = w.pc /\ work'[t].kind = w.kind /\ work'[t].k = w.k
      /\ work'[t].asset = w.asset /\ work'[t].read = w.read /\ work'[t].row = w.row
    BY TakesOne
<1>3. requests \in Nat /\ requests \in 0 .. MaxRequests /\ requests' \notin 1 .. requests
      /\ 1 .. requests \subseteq 1 .. requests' /\ requests' \in 0 .. MaxRequests
    BY <1>1 DEF ConnectionInv, ConnectionTypeOK
<1>4. \A k : (Exists(k) => Exists(k)') /\ (Revoked(k) => Revoked(k)')
    BY DEF Exists, Revoked
<1>5. requests' \in {requests, requests + 1} /\ \A n \in 1 .. requests : n \in remote' => n \in remote
    BY <1>1, <1>3
<1>6. Grows
    BY <1>4, <1>5 DEF Grows
<1>7. WorkInv(t)'
  <2>1. w.pc = "lab" /\ w.asset = FALSE => remote' = remote
    OBVIOUS
  <2>2. work'[t].pc = "lab" /\ work'[t].asset = FALSE => work'[t].n \notin remote'
    BY <1>1, <1>2, <2>1
  <2>3. work'[t].n \in 1 .. requests'
    BY <1>1, <1>2
  <2>4. work'[t].pc = "write" =>
         /\ work'[t].read \in ConnectionRow /\ work'[t].row \in ConnectionRow
         /\ work'[t].read.revoked = TRUE => work'[t].row.revoked = TRUE /\ Revoked(work[t].k)'
         /\ work'[t].kind = "revoked" => work'[t].row.revoked = TRUE
    BY <1>2 DEF Revoked, Exists
  <2>5. work'[t].pc \in {"write", "call"} => Exists(work[t].k)' /\ work'[t].kind # "lab"
    BY <1>2 DEF Exists
  <2>6. QED
    BY <1>2, <2>2, <2>3, <2>4, <2>5 DEF WorkInv
<1>8. ConnectionTypeOK' /\ audit' \subseteq done'
    BY <1>1, <1>3 DEF ConnectionInv, ConnectionTypeOK
<1>9. QED
    BY <1>1, <1>6, <1>7, <1>8, Remains

\* An update or a revocation has read its row.
LEMMA PlansStep ==
    ASSUME ConnectionInv, NEW t \in Tasks, NEW k \in Connections, NEW row \in ConnectionRow,
           NEW kind \in {"updated", "revoked"}, conn[k] # NoRow, Plans(t, kind, k, row),
           conn[k].revoked = TRUE => row.revoked = TRUE,
           kind = "revoked" => row.revoked = TRUE,
           UNCHANGED <<conn, cred, done, audit, answered, remote>>
    PROVE  ConnectionInv'
<1>1. conn[k] \in ConnectionRow /\ Exists(k)
    BY DEF ConnectionInv, ConnectionTypeOK, Exists
<1> DEFINE w == [Waiting EXCEPT !.pc = "write", !.kind = kind, !.k = k, !.read = conn[k], !.row = row]
<1>2. w \in Work /\ w.pc = "write" /\ w.kind = kind /\ w.k = k /\ w.read = conn[k] /\ w.row = row
    BY <1>1, WaitingWork DEF Work, WorkKinds
<1>3. Takes(t, w)
    BY DEF Plans
<1> HIDE DEF w
<1>4. conn[k].revoked = TRUE => Revoked(k)
    BY <1>1 DEF Revoked
<1>5. QED
    BY <1>1, <1>2, <1>3, <1>4, BeginStep

\* update and revoke read a row.
LEMMA ReadsStep ==
    ASSUME ConnectionInv, NEW t \in Tasks, Reads(t)
    PROVE  ConnectionInv'
<1>1. PICK k \in Connections :
        /\ conn[k] # NoRow
        /\ \/ \E enabled \in BOOLEAN :
                /\ ~conn[k].revoked
                /\ Plans(t, "updated", k, [conn[k] EXCEPT !.enabled = enabled, !.status = "untested"])
           \/ Plans(t, "revoked", k, [enabled |-> FALSE, status |-> "revoked", revoked |-> TRUE])
        /\ UNCHANGED <<conn, cred, done, audit, answered, remote>>
    BY DEF Reads
<1>2. conn[k] \in ConnectionRow
    BY <1>1 DEF ConnectionInv, ConnectionTypeOK
<1>3. ASSUME NEW enabled \in BOOLEAN, ~conn[k].revoked,
             Plans(t, "updated", k, [conn[k] EXCEPT !.enabled = enabled, !.status = "untested"])
      PROVE  ConnectionInv'
  <2> DEFINE row == [conn[k] EXCEPT !.enabled = enabled, !.status = "untested"]
  <2>1. row \in ConnectionRow
    BY <1>2 DEF ConnectionRow
  <2>2. Plans(t, "updated", k, row)
    BY <1>3
  <2> HIDE DEF row
  <2>3. QED
    BY <1>1, <1>3, <2>1, <2>2, PlansStep
<1>4. ASSUME Plans(t, "revoked", k, [enabled |-> FALSE, status |-> "revoked", revoked |-> TRUE])
      PROVE  ConnectionInv'
  <2> DEFINE row == [enabled |-> FALSE, status |-> "revoked", revoked |-> TRUE]
  <2>1. row \in ConnectionRow /\ row.revoked = TRUE
    BY DEF ConnectionRow
  <2>2. Plans(t, "revoked", k, row)
    BY <1>4
  <2> HIDE DEF row
  <2>3. QED
    BY <1>1, <2>1, <2>2, PlansStep
<1>5. QED
    BY <1>1, <1>3, <1>4

\* A test reads a row.
LEMMA TestReadsStep ==
    ASSUME ConnectionInv, NEW t \in Tasks, TestReads(t)
    PROVE  ConnectionInv'
<1>1. PICK k \in Connections :
        /\ conn[k] # NoRow /\ Takes(t, [Waiting EXCEPT !.pc = "call", !.kind = "tested", !.k = k])
        /\ UNCHANGED <<conn, cred, done, audit, answered, remote>>
    BY DEF TestReads
<1>2. Exists(k)
    BY <1>1 DEF ConnectionInv, ConnectionTypeOK, Exists
<1> DEFINE w == [Waiting EXCEPT !.pc = "call", !.kind = "tested", !.k = k]
<1>3. w \in Work /\ w.pc = "call" /\ w.kind = "tested" /\ w.k = k
    BY WaitingWork DEF Work, WorkKinds
<1>4. Takes(t, w)
    BY <1>1
<1> HIDE DEF w
<1>5. QED
    BY <1>1, <1>2, <1>3, <1>4, BeginStep

\* The test lab begins.
LEMMA LabStep ==
    ASSUME ConnectionInv, NEW t \in Tasks, Preview(t) \/ Upload(t)
    PROVE  ConnectionInv'
<1> DEFINE v == [Waiting EXCEPT !.pc = "lab", !.kind = "lab"]
           w == [Waiting EXCEPT !.pc = "lab", !.kind = "lab", !.asset = TRUE]
<1>1. v \in Work /\ v.pc = "lab" /\ v.kind = "lab"
    BY WaitingWork DEF Work, WorkKinds
<1>2. w \in Work /\ w.pc = "lab" /\ w.kind = "lab" /\ w.asset = TRUE
    BY WaitingWork DEF Work, WorkKinds
<1>3. (Takes(t, v) /\ remote' = remote) \/ (Takes(t, w) /\ remote' = remote \cup {requests'})
    BY DEF Preview, Upload
<1>4. UNCHANGED <<conn, cred, done, audit, answered>>
    BY DEF Preview, Upload
<1> HIDE DEF v, w
<1>5. CASE Takes(t, v) /\ remote' = remote
    BY <1>1, <1>4, <1>5, BeginStep
<1>6. CASE Takes(t, w) /\ remote' = remote \cup {requests'}
    BY <1>2, <1>4, <1>6, BeginStep
<1>7. QED
    BY <1>3, <1>5, <1>6

\* A client credential is issued, revoked or deleted.
LEMMA CredentialStep ==
    ASSUME ConnectionInv, NEW t \in Tasks, Credential(t)
    PROVE  ConnectionInv'
<1> DEFINE w == [Waiting EXCEPT !.pc = "audit", !.kind = "credential", !.k = cred']
<1>1. cred' \in {"none", "issued", "revoked"}
    BY DEF Credential, Issue, Retire
<1>2. w \in Work /\ w.pc = "audit" /\ w.kind = "credential"
    BY <1>1, WaitingWork DEF Work, WorkKinds
<1>3. Takes(t, w) /\ done' = done \cup {requests'} /\ UNCHANGED <<conn, audit, answered, remote>>
    BY DEF Credential
<1> HIDE DEF w
<1>4. /\ requests' = requests + 1 /\ requests' \in 1 .. MaxRequests
      /\ work' = [work EXCEPT ![t] = [w EXCEPT !.n = requests']]
      /\ requests' \in 1 .. requests'
    BY <1>2, <1>3, TakesOne
<1>5. work'[t] \in Work /\ work'[t].pc = "audit" /\ work'[t].n = requests' /\ work'[t].kind = "credential"
    BY <1>2, <1>3, TakesOne
<1>6. requests \in Nat /\ 1 .. requests \subseteq 1 .. requests' /\ requests' \in 0 .. MaxRequests
    BY <1>4 DEF ConnectionInv, ConnectionTypeOK
<1>7. Grows
    BY <1>3, <1>4 DEF Grows, Exists, Revoked
<1>8. WorkInv(t)'
  <2>1. work'[t].n \in done' /\ work'[t].n \in 1 .. requests'
    BY <1>3, <1>4, <1>5
  <2>2. QED
    BY <1>5, <2>1 DEF WorkInv
<1>9. ConnectionTypeOK' /\ audit' \subseteq done'
    BY <1>1, <1>3, <1>4, <1>6 DEF ConnectionInv, ConnectionTypeOK
<1>10. QED
    BY <1>3, <1>4, <1>7, <1>8, <1>9, Remains

\* The answer to an upload is lost.
LEMMA UploadLostStep ==
    ASSUME ConnectionInv, NEW t \in Tasks, UploadLost(t)
    PROVE  ConnectionInv'
<1>1. /\ requests' = requests + 1 /\ remote' \in {remote, remote \cup {requests'}} /\ work' = work
      /\ UNCHANGED <<conn, cred, done, audit, answered>>
    BY DEF UploadLost
<1>2. /\ requests \in Nat /\ 1 .. requests \subseteq 1 .. requests' /\ requests' \in 0 .. MaxRequests
      /\ requests' \in 1 .. requests' /\ requests' \notin 1 .. requests
  <2>1. requests \in 0 .. MaxRequests /\ requests < MaxRequests
    BY RunsAssumption DEF ConnectionInv, ConnectionTypeOK, UploadLost
  <2>2. QED
    BY <1>1, <2>1, RunsAssumption
<1>3. Grows
    BY <1>1, <1>2 DEF Grows, Exists, Revoked
<1>4. ConnectionTypeOK'
    BY <1>1, <1>2 DEF ConnectionInv, ConnectionTypeOK
<1>5. \A u \in Tasks : WorkInv(u)'
    BY <1>1, <1>3, KeepsWork DEF ConnectionInv
<1>6. QED
    BY <1>1, <1>3, <1>4, <1>5, KeepsAnswer DEF ConnectionInv

\* A change is committed, over what others have committed since it was read.
LEMMA CommitsStep ==
    ASSUME ConnectionInv, NEW t \in Tasks, Commits(t)
    PROVE  ConnectionInv'
<1> DEFINE k == work[t].k
           row == Flushed(conn[k], work[t].read, work[t].row)
<1>1. /\ work[t].pc = "write" /\ conn' = [conn EXCEPT ![k] = row] /\ done' = done \cup {work[t].n}
      /\ Moves(t, "audit") /\ UNCHANGED <<cred, requests, audit, answered, remote>>
    BY DEF Commits
<1>2. /\ Exists(k) /\ work[t].kind # "lab" /\ work[t].n \in 1 .. requests
      /\ work[t].read \in ConnectionRow /\ work[t].row \in ConnectionRow
      /\ work[t].read.revoked = TRUE => work[t].row.revoked = TRUE /\ Revoked(k)
      /\ work[t].kind = "revoked" => work[t].row.revoked = TRUE
    BY <1>1 DEF ConnectionInv, WorkInv
<1>3. row \in ConnectionRow /\ (Revoked(k) \/ work[t].kind = "revoked" => row.revoked = TRUE)
  <2>1. conn[k] \in ConnectionRow
    BY <1>2 DEF Exists
  <2>2. row \in ConnectionRow
        /\ row.revoked = IF work[t].row.revoked # work[t].read.revoked THEN work[t].row.revoked
                         ELSE conn[k].revoked
    BY <1>2, <2>1, FlushedRow
  <2>3. work[t].read.revoked \in BOOLEAN /\ work[t].row.revoked \in BOOLEAN /\ conn[k].revoked \in BOOLEAN
    BY <1>2, <2>1 DEF ConnectionRow
  <2> HIDE DEF row
  <2>4. QED
    BY <1>2, <2>2, <2>3 DEF Revoked
<1> HIDE DEF row
<1>4. /\ work' = [work EXCEPT ![t] = [work[t] EXCEPT !.pc = "audit"]]
      /\ work'[t] \in Work /\ work'[t].pc = "audit" /\ work'[t].n = work[t].n
      /\ work'[t].kind = work[t].kind
      /\ work'[t].k = k
    BY <1>1, MovesOn
<1>5. conn \in [Connections -> ConnectionRow \cup {NoRow}] /\ k \in Connections
    BY <1>2 DEF ConnectionInv, ConnectionTypeOK, Exists
<1>6. Grows
    BY <1>1, <1>2, <1>3, <1>5 DEF Grows, Exists, Revoked
<1>7. WorkInv(t)'
  <2>1. work'[t].n \in done' /\ work'[t].n \in 1 .. requests'
    BY <1>1, <1>2, <1>4
  <2>2. work'[t].kind = "revoked" => Revoked(work[t].k)'
    BY <1>1, <1>3, <1>4, <1>5 DEF Revoked, Exists
  <2>3. work'[t].kind # "lab"
    BY <1>2, <1>4
  <2>4. QED
    BY <1>4, <2>1, <2>2, <2>3 DEF WorkInv
<1>8. ConnectionTypeOK' /\ audit' \subseteq done'
    BY <1>1, <1>2, <1>3, <1>5 DEF ConnectionInv, ConnectionTypeOK
<1>9. QED
    BY <1>1, <1>4, <1>6, <1>7, <1>8, Remains

\* A step that changes no row of a table.
LEMMA SameTables ==
    ASSUME ConnectionInv, UNCHANGED <<conn, cred, requests>>, done \subseteq done', audit \subseteq audit',
           remote' \subseteq remote, done' \cup audit' \subseteq 1 .. requests
    PROVE  Grows /\ ConnectionTypeOK'
BY DEF ConnectionInv, ConnectionTypeOK, Grows, Exists, Revoked

\* A request ends.
LEMMA WaitsStep ==
    ASSUME ConnectionInv, NEW t \in Tasks, Goes(t, Waiting),
           UNCHANGED <<conn, cred, requests, done, audit, remote>>,
           \A a \in answered' \ answered : AnswerInv(a)'
    PROVE  ConnectionInv'
<1>1. Grows /\ ConnectionTypeOK'
    BY SameTables DEF ConnectionInv, ConnectionTypeOK
<1>2. work' = [work EXCEPT ![t] = Waiting] /\ work'[t] = Waiting
    BY DEF Goes, ConnectionInv
<1>3. WorkInv(t)'
  <2>1. work'[t] \in Work /\ work'[t].pc = "idle"
    BY <1>2, WaitingWork DEF Waiting
  <2>2. QED
    BY <2>1 DEF WorkInv
<1>4. QED
    BY <1>1, <1>2, <1>3, Remains DEF ConnectionInv

\* A test ends, after the gateway has answered.
LEMMA TestEndsStep ==
    ASSUME ConnectionInv, NEW t \in Tasks, TestEnds(t)
    PROVE  ConnectionInv'
<1> DEFINE row == conn[work[t].k]
<1>1. UNCHANGED <<conn, cred, requests, done, audit, answered, remote>> /\ work[t].pc = "call"
    BY DEF TestEnds
<1>2. CASE Goes(t, Waiting)
    BY <1>1, <1>2, WaitsStep
<1>3. ASSUME NEW status \in {"ready", "failed"},
             Goes(t, [work[t] EXCEPT !.pc = "write", !.read = row, !.row = [row EXCEPT !.status = status]])
      PROVE  ConnectionInv'
  <2> DEFINE new == [row EXCEPT !.status = status]
             w == [work[t] EXCEPT !.pc = "write", !.read = row, !.row = new]
  <2>1. Exists(work[t].k) /\ work[t] \in Work /\ work[t].kind = "tested" /\ work[t].n \in 1 .. requests
    BY <1>1 DEF ConnectionInv, WorkInv
  <2>2. row \in ConnectionRow
    BY <2>1 DEF Exists
  <2>3. new \in ConnectionRow /\ new.revoked = row.revoked
    BY <2>2 DEF ConnectionRow
  <2>4. work' = [work EXCEPT ![t] = w]
    BY <1>3 DEF Goes
  <2> HIDE DEF new
  <2>5. /\ w \in Work /\ w.pc = "write" /\ w.read = row /\ w.row = new
        /\ w.n = work[t].n /\ w.k = work[t].k /\ w.kind = work[t].kind
    BY <2>1, <2>2, <2>3 DEF Work
  <2>6. work'[t] = w
    BY <2>4 DEF ConnectionInv
  <2> HIDE DEF w
  <2>7. WorkInv(t)'
    <3>1. /\ work'[t] \in Work /\ work'[t].pc = "write" /\ work'[t].kind = "tested"
          /\ work'[t].n \in 1 .. requests'
          /\ work'[t].read \in ConnectionRow /\ work'[t].row \in ConnectionRow
          /\ work'[t].read.revoked = TRUE => work'[t].row.revoked = TRUE
      BY <1>1, <2>1, <2>2, <2>3, <2>5, <2>6
    <3>2. Exists(work[t].k)' /\ (work'[t].read.revoked = TRUE => Revoked(work[t].k)')
      BY <1>1, <2>1, <2>5, <2>6 DEF Exists, Revoked
    <3>3. QED
      BY <3>1, <3>2 DEF WorkInv
  <2>8. Grows /\ ConnectionTypeOK'
    BY <1>1, SameTables DEF ConnectionInv, ConnectionTypeOK
  <2>9. QED
    BY <1>1, <2>4, <2>7, <2>8, Remains DEF ConnectionInv
<1>4. QED
    BY <1>2, <1>3 DEF TestEnds

\* The test lab gets the answer of the gateway, or of the providers.
LEMMA RespondStep ==
    ASSUME ConnectionInv, NEW t \in Tasks, Respond(t) \/ PreviewEnds(t)
    PROVE  ConnectionInv'
<1>1. PICK pc \in {"audit", "clean", "clean, failed", "failed"} :
        /\ Moves(t, pc) /\ (pc = "audit" => work[t].asset = FALSE)
    BY DEF Respond, PreviewEnds, ConnectionInv, Work
<1>2. /\ work[t].pc = "lab" /\ remote' \subseteq remote /\ done' = done \cup {work[t].n}
      /\ UNCHANGED <<conn, cred, requests, audit, answered>>
    BY DEF Respond, PreviewEnds
<1>3. /\ work[t].n \in 1 .. requests /\ work[t].kind = "lab"
      /\ work[t].asset = FALSE => work[t].n \notin remote
    BY <1>2 DEF ConnectionInv, WorkInv
<1>4. Grows /\ ConnectionTypeOK'
  <2>1. done' \cup audit' \subseteq 1 .. requests
    BY <1>2, <1>3 DEF ConnectionInv, ConnectionTypeOK
  <2>2. QED
    BY <1>2, <2>1, SameTables
<1>5. /\ work' = [work EXCEPT ![t] = [work[t] EXCEPT !.pc = pc]]
      /\ work'[t] \in Work /\ work'[t].pc = pc /\ work'[t].n = work[t].n /\ work'[t].kind = work[t].kind
    BY <1>1, MovesOn
<1>6. WorkInv(t)'
  <2>1. /\ work'[t].n \in done' /\ work'[t].n \in 1 .. requests' /\ work'[t].kind = "lab"
        /\ pc = "audit" => work'[t].n \notin remote'
    <3>1. work'[t].n = work[t].n /\ work'[t].kind = work[t].kind
      BY <1>5
    <3>2. QED
      BY <1>1, <1>2, <1>3, <3>1
  <2>2. QED
    BY <1>5, <2>1 DEF WorkInv
<1>7. QED
    BY <1>2, <1>4, <1>5, <1>6, Remains DEF ConnectionInv

\* It deletes its asset.
LEMMA CleanUpStep ==
    ASSUME ConnectionInv, NEW t \in Tasks, CleanUp(t)
    PROVE  ConnectionInv'
<1>1. PICK pc \in {"audit", "failed"} :
        Moves(t, pc) /\ (pc = "audit" => work[t].pc = "clean" /\ remote' = remote \ {work[t].n})
    BY DEF CleanUp
<1>2. /\ work[t].pc \in {"clean", "clean, failed"} /\ remote' \subseteq remote
      /\ UNCHANGED <<conn, cred, requests, done, audit, answered>>
    BY DEF CleanUp
<1>3. /\ work[t].n \in 1 .. requests /\ work[t].kind = "lab"
      /\ work[t].pc = "clean" => work[t].n \in done
    BY <1>2 DEF ConnectionInv, WorkInv
<1>4. Grows /\ ConnectionTypeOK'
    BY <1>2, SameTables DEF ConnectionInv, ConnectionTypeOK
<1>5. /\ work' = [work EXCEPT ![t] = [work[t] EXCEPT !.pc = pc]]
      /\ work'[t] \in Work /\ work'[t].pc = pc /\ work'[t].n = work[t].n /\ work'[t].kind = work[t].kind
    BY <1>1, MovesOn
<1>6. WorkInv(t)'
  <2>1. /\ work'[t].n \in 1 .. requests' /\ work'[t].kind = "lab"
        /\ pc = "audit" => work'[t].n \notin remote' /\ work'[t].n \in done'
    <3>1. work'[t].n = work[t].n /\ work'[t].kind = work[t].kind
      BY <1>5
    <3>2. QED
      BY <1>1, <1>2, <1>3, <3>1
  <2>2. QED
    BY <1>5, <2>1 DEF WorkInv
<1>7. QED
    BY <1>2, <1>4, <1>5, <1>6, Remains DEF ConnectionInv

\* The audit event is written.
LEMMA AuditsStep ==
    ASSUME ConnectionInv, NEW t \in Tasks, Audits(t)
    PROVE  ConnectionInv'
<1>1. /\ work[t].pc = "audit" /\ Moves(t, "answer") /\ audit' = audit \cup {work[t].n}
      /\ UNCHANGED <<conn, cred, requests, done, answered, remote>>
    BY DEF Audits
<1>2. /\ work[t].n \in 1 .. requests /\ work[t].n \in done
      /\ work[t].kind = "lab" => work[t].n \notin remote
      /\ work[t].kind = "revoked" => Revoked(work[t].k)
    BY <1>1 DEF ConnectionInv, WorkInv
<1>3. Grows /\ ConnectionTypeOK'
  <2>1. done' \cup audit' \subseteq 1 .. requests
    BY <1>1, <1>2 DEF ConnectionInv, ConnectionTypeOK
  <2>2. QED
    BY <1>1, <2>1, SameTables
<1>4. /\ work' = [work EXCEPT ![t] = [work[t] EXCEPT !.pc = "answer"]]
      /\ work'[t] \in Work /\ work'[t].pc = "answer" /\ work'[t].n = work[t].n
      /\ work'[t].kind = work[t].kind
      /\ work'[t].k = work[t].k
    BY <1>1, MovesOn
<1>5. WorkInv(t)'
  <2>1. /\ work'[t].n \in 1 .. requests' /\ work'[t].n \in done' /\ work'[t].n \in audit'
        /\ work'[t].kind = "lab" => work'[t].n \notin remote'
    BY <1>1, <1>2, <1>4
  <2>2. work'[t].kind = "revoked" => Revoked(work[t].k)'
    BY <1>1, <1>2, <1>4 DEF Revoked, Exists
  <2>3. QED
    BY <1>4, <2>1, <2>2 DEF WorkInv
<1>6. audit' \subseteq done'
    BY <1>1, <1>2 DEF ConnectionInv
<1>7. QED
    BY <1>1, <1>3, <1>4, <1>5, <1>6, Remains

\* The answer is sent.
LEMMA AnswersStep ==
    ASSUME ConnectionInv, NEW t \in Tasks, Answers(t)
    PROVE  ConnectionInv'
<1>1. PICK a : a = [n |-> work[t].n, kind |-> work[t].kind, k |-> work[t].k]
    OBVIOUS
<1>2. /\ work[t].pc = "answer" /\ Goes(t, Waiting) /\ answered' = answered \cup {a}
      /\ UNCHANGED <<conn, cred, requests, done, audit, remote>>
    BY <1>1 DEF Answers
<1>3. AnswerInv(a)
    BY <1>1, <1>2 DEF ConnectionInv, WorkInv, AnswerInv
<1>4. AnswerInv(a)'
    BY <1>2, <1>3 DEF AnswerInv, Revoked, Exists
<1>5. QED
    BY <1>2, <1>4, WaitsStep

\* The process stops; an asset expires.
LEMMA CrashStep ==
    ASSUME ConnectionInv, Crash \/ Expire
    PROVE  ConnectionInv'
<1>1. UNCHANGED <<conn, cred, requests, done, audit, answered>> /\ remote' \subseteq remote
    BY DEF Crash, Expire
<1>2. Grows /\ ConnectionTypeOK'
    BY <1>1, SameTables DEF ConnectionInv, ConnectionTypeOK
<1>3. work' \in [Tasks -> Work] /\ \A u \in Tasks : WorkInv(u)'
  <2>1. CASE Crash
    BY <2>1, WaitingWork DEF Crash, WorkInv, Waiting
  <2>2. CASE Expire
    BY <1>2, <2>2, KeepsWork DEF Expire, ConnectionInv
  <2>3. QED
    BY <2>1, <2>2
<1>4. QED
    BY <1>1, <1>2, <1>3, KeepsAnswer DEF ConnectionInv

\* Every step keeps the invariant.
LEMMA ConnectionStep ==
    ASSUME ConnectionInv, [ConnectionNext]_connectionVars
    PROVE  ConnectionInv'
<1>1. ASSUME NEW t \in Tasks, Fails(t) PROVE ConnectionInv'
    BY <1>1, WaitsStep DEF Fails
<1>2. CASE UNCHANGED connectionVars
    BY <1>2, ZenonT(60) DEF connectionVars, ConnectionInv, ConnectionTypeOK, WorkInv, AnswerInv, Revoked, Exists
<1>3. QED
    BY <1>1, <1>2, CreateStep, ReadsStep, CommitsStep, TestReadsStep, TestEndsStep, CredentialStep,
       LabStep,
       UploadLostStep, RespondStep, CleanUpStep, AuditsStep, AnswersStep, CrashStep DEF ConnectionNext

\* Empty tables satisfy it.
LEMMA ConnectionInitInv == ConnectionInit => ConnectionInv
<1> SUFFICES ASSUME ConnectionInit PROVE ConnectionInv
    OBVIOUS
<1>1. Waiting.pc = "idle"
    BY DEF Waiting
<1>2. \A t \in Tasks : work[t] \in Work /\ work[t].pc = "idle"
    BY <1>1, WaitingWork DEF ConnectionInit
<1>3. work \in [Tasks -> Work] /\ \A t \in Tasks : WorkInv(t)
    BY <1>2, WaitingWork DEF ConnectionInit, WorkInv
<1>4. QED
    BY <1>3, RunsAssumption DEF ConnectionInit, ConnectionInv, ConnectionTypeOK

\* It is an invariant.
LEMMA ConnectionInvariance == ConnectionSpec => []ConnectionInv
BY ConnectionInitInv, ConnectionStep, PTL DEF ConnectionSpec

\* The tables and the requests stay well typed.
THEOREM ConnectionTypeCorrect == ConnectionSpec => []ConnectionTypeOK
BY ConnectionInvariance, PTL DEF ConnectionInv

\* The audit log only has successes that are committed, every success that was
\* answered is in it, and a lab run that was answered left nothing behind.
THEOREM AuditTellsTheTruth == ConnectionSpec => []ChangesAreAudited
<1>1. ConnectionInv => ChangesAreAudited
    BY DEF ConnectionInv, AnswerInv, ChangesAreAudited, AuditIsTruthful, AnsweredIsAudited,
       LabLeavesNothing
<1>2. QED
    BY <1>1, ConnectionInvariance, PTL

\* No step takes back the revocation of a connection.
LEMMA RevocationStep ==
    ASSUME ConnectionInv, [ConnectionNext]_connectionVars, NEW k \in Connections,
           conn[k] # NoRow, conn[k].revoked
    PROVE  conn'[k].revoked
<1>1. conn \in [Connections -> ConnectionRow \cup {NoRow}] /\ conn[k] \in ConnectionRow
    BY DEF ConnectionInv, ConnectionTypeOK
<1>2. ASSUME NEW t \in Tasks, Create(t) PROVE conn'[k] = conn[k]
    BY <1>1, <1>2 DEF Create
<1>3. ASSUME NEW t \in Tasks, Commits(t) PROVE conn'[k].revoked
  <2> DEFINE w == work[t]
             row == Flushed(conn[w.k], w.read, w.row)
  <2>1. w.pc = "write" /\ conn' = [conn EXCEPT ![w.k] = row]
    BY <1>3 DEF Commits
  <2>2. /\ w.read \in ConnectionRow /\ w.row \in ConnectionRow
        /\ w.read.revoked = TRUE => w.row.revoked = TRUE
    BY <2>1 DEF ConnectionInv, WorkInv
  <2>3. w.k = k => row.revoked
    <3>0. conn[w.k] \in ConnectionRow
      BY <2>1 DEF ConnectionInv, WorkInv, Exists
    <3>1. row.revoked = IF w.row.revoked # w.read.revoked THEN w.row.revoked ELSE conn[w.k].revoked
      BY <2>2, <3>0, FlushedRow
    <3>2. w.read.revoked \in BOOLEAN /\ w.row.revoked \in BOOLEAN /\ conn[k].revoked = TRUE
      BY <1>1, <2>2 DEF ConnectionRow
    <3> HIDE DEF row
    <3>3. QED
      BY <2>2, <3>1, <3>2
  <2> HIDE DEF row
  <2>4. QED
    BY <1>1, <2>1, <2>3
<1>4. (\A t \in Tasks : ~Create(t) /\ ~Commits(t)) => conn' = conn
    BY DEF ConnectionNext, connectionVars, Reads, TestReads, TestEnds, Credential, Preview, Upload,
       PreviewEnds, UploadLost, Respond, CleanUp, Audits, Answers, Fails, Crash, Expire
<1>5. QED
    BY <1>2, <1>3, <1>4

\* Only TestReads starts to call a gateway.
LEMMA NoNewCall ==
    ASSUME ConnectionInv, NEW u \in Tasks, NEW w, work' = [work EXCEPT ![u] = w], w.pc # "call",
           NEW t \in Tasks, work'[t].pc = "call"
    PROVE  work[t].pc = "call"
BY DEF ConnectionInv

\* A request that begins with anything but a call makes none.
LEMMA TakesNoCall ==
    ASSUME ConnectionInv, NEW u \in Tasks, NEW w \in Work, Takes(u, w), w.pc # "call",
           NEW t \in Tasks, work'[t].pc = "call"
    PROVE  work[t].pc = "call"
<1>1. work' = [work EXCEPT ![u] = [w EXCEPT !.n = requests']] /\ work'[u].pc = w.pc
    BY TakesOne
<1>2. t # u => work'[t] = work[t]
    BY <1>1 DEF ConnectionInv
<1>3. QED
    BY <1>1, <1>2

\* A test that starts to call finds its connection not revoked.
LEMMA NoCallStep ==
    ASSUME ConnectionInv, [ConnectionNext]_connectionVars, NEW t \in Tasks, NEW a \in answered,
           a.kind = "revoked", work'[t].pc = "call", work[t].pc # "call"
    PROVE  work'[t].k # a.k
<1> USE DEF Goes
<1>0. work \in [Tasks -> Work] /\ Revoked(a.k)
    BY DEF ConnectionInv, AnswerInv
<1>1. ASSUME NEW u \in Tasks, NEW k, NEW row, NEW kind \in {"updated", "revoked"}, k \in Connections,
             conn[k] \in ConnectionRow, row \in ConnectionRow, Plans(u, kind, k, row)
      PROVE  FALSE
  <2> DEFINE w == [Waiting EXCEPT !.pc = "write", !.kind = kind, !.k = k, !.read = conn[k], !.row = row]
  <2>1. w \in Work /\ w.pc = "write" /\ Takes(u, w)
    BY <1>1, WaitingWork DEF Work, WorkKinds, Plans
  <2> HIDE DEF w
  <2>2. QED
    BY <2>1, TakesNoCall
<1>2. ASSUME NEW u \in Tasks, Create(u) PROVE FALSE
  <2>1. PICK k \in Connections : Takes(u, [Waiting EXCEPT !.pc = "audit", !.kind = "created", !.k = k])
    BY <1>2 DEF Create
  <2> DEFINE w == [Waiting EXCEPT !.pc = "audit", !.kind = "created", !.k = k]
  <2>2. w \in Work /\ w.pc = "audit" /\ Takes(u, w)
    BY <2>1, WaitingWork DEF Work, WorkKinds
  <2> HIDE DEF w
  <2>3. QED
    BY <2>2, TakesNoCall
<1>3. ASSUME NEW u \in Tasks, Reads(u) PROVE FALSE
  <2>1. PICK k \in Connections :
          /\ conn[k] # NoRow
          /\ \/ \E enabled \in BOOLEAN :
                  Plans(u, "updated", k, [conn[k] EXCEPT !.enabled = enabled, !.status = "untested"])
             \/ Plans(u, "revoked", k, [enabled |-> FALSE, status |-> "revoked", revoked |-> TRUE])
    BY <1>3 DEF Reads
  <2>2. conn[k] \in ConnectionRow
    BY <2>1 DEF ConnectionInv, ConnectionTypeOK
  <2>3. [enabled |-> FALSE, status |-> "revoked", revoked |-> TRUE] \in ConnectionRow
    BY DEF ConnectionRow
  <2>4. \A enabled \in BOOLEAN : [conn[k] EXCEPT !.enabled = enabled, !.status = "untested"] \in ConnectionRow
    BY <2>2 DEF ConnectionRow
  <2>5. QED
    BY <1>1, <2>1, <2>2, <2>3, <2>4
<1>4. ASSUME NEW u \in Tasks, Credential(u) PROVE FALSE
  <2> DEFINE w == [Waiting EXCEPT !.pc = "audit", !.kind = "credential", !.k = cred']
  <2>1. cred' \in {"none", "issued", "revoked"} /\ Takes(u, w)
    BY <1>4 DEF Credential, Issue, Retire
  <2>2. w \in Work /\ w.pc = "audit"
    BY <2>1, WaitingWork DEF Work, WorkKinds
  <2> HIDE DEF w
  <2>3. QED
    BY <2>1, <2>2, TakesNoCall
<1>5. ASSUME NEW u \in Tasks, Preview(u) \/ Upload(u) PROVE FALSE
  <2> DEFINE v == [Waiting EXCEPT !.pc = "lab", !.kind = "lab"]
             w == [Waiting EXCEPT !.pc = "lab", !.kind = "lab", !.asset = TRUE]
  <2>1. v \in Work /\ v.pc = "lab"
    BY WaitingWork DEF Work, WorkKinds
  <2>2. w \in Work /\ w.pc = "lab"
    BY WaitingWork DEF Work, WorkKinds
  <2>3. Takes(u, v) \/ Takes(u, w)
    BY <1>5 DEF Preview, Upload
  <2> HIDE DEF v, w
  <2>4. QED
    BY <2>1, <2>2, <2>3, TakesNoCall
<1>6. ASSUME NEW u \in Tasks, NEW pc \in {"audit", "answer", "clean", "clean, failed", "failed"},
             Moves(u, pc)
      PROVE  FALSE
  <2>1. work' = [work EXCEPT ![u] = [work[u] EXCEPT !.pc = pc]] /\ work'[u].pc = pc
    BY <1>6, MovesOn
  <2>2. t # u => work'[t] = work[t]
    BY <1>0, <2>1
  <2>3. QED
    BY <2>1, <2>2
<1>7. ASSUME NEW u \in Tasks, Goes(u, Waiting) PROVE FALSE
    BY <1>7, NoNewCall DEF Waiting
<1>8. ASSUME NEW u \in Tasks, TestEnds(u) PROVE FALSE
  <2>1. work[u].pc = "call"
    BY <1>8 DEF TestEnds
  <2>2. t # u
    BY <2>1
  <2>3. work'[t] = work[t]
    BY <1>0, <1>8, <2>2 DEF TestEnds
  <2>4. QED
    BY <2>3
<1>9. ASSUME NEW u \in Tasks, Commits(u) \/ Respond(u) \/ PreviewEnds(u) \/ CleanUp(u) \/ Audits(u) PROVE FALSE
  <2>1. \E pc \in {"audit", "answer", "clean", "clean, failed", "failed"} : Moves(u, pc)
    BY <1>9 DEF Commits, Respond, PreviewEnds, CleanUp, Audits
  <2>2. QED
    BY <1>6, <2>1
<1>10. ASSUME Crash \/ Expire \/ UNCHANGED connectionVars \/ \E u \in Tasks : UploadLost(u) PROVE FALSE
    BY <1>10 DEF Crash, Expire, connectionVars, UploadLost, Waiting
<1>11. PICK u \in Tasks : TestReads(u)
    BY <1>2, <1>3, <1>4, <1>5, <1>7, <1>8, <1>9, <1>10 DEF ConnectionNext, Answers, Fails
<1>12. PICK k \in Connections : /\ conn[k] # NoRow /\ ~conn[k].revoked
                                /\ Takes(u, [Waiting EXCEPT !.pc = "call", !.kind = "tested", !.k = k])
    BY <1>11 DEF TestReads
<1> DEFINE w == [Waiting EXCEPT !.pc = "call", !.kind = "tested", !.k = k]
<1>13. w \in Work /\ w.k = k /\ Takes(u, w)
    BY <1>12, WaitingWork DEF Work, WorkKinds
<1> HIDE DEF w
<1>14. work' = [work EXCEPT ![u] = [w EXCEPT !.n = requests']] /\ work'[u].k = k
    BY <1>13, TakesOne
<1>15. t = u
    BY <1>0, <1>14
<1>16. QED
    BY <1>0, <1>12, <1>14, <1>15 DEF Revoked

\* A revoked connection stays revoked, whatever a request that read it before
\* writes, and no test that begins after the answer calls its gateway.
THEOREM RevokedConnectionsStay == ConnectionSpec => RevokedForGood
<1>1. ConnectionInv /\ [ConnectionNext]_connectionVars
        => [\A k \in Connections : conn[k] # NoRow /\ conn[k].revoked => conn'[k].revoked]_connectionVars
    BY RevocationStep
<1>2. ConnectionInv /\ [ConnectionNext]_connectionVars
        => [\A t \in Tasks, a \in answered :
              a.kind = "revoked" /\ work'[t].pc = "call" /\ work[t].pc # "call"
                  => work'[t].k # a.k]_connectionVars
    BY NoCallStep
<1>3. QED
    BY <1>1, <1>2, ConnectionInvariance, PTL
       DEF ConnectionSpec, RevokedForGood, RevocationIsFinal, NoCallAfterRevocation

(***************************************************************************)
(* The composition                                                         *)
(***************************************************************************)

\* A step of one part leaves the others alone.
ControlInv ==
    /\ part \in {"access", "configuration", "connections"}
    /\ AccessInv /\ ManagedInv /\ ConnectionInv

\* It is an invariant of the parts side by side.
LEMMA ControlInvariance == ControlSpec => []ControlInv
<1>1. ControlInit => ControlInv
    BY AccessInit, ManagedInitInv, ConnectionInitInv DEF ControlInit, ControlInv
<1>2. ASSUME ControlInv, [ControlNext]_<<part, vars, managedVars, connectionVars>>
      PROVE  ControlInv'
  <2>1. [Next]_vars /\ [ManagedNext]_managedVars /\ [ConnectionNext]_connectionVars
    BY <1>2 DEF ControlNext
  <2>2. QED
    BY <1>2, <2>1, AccessStep, ManagedStepInv, ConnectionStep DEF ControlInv, ControlNext
<1>3. QED
    BY <1>1, <1>2, PTL DEF ControlSpec

\* Whatever part runs, its state has its type.
THEOREM ControlTypeCorrect == ControlSpec => []ControlTypeOK
<1>1. ControlInv => ControlTypeOK
    BY DEF ControlInv, AccessInv, ManagedInv, ConnectionInv, ControlTypeOK
<1>2. QED
    BY <1>1, ControlInvariance, PTL

\* What was revoked, a session or a connection, does not come back in any part.
THEOREM NothingComesBack == ControlSpec => NothingRevokedReturns
<1>1. ControlInv /\ [ControlNext]_<<part, vars, managedVars, connectionVars>>
        => [\A s \in Sessions : sessions[s].state = "revoked" => sessions'[s].state = "revoked"]_vars
    BY RevokedStep DEF ControlInv, ControlNext
<1>2. ControlInv /\ [ControlNext]_<<part, vars, managedVars, connectionVars>>
        => [\A k \in Connections : conn[k] # NoRow /\ conn[k].revoked => conn'[k].revoked]_connectionVars
    BY RevocationStep DEF ControlInv, ControlNext
<1>3. ControlInv /\ [ControlNext]_<<part, vars, managedVars, connectionVars>>
        => [\A t \in Tasks, a \in answered :
              a.kind = "revoked" /\ work'[t].pc = "call" /\ work[t].pc # "call"
                  => work'[t].k # a.k]_connectionVars
    BY NoCallStep DEF ControlInv, ControlNext
<1>4. QED
    BY <1>1, <1>2, <1>3, ControlInvariance, PTL
       DEF ControlSpec, NothingRevokedReturns, RevokedStaysRevoked, RevokedForGood, RevocationIsFinal,
           NoCallAfterRevocation
===============================================================================
