----------------------------- MODULE Auth_proofs -----------------------------
(***************************************************************************)
(* Proofs about Auth, for any number of users, threads, codes and          *)
(* sessions, any times and limits.  What a request holds between two of    *)
(* its statements is the point: a login knows a user who exists, a version *)
(* no newer than the row's, and is one of the failures the rate limit may  *)
(* still have to bear.                                                     *)
(***************************************************************************)
EXTENDS Auth, FiniteSetTheorems, TLAPS

UserRow    == [role : Roles \cup {"none"}, disabled : BOOLEAN, version : Nat]
CodeRow    == [purpose : {"none", "bootstrap", "invitation"}, role : Roles \cup {"none"},
               expires : Nat, consumed : BOOLEAN]
SessionRow == [status : {"absent", "active", "revoked"}, user : Users \cup {None},
               origin : Origins \cup {None}, version : Nat, seen : Nat, idle : Nat,
               absolute : Nat, reauth : Nat]
LoginStages == {"verify", "record", "version", "insert"}
Request    == [pc : LoginStages \cup {"idle", "bootstrap", "granted"},
               user : Users \cup {None}, origin : Origins \cup {None},
               session : Sessions \cup {None}, ok : BOOLEAN, version : Nat,
               role : Roles \cup {"none"}]

UsersTyped    == users \in [Users -> UserRow] /\ joined \in [Users -> Codes \cup {None}]
CodesTyped    == codes \in [Codes -> CodeRow]
SessionsTyped ==
  /\ sessions \in [Sessions -> SessionRow]
  /\ lastUse \in [Sessions -> Nat]
  /\ \A s \in Sessions : sessions[s].status # "absent" =>
        sessions[s].user \in Users /\ sessions[s].origin \in Origins
FailuresTyped ==
  /\ failures \in [Users -> SUBSET (Nat \X Nat)]
  /\ \A u \in Users : IsFiniteSet(failures[u])
RequestsTyped ==
  /\ req \in [Threads -> Request]
  /\ \A t \in Threads :
       /\ req[t].pc \in LoginStages => req[t].user \in Users /\ req[t].origin \in Origins
       /\ req[t].pc = "granted" => req[t].session \in Sessions
RestTyped ==
  /\ scope \in Scopes
  /\ now \in Nat
  /\ prior \in SUBSET Sessions
  /\ shut \in [Origins -> BOOLEAN]

(* The type invariant: every row and every request has its shape, and one  *)
(* that is in use names a user, an origin and a session.                   *)
TypeOK ==
  /\ UsersTyped /\ CodesTyped /\ SessionsTyped
  /\ FailuresTyped /\ RequestsTyped /\ RestTyped

LEMMA Bounds ==
  ASSUME TypeOK
  PROVE  /\ scope.users \subseteq Users /\ scope.threads \subseteq Threads
         /\ scope.codes \subseteq Codes /\ scope.sessions \subseteq Sessions
         /\ scope.origins \subseteq Origins
<1>1. scope \in [users : SUBSET Users, threads : SUBSET Threads,
                 codes : SUBSET Codes, sessions : SUBSET Sessions,
                 origins : SUBSET Origins, time : Nat, updates : Nat]
  BY AuthAssumption DEF AuthAssumption, TypeOK, RestTyped
<1> QED
  BY <1>1

(* Time, and what the limits are.                                          *)
LEMMA Seconds ==
  /\ {IdleSeconds, AbsoluteSeconds, CoalesceSeconds, BootstrapSeconds,
      InvitationSeconds, AttemptSeconds, AttemptLimit} \subseteq Nat \ {0}
  /\ CoalesceSeconds <= IdleSeconds /\ IdleSeconds <= AbsoluteSeconds
  /\ None \notin Users \cup Codes \cup Sessions \cup Origins
  /\ "loopback" \in Origins
BY AuthAssumption DEF AuthAssumption

LEMMA InitTyped == Init => TypeOK
<1> SUFFICES ASSUME Init PROVE TypeOK
  OBVIOUS
<1>1. UsersTyped
  BY DEF Init, UsersTyped, UserRow, NoUser
<1>2. CodesTyped
  BY DEF Init, CodesTyped, CodeRow, NoCode
<1>3. SessionsTyped
  BY DEF Init, SessionsTyped, SessionRow, NoRow
<1>4. FailuresTyped
  BY FS_EmptySet DEF Init, FailuresTyped
<1>5. RequestsTyped
  BY DEF Init, RequestsTyped, Request, LoginStages, Idle
<1>6. RestTyped
  BY DEF Init, RestTyped
<1> QED
  BY <1>1, <1>2, <1>3, <1>4, <1>5, <1>6 DEF TypeOK

-----------------------------------------------------------------------------
(* The steps, with the bounds of the behaviour left out.                   *)

AnyRequest(t) ==
  \/ EnsureBootstrap(t) \/ IssueBootstrap(t)
  \/ \E c \in Codes, u \in Users : ClaimOwner(t, c, u)
  \/ \E c \in Codes, u \in Users, o \in Origins : AcceptInvitation(t, c, u, o)
  \/ \E u \in Users, o \in Origins : Login(t, u, o)
  \/ Verify(t) \/ RecordAttempt(t) \/ ReadVersion(t)
  \/ \E s \in Sessions : InsertSession(t, s)
  \/ \E s \in Sessions : Authenticate(t, s)
  \/ \E s \in Sessions : RevokeSession(t, s)
  \/ \E c \in Codes, role \in Roles : CreateInvitation(t, c, role)
  \/ Logout(t) \/ Reauthenticate(t) \/ OtherRequest(t)

Elsewhere ==
  \/ Tick
  \/ \E s \in Sessions : AuthenticateLapsed(s)
  \/ \E u \in Users, role \in Roles, disabled \in BOOLEAN : UpdateUser(u, role, disabled)
  \/ \E o \in Origins : RevokeOrigin(o)

LEMMA Steps ==
  ASSUME TypeOK, [Next]_vars
  PROVE  (\E t \in Threads : AnyRequest(t)) \/ Elsewhere \/ UNCHANGED vars
<1>1. /\ scope.users \subseteq Users /\ scope.threads \subseteq Threads
      /\ scope.codes \subseteq Codes /\ scope.sessions \subseteq Sessions
      /\ scope.origins \subseteq Origins
  BY Bounds
<1>2. ASSUME NEW t \in scope.threads, ThreadStep(t) PROVE AnyRequest(t)
  BY <1>1, <1>2 DEF ThreadStep, AnyRequest
<1>3. CASE \E o \in scope.origins : RevokeOrigin(o)
  BY <1>1, <1>3 DEF Elsewhere
<1> QED
  BY <1>1, <1>2, <1>3 DEF Next, Elsewhere

-----------------------------------------------------------------------------
(* What each step does to the requests and to the sessions.                *)

(* A request that goes on, ends or begins keeps the shape of a request.    *)
LEMMA OneRequest ==
  ASSUME RequestsTyped, NEW t \in Threads, NEW r \in Request,
         r.pc \in LoginStages => r.user \in Users /\ r.origin \in Origins,
         r.pc = "granted" => r.session \in Sessions,
         req' = [req EXCEPT ![t] = r]
  PROVE  RequestsTyped'
BY DEF RequestsTyped

LEMMA FinishTyped ==
  ASSUME RequestsTyped, NEW t \in Threads, Finish(t)
  PROVE  RequestsTyped'
<1>1. Idle \in Request /\ Idle.pc \notin LoginStages \cup {"granted"}
  BY DEF Idle, Request, LoginStages
<1> QED
  BY <1>1, OneRequest DEF Finish

LEMMA RequestStep ==
  ASSUME TypeOK, [Next]_vars
  PROVE  RequestsTyped'
<1>0. RequestsTyped /\ UsersTyped /\ SessionsTyped
  BY DEF TypeOK
<1>u. ASSUME UNCHANGED req PROVE RequestsTyped'
  BY <1>0, <1>u DEF RequestsTyped
<1>g. ASSUME NEW t \in Threads, NEW pc \in {"bootstrap", "version"}, Goto(t, pc),
             pc = "version" => req[t].pc \in LoginStages
      PROVE  RequestsTyped'
  BY <1>0, <1>g DEF Goto, RequestsTyped, Request, LoginStages
<1>1. ASSUME NEW t \in Threads, EnsureBootstrap(t) PROVE RequestsTyped'
  BY <1>1, <1>g DEF EnsureBootstrap
<1>2. ASSUME NEW t \in Threads,
             \/ IssueBootstrap(t) \/ Logout(t) \/ Reauthenticate(t) \/ OtherRequest(t)
             \/ \E s \in Sessions : InsertSession(t, s)
             \/ \E s \in Sessions : RevokeSession(t, s)
             \/ \E c \in Codes, role \in Roles : CreateInvitation(t, c, role)
      PROVE  RequestsTyped'
  BY <1>0, <1>2, FinishTyped
     DEF IssueBootstrap, Logout, Reauthenticate, OtherRequest, InsertSession, RevokeSession,
         CreateInvitation
<1>3. ASSUME NEW t \in Threads, NEW c \in Codes, NEW u \in Users,
             ClaimOwner(t, c, u) \/ \E o \in Origins : AcceptInvitation(t, c, u, o)
      PROVE  RequestsTyped'
  <2>1. PICK origin \in Origins :
          req' = [req EXCEPT ![t] = [Idle EXCEPT !.pc = "version", !.user = u,
                                                 !.origin = origin]]
    BY <1>3, Seconds DEF ClaimOwner, AcceptInvitation, Join
  <2> DEFINE r == [Idle EXCEPT !.pc = "version", !.user = u, !.origin = origin]
  <2>2. r \in Request /\ r.pc = "version" /\ r.user = u /\ r.origin = origin
    BY DEF Idle, Request, LoginStages
  <2> QED
    BY <1>0, <2>1, <2>2, OneRequest
<1>4. ASSUME NEW t \in Threads, NEW u \in Users, NEW o \in Origins, Login(t, u, o)
      PROVE  RequestsTyped'
  <2> DEFINE r == [Idle EXCEPT !.pc = "verify", !.user = u, !.origin = o]
  <2>1. r \in Request /\ r.pc = "verify" /\ r.user = u /\ r.origin = o
    BY DEF Idle, Request, LoginStages
  <2> QED
    BY <1>0, <1>4, <2>1, OneRequest DEF Login
<1>5. ASSUME NEW t \in Threads, Verify(t) PROVE RequestsTyped'
  <2>1. PICK ok \in BOOLEAN : req' = [req EXCEPT ![t].pc = "record", ![t].ok = ok]
    <3>1. PICK right \in BOOLEAN :
            req' = [req EXCEPT ![t].pc = "record",
                               ![t].ok = right /\ Exists(req[t].user)
                                               /\ ~users[req[t].user].disabled]
      BY <1>5 DEF Verify
    <3>2. (right /\ Exists(req[t].user) /\ ~users[req[t].user].disabled) \in BOOLEAN
      OBVIOUS
    <3> QED
      BY <3>1, <3>2
  <2> DEFINE r == [req[t] EXCEPT !.pc = "record", !.ok = ok]
  <2>2. req[t] \in Request /\ req[t].user \in Users /\ req[t].origin \in Origins
    BY <1>0, <1>5 DEF Verify, RequestsTyped, LoginStages
  <2>3. r \in Request /\ r.pc = "record" /\ r.user = req[t].user /\ r.origin = req[t].origin
    BY <2>2 DEF Request, LoginStages
  <2>4. req' = [req EXCEPT ![t] = r]
    BY <1>0, <2>1 DEF RequestsTyped
  <2> QED
    BY <1>0, <2>2, <2>3, <2>4, OneRequest
<1>6. ASSUME NEW t \in Threads, RecordAttempt(t) PROVE RequestsTyped'
  BY <1>0, <1>6, <1>g, FinishTyped DEF RecordAttempt, LoginStages
<1>7. ASSUME NEW t \in Threads, ReadVersion(t) PROVE RequestsTyped'
  <2>1. /\ req[t].pc = "version"
        /\ req' = [req EXCEPT ![t].pc = "insert", ![t].version = users[req[t].user].version]
    BY <1>7 DEF ReadVersion
  <2>2. req[t].user \in Users
    BY <1>0, <2>1 DEF RequestsTyped, LoginStages
  <2>3. users[req[t].user].version \in Nat
    BY <1>0, <2>2 DEF UsersTyped, UserRow
  <2> QED
    BY <1>0, <2>1, <2>3 DEF RequestsTyped, Request, LoginStages
<1>8. ASSUME NEW t \in Threads, NEW s \in Sessions, Authenticate(t, s)
      PROVE  RequestsTyped'
  <2> DEFINE role == users[sessions[s].user].role
             r    == [Idle EXCEPT !.pc = "granted", !.session = s, !.role = role]
  <2>1. role \in Roles \cup {"none"}
    BY <1>0, <1>8 DEF Authenticate, Open, SessionsTyped, UsersTyped, UserRow
  <2>2. r \in Request /\ r.pc = "granted" /\ r.session = s
    BY <2>1 DEF Idle, Request, LoginStages
  <2>3. req' = [req EXCEPT ![t] = r]
    BY <1>8 DEF Authenticate
  <2> HIDE DEF r
  <2> QED
    BY <1>0, <2>2, <2>3, OneRequest DEF LoginStages
<1>9. CASE Elsewhere \/ UNCHANGED vars
  BY <1>9, <1>u
     DEF Elsewhere, Tick, AuthenticateLapsed, UpdateUser, RevokeOrigin, vars
<1>10. ASSUME NEW t \in Threads, AnyRequest(t) PROVE RequestsTyped'
  BY <1>10, <1>1, <1>2, <1>3, <1>4, <1>5, <1>6, <1>7, <1>8 DEF AnyRequest
<1> QED
  BY <1>9, <1>10, Steps

LEMMA RestStep ==
  ASSUME TypeOK, [Next]_vars
  PROVE  RestTyped'
<1>0. RestTyped /\ SessionsTyped
  BY DEF TypeOK
<1>1. scope' = scope
  BY DEF Next, vars
<1>u. ASSUME UNCHANGED <<now, prior>>,
             shut' = shut \/ (\E o \in Origins, b \in BOOLEAN : shut' = [shut EXCEPT ![o] = b])
      PROVE  RestTyped'
  BY <1>0, <1>1, <1>u DEF RestTyped
<1>2. CASE UNCHANGED vars
  BY <1>2, <1>u DEF vars, history
<1>3. CASE Tick
  BY <1>0, <1>1, <1>3 DEF Tick, RestTyped, history
<1>4. ASSUME NEW s \in Sessions, AuthenticateLapsed(s) PROVE RestTyped'
  BY <1>4, <1>u DEF AuthenticateLapsed, history
<1>5. ASSUME NEW u \in Users, NEW role \in Roles, NEW disabled \in BOOLEAN,
             UpdateUser(u, role, disabled)
      PROVE  RestTyped'
  BY <1>0, <1>1, <1>5 DEF UpdateUser, RestTyped
<1>6. ASSUME NEW o \in Origins, RevokeOrigin(o) PROVE RestTyped'
  <2>1. shut' = [shut EXCEPT ![o] = ~LoggingIn(o)] /\ (~LoggingIn(o)) \in BOOLEAN
    BY <1>6 DEF RevokeOrigin
  <2> QED
    BY <1>6, <1>u, <2>1 DEF RevokeOrigin
<1>7. ASSUME NEW t \in Threads, AnyRequest(t) PROVE RestTyped'
  <2>1. CASE \E c \in Codes, u \in Users :
                ClaimOwner(t, c, u) \/ \E o \in Origins : AcceptInvitation(t, c, u, o)
    BY <1>u, <2>1, Seconds DEF ClaimOwner, AcceptInvitation, Join
  <2>2. CASE \E u \in Users, o \in Origins : Login(t, u, o)
    BY <1>u, <2>2 DEF Login
  <2>3. CASE EnsureBootstrap(t) \/ IssueBootstrap(t) \/ Verify(t) \/ RecordAttempt(t)
             \/ ReadVersion(t) \/ Logout(t) \/ Reauthenticate(t) \/ OtherRequest(t)
    BY <1>u, <2>3 DEF EnsureBootstrap, IssueBootstrap, Verify, RecordAttempt, ReadVersion,
                      Logout, Reauthenticate, OtherRequest, history
  <2>4. CASE \/ \E s \in Sessions : InsertSession(t, s)
             \/ \E s \in Sessions : Authenticate(t, s)
             \/ \E s \in Sessions : RevokeSession(t, s)
             \/ \E c \in Codes, role \in Roles : CreateInvitation(t, c, role)
    BY <1>u, <2>4 DEF InsertSession, Authenticate, RevokeSession, CreateInvitation, history
  <2> QED
    BY <1>7, <2>1, <2>2, <2>3, <2>4 DEF AnyRequest
<1> QED
  BY <1>2, <1>3, <1>4, <1>5, <1>6, <1>7, Steps DEF Elsewhere

LEMMA UsersStep ==
  ASSUME TypeOK, [Next]_vars
  PROVE  UsersTyped'
<1>0. UsersTyped /\ CodesTyped
  BY DEF TypeOK
<1>u. ASSUME UNCHANGED <<users, joined>> PROVE UsersTyped'
  BY <1>0, <1>u DEF UsersTyped
<1>1. ASSUME NEW u \in Users, NEW role \in Roles, NEW disabled \in BOOLEAN,
             UpdateUser(u, role, disabled)
      PROVE  UsersTyped'
  BY <1>0, <1>1 DEF UpdateUser, UsersTyped, UserRow
<1>2. CASE \/ Tick \/ UNCHANGED vars
           \/ \E s \in Sessions : AuthenticateLapsed(s)
           \/ \E o \in Origins : RevokeOrigin(o)
  BY <1>u, <1>2 DEF Tick, AuthenticateLapsed, RevokeOrigin, history, rows, vars
<1>3. ASSUME NEW t \in Threads, AnyRequest(t) PROVE UsersTyped'
  <2>1. ASSUME NEW c \in Codes, NEW u \in Users, NEW role, NEW origin,
               role \in Roles \cup {"none"}, Join(t, c, u, role, origin)
        PROVE  UsersTyped'
    BY <1>0, <2>1 DEF Join, UsersTyped, UserRow
  <2>2. CASE \E c \in Codes, u \in Users : ClaimOwner(t, c, u)
    BY <2>1, <2>2 DEF ClaimOwner, Roles
  <2>3. CASE \E c \in Codes, u \in Users, o \in Origins : AcceptInvitation(t, c, u, o)
    <3>1. \A c \in Codes : codes[c].role \in Roles \cup {"none"}
      BY <1>0 DEF CodesTyped, CodeRow
    <3> QED
      BY <2>1, <2>3, <3>1 DEF AcceptInvitation
  <2>4. CASE EnsureBootstrap(t) \/ IssueBootstrap(t) \/ Verify(t) \/ RecordAttempt(t)
             \/ ReadVersion(t) \/ Logout(t) \/ Reauthenticate(t) \/ OtherRequest(t)
    BY <1>u, <2>4 DEF EnsureBootstrap, IssueBootstrap, Verify, RecordAttempt, ReadVersion,
                      Logout, Reauthenticate, OtherRequest, history, rows
  <2>5. CASE \/ \E u \in Users, o \in Origins : Login(t, u, o)
             \/ \E s \in Sessions : InsertSession(t, s)
             \/ \E s \in Sessions : Authenticate(t, s)
             \/ \E s \in Sessions : RevokeSession(t, s)
             \/ \E c \in Codes, role \in Roles : CreateInvitation(t, c, role)
    BY <1>u, <2>5 DEF Login, InsertSession, Authenticate, RevokeSession, CreateInvitation,
                      history, rows
  <2> QED
    BY <1>3, <2>2, <2>3, <2>4, <2>5 DEF AnyRequest
<1> QED
  BY <1>1, <1>2, <1>3, Steps DEF Elsewhere

LEMMA CodesStep ==
  ASSUME TypeOK, [Next]_vars
  PROVE  CodesTyped'
<1>0. CodesTyped /\ now \in Nat
  BY DEF TypeOK, RestTyped
<1>i. ASSUME NEW c \in Codes, NEW purpose \in {"bootstrap", "invitation"}, NEW role \in Roles,
             NEW seconds \in Nat, Issue(c, purpose, role, seconds)
      PROVE  CodesTyped'
  BY <1>0, <1>i DEF Issue, CodesTyped, CodeRow
<1>1. CASE Elsewhere \/ UNCHANGED vars
  BY <1>0, <1>1 DEF Elsewhere, Tick, AuthenticateLapsed, UpdateUser, RevokeOrigin, rows,
                    vars, CodesTyped
<1>2. ASSUME NEW t \in Threads, AnyRequest(t) PROVE CodesTyped'
  <2>1. CASE IssueBootstrap(t)
    <3>1. \/ UNCHANGED codes
          \/ \E c \in Codes : Issue(c, "bootstrap", "owner", BootstrapSeconds)
      BY <2>1, Bounds DEF IssueBootstrap
    <3> QED
      BY <1>0, <1>i, <3>1, Seconds DEF CodesTyped, Roles
  <2>2. CASE \E c \in Codes, role \in Roles : CreateInvitation(t, c, role)
    BY <1>i, <2>2, Seconds DEF CreateInvitation
  <2>3. CASE \/ \E c \in Codes, u \in Users : ClaimOwner(t, c, u)
             \/ \E c \in Codes, u \in Users, o \in Origins : AcceptInvitation(t, c, u, o)
    <3>1. PICK c \in Codes : codes' = [codes EXCEPT ![c].consumed = TRUE]
      BY <2>3 DEF ClaimOwner, AcceptInvitation, Join, Consume
    <3> QED
      BY <1>0, <3>1 DEF CodesTyped, CodeRow
  <2>4. CASE EnsureBootstrap(t) \/ Verify(t) \/ RecordAttempt(t)
             \/ ReadVersion(t) \/ Logout(t) \/ Reauthenticate(t) \/ OtherRequest(t)
    BY <1>0, <2>4 DEF EnsureBootstrap, Verify, RecordAttempt, ReadVersion,
                      Logout, Reauthenticate, OtherRequest, rows, CodesTyped
  <2>5. CASE \/ \E u \in Users, o \in Origins : Login(t, u, o)
             \/ \E s \in Sessions : InsertSession(t, s)
             \/ \E s \in Sessions : Authenticate(t, s)
             \/ \E s \in Sessions : RevokeSession(t, s)
    BY <1>0, <2>5 DEF Login, InsertSession, Authenticate, RevokeSession, rows, CodesTyped
  <2> QED
    BY <1>2, <2>1, <2>2, <2>3, <2>4, <2>5 DEF AnyRequest
<1> QED
  BY <1>1, <1>2, Steps

(* A session row as others leave it.                                       *)
LEMMA RevokedTyped ==
  ASSUME SessionsTyped, NEW S, sessions' = Revoked(S), lastUse' = lastUse
  PROVE  SessionsTyped'
<1>1. \A s \in Sessions :
        IF s \in S /\ sessions[s].status = "active"
        THEN sessions'[s] = [sessions[s] EXCEPT !.status = "revoked"]
        ELSE sessions'[s] = sessions[s]
  BY DEF Revoked
<1>2. \A s \in Sessions :
        /\ sessions'[s] \in SessionRow
        /\ sessions'[s].user = sessions[s].user /\ sessions'[s].origin = sessions[s].origin
        /\ sessions'[s].status # "absent" => sessions[s].status # "absent"
  BY <1>1 DEF SessionsTyped, SessionRow
<1>3. sessions' \in [Sessions -> SessionRow]
  BY <1>2 DEF Revoked
<1> QED
  BY <1>2, <1>3 DEF SessionsTyped

LEMMA SessionsStep ==
  ASSUME TypeOK, [Next]_vars
  PROVE  SessionsTyped'
<1>0. SessionsTyped /\ RequestsTyped /\ now \in Nat
  BY DEF TypeOK, RestTyped
<1>u. ASSUME UNCHANGED <<sessions, lastUse>> PROVE SessionsTyped'
  BY <1>0, <1>u DEF SessionsTyped
<1>1. CASE Tick \/ UNCHANGED vars
           \/ \E u \in Users, role \in Roles, disabled \in BOOLEAN :
                 UpdateUser(u, role, disabled)
  BY <1>u, <1>1 DEF Tick, UpdateUser, rows, history, vars
<1>2. ASSUME NEW s \in Sessions, AuthenticateLapsed(s) PROVE SessionsTyped'
  BY <1>0, <1>2, RevokedTyped DEF AuthenticateLapsed, history
<1>3. ASSUME NEW o \in Origins, RevokeOrigin(o) PROVE SessionsTyped'
  BY <1>0, <1>3, RevokedTyped DEF RevokeOrigin
<1>4. ASSUME NEW t \in Threads, AnyRequest(t) PROVE SessionsTyped'
  <2>1. CASE Logout(t) \/ \E s \in Sessions : RevokeSession(t, s)
    BY <1>0, <2>1, RevokedTyped DEF Logout, RevokeSession, history
  <2>2. ASSUME NEW s \in Sessions, InsertSession(t, s) PROVE SessionsTyped'
    <3>1. /\ req[t].user \in Users /\ req[t].origin \in Origins /\ req[t].version \in Nat
          /\ now + IdleSeconds \in Nat /\ now + AbsoluteSeconds \in Nat
      <4>1. req[t] \in Request /\ req[t].pc = "insert"
        BY <1>0, <2>2 DEF RequestsTyped, InsertSession
      <4> QED
        BY <1>0, <4>1, Seconds DEF RequestsTyped, LoginStages, Request
    <3> DEFINE row == [status |-> "active", user |-> req[t].user, origin |-> req[t].origin,
                       version |-> req[t].version, seen |-> now, reauth |-> now,
                       idle |-> now + IdleSeconds, absolute |-> now + AbsoluteSeconds]
    <3>2. row \in SessionRow /\ row.user \in Users /\ row.origin \in Origins
      BY <1>0, <3>1 DEF SessionRow
    <3>3. sessions' = [sessions EXCEPT ![s] = row] /\ lastUse' = [lastUse EXCEPT ![s] = now]
      BY <2>2 DEF InsertSession
    <3> HIDE DEF row
    <3> QED
      BY <1>0, <3>2, <3>3 DEF SessionsTyped
  <2>3. ASSUME NEW s \in Sessions, Authenticate(t, s) PROVE SessionsTyped'
    <3>1. sessions[s] \in SessionRow
      BY <1>0 DEF SessionsTyped
    <3>2. now + IdleSeconds \in Nat
      BY <1>0, Seconds
    <3>3. /\ Touched(sessions[s]) \in SessionRow
          /\ Touched(sessions[s]).user = sessions[s].user
          /\ Touched(sessions[s]).origin = sessions[s].origin
          /\ Touched(sessions[s]).status = sessions[s].status
      BY <1>0, <3>1, <3>2 DEF Touched, MinOf, SessionRow
    <3>4. /\ sessions' = [sessions EXCEPT ![s] = Touched(sessions[s])]
          /\ lastUse' = [lastUse EXCEPT ![s] = now]
      BY <2>3 DEF Authenticate
    <3> QED
      BY <1>0, <3>3, <3>4 DEF SessionsTyped
  <2>4. CASE Reauthenticate(t)
    <3>1. /\ sessions' = [sessions EXCEPT ![req[t].session].reauth = now]
          /\ req[t].session \in Sessions /\ lastUse' = lastUse
      BY <1>0, <2>4 DEF Reauthenticate, RequestsTyped, history
    <3> QED
      BY <1>0, <3>1 DEF SessionsTyped, SessionRow
  <2>5. CASE EnsureBootstrap(t) \/ IssueBootstrap(t) \/ Verify(t) \/ RecordAttempt(t)
             \/ ReadVersion(t) \/ OtherRequest(t)
    BY <1>u, <2>5 DEF EnsureBootstrap, IssueBootstrap, Verify, RecordAttempt, ReadVersion,
                      OtherRequest, rows, history
  <2>6. CASE \/ \E c \in Codes, u \in Users : ClaimOwner(t, c, u)
             \/ \E c \in Codes, u \in Users, o \in Origins : AcceptInvitation(t, c, u, o)
             \/ \E u \in Users, o \in Origins : Login(t, u, o)
             \/ \E c \in Codes, role \in Roles : CreateInvitation(t, c, role)
    BY <1>u, <2>6 DEF ClaimOwner, AcceptInvitation, Join, Login, CreateInvitation, rows, history
  <2> QED
    BY <1>4, <2>1, <2>2, <2>3, <2>4, <2>5, <2>6 DEF AnyRequest
<1> QED
  BY <1>1, <1>2, <1>3, <1>4, Steps DEF Elsewhere

LEMMA FailuresStep ==
  ASSUME TypeOK, [Next]_vars
  PROVE  FailuresTyped'
<1>0. FailuresTyped /\ RequestsTyped /\ now \in Nat
  BY DEF TypeOK, RestTyped
<1>u. ASSUME UNCHANGED failures PROVE FailuresTyped'
  BY <1>0, <1>u DEF FailuresTyped
<1>1. CASE Elsewhere \/ UNCHANGED vars
  BY <1>u, <1>1 DEF Elsewhere, Tick, AuthenticateLapsed, UpdateUser, RevokeOrigin, rows, vars
<1>2. ASSUME NEW t \in Threads, AnyRequest(t) PROVE FailuresTyped'
  <2>1. CASE RecordAttempt(t)
    <3>1. CASE req[t].ok
      BY <1>u, <2>1, <3>1 DEF RecordAttempt
    <3>2. CASE ~req[t].ok
      <4>1. req[t].user \in Users
        BY <1>0, <2>1 DEF RecordAttempt, RequestsTyped, LoginStages
      <4>2. PICK u \in Users : failures' =
              [failures EXCEPT ![u] = failures[u] \cup {<<now, Cardinality(failures[u])>>}]
        BY <2>1, <3>2, <4>1 DEF RecordAttempt
      <4>3. IsFiniteSet(failures[u]) /\ failures[u] \in SUBSET (Nat \X Nat)
        BY <1>0 DEF FailuresTyped
      <4>4. Cardinality(failures[u]) \in Nat
        BY <4>3, FS_CardinalityType
      <4>5. /\ IsFiniteSet(failures[u] \cup {<<now, Cardinality(failures[u])>>})
            /\ failures[u] \cup {<<now, Cardinality(failures[u])>>} \in SUBSET (Nat \X Nat)
        <5>1. <<now, Cardinality(failures[u])>> \in Nat \X Nat
          BY <1>0, <4>4
        <5> DEFINE f == <<now, Cardinality(failures[u])>>
        <5> HIDE DEF f
        <5>2. IsFiniteSet(failures[u] \cup {f})
          BY <4>3, FS_AddElement
        <5> QED
          BY <4>3, <5>1, <5>2 DEF f
      <4> QED
        BY <1>0, <4>2, <4>5 DEF FailuresTyped
    <3> QED
      BY <3>1, <3>2
  <2>2. CASE EnsureBootstrap(t) \/ IssueBootstrap(t) \/ Verify(t)
             \/ ReadVersion(t) \/ Logout(t) \/ Reauthenticate(t) \/ OtherRequest(t)
    BY <1>u, <2>2 DEF EnsureBootstrap, IssueBootstrap, Verify, ReadVersion,
                      Logout, Reauthenticate, OtherRequest, rows
  <2>3. CASE \/ \E c \in Codes, u \in Users : ClaimOwner(t, c, u)
             \/ \E c \in Codes, u \in Users, o \in Origins : AcceptInvitation(t, c, u, o)
             \/ \E u \in Users, o \in Origins : Login(t, u, o)
    BY <1>u, <2>3 DEF ClaimOwner, AcceptInvitation, Join, Login, rows
  <2>4. CASE \/ \E s \in Sessions : InsertSession(t, s)
             \/ \E s \in Sessions : Authenticate(t, s)
             \/ \E s \in Sessions : RevokeSession(t, s)
             \/ \E c \in Codes, role \in Roles : CreateInvitation(t, c, role)
    BY <1>u, <2>4 DEF InsertSession, Authenticate, RevokeSession, CreateInvitation
  <2> QED
    BY <1>2, <2>1, <2>2, <2>3, <2>4 DEF AnyRequest
<1> QED
  BY <1>1, <1>2, Steps

LEMMA TypeStep ==
  ASSUME TypeOK, [Next]_vars
  PROVE  TypeOK'
BY RestStep, UsersStep, CodesStep, SessionsStep, FailuresStep, RequestStep DEF TypeOK

(* Every row and every request keeps its shape, for any number of them     *)
(* (the tables of state.py, the handlers of auth.py).                      *)
THEOREM TypeCorrect == Spec => []TypeOK
BY InitTyped, TypeStep, PTL DEF Spec

-----------------------------------------------------------------------------
(* Accounts.  Whoever is past the password exists, sessions and granted    *)
(* requests come from users, and invitations from an owner.                *)

Past(t) ==
  /\ req[t].pc \in {"version", "insert"} => Exists(req[t].user)
  /\ req[t].pc = "record" /\ req[t].ok => Exists(req[t].user)
  /\ req[t].pc = "granted" => HasUsers

Behind == \A t \in Threads : Past(t)

Owned == \A s \in Sessions : sessions[s].status # "absent" => Exists(sessions[s].user)

Invited ==
  \A c \in Codes :
    /\ codes[c].purpose = "invitation" => HasUsers
    /\ codes[c].purpose # "none" => codes[c].role \in Roles

Admitted ==
  \A u \in Users : joined[u] # None =>
    /\ Exists(u)
    /\ codes[joined[u]].consumed
    /\ codes[joined[u]].purpose # "none"

Accounts == Behind /\ Owned /\ Invited /\ Admitted /\ CodesAdmitOne /\ OwnerRemains

(* Three kinds of steps touch the users.                                   *)
LEMMA UserSteps ==
  ASSUME TypeOK, [Next]_vars
  PROVE  \/ UNCHANGED <<users, joined>>
         \/ \E u \in Users, role \in Roles, disabled \in BOOLEAN : UpdateUser(u, role, disabled)
         \/ \E t \in Threads, c \in Codes, u \in Users :
               ClaimOwner(t, c, u) \/ \E o \in Origins : AcceptInvitation(t, c, u, o)
<1>1. CASE \/ Tick \/ UNCHANGED vars
           \/ \E s \in Sessions : AuthenticateLapsed(s)
           \/ \E o \in Origins : RevokeOrigin(o)
  BY <1>1 DEF Tick, AuthenticateLapsed, RevokeOrigin, history, rows, vars
<1>2. ASSUME NEW t \in Threads,
             EnsureBootstrap(t) \/ IssueBootstrap(t) \/ Verify(t) \/ RecordAttempt(t)
             \/ ReadVersion(t) \/ Logout(t) \/ Reauthenticate(t) \/ OtherRequest(t)
      PROVE  UNCHANGED <<users, joined>>
  BY <1>2 DEF EnsureBootstrap, IssueBootstrap, Verify, RecordAttempt, ReadVersion,
              Logout, Reauthenticate, OtherRequest, history, rows
<1>3. ASSUME NEW t \in Threads,
             \/ \E u \in Users, o \in Origins : Login(t, u, o)
             \/ \E s \in Sessions : InsertSession(t, s)
             \/ \E s \in Sessions : Authenticate(t, s)
             \/ \E s \in Sessions : RevokeSession(t, s)
             \/ \E c \in Codes, role \in Roles : CreateInvitation(t, c, role)
      PROVE  UNCHANGED <<users, joined>>
  BY <1>3 DEF Login, InsertSession, Authenticate, RevokeSession, CreateInvitation, history, rows
<1>4. ASSUME NEW t \in Threads, AnyRequest(t)
      PROVE  \/ UNCHANGED <<users, joined>>
             \/ \E c \in Codes, u \in Users :
                  ClaimOwner(t, c, u) \/ \E o \in Origins : AcceptInvitation(t, c, u, o)
  BY <1>2, <1>3, <1>4 DEF AnyRequest
<1> QED
  BY <1>1, <1>4, Steps DEF Elsewhere

(* Nobody's row is deleted.                                                *)
LEMMA UsersStay ==
  ASSUME TypeOK, Invited, [Next]_vars
  PROVE  (\A u \in Users : Exists(u) => Exists(u)') /\ (HasUsers => HasUsers')
<1>0. users \in [Users -> UserRow] /\ \A role \in Roles : role # "none"
  BY DEF TypeOK, UsersTyped, Roles
<1>1. \A u \in Users : Exists(u) => Exists(u)'
  <2>1. ASSUME NEW u \in Users, NEW role \in Roles, NEW disabled \in BOOLEAN,
               UpdateUser(u, role, disabled), NEW v \in Users, Exists(v)
        PROVE  Exists(v)'
    BY <1>0, <2>1 DEF UpdateUser, Exists
  <2>2. ASSUME NEW t \in Threads, NEW c \in Codes, NEW u \in Users, NEW v \in Users, Exists(v),
               ClaimOwner(t, c, u) \/ \E o \in Origins : AcceptInvitation(t, c, u, o)
        PROVE  Exists(v)'
    <3>1. ~Exists(u) /\ \E row \in UserRow : users' = [users EXCEPT ![u] = row]
      <4>1. codes[c].role \in Roles \cup {"none"}
        BY DEF TypeOK, CodesTyped, CodeRow
      <4> QED
        BY <2>2, <4>1 DEF ClaimOwner, AcceptInvitation, Join, UserRow, Roles
    <3> QED
      BY <1>0, <2>2, <3>1 DEF Exists
  <2> QED
    BY <2>1, <2>2, UserSteps DEF Exists
<1> QED
  BY <1>1 DEF HasUsers

LEMMA BehindStep ==
  ASSUME TypeOK, Accounts, [Next]_vars
  PROVE  Behind'
<1>0. /\ req \in [Threads -> Request]
      /\ \A t \in Threads :
           /\ req[t].pc \in LoginStages => req[t].user \in Users
           /\ req[t].pc = "granted" => req[t].session \in Sessions
      /\ users \in [Users -> UserRow]
      /\ \A s \in Sessions : sessions[s].status # "absent" => sessions[s].user \in Users
  BY DEF TypeOK, RequestsTyped, UsersTyped, SessionsTyped
<1>e. (\A u \in Users : Exists(u) => users'[u].role # "none") /\ (HasUsers => HasUsers')
  BY UsersStay DEF Accounts, Exists
<1>b. Behind /\ Owned
  BY DEF Accounts
<1>s. ASSUME NEW t \in Threads, req'[t] = req[t] PROVE Past(t)'
  <2>1. Past(t)
    BY <1>b DEF Behind
  <2>2. req[t].pc \in LoginStages => (Exists(req[t].user) => users'[req[t].user].role # "none")
    BY <1>0, <1>e DEF Exists
  <2> QED
    BY <1>e, <1>s, <2>1, <2>2 DEF Past, Exists, LoginStages
<1>o. ASSUME NEW t \in Threads, NEW r, req' = [req EXCEPT ![t] = r],
             r.pc \in {"version", "insert"} => users'[r.user].role # "none",
             r.pc = "record" /\ r.ok => users'[r.user].role # "none",
             r.pc = "granted" => HasUsers'
      PROVE  Behind'
  <2>1. ASSUME NEW u \in Threads PROVE Past(u)'
    <3>1. CASE u = t
      <4>1. req'[u] = r
        BY <1>0, <1>o, <3>1
      <4> QED
        BY <1>o, <4>1 DEF Past, Exists
    <3>2. CASE u # t
      BY <1>0, <1>o, <1>s, <3>2
    <3> QED
      BY <3>1, <3>2
  <2> QED
    BY <2>1 DEF Behind
<1>1. CASE Elsewhere \/ UNCHANGED vars
  <2>1. req' = req
    BY <1>1 DEF Elsewhere, Tick, AuthenticateLapsed, UpdateUser, RevokeOrigin, vars
  <2> QED
    BY <1>s, <2>1 DEF Behind
<1>2. ASSUME NEW t \in Threads, NEW r, req' = [req EXCEPT ![t] = r],
             r.pc \in {"idle", "verify", "bootstrap"}
      PROVE  Behind'
  BY <1>o, <1>2
<1>3. ASSUME NEW t \in Threads, AnyRequest(t) PROVE Behind'
  <2>1. CASE EnsureBootstrap(t)
    BY <1>0, <1>2, <2>1 DEF EnsureBootstrap, Goto, Request
  <2>2. CASE \/ IssueBootstrap(t) \/ Logout(t) \/ Reauthenticate(t) \/ OtherRequest(t)
             \/ \E s \in Sessions : InsertSession(t, s)
             \/ \E s \in Sessions : RevokeSession(t, s)
             \/ \E c \in Codes, role \in Roles : CreateInvitation(t, c, role)
    <3>1. Finish(t)
      BY <2>2 DEF IssueBootstrap, Logout, Reauthenticate, OtherRequest, InsertSession,
                  RevokeSession, CreateInvitation
    <3> QED
      BY <1>2, <3>1 DEF Finish, Idle
  <2>3. ASSUME NEW c \in Codes, NEW u \in Users,
               ClaimOwner(t, c, u) \/ \E o \in Origins : AcceptInvitation(t, c, u, o)
        PROVE  Behind'
    <3>1. PICK origin \in Origins, role \in Roles :
            /\ req' = [req EXCEPT ![t] = [Idle EXCEPT !.pc = "version", !.user = u,
                                                      !.origin = origin]]
            /\ users' = [users EXCEPT ![u] = [role |-> role, disabled |-> FALSE, version |-> 1]]
      <4>1. CASE ClaimOwner(t, c, u)
        BY <4>1, Seconds DEF ClaimOwner, Join, Roles
      <4>2. CASE \E o \in Origins : AcceptInvitation(t, c, u, o)
        <5>1. codes[c].role \in Roles
          BY <4>2 DEF AcceptInvitation, Valid, Accounts, Invited
        <5> QED
          BY <4>2, <5>1 DEF AcceptInvitation, Join
      <4> QED
        BY <2>3, <4>1, <4>2
    <3>2. users'[u].role # "none"
      BY <1>0, <3>1 DEF Roles
    <3> DEFINE r == [Idle EXCEPT !.pc = "version", !.user = u, !.origin = origin]
    <3>3. r.pc = "version" /\ r.user = u
      BY DEF Idle
    <3> HIDE DEF r
    <3> QED
      BY <1>o, <3>1, <3>2, <3>3 DEF r
  <2>4. CASE \E u \in Users, o \in Origins : Login(t, u, o)
    BY <1>2, <2>4 DEF Login, Idle
  <2>5. CASE Verify(t)
    <3>1. PICK right \in BOOLEAN :
            req' = [req EXCEPT ![t].pc = "record",
                               ![t].ok = right /\ Exists(req[t].user)
                                               /\ ~users[req[t].user].disabled]
      BY <2>5 DEF Verify
    <3> DEFINE ok == right /\ Exists(req[t].user) /\ ~users[req[t].user].disabled
               r  == [req[t] EXCEPT !.pc = "record", !.ok = ok]
    <3>2. req' = [req EXCEPT ![t] = r]
      BY <1>0, <3>1
    <3>3. r.pc = "record" /\ r.user = req[t].user /\ r.ok = ok
      BY <1>0 DEF Request
    <3>4. req[t].user \in Users
      BY <1>0, <2>5 DEF Verify, LoginStages
    <3>5. ok => users'[req[t].user].role # "none"
      BY <1>e, <3>4
    <3> HIDE DEF r, ok
    <3> QED
      BY <1>o, <3>2, <3>3, <3>4, <3>5
  <2>6. CASE RecordAttempt(t)
    <3>1. CASE ~req[t].ok
      BY <1>2, <2>6, <3>1 DEF RecordAttempt, Finish, Idle
    <3>2. CASE req[t].ok
      <4>1. req' = [req EXCEPT ![t] = [req[t] EXCEPT !.pc = "version"]]
        BY <1>0, <2>6, <3>2 DEF RecordAttempt, Goto
      <4>2. req[t].user \in Users /\ Exists(req[t].user)
        BY <1>0, <1>b, <2>6, <3>2 DEF RecordAttempt, LoginStages, Behind, Past
      <4> DEFINE r == [req[t] EXCEPT !.pc = "version"]
      <4>3. r.pc = "version" /\ r.user = req[t].user
        BY <1>0 DEF Request
      <4> HIDE DEF r
      <4> QED
        BY <1>e, <1>o, <4>1, <4>2, <4>3 DEF r
    <3> QED
      BY <3>1, <3>2
  <2>7. CASE ReadVersion(t)
    <3> DEFINE r == [req[t] EXCEPT !.pc = "insert", !.version = users[req[t].user].version]
    <3>1. req' = [req EXCEPT ![t] = r]
      BY <1>0, <2>7 DEF ReadVersion
    <3>2. req[t].user \in Users /\ Exists(req[t].user)
      BY <1>0, <1>b, <2>7 DEF ReadVersion, LoginStages, Behind, Past
    <3>3. r.pc = "insert" /\ r.user = req[t].user
      BY <1>0 DEF Request
    <3> HIDE DEF r
    <3> QED
      BY <1>e, <1>o, <3>1, <3>2, <3>3
  <2>8. ASSUME NEW s \in Sessions, Authenticate(t, s) PROVE Behind'
    <3>1. HasUsers'
      BY <1>0, <1>b, <1>e, <2>8 DEF Authenticate, Open, Owned, HasUsers
    <3> DEFINE r == [Idle EXCEPT !.pc = "granted", !.session = s,
                                 !.role = users[sessions[s].user].role]
    <3>2. req' = [req EXCEPT ![t] = r]
      BY <2>8 DEF Authenticate
    <3>3. r.pc = "granted"
      BY DEF Idle
    <3> HIDE DEF r
    <3> QED
      BY <1>o, <3>1, <3>2, <3>3
  <2> QED
    BY <1>3, <2>1, <2>2, <2>3, <2>4, <2>5, <2>6, <2>7, <2>8 DEF AnyRequest
<1> QED
  BY <1>1, <1>3, Steps

LEMMA OwnedStep ==
  ASSUME TypeOK, Accounts, [Next]_vars
  PROVE  Owned'
<1>0. /\ sessions \in [Sessions -> SessionRow]
      /\ \A s \in Sessions : sessions[s].status # "absent" => sessions[s].user \in Users
      /\ req \in [Threads -> Request]
      /\ \A t \in Threads : req[t].pc \in LoginStages => req[t].user \in Users
  BY DEF TypeOK, SessionsTyped, RequestsTyped
<1>e. \A u \in Users : Exists(u) => users'[u].role # "none"
  BY UsersStay DEF Accounts, Exists
<1>b. \A s \in Sessions :
        sessions[s].status # "absent" => users'[sessions[s].user].role # "none"
  BY <1>0, <1>e DEF Accounts, Owned
<1>u. ASSUME \A s \in Sessions :
               /\ sessions'[s].status # "absent" => sessions[s].status # "absent"
               /\ sessions'[s].user = sessions[s].user
      PROVE  Owned'
  BY <1>b, <1>u DEF Owned, Exists
<1>r. ASSUME NEW S, sessions' = Revoked(S) PROVE Owned'
  <2>1. \A s \in Sessions : \/ sessions'[s] = sessions[s]
                            \/ /\ sessions[s].status = "active"
                               /\ sessions'[s] = [sessions[s] EXCEPT !.status = "revoked"]
    BY <1>r DEF Revoked
  <2>2. \A s \in Sessions : [sessions[s] EXCEPT !.status = "revoked"].user = sessions[s].user
    BY <1>0 DEF SessionRow
  <2> QED
    BY <1>u, <2>1, <2>2
<1>1. CASE Elsewhere \/ UNCHANGED vars
  <2>1. sessions' = sessions \/ \E S : sessions' = Revoked(S)
    BY <1>1 DEF Elsewhere, Tick, AuthenticateLapsed, UpdateUser, RevokeOrigin, rows, vars
  <2> QED
    BY <1>r, <1>u, <2>1
<1>2. ASSUME NEW t \in Threads, AnyRequest(t) PROVE Owned'
  <2>1. CASE Logout(t) \/ \E s \in Sessions : RevokeSession(t, s)
    BY <1>r, <2>1 DEF Logout, RevokeSession
  <2>2. ASSUME NEW s \in Sessions, InsertSession(t, s) PROVE Owned'
    <3>1. req[t].user \in Users /\ users'[req[t].user].role # "none"
      BY <1>0, <1>e, <2>2 DEF InsertSession, LoginStages, Accounts, Behind, Past
    <3>2. /\ sessions'[s].user = req[t].user
          /\ \A r \in Sessions : r # s => sessions'[r] = sessions[r]
      BY <1>0, <2>2 DEF InsertSession
    <3> QED
      BY <1>b, <3>1, <3>2 DEF Owned, Exists
  <2>3. ASSUME NEW s \in Sessions, Authenticate(t, s) PROVE Owned'
    <3>1. /\ Touched(sessions[s]).user = sessions[s].user
          /\ Touched(sessions[s]).status = sessions[s].status
      BY <1>0 DEF Touched, SessionRow
    <3>2. sessions' = [sessions EXCEPT ![s] = Touched(sessions[s])]
      BY <2>3 DEF Authenticate
    <3> QED
      BY <1>0, <1>u, <3>1, <3>2
  <2>4. CASE Reauthenticate(t)
    BY <1>0, <1>u, <2>4 DEF Reauthenticate, SessionRow
  <2>5. CASE EnsureBootstrap(t) \/ IssueBootstrap(t) \/ Verify(t) \/ RecordAttempt(t)
             \/ ReadVersion(t) \/ OtherRequest(t)
    BY <1>u, <2>5 DEF EnsureBootstrap, IssueBootstrap, Verify, RecordAttempt, ReadVersion,
                      OtherRequest, rows
  <2>6. CASE \/ \E c \in Codes, u \in Users : ClaimOwner(t, c, u)
             \/ \E c \in Codes, u \in Users, o \in Origins : AcceptInvitation(t, c, u, o)
             \/ \E u \in Users, o \in Origins : Login(t, u, o)
             \/ \E c \in Codes, role \in Roles : CreateInvitation(t, c, role)
    BY <1>u, <2>6 DEF ClaimOwner, AcceptInvitation, Join, Login, CreateInvitation, rows
  <2> QED
    BY <1>2, <2>1, <2>2, <2>3, <2>4, <2>5, <2>6 DEF AnyRequest
<1> QED
  BY <1>1, <1>2, Steps

(* A step issues a code, uses one up for somebody who joins, or leaves     *)
(* the codes alone.                                                        *)
LEMMA CodeSteps ==
  ASSUME TypeOK, [Next]_vars
  PROVE  \/ UNCHANGED codes
         \/ /\ UNCHANGED <<users, joined>>
            /\ \E c \in Codes, purpose \in {"bootstrap", "invitation"}, role \in Roles,
                  seconds \in Nat :
                  /\ Issue(c, purpose, role, seconds)
                  /\ purpose = "invitation" => \E t \in Threads : req[t].pc = "granted"
         \/ \E t \in Threads, c \in Codes, u \in Users :
               ClaimOwner(t, c, u) \/ \E o \in Origins : AcceptInvitation(t, c, u, o)
<1>1. CASE Elsewhere \/ UNCHANGED vars
  BY <1>1 DEF Elsewhere, Tick, AuthenticateLapsed, UpdateUser, RevokeOrigin, rows, vars
<1>2. ASSUME NEW t \in Threads, IssueBootstrap(t), ~UNCHANGED codes
      PROVE  /\ UNCHANGED <<users, joined>>
             /\ \E c \in Codes : Issue(c, "bootstrap", "owner", BootstrapSeconds)
  BY <1>2, Bounds DEF IssueBootstrap, history
<1>3. ASSUME NEW t \in Threads, NEW c \in Codes, NEW role \in Roles,
             CreateInvitation(t, c, role)
      PROVE  /\ UNCHANGED <<users, joined>>
             /\ Issue(c, "invitation", role, InvitationSeconds)
             /\ req[t].pc = "granted"
  BY <1>3 DEF CreateInvitation, history
<1>4. ASSUME NEW t \in Threads,
             \/ EnsureBootstrap(t) \/ Verify(t) \/ RecordAttempt(t)
                \/ ReadVersion(t) \/ Logout(t) \/ Reauthenticate(t) \/ OtherRequest(t)
             \/ \E u \in Users, o \in Origins : Login(t, u, o)
             \/ \E s \in Sessions : InsertSession(t, s)
             \/ \E s \in Sessions : Authenticate(t, s)
             \/ \E s \in Sessions : RevokeSession(t, s)
      PROVE  UNCHANGED codes
  BY <1>4 DEF EnsureBootstrap, Verify, RecordAttempt, ReadVersion, Logout, Reauthenticate,
              OtherRequest, Login, InsertSession, Authenticate, RevokeSession, rows
<1>5. /\ "owner" \in Roles /\ BootstrapSeconds \in Nat /\ InvitationSeconds \in Nat
  BY Seconds DEF Roles
<1>6. ASSUME NEW t \in Threads, AnyRequest(t), ~UNCHANGED codes
      PROVE  \/ \E c \in Codes, role \in Roles : CreateInvitation(t, c, role)
             \/ IssueBootstrap(t)
             \/ \E c \in Codes, u \in Users :
                  ClaimOwner(t, c, u) \/ \E o \in Origins : AcceptInvitation(t, c, u, o)
  BY <1>4, <1>6 DEF AnyRequest
<1> QED
  BY <1>1, <1>2, <1>3, <1>5, <1>6, Steps

(* Codes, and who came in with them.                                       *)
LEMMA CodesSoundStep ==
  ASSUME TypeOK, Accounts, [Next]_vars
  PROVE  Invited' /\ Admitted' /\ CodesAdmitOne'
<1>0. /\ codes \in [Codes -> CodeRow] /\ joined \in [Users -> Codes \cup {None}]
      /\ users \in [Users -> UserRow] /\ None \notin Codes
  BY Seconds DEF TypeOK, CodesTyped, UsersTyped
<1>a. Invited /\ Admitted /\ CodesAdmitOne /\ Behind
  BY DEF Accounts
<1>e. (\A u \in Users : Exists(u) => users'[u].role # "none") /\ (HasUsers => HasUsers')
  BY <1>a, UsersStay DEF Exists
<1>1. ASSUME UNCHANGED codes, UNCHANGED joined PROVE Invited' /\ Admitted' /\ CodesAdmitOne'
  BY <1>0, <1>1, <1>a, <1>e DEF Invited, Admitted, CodesAdmitOne, Exists
<1>2. ASSUME NEW c \in Codes, NEW purpose \in {"bootstrap", "invitation"}, NEW role \in Roles,
             NEW seconds \in Nat, Issue(c, purpose, role, seconds),
             purpose = "invitation" => HasUsers, UNCHANGED <<users, joined>>
      PROVE  Invited' /\ Admitted' /\ CodesAdmitOne'
  <2>1. /\ codes[c].purpose = "none"
        /\ codes'[c].purpose = purpose /\ codes'[c].role = role
        /\ \A d \in Codes : d # c => codes'[d] = codes[d]
    BY <1>0, <1>2 DEF Issue
  <2>2. Invited'
    BY <1>2, <1>a, <1>e, <2>1 DEF Invited
  <2>3. \A u \in Users : joined[u] # None => joined[u] \in Codes /\ joined[u] # c
    BY <1>0, <1>a, <2>1 DEF Admitted
  <2>4. Admitted'
    BY <1>2, <1>a, <1>e, <2>1, <2>3 DEF Admitted, Exists
  <2>5. CodesAdmitOne'
    BY <1>2, <1>a, <2>1, <2>3 DEF CodesAdmitOne
  <2> QED
    BY <2>2, <2>4, <2>5
<1>3. ASSUME NEW t \in Threads, NEW c \in Codes, NEW u \in Users,
             ClaimOwner(t, c, u) \/ \E o \in Origins : AcceptInvitation(t, c, u, o)
      PROVE  Invited' /\ Admitted' /\ CodesAdmitOne'
  <2>1. /\ ~codes[c].consumed /\ codes[c].purpose \in {"bootstrap", "invitation"}
        /\ codes' = [codes EXCEPT ![c].consumed = TRUE]
        /\ joined' = [joined EXCEPT ![u] = c]
        /\ codes[c].purpose = "bootstrap" => ~HasUsers
        /\ \E role \in Roles : users' = [users EXCEPT ![u] =
              [role |-> role, disabled |-> FALSE, version |-> 1]]
    <3>1. codes[c].purpose # "none" => codes[c].role \in Roles
      BY <1>a DEF Invited
    <3> QED
      BY <1>3, <3>1 DEF ClaimOwner, AcceptInvitation, Join, Consume, Valid, Roles
  <2>2. /\ codes'[c].consumed
        /\ \A d \in Codes : codes'[d].purpose = codes[d].purpose /\ codes'[d].role = codes[d].role
        /\ \A d \in Codes : d # c => codes'[d] = codes[d]
    BY <1>0, <2>1 DEF CodeRow
  <2>3. Exists(u)' /\ HasUsers'
    <3>1. users'[u].role # "none"
      BY <1>0, <2>1 DEF Roles
    <3> QED
      BY <3>1 DEF Exists, HasUsers
  <2>4. Invited'
    BY <1>a, <2>2, <2>3 DEF Invited
  <2>5. \A v \in Users : v # u /\ joined[v] # None =>
          /\ joined'[v] = joined[v] /\ joined[v] \in Codes /\ joined[v] # c
          /\ Exists(v)
    BY <1>0, <1>a, <2>1 DEF Admitted
  <2>6. Admitted'
    <3>1. ASSUME NEW v \in Users, joined'[v] # None
          PROVE  /\ users'[v].role # "none"
                 /\ codes'[joined'[v]].consumed
                 /\ codes'[joined'[v]].purpose # "none"
      <4>1. CASE v = u
        <5>1. joined'[v] = c
          BY <1>0, <2>1, <4>1
        <5> QED
          BY <2>1, <2>2, <2>3, <4>1, <5>1 DEF Exists
      <4>2. CASE v # u
        <5>1. joined[v] # None /\ joined'[v] = joined[v]
          BY <1>0, <2>1, <3>1, <4>2
        <5> QED
          BY <1>a, <1>e, <2>2, <2>5, <4>2, <5>1 DEF Admitted
      <4> QED
        BY <4>1, <4>2
    <3> QED
      BY <3>1 DEF Admitted, Exists
  <2>7. \A v \in Users : v # u /\ joined[v] # None => codes[c].purpose # "bootstrap"
    BY <2>1, <2>5 DEF HasUsers
  <2>8. CodesAdmitOne'
    <3> SUFFICES ASSUME NEW v \in Users, NEW w \in Users,
                        joined'[v] # None, joined'[w] # None,
                        \/ joined'[v] = joined'[w]
                        \/ codes'[joined'[v]].purpose = "bootstrap"
                           /\ codes'[joined'[w]].purpose = "bootstrap"
                 PROVE  v = w
      BY DEF CodesAdmitOne
    <3>1. joined'[u] = c /\ \A x \in Users : x # u => joined'[x] = joined[x]
      BY <1>0, <2>1
    <3>2. CASE v # u /\ w # u
      <4>1. /\ joined[v] # None /\ joined[w] # None
            /\ joined'[v] = joined[v] /\ joined'[w] = joined[w]
            /\ joined[v] \in Codes /\ joined[w] \in Codes
        BY <2>5, <3>1, <3>2
      <4> QED
        BY <1>a, <2>2, <4>1 DEF CodesAdmitOne
    <3>3. CASE v = u /\ w # u
      <4>1. joined[w] # None /\ joined'[w] = joined[w] /\ joined'[v] = c
        BY <3>1, <3>3
      <4> QED
        BY <2>2, <2>5, <2>7, <3>3, <4>1
    <3>4. CASE v # u /\ w = u
      <4>1. joined[v] # None /\ joined'[v] = joined[v] /\ joined'[w] = c
        BY <3>1, <3>4
      <4> QED
        BY <2>2, <2>5, <2>7, <3>4, <4>1
    <3> QED
      BY <3>2, <3>3, <3>4
  <2> QED
    BY <2>4, <2>6, <2>8
<1>4. ASSUME NEW u \in Users, NEW role \in Roles, NEW disabled \in BOOLEAN,
             UpdateUser(u, role, disabled)
      PROVE  UNCHANGED <<codes, joined>>
  BY <1>4 DEF UpdateUser
<1>5. ASSUME NEW t \in Threads, req[t].pc = "granted" PROVE HasUsers
  BY <1>5, <1>a DEF Behind, Past
<1> QED
  BY <1>1, <1>2, <1>3, <1>4, <1>5, CodeSteps, UserSteps

(* The last owner.                                                         *)
LEMMA OwnerStep ==
  ASSUME TypeOK, Accounts, [Next]_vars
  PROVE  OwnerRemains'
<1>0. users \in [Users -> UserRow]
  BY DEF TypeOK, UsersTyped
<1>a. OwnerRemains /\ Invited
  BY DEF Accounts
<1>1. ASSUME UNCHANGED users PROVE OwnerRemains'
  BY <1>1, <1>a DEF OwnerRemains, HasUsers, Exists, EnabledOwner
<1>2. ASSUME NEW u \in Users, NEW role \in Roles, NEW disabled \in BOOLEAN,
             UpdateUser(u, role, disabled)
      PROVE  OwnerRemains'
  <2>1. /\ HasUsers /\ ~LastOwner(u, role, disabled)
        /\ users' = [users EXCEPT ![u] = [role |-> role, disabled |-> disabled,
                                          version |-> users[u].version + 1]]
    BY <1>2 DEF UpdateUser, HasUsers
  <2>2. PICK v \in Users : EnabledOwner(v)
    BY <1>a, <2>1 DEF OwnerRemains
  <2>3. CASE role = "owner" /\ ~disabled
    <3>1. EnabledOwner(u)'
      BY <1>0, <2>1, <2>3 DEF EnabledOwner
    <3> QED
      BY <3>1 DEF OwnerRemains
  <2>4. CASE ~(role = "owner" /\ ~disabled)
    <3>1. PICK w \in Users : w # u /\ EnabledOwner(w)
      <4>1. CASE v = u
        BY <2>1, <2>2, <2>4, <4>1 DEF LastOwner, EnabledOwner
      <4> QED
        BY <2>2, <4>1
    <3>2. EnabledOwner(w)'
      BY <1>0, <2>1, <3>1 DEF EnabledOwner
    <3> QED
      BY <3>2 DEF OwnerRemains
  <2> QED
    BY <2>3, <2>4
<1>3. ASSUME NEW t \in Threads, NEW c \in Codes, NEW u \in Users, ClaimOwner(t, c, u)
      PROVE  OwnerRemains'
  <2>1. EnabledOwner(u)'
    BY <1>0, <1>3 DEF ClaimOwner, Join, EnabledOwner
  <2> QED
    BY <2>1 DEF OwnerRemains
<1>4. ASSUME NEW t \in Threads, NEW c \in Codes, NEW u \in Users, NEW o \in Origins,
             AcceptInvitation(t, c, u, o)
      PROVE  OwnerRemains'
  <2>1. HasUsers /\ ~Exists(u)
    BY <1>4, <1>a DEF AcceptInvitation, Join, Valid, Invited
  <2>2. PICK v \in Users : EnabledOwner(v)
    BY <1>a, <2>1 DEF OwnerRemains
  <2>3. v # u
    BY <2>1, <2>2 DEF EnabledOwner, Exists
  <2>4. EnabledOwner(v)'
    BY <1>0, <1>4, <2>2, <2>3 DEF AcceptInvitation, Join, EnabledOwner
  <2> QED
    BY <2>4 DEF OwnerRemains
<1> QED
  BY <1>1, <1>2, <1>3, <1>4, UserSteps

LEMMA AccountsAlways == Spec => [](TypeOK /\ Accounts)
<1>1. Init => Accounts
  <2> SUFFICES ASSUME Init PROVE Accounts
    OBVIOUS
  <2>1. Behind
    BY DEF Init, Behind, Past, Idle
  <2>2. Owned /\ Invited
    BY DEF Init, Owned, Invited, NoRow, NoCode
  <2>3. Admitted /\ CodesAdmitOne /\ OwnerRemains
    BY DEF Init, Admitted, CodesAdmitOne, OwnerRemains, HasUsers, Exists, NoUser
  <2> QED
    BY <2>1, <2>2, <2>3 DEF Accounts
<1>2. TypeOK /\ Accounts /\ [Next]_vars => Accounts'
  BY BehindStep, OwnedStep, CodesSoundStep, OwnerStep DEF Accounts
<1> QED
  BY <1>1, <1>2, InitTyped, TypeStep, PTL DEF Spec

(* Whoever demotes or disables whom, and however many requests do so at    *)
(* once, an enabled owner remains (update_user).                           *)
THEOREM OwnerStays == Spec => []OwnerRemains
<1>1. Accounts => OwnerRemains
  BY DEF Accounts
<1> QED
  BY <1>1, AccountsAlways, PTL

(* Every code admits one user, and one user only comes in with a bootstrap *)
(* code, however many of them were issued (claim_owner, _consume_activation). *)
THEOREM OneForACode == Spec => []CodesAdmitOne
<1>1. Accounts => CodesAdmitOne
  BY DEF Accounts
<1> QED
  BY <1>1, AccountsAlways, PTL

-----------------------------------------------------------------------------
(* What a step does to the requests.                                       *)

Begins(t, u, o) ==
  /\ req'[t].pc \in {"verify", "version"}
  /\ req'[t].user = u /\ req'[t].origin = o
  /\ req'[t].pc = "verify" => ~RateLimited(u)
  /\ shut' = [shut EXCEPT ![o] = FALSE]
  /\ UNCHANGED <<sessions, lastUse, prior>>

MovesOn(t) ==
  /\ req'[t].user = req[t].user /\ req'[t].origin = req[t].origin
  /\ \/ req[t].pc = "verify" /\ req'[t].pc = "record"
     \/ req[t].pc = "record" /\ req'[t].pc = "version"
     \/ /\ req[t].pc = "version" /\ req'[t].pc = "insert"
        /\ req'[t].version = users[req[t].user].version
  /\ UNCHANGED <<rows, history>>

(* Joining and logging in both begin what ends in a session.               *)
LEMMA LoginBegins ==
  ASSUME TypeOK, NEW t \in Threads,
         \/ \E c \in Codes, u \in Users : ClaimOwner(t, c, u)
         \/ \E c \in Codes, u \in Users, o \in Origins : AcceptInvitation(t, c, u, o)
         \/ \E u \in Users, o \in Origins : Login(t, u, o)
  PROVE  /\ \E u \in Users, o \in Origins : Begins(t, u, o)
         /\ \A v \in Threads : v # t => req'[v] = req[v]
<1>0. req \in [Threads -> Request]
  BY DEF TypeOK, RequestsTyped
<1>1. ASSUME NEW u \in Users, NEW o \in Origins, NEW pc \in {"verify", "version"},
             req' = [req EXCEPT ![t] = [Idle EXCEPT !.pc = pc, !.user = u, !.origin = o]],
             pc = "verify" => ~RateLimited(u),
             shut' = [shut EXCEPT ![o] = FALSE], UNCHANGED <<sessions, lastUse, prior>>
      PROVE  Begins(t, u, o) /\ \A v \in Threads : v # t => req'[v] = req[v]
  BY <1>0, <1>1 DEF Begins, Idle
<1>2. \E u \in Users, o \in Origins, pc \in {"verify", "version"} :
        /\ req' = [req EXCEPT ![t] = [Idle EXCEPT !.pc = pc, !.user = u, !.origin = o]]
        /\ pc = "verify" => ~RateLimited(u)
        /\ shut' = [shut EXCEPT ![o] = FALSE] /\ UNCHANGED <<sessions, lastUse, prior>>
  <2>1. CASE \E u \in Users, o \in Origins : Login(t, u, o)
    BY <2>1 DEF Login, rows
  <2>2. CASE \E c \in Codes, u \in Users : ClaimOwner(t, c, u)
    BY <2>2, Seconds DEF ClaimOwner, Join
  <2>3. CASE \E c \in Codes, u \in Users, o \in Origins : AcceptInvitation(t, c, u, o)
    BY <2>3 DEF AcceptInvitation, Join
  <2> QED
    BY <2>1, <2>2, <2>3
<1> QED
  BY <1>1, <1>2

LEMMA RequestSteps ==
  ASSUME TypeOK, [Next]_vars
  PROVE  \/ UNCHANGED req
         \/ \E t \in Threads :
              /\ \A v \in Threads : v # t => req'[v] = req[v]
              /\ \/ req'[t].pc \in {"idle", "bootstrap"}
                 \/ \E u \in Users, o \in Origins : Begins(t, u, o)
                 \/ MovesOn(t)
                 \/ \E s \in Sessions : Authenticate(t, s)
<1>0. req \in [Threads -> Request]
  BY DEF TypeOK, RequestsTyped
<1>1. CASE Elsewhere \/ UNCHANGED vars
  BY <1>1 DEF Elsewhere, Tick, AuthenticateLapsed, UpdateUser, RevokeOrigin, vars
<1>2. ASSUME NEW t \in Threads, AnyRequest(t)
      PROVE  /\ \A v \in Threads : v # t => req'[v] = req[v]
             /\ \/ req'[t].pc \in {"idle", "bootstrap"}
                \/ \E u \in Users, o \in Origins : Begins(t, u, o)
                \/ MovesOn(t)
                \/ \E s \in Sessions : Authenticate(t, s)
  <2>1. CASE EnsureBootstrap(t)
    BY <1>0, <2>1 DEF EnsureBootstrap, Goto, Request
  <2>2. CASE \/ IssueBootstrap(t) \/ Logout(t) \/ Reauthenticate(t) \/ OtherRequest(t)
             \/ \E s \in Sessions : InsertSession(t, s)
             \/ \E s \in Sessions : RevokeSession(t, s)
             \/ \E c \in Codes, role \in Roles : CreateInvitation(t, c, role)
    <3>1. Finish(t)
      BY <2>2 DEF IssueBootstrap, Logout, Reauthenticate, OtherRequest, InsertSession,
                  RevokeSession, CreateInvitation
    <3> QED
      BY <1>0, <3>1 DEF Finish, Idle
  <2>3. CASE \/ \E c \in Codes, u \in Users : ClaimOwner(t, c, u)
             \/ \E c \in Codes, u \in Users, o \in Origins : AcceptInvitation(t, c, u, o)
             \/ \E u \in Users, o \in Origins : Login(t, u, o)
    BY <2>3, LoginBegins
  <2>4. CASE Verify(t)
    <3>1. PICK ok : req' = [req EXCEPT ![t] = [req[t] EXCEPT !.pc = "record", !.ok = ok]]
      BY <1>0, <2>4 DEF Verify
    <3> QED
      BY <1>0, <2>4, <3>1 DEF Verify, MovesOn, Request
  <2>5. CASE RecordAttempt(t)
    <3>1. CASE ~req[t].ok
      BY <1>0, <2>5, <3>1 DEF RecordAttempt, Finish, Idle
    <3>2. CASE req[t].ok
      BY <1>0, <2>5, <3>2 DEF RecordAttempt, Goto, MovesOn, Request, rows
    <3> QED
      BY <3>1, <3>2
  <2>6. CASE ReadVersion(t)
    BY <1>0, <2>6 DEF ReadVersion, MovesOn, Request
  <2>7. CASE \E s \in Sessions : Authenticate(t, s)
    <3>1. PICK r : req' = [req EXCEPT ![t] = r]
      BY <2>7 DEF Authenticate
    <3> QED
      BY <1>0, <2>7, <3>1
  <2> QED
    BY <1>2, <2>1, <2>2, <2>3, <2>4, <2>5, <2>6, <2>7 DEF AnyRequest
<1> QED
  BY <1>1, <1>2, Steps

(* What a step does to the sessions.                                       *)
LEMMA SessionSteps ==
  ASSUME TypeOK, [Next]_vars
  PROVE  \/ UNCHANGED <<sessions, lastUse>>
         \/ lastUse' = lastUse /\ \E S : sessions' = Revoked(S)
         \/ \E t \in Threads, s \in Sessions : InsertSession(t, s)
         \/ \E t \in Threads, s \in Sessions : Authenticate(t, s)
         \/ \E t \in Threads : Reauthenticate(t)
<1>1. CASE Elsewhere \/ UNCHANGED vars
  BY <1>1 DEF Elsewhere, Tick, AuthenticateLapsed, UpdateUser, RevokeOrigin, rows, history, vars
<1>2. ASSUME NEW t \in Threads,
             \/ Logout(t) \/ \E s \in Sessions : RevokeSession(t, s)
      PROVE  lastUse' = lastUse /\ \E S : sessions' = Revoked(S)
  BY <1>2 DEF Logout, RevokeSession, history
<1>3. ASSUME NEW t \in Threads,
             \/ EnsureBootstrap(t) \/ IssueBootstrap(t) \/ Verify(t) \/ RecordAttempt(t)
                \/ ReadVersion(t) \/ OtherRequest(t)
             \/ \E c \in Codes, u \in Users : ClaimOwner(t, c, u)
             \/ \E c \in Codes, u \in Users, o \in Origins : AcceptInvitation(t, c, u, o)
             \/ \E u \in Users, o \in Origins : Login(t, u, o)
             \/ \E c \in Codes, role \in Roles : CreateInvitation(t, c, role)
      PROVE  UNCHANGED <<sessions, lastUse>>
  BY <1>3 DEF EnsureBootstrap, IssueBootstrap, Verify, RecordAttempt, ReadVersion, OtherRequest,
              ClaimOwner, AcceptInvitation, Join, Login, CreateInvitation, rows, history
<1>4. ASSUME NEW t \in Threads, AnyRequest(t)
      PROVE  \/ UNCHANGED <<sessions, lastUse>>
             \/ lastUse' = lastUse /\ \E S : sessions' = Revoked(S)
             \/ \E s \in Sessions : InsertSession(t, s)
             \/ \E s \in Sessions : Authenticate(t, s)
             \/ Reauthenticate(t)
  BY <1>2, <1>3, <1>4 DEF AnyRequest
<1> QED
  BY <1>1, <1>4, Steps

(* A row that is revoked is revoked and nothing else.                      *)
LEMMA RevokedRows ==
  ASSUME TypeOK, NEW S, sessions' = Revoked(S), NEW s \in Sessions
  PROVE  /\ sessions'[s].user = sessions[s].user /\ sessions'[s].origin = sessions[s].origin
         /\ sessions'[s].version = sessions[s].version
         /\ sessions'[s].status # "absent" <=> sessions[s].status # "absent"
         /\ sessions'[s].status = "active" => sessions'[s] = sessions[s]
         /\ sessions'[s].status = "active" => s \notin S
<1>1. sessions[s] \in SessionRow
  BY DEF TypeOK, SessionsTyped
<1>2. IF s \in S /\ sessions[s].status = "active"
      THEN sessions'[s] = [sessions[s] EXCEPT !.status = "revoked"]
      ELSE sessions'[s] = sessions[s]
  BY DEF Revoked
<1> QED
  BY <1>1, <1>2 DEF SessionRow

-----------------------------------------------------------------------------
(* The end of a session.                                                   *)

KeptAlive(s) ==
  sessions[s].status = "active" =>
    /\ sessions[s].idle >= MinOf(sessions[s].seen + IdleSeconds, sessions[s].absolute)
    /\ sessions[s].idle <= sessions[s].absolute
    /\ lastUse[s] < sessions[s].seen + CoalesceSeconds

AllKeptAlive == \A s \in Sessions : KeptAlive(s)

LEMMA AllKeptAliveStep ==
  ASSUME TypeOK, AllKeptAlive, [Next]_vars
  PROVE  AllKeptAlive'
<1>0. /\ sessions \in [Sessions -> SessionRow] /\ lastUse \in [Sessions -> Nat]
      /\ now \in Nat /\ req \in [Threads -> Request]
      /\ \A t \in Threads : req[t].pc = "granted" => req[t].session \in Sessions
  BY DEF TypeOK, SessionsTyped, RestTyped, RequestsTyped
<1>c. /\ CoalesceSeconds \in Nat \ {0} /\ IdleSeconds \in Nat /\ AbsoluteSeconds \in Nat
      /\ IdleSeconds <= AbsoluteSeconds
  BY Seconds
<1>s. ASSUME NEW s \in Sessions, sessions'[s] = sessions[s], lastUse'[s] = lastUse[s]
      PROVE  KeptAlive(s)'
  BY <1>s DEF AllKeptAlive, KeptAlive
<1>1. CASE UNCHANGED <<sessions, lastUse>>
  BY <1>1, <1>s DEF AllKeptAlive
<1>2. ASSUME NEW S, sessions' = Revoked(S), lastUse' = lastUse PROVE AllKeptAlive'
  <2>1. ASSUME NEW s \in Sessions PROVE KeptAlive(s)'
    <3>1. CASE sessions'[s].status = "active"
      BY <1>2, <1>s, <3>1, RevokedRows
    <3>2. CASE sessions'[s].status # "active"
      BY <3>2 DEF KeptAlive
    <3> QED
      BY <3>1, <3>2
  <2> QED
    BY <2>1 DEF AllKeptAlive
<1>3. ASSUME NEW t \in Threads, NEW s \in Sessions, InsertSession(t, s) PROVE AllKeptAlive'
  <2>1. /\ sessions'[s].seen = now /\ sessions'[s].idle = now + IdleSeconds
        /\ sessions'[s].absolute = now + AbsoluteSeconds /\ lastUse'[s] = now
        /\ \A r \in Sessions : r # s => sessions'[r] = sessions[r] /\ lastUse'[r] = lastUse[r]
    BY <1>0, <1>3 DEF InsertSession
  <2>2. KeptAlive(s)'
    BY <1>0, <1>c, <2>1 DEF KeptAlive, MinOf
  <2> QED
    BY <1>s, <2>1, <2>2 DEF AllKeptAlive
<1>4. ASSUME NEW t \in Threads, NEW s \in Sessions, Authenticate(t, s) PROVE AllKeptAlive'
  <2>1. /\ sessions'[s] = Touched(sessions[s]) /\ lastUse'[s] = now
        /\ \A r \in Sessions : r # s => sessions'[r] = sessions[r] /\ lastUse'[r] = lastUse[r]
    BY <1>0, <1>4 DEF Authenticate
  <2>2. KeptAlive(s) /\ sessions[s].status = "active" /\ sessions[s] \in SessionRow
    BY <1>0, <1>4 DEF AllKeptAlive, Authenticate, Open
  <2>3. CASE now - sessions[s].seen >= CoalesceSeconds
    <3>1. /\ sessions'[s].seen = now /\ sessions'[s].absolute = sessions[s].absolute
          /\ sessions'[s].idle = MinOf(now + IdleSeconds, sessions[s].absolute)
      BY <2>1, <2>2, <2>3 DEF Touched, SessionRow
    <3>2. sessions[s].absolute \in Nat
      BY <2>2 DEF SessionRow
    <3> QED
      BY <1>0, <1>c, <1>s, <2>1, <3>1, <3>2 DEF AllKeptAlive, KeptAlive, MinOf
  <2>4. CASE ~(now - sessions[s].seen >= CoalesceSeconds)
    <3>1. sessions'[s] = sessions[s] /\ now < sessions[s].seen + CoalesceSeconds
      BY <1>0, <1>c, <2>1, <2>2, <2>4 DEF Touched, SessionRow
    <3> QED
      BY <1>s, <2>1, <2>2, <3>1 DEF AllKeptAlive, KeptAlive
  <2> QED
    BY <2>3, <2>4
<1>5. ASSUME NEW t \in Threads, Reauthenticate(t) PROVE AllKeptAlive'
  <2>1. /\ lastUse' = lastUse
        /\ \A s \in Sessions :
             /\ sessions'[s].status = sessions[s].status /\ sessions'[s].seen = sessions[s].seen
             /\ sessions'[s].idle = sessions[s].idle
             /\ sessions'[s].absolute = sessions[s].absolute
    BY <1>0, <1>5 DEF Reauthenticate, SessionRow, history
  <2> QED
    BY <2>1 DEF AllKeptAlive, KeptAlive
<1> QED
  BY <1>1, <1>2, <1>3, <1>4, <1>5, SessionSteps

(* For any idle time, absolute time and coalescing interval a session in   *)
(* use stays until its absolute end, and no use moves its expiry past it.  *)
THEOREM UseKeeps == Spec => []UseKeepsAlive
<1>1. Init => AllKeptAlive
  BY DEF Init, AllKeptAlive, KeptAlive, NoRow
<1>2. TypeOK /\ AllKeptAlive => UseKeepsAlive
  <2> SUFFICES ASSUME TypeOK, AllKeptAlive, NEW s \in Sessions, sessions[s].status = "active"
               PROVE  /\ sessions[s].idle >= MinOf(lastUse[s] + IdleSeconds - CoalesceSeconds + 1,
                                                   sessions[s].absolute)
                      /\ sessions[s].idle <= sessions[s].absolute
    BY DEF UseKeepsAlive
  <2>1. sessions[s] \in SessionRow /\ lastUse[s] \in Nat /\ KeptAlive(s)
    BY DEF TypeOK, SessionsTyped, AllKeptAlive
  <2>2. /\ sessions[s].idle \in Nat /\ sessions[s].seen \in Nat /\ sessions[s].absolute \in Nat
        /\ CoalesceSeconds \in Nat /\ IdleSeconds \in Nat
    BY <2>1, Seconds DEF SessionRow
  <2> QED
    BY <2>1, <2>2 DEF KeptAlive, MinOf
<1> QED
  BY <1>1, <1>2, InitTyped, TypeStep, AllKeptAliveStep, PTL DEF Spec

-----------------------------------------------------------------------------
(* A revoked origin.                                                       *)

Closed(o) ==
  shut[o] =>
    /\ \A t \in Threads : req[t].pc \in LoginStages => req[t].origin # o
    /\ \A s \in Sessions : sessions[s].status = "active" => sessions[s].origin # o

AllClosed == \A o \in Origins : Closed(o)

LEMMA AllClosedStep ==
  ASSUME TypeOK, AllClosed, [Next]_vars
  PROVE  AllClosed'
<1>0. /\ sessions \in [Sessions -> SessionRow] /\ req \in [Threads -> Request]
      /\ shut \in [Origins -> BOOLEAN]
  BY DEF TypeOK, SessionsTyped, RestTyped, RequestsTyped
<1>a. \A s \in Sessions : sessions'[s].status = "active" =>
        \/ sessions[s].status = "active" /\ sessions'[s].origin = sessions[s].origin
        \/ \E t \in Threads : req[t].pc \in LoginStages /\ sessions'[s].origin = req[t].origin
  <2>1. ASSUME NEW S, sessions' = Revoked(S), NEW s \in Sessions, sessions'[s].status = "active"
        PROVE  sessions'[s] = sessions[s]
    BY <2>1, RevokedRows
  <2>2. ASSUME NEW t \in Threads, NEW r \in Sessions, InsertSession(t, r),
               NEW s \in Sessions
        PROVE  \/ sessions'[s] = sessions[s]
               \/ req[t].pc \in LoginStages /\ sessions'[s].origin = req[t].origin
    BY <1>0, <2>2 DEF InsertSession, LoginStages
  <2>3. ASSUME NEW t \in Threads, NEW r \in Sessions, Authenticate(t, r), NEW s \in Sessions
        PROVE  sessions'[s].status = sessions[s].status /\ sessions'[s].origin = sessions[s].origin
    <3>1. /\ Touched(sessions[r]).status = sessions[r].status
          /\ Touched(sessions[r]).origin = sessions[r].origin
      BY <1>0 DEF Touched, SessionRow
    <3>2. sessions' = [sessions EXCEPT ![r] = Touched(sessions[r])]
      BY <2>3 DEF Authenticate
    <3> QED
      BY <1>0, <3>1, <3>2
  <2>4. ASSUME NEW t \in Threads, Reauthenticate(t), NEW s \in Sessions
        PROVE  sessions'[s].status = sessions[s].status /\ sessions'[s].origin = sessions[s].origin
    BY <1>0, <2>4 DEF Reauthenticate, SessionRow
  <2> QED
    BY <2>1, <2>2, <2>3, <2>4, SessionSteps
<1>1. ASSUME NEW o \in Origins, RevokeOrigin(o) PROVE AllClosed'
  <2>1. /\ req' = req /\ shut' = [shut EXCEPT ![o] = ~LoggingIn(o)]
        /\ \A s \in Sessions : sessions'[s].status = "active" =>
             sessions'[s] = sessions[s] /\ sessions[s].origin # o
    BY <1>1, RevokedRows DEF RevokeOrigin
  <2>2. Closed(o)'
    <3>1. shut'[o] => ~LoggingIn(o)
      BY <1>0, <2>1
    <3> QED
      BY <2>1, <3>1 DEF Closed, LoggingIn, LoginStages
  <2>3. ASSUME NEW p \in Origins, p # o PROVE Closed(p)'
    <3>1. shut'[p] = shut[p]
      BY <1>0, <2>1, <2>3
    <3> QED
      BY <2>1, <3>1 DEF AllClosed, Closed
  <2> QED
    BY <2>2, <2>3 DEF AllClosed
<1>2. ASSUME UNCHANGED <<req, shut>> PROVE AllClosed'
  BY <1>2, <1>a DEF AllClosed, Closed
<1>3. ASSUME NEW t \in Threads, NEW u \in Users, NEW o \in Origins, Begins(t, u, o),
             \A v \in Threads : v # t => req'[v] = req[v]
      PROVE  AllClosed'
  <2>1. ~shut'[o] /\ \A p \in Origins : p # o => shut'[p] = shut[p]
    BY <1>0, <1>3 DEF Begins
  <2>2. req'[t].origin = o /\ sessions' = sessions
    BY <1>3 DEF Begins
  <2> QED
    BY <1>3, <2>1, <2>2 DEF AllClosed, Closed
<1>4. ASSUME NEW t \in Threads, shut' = shut,
             \A v \in Threads : v # t => req'[v] = req[v],
             req'[t].pc \in LoginStages =>
               req[t].pc \in LoginStages /\ req'[t].origin = req[t].origin
      PROVE  AllClosed'
  BY <1>4, <1>a DEF AllClosed, Closed
<1>5. \/ shut' = shut
      \/ \E o \in Origins : RevokeOrigin(o)
      \/ \E t \in Threads, u \in Users, o \in Origins :
           Begins(t, u, o) /\ \A v \in Threads : v # t => req'[v] = req[v]
  <2>1. CASE \/ Tick \/ UNCHANGED vars
             \/ \E s \in Sessions : AuthenticateLapsed(s)
             \/ \E u \in Users, role \in Roles, disabled \in BOOLEAN :
                  UpdateUser(u, role, disabled)
    BY <2>1 DEF Tick, AuthenticateLapsed, UpdateUser, history, vars
  <2>2. ASSUME NEW t \in Threads,
               \/ EnsureBootstrap(t) \/ IssueBootstrap(t) \/ Verify(t) \/ RecordAttempt(t)
                  \/ ReadVersion(t) \/ Logout(t) \/ Reauthenticate(t) \/ OtherRequest(t)
               \/ \E s \in Sessions : InsertSession(t, s)
               \/ \E s \in Sessions : Authenticate(t, s)
               \/ \E s \in Sessions : RevokeSession(t, s)
               \/ \E c \in Codes, role \in Roles : CreateInvitation(t, c, role)
        PROVE  shut' = shut
    BY <2>2 DEF EnsureBootstrap, IssueBootstrap, Verify, RecordAttempt, ReadVersion, Logout,
                Reauthenticate, OtherRequest, InsertSession, Authenticate, RevokeSession,
                CreateInvitation, history
  <2>3. ASSUME NEW t \in Threads, AnyRequest(t)
        PROVE  \/ shut' = shut
               \/ \E u \in Users, o \in Origins :
                    Begins(t, u, o) /\ \A v \in Threads : v # t => req'[v] = req[v]
    BY <2>2, <2>3, LoginBegins DEF AnyRequest
  <2> QED
    BY <2>1, <2>3, Steps DEF Elsewhere
<1>6. CASE shut' = shut
  <2>1. CASE UNCHANGED req
    BY <1>2, <1>6, <2>1
  <2>2. ASSUME NEW t \in Threads, \A v \in Threads : v # t => req'[v] = req[v],
               \/ req'[t].pc \in {"idle", "bootstrap"}
               \/ MovesOn(t) \/ \E s \in Sessions : Authenticate(t, s)
        PROVE  AllClosed'
    <3>1. CASE req'[t].pc \in {"idle", "bootstrap"}
      BY <1>4, <1>6, <2>2, <3>1 DEF LoginStages
    <3>2. CASE MovesOn(t)
      BY <1>4, <1>6, <2>2, <3>2 DEF MovesOn, LoginStages
    <3>3. CASE \E s \in Sessions : Authenticate(t, s)
      <4>1. req'[t].pc = "granted"
        BY <1>0, <3>3 DEF Authenticate, Idle
      <4> QED
        BY <1>4, <1>6, <2>2, <4>1 DEF LoginStages
    <3> QED
      BY <2>2, <3>1, <3>2, <3>3
  <2> QED
    BY <1>3, <2>1, <2>2, RequestSteps
<1> QED
  BY <1>1, <1>3, <1>5, <1>6

(* Once an origin is revoked with nobody in the middle of a login there,   *)
(* no session of it comes to life until somebody begins one (revoke_origin). *)
THEOREM OriginRevoked == Spec => []OriginStaysRevoked
<1>1. Init => AllClosed
  BY DEF Init, AllClosed, Closed
<1>2. AllClosed => OriginStaysRevoked
  BY DEF AllClosed, Closed, OriginStaysRevoked
<1> QED
  BY <1>1, <1>2, InitTyped, TypeStep, AllClosedStep, PTL DEF Spec

-----------------------------------------------------------------------------
(* Versions.  Nothing carries a version newer than its user's, and what    *)
(* was there at an update carries an older one.                            *)

Dated(s) ==
  /\ sessions[s].status = "absent" => sessions[s].user = None /\ s \notin prior
  /\ sessions[s].status # "absent" =>
       /\ sessions[s].version <= users[sessions[s].user].version
       /\ s \in prior => sessions[s].version < users[sessions[s].user].version

DatedLogin(t) == req[t].pc = "insert" => req[t].version <= users[req[t].user].version

AllDated == (\A s \in Sessions : Dated(s)) /\ (\A t \in Threads : DatedLogin(t))

(* A version only grows, of a user who exists.                             *)
LEMMA VersionsGrow ==
  ASSUME TypeOK, [Next]_vars, NEW v \in Users, Exists(v)
  PROVE  users'[v].version >= users[v].version
<1>0. users \in [Users -> UserRow] /\ users[v].version \in Nat
  BY DEF TypeOK, UsersTyped, UserRow
<1>1. ASSUME NEW u \in Users, NEW role \in Roles, NEW disabled \in BOOLEAN,
             UpdateUser(u, role, disabled)
      PROVE  users'[v].version >= users[v].version
  BY <1>0, <1>1 DEF UpdateUser
<1>2. ASSUME NEW t \in Threads, NEW c \in Codes, NEW u \in Users,
             ClaimOwner(t, c, u) \/ \E o \in Origins : AcceptInvitation(t, c, u, o)
      PROVE  users'[v].version >= users[v].version
  <2>1. ~Exists(u) /\ \E row : users' = [users EXCEPT ![u] = row]
    BY <1>2 DEF ClaimOwner, AcceptInvitation, Join
  <2> QED
    BY <1>0, <2>1
<1> QED
  BY <1>0, <1>1, <1>2, UserSteps

LEMMA AllDatedStep ==
  ASSUME TypeOK, Accounts, AllDated, [Next]_vars
  PROVE  AllDated'
<1>0. /\ sessions \in [Sessions -> SessionRow] /\ req \in [Threads -> Request]
      /\ users \in [Users -> UserRow] /\ users' \in [Users -> UserRow]
      /\ \A s \in Sessions : sessions[s].status # "absent" =>
           sessions[s].user \in Users /\ Exists(sessions[s].user)
      /\ \A t \in Threads : req[t].pc \in {"version", "insert"} =>
           req[t].user \in Users /\ Exists(req[t].user)
      /\ None \notin Users
  BY UsersStep, Seconds DEF TypeOK, SessionsTyped, RequestsTyped, UsersTyped, Accounts, Owned,
                            Behind, Past, LoginStages
<1>n. (\A u \in Users : users[u].version \in Nat /\ users'[u].version \in Nat)
      /\ (\A s \in Sessions : sessions[s].version \in Nat)
      /\ (\A t \in Threads : req[t].version \in Nat)
  BY <1>0 DEF UserRow, SessionRow, Request
<1>g. \A u \in Users : Exists(u) => users'[u].version >= users[u].version
  BY VersionsGrow
<1>1. ASSUME NEW u \in Users, NEW role \in Roles, NEW disabled \in BOOLEAN,
             UpdateUser(u, role, disabled)
      PROVE  AllDated'
  <2>1. /\ UNCHANGED <<sessions, req>>
        /\ prior' = prior \cup {s \in Sessions : sessions[s].user = u}
        /\ users'[u].version = users[u].version + 1
    BY <1>0, <1>1 DEF UpdateUser
  <2>2. ASSUME NEW s \in Sessions PROVE Dated(s)'
    <3>1. CASE sessions[s].status = "absent"
      BY <1>0, <2>1, <3>1 DEF AllDated, Dated
    <3>2. CASE sessions[s].status # "absent"
      <4>1. sessions[s].version <= users[sessions[s].user].version
            /\ users'[sessions[s].user].version >= users[sessions[s].user].version
        BY <1>0, <1>g, <3>2 DEF AllDated, Dated
      <4>2. s \in prior' => sessions[s].version < users'[sessions[s].user].version
        BY <1>0, <1>n, <2>1, <3>2, <4>1 DEF AllDated, Dated
      <4> QED
        BY <1>0, <1>n, <2>1, <3>2, <4>1, <4>2 DEF Dated
    <3> QED
      BY <3>1, <3>2
  <2>3. ASSUME NEW t \in Threads PROVE DatedLogin(t)'
    BY <1>0, <1>n, <1>g, <2>1 DEF AllDated, DatedLogin
  <2> QED
    BY <2>2, <2>3 DEF AllDated
<1>2. ASSUME prior' = prior PROVE AllDated'
  <2>s. ASSUME NEW s \in Sessions,
               /\ sessions'[s].status # "absent" <=> sessions[s].status # "absent"
               /\ sessions'[s].user = sessions[s].user
               /\ sessions'[s].version = sessions[s].version
        PROVE  Dated(s)'
    BY <1>0, <1>n, <1>g, <1>2, <2>s DEF AllDated, Dated
  <2>2. ASSUME NEW s \in Sessions PROVE Dated(s)'
    <3>1. CASE UNCHANGED <<sessions, lastUse>>
      BY <2>s, <3>1
    <3>2. CASE \E S : sessions' = Revoked(S)
      BY <2>s, <3>2, RevokedRows
    <3>3. ASSUME NEW t \in Threads, NEW r \in Sessions, InsertSession(t, r) PROVE Dated(s)'
      <4>1. CASE s = r
        <5>1. /\ sessions'[s].status = "active" /\ sessions'[s].user = req[t].user
              /\ sessions'[s].version = req[t].version /\ sessions[s].status = "absent"
              /\ req[t].pc = "insert"
          BY <1>0, <3>3, <4>1 DEF InsertSession
        <5>2. s \notin prior
          BY <5>1 DEF AllDated, Dated
        <5>3. req[t].version <= users'[req[t].user].version
          BY <1>0, <1>n, <1>g, <5>1 DEF AllDated, DatedLogin
        <5> QED
          BY <1>2, <5>1, <5>2, <5>3 DEF Dated
      <4>2. CASE s # r
        BY <1>0, <2>s, <3>3, <4>2 DEF InsertSession
      <4> QED
        BY <4>1, <4>2
    <3>4. ASSUME NEW t \in Threads, NEW r \in Sessions, Authenticate(t, r) PROVE Dated(s)'
      <4>1. /\ Touched(sessions[r]).status = sessions[r].status
            /\ Touched(sessions[r]).user = sessions[r].user
            /\ Touched(sessions[r]).version = sessions[r].version
        BY <1>0 DEF Touched, SessionRow
      <4>2. sessions' = [sessions EXCEPT ![r] = Touched(sessions[r])]
        BY <3>4 DEF Authenticate
      <4> QED
        BY <1>0, <2>s, <4>1, <4>2
    <3>5. CASE \E t \in Threads : Reauthenticate(t)
      <4>1. PICK r : sessions' = [sessions EXCEPT ![r].reauth = now]
        BY <3>5 DEF Reauthenticate
      <4> QED
        BY <1>0, <2>s, <4>1 DEF SessionRow
    <3> QED
      BY <3>1, <3>2, <3>3, <3>4, <3>5, SessionSteps
  <2>t. ASSUME NEW t \in Threads, req'[t] = req[t] PROVE DatedLogin(t)'
    BY <1>0, <1>n, <1>g, <2>t DEF AllDated, DatedLogin
  <2>3. ASSUME NEW t \in Threads, req'[t].pc = "insert" => MovesOn(t) PROVE DatedLogin(t)'
    <3>1. ASSUME req'[t].pc = "insert"
          PROVE  /\ req'[t].user = req[t].user /\ users' = users
                 /\ req'[t].version = users[req[t].user].version
                 /\ req[t].pc = "version"
      BY <2>3, <3>1 DEF MovesOn, rows
    <3> QED
      BY <1>0, <1>n, <3>1 DEF DatedLogin
  <2>4. ASSUME NEW t \in Threads PROVE DatedLogin(t)'
    <3>1. \A v \in Threads : req'[v] = req[v] \/ req'[v].pc # "insert" \/ MovesOn(v)
      <4>1. \A v \in Threads, s \in Sessions : Authenticate(v, s) => req'[v].pc = "granted"
        BY <1>0 DEF Authenticate, Idle
      <4> QED
        BY <4>1, RequestSteps DEF Begins
    <3> QED
      BY <2>t, <2>3, <3>1
  <2> QED
    BY <2>2, <2>4 DEF AllDated
<1>3. \/ prior' = prior
      \/ \E u \in Users, role \in Roles, disabled \in BOOLEAN : UpdateUser(u, role, disabled)
  <2>1. CASE \/ Tick \/ UNCHANGED vars
             \/ \E s \in Sessions : AuthenticateLapsed(s)
             \/ \E o \in Origins : RevokeOrigin(o)
    BY <2>1 DEF Tick, AuthenticateLapsed, RevokeOrigin, history, vars
  <2>2. ASSUME NEW t \in Threads, AnyRequest(t) PROVE prior' = prior
    <3>1. CASE EnsureBootstrap(t) \/ IssueBootstrap(t) \/ Verify(t) \/ RecordAttempt(t)
               \/ ReadVersion(t) \/ Logout(t) \/ Reauthenticate(t) \/ OtherRequest(t)
      BY <3>1 DEF EnsureBootstrap, IssueBootstrap, Verify, RecordAttempt, ReadVersion, Logout,
                  Reauthenticate, OtherRequest, history
    <3>2. CASE \/ \E s \in Sessions : InsertSession(t, s)
               \/ \E s \in Sessions : Authenticate(t, s)
               \/ \E s \in Sessions : RevokeSession(t, s)
               \/ \E c \in Codes, role \in Roles : CreateInvitation(t, c, role)
      BY <3>2 DEF InsertSession, Authenticate, RevokeSession, CreateInvitation, history
    <3>3. CASE \E u \in Users, o \in Origins : Begins(t, u, o)
      BY <3>3 DEF Begins
    <3> QED
      BY <2>2, <3>1, <3>2, <3>3, LoginBegins DEF AnyRequest
  <2> QED
    BY <2>1, <2>2, Steps DEF Elsewhere
<1> QED
  BY <1>1, <1>2, <1>3

(* No session that was in the table at an update of its user lets a        *)
(* request in, with any number of requests and updates at once             *)
(* (update_user, authenticate).                                            *)
THEOREM UpdateEndsSessions == Spec => PriorSessionsOut
<1>1. Init => AllDated
  BY DEF Init, AllDated, Dated, DatedLogin, NoRow, Idle
<1>2. TypeOK /\ AllDated /\ [Next]_vars =>
        [\A t \in Threads, s \in Sessions : Granted(t, s) => s \notin prior]_vars
  <2> SUFFICES ASSUME TypeOK, AllDated, [Next]_vars,
                      NEW t \in Threads, NEW s \in Sessions, Granted(t, s)
               PROVE  s \notin prior
    OBVIOUS
  <2>1. Authenticate(t, s)
    <3>1. req[t].pc # "granted" /\ req'[t].pc = "granted" /\ req'[t].session = s
      BY DEF Granted
    <3>2. PICK v \in Threads :
            /\ \A w \in Threads : w # v => req'[w] = req[w]
            /\ \/ req'[v].pc \in {"idle", "bootstrap"}
               \/ \E u \in Users, o \in Origins : Begins(v, u, o)
               \/ MovesOn(v)
               \/ \E r \in Sessions : Authenticate(v, r)
      BY <3>1, RequestSteps
    <3>3. v = t
      BY <3>1, <3>2
    <3>4. PICK r \in Sessions : Authenticate(t, r)
      BY <3>1, <3>2, <3>3 DEF Begins, MovesOn
    <3>5. req'[t].session = r
      BY <3>4 DEF Authenticate, TypeOK, RequestsTyped, Idle
    <3> QED
      BY <3>1, <3>4, <3>5
  <2>2. /\ sessions[s].status = "active"
        /\ sessions[s].version = users[sessions[s].user].version
        /\ sessions[s].version \in Nat
    BY <2>1 DEF Authenticate, Open, Lapsed, TypeOK, SessionsTyped, SessionRow
  <2> QED
    BY <2>2 DEF AllDated, Dated
<1> QED
  BY <1>1, <1>2, InitTyped, TypeStep, AllDatedStep, AccountsAlways, PTL DEF Spec, PriorSessionsOut

-----------------------------------------------------------------------------
(* The rate limit.  Every login that was let past the count and has not    *)
(* recorded its attempt may still add a failure.                           *)

Pending(u) == {t \in Threads : req[t].pc \in {"verify", "record"} /\ req[t].user = u}

Charged(u) == Cardinality(Recent(u)) + Cardinality(Pending(u))
                < AttemptLimit + Cardinality(Threads)

AllCharged == \A u \in Users : Charged(u)

LEMMA Counts ==
  ASSUME TypeOK, NEW u \in Users
  PROVE  /\ IsFiniteSet(Recent(u)) /\ Cardinality(Recent(u)) \in Nat
         /\ IsFiniteSet(Pending(u)) /\ Cardinality(Pending(u)) \in Nat
         /\ Cardinality(Pending(u)) <= Cardinality(Threads)
         /\ Cardinality(Threads) \in Nat
<1>1. IsFiniteSet(failures[u]) /\ IsFiniteSet(Threads)
  BY AuthAssumption DEF AuthAssumption, TypeOK, FailuresTyped
<1>2. Recent(u) \subseteq failures[u] /\ Pending(u) \subseteq Threads
  BY DEF Recent, Pending
<1> QED
  BY <1>1, <1>2, FS_Subset, FS_CardinalityType

LEMMA FailureSteps ==
  ASSUME TypeOK, [Next]_vars
  PROVE  \/ UNCHANGED failures
         \/ \E t \in Threads : RecordAttempt(t) /\ ~req[t].ok
<1>1. CASE Elsewhere \/ UNCHANGED vars
  BY <1>1 DEF Elsewhere, Tick, AuthenticateLapsed, UpdateUser, RevokeOrigin, rows, vars
<1>2. ASSUME NEW t \in Threads, AnyRequest(t), ~(RecordAttempt(t) /\ ~req[t].ok)
      PROVE  UNCHANGED failures
  <2>1. CASE RecordAttempt(t)
    BY <1>2, <2>1 DEF RecordAttempt
  <2>2. CASE EnsureBootstrap(t) \/ IssueBootstrap(t) \/ Verify(t)
             \/ ReadVersion(t) \/ Logout(t) \/ Reauthenticate(t) \/ OtherRequest(t)
    BY <2>2 DEF EnsureBootstrap, IssueBootstrap, Verify, ReadVersion, Logout, Reauthenticate,
                OtherRequest, rows
  <2>3. CASE \/ \E c \in Codes, u \in Users : ClaimOwner(t, c, u)
             \/ \E c \in Codes, u \in Users, o \in Origins : AcceptInvitation(t, c, u, o)
             \/ \E u \in Users, o \in Origins : Login(t, u, o)
    BY <2>3 DEF ClaimOwner, AcceptInvitation, Join, Login, rows
  <2>4. CASE \/ \E s \in Sessions : InsertSession(t, s)
             \/ \E s \in Sessions : Authenticate(t, s)
             \/ \E s \in Sessions : RevokeSession(t, s)
             \/ \E c \in Codes, role \in Roles : CreateInvitation(t, c, role)
    BY <2>4 DEF InsertSession, Authenticate, RevokeSession, CreateInvitation
  <2> QED
    BY <1>2, <2>1, <2>2, <2>3, <2>4 DEF AnyRequest
<1> QED
  BY <1>1, <1>2, Steps

(* A login is let in only below the limit, and waits for its verdict.      *)
LEMMA PendingSteps ==
  ASSUME TypeOK, [Next]_vars, NEW u \in Users, RateLimited(u)
  PROVE  Pending(u)' \subseteq Pending(u)
<1>0. \A t \in Threads, s \in Sessions : Authenticate(t, s) => req'[t].pc = "granted"
  BY DEF TypeOK, RequestsTyped, Authenticate, Idle
<1>1. ASSUME NEW t \in Threads, req'[t].pc \in {"verify", "record"}, req'[t].user = u
      PROVE  req[t].pc \in {"verify", "record"} /\ req[t].user = u
  BY <1>0, <1>1, RequestSteps DEF Begins, MovesOn
<1> QED
  BY <1>1 DEF Pending

LEMMA AllChargedStep ==
  ASSUME TypeOK, AllCharged, [Next]_vars
  PROVE  AllCharged'
<1> SUFFICES ASSUME NEW u \in Users PROVE Charged(u)'
  BY DEF AllCharged
<1>0. /\ req \in [Threads -> Request] /\ failures \in [Users -> SUBSET (Nat \X Nat)]
      /\ now \in Nat /\ now' \in Nat /\ now' >= now
      /\ AttemptSeconds \in Nat /\ AttemptLimit \in Nat
  <2>1. now' = now \/ now' = now + 1
    <3>1. CASE Tick \/ UNCHANGED vars
      BY <3>1 DEF Tick, vars
    <3>2. CASE \/ \E s \in Sessions : AuthenticateLapsed(s)
               \/ \E v \in Users, role \in Roles, disabled \in BOOLEAN :
                    UpdateUser(v, role, disabled)
               \/ \E o \in Origins : RevokeOrigin(o)
      BY <3>2 DEF AuthenticateLapsed, UpdateUser, RevokeOrigin
    <3>3. ASSUME NEW t \in Threads, AnyRequest(t) PROVE now' = now
      BY <3>3 DEF AnyRequest, EnsureBootstrap, IssueBootstrap, ClaimOwner, AcceptInvitation,
                  Join, Login, Verify, RecordAttempt, ReadVersion, InsertSession, Authenticate,
                  Logout, RevokeSession, CreateInvitation, Reauthenticate, OtherRequest, rows
    <3> QED
      BY <3>1, <3>2, <3>3, Steps DEF Elsewhere
  <2> QED
    BY <2>1, Seconds DEF TypeOK, RequestsTyped, FailuresTyped, RestTyped
<1>c. /\ IsFiniteSet(Recent(u)) /\ Cardinality(Recent(u)) \in Nat
      /\ IsFiniteSet(Pending(u)) /\ Cardinality(Pending(u)) \in Nat
      /\ Cardinality(Threads) \in Nat
  BY Counts
<1>d. /\ IsFiniteSet(Recent(u)') /\ Cardinality(Recent(u)') \in Nat
      /\ IsFiniteSet(Pending(u)') /\ Cardinality(Pending(u)') \in Nat
      /\ Cardinality(Pending(u)') <= Cardinality(Threads)
  <2>1. TypeOK'
    BY TypeStep
  <2>2. IsFiniteSet(failures'[u]) /\ IsFiniteSet(Threads)
    BY <2>1, AuthAssumption DEF AuthAssumption, TypeOK, FailuresTyped
  <2>3. Recent(u)' \subseteq failures'[u] /\ Pending(u)' \subseteq Threads
    BY DEF Recent, Pending
  <2> QED
    BY <2>2, <2>3, FS_Subset, FS_CardinalityType
<1>e. Charged(u)
  BY DEF AllCharged
<1>1. CASE UNCHANGED failures
  <2>1. Recent(u)' \subseteq Recent(u)
    BY <1>0, <1>1 DEF Recent
  <2>2. Cardinality(Recent(u)') <= Cardinality(Recent(u))
    BY <1>c, <2>1, FS_Subset
  <2>3. CASE RateLimited(u)
    <3>1. Cardinality(Pending(u)') <= Cardinality(Pending(u))
      BY <1>c, <2>3, PendingSteps, FS_Subset
    <3> QED
      BY <1>0, <1>c, <1>d, <1>e, <2>2, <3>1 DEF Charged
  <2>4. CASE ~RateLimited(u)
    BY <1>0, <1>c, <1>d, <2>2, <2>4 DEF Charged, RateLimited
  <2> QED
    BY <2>3, <2>4
<1>2. ASSUME NEW t \in Threads, RecordAttempt(t), ~req[t].ok PROVE Charged(u)'
  <2>1. /\ req' = [req EXCEPT ![t] = Idle] /\ req[t].pc = "record" /\ now' = now
        /\ \A v \in Users : v # req[t].user => failures'[v] = failures[v]
    BY <1>0, <1>2 DEF RecordAttempt, Finish
  <2>2. Pending(u)' = Pending(u) \ {t}
    <3>1. \A v \in Threads : req'[v] = IF v = t THEN Idle ELSE req[v]
      BY <1>0, <2>1
    <3> QED
      BY <3>1 DEF Pending, Idle
  <2>3. CASE req[t].user # u
    <3>1. Recent(u)' = Recent(u)
      BY <2>1, <2>3 DEF Recent
    <3>2. Pending(u)' = Pending(u)
      BY <2>2, <2>3 DEF Pending
    <3> QED
      BY <1>e, <3>1, <3>2 DEF Charged
  <2>4. CASE req[t].user = u
    <3> DEFINE f == <<now, Cardinality(failures[u])>>
    <3>1. Recent(u)' \subseteq Recent(u) \cup {f}
      <4>1. failures'[u] = failures[u] \cup {f}
        BY <1>0, <1>2, <2>4 DEF RecordAttempt
      <4> QED
        BY <2>1, <4>1 DEF Recent
    <3> HIDE DEF f
    <3>2. /\ IsFiniteSet(Recent(u) \cup {f})
          /\ Cardinality(Recent(u) \cup {f}) <= Cardinality(Recent(u)) + 1
          /\ Cardinality(Recent(u) \cup {f}) \in Nat
      BY <1>c, FS_AddElement, FS_CardinalityType
    <3>3. Cardinality(Recent(u)') <= Cardinality(Recent(u) \cup {f})
      BY <3>1, <3>2, FS_Subset
    <3>4. t \in Pending(u)
      BY <2>1, <2>4 DEF Pending
    <3>5. Cardinality(Pending(u)') = Cardinality(Pending(u)) - 1
      BY <1>c, <2>2, <3>4, FS_RemoveElement
    <3> QED
      BY <1>0, <1>c, <1>d, <1>e, <3>2, <3>3, <3>5 DEF Charged
  <2> QED
    BY <2>3, <2>4
<1> QED
  BY <1>1, <1>2, FailureSteps

(* However many logins read the count at once, the failures of a window    *)
(* are fewer than the limit and the number of threads together (login).    *)
THEOREM FailuresStayBounded == Spec => []FailuresBounded
<1>1. Init => AllCharged
  <2> SUFFICES ASSUME Init, NEW u \in Users PROVE Charged(u)
    BY DEF AllCharged
  <2>1. Recent(u) = {} /\ Pending(u) = {}
    BY DEF Init, Recent, Pending, Idle
  <2>2. Cardinality(Threads) \in Nat /\ AttemptLimit \in Nat \ {0}
    BY AuthAssumption, FS_CardinalityType DEF AuthAssumption
  <2> QED
    BY <2>1, <2>2, FS_EmptySet DEF Charged
<1>2. TypeOK /\ AllCharged => FailuresBounded
  <2> SUFFICES ASSUME TypeOK, AllCharged, NEW u \in Users
               PROVE  Cardinality(Recent(u)) < AttemptLimit + Cardinality(Threads)
    BY DEF FailuresBounded
  <2> QED
    BY Counts, Seconds DEF AllCharged, Charged
<1> QED
  BY <1>1, <1>2, InitTyped, TypeStep, AllChargedStep, PTL DEF Spec
=============================================================================
