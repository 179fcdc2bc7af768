-------------------------------- MODULE Auth --------------------------------
(***************************************************************************)
(* Accounts and sessions: users, activation codes, failed logins and       *)
(* sessions are rows of one database; request threads of the web server    *)
(* work on them in parallel.  A statement or an explicit transaction is    *)
(* one step.  login is five of them, so anything may happen between the    *)
(* rate check, the look at the user, the record of the attempt, the look   *)
(* at the session version and the insertion of the session.                *)
(*                                                                         *)
(* A user is named by the normalized username, which is unique.  All       *)
(* attempts come from one source, the worst case for the rate limit.       *)
(***************************************************************************)
EXTENDS Integers, FiniteSets

CONSTANTS
  Users, Threads, Codes, Sessions, None,
  Origins,          \* loopback, lan and tailscale in the code
  IdleSeconds, AbsoluteSeconds, CoalesceSeconds,
  BootstrapSeconds, InvitationSeconds,
  AttemptSeconds,   \* the window in which failures count, 300 in the code
  AttemptLimit,     \* 5 in the code
  Scopes            \* bounds: who and what may act in one behaviour

ASSUME AuthAssumption ==
  /\ None \notin Users \cup Codes \cup Sessions \cup Origins
  /\ "loopback" \in Origins
  /\ IsFiniteSet(Threads)
  /\ {IdleSeconds, AbsoluteSeconds, CoalesceSeconds, BootstrapSeconds,
      InvitationSeconds, AttemptSeconds, AttemptLimit} \subseteq Nat \ {0}
  /\ CoalesceSeconds <= IdleSeconds
  /\ IdleSeconds <= AbsoluteSeconds
  /\ Scopes \subseteq [users : SUBSET Users, threads : SUBSET Threads,
                        codes : SUBSET Codes, sessions : SUBSET Sessions,
                        origins : SUBSET Origins, time : Nat, updates : Nat]

VARIABLES
  users,     \* role "none" while the row is absent
  codes,     \* the activation tokens
  sessions,
  failures,  \* the failed attempts of each user, as <<time, number>>
  scope,     \* the bounds of this behaviour
  now,
  req,       \* what each request thread holds
  \* history, read by no guard:
  lastUse,   \* when a session was last let in
  prior,     \* the sessions a user had when the user was updated
  joined,    \* the code that admitted each user
  shut       \* origins revoked, with no login under way then or since

rows    == <<users, codes, sessions, failures>>
history == <<lastUse, prior, joined, shut>>
vars    == <<scope, rows, now, req, history>>

Roles    == {"viewer", "operator", "owner"}
NoUser   == [role |-> "none", disabled |-> FALSE, version |-> 0]
NoCode   == [purpose |-> "none", role |-> "none", expires |-> 0, consumed |-> FALSE]
NoRow    == [status |-> "absent", user |-> None, origin |-> None, version |-> 0,
             seen |-> 0, idle |-> 0, absolute |-> 0, reauth |-> 0]
Idle     == [pc |-> "idle", user |-> None, origin |-> None, session |-> None,
             ok |-> FALSE, version |-> 0, role |-> "none"]

Init ==
  /\ scope \in Scopes
  /\ users = [u \in Users |-> NoUser]
  /\ codes = [c \in Codes |-> NoCode]
  /\ sessions = [s \in Sessions |-> NoRow]
  /\ failures = [u \in Users |-> {}]
  /\ now = 0
  /\ req = [t \in Threads |-> Idle]
  /\ lastUse = [s \in Sessions |-> 0]
  /\ prior = {}
  /\ joined = [u \in Users |-> None]
  /\ shut = [o \in Origins |-> FALSE]

Tick ==
  /\ now < scope.time
  /\ now' = now + 1
  /\ UNCHANGED <<rows, req, history>>

Exists(u)    == users[u].role # "none"
EnabledOwner(u) == users[u].role = "owner" /\ ~users[u].disabled
HasUsers     == \E u \in Users : Exists(u)
MinOf(a, b)  == IF a < b THEN a ELSE b

Free(t)      == req[t].pc = "idle"
Finish(t)    == req' = [req EXCEPT ![t] = Idle]
Goto(t, pc)  == req' = [req EXCEPT ![t].pc = pc]

-----------------------------------------------------------------------------
(* Activation codes.                                                       *)

Valid(c, purpose) ==
  /\ codes[c].purpose = purpose
  /\ ~codes[c].consumed
  /\ codes[c].expires > now

Issue(c, purpose, role, seconds) ==
  /\ codes[c].purpose = "none"
  /\ codes' = [codes EXCEPT ![c] = [purpose |-> purpose, role |-> role,
                                    expires |-> now + seconds, consumed |-> FALSE]]

(* Mutant: the code is checked and stays valid.                            *)
ConsumeNothing(c) == codes[c].purpose # "none" /\ UNCHANGED codes

Consume(c) == codes' = [codes EXCEPT ![c].consumed = TRUE]

\* The host starts: the look at the users is outside the transaction.
EnsureBootstrap(t) ==
  /\ Free(t)
  /\ ~HasUsers
  /\ Goto(t, "bootstrap")
  /\ UNCHANGED <<rows, now, history>>

IssueBootstrap(t) ==
  /\ req[t].pc = "bootstrap"
  /\ IF \E c \in Codes : Valid(c, "bootstrap")
       THEN UNCHANGED codes
       ELSE \E c \in scope.codes : Issue(c, "bootstrap", "owner", BootstrapSeconds)
  /\ Finish(t)
  /\ UNCHANGED <<users, sessions, failures, now, history>>

\* The new row and the consumed code are one transaction; create_session follows.
Join(t, c, u, role, origin) ==
  /\ Free(t)
  /\ ~Exists(u)
  /\ Consume(c)
  /\ users' = [users EXCEPT ![u] = [role |-> role, disabled |-> FALSE, version |-> 1]]
  /\ req' = [req EXCEPT ![t] = [Idle EXCEPT !.pc = "version", !.user = u,
                                            !.origin = origin]]
  /\ joined' = [joined EXCEPT ![u] = c]
  /\ shut' = [shut EXCEPT ![origin] = FALSE]
  /\ UNCHANGED <<sessions, failures, now, lastUse, prior>>

ClaimOwner(t, c, u) ==
  /\ ~HasUsers
  /\ Valid(c, "bootstrap")
  /\ Join(t, c, u, "owner", "loopback")

AcceptInvitation(t, c, u, o) ==
  /\ Valid(c, "invitation")
  /\ Join(t, c, u, codes[c].role, o)

-----------------------------------------------------------------------------
(* Login.                                                                  *)

Recent(u) == {f \in failures[u] : f[1] > now - AttemptSeconds}

(* Mutant: the limit lets one failure too many pass.                       *)
RateLimitedLate(u) == Cardinality(Recent(u)) > AttemptLimit

RateLimited(u) == Cardinality(Recent(u)) >= AttemptLimit

Login(t, u, o) ==
  /\ Free(t)
  /\ ~RateLimited(u)
  /\ req' = [req EXCEPT ![t] = [Idle EXCEPT !.pc = "verify", !.user = u, !.origin = o]]
  /\ shut' = [shut EXCEPT ![o] = FALSE]
  /\ UNCHANGED <<rows, now, lastUse, prior, joined>>

\* The row is read once; the password is checked against that copy.
Verify(t) ==
  /\ req[t].pc = "verify"
  /\ \E right \in BOOLEAN :
       LET u == req[t].user IN
       req' = [req EXCEPT ![t].pc = "record",
                          ![t].ok = right /\ Exists(u) /\ ~users[u].disabled]
  /\ UNCHANGED <<rows, now, history>>

RecordAttempt(t) ==
  /\ req[t].pc = "record"
  /\ LET u == req[t].user IN
     IF req[t].ok
       THEN Goto(t, "version") /\ UNCHANGED failures
       ELSE /\ Finish(t)
            /\ failures' = [failures EXCEPT ![u] = @ \cup {<<now, Cardinality(@)>>}]
  /\ UNCHANGED <<users, codes, sessions, now, history>>

ReadVersion(t) ==
  /\ req[t].pc = "version"
  /\ req' = [req EXCEPT ![t].pc = "insert", ![t].version = users[req[t].user].version]
  /\ UNCHANGED <<rows, now, history>>

InsertSession(t, s) ==
  /\ req[t].pc = "insert"
  /\ sessions[s].status = "absent"
  /\ sessions' = [sessions EXCEPT ![s] =
       [status |-> "active", user |-> req[t].user, origin |-> req[t].origin,
        version |-> req[t].version, seen |-> now, reauth |-> now,
        idle |-> now + IdleSeconds, absolute |-> now + AbsoluteSeconds]]
  /\ lastUse' = [lastUse EXCEPT ![s] = now]
  /\ Finish(t)
  /\ UNCHANGED <<users, codes, failures, now, prior, joined, shut>>

-----------------------------------------------------------------------------
(* A request with a session cookie.                                        *)

Open(s) == sessions[s].status = "active" /\ ~users[sessions[s].user].disabled

(* Mutant: the session version is not compared.                            *)
LapsedByTime(s) == sessions[s].idle <= now \/ sessions[s].absolute <= now

Lapsed(s) ==
  \/ sessions[s].idle <= now
  \/ sessions[s].absolute <= now
  \/ sessions[s].version # users[sessions[s].user].version

Revoked(S) == [s \in Sessions |->
                 IF s \in S /\ sessions[s].status = "active"
                 THEN [sessions[s] EXCEPT !.status = "revoked"] ELSE sessions[s]]

\* authenticate finds the session expired or outdated and revokes it.
AuthenticateLapsed(s) ==
  /\ Open(s)
  /\ Lapsed(s)
  /\ sessions' = Revoked({s})
  /\ UNCHANGED <<users, codes, failures, now, req, history>>

(* Mutant: the use is written down but the expiry is not moved.            *)
TouchedSeenOnly(row) ==
  IF now - row.seen >= CoalesceSeconds THEN [row EXCEPT !.seen = now] ELSE row

Touched(row) ==
  IF now - row.seen >= CoalesceSeconds
  THEN [row EXCEPT !.seen = now, !.idle = MinOf(now + IdleSeconds, row.absolute)]
  ELSE row

\* The role is the one of this moment; the handler runs later with it.
Authenticate(t, s) ==
  /\ Free(t)
  /\ Open(s)
  /\ ~Lapsed(s)
  /\ sessions' = [sessions EXCEPT ![s] = Touched(@)]
  /\ req' = [req EXCEPT ![t] = [Idle EXCEPT !.pc = "granted", !.session = s,
                                  !.role = users[sessions[s].user].role]]
  /\ lastUse' = [lastUse EXCEPT ![s] = now]
  /\ UNCHANGED <<users, codes, failures, now, prior, joined, shut>>

Logout(t) ==
  /\ req[t].pc = "granted"
  /\ sessions' = Revoked({req[t].session})
  /\ Finish(t)
  /\ UNCHANGED <<users, codes, failures, now, history>>

RevokeSession(t, s) ==
  /\ req[t].pc = "granted" /\ req[t].role = "owner"
  /\ sessions' = Revoked({s})
  /\ Finish(t)
  /\ UNCHANGED <<users, codes, failures, now, history>>

CreateInvitation(t, c, role) ==
  /\ req[t].pc = "granted" /\ req[t].role = "owner"
  /\ Issue(c, "invitation", role, InvitationSeconds)
  /\ Finish(t)
  /\ UNCHANGED <<users, sessions, failures, now, history>>

Reauthenticate(t) ==
  /\ req[t].pc = "granted"
  /\ sessions' = [sessions EXCEPT ![req[t].session].reauth = now]
  /\ Finish(t)
  /\ UNCHANGED <<users, codes, failures, now, history>>

\* Any other request, or a wrong password to reauthenticate.
OtherRequest(t) ==
  /\ req[t].pc = "granted"
  /\ Finish(t)
  /\ UNCHANGED <<rows, now, history>>

-----------------------------------------------------------------------------
(* Administration, and the adapter that revokes a whole origin.            *)

(* Mutant: the user itself is counted among those who remain.              *)
LastOwnerCountsSelf(u, role, disabled) ==
  /\ users[u].role = "owner"
  /\ role # "owner" \/ disabled
  /\ ~\E other \in Users : EnabledOwner(other)

LastOwner(u, role, disabled) ==
  /\ users[u].role = "owner"
  /\ role # "owner" \/ disabled
  /\ ~\E other \in Users \ {u} : EnabledOwner(other)

UpdateUser(u, role, disabled) ==
  /\ Exists(u)
  /\ users[u].version <= scope.updates
  /\ ~LastOwner(u, role, disabled)
  /\ users' = [users EXCEPT ![u] = [role |-> role, disabled |-> disabled,
                                    version |-> @.version + 1]]
  /\ prior' = prior \cup {s \in Sessions : sessions[s].user = u}
  /\ UNCHANGED <<codes, sessions, failures, now, req, lastUse, joined, shut>>

LoggingIn(o) == \E t \in Threads :
                  req[t].pc \in {"verify", "record", "version", "insert"} /\ req[t].origin = o

(* Mutant: a session used in this very second is not found.                *)
RevokeOriginBefore(o) ==
  /\ sessions' = Revoked({s \in Sessions : sessions[s].origin = o /\ sessions[s].seen < now})
  /\ shut' = [shut EXCEPT ![o] = ~LoggingIn(o)]
  /\ UNCHANGED <<users, codes, failures, now, req, lastUse, prior, joined>>

RevokeOrigin(o) ==
  /\ sessions' = Revoked({s \in Sessions : sessions[s].origin = o})
  /\ shut' = [shut EXCEPT ![o] = ~LoggingIn(o)]
  /\ UNCHANGED <<users, codes, failures, now, req, lastUse, prior, joined>>

ThreadStep(t) ==
  \/ EnsureBootstrap(t) \/ IssueBootstrap(t)
  \/ \E c \in Codes, u \in scope.users :
        ClaimOwner(t, c, u) \/ \E o \in scope.origins : AcceptInvitation(t, c, u, o)
  \/ \E u \in scope.users, o \in scope.origins : Login(t, u, o)
  \/ Verify(t) \/ RecordAttempt(t) \/ ReadVersion(t)
  \/ \E s \in scope.sessions : InsertSession(t, s) \/ Authenticate(t, s) \/ RevokeSession(t, s)
  \/ \E c \in scope.codes, role \in Roles : CreateInvitation(t, c, role)
  \/ Logout(t) \/ Reauthenticate(t) \/ OtherRequest(t)

Next ==
  /\ UNCHANGED scope
  /\ \/ Tick
     \/ \E t \in scope.threads : ThreadStep(t)
     \/ \E s \in Sessions : AuthenticateLapsed(s)
     \/ \E u \in Users, role \in Roles, disabled \in BOOLEAN : UpdateUser(u, role, disabled)
     \/ \E o \in scope.origins : RevokeOrigin(o)

Spec == Init /\ [][Next]_vars

-----------------------------------------------------------------------------
(* What the accounts promise.                                              *)

(* Once the installation is claimed an enabled owner remains, whoever      *)
(* demotes or disables whom in which order (update_user).                  *)
OwnerRemains == HasUsers => \E u \in Users : EnabledOwner(u)

(* A code admits one user, and one user only ever comes in with a          *)
(* bootstrap code, however many of them a restarted host issues around the *)
(* first claim: everybody else was invited (ensure_bootstrap, claim_owner, *)
(* _consume_activation).                                                   *)
CodesAdmitOne ==
  \A u, v \in Users :
    /\ joined[u] # None /\ joined[v] # None
    /\ \/ joined[u] = joined[v]
       \/ codes[joined[u]].purpose = "bootstrap" /\ codes[joined[v]].purpose = "bootstrap"
    => u = v

(* Failures recorded in the window are fewer than the limit plus the       *)
(* requests that read the count before any of them was recorded (login).   *)
FailuresBounded ==
  \A u \in Users : Cardinality(Recent(u)) < AttemptLimit + Cardinality(Threads)

(* A session in use stays: as long as it was let in less than the idle     *)
(* time minus the coalescing interval ago, only its absolute end, a        *)
(* revocation or an update of its user can end it; and no use moves its    *)
(* expiry past that end (create_session, authenticate).                    *)
UseKeepsAlive ==
  \A s \in Sessions :
    sessions[s].status = "active" =>
      /\ sessions[s].idle >= MinOf(lastUse[s] + IdleSeconds - CoalesceSeconds + 1,
                                   sessions[s].absolute)
      /\ sessions[s].idle <= sessions[s].absolute

Granted(t, s) ==
  /\ req[t].pc # "granted"
  /\ req'[t].pc = "granted"
  /\ req'[t].session = s

(* A session that was in the table when its user was updated never lets a  *)
(* request in again (update_user, authenticate).  A login that was past    *)
(* the password by then inserts its session later, and that one does.      *)
PriorSessionsOut ==
  [][\A t \in Threads, s \in Sessions : Granted(t, s) => s \notin prior]_vars

(* After an origin has been revoked, and while nobody begins a login       *)
(* there, it has no active session (revoke_origin).  A login that was      *)
(* under way at the revocation is the exception: login checks the password *)
(* in one transaction and inserts the session in a later one.              *)
OriginStaysRevoked ==
  \A o \in Origins : shut[o] =>
    ~\E s \in Sessions : sessions[s].status = "active" /\ sessions[s].origin = o
=============================================================================
