------------------------------ MODULE Tailscale ------------------------------
(***************************************************************************)
(* Private access through Tailscale Serve.  The tailnet is configured by   *)
(* the user as well, so every operation observes it first (several         *)
(* commands, then a look at the remote_access row), acts, and writes the   *)
(* row.  Requests (enable, disable, a status page) and the reconciler run  *)
(* these steps in threads of their own and share no lock.                  *)
(*                                                                         *)
(* A mapping is "ours" when it is exactly the private root mapping to the  *)
(* ingress port for the current name, "mixed" when something else is       *)
(* configured beside it (or it is public), "foreign" when only something   *)
(* else is.  An identity stands for node, tailnet and DNS name together.   *)
(***************************************************************************)
EXTENDS Integers

CONSTANTS
  Callers,     \* the threads that serve requests
  Reconcilers, \* the reconciler thread, or none
  Ids,         \* identities the node can have
  NoId,        \* the identity of an observation that did not get to one
  Scopes       \* bounds: the threads and identities of one behaviour, and how
               \* many changes by the user, interruptions of the daemon or the
               \* login, host restarts, requests and exceptions there may be

ASSUME TailscaleAssumption ==
  /\ Callers \cap Reconcilers = {}
  /\ NoId \notin Ids
  /\ Ids # {}
  /\ Scopes \subseteq [threads : SUBSET (Callers \cup Reconcilers), ids : SUBSET Ids,
                        drifts : Nat, outages : Nat, restarts : Nat, calls : Nat,
                        raises : Nat]

VARIABLES
  scope,    \* the bounds of this behaviour
  tailnet,  \* what the tailscale daemon would answer
  access,   \* remote_access
  backend,  \* the Serve-only listener is open
  last,     \* the identity in last_observation
  op,       \* what each thread holds
  sessions, \* there are unrevoked sessions of Tailscale origin
  count,    \* how often the environment acted
  leftOpen  \* history: an exception ended an enable that had opened the listener,
            \* and nothing has closed the listener since

state         == <<access, backend, last, sessions>>
tailscaleVars == <<scope, tailnet, state, op, count, leftOpen>>

Threads  == Callers \cup Reconcilers
Mappings == {"none", "ours", "mixed", "foreign"}

AtRest ==
  [pc |-> "idle", goal |-> "none", id |-> NoId, mapping |-> "none",
   found |-> "none", before |-> NoId, fresh |-> FALSE,
   desired |-> FALSE, status |-> "not_installed"]

TailscaleInit ==
  /\ scope \in Scopes
  /\ \E id \in scope.ids : tailnet = [up |-> TRUE, id |-> id, mapping |-> "none"]
  /\ access = [desired |-> FALSE, id |-> NoId, status |-> "not_installed"]
  /\ backend = FALSE
  /\ last = NoId
  /\ op = [t \in Threads |-> AtRest]
  /\ sessions = FALSE
  /\ count = [drifts |-> 0, outages |-> 0, restarts |-> 0, calls |-> 0, raises |-> 0]
  /\ leftOpen = FALSE

-----------------------------------------------------------------------------
(* The tailnet, the browsers and the host.                                 *)

Unseen == [t \in Threads |-> [op[t] EXCEPT !.fresh = FALSE]]

Drift ==
  /\ count.drifts < scope.drifts
  /\ count' = [count EXCEPT !.drifts = @ + 1]
  /\ \E id \in scope.ids, mapping \in Mappings :
        tailnet' = [tailnet EXCEPT !.id = id, !.mapping = mapping]
  /\ tailnet' # tailnet
  /\ op' = Unseen
  /\ UNCHANGED <<state>>

Outage ==
  /\ tailnet.up
  /\ count.outages < scope.outages
  /\ count' = [count EXCEPT !.outages = @ + 1]
  /\ tailnet' = [tailnet EXCEPT !.up = FALSE]
  /\ UNCHANGED <<state, op>>

Recover ==
  /\ ~tailnet.up
  /\ tailnet' = [tailnet EXCEPT !.up = TRUE]
  /\ UNCHANGED <<state, op, count>>

\* A login through Serve: it must reach the open backend under the expected name.
SignIn ==
  /\ tailnet.up
  /\ tailnet.mapping \in {"ours", "mixed"}
  /\ backend
  /\ last = tailnet.id
  /\ sessions' = TRUE
  /\ UNCHANGED <<tailnet, access, backend, last, op, count>>

Restart ==
  /\ count.restarts < scope.restarts
  /\ count' = [count EXCEPT !.restarts = @ + 1]
  /\ backend' = FALSE
  /\ last' = NoId
  /\ op' = [t \in Threads |-> AtRest]
  /\ UNCHANGED <<tailnet, access, sessions>>

-----------------------------------------------------------------------------
(* observe: the identity, then the mappings, then the row.                 *)

StepTo(t, pc) == op' = [op EXCEPT ![t].pc = pc]
Finish(t)    == op' = [op EXCEPT ![t] = AtRest]
Observe(t, goal) == op' = [op EXCEPT ![t].pc = "status", ![t].goal = goal]

Call(t, goal) ==
  /\ op[t].pc = "idle"
  /\ count.calls < scope.calls
  /\ count' = [count EXCEPT !.calls = @ + 1]
  /\ Observe(t, goal)
  /\ UNCHANGED <<tailnet, state>>

StartReconcile(t) ==
  /\ op[t].pc = "idle"
  /\ Observe(t, "reconcile")
  /\ UNCHANGED <<tailnet, state, count>>

\* A command failed: the observation carries neither identity nor mappings.
Unavailable(t) ==
  /\ op' = [op EXCEPT ![t].pc = op[t].goal, ![t].id = NoId,
                      ![t].mapping = "none", ![t].found = "unavailable"]
  /\ last' = NoId

ReadStatus(t) ==
  /\ op[t].pc = "status"
  /\ IF tailnet.up
       THEN /\ op' = [op EXCEPT ![t].pc = "serve", ![t].id = tailnet.id]
            /\ UNCHANGED last
       ELSE Unavailable(t)
  /\ UNCHANGED <<tailnet, access, backend, sessions, count>>

ReadServe(t) ==
  /\ op[t].pc = "serve"
  /\ IF tailnet.up
       THEN /\ op' = [op EXCEPT ![t].pc = "judge", ![t].mapping = tailnet.mapping,
                                ![t].fresh = TRUE]
            /\ UNCHANGED last
       ELSE Unavailable(t)
  /\ UNCHANGED <<tailnet, access, backend, sessions, count>>

Verdict(o) ==
  CASE access.desired /\ o.mapping = "ours" /\ o.id = access.id -> "enabled"
    [] access.desired /\ ~(o.mapping = "ours" /\ o.id = access.id) -> "degraded"
    [] ~access.desired /\ o.mapping # "none" -> "conflict"
    [] OTHER -> "connected"

Judge(t) ==
  /\ op[t].pc = "judge"
  /\ op' = [op EXCEPT ![t].pc = op[t].goal, ![t].found = Verdict(op[t])]
  /\ last' = op[t].id
  /\ UNCHANGED <<tailnet, access, backend, sessions, count>>

\* The status page only wanted to look.
Show(t) ==
  /\ op[t].pc = "show"
  /\ Finish(t)
  /\ UNCHANGED <<tailnet, state, count>>

\* What the thread is going to write, after it has acted.
Decide(t, desired, status) ==
  op' = [op EXCEPT ![t].pc = "persist", ![t].desired = desired, ![t].status = status]

\* _persist writes the identity of the observation, whatever it is.
Persist(t) ==
  /\ op[t].pc = "persist"
  /\ access' = [desired |-> op[t].desired, id |-> op[t].id, status |-> op[t].status]
  /\ last' = IF op[t].status = "enabled" THEN op[t].id ELSE last
  /\ Finish(t)
  /\ UNCHANGED <<tailnet, backend, sessions, count>>

-----------------------------------------------------------------------------
(* enable.                                                                 *)

(* Mutant: somebody else's configuration is no reason to refuse.           *)
EnableOverConflict(t) ==
  /\ op[t].pc = "enable"
  /\ IF op[t].found \in {"connected", "conflict"}
       THEN /\ backend' = TRUE
            /\ op' = [op EXCEPT ![t].pc = "run", ![t].before = op[t].id]
       ELSE Finish(t) /\ UNCHANGED backend
  /\ UNCHANGED <<tailnet, access, last, sessions, count>>

Enable(t) ==
  /\ op[t].pc = "enable"
  /\ IF op[t].found = "connected"
       THEN /\ backend' = TRUE
            /\ op' = [op EXCEPT ![t].pc = "run", ![t].before = op[t].id]
       ELSE Finish(t) /\ UNCHANGED backend
  /\ UNCHANGED <<tailnet, access, last, sessions, count>>

\* serve --bg for the root path: beside what somebody else has configured, or over it.
Mapped == IF tailnet.mapping \in {"none", "ours"} THEN {"ours"} ELSE {"ours", "mixed"}

RunEnable(t) ==
  /\ op[t].pc = "run" /\ op[t].goal = "enable"
  /\ tailnet.up
  /\ \E mapping \in Mapped : tailnet' = [tailnet EXCEPT !.mapping = mapping]
  /\ Observe(t, "verify")
  /\ UNCHANGED <<state, count>>

(* Mutant: the listener stays open for the next attempt.                   *)
EnableFailsOpen(t) ==
  /\ op[t].pc = "run" /\ op[t].goal = "enable"
  /\ Decide(t, FALSE, "needs_serve_consent") \/ Finish(t)
  /\ UNCHANGED <<tailnet, access, backend, last, sessions, count>>

\* The command failed, perhaps because the tailnet asks for consent first.
EnableFails(t) ==
  /\ op[t].pc = "run" /\ op[t].goal = "enable"
  /\ backend' = FALSE
  /\ Decide(t, FALSE, "needs_serve_consent") \/ Finish(t)
  /\ UNCHANGED <<tailnet, access, last, sessions, count>>

Verified(t) == op[t].mapping = "ours" /\ op[t].id = op[t].before

Verify(t) ==
  /\ op[t].pc = "verify"
  /\ IF Verified(t)
       THEN Decide(t, TRUE, "enabled") /\ UNCHANGED backend
       ELSE Decide(t, FALSE, "cleanup_required") /\ backend' = FALSE
  /\ UNCHANGED <<tailnet, access, last, sessions, count>>

-----------------------------------------------------------------------------
(* disable.                                                                *)

(* Mutant: the sessions survive a disabling.                               *)
CloseOnly == backend' = FALSE /\ UNCHANGED sessions

CloseAndRevoke == backend' = FALSE /\ sessions' = FALSE

Owned(t) == op[t].mapping = "ours" /\ op[t].id = access.id

Disable(t) ==
  /\ op[t].pc = "disable"
  /\ \/ ~access.desired /\ backend' = FALSE /\ Finish(t) /\ UNCHANGED sessions
     \/ access.desired /\ ~Owned(t) /\ CloseAndRevoke /\ Decide(t, TRUE, "cleanup_required")
     \/ access.desired /\ Owned(t) /\ StepTo(t, "run") /\ UNCHANGED <<backend, sessions>>
  /\ UNCHANGED <<tailnet, access, last, count>>

\* "off" for the root path.
Unmapped ==
  CASE tailnet.mapping \in {"none", "ours"} -> {"none"}
    [] tailnet.mapping = "mixed"   -> {"foreign"}
    [] tailnet.mapping = "foreign" -> {"none", "foreign"}

RunDisable(t) ==
  /\ op[t].pc = "run" /\ op[t].goal = "disable"
  /\ tailnet.up
  /\ \E mapping \in Unmapped : tailnet' = [tailnet EXCEPT !.mapping = mapping]
  /\ Observe(t, "removed")
  /\ UNCHANGED <<state, count>>

DisableFails(t) ==
  /\ op[t].pc = "run" /\ op[t].goal = "disable"
  /\ Decide(t, TRUE, "cleanup_required")
  /\ UNCHANGED <<tailnet, access, backend, last, sessions, count>>

Removed(t) ==
  /\ op[t].pc = "removed"
  /\ IF op[t].mapping = "none"
       THEN CloseAndRevoke /\ Decide(t, FALSE, "connected")
       ELSE Decide(t, TRUE, "cleanup_required") /\ UNCHANGED <<backend, sessions>>
  /\ UNCHANGED <<tailnet, access, last, count>>

-----------------------------------------------------------------------------
(* reconcile.                                                              *)

(* Mutant: a degraded mapping is only reported.                            *)
ReconcileReports(t) ==
  /\ op[t].pc = "reconcile"
  /\ IF access.desired /\ op[t].found # "enabled"
       THEN Decide(t, TRUE, "degraded") /\ UNCHANGED <<backend, sessions>>
       ELSE /\ backend' = (backend \/ op[t].found = "enabled")
            /\ Finish(t)
            /\ UNCHANGED sessions
  /\ UNCHANGED <<tailnet, access, last, count>>

Reconcile(t) ==
  /\ op[t].pc = "reconcile"
  /\ IF access.desired /\ op[t].found # "enabled"
       THEN CloseAndRevoke /\ Decide(t, TRUE, "degraded")
       ELSE /\ backend' = (backend \/ op[t].found = "enabled")
            /\ Finish(t)
            /\ UNCHANGED sessions
  /\ UNCHANGED <<tailnet, access, last, count>>

-----------------------------------------------------------------------------
(* Exceptions that nothing between the step and the thread's top catches:  *)
(* those of the database, of a command that does not end in 30 seconds or  *)
(* cannot be run (only observe catches these), and of the listener's port. *)

\* A request ends; the loop of the reconciler has no try, and its thread ends.
Dead == [AtRest EXCEPT !.pc = "dead"]

Raise(t) ==
  /\ count.raises < scope.raises
  /\ count' = [count EXCEPT !.raises = @ + 1]
  /\ op' = [op EXCEPT ![t] = IF t \in Reconcilers THEN Dead ELSE AtRest]
  /\ UNCHANGED <<access, last>>

\* The row cannot be read or written, or the listener cannot be opened.
StepRaises(t) ==
  /\ op[t].pc \in {"judge", "enable", "disable", "reconcile", "persist"}
  /\ Raise(t)
  /\ UNCHANGED <<tailnet, backend, sessions>>

\* What the command has done by then stays done, and nothing is written of it.
CommandRaises(t) ==
  /\ op[t].pc = "run"
  /\ Raise(t)
  /\ \/ UNCHANGED tailnet
     \/ /\ tailnet.up
        /\ \E mapping \in IF op[t].goal = "enable" THEN Mapped ELSE Unmapped :
              tailnet' = [tailnet EXCEPT !.mapping = mapping]
  /\ UNCHANGED <<backend, sessions>>

\* The listener is closed, and then the sessions cannot be revoked.
RevokeRaises(t) ==
  /\ \/ op[t].pc = "disable" /\ access.desired /\ ~Owned(t)
     \/ op[t].pc = "removed" /\ op[t].mapping = "none"
     \/ op[t].pc = "reconcile" /\ access.desired /\ op[t].found # "enabled"
  /\ Raise(t)
  /\ backend' = FALSE
  /\ UNCHANGED <<tailnet, sessions>>

\* The thread is between enable's opening of the listener and its row.
Opened(t) == (op[t].goal = "enable" /\ op[t].pc = "run") \/ op[t].goal = "verify"

Raises(t) ==
  /\ StepRaises(t) \/ CommandRaises(t) \/ RevokeRaises(t)
  /\ leftOpen' = (backend' /\ (leftOpen \/ Opened(t)))

-----------------------------------------------------------------------------
(* Everything together.                                                    *)

Work(t) ==
  \/ ReadStatus(t) \/ ReadServe(t) \/ Judge(t) \/ Show(t) \/ Persist(t)
  \/ Enable(t) \/ RunEnable(t) \/ EnableFails(t) \/ Verify(t)
  \/ Disable(t) \/ RunDisable(t) \/ DisableFails(t) \/ Removed(t)
  \/ Reconcile(t)

Act ==
  \/ Drift \/ Outage \/ Recover \/ SignIn \/ Restart
  \/ \E t \in Callers \cap scope.threads, goal \in {"show", "enable", "disable"} :
        Call(t, goal)
  \/ \E t \in Reconcilers \cap scope.threads : StartReconcile(t)
  \/ \E t \in Threads \cap scope.threads : Work(t)

\* What is open by exception stays so until somebody closes it.
Recorded == UNCHANGED scope /\ leftOpen' = (leftOpen /\ backend')

TailscaleNext ==
  \/ Act /\ Recorded
  \/ UNCHANGED scope /\ \E t \in Threads \cap scope.threads : Raises(t)

TailscaleSpec == TailscaleInit /\ [][TailscaleNext]_tailscaleVars

\* Every command has a timeout and the reconciler wakes up every 30 seconds.
Fairness ==
  /\ \A t \in Threads : WF_tailscaleVars(t \in scope.threads /\ Work(t) /\ Recorded)
  /\ \A t \in Reconcilers :
        WF_tailscaleVars(t \in scope.threads /\ StartReconcile(t) /\ Recorded)

LiveTailscale == TailscaleSpec /\ Fairness

-----------------------------------------------------------------------------
(* What the adapter promises.                                              *)

(* Configuration of the user is never changed by a command of NomWatch,    *)
(* unless the user made it after the inventory the thread decided on       *)
(* (enable, disable; the inventory and the command are not one step).      *)
UserMappingKept ==
  [][\A t \in Threads :
       /\ op[t].pc = "run" /\ op'[t].pc # "run"
       /\ op[t].fresh
       /\ tailnet.mapping \in {"mixed", "foreign"}
       => tailnet'.mapping = tailnet.mapping]_tailscaleVars

NobodyActs == \A t \in Threads : op[t].pc \in {"idle", "dead"}

(* When nothing is under way and access is not wanted, the Serve-only      *)
(* listener is closed: ADR 0001 says that disabling private access closes  *)
(* it.                                                                     *)
ClosedWhenOff == NobodyActs /\ ~access.desired => ~backend

Alone == \E t \in Threads : scope.threads = {t}

(* One thread alone keeps that promise through every failure that enable   *)
(* and disable handle (a command that answers with an error, an inventory  *)
(* that does not verify), every change of the tailnet and every restart;   *)
(* and after an exception they do not handle, from the moment on that      *)
(* anything closes what an enable had left open.                           *)
AloneClosedWhenOff == Alone /\ ~leftOpen => ClosedWhenOff

(* When the row says that access was disabled, no session of Tailscale     *)
(* origin is left and the listener is closed, whatever was going on in the *)
(* tailnet meanwhile (disable, as long as no other thread is at work).     *)
DisableEndsAccess ==
  [][\A t \in Threads :
       Alone /\ op[t].pc = "persist" /\ op[t].status = "connected" /\ op'[t].pc = "idle"
       => ~sessions /\ ~backend]_tailscaleVars

Drifted ==
  /\ \E t \in Reconcilers \cap scope.threads : op[t].pc # "dead"
  /\ access.desired
  /\ (tailnet.mapping # "ours" \/ tailnet.id # access.id)

(* When the mapping or the identity drifts and stays so, the listener is   *)
(* closed and the sessions are revoked, as long as no exception has ended  *)
(* the reconciler's thread (reconcile).                                    *)
DriftCloses == Drifted ~> (~Drifted \/ (~backend /\ ~sessions))
=============================================================================
