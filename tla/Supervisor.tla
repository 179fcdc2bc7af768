----------------------------- MODULE Supervisor -----------------------------
(***************************************************************************)
(* The host's supervisor: a background thread reconciles every child       *)
(* process with what is desired of it, request threads switch monitoring   *)
(* on and off through the web or the control socket, and the main thread   *)
(* stops everything when the host shuts down.  All three work on the same  *)
(* children under one lock; the stop flag is read outside it.              *)
(*                                                                         *)
(* Time is abstract here: cooling says that a child's next_start lies      *)
(* ahead, and exits counts the restart stamps still inside the window (any *)
(* older ones may have been pruned, and Limit stands for Limit or more).   *)
(***************************************************************************)
EXTENDS Integers, Sequences

CONSTANTS
  Order,      \* the children in the order they were built
  Monitor,    \* the child that requests switch on and off
  Requests,   \* request threads, each handling one call of set_monitoring
  Free,       \* the owner of the lock when nobody holds it
  Probed,     \* the children with a readiness probe (mediamtx and its port)
  Slow,       \* the stages in which two seconds, the wait of stop, may pass
  Limit,      \* 5 in the code: exits in the window that make it degraded
  MaxExits,   \* bound: children that end by themselves
  MaxFaults   \* bound: exceptions that leave _launch or _terminate

Children == {Order[i] : i \in 1 .. Len(Order)}
Threads  == {"loop", "main"} \cup Requests

Stages == {"check", "want", "reap", "decide", "launch", "show", "terminate",
           "serving", "join", "stopping", "stopped", "exited",
           "new", "done", "over"}

ASSUME SupervisorAssumption ==
  /\ Order \in Seq(Children) /\ Order # <<>>
  /\ Monitor \in Children
  /\ Probed \subseteq Children
  /\ Limit \in Nat \ {0}
  /\ MaxExits \in Nat /\ MaxFaults \in Nat
  /\ Slow \subseteq Stages
  /\ Free \notin Threads
  /\ {"loop", "main"} \cap Requests = {}

VARIABLES
  desired, proc, status, exits, cooling, \* ManagedChild and its spec
  live,      \* operating-system processes running for each child
  owner,     \* who holds the supervisor's lock
  stopFlag,
  late,      \* history: stop waited for the loop in vain, and (once stop has the lock)
             \* the loop waits for the lock too, its look at the flag behind it
  pc, at,    \* what each thread is doing, and with the how-manieth child
  ended, faults \* how often MaxExits and MaxFaults were used

child == <<desired, proc, status, exits, cooling>>
vars  == <<child, live, owner, stopFlag, late, pc, at, ended, faults>>

Init ==
  /\ desired = [c \in Children |-> c # Monitor]
  /\ proc = [c \in Children |-> "none"]
  /\ status = [c \in Children |-> "stopped"]
  /\ exits = [c \in Children |-> 0]
  /\ cooling = [c \in Children |-> FALSE]
  /\ live = [c \in Children |-> 0]
  /\ owner = Free
  /\ stopFlag = FALSE
  /\ late = FALSE
  /\ pc = [t \in Threads |-> IF t = "loop" THEN "check"
                             ELSE IF t = "main" THEN "serving" ELSE "new"]
  /\ at = [t \in Threads |-> 1]
  /\ ended = 0
  /\ faults = 0

This(t) == Order[at[t]]

Goto(t, stage) == pc' = [pc EXCEPT ![t] = stage]

(* The host process is there, and with it its threads.                     *)
Running == pc["main"] # "exited"

-----------------------------------------------------------------------------
(* The environment.                                                        *)

ChildExits(c) ==
  /\ ended < MaxExits
  /\ live[c] > 0
  /\ live' = [live EXCEPT ![c] = @ - 1]
  /\ proc' = [proc EXCEPT ![c] = IF @ = "up" THEN "dead" ELSE @]
  /\ ended' = ended + 1
  /\ UNCHANGED <<desired, status, exits, cooling, owner, stopFlag, late, pc, at, faults>>

CoolingEnds(c) ==
  /\ Running
  /\ cooling[c]
  /\ cooling' = [cooling EXCEPT ![c] = FALSE]
  /\ UNCHANGED <<desired, proc, status, exits, live, owner, stopFlag, late, pc, at,
                 ended, faults>>

-----------------------------------------------------------------------------
(* Reconciling one child, by the thread t that holds the lock.             *)

(* Mutant: the exit stays out of the status.                               *)
ReapSilent(t) ==
  /\ Running /\ pc[t] = "reap"
  /\ Goto(t, "decide")
  /\ proc' = [proc EXCEPT ![This(t)] = IF @ = "dead" THEN "none" ELSE @]
  /\ cooling' = [cooling EXCEPT ![This(t)] = @ \/ proc[This(t)] = "dead"]
  /\ UNCHANGED <<desired, status, exits, live, owner, stopFlag, late, at, ended, faults>>

(* Mutant: a process that ended is not noticed.                            *)
ReapKeepsProcess(t) ==
  /\ Running /\ pc[t] = "reap"
  /\ Goto(t, "decide")
  /\ UNCHANGED <<child, live, owner, stopFlag, late, at, ended, faults>>

Reap(t) ==
  /\ Running /\ pc[t] = "reap"
  /\ Goto(t, "decide")
  /\ IF proc[This(t)] # "dead"
     THEN UNCHANGED child
     ELSE \E n \in 1 .. (exits[This(t)] + 1) :
             /\ n <= Limit
             /\ proc' = [proc EXCEPT ![This(t)] = "none"]
             /\ exits' = [exits EXCEPT ![This(t)] = n]
             /\ cooling' = [cooling EXCEPT ![This(t)] = TRUE]
             /\ status' = [status EXCEPT ![This(t)] =
                             IF n = Limit THEN "degraded" ELSE "backoff"]
             /\ UNCHANGED desired
  /\ UNCHANGED <<live, owner, stopFlag, late, at, ended, faults>>

(* The pass goes on with the next child, or ends and releases the lock.    *)
Advance(t) ==
  IF t = "loop" /\ at[t] < Len(Order)
  THEN /\ at' = [at EXCEPT ![t] = @ + 1]
       /\ Goto(t, "reap")
       /\ UNCHANGED owner
  ELSE /\ at' = [at EXCEPT ![t] = 1]
       /\ Goto(t, IF t = "loop" THEN "check" ELSE "done")
       /\ owner' = Free

(* Mutant: an unwanted child is only marked as stopped.                    *)
DecideMarksOnly(t) ==
  /\ Running /\ pc[t] = "decide"
  /\ LET c == This(t) IN
     \/ /\ ~desired[c]
        /\ status' = [status EXCEPT ![c] = "stopped"]
        /\ Advance(t)
     \/ /\ desired[c] /\ proc[c] = "none" /\ ~cooling[c]
        /\ Goto(t, "launch")
        /\ UNCHANGED <<status, at, owner>>
     \/ /\ desired[c] /\ (proc[c] # "none" \/ cooling[c])
        /\ Goto(t, "show")
        /\ UNCHANGED <<status, at, owner>>
  /\ UNCHANGED <<desired, proc, exits, cooling, live, stopFlag, late, ended, faults>>

Decide(t) ==
  /\ Running /\ pc[t] = "decide"
  /\ LET c == This(t) IN
     \/ /\ ~desired[c] /\ proc[c] # "none"
        /\ Goto(t, "terminate")
        /\ UNCHANGED <<status, at, owner>>
     \/ /\ ~desired[c] /\ proc[c] = "none"
        /\ status' = [status EXCEPT ![c] = "stopped"]
        /\ Advance(t)
     \/ /\ desired[c] /\ proc[c] = "none" /\ ~cooling[c]
        /\ Goto(t, "launch")
        /\ UNCHANGED <<status, at, owner>>
     \/ /\ desired[c] /\ (proc[c] # "none" \/ cooling[c])
        /\ Goto(t, "show")
        /\ UNCHANGED <<status, at, owner>>
  /\ UNCHANGED <<desired, proc, exits, cooling, live, stopFlag, late, ended, faults>>

Launch(t) ==
  /\ Running /\ pc[t] = "launch"
  /\ Goto(t, "show")
  /\ proc' = [proc EXCEPT ![This(t)] = "up"]
  /\ live' = [live EXCEPT ![This(t)] = @ + 1]
  /\ status' = [status EXCEPT ![This(t)] = "starting"]
  /\ UNCHANGED <<desired, exits, cooling, owner, stopFlag, late, at, ended, faults>>

(* Popen fails: no such program, no memory.                                *)
LaunchFails(t) ==
  /\ Running /\ pc[t] = "launch"
  /\ Goto(t, "show")
  /\ proc' = [proc EXCEPT ![This(t)] = "none"]
  /\ status' = [status EXCEPT ![This(t)] = "degraded"]
  /\ cooling' = [cooling EXCEPT ![This(t)] = TRUE]
  /\ UNCHANGED <<desired, exits, live, owner, stopFlag, late, at, ended, faults>>

(* The last lines of _reconcile.  A process there is shows as ready, or    *)
(* as starting while its readiness probe, if it has one, fails.            *)
Show(t) ==
  /\ Running /\ pc[t] = "show"
  /\ IF proc[This(t)] = "none"
     THEN UNCHANGED status
     ELSE \E s \in {"ready"} \cup (IF This(t) \in Probed THEN {"starting"} ELSE {}) :
             status' = [status EXCEPT ![This(t)] = s]
  /\ Advance(t)
  /\ UNCHANGED <<desired, proc, exits, cooling, live, stopFlag, late, ended, faults>>

(* After SIGTERM, or SIGKILL ten seconds later, the process is gone.       *)
Terminated(t) ==
  /\ Running /\ pc[t] = "terminate"
  /\ proc' = [proc EXCEPT ![This(t)] = "none"]
  /\ live' = [live EXCEPT ![This(t)] = IF proc[This(t)] = "up" THEN @ - 1 ELSE @]
  /\ status' = [status EXCEPT ![This(t)] = "stopped"]
  /\ Advance(t)
  /\ UNCHANGED <<desired, exits, cooling, stopFlag, late, ended, faults>>

(* An exception leaves the reconciliation and the lock: opening the log    *)
(* fails, or the process outlives even SIGKILL for five seconds.  It ends  *)
(* the loop's thread for good, or one request.                             *)
Fault(t) ==
  /\ Running /\ pc[t] \in {"launch", "terminate"}
  /\ faults < MaxFaults
  /\ faults' = faults + 1
  /\ Goto(t, IF t = "loop" THEN "over" ELSE "done")
  /\ at' = [at EXCEPT ![t] = 1]
  /\ owner' = Free
  /\ UNCHANGED <<child, live, stopFlag, late, ended>>

Reconcile(t) ==
  \/ Reap(t)
  \/ Decide(t)
  \/ Launch(t)
  \/ LaunchFails(t)
  \/ Show(t)
  \/ Terminated(t)
  \/ Fault(t)

-----------------------------------------------------------------------------
(* The loop thread.                                                        *)

(* Mutant: the loop does not look at the stop flag.                        *)
LoopChecksNothing ==
  /\ Running /\ pc["loop"] = "check"
  /\ Goto("loop", "want")
  /\ UNCHANGED <<child, live, owner, stopFlag, late, at, ended, faults>>

LoopCheck ==
  /\ Running /\ pc["loop"] = "check"
  /\ Goto("loop", IF stopFlag THEN "over" ELSE "want")
  /\ UNCHANGED <<child, live, owner, stopFlag, late, at, ended, faults>>

LoopAcquire ==
  /\ Running /\ pc["loop"] = "want"
  /\ owner = Free
  /\ owner' = "loop"
  /\ Goto("loop", "reap")
  /\ UNCHANGED <<child, live, stopFlag, late, at, ended, faults>>

-----------------------------------------------------------------------------
(* A request: set_monitoring(wanted).                                      *)

Call(r) ==
  /\ pc[r] = "new" /\ pc["main"] = "serving"
  /\ Goto(r, "want")
  /\ UNCHANGED <<child, live, owner, stopFlag, late, at, ended, faults>>

(* Mutant: the request does not take the lock.                             *)
RequestUnlocked(r) ==
  /\ Running /\ pc[r] = "want"
  /\ \E wanted \in BOOLEAN : desired' = [desired EXCEPT ![Monitor] = wanted]
  /\ at' = [at EXCEPT ![r] = CHOOSE i \in 1 .. Len(Order) : Order[i] = Monitor]
  /\ Goto(r, "reap")
  /\ UNCHANGED <<owner, proc, status, exits, cooling, live, stopFlag, late, ended, faults>>

RequestAcquire(r) ==
  /\ Running /\ pc[r] = "want"
  /\ owner = Free
  /\ owner' = r
  /\ \E wanted \in BOOLEAN : desired' = [desired EXCEPT ![Monitor] = wanted]
  /\ at' = [at EXCEPT ![r] = CHOOSE i \in 1 .. Len(Order) : Order[i] = Monitor]
  /\ Goto(r, "reap")
  /\ UNCHANGED <<proc, status, exits, cooling, live, stopFlag, late, ended, faults>>

-----------------------------------------------------------------------------
(* The main thread's stop.                                                 *)

StopBegins ==
  /\ pc["main"] = "serving"
  /\ stopFlag' = TRUE
  /\ Goto("main", "join")
  /\ UNCHANGED <<child, live, owner, late, at, ended, faults>>

(* Mutant: stop does not wait for the loop.                                *)
JoinSkipped ==
  /\ pc["main"] = "join"
  /\ Goto("main", "want")
  /\ UNCHANGED <<child, live, owner, stopFlag, late, at, ended, faults>>

(* join returns when the loop has ended, or after two seconds, which pass  *)
(* only while some thread is at a stage that can last that long.           *)
JoinReturns ==
  /\ pc["main"] = "join"
  /\ pc["loop"] = "over" \/ \E t \in Threads : pc[t] \in Slow
  /\ late' = (pc["loop"] # "over")
  /\ Goto("main", "want")
  /\ UNCHANGED <<child, live, owner, stopFlag, at, ended, faults>>

StopAcquire ==
  /\ pc["main"] = "want"
  /\ owner = Free
  /\ owner' = "main"
  /\ at' = [at EXCEPT !["main"] = Len(Order)]
  /\ Goto("main", "stopping")
  /\ late' = (late /\ pc["loop"] = "want")
  /\ UNCHANGED <<child, live, stopFlag, ended, faults>>

(* _terminate of each child, the last one built first.                     *)
StopChild ==
  /\ pc["main"] = "stopping"
  /\ LET c == This("main") IN
     /\ proc' = [proc EXCEPT ![c] = "none"]
     /\ live' = [live EXCEPT ![c] = IF proc[c] = "up" THEN @ - 1 ELSE @]
  /\ IF at["main"] > 1
     THEN /\ at' = [at EXCEPT !["main"] = @ - 1]
          /\ UNCHANGED <<pc, owner>>
     ELSE /\ Goto("main", "stopped")
          /\ owner' = Free
          /\ UNCHANGED at
  /\ UNCHANGED <<desired, status, exits, cooling, stopFlag, late, ended, faults>>

(* A process outlives its SIGKILL too, and the exception leaves stop.      *)
StopFault ==
  /\ pc["main"] = "stopping"
  /\ proc[This("main")] = "up"
  /\ faults < MaxFaults
  /\ faults' = faults + 1
  /\ Goto("main", "stopped")
  /\ owner' = Free
  /\ UNCHANGED <<child, live, stopFlag, late, at, ended>>

(* The interpreter ends, and the daemon threads with it.                   *)
HostExits ==
  /\ pc["main"] = "stopped"
  /\ pc' = [t \in Threads |-> IF t = "main" THEN "exited" ELSE "over"]
  /\ UNCHANGED <<child, live, owner, stopFlag, late, at, ended, faults>>

-----------------------------------------------------------------------------

Loop == LoopCheck \/ LoopAcquire \/ Reconcile("loop")

Request(r) == RequestAcquire(r) \/ Reconcile(r)

Stop == JoinReturns \/ StopAcquire \/ StopChild \/ StopFault \/ HostExits

Next ==
  \/ \E c \in Children : ChildExits(c) \/ CoolingEnds(c)
  \/ Loop
  \/ \E r \in Requests : Call(r) \/ Request(r)
  \/ StopBegins
  \/ Stop

Spec == Init /\ [][Next]_vars

(* Threads are scheduled, a backoff ends, and every wait has a timeout.    *)
(* Nobody need call, stop the host, or have a child exit.                  *)
Fairness ==
  /\ WF_vars(Loop)
  /\ \A r \in Requests : WF_vars(Request(r))
  /\ WF_vars(Stop)
  /\ \A c \in Children : WF_vars(CoolingEnds(c))

FairSpec == Spec /\ Fairness

-----------------------------------------------------------------------------
(* Properties.                                                             *)

TypeOK ==
  /\ desired \in [Children -> BOOLEAN]
  /\ proc \in [Children -> {"none", "up", "dead"}]
  /\ status \in [Children -> {"stopped", "starting", "ready", "backoff", "degraded"}]
  /\ exits \in [Children -> 0 .. Limit]
  /\ cooling \in [Children -> BOOLEAN]
  /\ live \in [Children -> Nat]
  /\ owner \in Threads \cup {Free}
  /\ stopFlag \in BOOLEAN /\ late \in BOOLEAN
  /\ pc \in [Threads -> Stages]
  /\ at \in [Threads -> 1 .. Len(Order)]
  /\ ended \in 0 .. MaxExits
  /\ faults \in 0 .. MaxFaults

(* The loop, the requests and the stop together never run a second copy of *)
(* a child, and never lose the handle of a running one: a process runs     *)
(* exactly when the child's handle is one of a running process.            *)
OneProcessPerChild ==
  \A c \in Children : live[c] = IF proc[c] = "up" THEN 1 ELSE 0

(* When nobody is at work on the children, one that is not wanted is not   *)
(* running: "stop monitoring" is done when the call returns, whatever the  *)
(* loop does meanwhile.                                                    *)
OffMeansOff ==
  owner = Free /\ faults = 0 => \A c \in Children : ~desired[c] => live[c] = 0

(* What health answers; it needs the lock.                                 *)
Health ==
  [children |-> [c \in Children |-> [status |-> status[c], pid |-> proc[c] # "none"]],
   status   |-> IF \E c \in Children : desired[c] /\ status[c] = "degraded"
                THEN "degraded" ELSE "ready"]

(* What health reports between two passes: a child shown as ready or       *)
(* starting has a process behind it (it may have ended since the pass),    *)
(* and one shown as stopped, backing off or degraded has none, even after  *)
(* an exception left a pass halfway.  Only the final stop leaves the       *)
(* statuses as they were.                                                  *)
HealthIsHonest ==
  owner = Free /\ pc["main"] \in {"serving", "join", "want"} =>
    \A c \in Children :
      Health.children[c].status \in {"ready", "starting"} <=> Health.children[c].pid

(* After the host has gone, no child that only the loop starts is running, *)
(* even if stop waited two seconds for the loop in vain.  One case is left *)
(* out: the loop had looked at the flag before it was set and was waiting  *)
(* for the lock when stop took it, because a termination under the lock    *)
(* had outlasted the two seconds; its last pass then follows stop's.       *)
LoopChildrenStopped ==
  pc["main"] = "exited" /\ faults = 0 /\ ~late =>
    \A c \in Children \ {Monitor} : live[c] = 0

(* While its thread lives, and until the host stops, the loop brings a     *)
(* wanted child back or shows it as degraded: ADR 0001 promises backoff    *)
(* and "a visible degraded state", never a child silently left down.  Only *)
(* an exception that ends the thread (Fault) makes that promise void.      *)
KeptUp ==
  \A c \in Children :
    []<>(\/ proc[c] = "up" \/ status[c] = "degraded" \/ ~desired[c]
         \/ pc["loop"] = "over" \/ stopFlag)

(* Stopping the host ends: nobody keeps the lock from the main thread.     *)
StopCompletes == stopFlag ~> pc["main"] = "exited"
=============================================================================
