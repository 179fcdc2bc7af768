------------------------------- MODULE Monitor -------------------------------
(***************************************************************************)
(* The life of the monitor worker: the supervisor launches it while        *)
(* monitoring is wanted, and after an exit waits for a delay that doubles  *)
(* with the exits of the last minute; the worker reads its configuration,  *)
(* takes the run lock, or leaves if somebody has it, and polls, which is   *)
(* Detection.  Others take the lock too: a monitor that somebody started   *)
(* by hand, and every look of the dashboard.                               *)
(*                                                                         *)
(* A pass of the supervisor over the worker is one step here; its steps,   *)
(* the other children and the lock around them are Supervisor's.  Time is  *)
(* relative: the ages of the exits, and what is left of the delay.         *)
(***************************************************************************)
EXTENDS Detection, FiniteSets

CONSTANTS
  Window,      \* 60 in the code, seconds
  Limit,       \* 5 in the code: exits in the window that make it degraded
  LongDelay,   \* 30 in the code, seconds
  Probes,      \* threads of the dashboard that look at the lock
  None,
  MaxEnv,      \* bound: acts of users and of the world outside
  MaxDeaths    \* bound: exits within a window in a history that has polls

ASSUME MonitorAssumption ==
  /\ {Window, Limit, LongDelay} \subseteq Nat \ {0}
  /\ {MaxEnv, MaxDeaths} \subseteq Nat
  /\ {None, "worker", "stray"} \cap Probes = {}
  /\ None \notin {"worker", "stray"}

VARIABLES
  desired,
  worker,      \* the process: none, starting, looping, or exited
  status,
  stamps,      \* restarts: the ages of the exits that were reaped
  wait,        \* what is left until next_start
  exits,       \* history: the ages of all exits that were reaped
  lock,        \* who holds run.lock
  usable,      \* the saved configuration is one a worker runs with
  env          \* how much of MaxEnv was used

managed     == <<desired, worker, status, stamps, wait, exits>>
monitorVars == <<managed, lock, usable, env>>
allVars     == <<vars, monitorVars>>

MonitorInit ==
  /\ Init
  /\ desired = FALSE
  /\ worker = "none"
  /\ status = "stopped"
  /\ stamps = {} /\ exits = {}
  /\ wait = 0
  /\ lock = None
  /\ usable \in BOOLEAN
  /\ env = 0

\* One act from outside.  A history with polls has no other than the one
\* that began it, and its time passes in the delays only.
Act == polls = <<>> /\ env < MaxEnv /\ env' = env + 1

-----------------------------------------------------------------------------
(* Time.                                                                   *)

Older(ages) == {a + 1 : a \in ages} \cap 0 .. (Window - 1)

Second ==
  /\ polls # <<>> => wait > 0
  /\ stamps' = Older(stamps)
  /\ exits' = Older(exits)
  /\ wait' = IF wait > 0 THEN wait - 1 ELSE 0
  /\ UNCHANGED <<vars, desired, worker, status, lock, usable, env>>

-----------------------------------------------------------------------------
(* The supervisor: one pass of _reconcile over the worker, made by its     *)
(* loop or by set_monitoring.                                              *)

Delay(n) == IF n >= Limit \/ 2 ^ (n - 1) > LongDelay THEN LongDelay ELSE 2 ^ (n - 1)

(* Mutant: an exit forgets the exits before it.                            *)
ReapedAlone ==
  IF worker # "exited"
  THEN [process |-> worker, stamps |-> stamps, wait |-> wait, status |-> status]
  ELSE [process |-> "none", stamps |-> {0},
        wait    |-> Delay(1),
        status  |-> "backoff"]

\* The child when its exit, if it had one, has been looked at.
Reaped ==
  IF worker # "exited"
  THEN [process |-> worker, stamps |-> stamps, wait |-> wait, status |-> status]
  ELSE LET n == Cardinality(stamps \cup {0}) IN
       [process |-> "none", stamps |-> stamps \cup {0},
        wait    |-> Delay(n),
        status  |-> IF n >= Limit THEN "degraded" ELSE "backoff"]

Record ==
  /\ stamps' = Reaped.stamps
  /\ exits' = IF worker = "exited" THEN exits \cup {0} ELSE exits

\* Whoever ends gives the lock back: the system does it.
Unlock(who) == lock' = IF lock = who THEN None ELSE lock

Unwanted ==
  /\ worker' = "none" /\ Unlock("worker")
  /\ status' = "stopped"
  /\ wait' = Reaped.wait

Keep ==
  /\ Reaped.process # "none"
  /\ status' = "ready"
  /\ UNCHANGED <<worker, wait, lock>>

(* Mutant: every pass over a child that cools down starts its delay anew.  *)
CoolAnew ==
  /\ Reaped.process = "none" /\ Reaped.wait > 0
  /\ worker' = "none"
  /\ status' = Reaped.status
  /\ wait' = IF Reaped.stamps = {} THEN LongDelay ELSE Delay(Cardinality(Reaped.stamps))
  /\ UNCHANGED lock

Cool ==
  /\ Reaped.process = "none" /\ Reaped.wait > 0
  /\ worker' = "none"
  /\ status' = Reaped.status
  /\ wait' = Reaped.wait
  /\ UNCHANGED lock

Launch ==
  /\ Reaped.process = "none" /\ Reaped.wait = 0
  /\ worker' = "starting"
  /\ status' = "ready"
  /\ wait' = 0
  /\ UNCHANGED lock

\* Popen fails: no stamp, and a long delay.
LaunchFails ==
  /\ Reaped.process = "none" /\ Reaped.wait = 0
  /\ worker' = "none"
  /\ status' = "degraded"
  /\ wait' = LongDelay
  /\ UNCHANGED lock

Pass ==
  /\ Record
  /\ \/ ~desired /\ Unwanted
     \/ desired /\ (Keep \/ Cool \/ Launch)
  /\ UNCHANGED <<vars, desired, usable, env>>

PassFails ==
  /\ desired /\ Act
  /\ Record /\ LaunchFails
  /\ UNCHANGED <<vars, desired, usable>>

SetMonitoring(wanted) ==
  /\ Act
  /\ desired' = wanted
  /\ Record
  /\ \/ ~wanted /\ Unwanted
     \/ wanted /\ (Keep \/ Cool \/ Launch)
  /\ UNCHANGED <<vars, usable>>

-----------------------------------------------------------------------------
(* The worker.                                                             *)

\* No configuration, an engine it does not drive, or a model not picked.
Refuses ==
  /\ worker = "starting"
  /\ ~usable \/ lock # None
  /\ worker' = "exited"
  /\ UNCHANGED <<vars, desired, status, stamps, wait, exits, lock, usable, env>>

EnterLoop ==
  /\ worker = "starting"
  /\ usable /\ lock = None
  /\ lock' = "worker"
  /\ worker' = "looping"
  /\ WorkerRestart
  /\ UNCHANGED <<desired, status, stamps, wait, exits, usable, env>>

WorkerPolls ==
  /\ worker = "looping"
  /\ polls = <<>> => env <= 1 /\ exits = {}
  /\ Poll
  /\ UNCHANGED monitorVars

WorkerDies ==
  /\ worker = "looping"
  /\ polls # <<>> => Cardinality(exits) < MaxDeaths
  /\ worker' = "exited"
  /\ Unlock("worker")
  /\ UNCHANGED <<vars, desired, status, stamps, wait, exits, usable, env>>

-----------------------------------------------------------------------------
(* The others.                                                             *)

\* run_loop_locked takes the lock to see whether it is free.
Look(p) ==
  /\ Act
  /\ lock = None
  /\ lock' = p
  /\ UNCHANGED <<vars, managed, usable>>

LookEnds(p) ==
  /\ lock = p
  /\ lock' = None
  /\ UNCHANGED <<vars, managed, usable, env>>

\* A monitor in a terminal, or of the legacy service.
StrayStarts ==
  /\ Act
  /\ lock = None
  /\ lock' = "stray"
  /\ UNCHANGED <<vars, managed, usable>>

StrayEnds ==
  /\ lock = "stray"
  /\ lock' = None
  /\ UNCHANGED <<vars, managed, usable, env>>

Reconfigure ==
  /\ Act
  /\ usable' = ~usable
  /\ UNCHANGED <<vars, managed, lock>>

-----------------------------------------------------------------------------

Progress == Pass \/ Refuses \/ EnterLoop \/ \E p \in Probes : LookEnds(p)

MonitorNext ==
  \/ Second \/ Progress \/ PassFails
  \/ \E wanted \in BOOLEAN : SetMonitoring(wanted)
  \/ WorkerPolls \/ WorkerDies
  \/ \E p \in Probes : Look(p)
  \/ StrayStarts \/ StrayEnds \/ Reconfigure

MonitorSpec == MonitorInit /\ [][MonitorNext]_allVars

(* Time passes, the loop of the supervisor makes its passes, a worker that *)
(* starts gets to its end or its loop, and a look ends.  A stray monitor   *)
(* need not end, nor a user do anything.                                   *)
FairMonitor ==
  /\ MonitorSpec
  /\ WF_allVars(Second)
  /\ WF_allVars(Pass)
  /\ WF_allVars(Refuses \/ EnterLoop)
  /\ \A p \in Probes : WF_allVars(LookEnds(p))

-----------------------------------------------------------------------------
(* Properties.                                                             *)

(* However the worker fails and whoever switches it off and on, within the *)
(* window it exits Limit times and then once for every long delay that     *)
(* fits into the rest (_reconcile: the stamps, the fifth exit, and the     *)
(* doubling delay, where stop and start do not shorten any of them).  Two  *)
(* exits a whole window apart are not within one, hence Window - 1.        *)
ExitsContained ==
  Cardinality(exits) <= Limit + (Window - 1) \div LongDelay

(* Monitoring that is wanted runs, in the end, unless it is switched off,  *)
(* the configuration is no good, or another monitor has the lock: looks of *)
(* the dashboard, refusals and delays only put it off.                     *)
MonitoringReturns ==
  desired /\ usable ~> worker = "looping" \/ ~desired \/ ~usable \/ lock = "stray"
=============================================================================
