------------------------------- MODULE Outbox -------------------------------
(***************************************************************************)
(* The durable outbox.  The monitor inserts an event and its finalization  *)
(* job in one transaction; job workers claim a due job, build the clip,    *)
(* push the notification, upload the clip and then write the outcome to    *)
(* both rows.  A worker may die between any two of these steps; what it    *)
(* held in memory is gone and the rows stay as they were.                  *)
(*                                                                         *)
(* An event and its job share a name: the job's idempotency key is         *)
(* "finalize:" followed by the event's id.  Every transaction is BEGIN     *)
(* IMMEDIATE on one SQLite file, hence one atomic step.  Time is in        *)
(* seconds.                                                                *)
(***************************************************************************)
EXTENDS Integers, FiniteSets

CONSTANTS
  Events,      \* the events that may be detected
  Workers,     \* the processes that run "nomwatch jobs"
  NoJob,
  Configs,     \* the configurations a finalization may load
  NoConfig,
  MaxAttempts, \* 5 in the code
  BackoffCap,  \* 300 in the code
  Delays,      \* how far ahead of the insertion run_at may lie
  CompactAge,  \* 7 days in the code
  MaxTime,     \* bound: the clock runs on past it only towards a due job
  MaxCrashes   \* bound: worker deaths

ASSUME OutboxAssumption ==
  /\ NoJob \notin Events
  /\ NoConfig \notin Configs
  /\ Configs \subseteq [notifier : BOOLEAN, storage : BOOLEAN, clips : BOOLEAN]
  /\ MaxAttempts \in Nat \ {0}
  /\ BackoffCap \in Nat
  /\ CompactAge \in Nat
  /\ Delays \subseteq Nat
  /\ MaxTime \in Nat
  /\ MaxCrashes \in Nat
  \* Arithmetic the provers do not know; Backoff uses it.
  /\ \A n \in 0 .. MaxAttempts : 2^n \in Nat

VARIABLES
  events,  \* the status of each row of events, "absent" before the insertion
  jobs,    \* each row of jobs, status "absent" when there is none
  worker,  \* what each worker holds in memory
  now,
  crashes,
  notices, media, uploads  \* effects per event: pushes, media rows, uploads

tables  == <<events, jobs>>
effects == <<notices, media, uploads>>
vars    == <<tables, worker, now, crashes, effects>>

EventStatus == {"absent", "pending", "complete", "failed"}
JobStatus   == {"absent", "pending", "running", "retry", "complete", "failed"}
Stages      == {"idle", "config", "clip", "notify", "upload", "finish", "retry"}

NoRow == [status |-> "absent", attempts |-> 0, runAt |-> 0, updated |-> 0]
Idle  == [pc |-> "idle", job |-> NoJob, attempts |-> 0, cfg |-> NoConfig, clip |-> FALSE]

Init ==
  /\ events = [e \in Events |-> "absent"]
  /\ jobs = [e \in Events |-> NoRow]
  /\ worker = [w \in Workers |-> Idle]
  /\ now = 0
  /\ crashes = 0
  /\ notices = [e \in Events |-> 0]
  /\ media = [e \in Events |-> 0]
  /\ uploads = [e \in Events |-> 0]

Goto(w, stage) == worker' = [worker EXCEPT ![w].pc = stage]

AddOne(f, e) == [f EXCEPT ![e] = @ + 1]

-----------------------------------------------------------------------------
(* The clock, the detection side and the maintenance command.              *)

Waiting(e) == jobs[e].status \in {"pending", "retry"}

Tick ==
  /\ now < MaxTime \/ \E e \in Events : Waiting(e) /\ jobs[e].runAt > now
  /\ now' = now + 1
  /\ UNCHANGED <<tables, worker, crashes, effects>>

PersistEventWithJob(e) ==
  /\ now <= MaxTime
  /\ events[e] = "absent"
  /\ events' = [events EXCEPT ![e] = "pending"]
  /\ \E delay \in Delays :
        jobs' = [jobs EXCEPT ![e] = [status |-> "pending", attempts |-> 0,
                                     runAt |-> now + delay, updated |-> now]]
  /\ UNCHANGED <<worker, now, crashes, effects>>

CompactState ==
  /\ jobs' = [e \in Events |->
                IF jobs[e].status = "complete" /\ jobs[e].updated < now - CompactAge
                THEN NoRow ELSE jobs[e]]
  /\ jobs' # jobs
  /\ UNCHANGED <<events, worker, now, crashes, effects>>

-----------------------------------------------------------------------------
(* The worker.                                                             *)

Due(e) == Waiting(e) /\ jobs[e].runAt <= now

(* Mutant: the claim reads the row but does not mark it.                   *)
ClaimReadsOnly(w, e) ==
  /\ worker[w].pc = "idle"
  /\ Due(e)
  /\ \A f \in Events : Due(f) => jobs[e].runAt <= jobs[f].runAt
  /\ jobs' = [jobs EXCEPT ![e].attempts = @ + 1, ![e].updated = now]
  /\ worker' = [worker EXCEPT ![w] =
                  [Idle EXCEPT !.pc = "config", !.job = e,
                               !.attempts = jobs[e].attempts + 1]]
  /\ UNCHANGED <<events, now, crashes, effects>>

(* Mutant: the claim looks for new jobs only.                              *)
ClaimPendingOnly(w, e) ==
  /\ worker[w].pc = "idle"
  /\ jobs[e].status = "pending" /\ jobs[e].runAt <= now
  /\ jobs' = [jobs EXCEPT ![e].status = "running",
                          ![e].attempts = @ + 1, ![e].updated = now]
  /\ worker' = [worker EXCEPT ![w] =
                  [Idle EXCEPT !.pc = "config", !.job = e,
                               !.attempts = jobs[e].attempts + 1]]
  /\ UNCHANGED <<events, now, crashes, effects>>

(* Mutant: the claim forgets to count the attempt.                         *)
ClaimUncounted(w, e) ==
  /\ worker[w].pc = "idle"
  /\ Due(e)
  /\ jobs' = [jobs EXCEPT ![e].status = "running", ![e].updated = now]
  /\ worker' = [worker EXCEPT ![w] =
                  [Idle EXCEPT !.pc = "config", !.job = e,
                               !.attempts = jobs[e].attempts]]
  /\ UNCHANGED <<events, now, crashes, effects>>

(* The earliest due job, any of them when several are due at that time     *)
(* (the remaining order is by random id).                                  *)
ClaimJob(w, e) ==
  /\ worker[w].pc = "idle"
  /\ Due(e)
  /\ \A f \in Events : Due(f) => jobs[e].runAt <= jobs[f].runAt
  /\ jobs' = [jobs EXCEPT ![e].status = "running",
                          ![e].attempts = @ + 1, ![e].updated = now]
  /\ worker' = [worker EXCEPT ![w] =
                  [Idle EXCEPT !.pc = "config", !.job = e,
                               !.attempts = jobs[e].attempts + 1]]
  /\ UNCHANGED <<events, now, crashes, effects>>

(* An exception in a stage, or a refused push, ends in retry_job.          *)
Raise(w) ==
  /\ \/ worker[w].pc \in {"config", "clip", "finish"}
     \/ worker[w].pc = "notify" /\ worker[w].cfg.notifier
     \/ worker[w].pc = "upload" /\ worker[w].clip
  /\ Goto(w, "retry")
  /\ UNCHANGED <<tables, now, crashes, effects>>

LoadConfig(w) ==
  /\ worker[w].pc = "config"
  /\ \E cfg \in Configs :
        worker' = [worker EXCEPT ![w].pc = "clip", ![w].cfg = cfg]
  /\ UNCHANGED <<tables, now, crashes, effects>>

(* A clip is recorded and gets a media row, or there is none (not          *)
(* configured, or ffmpeg failed) and the finalization goes on without.     *)
MakeClip(w) ==
  /\ worker[w].pc = "clip"
  /\ \/ /\ worker[w].cfg.clips
        /\ media' = AddOne(media, worker[w].job)
        /\ worker' = [worker EXCEPT ![w].pc = "notify", ![w].clip = TRUE]
     \/ /\ Goto(w, "notify")
        /\ UNCHANGED media
  /\ UNCHANGED <<tables, now, crashes, notices, uploads>>

(* Mutant: a refused push is taken for a delivered one.                    *)
NotifyUnchecked(w) ==
  /\ worker[w].pc = "notify"
  /\ Goto(w, "upload")
  /\ \/ notices' = AddOne(notices, worker[w].job) /\ worker[w].cfg.notifier
     \/ UNCHANGED notices
  /\ UNCHANGED <<tables, now, crashes, media, uploads>>

Notify(w) ==
  /\ worker[w].pc = "notify"
  /\ Goto(w, "upload")
  /\ IF worker[w].cfg.notifier
     THEN notices' = AddOne(notices, worker[w].job)
     ELSE UNCHANGED notices
  /\ UNCHANGED <<tables, now, crashes, media, uploads>>

(* The provider took the message but the answer was lost or not a success. *)
NotifyUnanswered(w) ==
  /\ worker[w].pc = "notify"
  /\ worker[w].cfg.notifier
  /\ notices' = AddOne(notices, worker[w].job)
  /\ Goto(w, "retry")
  /\ UNCHANGED <<tables, now, crashes, media, uploads>>

Upload(w) ==
  /\ worker[w].pc = "upload"
  /\ Goto(w, "finish")
  /\ IF worker[w].clip /\ worker[w].cfg.storage
     THEN uploads' = AddOne(uploads, worker[w].job)
     ELSE UNCHANGED uploads
  /\ UNCHANGED <<tables, now, crashes, notices, media>>

(* Mutant: only the job's row is updated.                                  *)
FinishJobRowOnly(w) ==
  /\ worker[w].pc = "finish"
  /\ jobs' = [jobs EXCEPT ![worker[w].job].status = "complete",
                          ![worker[w].job].updated = now]
  /\ worker' = [worker EXCEPT ![w] = Idle]
  /\ UNCHANGED <<events, now, crashes, effects>>

FinishJob(w) ==
  /\ worker[w].pc = "finish"
  /\ jobs' = [jobs EXCEPT ![worker[w].job].status = "complete",
                          ![worker[w].job].updated = now]
  /\ events' = [events EXCEPT ![worker[w].job] = "complete"]
  /\ worker' = [worker EXCEPT ![w] = Idle]
  /\ UNCHANGED <<now, crashes, effects>>

Backoff(attempts) == IF 2^attempts < BackoffCap THEN 2^attempts ELSE BackoffCap

Terminal(attempts) == attempts >= MaxAttempts

(* Mutant: a job that may be tried again keeps the status of its claim.    *)
RetryStaysRunning(w) ==
  /\ worker[w].pc = "retry"
  /\ jobs' = [jobs EXCEPT ![worker[w].job].status =
                 IF Terminal(worker[w].attempts) THEN "failed" ELSE "running"]
  /\ events' = [events EXCEPT ![worker[w].job] =
                 IF Terminal(worker[w].attempts) THEN "failed" ELSE "pending"]
  /\ worker' = [worker EXCEPT ![w] = Idle]
  /\ UNCHANGED <<now, crashes, effects>>

RetryJob(w) ==
  /\ worker[w].pc = "retry"
  /\ LET attempts == worker[w].attempts IN
     /\ jobs' = [jobs EXCEPT ![worker[w].job] =
                   [status   |-> IF Terminal(attempts) THEN "failed" ELSE "retry",
                    attempts |-> jobs[worker[w].job].attempts,
                    runAt    |-> now + Backoff(attempts),
                    updated  |-> now]]
     /\ events' = [events EXCEPT ![worker[w].job] =
                     IF Terminal(attempts) THEN "failed" ELSE "pending"]
  /\ worker' = [worker EXCEPT ![w] = Idle]
  /\ UNCHANGED <<now, crashes, effects>>

(* The process dies: killed, out of power, or a database error escaping    *)
(* claim_job or retry_job.  The supervisor starts another in its place.    *)
Crash(w) ==
  /\ crashes < MaxCrashes
  /\ worker[w].pc # "idle"
  /\ crashes' = crashes + 1
  /\ worker' = [worker EXCEPT ![w] = Idle]
  /\ UNCHANGED <<tables, now, effects>>

Work(w) ==
  \/ LoadConfig(w)
  \/ MakeClip(w)
  \/ Notify(w)
  \/ NotifyUnanswered(w)
  \/ Upload(w)
  \/ FinishJob(w)
  \/ RetryJob(w)
  \/ Raise(w)

Next ==
  \/ Tick
  \/ CompactState
  \/ \E e \in Events : PersistEventWithJob(e)
  \/ \E w \in Workers : \/ \E e \in Events : ClaimJob(w, e)
                        \/ Work(w)
                        \/ Crash(w)

Spec == Init /\ [][Next]_vars

(* The clock does not stop, and a live worker keeps running: every stage   *)
(* has a timeout or a bounded subprocess, and an idle worker polls.        *)
Fairness ==
  /\ WF_vars(Tick)
  /\ \A w \in Workers : WF_vars(Work(w) \/ \E e \in Events : ClaimJob(w, e))

FairSpec == Spec /\ Fairness

-----------------------------------------------------------------------------
(* Properties.                                                             *)

Settled == {"complete", "failed"}

(* Every variable has its type, and no job is attempted more than          *)
(* MaxAttempts times.                                                      *)
TypeOK ==
  /\ events \in [Events -> EventStatus]
  /\ jobs \in [Events -> [status : JobStatus, attempts : 0 .. MaxAttempts,
                          runAt : Nat, updated : Nat]]
  /\ worker \in [Workers -> [pc : Stages, job : Events \cup {NoJob},
                             attempts : 0 .. MaxAttempts,
                             cfg : Configs \cup {NoConfig}, clip : BOOLEAN]]
  /\ now \in Nat
  /\ crashes \in 0 .. MaxCrashes
  /\ notices \in [Events -> Nat]
  /\ media \in [Events -> Nat]
  /\ uploads \in [Events -> Nat]

(* The two tables tell the same story of every event: it is pending        *)
(* exactly while its job is unfinished, failed exactly when the job is,    *)
(* and complete when the job is complete or compacted away.                *)
EventJobAgree ==
  \A e \in Events :
     /\ events[e] = "absent" => jobs[e] = NoRow
     /\ events[e] = "pending" <=> jobs[e].status \in {"pending", "running", "retry"}
     /\ events[e] = "failed" <=> jobs[e].status = "failed"
     /\ events[e] = "complete" => jobs[e].status \in {"complete", "absent"}

(* A job is in the hands of one worker at most, and that worker's copy of  *)
(* the attempt count is the row's: finish_job and retry_job, which update  *)
(* by id alone, cannot overwrite another worker's outcome.                 *)
OneHolder ==
  /\ \A w \in Workers : worker[w].pc # "idle" =>
        /\ worker[w].job \in Events
        /\ jobs[worker[w].job].status = "running"
        /\ jobs[worker[w].job].attempts = worker[w].attempts
  /\ \A v, w \in Workers :
        v # w /\ worker[v].pc # "idle" /\ worker[w].pc # "idle"
          => worker[v].job # worker[w].job

(* An event is given up only after MaxAttempts attempts.                   *)
FailedExhausted ==
  \A e \in Events : events[e] = "failed" => jobs[e].attempts = MaxAttempts

(* Each attempt repeats the side effects at most once.                     *)
EffectsBounded ==
  \A e \in Events : jobs[e].status # "absent" =>
     /\ notices[e] <= jobs[e].attempts
     /\ media[e] <= jobs[e].attempts
     /\ uploads[e] <= jobs[e].attempts

(* What an attempt is asked to deliver, as the worker w knows it: the      *)
(* notification once the configuration is read, and the clip once there is *)
(* one that has to be uploaded.                                            *)
Asked(w, good) ==
  /\ worker[w].cfg # NoConfig
  /\ \/ good = "notice" /\ worker[w].cfg.notifier
     \/ good = "clip" /\ worker[w].clip /\ worker[w].cfg.storage

AskedFor(e) ==
  {good \in {"notice", "clip"} : \E w \in Workers : worker[w].job = e /\ Asked(w, good)}

Delivered(e) ==
  {good \in {"notice", "clip"} : \/ good = "notice" /\ notices[e] > 0
                                 \/ good = "clip" /\ uploads[e] > 0}

D == INSTANCE Delivery WITH
       Goods     <- {"notice", "clip"},
       outcome   <- events,
       asked     <- [e \in Events |-> AskedFor(e)],
       delivered <- [e \in Events |-> Delivered(e)]

(* Tables, workers, retries and deaths implement Delivery: an event is     *)
(* settled once and for good, whatever late workers still write, it is     *)
(* complete only when the attempt that finished it had the configured      *)
(* notification accepted and the recorded clip uploaded, and nothing is    *)
(* delivered for an event that is not pending.                             *)
RefinesDelivery == D!Spec

(* A settled event stays as it is; a consequence of RefinesDelivery.       *)
SettledStable ==
  [][\A e \in Events : events[e] \in Settled => events'[e] = events[e]]_vars

(* A job that is running and that nobody runs.                             *)
Stranded(e) == jobs[e].status = "running" /\ \A w \in Workers : worker[w].job # e

(* Only the death of a worker strands a job, and one death one job: no     *)
(* failure of a stage, refused push or retry leaves a job in the hands of  *)
(* nobody.                                                                 *)
OneLossPerCrash == Cardinality({e \in Events : Stranded(e)}) <= crashes

(* Every detected event is settled in the end, through retries, backoff    *)
(* and the deaths of workers, unless a worker died with its job.           *)
EverySettled ==
  \A e \in Events : events[e] = "pending" ~> events[e] \in Settled \/ Stranded(e)

(* The claim of a durable outbox: a process crash loses no event.          *)
NoEventLost ==
  \A e \in Events : events[e] = "pending" ~> events[e] \in Settled
=============================================================================
