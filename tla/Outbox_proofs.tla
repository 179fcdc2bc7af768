---------------------------- MODULE Outbox_proofs ----------------------------
(***************************************************************************)
(* Proofs about Outbox, for every set of events and workers, any number of *)
(* attempts and crashes: the two tables agree, a running job has one       *)
(* holder at most, an event is failed only after its last attempt, and a   *)
(* settled event stays settled.  The tables implement Delivery; effects    *)
(* happen once for an attempt at most; and a crash costs at most one job.  *)
(***************************************************************************)
EXTENDS Outbox, FiniteSetTheorems, TLAPS

(* How many attempts a job in each status has behind it.                   *)
AttemptsFit ==
  \A e \in Events :
     /\ jobs[e].status \in {"pending", "retry"} => jobs[e].attempts < MaxAttempts
     /\ jobs[e].status = "failed" => jobs[e].attempts = MaxAttempts

Inv ==
  /\ TypeOK
  /\ EventJobAgree
  /\ OneHolder
  /\ AttemptsFit

Busy(w) == worker[w].pc # "idle"

LEMMA InitInv == Init => Inv
<1> SUFFICES ASSUME Init PROVE Inv
  OBVIOUS
<1>1. TypeOK
  BY OutboxAssumption DEF Init, TypeOK, EventStatus, JobStatus, Stages, NoRow, Idle
<1>2. EventJobAgree
  BY DEF Init, EventJobAgree, NoRow
<1>3. OneHolder
  BY DEF Init, OneHolder, Idle
<1>4. AttemptsFit
  BY OutboxAssumption DEF Init, AttemptsFit, NoRow
<1> QED
  BY <1>1, <1>2, <1>3, <1>4 DEF Inv

(* What a worker that is not idle holds.                                   *)
LEMMA Holding ==
  ASSUME Inv, NEW w \in Workers, Busy(w)
  PROVE  /\ worker[w].job \in Events
         /\ jobs[worker[w].job].status = "running"
         /\ jobs[worker[w].job].attempts = worker[w].attempts
         /\ worker[w].attempts \in 0 .. MaxAttempts
         /\ \A v \in Workers \ {w} : Busy(v) => worker[v].job # worker[w].job
BY DEF Inv, OneHolder, TypeOK, Busy

-----------------------------------------------------------------------------

(* A stage of a finalization changes no row: it moves one busy worker on   *)
(* and may add to the effects.                                             *)
LEMMA StageStep ==
  ASSUME Inv, NEW w \in Workers, Busy(w), NEW held,
         held \in [pc : Stages \ {"idle"}, job : {worker[w].job},
                  attempts : {worker[w].attempts},
                  cfg : Configs \cup {NoConfig}, clip : BOOLEAN],
         worker' = [worker EXCEPT ![w] = held],
         UNCHANGED <<events, jobs, now, crashes>>,
         notices' \in [Events -> Nat], media' \in [Events -> Nat],
         uploads' \in [Events -> Nat]
  PROVE  Inv'
<1>1. TypeOK'
  <2>1. held \in [pc : Stages, job : Events \cup {NoJob}, attempts : 0 .. MaxAttempts,
                 cfg : Configs \cup {NoConfig}, clip : BOOLEAN]
    BY Holding
  <2> QED
    BY <2>1 DEF Inv, TypeOK
<1>2. EventJobAgree' /\ AttemptsFit'
  BY DEF Inv, EventJobAgree, AttemptsFit
<1>3. OneHolder'
  <2>1. \A v \in Workers : /\ worker'[v].job = worker[v].job
                           /\ worker'[v].attempts = worker[v].attempts
                           /\ worker'[v].pc # "idle" <=> worker[v].pc # "idle"
    <3>1. TAKE v \in Workers
    <3>2. CASE v = w
      BY <3>2 DEF Inv, TypeOK, Busy
    <3>3. CASE v # w
      BY <3>3 DEF Inv, TypeOK
    <3> QED
      BY <3>2, <3>3
  <2>2. OneHolder /\ jobs' = jobs
    BY DEF Inv
  <2> QED
    BY <2>1, <2>2 DEF OneHolder
<1> QED
  BY <1>1, <1>2, <1>3 DEF Inv

(* The worker lets go of its job, whose rows it may have settled.          *)
LEMMA ReleaseStep ==
  ASSUME Inv, NEW w \in Workers, Busy(w),
         worker' = [worker EXCEPT ![w] = Idle],
         NEW row \in [status : JobStatus, attempts : 0 .. MaxAttempts,
                      runAt : Nat, updated : Nat],
         NEW status \in EventStatus,
         jobs' = [jobs EXCEPT ![worker[w].job] = row],
         events' = [events EXCEPT ![worker[w].job] = status],
         \/ row.status \in {"running", "retry"} /\ status = "pending"
         \/ row.status = "complete" /\ status = "complete"
         \/ row.status = "failed" /\ status = "failed",
         row.status = "retry" => row.attempts < MaxAttempts,
         row.status = "failed" => row.attempts = MaxAttempts,
         crashes' \in 0 .. MaxCrashes,
         UNCHANGED <<now, notices, media, uploads>>
  PROVE  Inv'
<1>1. worker[w].job \in Events
  BY Holding
<1>2. TypeOK'
  BY <1>1, OutboxAssumption DEF Inv, TypeOK, Idle, Stages
<1>3. /\ jobs'[worker[w].job] = row /\ events'[worker[w].job] = status
      /\ \A e \in Events \ {worker[w].job} : jobs'[e] = jobs[e] /\ events'[e] = events[e]
  BY <1>1 DEF Inv, TypeOK
<1>4. EventJobAgree'
  BY <1>1, <1>3 DEF Inv, EventJobAgree
<1>5. AttemptsFit'
  BY <1>1, <1>3 DEF Inv, AttemptsFit
<1>6. OneHolder'
  <2>1. /\ worker'[w].pc = "idle"
        /\ \A v \in Workers \ {w} : worker'[v] = worker[v]
    BY DEF Inv, TypeOK, Idle
  <2>2. \A v \in Workers \ {w} : Busy(v) => worker[v].job # worker[w].job
    BY Holding
  <2> QED
    BY <1>3, <2>1, <2>2 DEF Inv, OneHolder, Busy
<1> QED
  BY <1>2, <1>4, <1>5, <1>6 DEF Inv

LEMMA ClaimStep ==
  ASSUME Inv, NEW w \in Workers, NEW e \in Events, ClaimJob(w, e)
  PROVE  Inv' /\ events' = events
<1>1. /\ jobs[e].status \in {"pending", "retry"}
      /\ jobs[e].attempts < MaxAttempts
      /\ worker[w].pc = "idle"
  BY DEF ClaimJob, Due, Waiting, Inv, AttemptsFit
<1>2. /\ jobs'[e].status = "running" /\ jobs'[e].attempts = jobs[e].attempts + 1
      /\ \A f \in Events \ {e} : jobs'[f] = jobs[f]
      /\ worker'[w].pc = "config" /\ worker'[w].job = e
      /\ worker'[w].attempts = jobs[e].attempts + 1
      /\ \A v \in Workers \ {w} : worker'[v] = worker[v]
      /\ events' = events
  BY DEF ClaimJob, Inv, TypeOK, Idle
<1>3. TypeOK'
  <2>1. jobs[e].attempts + 1 \in 0 .. MaxAttempts
    BY <1>1, OutboxAssumption DEF Inv, TypeOK
  <2>2. jobs' \in [Events -> [status : JobStatus, attempts : 0 .. MaxAttempts,
                              runAt : Nat, updated : Nat]]
    BY <2>1 DEF ClaimJob, Inv, TypeOK, JobStatus
  <2>3. worker' \in [Workers -> [pc : Stages, job : Events \cup {NoJob},
                                 attempts : 0 .. MaxAttempts,
                                 cfg : Configs \cup {NoConfig}, clip : BOOLEAN]]
    BY <2>1 DEF ClaimJob, Inv, TypeOK, Idle, Stages
  <2> QED
    BY <2>2, <2>3 DEF ClaimJob, Inv, TypeOK, effects
<1>4. EventJobAgree'
  BY <1>1, <1>2 DEF Inv, EventJobAgree
<1>5. AttemptsFit'
  BY <1>1, <1>2 DEF Inv, AttemptsFit
<1>6. OneHolder'
  <2>1. \A v \in Workers \ {w} : worker'[v].pc # "idle" => worker'[v].job # e
    BY <1>1, <1>2 DEF Inv, OneHolder
  <2> QED
    BY <1>2, <2>1 DEF Inv, OneHolder
<1> QED
  BY <1>2, <1>3, <1>4, <1>5, <1>6 DEF Inv

LEMMA PersistStep ==
  ASSUME Inv, NEW e \in Events, PersistEventWithJob(e)
  PROVE  Inv'
<1>1. PICK delay \in Delays :
        jobs' = [jobs EXCEPT ![e] = [status |-> "pending", attempts |-> 0,
                                     runAt |-> now + delay, updated |-> now]]
  BY DEF PersistEventWithJob
<1>2. /\ jobs[e].status = "absent" /\ events[e] = "absent"
      /\ events'[e] = "pending" /\ jobs'[e].status = "pending" /\ jobs'[e].attempts = 0
      /\ \A f \in Events \ {e} : jobs'[f] = jobs[f] /\ events'[f] = events[f]
      /\ worker' = worker
  BY <1>1 DEF PersistEventWithJob, Inv, TypeOK, EventJobAgree, NoRow
<1>3. TypeOK'
  <2>1. now + delay \in Nat /\ 0 \in 0 .. MaxAttempts
    BY OutboxAssumption DEF Inv, TypeOK
  <2>2. jobs' \in [Events -> [status : JobStatus, attempts : 0 .. MaxAttempts,
                              runAt : Nat, updated : Nat]]
    BY <1>1, <2>1 DEF Inv, TypeOK, JobStatus
  <2>3. events' \in [Events -> EventStatus]
    BY DEF PersistEventWithJob, Inv, TypeOK, EventStatus
  <2> QED
    BY <2>2, <2>3 DEF PersistEventWithJob, Inv, TypeOK, effects
<1>4. EventJobAgree'
  BY <1>2 DEF Inv, EventJobAgree
<1>5. AttemptsFit'
  BY <1>2, OutboxAssumption DEF Inv, AttemptsFit
<1>6. OneHolder'
  BY <1>2 DEF Inv, OneHolder
<1> QED
  BY <1>3, <1>4, <1>5, <1>6 DEF Inv

LEMMA CompactStep ==
  ASSUME Inv, CompactState
  PROVE  Inv'
<1>1. /\ \A e \in Events : jobs'[e] = jobs[e] \/ (jobs'[e] = NoRow /\ jobs[e].status = "complete")
      /\ events' = events /\ worker' = worker
  BY DEF CompactState
<1>2. TypeOK'
  <2>1. NoRow \in [status : JobStatus, attempts : 0 .. MaxAttempts,
                  runAt : Nat, updated : Nat]
    BY OutboxAssumption DEF NoRow, JobStatus
  <2>2. jobs' \in [Events -> [status : JobStatus, attempts : 0 .. MaxAttempts,
                              runAt : Nat, updated : Nat]]
    BY <2>1 DEF CompactState, Inv, TypeOK
  <2> QED
    BY <2>2 DEF CompactState, Inv, TypeOK, effects
<1>3. EventJobAgree'
  BY <1>1 DEF Inv, EventJobAgree, NoRow
<1>4. AttemptsFit'
  BY <1>1 DEF Inv, AttemptsFit, NoRow
<1>5. OneHolder'
  BY <1>1 DEF Inv, OneHolder
<1> QED
  BY <1>2, <1>3, <1>4, <1>5 DEF Inv

LEMMA WorkStep ==
  ASSUME Inv, NEW w \in Workers, Work(w)
  PROVE  Inv' /\ (worker[w].pc # "retry" /\ worker[w].pc # "finish" => events' = events)
<1> USE DEF Goto, AddOne, effects, tables
<1>1. /\ Busy(w)
      /\ worker[w] \in [pc : Stages, job : {worker[w].job},
                       attempts : {worker[w].attempts},
                       cfg : Configs \cup {NoConfig}, clip : BOOLEAN]
  BY DEF Work, LoadConfig, MakeClip, Notify, NotifyUnanswered, Upload, FinishJob,
         RetryJob, Raise, Busy, Inv, TypeOK
<1>2. /\ worker[w].job \in Events
      /\ jobs[worker[w].job].attempts = worker[w].attempts
      /\ worker[w].attempts \in 0 .. MaxAttempts
  BY <1>1, Holding
<1>3. CASE LoadConfig(w)
  <2>1. PICK cfg \in Configs :
          worker' = [worker EXCEPT ![w] = [worker[w] EXCEPT !.pc = "clip", !.cfg = cfg]]
    BY <1>3 DEF LoadConfig, Inv, TypeOK
  <2> QED
    BY <1>1, <1>3, <2>1, StageStep DEF LoadConfig, Stages, Inv, TypeOK
<1>4. CASE MakeClip(w)
  <2>1. PICK clip \in BOOLEAN :
          worker' = [worker EXCEPT ![w] = [worker[w] EXCEPT !.pc = "notify", !.clip = clip]]
    <3>1. worker' = [worker EXCEPT ![w] = [worker[w] EXCEPT !.pc = "notify", !.clip = TRUE]]
          \/ worker' = [worker EXCEPT ![w] = [worker[w] EXCEPT !.pc = "notify",
                                                              !.clip = worker[w].clip]]
      BY <1>1, <1>4 DEF MakeClip, Inv, TypeOK
    <3> QED
      BY <1>1, <3>1
  <2>2. media' \in [Events -> Nat]
    BY <1>2, <1>4 DEF MakeClip, Inv, TypeOK
  <2> QED
    BY <1>1, <1>4, <2>1, <2>2, StageStep DEF MakeClip, Stages, Inv, TypeOK
<1>5. CASE Notify(w) \/ NotifyUnanswered(w)
  <2>1. PICK pc \in {"upload", "retry"} :
          worker' = [worker EXCEPT ![w] = [worker[w] EXCEPT !.pc = pc]]
    BY <1>5 DEF Notify, NotifyUnanswered, Inv, TypeOK
  <2>2. notices' \in [Events -> Nat]
    <3>1. notices' = AddOne(notices, worker[w].job) \/ notices' = notices
      BY <1>5 DEF Notify, NotifyUnanswered
    <3> QED
      BY <1>2, <3>1 DEF Inv, TypeOK
  <2> QED
    BY <1>1, <1>5, <2>1, <2>2, StageStep
    DEF Notify, NotifyUnanswered, Stages, Inv, TypeOK
<1>6. CASE Upload(w)
  <2>1. worker' = [worker EXCEPT ![w] = [worker[w] EXCEPT !.pc = "finish"]]
    BY <1>6 DEF Upload, Inv, TypeOK
  <2>2. uploads' \in [Events -> Nat]
    <3>1. uploads' = AddOne(uploads, worker[w].job) \/ uploads' = uploads
      BY <1>6 DEF Upload
    <3> QED
      BY <1>2, <3>1 DEF Inv, TypeOK
  <2> QED
    BY <1>1, <1>6, <2>1, <2>2, StageStep DEF Upload, Stages, Inv, TypeOK
<1>7. CASE Raise(w)
  <2>1. worker' = [worker EXCEPT ![w] = [worker[w] EXCEPT !.pc = "retry"]]
    BY <1>7 DEF Raise, Inv, TypeOK
  <2> QED
    BY <1>1, <1>7, <2>1, StageStep DEF Raise, Stages, Inv, TypeOK
<1>8. CASE FinishJob(w)
  <2>1. PICK row : row = [jobs[worker[w].job] EXCEPT !.status = "complete", !.updated = now]
    OBVIOUS
  <2>2. /\ row \in [status : JobStatus, attempts : 0 .. MaxAttempts,
                    runAt : Nat, updated : Nat]
        /\ row.status = "complete"
    BY <1>2, <2>1 DEF Inv, TypeOK, JobStatus
  <2>3. jobs' = [jobs EXCEPT ![worker[w].job] = row]
    BY <1>2, <1>8, <2>1 DEF FinishJob, Inv, TypeOK
  <2> QED
    BY <1>1, <1>8, <2>2, <2>3, ReleaseStep DEF FinishJob, EventStatus, Inv, TypeOK
<1>9. CASE RetryJob(w)
  <2>1. PICK row :
          row = [status   |-> IF Terminal(worker[w].attempts) THEN "failed" ELSE "retry",
                 attempts |-> jobs[worker[w].job].attempts,
                 runAt    |-> now + Backoff(worker[w].attempts),
                 updated  |-> now]
    OBVIOUS
  <2>2. now + Backoff(worker[w].attempts) \in Nat
    <3>1. 2^worker[w].attempts \in Nat
      BY <1>2, OutboxAssumption
    <3> QED
      BY <3>1, OutboxAssumption DEF Backoff, Inv, TypeOK
  <2>3. row \in [status : JobStatus, attempts : 0 .. MaxAttempts,
                 runAt : Nat, updated : Nat]
    BY <1>2, <2>1, <2>2 DEF Inv, TypeOK, JobStatus
  <2>4. PICK status \in EventStatus :
          status = IF Terminal(worker[w].attempts) THEN "failed" ELSE "pending"
    BY DEF EventStatus
  <2>5. /\ row.status = "failed" => status = "failed" /\ row.attempts = MaxAttempts
        /\ row.status # "failed" => /\ row.status = "retry" /\ status = "pending"
                                   /\ row.attempts < MaxAttempts
    BY <1>2, <2>1, <2>4, OutboxAssumption DEF Terminal
  <2>6. /\ jobs' = [jobs EXCEPT ![worker[w].job] = row]
        /\ events' = [events EXCEPT ![worker[w].job] = status]
        /\ worker' = [worker EXCEPT ![w] = Idle]
        /\ UNCHANGED <<now, crashes, notices, media, uploads>>
    BY <1>9, <2>1, <2>4 DEF RetryJob
  <2>7. Inv'
    BY <1>1, <2>3, <2>5, <2>6, ReleaseStep DEF Inv, TypeOK
  <2> QED
    BY <1>9, <2>7 DEF RetryJob
<1> QED
  BY <1>3, <1>4, <1>5, <1>6, <1>7, <1>8, <1>9 DEF Work, FinishJob, RetryJob

LEMMA CrashStep ==
  ASSUME Inv, NEW w \in Workers, Crash(w)
  PROVE  Inv' /\ events' = events
<1>1. Busy(w) /\ events' = events /\ jobs' = jobs
  BY DEF Crash, Busy, tables
<1>2. /\ worker[w].job \in Events
      /\ jobs[worker[w].job].status = "running"
  BY <1>1, Holding
<1>3. events[worker[w].job] = "pending"
  BY <1>2 DEF Inv, EventJobAgree
<1>4. PICK row, status : row = jobs[worker[w].job] /\ status = "pending"
  OBVIOUS
<1>5. /\ jobs' = [jobs EXCEPT ![worker[w].job] = row]
      /\ events' = [events EXCEPT ![worker[w].job] = status]
  BY <1>1, <1>2, <1>3, <1>4 DEF Inv, TypeOK
<1>6. crashes' \in 0 .. MaxCrashes
  BY OutboxAssumption DEF Crash, Inv, TypeOK
<1>7. /\ row \in [status : JobStatus, attempts : 0 .. MaxAttempts,
                  runAt : Nat, updated : Nat]
      /\ row.status = "running"
      /\ status \in EventStatus
  BY <1>2, <1>4 DEF Inv, TypeOK, EventStatus
<1>8. worker' = [worker EXCEPT ![w] = Idle] /\ UNCHANGED <<now, notices, media, uploads>>
  BY DEF Crash, effects
<1>9. Inv'
  BY <1>1, <1>4, <1>5, <1>6, <1>7, <1>8, ReleaseStep
<1> QED
  BY <1>1, <1>9

LEMMA NextInv ==
  ASSUME Inv, [Next]_vars
  PROVE  Inv'
<1>1. CASE Tick
  <2>1. TypeOK'
    BY <1>1 DEF Tick, Inv, TypeOK, tables, effects
  <2> QED
    BY <1>1, <2>1 DEF Tick, Inv, EventJobAgree, OneHolder, AttemptsFit, tables, effects
<1>2. CASE UNCHANGED vars
  BY <1>2 DEF Inv, TypeOK, EventJobAgree, OneHolder, AttemptsFit, vars, tables, effects
<1> QED
  BY <1>1, <1>2, PersistStep, CompactStep, ClaimStep, WorkStep, CrashStep DEF Next

LEMMA InvAlways == Spec => []Inv
<1>1. Inv /\ [Next]_vars => Inv'
  BY NextInv
<1> QED
  BY InitInv, <1>1, PTL DEF Spec

-----------------------------------------------------------------------------

(* Every variable keeps its type: no job passes its attempt limit.         *)
THEOREM TypeCorrect == Spec => []TypeOK
<1>1. Inv => TypeOK
  BY DEF Inv
<1> QED
  BY InvAlways, <1>1, PTL

(* The events table and the jobs table never contradict each other.        *)
THEOREM TablesAgree == Spec => []EventJobAgree
<1>1. Inv => EventJobAgree
  BY DEF Inv
<1> QED
  BY InvAlways, <1>1, PTL

(* No two workers ever finalize the same event at once.                    *)
THEOREM SingleHolder == Spec => []OneHolder
<1>1. Inv => OneHolder
  BY DEF Inv
<1> QED
  BY InvAlways, <1>1, PTL

(* An event is given up only after the last attempt.                       *)
THEOREM NeverGivenUpEarly == Spec => []FailedExhausted
<1>1. Inv => FailedExhausted
  BY DEF Inv, FailedExhausted, EventJobAgree, AttemptsFit
<1> QED
  BY InvAlways, <1>1, PTL

(* Once an event is complete or failed, no step changes it.                *)
THEOREM SettledForGood == Spec => SettledStable
<1> DEFINE Stable == \A e \in Events : events[e] \in Settled => events'[e] = events[e]
<1>1. ASSUME Inv, [Next]_vars PROVE Stable
  <2>1. ASSUME NEW w \in Workers, FinishJob(w) \/ RetryJob(w) PROVE Stable
    <3>1. Busy(w)
      BY <2>1 DEF FinishJob, RetryJob, Busy
    <3>2. /\ worker[w].job \in Events
          /\ jobs[worker[w].job].status = "running"
      BY <1>1, <3>1, Holding
    <3>3. events[worker[w].job] = "pending"
      BY <1>1, <3>2 DEF Inv, EventJobAgree
    <3>4. \A e \in Events : e # worker[w].job => events'[e] = events[e]
      BY <1>1, <2>1 DEF FinishJob, RetryJob, Inv, TypeOK
    <3> QED
      BY <3>3, <3>4 DEF Settled
  <2>2. ASSUME NEW e \in Events, PersistEventWithJob(e) PROVE Stable
    BY <1>1, <2>2 DEF PersistEventWithJob, Settled, Inv, TypeOK
  <2>3. CASE UNCHANGED events
    BY <2>3
  <2>4. CASE Tick \/ CompactState \/ UNCHANGED vars
    BY <2>3, <2>4 DEF Tick, CompactState, vars, tables
  <2>5. ASSUME NEW w \in Workers, NEW e \in Events, ClaimJob(w, e) PROVE Stable
    BY <2>3, <2>5 DEF ClaimJob
  <2>6. ASSUME NEW w \in Workers, Crash(w) PROVE Stable
    BY <2>3, <2>6 DEF Crash, tables
  <2>7. ASSUME NEW w \in Workers, Work(w) PROVE Stable
    BY <2>1, <2>3, <2>7 DEF Work, LoadConfig, MakeClip, Notify, NotifyUnanswered,
                            Upload, Raise, tables
  <2> QED
    BY <1>1, <2>2, <2>4, <2>5, <2>6, <2>7 DEF Next
<1> QED
  BY InvAlways, <1>1, PTL DEF Spec, SettledStable

-----------------------------------------------------------------------------
(* The refinement of Delivery.  StageFits says what a worker has done when *)
(* it has reached a stage; the effects it speaks of never shrink.          *)

StageFits ==
  \A w \in Workers :
     /\ worker[w].pc = "idle" => worker[w] = Idle
     /\ worker[w].pc = "config" => worker[w].cfg = NoConfig
     /\ worker[w].pc \in {"clip", "notify", "upload", "finish"} => worker[w].cfg \in Configs
     /\ worker[w].pc \in {"upload", "finish"} /\ worker[w].cfg.notifier
          => notices[worker[w].job] > 0
     /\ worker[w].pc = "finish" /\ worker[w].clip /\ worker[w].cfg.storage
          => uploads[worker[w].job] > 0

LEMMA InitFits == Init => StageFits
BY DEF Init, StageFits, Idle

(* A worker that keeps its job and changes its stage, or lets the job go;  *)
(* the others stay as they are.                                            *)
LEMMA FitsStep ==
  ASSUME Inv, StageFits, NEW w \in Workers, NEW held,
         held \in [pc : Stages, job : Events \cup {NoJob}, attempts : 0 .. MaxAttempts,
                   cfg : Configs \cup {NoConfig}, clip : BOOLEAN],
         worker' = [worker EXCEPT ![w] = held],
         \A e \in Events : notices'[e] >= notices[e] /\ uploads'[e] >= uploads[e],
         notices' \in [Events -> Nat], uploads' \in [Events -> Nat],
         held.pc = "idle" => held = Idle,
         held.pc = "config" => held.cfg = NoConfig,
         held.pc \in {"clip", "notify", "upload", "finish"} => held.cfg \in Configs,
         held.pc \in {"upload", "finish"} /\ held.cfg.notifier => notices'[held.job] > 0,
         held.pc = "finish" /\ held.clip /\ held.cfg.storage => uploads'[held.job] > 0
  PROVE  StageFits'
<1>1. SUFFICES ASSUME NEW v \in Workers
      PROVE  /\ worker'[v].pc = "idle" => worker'[v] = Idle
             /\ worker'[v].pc = "config" => worker'[v].cfg = NoConfig
             /\ worker'[v].pc \in {"clip", "notify", "upload", "finish"}
                  => worker'[v].cfg \in Configs
             /\ worker'[v].pc \in {"upload", "finish"} /\ worker'[v].cfg.notifier
                  => notices'[worker'[v].job] > 0
             /\ worker'[v].pc = "finish" /\ worker'[v].clip /\ worker'[v].cfg.storage
                  => uploads'[worker'[v].job] > 0
  BY DEF StageFits, Idle
<1>2. CASE v = w
  <2>1. worker'[v] = held
    BY <1>2 DEF Inv, TypeOK
  <2> QED
    BY <2>1
<1>3. CASE v # w
  <2>1. worker'[v] = worker[v]
    BY <1>3 DEF Inv, TypeOK
  <2>2. worker[v].pc # "idle" => worker[v].job \in Events
    BY DEF Inv, OneHolder
  <2>3. notices \in [Events -> Nat] /\ uploads \in [Events -> Nat]
    BY DEF Inv, TypeOK
  <2> QED
    BY <2>1, <2>2, <2>3 DEF StageFits
<1> QED
  BY <1>2, <1>3

LEMMA NextFits ==
  ASSUME Inv, StageFits, [Next]_vars
  PROVE  StageFits'
<1> USE DEF Goto, AddOne, effects, tables
<1>1. /\ notices \in [Events -> Nat] /\ uploads \in [Events -> Nat]
      /\ worker \in [Workers -> [pc : Stages, job : Events \cup {NoJob},
                                 attempts : 0 .. MaxAttempts,
                                 cfg : Configs \cup {NoConfig}, clip : BOOLEAN]]
  BY DEF Inv, TypeOK
<1>10. ASSUME UNCHANGED <<notices, uploads>>
       PROVE  \A e \in Events : notices'[e] >= notices[e] /\ uploads'[e] >= uploads[e]
  BY <1>1, <1>10
<1>2. CASE UNCHANGED <<worker, notices, uploads>>
  BY <1>2 DEF StageFits, Idle
<1>3. ASSUME NEW w \in Workers, NEW e \in Events, ClaimJob(w, e) PROVE StageFits'
  <2>1. jobs[e].attempts + 1 \in 0 .. MaxAttempts
    BY <1>3, OutboxAssumption DEF ClaimJob, Due, Waiting, Inv, TypeOK, AttemptsFit
  <2>2. PICK held : held = [Idle EXCEPT !.pc = "config", !.job = e,
                                       !.attempts = jobs[e].attempts + 1]
    OBVIOUS
  <2>3. /\ held \in [pc : Stages, job : Events \cup {NoJob}, attempts : 0 .. MaxAttempts,
                     cfg : Configs \cup {NoConfig}, clip : BOOLEAN]
        /\ held.pc = "config" /\ held.cfg = NoConfig
    BY <2>1, <2>2 DEF Idle, Stages
  <2>4. worker' = [worker EXCEPT ![w] = held] /\ UNCHANGED <<notices, uploads>>
    BY <1>3, <2>2 DEF ClaimJob
  <2>5. \A f \in Events : notices'[f] >= notices[f] /\ uploads'[f] >= uploads[f]
    BY <1>1, <2>4
  <2> QED
    BY <1>1, <2>3, <2>4, <2>5, FitsStep
<1>4. ASSUME NEW w \in Workers, FinishJob(w) \/ RetryJob(w) \/ Crash(w) PROVE StageFits'
  <2>1. Idle \in [pc : Stages, job : Events \cup {NoJob}, attempts : 0 .. MaxAttempts,
                  cfg : Configs \cup {NoConfig}, clip : BOOLEAN]
    BY OutboxAssumption DEF Idle, Stages
  <2>2. worker' = [worker EXCEPT ![w] = Idle] /\ UNCHANGED <<notices, uploads>>
    BY <1>4 DEF FinishJob, RetryJob, Crash
  <2>3. Idle.pc = "idle"
    BY DEF Idle
  <2>4. \A f \in Events : notices'[f] >= notices[f] /\ uploads'[f] >= uploads[f]
    BY <1>1, <2>2
  <2> QED
    BY <1>1, <2>1, <2>2, <2>3, <2>4, FitsStep
<1>5. ASSUME NEW w \in Workers, LoadConfig(w) PROVE StageFits'
  <2>1. PICK cfg \in Configs :
          worker' = [worker EXCEPT ![w] = [worker[w] EXCEPT !.pc = "clip", !.cfg = cfg]]
    BY <1>1, <1>5 DEF LoadConfig
  <2>2. PICK held : held = [worker[w] EXCEPT !.pc = "clip", !.cfg = cfg]
    OBVIOUS
  <2>3. /\ held \in [pc : Stages, job : Events \cup {NoJob}, attempts : 0 .. MaxAttempts,
                     cfg : Configs \cup {NoConfig}, clip : BOOLEAN]
        /\ held.pc = "clip" /\ held.cfg \in Configs
    BY <1>1, <2>2 DEF Stages
  <2> QED
    BY <1>1, <1>5, <1>10, <2>1, <2>2, <2>3, FitsStep DEF LoadConfig
<1>6. ASSUME NEW w \in Workers, Raise(w) PROVE StageFits'
  <2>1. worker' = [worker EXCEPT ![w] = [worker[w] EXCEPT !.pc = "retry"]]
    BY <1>1, <1>6 DEF Raise
  <2>2. PICK held : held = [worker[w] EXCEPT !.pc = "retry"]
    OBVIOUS
  <2>3. /\ held \in [pc : Stages, job : Events \cup {NoJob}, attempts : 0 .. MaxAttempts,
                     cfg : Configs \cup {NoConfig}, clip : BOOLEAN]
        /\ held.pc = "retry"
    BY <1>1, <2>2 DEF Stages
  <2> QED
    BY <1>1, <1>6, <1>10, <2>1, <2>2, <2>3, FitsStep DEF Raise
<1>7. ASSUME NEW w \in Workers, MakeClip(w) PROVE StageFits'
  <2>1. PICK clip \in BOOLEAN :
          worker' = [worker EXCEPT ![w] = [worker[w] EXCEPT !.pc = "notify", !.clip = clip]]
    <3>1. worker' = [worker EXCEPT ![w] = [worker[w] EXCEPT !.pc = "notify", !.clip = TRUE]]
          \/ worker' = [worker EXCEPT ![w] = [worker[w] EXCEPT !.pc = "notify",
                                                              !.clip = worker[w].clip]]
      BY <1>1, <1>7 DEF MakeClip
    <3> QED
      BY <1>1, <3>1
  <2>2. worker[w].cfg \in Configs
    BY <1>7 DEF MakeClip, StageFits
  <2>3. PICK held : held = [worker[w] EXCEPT !.pc = "notify", !.clip = clip]
    OBVIOUS
  <2>4. /\ held \in [pc : Stages, job : Events \cup {NoJob}, attempts : 0 .. MaxAttempts,
                     cfg : Configs \cup {NoConfig}, clip : BOOLEAN]
        /\ held.pc = "notify" /\ held.cfg \in Configs
    BY <1>1, <2>2, <2>3 DEF Stages
  <2> QED
    BY <1>1, <1>7, <1>10, <2>1, <2>3, <2>4, FitsStep DEF MakeClip
<1>8. ASSUME NEW w \in Workers, Notify(w) \/ NotifyUnanswered(w) PROVE StageFits'
  <2>1. worker[w].cfg \in Configs /\ worker[w].job \in Events
    BY <1>8 DEF Notify, NotifyUnanswered, StageFits, Inv, OneHolder
  <2>2. PICK pc \in {"upload", "retry"} :
          /\ worker' = [worker EXCEPT ![w] = [worker[w] EXCEPT !.pc = pc]]
          /\ pc = "upload" /\ worker[w].cfg.notifier => notices' = AddOne(notices, worker[w].job)
    BY <1>1, <1>8 DEF Notify, NotifyUnanswered
  <2>3. notices' = AddOne(notices, worker[w].job) \/ notices' = notices
    BY <1>8 DEF Notify, NotifyUnanswered
  <2>4. /\ notices' \in [Events -> Nat] /\ uploads' = uploads
        /\ \A e \in Events : notices'[e] >= notices[e]
        /\ pc = "upload" /\ worker[w].cfg.notifier => notices'[worker[w].job] > 0
    BY <1>1, <1>8, <2>1, <2>2, <2>3 DEF Notify, NotifyUnanswered
  <2>5. PICK held : held = [worker[w] EXCEPT !.pc = pc]
    OBVIOUS
  <2>6. /\ held \in [pc : Stages, job : Events \cup {NoJob}, attempts : 0 .. MaxAttempts,
                     cfg : Configs \cup {NoConfig}, clip : BOOLEAN]
        /\ held.pc = pc /\ held.cfg = worker[w].cfg /\ held.job = worker[w].job
    BY <1>1, <2>5 DEF Stages
  <2>7. \A e \in Events : uploads'[e] >= uploads[e]
    BY <1>1, <2>4
  <2> QED
    BY <1>1, <2>1, <2>2, <2>4, <2>5, <2>6, <2>7, FitsStep
<1>9. ASSUME NEW w \in Workers, Upload(w) PROVE StageFits'
  <2>1. /\ worker[w].cfg \in Configs /\ worker[w].job \in Events
        /\ worker[w].cfg.notifier => notices[worker[w].job] > 0
    BY <1>9 DEF Upload, StageFits, Inv, OneHolder
  <2>2. worker' = [worker EXCEPT ![w] = [worker[w] EXCEPT !.pc = "finish"]]
    BY <1>1, <1>9 DEF Upload
  <2>3. uploads' = AddOne(uploads, worker[w].job) \/ uploads' = uploads
    BY <1>9 DEF Upload
  <2>4. /\ uploads' \in [Events -> Nat] /\ notices' = notices
        /\ \A e \in Events : uploads'[e] >= uploads[e]
        /\ worker[w].clip /\ worker[w].cfg.storage => uploads'[worker[w].job] > 0
    BY <1>1, <1>9, <2>1, <2>3 DEF Upload
  <2>5. PICK held : held = [worker[w] EXCEPT !.pc = "finish"]
    OBVIOUS
  <2>6. /\ held \in [pc : Stages, job : Events \cup {NoJob}, attempts : 0 .. MaxAttempts,
                     cfg : Configs \cup {NoConfig}, clip : BOOLEAN]
        /\ held.pc = "finish" /\ held.cfg = worker[w].cfg /\ held.job = worker[w].job
        /\ held.clip = worker[w].clip
    BY <1>1, <2>5 DEF Stages
  <2>7. \A e \in Events : notices'[e] >= notices[e]
    BY <1>1, <2>4
  <2> QED
    BY <1>1, <2>1, <2>2, <2>4, <2>5, <2>6, <2>7, FitsStep
<1> QED
  BY <1>2, <1>3, <1>4, <1>5, <1>6, <1>7, <1>8, <1>9
  DEF Next, Work, Tick, CompactState, PersistEventWithJob, vars

(* What is asked for an event is what its one holder is asked.             *)
LEMMA AskedOfHolder ==
  ASSUME Inv, StageFits, NEW w \in Workers, Busy(w)
  PROVE  AskedFor(worker[w].job) = {good \in {"notice", "clip"} : Asked(w, good)}
<1>1. \A v \in Workers : worker[v].job = worker[w].job => v = w
  <2>1. \A v \in Workers : ~Busy(v) => worker[v].job = NoJob
    BY DEF StageFits, Busy, Idle
  <2>2. worker[w].job \in Events /\ NoJob \notin Events
    BY OutboxAssumption, Holding
  <2> QED
    BY <2>1, <2>2, Holding
<1> QED
  BY <1>1 DEF AskedFor

(* A worker that keeps its job or lets it go changes what is asked for     *)
(* that job's event only.                                                  *)
LEMMA AskedElsewhere ==
  ASSUME Inv, NEW w \in Workers, Busy(w), NEW held,
         worker' = [worker EXCEPT ![w] = held],
         held.job \in {worker[w].job, NoJob},
         NEW e \in Events, e # worker[w].job
  PROVE  AskedFor(e)' = AskedFor(e)
<1>1. worker'[w] = held /\ \A v \in Workers \ {w} : worker'[v] = worker[v]
  BY DEF Inv, TypeOK
<1>2. \A v \in Workers : worker'[v].job = e => v # w
  BY <1>1, OutboxAssumption
<1>3. \A v \in Workers : worker[v].job = e => v # w
  OBVIOUS
<1> QED
  BY <1>1, <1>2, <1>3 DEF AskedFor, Asked

(* A step of a worker within its attempt, as Delivery sees it.             *)
LEMMA AttemptStep ==
  ASSUME Inv, StageFits, NEW w \in Workers, Busy(w), NEW held,
         worker' = [worker EXCEPT ![w] = held],
         held.job \in {worker[w].job, NoJob},
         UNCHANGED <<events, notices, uploads>>
  PROVE  \E e \in Events : D!Attempt(e, AskedFor(e)')
<1>e. PICK e \in Events : e = worker[w].job
  BY Holding
<1>1. events[e] = "pending"
  BY <1>e, Holding DEF Inv, EventJobAgree
<1>2. [f \in Events |-> AskedFor(f)]' =
        [[f \in Events |-> AskedFor(f)] EXCEPT ![e] = AskedFor(e)']
  <2>1. \A f \in Events \ {e} : AskedFor(f)' = AskedFor(f)
    BY <1>e, AskedElsewhere
  <2> QED
    BY <2>1
<1>3. [f \in Events |-> Delivered(f)]' = [f \in Events |-> Delivered(f)]
  BY DEF Delivered
<1> QED
  BY <1>1, <1>2, <1>3 DEF D!Attempt

(* A delivery: the worker keeps what it is asked for, and one of those     *)
(* goods is counted.                                                       *)
LEMMA DeliverStep ==
  ASSUME Inv, StageFits, NEW w \in Workers, Busy(w), NEW pc,
         worker' = [worker EXCEPT ![w] = [worker[w] EXCEPT !.pc = pc]],
         NEW good \in {"notice", "clip"}, Asked(w, good),
         \/ /\ good = "notice" /\ notices' = AddOne(notices, worker[w].job)
            /\ UNCHANGED uploads
         \/ /\ good = "clip" /\ uploads' = AddOne(uploads, worker[w].job)
            /\ UNCHANGED notices,
         UNCHANGED events
  PROVE  \E e \in Events : D!Deliver(e, good)
<1>e. PICK e \in Events : e = worker[w].job
  BY Holding
<1>1. events[e] = "pending"
  BY <1>e, Holding DEF Inv, EventJobAgree
<1>2. good \in AskedFor(e)
  BY <1>e, AskedOfHolder
<1>3. [f \in Events |-> AskedFor(f)]' = [f \in Events |-> AskedFor(f)]
  <2>1. \A v \in Workers : /\ worker'[v].job = worker[v].job
                           /\ worker'[v].cfg = worker[v].cfg
                           /\ worker'[v].clip = worker[v].clip
    BY DEF Inv, TypeOK
  <2>2. \A f \in Events : AskedFor(f)' = AskedFor(f)
    BY <2>1 DEF AskedFor, Asked
  <2> QED
    BY <2>2
<1>4. \A f \in Events \ {e} : Delivered(f)' = Delivered(f)
  BY <1>e, <1>1 DEF Delivered, AddOne, Inv, TypeOK
<1>5. Delivered(e)' = Delivered(e) \cup {good}
  <2>1. notices[e] \in Nat /\ uploads[e] \in Nat
    BY <1>e, <1>1 DEF Inv, TypeOK
  <2>2. CASE good = "notice"
    <3>1. notices'[e] = notices[e] + 1 /\ uploads' = uploads
      BY <1>e, <1>1, <2>2 DEF AddOne, Inv, TypeOK
    <3> QED
      BY <2>1, <2>2, <3>1 DEF Delivered
  <2>3. CASE good = "clip"
    <3>1. uploads'[e] = uploads[e] + 1 /\ notices' = notices
      BY <1>e, <1>1, <2>3 DEF AddOne, Inv, TypeOK
    <3> QED
      BY <2>1, <2>3, <3>1 DEF Delivered
  <2> QED
    BY <2>2, <2>3
<1>6. [f \in Events |-> Delivered(f)]' =
        [[f \in Events |-> Delivered(f)] EXCEPT ![e] = @ \cup {good}]
  <2>1. \A f \in Events :
          Delivered(f)' = IF f = e THEN Delivered(f) \cup {good} ELSE Delivered(f)
    BY <1>4, <1>5
  <2> QED
    BY <1>1, <2>1
<1> QED
  BY <1>1, <1>2, <1>3, <1>6 DEF D!Deliver

(* The job is let go and its event settled.                                *)
LEMMA SettleStep ==
  ASSUME Inv, StageFits, NEW w \in Workers, Busy(w),
         worker' = [worker EXCEPT ![w] = Idle], NEW status,
         events' = [events EXCEPT ![worker[w].job] = status],
         UNCHANGED <<notices, uploads>>,
         status = "complete" => worker[w].pc = "finish",
         status \in {"complete", "failed"}
  PROVE  \E e \in Events : D!Complete(e) \/ D!GiveUp(e)
<1>e. PICK e \in Events : e = worker[w].job
  BY Holding
<1>1. events[e] = "pending"
  BY <1>e, Holding DEF Inv, EventJobAgree
<1>2. Idle.job = NoJob
  BY DEF Idle
<1>3. AskedFor(e)' = {}
  <2>1. worker'[w].job = NoJob /\ \A v \in Workers \ {w} : worker'[v] = worker[v]
    BY DEF Inv, TypeOK, Idle
  <2>2. \A v \in Workers \ {w} : worker[v].job # e
    <3>1. \A v \in Workers : ~Busy(v) => worker[v].job = NoJob
      BY DEF StageFits, Busy, Idle
    <3> QED
      BY <1>e, <3>1, Holding, OutboxAssumption
  <2> QED
    BY <2>1, <2>2, OutboxAssumption DEF AskedFor, Asked
<1>4. [f \in Events |-> AskedFor(f)]' =
        [[f \in Events |-> AskedFor(f)] EXCEPT ![e] = {}]
  <2>1. \A f \in Events \ {e} : AskedFor(f)' = AskedFor(f)
    BY <1>e, <1>2, AskedElsewhere
  <2> QED
    BY <1>3, <2>1
<1>5. [f \in Events |-> Delivered(f)]' = [f \in Events |-> Delivered(f)]
  BY DEF Delivered
<1>6. status = "complete" => AskedFor(e) \subseteq Delivered(e)
  <2>1. status = "complete" =>
          {good \in {"notice", "clip"} : Asked(w, good)} \subseteq Delivered(e)
    BY <1>e DEF Asked, Delivered, StageFits
  <2> QED
    BY <1>e, <2>1, AskedOfHolder
<1> QED
  BY <1>e, <1>1, <1>4, <1>5, <1>6 DEF D!Complete, D!GiveUp

(* Every step of the outbox is a step of Delivery or a stutter.            *)
LEMMA StepRefines ==
  ASSUME Inv, StageFits, [Next]_vars
  PROVE  [D!Next]_(D!deliveryVars)
<1> USE DEF D!deliveryVars
<1>1. ASSUME UNCHANGED <<worker, notices, uploads>>
      PROVE  /\ [f \in Events |-> AskedFor(f)]' = [f \in Events |-> AskedFor(f)]
             /\ [f \in Events |-> Delivered(f)]' = [f \in Events |-> Delivered(f)]
  BY <1>1 DEF AskedFor, Asked, Delivered
<1>2. CASE Tick \/ CompactState \/ UNCHANGED vars
  BY <1>1, <1>2 DEF Tick, CompactState, vars, tables, effects
<1>3. ASSUME NEW e \in Events, PersistEventWithJob(e) PROVE D!Next
  <2>1. D!Accept(e)
    BY <1>1, <1>3 DEF PersistEventWithJob, D!Accept, effects
  <2> QED
    BY <2>1 DEF D!Next
<1>4. ASSUME \E e \in Events : D!Attempt(e, AskedFor(e)') PROVE D!Next
  <2>1. PICK e \in Events : D!Attempt(e, AskedFor(e)')
    BY <1>4
  <2>2. AskedFor(e)' \in SUBSET {"notice", "clip"}
    BY DEF AskedFor, Asked
  <2> QED
    BY <2>1, <2>2 DEF D!Next
<1>5. ASSUME NEW w \in Workers, NEW e \in Events, ClaimJob(w, e)
      PROVE  UNCHANGED D!deliveryVars
  <2>1. /\ worker[w].cfg = NoConfig /\ worker'[w].cfg = NoConfig
        /\ \A v \in Workers \ {w} : worker'[v] = worker[v]
    BY <1>5 DEF ClaimJob, Inv, TypeOK, StageFits, Idle
  <2>2. \A f \in Events : AskedFor(f)' = AskedFor(f)
    BY <2>1 DEF AskedFor, Asked
  <2>3. [f \in Events |-> Delivered(f)]' = [f \in Events |-> Delivered(f)]
    BY <1>5 DEF ClaimJob, effects, Delivered
  <2> QED
    BY <1>5, <2>2, <2>3 DEF ClaimJob
<1>6. ASSUME NEW w \in Workers, Crash(w) PROVE D!Next
  <2>1. Busy(w) /\ worker' = [worker EXCEPT ![w] = Idle] /\ Idle.job = NoJob
        /\ UNCHANGED <<events, notices, uploads>>
    BY <1>6 DEF Crash, Busy, Idle, tables, effects
  <2> QED
    BY <1>4, <2>1, AttemptStep
<1>7. ASSUME NEW w \in Workers, Work(w) PROVE D!Next
  <2>0. Busy(w)
    BY <1>7 DEF Work, LoadConfig, MakeClip, Notify, NotifyUnanswered, Upload, FinishJob,
                RetryJob, Raise, Busy
  <2>1. ASSUME NEW held, worker' = [worker EXCEPT ![w] = held],
               held.job \in {worker[w].job, NoJob},
               UNCHANGED <<events, notices, uploads>>
        PROVE  D!Next
    BY <1>4, <2>0, <2>1, AttemptStep
  <2>2. ASSUME NEW stage \in Stages,
               worker' = [worker EXCEPT ![w] = [worker[w] EXCEPT !.pc = stage]],
               UNCHANGED <<events, notices, uploads>>
        PROVE  D!Next
    <3>1. [worker[w] EXCEPT !.pc = stage].job = worker[w].job
      BY DEF Inv, TypeOK
    <3> QED
      BY <2>1, <2>2, <3>1
  <2>3. \A stage \in Stages :
          Goto(w, stage) => worker' = [worker EXCEPT ![w] = [worker[w] EXCEPT !.pc = stage]]
    BY DEF Goto, Inv, TypeOK
  <2>4. CASE LoadConfig(w)
    <3>1. PICK cfg \in Configs :
            worker' = [worker EXCEPT ![w] = [worker[w] EXCEPT !.pc = "clip", !.cfg = cfg]]
      BY <2>4 DEF LoadConfig, Inv, TypeOK
    <3>2. [worker[w] EXCEPT !.pc = "clip", !.cfg = cfg].job = worker[w].job
      BY DEF Inv, TypeOK
    <3> QED
      BY <2>1, <2>4, <3>1, <3>2 DEF LoadConfig, tables, effects
  <2>5. CASE MakeClip(w)
    <3>1. CASE Goto(w, "notify")
      BY <2>2, <2>3, <2>5, <3>1 DEF MakeClip, tables, Stages
    <3>2. CASE worker' = [worker EXCEPT ![w] = [worker[w] EXCEPT !.pc = "notify", !.clip = TRUE]]
      <4>1. [worker[w] EXCEPT !.pc = "notify", !.clip = TRUE].job = worker[w].job
        BY DEF Inv, TypeOK
      <4> QED
        BY <2>1, <2>5, <3>2, <4>1 DEF MakeClip, tables
    <3> QED
      BY <2>5, <3>1, <3>2 DEF MakeClip, Inv, TypeOK
  <2>6. CASE Raise(w)
    BY <2>2, <2>3, <2>6 DEF Raise, tables, effects, Stages
  <2>7. ASSUME NEW pc \in {"upload", "retry"}, Goto(w, pc), worker[w].pc = "notify",
               worker[w].cfg.notifier, notices' = AddOne(notices, worker[w].job),
               UNCHANGED <<tables, uploads>>
        PROVE  D!Next
    <3>1. worker[w].cfg # NoConfig
      BY <2>7, OutboxAssumption DEF StageFits
    <3>2. Asked(w, "notice")
      BY <2>7, <3>1 DEF Asked
    <3>3. \E e \in Events : D!Deliver(e, "notice")
      BY <2>0, <2>3, <2>7, <3>2, DeliverStep DEF tables, Stages
    <3> QED
      BY <3>3 DEF D!Next
  <2>8. CASE Notify(w)
    <3>1. CASE worker[w].cfg.notifier
      BY <2>7, <2>8, <3>1 DEF Notify
    <3>2. CASE ~worker[w].cfg.notifier
      BY <2>2, <2>3, <2>8, <3>2 DEF Notify, tables, Stages
    <3> QED
      BY <3>1, <3>2
  <2>9. CASE NotifyUnanswered(w)
    BY <2>7, <2>9 DEF NotifyUnanswered
  <2>10. CASE Upload(w)
    <3>1. CASE worker[w].clip /\ worker[w].cfg.storage
      <4>1. worker[w].cfg # NoConfig
        BY <2>10, OutboxAssumption DEF Upload, StageFits
      <4>2. Asked(w, "clip")
        BY <3>1, <4>1 DEF Asked
      <4>3. \E e \in Events : D!Deliver(e, "clip")
        BY <2>0, <2>3, <2>10, <3>1, <4>2, DeliverStep DEF Upload, tables, Stages
      <4> QED
        BY <4>3 DEF D!Next
    <3>2. CASE ~(worker[w].clip /\ worker[w].cfg.storage)
      BY <2>2, <2>3, <2>10, <3>2 DEF Upload, tables, Stages
    <3> QED
      BY <3>1, <3>2
  <2>11. CASE FinishJob(w)
    <3>1. \E e \in Events : D!Complete(e) \/ D!GiveUp(e)
      BY <2>0, <2>11, SettleStep DEF FinishJob, effects
    <3> QED
      BY <3>1 DEF D!Next
  <2>12. CASE RetryJob(w)
    <3>1. CASE Terminal(worker[w].attempts)
      <4>1. /\ events' = [events EXCEPT ![worker[w].job] = "failed"]
            /\ worker' = [worker EXCEPT ![w] = Idle]
            /\ UNCHANGED <<notices, uploads>>
        BY <2>12, <3>1 DEF RetryJob, effects
      <4>2. \E e \in Events : D!Complete(e) \/ D!GiveUp(e)
        BY <2>0, <4>1, SettleStep
      <4> QED
        BY <4>2 DEF D!Next
    <3>2. CASE ~Terminal(worker[w].attempts)
      <4>1. events[worker[w].job] = "pending"
        BY <2>0, Holding DEF Inv, EventJobAgree
      <4>2. events' = events
        BY <2>12, <3>2, <4>1 DEF RetryJob, Inv, TypeOK
      <4> QED
        BY <2>1, <2>12, <4>2 DEF RetryJob, effects, Idle
    <3> QED
      BY <3>1, <3>2
  <2> QED
    BY <1>7, <2>4, <2>5, <2>6, <2>8, <2>9, <2>10, <2>11, <2>12 DEF Work
<1> QED
  BY <1>2, <1>3, <1>5, <1>6, <1>7 DEF Next

LEMMA InitRefines == Init => D!Init
BY OutboxAssumption DEF Init, D!Init, Idle, AskedFor, Asked, Delivered

(* The two tables, the workers that claim, retry and die, and the clock    *)
(* implement Delivery, for every number of events, workers, attempts and   *)
(* crashes (persist_event_with_job, claim_job, finish_job, retry_job of    *)
(* state.py, and the finalization of jobs.py).                             *)
THEOREM Refinement == Spec => RefinesDelivery
<1>1. Inv /\ StageFits /\ [Next]_vars => StageFits'
  BY NextFits
<1>2. Init => StageFits
  BY InitFits
<1>3. Inv /\ StageFits /\ [Next]_vars => [D!Next]_(D!deliveryVars)
  BY StepRefines
<1> QED
  BY <1>1, <1>2, <1>3, InitRefines, InvAlways, PTL DEF Spec, RefinesDelivery, D!Spec

-----------------------------------------------------------------------------
(* Side effects.                                                           *)

(* The count f of an effect that an attempt has once, when it leaves the   *)
(* stages in before: none for an event that is not there, at most one for  *)
(* each attempt, and none yet of the attempt under way before its stage.   *)
Spent(f, before) ==
  /\ \A e \in Events : events[e] = "absent" => f[e] = 0
  /\ \A e \in Events : jobs[e].status # "absent" => f[e] <= jobs[e].attempts
  /\ \A w \in Workers :
        worker[w].pc \in before => f[worker[w].job] < jobs[worker[w].job].attempts

BeforeMedia  == {"config", "clip"}
BeforeNotice == BeforeMedia \cup {"notify"}
BeforeUpload == BeforeNotice \cup {"upload"}

(* A step that does not count the effect: it takes no worker back to a     *)
(* stage before it, but by a claim.                                        *)
LEMMA NotSpent ==
  ASSUME Inv, Next, NEW f \in [Events -> Nat], NEW before, "idle" \notin before,
         Spent(f, before),
         \A w \in Workers : Busy(w) /\ worker'[w].pc \in before => worker[w].pc \in before
  PROVE  /\ \A e \in Events : events'[e] = "absent" => f[e] = 0
         /\ \A e \in Events : jobs'[e].status # "absent" => f[e] <= jobs'[e].attempts
         /\ \A w \in Workers :
               worker'[w].pc \in before => f[worker'[w].job] < jobs'[worker'[w].job].attempts
<1> DEFINE Goal == /\ \A e \in Events : events'[e] = "absent" => f[e] = 0
                   /\ \A e \in Events : jobs'[e].status # "absent" => f[e] <= jobs'[e].attempts
                   /\ \A w \in Workers :
                        worker'[w].pc \in before
                          => f[worker'[w].job] < jobs'[worker'[w].job].attempts
<1>t. /\ events \in [Events -> EventStatus] /\ \A e \in Events : jobs[e].attempts \in Nat
      /\ \A e \in Events : f[e] \in Nat
  BY OutboxAssumption DEF Inv, TypeOK
<1>1. CASE Tick
  BY <1>1 DEF Tick, tables, Spent
<1>2. ASSUME NEW e \in Events, PersistEventWithJob(e) PROVE Goal
  <2>1. /\ events[e] = "absent" /\ jobs'[e].attempts = 0 /\ worker' = worker
        /\ \A d \in Events \ {e} : jobs'[d] = jobs[d] /\ events'[d] = events[d]
        /\ events'[e] = "pending"
    BY <1>2 DEF PersistEventWithJob, Inv, TypeOK
  <2>2. \A w \in Workers : worker[w].pc \in before => worker[w].job \in Events \ {e}
    BY <2>1 DEF Inv, OneHolder, EventJobAgree, NoRow
  <2> QED
    BY <1>t, <2>1, <2>2 DEF Spent
<1>3. CASE CompactState
  <2>1. /\ events' = events /\ worker' = worker
        /\ \A e \in Events : jobs'[e] = jobs[e] \/ (jobs'[e] = NoRow /\ jobs[e].status = "complete")
    BY <1>3 DEF CompactState
  <2>2. \A w \in Workers : worker[w].pc \in before =>
          worker[w].job \in Events /\ jobs'[worker[w].job] = jobs[worker[w].job]
    BY <2>1 DEF Inv, OneHolder
  <2> QED
    BY <2>1, <2>2 DEF Spent, NoRow
<1>4. ASSUME NEW w \in Workers, NEW e \in Events, ClaimJob(w, e) PROVE Goal
  <2>1. /\ jobs[e].status \in {"pending", "retry"} /\ events' = events
        /\ jobs'[e].attempts = jobs[e].attempts + 1
        /\ worker'[w].job = e /\ \A v \in Workers \ {w} : worker'[v] = worker[v]
        /\ \A d \in Events \ {e} : jobs'[d] = jobs[d]
    BY <1>4 DEF ClaimJob, Due, Waiting, Inv, TypeOK, Idle
  <2>2. f[e] <= jobs[e].attempts
    BY <2>1 DEF Spent
  <2>3. \A v \in Workers : worker[v].pc \in before => worker[v].job \in Events \ {e}
    BY <2>1 DEF Inv, OneHolder
  <2> QED
    BY <1>t, <2>1, <2>2, <2>3 DEF Spent
<1>5. ASSUME NEW w \in Workers, Crash(w) PROVE Goal
  <2>1. /\ worker'[w].pc \notin before /\ \A v \in Workers \ {w} : worker'[v] = worker[v]
        /\ events' = events /\ jobs' = jobs
    BY <1>5 DEF Crash, Idle, tables, Inv, TypeOK
  <2> QED
    BY <2>1 DEF Spent
<1>6. ASSUME NEW w \in Workers, FinishJob(w) \/ RetryJob(w) PROVE Goal
  <2>1. Busy(w)
    BY <1>6 DEF FinishJob, RetryJob, Busy
  <2>2. /\ worker[w].job \in Events /\ jobs[worker[w].job].status = "running"
        /\ \A v \in Workers \ {w} : Busy(v) => worker[v].job \in Events \ {worker[w].job}
    BY <2>1, Holding DEF Inv, OneHolder, Busy
  <2>3. /\ worker'[w].pc \notin before /\ \A v \in Workers \ {w} : worker'[v] = worker[v]
        /\ jobs'[worker[w].job].attempts = jobs[worker[w].job].attempts
        /\ events'[worker[w].job] # "absent"
        /\ \A d \in Events \ {worker[w].job} : jobs'[d] = jobs[d] /\ events'[d] = events[d]
    BY <1>6, <2>2 DEF FinishJob, RetryJob, Idle, Inv, TypeOK
  <2>4. f[worker[w].job] <= jobs[worker[w].job].attempts
    BY <2>2 DEF Spent
  <2> QED
    BY <2>2, <2>3, <2>4 DEF Spent, Busy
<1>7. ASSUME NEW w \in Workers,
             LoadConfig(w) \/ MakeClip(w) \/ Notify(w) \/ NotifyUnanswered(w) \/ Upload(w)
               \/ Raise(w)
      PROVE  Goal
  <2>1. events' = events /\ jobs' = jobs /\ Busy(w)
    BY <1>7 DEF LoadConfig, MakeClip, Notify, NotifyUnanswered, Upload, Raise, Busy, tables
  <2>2. /\ worker'[w].job = worker[w].job
        /\ \A v \in Workers \ {w} : worker'[v] = worker[v]
    BY <1>7 DEF LoadConfig, MakeClip, Notify, NotifyUnanswered, Upload, Raise, Goto, Inv, TypeOK
  <2>3. \A v \in Workers : worker'[v].pc \in before =>
          worker[v].pc \in before /\ worker'[v].job = worker[v].job
    BY <2>1, <2>2
  <2> QED
    BY <2>1, <2>3 DEF Spent
<1> QED
  BY <1>1, <1>2, <1>3, <1>4, <1>5, <1>6, <1>7 DEF Next, Work

(* The step that counts it: the worker leaves the stages before it.        *)
LEMMA SpentOnce ==
  ASSUME Inv, NEW w \in Workers, NEW f \in [Events -> Nat], NEW before,
         "idle" \notin before, Spent(f, before),
         worker[w].pc \in before, worker'[w].pc \notin before,
         \A v \in Workers \ {w} : worker'[v] = worker[v],
         UNCHANGED tables
  PROVE  /\ AddOne(f, worker[w].job) \in [Events -> Nat]
         /\ \A g : g = AddOne(f, worker[w].job) =>
              /\ \A e \in Events : events'[e] = "absent" => g[e] = 0
              /\ \A e \in Events : jobs'[e].status # "absent" => g[e] <= jobs'[e].attempts
              /\ \A v \in Workers :
                    worker'[v].pc \in before => g[worker'[v].job] < jobs'[worker'[v].job].attempts
<1>1. /\ worker[w].job \in Events /\ events[worker[w].job] # "absent"
      /\ \A v \in Workers \ {w} : Busy(v) => worker[v].job \in Events \ {worker[w].job}
  BY Holding DEF Busy, Inv, OneHolder, EventJobAgree, NoRow
<1>2. SUFFICES ASSUME NEW g, g = AddOne(f, worker[w].job)
      PROVE  /\ \A e \in Events : events[e] = "absent" => g[e] = 0
             /\ \A e \in Events : jobs[e].status # "absent" => g[e] <= jobs[e].attempts
             /\ \A v \in Workers \ {w} :
                   worker[v].pc \in before => g[worker[v].job] < jobs[worker[v].job].attempts
             /\ g \in [Events -> Nat]
  BY DEF tables
<1>3. /\ g \in [Events -> Nat] /\ g[worker[w].job] = f[worker[w].job] + 1
      /\ \A e \in Events \ {worker[w].job} : g[e] = f[e]
  BY <1>1, <1>2 DEF AddOne
<1>4. jobs[worker[w].job].attempts \in Nat /\ f[worker[w].job] < jobs[worker[w].job].attempts
  BY <1>1, OutboxAssumption DEF Spent, Inv, TypeOK
<1>5. \A v \in Workers \ {w} : worker[v].pc \in before => Busy(v)
  BY DEF Busy
<1> QED
  BY <1>1, <1>3, <1>4, <1>5 DEF Spent

(* However often an event is tried, and whoever dies on the way, each      *)
(* attempt pushes, records and uploads at most once (_finalize_event).     *)
THEOREM EffectsPerAttempt == Spec => []EffectsBounded
<1> DEFINE AllSpent == /\ Spent(media, BeforeMedia)
                       /\ Spent(notices, BeforeNotice)
                       /\ Spent(uploads, BeforeUpload)
<1> USE DEF BeforeMedia, BeforeNotice, BeforeUpload
<1>1. Init => AllSpent
  BY DEF Init, Spent, NoRow, Idle
<1>2. ASSUME Inv, AllSpent, Next PROVE AllSpent'
  <2>t. notices \in [Events -> Nat] /\ media \in [Events -> Nat] /\ uploads \in [Events -> Nat]
    BY <1>2 DEF Inv, TypeOK
  <2>1. ASSUME NEW w \in Workers, Work(w)
        PROVE  \A v \in Workers \ {w} : worker'[v] = worker[v]
    BY <1>2, <2>1 DEF Work, LoadConfig, MakeClip, Notify, NotifyUnanswered, Upload, FinishJob,
                      RetryJob, Raise, Goto, Inv, TypeOK
  <2>2. \A w \in Workers : Busy(w) =>
          \/ worker'[w].pc = worker[w].pc
          \/ worker'[w].pc \in {"retry", "idle"}
          \/ worker[w].pc = "config" /\ worker'[w].pc = "clip"
          \/ worker[w].pc = "clip" /\ worker'[w].pc = "notify"
          \/ worker[w].pc = "notify" /\ worker'[w].pc = "upload"
          \/ worker[w].pc = "upload" /\ worker'[w].pc = "finish"
    <3> DEFINE Onward(w) ==
                 \/ worker'[w].pc = worker[w].pc
                 \/ worker'[w].pc \in {"retry", "idle"}
                 \/ worker[w].pc = "config" /\ worker'[w].pc = "clip"
                 \/ worker[w].pc = "clip" /\ worker'[w].pc = "notify"
                 \/ worker[w].pc = "notify" /\ worker'[w].pc = "upload"
                 \/ worker[w].pc = "upload" /\ worker'[w].pc = "finish"
    <3>1. ASSUME NEW w \in Workers, Work(w) PROVE Onward(w)
      BY <1>2, <3>1 DEF Work, LoadConfig, MakeClip, Notify, NotifyUnanswered, Upload, FinishJob,
                        RetryJob, Raise, Goto, Idle, Inv, TypeOK
    <3>2. ASSUME NEW w \in Workers, Work(w) \/ Crash(w) PROVE \A v \in Workers : Onward(v)
      <4>1. \A v \in Workers \ {w} : worker'[v] = worker[v]
        BY <1>2, <2>1, <3>2 DEF Crash, Inv, TypeOK
      <4>2. Onward(w)
        BY <1>2, <3>1, <3>2 DEF Crash, Idle, Inv, TypeOK
      <4> QED
        BY <4>1, <4>2
    <3>3. ASSUME NEW w \in Workers, NEW e \in Events, ClaimJob(w, e)
          PROVE  \A v \in Workers : Busy(v) => Onward(v)
      BY <1>2, <3>3 DEF ClaimJob, Busy, Inv, TypeOK
    <3>4. ASSUME worker' = worker PROVE \A v \in Workers : Onward(v)
      BY <3>4
    <3>5. ASSUME Tick \/ CompactState \/ \E e \in Events : PersistEventWithJob(e)
          PROVE  \A v \in Workers : Onward(v)
      BY <3>4, <3>5 DEF Tick, CompactState, PersistEventWithJob
    <3> HIDE DEF Onward
    <3>6. \A w \in Workers : Busy(w) => Onward(w)
      BY <1>2, <3>2, <3>3, <3>5 DEF Next
    <3> QED
      BY <3>6 DEF Onward
  <2>3. Spent(media, BeforeMedia)'
    <3>1. CASE media' = media
      <4>1. /\ "idle" \notin BeforeMedia /\ Spent(media, BeforeMedia)
            /\ \A w \in Workers : Busy(w) /\ worker'[w].pc \in BeforeMedia
                                    => worker[w].pc \in BeforeMedia
        BY <1>2, <2>2
      <4> HIDE DEF BeforeMedia
      <4> QED
        BY <1>2, <2>t, <3>1, <4>1, NotSpent DEF Spent
    <3>2. CASE media' # media
      <4>1. PICK w \in Workers : MakeClip(w) /\ media' = AddOne(media, worker[w].job)
        BY <1>2, <3>2 DEF Next, Tick, PersistEventWithJob, CompactState, ClaimJob, Crash, Work,
             LoadConfig, MakeClip, Notify, NotifyUnanswered, Upload, FinishJob, RetryJob, Raise, effects
      <4>2. worker[w].pc = "clip" /\ worker'[w].pc = "notify" /\ UNCHANGED tables
        BY <1>2, <4>1 DEF MakeClip, Goto, Inv, TypeOK
      <4>3. /\ "idle" \notin BeforeMedia /\ Spent(media, BeforeMedia)
            /\ worker[w].pc \in BeforeMedia /\ worker'[w].pc \notin BeforeMedia
            /\ \A v \in Workers \ {w} : worker'[v] = worker[v]
        BY <1>2, <2>1, <4>1, <4>2 DEF Work
      <4> HIDE DEF BeforeMedia
      <4> QED
        BY <1>2, <2>t, <4>1, <4>2, <4>3, SpentOnce DEF Spent
    <3> QED
      BY <3>1, <3>2
  <2>4. Spent(notices, BeforeNotice)'
    <3>1. CASE notices' = notices
      <4>1. /\ "idle" \notin BeforeNotice /\ Spent(notices, BeforeNotice)
            /\ \A w \in Workers : Busy(w) /\ worker'[w].pc \in BeforeNotice
                                    => worker[w].pc \in BeforeNotice
        BY <1>2, <2>2
      <4> HIDE DEF BeforeNotice
      <4> QED
        BY <1>2, <2>t, <3>1, <4>1, NotSpent DEF Spent
    <3>2. CASE notices' # notices
      <4>1. PICK w \in Workers : /\ Notify(w) \/ NotifyUnanswered(w)
                                 /\ notices' = AddOne(notices, worker[w].job)
        BY <1>2, <3>2 DEF Next, Tick, PersistEventWithJob, CompactState, ClaimJob, Crash, Work,
             LoadConfig, MakeClip, Notify, NotifyUnanswered, Upload, FinishJob, RetryJob, Raise, effects
      <4>2. worker[w].pc = "notify" /\ worker'[w].pc \in {"upload", "retry"} /\ UNCHANGED tables
        BY <1>2, <4>1 DEF Notify, NotifyUnanswered, Goto, Inv, TypeOK
      <4>3. /\ "idle" \notin BeforeNotice /\ Spent(notices, BeforeNotice)
            /\ worker[w].pc \in BeforeNotice /\ worker'[w].pc \notin BeforeNotice
            /\ \A v \in Workers \ {w} : worker'[v] = worker[v]
        BY <1>2, <2>1, <4>1, <4>2 DEF Work
      <4> HIDE DEF BeforeNotice
      <4> QED
        BY <1>2, <2>t, <4>1, <4>2, <4>3, SpentOnce DEF Spent
    <3> QED
      BY <3>1, <3>2
  <2>5. Spent(uploads, BeforeUpload)'
    <3>1. CASE uploads' = uploads
      <4>1. /\ "idle" \notin BeforeUpload /\ Spent(uploads, BeforeUpload)
            /\ \A w \in Workers : Busy(w) /\ worker'[w].pc \in BeforeUpload
                                    => worker[w].pc \in BeforeUpload
        BY <1>2, <2>2
      <4> HIDE DEF BeforeUpload
      <4> QED
        BY <1>2, <2>t, <3>1, <4>1, NotSpent DEF Spent
    <3>2. CASE uploads' # uploads
      <4>1. PICK w \in Workers : Upload(w) /\ uploads' = AddOne(uploads, worker[w].job)
        BY <1>2, <3>2 DEF Next, Tick, PersistEventWithJob, CompactState, ClaimJob, Crash, Work,
             LoadConfig, MakeClip, Notify, NotifyUnanswered, Upload, FinishJob, RetryJob, Raise, effects
      <4>2. worker[w].pc = "upload" /\ worker'[w].pc = "finish" /\ UNCHANGED tables
        BY <1>2, <4>1 DEF Upload, Goto, Inv, TypeOK
      <4>3. /\ "idle" \notin BeforeUpload /\ Spent(uploads, BeforeUpload)
            /\ worker[w].pc \in BeforeUpload /\ worker'[w].pc \notin BeforeUpload
            /\ \A v \in Workers \ {w} : worker'[v] = worker[v]
        BY <1>2, <2>1, <4>1, <4>2 DEF Work
      <4> HIDE DEF BeforeUpload
      <4> QED
        BY <1>2, <2>t, <4>1, <4>2, <4>3, SpentOnce DEF Spent
    <3> QED
      BY <3>1, <3>2
  <2> QED
    BY <2>3, <2>4, <2>5
<1>3. ASSUME AllSpent, UNCHANGED vars PROVE AllSpent'
  BY <1>3 DEF Spent, vars, tables, effects
<1>4. AllSpent => EffectsBounded
  BY DEF Spent, EffectsBounded
<1> HIDE DEF AllSpent
<1> QED
  BY InvAlways, <1>1, <1>2, <1>3, <1>4, PTL DEF Spec

-----------------------------------------------------------------------------
(* Lost jobs.                                                              *)

StrandedEvents == {e \in Events : Stranded(e)}

(* A step that is no crash strands no job.                                 *)
LEMMA NoneStranded ==
  ASSUME Inv, StageFits, Next, \A w \in Workers : ~Crash(w)
  PROVE  StrandedEvents' \subseteq StrandedEvents
<1> SUFFICES ASSUME NEW d \in Events, Stranded(d)' PROVE Stranded(d)
  BY DEF StrandedEvents
<1>0. jobs'[d].status = "running" /\ \A v \in Workers : worker'[v].job # d
  BY DEF Stranded
<1>1. CASE Tick
  BY <1>0, <1>1 DEF Tick, tables, Stranded
<1>2. CASE CompactState
  BY <1>0, <1>2 DEF CompactState, NoRow, Stranded
<1>3. ASSUME NEW e \in Events, PersistEventWithJob(e) PROVE Stranded(d)
  <2>1. jobs'[e].status = "pending" /\ worker' = worker
        /\ \A f \in Events \ {e} : jobs'[f] = jobs[f]
    BY <1>3 DEF PersistEventWithJob, Inv, TypeOK
  <2> QED
    BY <1>0, <2>1 DEF Stranded
<1>4. ASSUME NEW w \in Workers, NEW e \in Events, ClaimJob(w, e) PROVE Stranded(d)
  <2>1. /\ worker'[w].job = e /\ \A v \in Workers \ {w} : worker'[v] = worker[v]
        /\ \A f \in Events \ {e} : jobs'[f] = jobs[f]
    BY <1>4 DEF ClaimJob, Inv, TypeOK, Idle
  <2>2. worker[w].job = NoJob /\ NoJob # d
    BY <1>4, OutboxAssumption DEF ClaimJob, StageFits, Idle
  <2> QED
    BY <1>0, <2>1, <2>2 DEF Stranded
<1>5. ASSUME NEW w \in Workers, FinishJob(w) \/ RetryJob(w) PROVE Stranded(d)
  <2>1. worker[w].job \in Events
    BY <1>5, Holding DEF FinishJob, RetryJob, Busy
  <2>2. /\ jobs'[worker[w].job].status # "running"
        /\ \A f \in Events \ {worker[w].job} : jobs'[f] = jobs[f]
        /\ \A v \in Workers \ {w} : worker'[v] = worker[v]
    BY <1>5, <2>1 DEF FinishJob, RetryJob, Inv, TypeOK
  <2> QED
    BY <1>0, <2>2 DEF Stranded
<1>6. ASSUME NEW w \in Workers,
             LoadConfig(w) \/ MakeClip(w) \/ Notify(w) \/ NotifyUnanswered(w) \/ Upload(w)
               \/ Raise(w)
      PROVE  Stranded(d)
  <2>1. jobs' = jobs /\ \A v \in Workers : worker'[v].job = worker[v].job
    BY <1>6 DEF LoadConfig, MakeClip, Notify, NotifyUnanswered, Upload, Raise, Goto, tables,
                Inv, TypeOK
  <2> QED
    BY <1>0, <2>1 DEF Stranded
<1> QED
  BY <1>1, <1>2, <1>3, <1>4, <1>5, <1>6 DEF Next, Work

(* Stages that fail, refused pushes and retries leave no job behind, and a *)
(* worker that dies one at most (run_once, claim_job, retry_job).          *)
THEOREM LossPerCrash == Spec => []OneLossPerCrash
<1> DEFINE Few == IsFiniteSet(StrandedEvents) /\ Cardinality(StrandedEvents) <= crashes
<1>1. Init => Few
  <2>1. Init => StrandedEvents = {} /\ crashes = 0
    BY DEF Init, StrandedEvents, Stranded, NoRow
  <2> QED
    BY <2>1, FS_EmptySet
<1>2. ASSUME Inv, StageFits, Few, [Next]_vars PROVE Few'
  <2>t. crashes \in Nat
    BY <1>2, OutboxAssumption DEF Inv, TypeOK
  <2>1. ASSUME StrandedEvents' \subseteq StrandedEvents, crashes' = crashes PROVE Few'
    BY <1>2, <2>t, <2>1, FS_Subset, FS_CardinalityType
  <2>2. CASE UNCHANGED vars
    BY <2>1, <2>2 DEF StrandedEvents, Stranded, vars, tables
  <2>3. CASE Next /\ \A w \in Workers : ~Crash(w)
    <3>1. crashes' = crashes
      BY <2>3 DEF Next, Tick, PersistEventWithJob, CompactState, ClaimJob, Work, LoadConfig,
           MakeClip, Notify, NotifyUnanswered, Upload, FinishJob, RetryJob, Raise
    <3> QED
      BY <1>2, <2>1, <2>3, <3>1, NoneStranded
  <2>4. ASSUME NEW w \in Workers, Crash(w) PROVE Few'
    <3>1. /\ jobs' = jobs /\ crashes' = crashes + 1
          /\ \A v \in Workers \ {w} : worker'[v] = worker[v]
      BY <2>4 DEF Crash, tables, Inv, TypeOK
    <3>2. StrandedEvents' \subseteq StrandedEvents \cup {worker[w].job}
      BY <3>1 DEF StrandedEvents, Stranded
    <3>3. /\ IsFiniteSet(StrandedEvents \cup {worker[w].job})
          /\ Cardinality(StrandedEvents \cup {worker[w].job}) <= crashes + 1
      <4>1. /\ IsFiniteSet(StrandedEvents) /\ Cardinality(StrandedEvents) \in Nat
            /\ Cardinality(StrandedEvents) <= crashes
        BY <1>2, FS_CardinalityType
      <4>2. /\ IsFiniteSet(StrandedEvents \cup {worker[w].job})
            /\ Cardinality(StrandedEvents \cup {worker[w].job})
                 \in {Cardinality(StrandedEvents), Cardinality(StrandedEvents) + 1}
        BY <4>1, FS_AddElement
      <4> QED
        BY <2>t, <4>1, <4>2
    <3> QED
      BY <2>t, <3>1, <3>2, <3>3, FS_Subset, FS_CardinalityType
  <2> QED
    BY <1>2, <2>2, <2>3, <2>4
<1>3. Few => OneLossPerCrash
  BY DEF OneLossPerCrash, StrandedEvents
<1>4. Init => StageFits
  BY InitFits
<1>5. Inv /\ StageFits /\ [Next]_vars => StageFits'
  BY NextFits
<1> HIDE DEF Few
<1> QED
  BY InvAlways, <1>1, <1>2, <1>3, <1>4, <1>5, PTL DEF Spec
=============================================================================
