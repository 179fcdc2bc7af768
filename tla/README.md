# Verification of NomWatch

NomWatch watches a pet's food bowl through an RTSP camera, decides poll by poll
whether the animal is eating, and tells the owner about each visit. This
directory holds TLA+ specifications of its code, TLC configurations that check
them on small instances, and TLAPS proofs of the results that matter most for
all instances. Every definition is translated from the Python source under
`src/nomwatch/`; `PROJECT.json` maps each of them to the lines it stands for.

## The system and its parts

```
              +-------------------------- host process (host.py) -------------------------+
 browser ---> | web UI / API (webui, gateway, websecurity)   control.sock (control.py)    |
              |      |              |             |                |                     |
              |   auth.py     network.py    tailscale.py      supervisor.py -- loop thread |
              +------|--------------|-------------|----------------|---------------------+
                     v              v             v                | starts, reaps, stops
             state.py: SQLite + secrets.json                       v
                     ^        ^            +---- mediamtx (camera -> RTSP, HLS, segments)
                     |        |            +---- worker  (cli.py worker, detection.py)
                     |        +------------+---- jobs    (jobs.py, clip, notify, storage)
                     +--- events + jobs tables: worker inserts, jobs claims and finishes
```

| Part | State it keeps | Operations | What makes it hard | What makes it correct |
|---|---|---|---|---|
| Detection (`detection.py`, `cli.py worker`) | baseline thumbnail, streak, fired flag, negatives, best confidence | one poll: capture, motion, gate, model, debounce | long sequences of polls, failed polls, worker restarts | one alert for each visit, none missed, with its own confidence |
| Monitor worker (`monitorlock.py`, restart policy of `supervisor.py`) | run.lock, restart stamps, next start, the process | launch, refuse, poll, die, reap, switch on and off, look at the lock | crash loops, the lock taken by looks, stray monitors | exits stay few, wanted monitoring comes back |
| Outbox (`state.py`, `jobs.py`, `recovery.compact_state`) | events and jobs tables, what a worker holds in memory | insert, claim, clip, notify, upload, finish, retry, compact | several workers, crashes between stages, repeated side effects, lost answers | complete only when delivered, one holder per job, outcomes final, every event settled |
| Clips (`clip.py`, `bridge.py`'s recording block) | segment files, the window of the event | record, delete, find, trim, join, fall back | the last segment is not finished, old ones are deleted, recordings have gaps, attempts are late or repeated | a prompt clip is the window, any clip stays near it |
| Clip library (`clip.py`'s names, `state.add_media`, `storage.py`, `cli prune`) | files by name, the media row, what the storage has | write, note, upload, overwrite, prune | two events with one name, retries over a good file, pruning between two steps | row, storage and file agree |
| Supervisor (`supervisor.py`, `control.py`, `host.py`) | per child: wanted, process, status, restart stamps, next start; a lock; a stop flag | reconcile, launch, terminate, set_monitoring, health, stop | three kinds of threads, children that exit any time, exceptions, bounded joins | one process per child, off means off, honest health, restarts, clean stop |
| Host and cutover (`host.py`, `migration.py`, `monitorlock.py`, `recovery.py`) | legacy service and its manifest, run.lock, imported rows, control.sock, backup | cut over, import, start, serve, finalize, roll back, restore | failures and crashes between any two steps, a second host, launchd starting again | a failed start brings the old service back, nothing it wrote is lost, it is retired in the end |
| Accounts (`auth.py`, `websecurity.py`) | users, sessions, activation codes, login attempts | claim, invite, accept, login, authenticate, revoke, update | parallel requests, checks outside transactions | one first claim, an enabled owner left, revoked means out |
| LAN access (`network.py`, routes of `gateway.py`) | listener, pending stage, confirmed address, persisted setting, advertisement | stage, confirm, disable, status, restore | deadlines nobody watches, addresses that change, restarts | listening only on a confirmed or staged address |
| Live view (`gateway.py`, `bridge.py`'s credentials) | HLS slots, what each viewer's thread holds, MediaMTX and its password | ask, acquire, fetch, stream, give back, import settings | error paths, streamed responses, a password in three places | a slot taken is given back; what MediaMTX has is served |
| Tailscale (`tailscale.py`) | the remote_access row, the backend listener, the last observation | observe, enable, disable, reconcile | the tailnet changes by itself; three callers without a lock | the user's mappings are left alone, drift closes the backend |
| Settings (`config.py`, `state.py`, handlers of `webui.py`) | camera row with a secret's reference, settings rows, `secrets.json` | load, edit, save, import | three places written one after the other, no lock, crashes in between | the reference resolves, no screen disturbs another's fields |
| Not modelled | | | | `service.py`, the Drive API of `storage.py`, `tailscale_helper.py`, setup commands, HTML |

How they interact: the worker is a child of the supervisor and the only writer
of new events; `persist_event_with_job` hands an event to the outbox in one
transaction; the job worker, another child, works it off and builds the clip
from what MediaMTX, the third child, has recorded. Requests from the web UI and
from the control socket reach the supervisor through `set_monitoring`. The host
takes over from the legacy service before any child starts, and the monitor
takes the same `run.lock` the cutover takes. The live view is asked for through
loopback or through the LAN listener, and fetches from MediaMTX. Tailscale's
reconciler and its `disable` revoke sessions of accounts; a session is let in
only at the listener of its origin.

## The modules

| Module | What it is |
|---|---|
| `VisitAlerts` | The abstract promise of detection: one alert per visit, stated over the whole history of poll verdicts. |
| `Detection`, `Detection_proofs` | `poll_stream` with its locals, engines, gating and failed polls; implements `VisitAlerts`. The proofs cover `Monitor` too. |
| `Monitor` | Composes `Detection` with the supervisor's restart policy, the run lock, the looks of the dashboard and the users. |
| `Delivery` | The abstract promise of the outbox: accepted once, delivered, settled once. |
| `Outbox`, `Outbox_proofs` | The two tables, the job workers stage by stage, crashes, the clock and compaction; implements `Delivery`. |
| `Clip` | The recording of MediaMTX and the clip of one event. |
| `Library`, `Clip_proofs` | Composes `Clip` with the files on disk, the media row, the storage, pruning and the clips of other events. The proofs cover both. |
| `Supervisor`, `Supervisor_proofs` | The loop, the request threads and the stop over the children. |
| `Host`, `Host_proofs` | Starts of the host: cutover, import, rollback, control socket, backups. |
| `Auth`, `Auth_proofs` | Users, codes, sessions and the rate limit under parallel requests. |
| `LanAccess` | The LAN listener and its two-step confirmation. |
| `Gateway`, `Gateway_proofs` | Composes `LanAccess` with the live view, its slots, MediaMTX and its password. The proofs cover both. |
| `Tailscale` | The Serve mapping, the remote_access row and the backend listener. |
| `Settings`, `Settings_proofs` | Saving the configuration in three places. The proofs extend `Tailscale` as well and cover it. |
| `MC...` | The instances that TLC checks. |

### Detection and VisitAlerts

The variables `prevThumb`, `streak`, `alreadyFired`, `negPolls` and
`bestConfidence` are the locals of `poll_stream`; `yielded` is the confidence of
the event it yielded last. `polls`, `scores`, `alerts` and `since` are history
that no guard reads, except that `MaxPolls` bounds it. `config` is chosen at
`Init` and again at every `WorkerRestart`, because `worker` reads the
configuration once when it starts. One action is one turn of the loop:
`CaptureFailed` and `ModelUnreachable` are the two `continue`s before the
debounce, `PollMotion`, `PollGated` and `PollModel` the three ways to a verdict,
each ending in `Debounce`, whose disjuncts are its branches. A frame is a scene
or, when the thumbnail cannot be decoded, `NoThumb`; `Differ` says between which
scenes `compare` sees motion. Confidences are integers (tenths); a reply without
a readable number has confidence 0.

`VisitAlerts` keeps no counters. A poll raises an alert exactly when the last
`Support` verdicts of this worker are positive and no earlier alert of this
worker waits for `Quiet` negatives in a row.

### Monitor

`Monitor` EXTENDS `Detection`: its polls are Detection's `Poll`, and entering the
loop is Detection's `WorkerRestart`. Around them stands what decides whether
the worker runs at all. `Pass` is `_reconcile` over this one child with the real
arithmetic of `_backoff`: exits older than `Window` leave the stamps, the
`Limit`th within it is degraded and waits `LongDelay`, fewer wait a doubling
delay. `Refuses` is the worker that finds the lock taken or the configuration
unusable; `Look` and `LookEnds` are `run_loop_locked`, which takes the lock to
see whether it is free; `StrayStarts` is a monitor in a terminal. Time is
relative (ages of exits, rest of the delay), so the model needs no clock.

### Outbox and Delivery

`events` and `jobs` are the rows that belong to an event (a job's idempotency key
is derived from the event's id, so they are named alike). `worker[w]` is what one
`nomwatch jobs` process holds: its stage, the job, the attempt count it was given
at claim time, the configuration and whether it has a clip. Each stage of
`_finalize_event` is an action; `Raise` is an exception in any of them, which
`run_once` turns into `retry_job`. `NotifyUnanswered` is a push that was accepted
while `send` returned False. `Crash` loses a worker's memory at any stage.
`notices`, `media` and `uploads` count effects outside the two rows.

`Delivery` knows no tables, workers or clock: an event is accepted once, an
attempt asks for goods (a push, a clip, an upload), goods are delivered while the
event is pending, and it is completed only when what the attempt asked for has
been delivered. `RefinesDelivery` maps its three variables to the rows, to the
configuration the holder of the job loaded, and to the effects.

### Clip and Library

Footage is a set of seconds. `writing` and `disk` are MediaMTX's (external, as
`bridge.py` configures it): a segment ends at the key frame after its length
(`RollSlack`), an interruption ends it early, and a file may be deleted as soon
as its beginning is older than the retention, the oldest first. `Confirm` queues
the job for `RunAt`. An attempt reads the directory once:
`BuildClipWithPreroll` joins the files found by `Covering` and cuts the joined
footage as `-ss` and `-t` do, that is, counting positions and not times.
`FallBack`, `RecordClip` and `MakeNoClip` are the other outcomes, and `Retry`
makes the next attempt start over. Abstracted: key-frame positions within the
cut, audio, the sub-second part of a file name and the clock change in autumn,
in whose repeated hour a file name is ambiguous.

`Library` EXTENDS `Clip` and follows the clip to where it is kept. `files` says
what the file of each name shows; a stitched clip is named by the second its
event was confirmed in, a live one by the second it began in, and ffmpeg is run
with `-y`. Each attempt of Clip therefore writes a file (`StitchFile`,
`StartLive`, `EndLive`), may break the file of an earlier one (`Attempted`), notes
a digest (`AddMedia`) and hands the file to the storage (`UploadClip`). `Prune`
moves every file away, and `OtherStitched` and `OtherLive` are the jobs of other
events, which the same worker runs between two attempts.

### Supervisor

`live` is the number of operating-system processes of a child; `proc` is what the
`Popen` handle says ("dead" once the process has ended and nobody has reaped it).
The steps of `_reconcile` are actions of the thread that holds the lock: `Reap`,
`Decide`, `Launch` or `LaunchFails`, `Show`, `Terminated`; `Fault` is an exception
that none of them catches. The clock is abstract here: `cooling` says that
`next_start` lies ahead, and `Reap` may find that any number of restart stamps
left the window; `Monitor` has the numbers. `Slow` names the stages in which a
thread may take longer than the join of `stop` waits; `late` remembers that it
waited in vain, and whether the loop had by then passed its look at the flag.

### Host

`host[h].pc` walks through `run_host`: bootout, lock, snapshot and import,
release, building and starting the supervisor, the control socket, serving,
`finalize_cutover`; a failure leads to the rollback, a crash from anywhere to
"down", and so do the exceptions outside the two `try`s (`LockRaises`, `Build`);
`RollbackRaises` is the one within the rollback. `lock` names the holder of `run.lock`, `plist` and `loaded` are
launchd's, `sock` says whose socket `control.sock` names. `before`, `mishaps`
and `met` are history: each property names, as `mishaps`, the failures it does
not survive, and every one of these excuses is needed.

### Auth, LanAccess, Tailscale, Settings

Each request is a thread with a `pc`; a SQL statement outside an explicit
transaction is a step of its own, an explicit transaction is one step. `Auth`
splits `login` into its five statements; `Tailscale` splits every operation into
the commands it runs, the action and `_persist`; `Settings` splits a save into
reads, the secret, the camera row and each settings row, and models files as
inodes, because `secrets.tmp` has a fixed name that two writers share.
`LanAccess` has `stage`, `confirm` and `disable` in two to four steps, and
addresses that come and go.

Exceptions that nothing on the way catches are actions of their own. In
`LanAccess` a request ends where the database or the network raises
(`SaveRaises`, `Raises`), and what it has assigned stays. In `Tailscale` only
`observe` catches a command that does not end in time or cannot be run, so
`enable` and `disable` end at theirs (`CommandRaises`), and every thread at a
statement of the database or at the port of the listener (`StepRaises`,
`RevokeRaises`); the loop of the reconciler has no `try`, so its thread is `Dead`
from then on. `leftOpen`, `unsaved` and `met` are history: they say that such an
exception left the listener open, or the setting unwritten, and that two
requests have overlapped, and the properties name them.

### Gateway

`Gateway` EXTENDS `LanAccess`: a viewer asks through loopback or through a LAN
address that is listening, and a stream lives on when the listener is closed.
`view[v]` is the thread of one live request: it takes a slot, loads the
configuration, fetches from MediaMTX, and then returns a playlist or streams a
segment. Each return and each exception of `live_media` is an action. `lost`
counts the slots that two of these ways keep: an exception of `load_config`, and
a HEAD for a segment, whose generator never starts. `written` is the password in
`mediamtx.yml` and `taken` the one MediaMTX was launched with.

## The runs

| Run | Instance | Shows |
|---|---|---|
| `monitor` | two scenes, confidences below and above the threshold, both counts 2, up to 7 polls, 2 exits, 5 acts of users and others; fair | `OneAlertPerVisit`, `AlertConfidence`, `RefinesVisitAlerts`: every visit is alerted once, by the right poll, with its confidence; `ExitsContained`, `MonitoringReturns`: few exits in a minute whatever happens, and monitoring comes back |
| `outbox` | 2 events, 2 workers, 2 attempts, 1 crash; fair | `RefinesDelivery`, `EventJobAgree`, `OneHolder`, `EffectsBounded`, `OneLossPerCrash`, `EverySettled` |
| `outbox_crash` | 1 event, 1 worker, 1 crash; violated | `NoEventLost`: a worker that dies after the claim leaves its event pending for good |
| `clip` | segments of 2 s, pre-roll and post of 0 or 1 s, 2 attempts at any time, 1 disturbance | `WholeWhenPrompt`, `InWindow`, `GapCost`, `ClipKept` |
| `supervisor` | 2 children, 2 requests, 2 exits, 1 exception, terminations that outlast the join; fair | `OneProcessPerChild`, `OffMeansOff`, `HealthIsHonest`, `LoopChildrenStopped`, `KeptUp`, `StopCompletes` |
| `host` | the service alone with 2 faults; with backups and 1 fault; beside a second host with 1 fault; fair | `FailedStartRestores`, `NothingLeftBehind`, `RestoreSeesHost`, `LegacyRetired` |
| `auth` | four scopes: accounts, rate limit, life of a session, two origins | `OwnerRemains`, `CodesAdmitOne`, `FailuresBounded`, `UseKeepsAlive`, `OriginStaysRevoked`, `PriorSessionsOut` |
| `gateway` | 2 threads with requests to the LAN manager, 2 addresses, 1 exception, 2 viewers, 1 slot, 1 restart; fair | `ListenerJustified`, `SlotsAccounted`, `SlotsComeBack` |
| `live_view` | one request thread, no restart and no exception; violated | `LiveViewServed`: the host does not know the password of MediaMTX |
| `tailscale` | three scopes: two requests; one with every disturbance and an exception; one and the reconciler, with an exception; fair | `AloneClosedWhenOff`, `UserMappingKept`, `DisableEndsAccess`, `DriftCloses` |
| `tailscale_race` | one request and the reconciler; violated | `ClosedWhenOff`: the listener is open although access is off |
| `settings` | 2 parallel requests, 3 saves, 2 new secrets | `ReferenceResolves`, `EditsKept` |

Detection, Clip and LanAccess are checked inside the module that composes them
(`Monitor`, `Library`, `Gateway`), where their environment is the real one; so
one run answers for both. Type invariants are proved for all instances where
the module has proofs; they are not repeated as runs.

### Bounds

* `monitor`: `MaxPolls = 7` with both counts 2. An alert (two polls), an
  isolated negative, a positive, another negative and two positives are the
  shortest history in which isolated negatives that add up would split a visit.
  A second visit and a restart fit in as well; failed polls cost nothing. The
  window of 8, the limit of 3 and the long delay of 4 stand for 60, 5 and 30 and
  keep their order: the quick exits fit into one long delay, and two long delays
  into the window. `MaxDeaths` bounds exits only in a history that has polls;
  without polls a crash loop goes on for ever, and time has no bound.
* `outbox`: with `MaxAttempts = 2` the first attempt may be retried and the
  second is final; the code's five repeat the first case. Two events let one
  worker claim a job while another holds one. `MaxTime` does not keep the clock
  from reaching a due job.
* `clip`: `Lookback = 3`, `Headroom = 8` and `Margin = 1` stand for 30, 30 and
  1. They keep the order of the code's numbers: look-back at least a segment with
  its key frame, headroom above two segments and the margin (`Grace` is 3 s here,
  19 s with the defaults and a key frame each second). The event at second 4
  leaves room for the look-back, `MaxTime = 12` lets attempts come after the
  first needed segment has been deleted. A behaviour has one disturbance
  (`drops` and `meddled` together stay within `MaxMeddling`): an interruption, a
  pruning or a clip of another event. No time passes between `AddMedia` and the
  upload, where nothing reads the clock.
* `supervisor`: `Limit = 2` exits make a child degraded instead of five, and two
  exits reach it. Two children are enough: one that only the loop starts, with a
  readiness probe, and the monitor, which requests start too; `jobs` is like the
  first without a probe. Only a termination can outlast the join of two seconds
  (it waits ten for SIGTERM); the proof allows every stage to.
* `gateway`: one slot instead of four, so that two viewers compete for it;
  `MaxBeside` lets one act of the LAN or of a user fall into a history with
  viewers, `MaxCalls` four calls into one without: stage, confirm and two more,
  of either thread. `StageSeconds = 0` and `MaxTime = 1` let a stage expire or not.
* `host`: a fault is a failed step, an exception or a crash; two of them are a
  crash or an exception within the recovery from another.
* **Scopes.** `Auth`, `Tailscale` and `Host` choose a record of bounds in `Init`.
  One run then covers several small instances, each rich in another
  dimension, instead of one in which all dimensions are poor.
* Deadlock is checked where the system never stops (`monitor`, `host`); the
  other models stop at their bounds, or when the host has exited, and their
  configurations say so.

### Fairness

* `monitor`: time passes, the supervisor's loop makes its passes, a worker that
  starts comes to its end or its loop, and a look at the lock ends. A stray monitor
  need not end, nor a user do anything, nor a worker poll or die.
* `outbox`: the clock goes on, and a worker that has something to do does it.
  Each stage has a timeout or is a subprocess with one, and an idle worker polls
  every second.
* `supervisor`: the loop, a request that has arrived and the stop are threads
  that get scheduled, every wait in them is bounded (0.2 s, 2 s, 10 s, 5 s), and a
  backoff ends. Nobody need call, stop the host or let a child exit. The lock is
  acquired under weak fairness only; requests are finite.
* `gateway`: the thread of a live request goes on, because each fetch has a
  timeout and the server's threads are scheduled. Nobody need ask, and MediaMTX
  need not come back.
* `tailscale`: every command has a timeout, so a thread that has begun goes on,
  and the reconciler wakes up every 30 seconds until an exception has ended its
  thread. The user and the daemon owe nothing.
* `host`: launchd (KeepAlive) starts the service again, and a host that has
  begun goes on. A monitor outside the host may keep the lock for ever;
  `LegacyRetired` says what follows when none does.

## What is proved

All proofs are checked by TLAPS for every value of the constants that satisfies
the named assumptions. Eight modules hold them.

| Theorem | Establishes | Argument |
|---|---|---|
| `Detection_proofs!TypeCorrect`, `Refinement` | types; `RefinesVisitAlerts` | The invariant says what the counters mean in terms of the history: the streak is the number of positives at its end (while nothing has fired), the fired flag holds exactly when an alert of this worker is not yet quieted, the negatives are those after the last positive. Without it `Debounce` could not be shown to decide as `Observe` does. |
| `Detection_proofs!AlertedOnce` | `OneAlertPerVisit` | From the same invariant: an alert is raised only where none waits to be quieted, and a confirmed visit has one that does. |
| `Detection_proofs!ConfidenceOfVisit` | `AlertConfidence` | `BestSoFar`: `bestConfidence` is the best score of the positives in the streak. |
| `Detection_proofs!RunsDetection`, `AlertsPerVisit`, `AlertsTrue` | the three of them for the supervised worker | Each step of `Monitor` is a step of `Detection` or leaves its variables alone. |
| `Detection_proofs!ExitsFew` | `ExitsContained` | `Contained`: an exit that was at least the `Limit`th of its window is a long delay older than the next one, and until there is a next one its age and what is left of the delay make up the long delay. Those exits are told apart by the quotient of their age and the delay (`FewDelayed`), and all others are fewer than `Limit` (`FewUndelayed`). |
| `Outbox_proofs!TypeCorrect`, `TablesAgree`, `SingleHolder`, `NeverGivenUpEarly`, `SettledForGood` | types, `EventJobAgree`, `OneHolder`, `FailedExhausted`, `SettledStable` | One invariant with `AttemptsFit` (a job that may be claimed has attempts left). `OneHolder` is what makes updates by id alone harmless; every other part rests on it. |
| `Outbox_proofs!Refinement` | `RefinesDelivery` | `StageFits`: a worker past a stage has delivered what the stage was asked for. |
| `Outbox_proofs!EffectsPerAttempt` | `EffectsBounded` | A holder that still has a stage before it has spent one effect less than attempts; a table of stages for each effect. |
| `Outbox_proofs!LossPerCrash` | `OneLossPerCrash` | The set of stranded events is finite and grows by at most one element, and only in `Crash`. |
| `Supervisor_proofs!TypeCorrect`, `SingleProcess` | types, `OneProcessPerChild` | `LockHeld` (a thread between two steps of `_reconcile` owns the lock) keeps `LaunchReady` (a thread about to launch finds no process behind the handle) from being disturbed. |
| `Supervisor_proofs!HonestHealth` | `HealthIsHonest` | `StatusAgrees`: until the final stop, the status and the handle of every child tell the same at every step, in spite of faults. |
| `Supervisor_proofs!OffIsOff` | `OffMeansOff` | `OffPending`: a process that is not wanted is the one the owner of the lock is about to end. |
| `Supervisor_proofs!CleanStop` | `LoopChildrenStopped`, for any `Slow` | `LoopGone`: once `stop` has the lock, the loop is over or about to look at the flag, unless it is `late`; `OnlyMonitor`: a request touches the monitor only; `PastDown`: so a child whose turn has passed stays down. |
| `Auth_proofs!TypeCorrect` | types | `TypeOK` says, for each stage of a request, what the request holds. |
| `Auth_proofs!OwnerStays`, `OneForACode` | `OwnerRemains`, `CodesAdmitOne` | One invariant: a request past the password has a user who exists (`Behind`), so has a session (`Owned`), there are invitations only once there is a user (`Invited`), and whoever joined did so with a code that is consumed (`Admitted`). |
| `Auth_proofs!UseKeeps` | `UseKeepsAlive` | `KeptAlive` relates the expiry to the stored `last_seen`, which is less than the coalescing interval older than the last use. |
| `Auth_proofs!OriginRevoked` | `OriginStaysRevoked` | `Closed`: while an origin counts as shut, no login there is under way. |
| `Auth_proofs!UpdateEndsSessions` | `PriorSessionsOut`, about sessions in the table at the update | `Dated`: a session from before an update carries an older version than its user, and neither a session nor a login about to insert one carries a newer. |
| `Auth_proofs!FailuresStayBounded` | `FailuresBounded` | Recent failures and the logins that have passed the check are counted together (`Charged`): recording a failure moves a login from one to the other, and the clock only takes away. |
| `Host_proofs!TypeCorrect`, `RestoreSees` | types; `RestoreSeesHost` | `control.sock` names every host that has a socket and no rival (`Named`), and of two hosts with sockets both are rivals (`Known`). |
| `Host_proofs!NothingLost` | `NothingLeftBehind` | While no two hosts have met, one at most is on its way (`OneHost`), and its stage says whether the legacy service is out, who put it out, and whether what it wrote is imported (`Safe`). |
| `Host_proofs!StartUndone` | `FailedStartRestores`, with its six excuses | `Owed`: as long as the manifest is there, a host on its way owes the service exactly what it took. |
| `Settings_proofs!TypeCorrect`, `Resolves` | types, `ReferenceResolves` | `FilesApart` (an inode about to be made is newer than both names) and `InTurn`, which says for each step of a save that was never overlapped what the file and the row hold. |
| `Settings_proofs!KeptBesideOthers` | `EditsKept`, with any number of saves beside each other | `Apart`: a field that no save has in hand is in its place as its last save left it, and no save that has read it saw anything else (`Settled`); a save that nobody overlapped has put its fields wherever it has already written (`Done`). |
| `Settings_proofs!ClosedWhenAlone`, `DisabledIsOver` | `AloneClosedWhenOff`, `DisableEndsAccess` of `Tailscale` | `Careful` says for each step of a thread that is alone how listener and row may disagree: the listener is open and access not wanted only between the step that opens it and the row that says so (`Opening`), or when an exception fell in between (`leftOpen`). |
| `Settings_proofs!UsersOwn` | `UserMappingKept` of `Tailscale`, with any number of threads | `Clear`: from the inventory to the command, a thread that has not been overtaken by the user goes on only if there is nothing of the user's where it writes. |
| `Gateway_proofs!TypeCorrect`, `Justified` | types; `ListenerJustified` for any number of request threads | `Ordered`: until two requests have overlapped, one at most is on its way (`OneRequest`), and its step says which of listener, stage, confirmed address and setting already agree (`InOrder`). |
| `Gateway_proofs!EverySlot`, `RunsLan`, `ReachedIfJustified` | `SlotsAccounted`; the LAN manager under the gateway is `LanAccess`, so that `ListenerJustified` holds there too | Each way out of `live_media` changes slots, holders and `lost` by amounts that cancel. |
| `Clip_proofs!TypeCorrect` | types: segments do not overlap, files and clips show only what the camera delivered | A file ends where the segment being written begins. |
| `Clip_proofs!StitchedInWindow` | `InWindow` | `StitchedFrom` (a stitched clip is the cut of some set of segments `Covering` can find) and a bound on the rank of a second among joined ones: at most its distance to the first. That bound is an induction over seconds, made with the least-number principle. |
| `Clip_proofs!GapsAreAllItCosts` | `GapCost` | The trim is too large by what is missing before the window. A second of the window that is left out therefore has fewer wanted seconds before it than are missing, and no two have the same number: at most as many are left out as are missing. |
| `Clip_proofs!PromptIsWhole` | `WholeWhenPrompt` | Every second that was served is on disk, in the segment being written, or too old for the retention (`Accounted`), and no attempt is made before `RunAt` (`InTime`): so at a prompt attempt the last segment of the window is finished and the first one is not deleted. |
| `Clip_proofs!LibraryIsClip`, `NotedIsKept` | `Library` takes the steps of `Clip` only, so everything above holds there too; `ClipKept` | `Storing`: while a clip is stored nobody writes a file of its name, although all clips may be moved away. `Stored`: later only a live recording of that same second could, which would have to begin before the worker was idle. |

The assumption `OutboxAssumption` contains that powers of two are natural
numbers, a fact of arithmetic the provers do not know; TLC evaluates it.

Two of these proofs found what the runs had hidden. `WholeWhenPrompt` had to ask
for `RollSlack <= Margin`: `RunAt` leaves `Margin` (one second) for the last
segment to end, so with key frames further apart it may be unfinished when the
job starts. `ExitsContained` was stated with a quotient that is right only when
the long delay divides the window, as 30 divides 60; it now holds for every
window. `MeddlingAssumption` says, besides its bound, that `Nothing` is not a row. The
proofs about `Tailscale` do not need `TailscaleAssumption`.

Only model-checked: all liveness properties (`MonitoringReturns`, `EverySettled`,
`KeptUp`, `StopCompletes`, `LegacyRetired`, `SlotsComeBack`, `DriftCloses`) and
what depends on ENABLED, which the prover cannot treat. Every safety invariant
and action property of a passing run is proved. What a recursive definition
computes for every input is out of the prover's reach as well (it would need
induction over data); no module uses RECURSIVE.

## Where the code and its documentation disagree

ADR is `docs/adr/0001-local-first-host-and-private-remote-access.md`. Three runs
end in a counterexample on purpose, and `PROJECT.json` quotes what each refutes:
`outbox_crash` (a crash of the job worker, ADR:151), `tailscale_race` (the
listener that a reconciler opens after a disable, ADR:459) and `live_view` (the
password of MediaMTX, ADR:114). More disagreements were met while modelling and
follow from the models or from the code; no run is kept for them:

* Detection: with gating, plain ollama mode skips the model on the first frame
  (detection.py:609 and 627, against the comment at 607). Failed captures do
  not break "polls in a row" (586 against 539). A visit is alerted again after a
  restart of the worker (569 against 555).
* Monitor: stopping and starting during a backoff shows "stopped" and then a
  health of "ready" although the worker is in a crash loop. Two looks at the lock
  at the same moment take each other for a monitor (monitorlock.py:49).
  `restarts_last_minute` is pruned at exits only. The commands of the children
  are built once: a camera that is configured later is not monitored until the
  host restarts.
* Outbox: a retry pushes the notification again (jobs.py:64, ADR:555). The
  gallery and `/api/recent-events` read `events.jsonl`, which the supervised
  worker does not write: what the host detects is in SQLite and never shown there.
* Clips: footage missing before the window makes `trim_offset` cut wanted
  footage (clip.py:130; `GapCost` is the exact bound). A retry builds the
  clip again, under the same name, from what the retention has left, or records
  whatever the camera shows then; "a momentary Drive-sync hiccup shouldn't lose
  it" (cli.py:686) holds for the inline path only. Segments longer than 30 s
  are missed by `find_segments_covering`.
* Library: names are whole seconds and ffmpeg overwrites, so a live recording
  that begins in the second another event was confirmed in takes the other's
  file, and a stitch that fails in a retry breaks a good clip whose row stays.
  A folder storage that is the clip folder itself does not look whether the file
  is still there.
* Supervisor: an exception before the `try` of `_launch` ends the loop thread,
  nothing shows it, and no child is brought back (supervisor.py:149, ADR:99). A request that waited for the
  lock during `stop` may launch the monitor after it, and so may a loop whose join
  timed out.
* Accounts: a login under way while its origin is revoked still gets its session
  (auth.py:170, ADR:459), and so does one that is past the password when its user
  is updated, because the version is read afterwards (172-186); no fresh check of the
  listener precedes it (ADR:287).
* Tailscale: a failed verification leaves sessions (tailscale.py:347, ADR:322);
  an outage empties the identity in the row, which then never matches again
  (390, ADR:222). A command of `enable` that does not end in 30 seconds, or a row
  that cannot be written after it, leaves the listener open with access off
  (334, 353, ADR:459), and one exception ends the reconciler for good (399-401).
* LAN: a stage that fails or expires does not open the confirmed address again
  (network.py:184, ADR:252); disabling closes the listener even when the session
  that asks came through it (ADR:252); expiry is noticed by `status` and
  `confirm` only (276); `reconcile` is called by nobody (222, ADR:250); a new
  advertisement replaces one that is still running (128, ADR:259); two stages at
  once make the manager forget an open listener (186); when the setting cannot be
  written, the address stays confirmed and open until the host ends, and the next
  host does not know it (244-246).
* Live view: HEAD for a segment never iterates the response and keeps its slot
  (gateway.py:131), and so does an unreadable configuration. A response of
  MediaMTX with an error status is not closed. The dashboard's own looks at
  MediaMTX send no password and take the refusal for an outage. `import-config`
  renders `mediamtx.yml` with the development password, so after MediaMTX is
  launched again worker and jobs are refused until the host restarts.
  Streams go on after LAN access is disabled.
* Settings: overlapping saves lose an edit (config.py:206 passes no
  expected revision, ADR:403); a save that meets a half-written `secrets.json` starts from
  the defaults. The address of a camera is examined by the test of the camera
  only, not by the save (ADR:143).
* Host: the supervisor is built outside the `try` (host.py:36, ADR:479), and so is
  the lock opened (migration.py:103); an exception of either, or of deleting the
  mark in the rollback (125-127), and a crash after the bootout leave the legacy
  service out until the next start; a second
  host replaces, and at its end unlinks, `control.sock`, so that `restore-backup`
  no longer sees the first (recovery.py:60); a stale socket blocks a restore; a monitor that survives
  a crash of its host keeps the lock and lets every cutover fail.

## Plan

Done: everything named above, in this order: the survey, `VisitAlerts` and
`Detection`, `Outbox`, `Supervisor`, `Auth`, `LanAccess`, `Tailscale`,
`Settings`, `Host`, `Clip`; then `Delivery` and the refinement of it, and the
compositions `Monitor`, `Gateway` and `Library`; then the proofs.

What would come next, most useful first:

1. `Pipeline`: Monitor, Outbox and Library composed, from poll to kept clip. Each
   interface between them is one variable (the event row, the recorded seconds),
   so that the composition would add states rather than cases.
2. An abstract specification of a session's life that `Auth` implements.

## Not modelled, and why

* Frames, prompts and the wording of model answers: verdict and confidence are inputs.
* HTML, wording, logging, log rotation, QR codes, manifests: no property is about them.
* `bridge.py` beyond its recording block and credentials, `service.py`, `packaging`,
  interactive setup, discovery and calibration: generated text and process I/O.
* The Drive API of `storage.py` and its OAuth exchange: `Library` and `Outbox` ask
  whether an upload succeeds and what it carried.
* Code that the host never runs: `create_app` without a supervisor,
  `_start_run_loop` and its pid files, the handlers of local-only paths it
  refuses; and the worker outside a supervisor, which only the hidden `worker`
  command starts.
* The privileged Tailscale helper, Tailscale Services and version checks.
* Rehashing of passwords, CSRF tokens, and host and origin checks: pure functions
  of one request.
* What SQLite does with a WAL next to a replaced database.
* The first save of the settings, which inserts the camera's row, and the secrets
  of notifications and storage, which are put and referred to as the camera's is.
* A reboot, after which launchd loads every manifest again.
