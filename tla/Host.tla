-------------------------------- MODULE Host --------------------------------
(***************************************************************************)
(* Starting and ending the host.  A start first takes over from the        *)
(* program's predecessor, a launchd service (legacy) that appends to       *)
(* events.jsonl: it boots the service out, takes the writer lock, imports, *)
(* gives the lock back, starts its own parts, and only then removes the    *)
(* service's manifest.  A failure undoes this; a crash does not.  Two      *)
(* hosts may be started side by side (`nomwatch ui --port`), and           *)
(* `restore-backup` may replace the database when it sees no host.         *)
(***************************************************************************)
EXTENDS Integers

CONSTANTS
  Hosts,      \* starts of run_host
  Service,    \* the one launchd keeps alive
  MaxLines,   \* bound: lines the legacy service writes
  Scopes,     \* bounds: the hosts of one behaviour, its failures and crashes, and
              \* whether there are backups
  NoHost, NoBackup

ASSUME HostAssumption ==
  /\ Service \in Hosts /\ NoHost \notin Hosts
  /\ MaxLines \in Nat
  /\ Scopes \subseteq [hosts : SUBSET Hosts, faults : Nat, backups : BOOLEAN]

\* The lock is held by nobody, the legacy service, a monitor of the user or
\* one left over, an import or the monitor of a host.
Held(by, h) == [by |-> by, host |-> h]
Free        == Held("nobody", NoHost)

VARIABLES
  scope,    \* the bounds of this behaviour
  plist,    \* the manifest of the legacy service exists
  loaded,   \* launchd keeps the legacy service running
  config,   \* config.yml exists (never changed)
  lines,    \* lines in events.jsonl
  lock,     \* who holds run.lock
  db,       \* what has been imported; migration.cutover
  sock,     \* whose socket control.sock names
  host,
  backup, restoring,
  faults,
  before,   \* history: the legacy service was loaded at first
  mishaps,  \* history: what has gone wrong
  met       \* history: two hosts have overlapped

legacy  == <<scope, plist, loaded, config, lines>>
rest    == <<backup, restoring>>
history == <<before, mishaps, met>>
vars    == <<legacy, lock, db, sock, host, rest, faults, history>>

\* present: the manifest was there. cut: the CutoverResult is not None. rival:
\* another host has had a socket of its own at the same time (a history).
Down == [pc |-> "down", already |-> FALSE, present |-> FALSE, cut |-> FALSE,
         bootedOut |-> FALSE, importedNow |-> FALSE, control |-> FALSE, rival |-> FALSE]

Init ==
  /\ scope \in Scopes
  /\ plist \in BOOLEAN
  /\ loaded \in {b \in BOOLEAN : b => plist}
  /\ config \in BOOLEAN
  /\ lines = 0
  /\ lock \in {Free, Held("manual", NoHost)}
  /\ db = [settings |-> FALSE, events |-> 0, cutover |-> FALSE]
  /\ sock = NoHost
  /\ host = [h \in Hosts |-> Down]
  /\ backup = NoBackup
  /\ restoring = FALSE
  /\ faults = 0
  /\ before = loaded
  /\ mishaps = {}
  /\ met = FALSE

At(h, pc)   == host[h].pc = pc
Goto(h, pc) == host' = [host EXCEPT ![h].pc = pc]
End(h)      == host' = [host EXCEPT ![h] = Down]

Fault(mishap) ==
  /\ faults < scope.faults
  /\ faults' = faults + 1
  /\ mishaps' = mishaps \cup mishap

Calm == UNCHANGED <<faults, mishaps>>

-----------------------------------------------------------------------------
(* launchd and the legacy service.                                         *)

\* bootout ends the service's process, and with it its lock.
Booted(out) ==
  /\ loaded' = (loaded /\ ~out)
  /\ lock' = IF out /\ lock.by = "legacy" THEN Free ELSE lock

\* Success is loaded and out; an error leaves a loaded service as it is.
Bootout(out) ==
  /\ Booted(out)
  /\ \/ out = loaded /\ Calm
     \/ loaded /\ ~out /\ Fault({"bootout"})

\* Nobody looks at the result of bootstrap.
Bootstrap ==
  \/ loaded' = (loaded \/ plist) /\ Calm
  \/ loaded' = loaded /\ Fault({"bootstrap"})

LegacyRuns ==
  /\ loaded /\ lock = Free
  /\ lock' = Held("legacy", NoHost)
  /\ UNCHANGED <<legacy, db, sock, host, rest, faults, history>>

LegacyWrites ==
  /\ lock.by \in {"legacy", "manual"}
  /\ lines < MaxLines
  /\ lines' = lines + 1
  /\ UNCHANGED <<scope, plist, loaded, config, lock, db, sock, host, rest, faults, history>>

\* The service between two runs; a monitor in a terminal, or one whose host has
\* crashed, ended by the user.
HolderEnds ==
  /\ lock.by \in {"legacy", "manual", "orphan"}
  /\ lock' = Free
  /\ UNCHANGED <<legacy, db, sock, host, rest, faults, history>>

-----------------------------------------------------------------------------
(* atomic_cutover.                                                         *)

Complete == db.cutover

(* Mutant: a marked cutover needs no more.                                 *)
DoneOnceMarked == Complete

\* No cutover is needed when it is marked and nothing is left to retire.
Done == Complete /\ ~plist

Begin(h) ==
  /\ At(h, "down")
  /\ met' = (met \/ \E g \in Hosts \ {h} : ~At(g, "down"))
  /\ host' = [host EXCEPT ![h] =
       [Down EXCEPT !.already = Complete, !.present = plist, !.cut = ~Done,
                    !.pc = IF Done THEN "build" ELSE IF plist THEN "bootout" ELSE "lock"]]
  /\ UNCHANGED <<legacy, lock, db, sock, rest, faults, before, mishaps>>

\* The manifest is read again: one that is gone, or is not the service's, is an
\* error, and so is a launchctl that cannot be run.
BootoutLegacy(h) ==
  /\ At(h, "bootout")
  /\ \/ /\ plist
        /\ \E out \in BOOLEAN :
             /\ Bootout(out)
             /\ host' = [host EXCEPT ![h].pc = "lock", ![h].bootedOut = out]
     \/ ~plist /\ End(h) /\ UNCHANGED <<loaded, lock>> /\ Calm
     \/ plist /\ End(h) /\ UNCHANGED <<loaded, lock>> /\ Fault({})
  /\ UNCHANGED <<scope, plist, config, lines, db, sock, rest, before, met>>

TryLock(h) ==
  /\ At(h, "lock")
  /\ \/ /\ lock = Free
        /\ lock' = Held("import", h)
        /\ Goto(h, IF host[h].already THEN "unlock" ELSE "snapshot")
     \/ lock # Free /\ Goto(h, "undo") /\ UNCHANGED lock
  /\ UNCHANGED <<legacy, db, sock, rest, faults, history>>

\* The lock's file cannot be made, opened or locked.  The exception comes before
\* the try: it ends the host, and a service that was booted out stays out.
LockRaises(h) ==
  /\ At(h, "lock")
  /\ Fault({"lock"})
  /\ End(h)
  /\ UNCHANGED <<legacy, lock, db, sock, rest, before, met>>

\* snapshot_and_import looks again, and at whether there is anything to import.
Snapshot(h) ==
  /\ At(h, "snapshot")
  /\ Goto(h, IF Complete \/ (~config /\ lines = 0) THEN "unlock" ELSE "settings")
  /\ UNCHANGED <<legacy, lock, db, sock, rest, faults, history>>

ImportSettings(h) ==
  /\ At(h, "settings")
  /\ db' = [db EXCEPT !.settings = TRUE]
  /\ Goto(h, "events")
  /\ UNCHANGED <<legacy, lock, sock, rest, faults, history>>

\* Lines that are there already are ignored by their hash.
ImportEvents(h) ==
  /\ At(h, "events")
  /\ db' = [db EXCEPT !.events = lines]
  /\ Goto(h, "mark")
  /\ UNCHANGED <<legacy, lock, sock, rest, faults, history>>

Mark(h) ==
  /\ At(h, "mark")
  /\ db' = [db EXCEPT !.cutover = TRUE]
  /\ host' = [host EXCEPT ![h].pc = "unlock", ![h].importedNow = TRUE]
  /\ UNCHANGED <<legacy, lock, sock, rest, faults, history>>

ImportFails(h) ==
  /\ host[h].pc \in {"snapshot", "settings", "events", "mark"}
  /\ Fault({})
  /\ Goto(h, "undo")
  /\ UNCHANGED <<legacy, lock, db, sock, rest, before, met>>

\* Refused by the lock, or failed under it: the service is brought back.
Undo(h) ==
  /\ At(h, "undo")
  /\ IF host[h].bootedOut THEN Bootstrap ELSE UNCHANGED loaded /\ Calm
  /\ Goto(h, "release")
  /\ UNCHANGED <<scope, plist, config, lines, lock, db, sock, rest, before, met>>

GiveBack(h, by) == lock' = IF lock = Held(by, h) THEN Free ELSE lock

Release(h) ==
  /\ At(h, "release")
  /\ GiveBack(h, "import") /\ End(h)
  /\ UNCHANGED <<legacy, db, sock, rest, faults, history>>

Unlock(h) ==
  /\ At(h, "unlock")
  /\ GiveBack(h, "import")
  /\ host' = [host EXCEPT ![h].pc = "build", ![h].cut = TRUE]
  /\ UNCHANGED <<legacy, db, sock, rest, faults, history>>

-----------------------------------------------------------------------------
(* run_host.                                                               *)

\* The supervisor is made before the try: a failure here ends the host, and
\* nothing is undone.
Build(h) ==
  /\ At(h, "build")
  /\ \/ Goto(h, "start") /\ Calm
     \/ End(h) /\ Fault({"build"})
  /\ UNCHANGED <<legacy, lock, db, sock, rest, before, met>>

StartSupervisor(h) ==
  /\ At(h, "start")
  /\ Goto(h, "publish")
  /\ UNCHANGED <<legacy, lock, db, sock, rest, faults, history>>

Supervised(h) == host[h].pc \in {"publish", "serve", "finalize", "retire", "up", "rollback",
                                 "bring back", "close", "stop"}

\* The monitor is a child process; without the lock it ends again.
MonitorRuns(h) ==
  /\ Supervised(h)
  /\ lock = Free
  /\ lock' = Held("monitor", h)
  /\ UNCHANGED <<legacy, db, sock, host, rest, faults, history>>

\* ControlServer removes a socket that is there and binds its own.
Publish(h) ==
  /\ At(h, "publish")
  /\ sock' = h
  /\ host' = [g \in Hosts |->
       IF g = h THEN [host[g] EXCEPT !.pc = "serve", !.control = TRUE,
                                     !.rival = \E other \in Hosts \ {h} : host[other].control]
       ELSE [host[g] EXCEPT !.rival = @ \/ host[g].control]]
  /\ UNCHANGED <<legacy, lock, db, rest, faults, history>>

Serving(h) == host[h].pc \in {"finalize", "retire", "up"}

\* The listeners, and the port, which another host may have.
Serve(h) ==
  /\ At(h, "serve")
  /\ \/ Goto(h, IF host[h].cut THEN "finalize" ELSE "up")
     \/ (\E g \in Hosts \ {h} : Serving(g)) /\ Goto(h, "rollback")
  /\ UNCHANGED <<legacy, lock, db, sock, rest, faults, history>>

StartFails(h) ==
  /\ host[h].pc \in {"start", "publish", "serve", "finalize", "retire"}
  /\ Fault({})
  /\ Goto(h, "rollback")
  /\ UNCHANGED <<legacy, lock, db, sock, rest, before, met>>

\* finalize_cutover does not look at the result of bootout.
Finalize(h) ==
  /\ At(h, "finalize")
  /\ IF host[h].present /\ plist
     THEN (\E out \in BOOLEAN : Bootout(out)) /\ Goto(h, "retire")
     ELSE Goto(h, "up") /\ UNCHANGED <<loaded, lock>> /\ Calm
  /\ UNCHANGED <<scope, plist, config, lines, db, sock, rest, before, met>>

\* unlink: a manifest that is gone by now is an error.
Retire(h) ==
  /\ At(h, "retire")
  /\ plist' = FALSE
  /\ Goto(h, IF plist THEN "up" ELSE "rollback")
  /\ UNCHANGED <<scope, loaded, config, lines, lock, db, sock, rest, faults, history>>

-----------------------------------------------------------------------------
(* rollback_failed_cutover, and the finally of run_host.                   *)

(* Mutant: the cutover stays marked as done.                               *)
RollbackMarked(h) ==
  /\ At(h, "rollback")
  /\ Goto(h, "bring back")
  /\ UNCHANGED <<legacy, lock, db, sock, rest, faults, history>>

\* The next start shall import again.
Rollback(h) ==
  /\ At(h, "rollback")
  /\ db' = IF host[h].cut /\ host[h].importedNow THEN [db EXCEPT !.cutover = FALSE] ELSE db
  /\ Goto(h, "bring back")
  /\ UNCHANGED <<legacy, lock, sock, rest, faults, history>>

\* The row cannot be deleted: the exception takes the place of the one that
\* failed the start, and the service is not brought back.
RollbackRaises(h) ==
  /\ At(h, "rollback")
  /\ host[h].cut /\ host[h].importedNow
  /\ Fault({"rollback"})
  /\ Goto(h, "close")
  /\ UNCHANGED <<legacy, lock, db, sock, rest, before, met>>

(* Mutant: the service is left as it is.                                   *)
LeaveOut(h) ==
  /\ At(h, "bring back")
  /\ Goto(h, "close")
  /\ UNCHANGED <<legacy, lock, db, sock, rest, faults, history>>

BringBack(h) ==
  /\ At(h, "bring back")
  /\ IF host[h].cut /\ host[h].bootedOut /\ plist THEN Bootstrap ELSE UNCHANGED loaded /\ Calm
  /\ Goto(h, "close")
  /\ UNCHANGED <<scope, plist, config, lines, lock, db, sock, rest, before, met>>

Quit(h) ==
  /\ At(h, "up")
  /\ Goto(h, "close")
  /\ UNCHANGED <<legacy, lock, db, sock, rest, faults, history>>

(* Mutant: the control server always removes the socket.                   *)
CloseAlways(h) ==
  /\ At(h, "close")
  /\ sock' = NoHost
  /\ Goto(h, "stop")
  /\ UNCHANGED <<legacy, lock, db, rest, faults, history>>

\* Whoever's socket it is by now.
Close(h) ==
  /\ At(h, "close")
  /\ sock' = IF host[h].control THEN NoHost ELSE sock
  /\ Goto(h, "stop")
  /\ UNCHANGED <<legacy, lock, db, rest, faults, history>>

StopSupervisor(h) ==
  /\ At(h, "stop")
  /\ GiveBack(h, "monitor")
  /\ End(h)
  /\ UNCHANGED <<legacy, db, sock, rest, faults, history>>

\* The children survive their host, and the socket stays.  An exception in the
\* finally of run_host leaves no less behind.
Crash(h) ==
  /\ ~At(h, "down")
  /\ Fault({"crash"})
  /\ lock' = CASE lock = Held("import", h)  -> Free
               [] lock = Held("monitor", h) -> Held("orphan", NoHost)
               [] OTHER -> lock
  /\ End(h)
  /\ UNCHANGED <<legacy, db, sock, rest, before, met>>

-----------------------------------------------------------------------------
(* Backup and restore.                                                     *)

Backup ==
  /\ scope.backups
  /\ backup' = db
  /\ UNCHANGED <<legacy, lock, db, sock, host, restoring, faults, history>>

RestoreLook ==
  /\ ~restoring /\ backup # NoBackup
  /\ sock = NoHost
  /\ restoring' = TRUE
  /\ UNCHANGED <<legacy, lock, db, sock, host, backup, faults, history>>

RestoreReplace ==
  /\ restoring
  /\ db' = backup
  /\ restoring' = FALSE
  /\ mishaps' = mishaps \cup {"restore"}
  /\ UNCHANGED <<legacy, lock, sock, host, backup, faults, before, met>>

Startup(h) ==
  \/ BootoutLegacy(h) \/ TryLock(h) \/ Snapshot(h) \/ ImportSettings(h) \/ ImportEvents(h)
  \/ Mark(h) \/ Undo(h) \/ Release(h) \/ Unlock(h)
  \/ Build(h) \/ StartSupervisor(h) \/ Publish(h) \/ Serve(h) \/ Finalize(h) \/ Retire(h)

Shutdown(h) == Rollback(h) \/ BringBack(h) \/ Close(h) \/ StopSupervisor(h)

Next ==
  \/ LegacyRuns \/ LegacyWrites \/ HolderEnds
  \/ Backup \/ RestoreLook \/ RestoreReplace
  \/ \E h \in scope.hosts :
       \/ Begin(h) \/ Startup(h) \/ Shutdown(h) \/ Quit(h) \/ MonitorRuns(h)
       \/ LockRaises(h) \/ ImportFails(h) \/ StartFails(h) \/ RollbackRaises(h) \/ Crash(h)

Spec == Init /\ [][Next]_vars

\* launchd starts the service again when it has ended (KeepAlive), and a host
\* that has begun to start or to end goes on with it.
LiveSpec ==
  Spec /\ WF_vars(Begin(Service)) /\ \A h \in Hosts : WF_vars(Startup(h) \/ Shutdown(h))

-----------------------------------------------------------------------------
(* What starting promises.                                                 *)

Alone(excuses) == ~met /\ mishaps \cap excuses = {}

(* A start that fails brings the legacy service back if launchd does what  *)
(* it is told, whether the lock is taken, the import fails or one of the   *)
(* host's parts does (atomic_cutover's except, rollback_failed_cutover).   *)
(* Four ends of a start are outside their reach: a crash, and exceptions   *)
(* of taking the lock, of making the supervisor and of deleting the mark.  *)
FailedStartRestores ==
  /\ Alone({"crash", "lock", "build", "rollback", "bootout", "bootstrap"})
  /\ plist /\ \A h \in Hosts : At(h, "down")
  => loaded = before

(* Nothing the legacy service wrote is left behind by a completed cutover, *)
(* through failed starts, crashes and retries in between, if its process   *)
(* ended when launchd was told to end it (snapshot_and_import under the    *)
(* lock; the order of rollback_failed_cutover).                            *)
NothingLeftBehind ==
  Alone({"bootout", "restore"}) /\ (db.cutover \/ \E h \in Hosts : At(h, "up"))
    => db.events = lines /\ (config => db.settings)

(* The look of restore-backup, and every command, finds a running host,    *)
(* unless a host that was started beside it got as far as a socket of its  *)
(* own (restore_operational_backup; ControlServer.close).                  *)
RestoreSeesHost ==
  \A h \in Hosts : host[h].control /\ ~At(h, "stop") /\ ~host[h].rival => sock = h

(* As long as launchd starts it again, and no monitor outside the host's   *)
(* control keeps the lock for good, the host gets the legacy service       *)
(* retired, whatever failed or crashed before (atomic_cutover's retry).    *)
LegacyRetired ==
  <>[](lock.by \notin {"manual", "orphan"}) => <>~plist
=============================================================================
