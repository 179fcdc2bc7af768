----------------------------- MODULE Host_proofs -----------------------------
(***************************************************************************)
(* What a start of the host promises, for any hosts, lines and faults.     *)
(* As long as hosts do not overlap, one of them at most is on its way, and *)
(* its stage says what it has done so far: whether the legacy service is   *)
(* out, whether it is this start that put it out, and what was imported.   *)
(***************************************************************************)
EXTENDS Host, TLAPS

Cutting   == {"lock", "snapshot", "settings", "events", "mark", "undo"}
Imported  == {"unlock", "build", "start", "publish", "serve", "finalize", "retire", "up"}
Undoing   == {"rollback", "bring back"}
BootedOut == Cutting \cup Imported \cup Undoing
Calmed    == {"down", "bootout", "release", "close", "stop"}

HostRow == [pc : BootedOut \cup Calmed, already : BOOLEAN, present : BOOLEAN, cut : BOOLEAN,
            bootedOut : BOOLEAN, importedNow : BOOLEAN, control : BOOLEAN, rival : BOOLEAN]
Imports == [settings : BOOLEAN, events : Nat, cutover : BOOLEAN]

(* The type invariant: every host is at a stage, and a restore under way   *)
(* has a backup to restore.                                                *)
TypeOK ==
  /\ scope \in Scopes
  /\ host \in [Hosts -> HostRow]
  /\ db \in Imports
  /\ lines \in Nat
  /\ {plist, loaded, config, before, met, restoring} \subseteq BOOLEAN
  /\ backup \in Imports \cup {NoBackup}
  /\ restoring => backup \in Imports

LEMMA DownTyped == Down \in HostRow /\ Down.pc = "down" /\ ~Down.control /\ ~Down.rival
BY DEF Down, HostRow, BootedOut, Calmed, Cutting, Imported, Undoing

LEMMA InitTyped == Init => TypeOK
<1> SUFFICES ASSUME Init PROVE TypeOK
  OBVIOUS
<1>1. host \in [Hosts -> HostRow]
  BY DownTyped DEF Init
<1>2. db \in Imports /\ lines \in Nat
  BY DEF Init, Imports
<1>3. /\ plist \in BOOLEAN /\ loaded \in BOOLEAN /\ config \in BOOLEAN /\ before \in BOOLEAN
      /\ met \in BOOLEAN /\ restoring = FALSE /\ backup \in Imports \cup {NoBackup}
  BY DEF Init
<1> QED
  BY <1>1, <1>2, <1>3 DEF TypeOK, Init

-----------------------------------------------------------------------------
(* What a step of one host does to the hosts.                              *)

HostStep(h) ==
  \/ Begin(h) \/ Startup(h) \/ Shutdown(h) \/ Quit(h) \/ MonitorRuns(h)
  \/ LockRaises(h) \/ ImportFails(h) \/ StartFails(h) \/ RollbackRaises(h) \/ Crash(h)

World ==
  \/ LegacyRuns \/ LegacyWrites \/ HolderEnds
  \/ Backup \/ RestoreLook \/ RestoreReplace

(* The hosts that do not act keep all but what they know of rivals.        *)
Others(h) ==
  \A g \in Hosts : g # h => \E rival \in BOOLEAN : host'[g] = [host[g] EXCEPT !.rival = rival]

LEMMA HostStepTyped ==
  ASSUME TypeOK, NEW h \in Hosts, HostStep(h)
  PROVE  host' \in [Hosts -> HostRow] /\ Others(h)
<1>0. host \in [Hosts -> HostRow] /\ plist \in BOOLEAN /\ db \in Imports
  BY DEF TypeOK
<1>1. ASSUME NEW row \in HostRow, host' = [host EXCEPT ![h] = row]
      PROVE  host' \in [Hosts -> HostRow] /\ Others(h)
  <2>1. \A g \in Hosts : host[g] = [host[g] EXCEPT !.rival = host[g].rival]
                         /\ host[g].rival \in BOOLEAN
    BY <1>0 DEF HostRow
  <2> QED
    BY <1>0, <1>1, <2>1 DEF Others
<1>2. ASSUME NEW pc \in BootedOut \cup Calmed, Goto(h, pc)
      PROVE  host' \in [Hosts -> HostRow] /\ Others(h)
  <2>1. [host[h] EXCEPT !.pc = pc] \in HostRow
    BY <1>0 DEF HostRow
  <2>2. host' = [host EXCEPT ![h] = [host[h] EXCEPT !.pc = pc]]
    BY <1>0, <1>2 DEF Goto
  <2> QED
    BY <1>1, <2>1, <2>2
<1>3. ASSUME End(h) PROVE host' \in [Hosts -> HostRow] /\ Others(h)
  BY <1>1, <1>3, DownTyped DEF End
<1>4. CASE Begin(h)
  <2> DEFINE row == [Down EXCEPT !.already = Complete, !.present = plist, !.cut = ~Done,
                       !.pc = IF Done THEN "build" ELSE IF plist THEN "bootout" ELSE "lock"]
  <2>1. row \in HostRow
    BY <1>0 DEF Down, HostRow, BootedOut, Calmed, Cutting, Imported, Undoing, Complete, Done, Imports
  <2>2. host' = [host EXCEPT ![h] = row]
    BY <1>4 DEF Begin
  <2> HIDE DEF row
  <2> QED
    BY <1>1, <2>1, <2>2
<1>5. CASE BootoutLegacy(h)
  <2>1. ASSUME NEW out \in BOOLEAN, host' = [host EXCEPT ![h].pc = "lock", ![h].bootedOut = out]
        PROVE  host' \in [Hosts -> HostRow] /\ Others(h)
    <3>1. [host[h] EXCEPT !.pc = "lock", !.bootedOut = out] \in HostRow
      BY <1>0 DEF HostRow, BootedOut, Cutting
    <3>2. host' = [host EXCEPT ![h] = [host[h] EXCEPT !.pc = "lock", !.bootedOut = out]]
      BY <1>0, <2>1
    <3> QED
      BY <1>1, <3>1, <3>2
  <2> QED
    BY <1>3, <1>5, <2>1 DEF BootoutLegacy
<1>6. CASE Mark(h)
  <2>1. [host[h] EXCEPT !.pc = "unlock", !.importedNow = TRUE] \in HostRow
    BY <1>0 DEF HostRow, BootedOut, Imported
  <2>2. host' = [host EXCEPT ![h] = [host[h] EXCEPT !.pc = "unlock", !.importedNow = TRUE]]
    BY <1>0, <1>6 DEF Mark
  <2> QED
    BY <1>1, <2>1, <2>2
<1>7. CASE Unlock(h)
  <2>1. [host[h] EXCEPT !.pc = "build", !.cut = TRUE] \in HostRow
    BY <1>0 DEF HostRow, BootedOut, Imported
  <2>2. host' = [host EXCEPT ![h] = [host[h] EXCEPT !.pc = "build", !.cut = TRUE]]
    BY <1>0, <1>7 DEF Unlock
  <2> QED
    BY <1>1, <2>1, <2>2
<1>8. CASE Publish(h)
  <2> DEFINE rivalOf(g) == IF g = h THEN \E other \in Hosts \ {h} : host[other].control
                       ELSE host[g].rival \/ host[g].control
  <2>1. \A g \in Hosts : rivalOf(g) \in BOOLEAN
    <3>1. \A g \in Hosts : host[g].rival \in BOOLEAN /\ host[g].control \in BOOLEAN
      BY <1>0 DEF HostRow
    <3> QED
      BY <3>1
  <2>2. /\ host' = [g \in Hosts |-> host'[g]]
        /\ host'[h] = [host[h] EXCEPT !.pc = "serve", !.control = TRUE, !.rival = rivalOf(h)]
        /\ \A g \in Hosts : g # h => host'[g] = [host[g] EXCEPT !.rival = rivalOf(g)]
    BY <1>8 DEF Publish
  <2> HIDE DEF rivalOf
  <2>3. \A g \in Hosts : host'[g] \in HostRow
    <3>1. [host[h] EXCEPT !.pc = "serve", !.control = TRUE, !.rival = rivalOf(h)] \in HostRow
      BY <1>0, <2>1 DEF HostRow, BootedOut, Imported
    <3>2. \A g \in Hosts : [host[g] EXCEPT !.rival = rivalOf(g)] \in HostRow
      BY <1>0, <2>1 DEF HostRow
    <3> QED
      BY <2>2, <3>1, <3>2
  <2> QED
    BY <2>1, <2>2, <2>3 DEF Others
<1>9. CASE MonitorRuns(h)
  BY <1>0, <1>1, <1>9 DEF MonitorRuns
<1>10. CASE TryLock(h) \/ Snapshot(h) \/ ImportSettings(h) \/ ImportEvents(h) \/ Undo(h)
            \/ StartSupervisor(h) \/ Serve(h) \/ Finalize(h) \/ Retire(h) \/ Rollback(h)
            \/ BringBack(h) \/ Close(h) \/ Quit(h) \/ ImportFails(h) \/ StartFails(h)
            \/ RollbackRaises(h)
  BY <1>2, <1>10 DEF TryLock, Snapshot, ImportSettings, ImportEvents, Undo, StartSupervisor,
                     Serve, Finalize, Retire, Rollback, BringBack, Close, Quit, ImportFails,
                     StartFails, RollbackRaises, BootedOut, Calmed, Cutting, Imported, Undoing
<1>11. CASE Release(h) \/ StopSupervisor(h) \/ LockRaises(h) \/ Crash(h)
  BY <1>3, <1>11 DEF Release, StopSupervisor, LockRaises, Crash
<1>12. CASE Build(h)
  BY <1>2, <1>3, <1>12 DEF Build, BootedOut, Imported
<1> QED
  BY <1>4, <1>5, <1>6, <1>7, <1>8, <1>9, <1>10, <1>11, <1>12 DEF HostStep, Startup, Shutdown

LEMMA Steps ==
  ASSUME TypeOK, [Next]_vars
  PROVE  World \/ (\E h \in Hosts : HostStep(h)) \/ UNCHANGED vars
<1>1. scope \in [hosts : SUBSET Hosts, faults : Nat, backups : BOOLEAN]
  BY HostAssumption DEF HostAssumption, TypeOK
<1>2. scope.hosts \subseteq Hosts
  BY <1>1
<1> QED
  BY <1>2 DEF Next, World, HostStep

LEMMA StepTyped ==
  ASSUME TypeOK, [Next]_vars
  PROVE  TypeOK'
<1>0. /\ host \in [Hosts -> HostRow] /\ db \in Imports /\ lines \in Nat
      /\ {plist, loaded, config, before, met, restoring} \subseteq BOOLEAN
      /\ backup \in Imports \cup {NoBackup}
      /\ restoring => backup \in Imports
  BY DEF TypeOK
<1>1. CASE UNCHANGED vars
  BY <1>1 DEF vars, legacy, rest, history, TypeOK
<1>2. CASE World
  <2>1. CASE LegacyRuns \/ HolderEnds
    BY <2>1 DEF LegacyRuns, HolderEnds, legacy, rest, history, TypeOK
  <2>2. CASE LegacyWrites
    BY <2>2 DEF LegacyWrites, rest, history, TypeOK
  <2>3. CASE Backup \/ RestoreLook
    BY <2>3 DEF Backup, RestoreLook, legacy, history, TypeOK
  <2>4. CASE RestoreReplace
    BY <2>4 DEF RestoreReplace, legacy, TypeOK
  <2> QED
    BY <1>2, <2>1, <2>2, <2>3, <2>4 DEF World
<1>3. ASSUME NEW h \in Hosts, HostStep(h) PROVE TypeOK'
  <2>1. host' \in [Hosts -> HostRow]
    BY <1>3, HostStepTyped
  <2>2. UNCHANGED <<scope, config, before, backup, restoring, lines>>
    BY <1>3
    DEF HostStep, Begin, Startup, Shutdown, Quit, MonitorRuns, LockRaises, ImportFails,
        StartFails, RollbackRaises, Crash, BootoutLegacy, TryLock, Snapshot, ImportSettings,
        ImportEvents, Mark, Undo, Release, Unlock, Build, StartSupervisor, Publish, Serve,
        Finalize, Retire, Rollback, BringBack, Close, StopSupervisor, legacy, rest, history
  <2>3. db' \in Imports
    <3>1. \/ db' = db \/ db' = [db EXCEPT !.settings = TRUE] \/ db' = [db EXCEPT !.events = lines]
          \/ db' = [db EXCEPT !.cutover = TRUE] \/ db' = [db EXCEPT !.cutover = FALSE]
      BY <1>3
      DEF HostStep, Begin, Startup, Shutdown, Quit, MonitorRuns, LockRaises, ImportFails,
          StartFails, RollbackRaises, Crash, BootoutLegacy, TryLock, Snapshot, ImportSettings,
          ImportEvents, Mark, Undo, Release, Unlock, Build, StartSupervisor, Publish, Serve,
          Finalize, Retire, Rollback, BringBack, Close, StopSupervisor
    <3> QED
      BY <1>0, <3>1 DEF Imports
  <2>4. plist' = plist \/ plist' = FALSE
    BY <1>3
    DEF HostStep, Begin, Startup, Shutdown, Quit, MonitorRuns, LockRaises, ImportFails,
        StartFails, RollbackRaises, Crash, BootoutLegacy, TryLock, Snapshot, ImportSettings,
        ImportEvents, Mark, Undo, Release, Unlock, Build, StartSupervisor, Publish, Serve,
        Finalize, Retire, Rollback, BringBack, Close, StopSupervisor, legacy
  <2>5. loaded' = loaded \/ loaded' = (loaded \/ plist) \/ loaded' = FALSE
    BY <1>0, <1>3
    DEF HostStep, Begin, Startup, Shutdown, Quit, MonitorRuns, LockRaises, ImportFails,
        StartFails, RollbackRaises, Crash, BootoutLegacy, Bootout, Booted, TryLock, Snapshot,
        ImportSettings, ImportEvents, Mark, Undo, Bootstrap, Release, Unlock, Build,
        StartSupervisor, Publish, Serve, Finalize, Retire, Rollback, BringBack, Close,
        StopSupervisor, legacy
  <2>6. met' = met \/ Begin(h)
    BY <1>3
    DEF HostStep, Startup, Shutdown, Quit, MonitorRuns, LockRaises, ImportFails, StartFails,
        RollbackRaises, Crash, BootoutLegacy, TryLock, Snapshot, ImportSettings, ImportEvents,
        Mark, Undo, Release, Unlock, Build, StartSupervisor, Publish, Serve, Finalize, Retire,
        Rollback, BringBack, Close, StopSupervisor, history
  <2>7. {plist', loaded', met'} \subseteq BOOLEAN
    <3>1. plist' \in BOOLEAN /\ loaded' \in BOOLEAN
      BY <1>0, <2>4, <2>5
    <3>2. met' \in BOOLEAN
      BY <1>0, <2>6 DEF Begin
    <3> QED
      BY <3>1, <3>2
  <2> QED
    BY <1>0, <2>1, <2>2, <2>3, <2>7 DEF TypeOK
<1> QED
  BY <1>1, <1>2, <1>3, Steps

(* The stages and the database stay well-formed (run_host).                *)
THEOREM TypeCorrect == Spec => []TypeOK
BY InitTyped, StepTyped, PTL DEF Spec

-----------------------------------------------------------------------------
(* The socket.                                                             *)

Named(h) == host[h].control /\ ~At(h, "stop") /\ ~host[h].rival => sock = h

(* Two hosts that have a socket know of each other.                        *)
Known(g, h) == g # h /\ host[g].control /\ host[h].control => host[g].rival /\ host[h].rival

Sockets == (\A h \in Hosts : Named(h)) /\ (\A g, h \in Hosts : Known(g, h))

(* No step but these two touches the socket or who has one, unless a host  *)
(* ends.                                                                   *)
LEMMA SocketSteps ==
  ASSUME TypeOK, NEW h \in Hosts, HostStep(h), ~Publish(h), ~Close(h)
  PROVE  /\ sock' = sock
         /\ \A g \in Hosts : g # h => host'[g] = host[g]
         /\ \/ ~host'[h].control
            \/ /\ host'[h].control = host[h].control /\ host'[h].rival = host[h].rival
               /\ host'[h].pc # "stop" => host[h].pc # "stop"
<1>0. host \in [Hosts -> HostRow]
  BY DEF TypeOK
<1>1. sock' = sock
  BY DEF HostStep, Begin, Startup, Shutdown, Quit, MonitorRuns, LockRaises, ImportFails,
         StartFails, RollbackRaises, Crash, BootoutLegacy, TryLock, Snapshot, ImportSettings,
         ImportEvents, Mark, Undo, Release, Unlock, Build, StartSupervisor, Serve, Finalize,
         Retire, Rollback, BringBack, StopSupervisor
<1>2. CASE Begin(h)
  BY <1>0, <1>1, <1>2 DEF Begin, Down, HostRow
<1>3. CASE End(h)
  BY <1>0, <1>1, <1>3, DownTyped DEF End
<1>4. ASSUME NEW pc, Goto(h, pc), host[h].pc # "stop"
      PROVE  /\ \A g \in Hosts : g # h => host'[g] = host[g]
             /\ host'[h].control = host[h].control /\ host'[h].rival = host[h].rival
  BY <1>0, <1>4 DEF Goto, HostRow
<1>5. CASE BootoutLegacy(h) \/ Mark(h) \/ Unlock(h) \/ MonitorRuns(h)
  <2>1. CASE BootoutLegacy(h)
    BY <1>0, <1>1, <1>3, <2>1 DEF BootoutLegacy, At, HostRow
  <2>2. CASE Mark(h) \/ Unlock(h)
    BY <1>0, <1>1, <2>2 DEF Mark, Unlock, At, HostRow
  <2>3. CASE MonitorRuns(h)
    BY <1>1, <2>3 DEF MonitorRuns
  <2> QED
    BY <1>5, <2>1, <2>2, <2>3
<1>6. CASE TryLock(h) \/ Snapshot(h) \/ ImportSettings(h) \/ ImportEvents(h) \/ Undo(h)
           \/ StartSupervisor(h) \/ Serve(h) \/ Finalize(h) \/ Retire(h) \/ Rollback(h)
           \/ BringBack(h) \/ Quit(h) \/ ImportFails(h) \/ StartFails(h) \/ Build(h)
           \/ Release(h) \/ StopSupervisor(h) \/ LockRaises(h) \/ RollbackRaises(h) \/ Crash(h)
  <2>1. End(h) \/ (host[h].pc # "stop" /\ \E pc : Goto(h, pc))
    BY <1>6 DEF TryLock, Snapshot, ImportSettings, ImportEvents, Undo, StartSupervisor,
                Serve, Finalize, Retire, Rollback, BringBack, Quit, ImportFails,
                StartFails, Build, Release, StopSupervisor, LockRaises, RollbackRaises, Crash, At
  <2> QED
    BY <1>1, <1>3, <1>4, <2>1
<1> QED
  BY <1>2, <1>5, <1>6 DEF HostStep, Startup, Shutdown

LEMMA SocketsStep ==
  ASSUME TypeOK, Sockets, [Next]_vars
  PROVE  Sockets'
<1>0. host \in [Hosts -> HostRow] /\ NoHost \notin Hosts
  BY HostAssumption DEF HostAssumption, TypeOK
<1>1. CASE World \/ UNCHANGED vars
  <2>1. UNCHANGED <<host, sock>>
    BY <1>1 DEF World, LegacyRuns, LegacyWrites, HolderEnds, Backup, RestoreLook, RestoreReplace, vars
  <2> QED
    BY <2>1 DEF Sockets, Named, Known, At
<1>2. ASSUME NEW h \in Hosts, Publish(h) PROVE Sockets'
  <2>1. /\ sock' = h
        /\ host'[h].control /\ host'[h].pc = "serve"
        /\ host'[h].rival <=> \E other \in Hosts \ {h} : host[other].control
    BY <1>0, <1>2 DEF Publish, HostRow
  <2>2. ASSUME NEW g \in Hosts, g # h
        PROVE  /\ host'[g].control <=> host[g].control
               /\ host'[g].rival <=> host[g].rival \/ host[g].control
               /\ host'[g].pc = host[g].pc
    <3>1. host'[g] = [host[g] EXCEPT !.rival = host[g].rival \/ host[g].control]
      BY <1>2, <2>2 DEF Publish
    <3>2. host[g] \in HostRow
      BY <1>0
    <3> DEFINE b == host[g].rival \/ host[g].control
    <3>3. b \in BOOLEAN
      BY <3>2 DEF HostRow
    <3> HIDE DEF b
    <3>4. host'[g] = [host[g] EXCEPT !.rival = b]
      BY <3>1 DEF b
    <3>5. host'[g].control = host[g].control /\ host'[g].rival = b /\ host'[g].pc = host[g].pc
      BY <3>2, <3>4 DEF HostRow
    <3> QED
      BY <3>5 DEF b
  <2>3. \A g \in Hosts : Named(g)'
    BY <2>1, <2>2 DEF Named, At
  <2>4. \A f, g \in Hosts : Known(f, g)'
    BY <2>1, <2>2 DEF Known
  <2> QED
    BY <2>3, <2>4 DEF Sockets
<1>3. ASSUME NEW h \in Hosts, Close(h) PROVE Sockets'
  <2>1. /\ host'[h].pc = "stop" /\ host'[h].control = host[h].control
        /\ host'[h].rival = host[h].rival
        /\ \A g \in Hosts : g # h => host'[g] = host[g]
        /\ ~host[h].control => sock' = sock
    BY <1>0, <1>3 DEF Close, Goto, HostRow
  <2> QED
    BY <2>1 DEF Sockets, Named, Known, At
<1>4. ASSUME NEW h \in Hosts, HostStep(h), ~Publish(h), ~Close(h) PROVE Sockets'
  <2>1. /\ sock' = sock
        /\ \A g \in Hosts : g # h => host'[g] = host[g]
        /\ \/ ~host'[h].control
           \/ /\ host'[h].control = host[h].control /\ host'[h].rival = host[h].rival
              /\ host'[h].pc # "stop" => host[h].pc # "stop"
    BY <1>4, SocketSteps
  <2> QED
    BY <2>1 DEF Sockets, Named, Known, At
<1> QED
  BY <1>1, <1>2, <1>3, <1>4, Steps

(* Among any number of hosts, commands and a restore find every host that  *)
(* runs unless another one got a socket beside it (ControlServer,          *)
(* restore_operational_backup).                                            *)
THEOREM RestoreSees == Spec => []RestoreSeesHost
<1>1. Init => Sockets
  BY DownTyped DEF Init, Sockets, Named, Known
<1>2. Sockets => RestoreSeesHost
  BY DEF Sockets, Named, RestoreSeesHost
<1> QED
  BY <1>1, <1>2, InitTyped, StepTyped, SocketsStep, PTL DEF Spec

-----------------------------------------------------------------------------
(* One host on its way.                                                    *)

OneHost == ~met => \A g, h \in Hosts : g = h \/ At(g, "down") \/ At(h, "down")

(* A mishap is not forgotten, nor that two hosts have met.                 *)
LEMMA Remembered ==
  ASSUME TypeOK, [Next]_vars
  PROVE  (met => met') /\ mishaps \subseteq mishaps'
<1>1. CASE World \/ UNCHANGED vars
  BY <1>1 DEF World, LegacyRuns, LegacyWrites, HolderEnds, Backup, RestoreLook, RestoreReplace,
              history, vars
<1>2. ASSUME NEW h \in Hosts, HostStep(h) PROVE (met => met') /\ mishaps \subseteq mishaps'
  <2>1. CASE BootoutLegacy(h) \/ Undo(h) \/ Build(h) \/ Finalize(h) \/ BringBack(h)
             \/ LockRaises(h) \/ ImportFails(h) \/ StartFails(h) \/ RollbackRaises(h) \/ Crash(h)
    <3>1. met' = met
      BY <2>1 DEF BootoutLegacy, Undo, Build, Finalize, BringBack, LockRaises, ImportFails,
                  StartFails, RollbackRaises, Crash
    <3>2. Calm \/ \E mishap : Fault(mishap)
      BY <2>1 DEF BootoutLegacy, Undo, Build, Finalize, BringBack, LockRaises, ImportFails,
                  StartFails, RollbackRaises, Crash, Bootout, Bootstrap
    <3> QED
      BY <3>1, <3>2 DEF Calm, Fault
  <2>2. CASE Begin(h)
    BY <2>2 DEF Begin
  <2>3. CASE TryLock(h) \/ Snapshot(h) \/ ImportSettings(h) \/ ImportEvents(h)
             \/ Mark(h) \/ Release(h) \/ Unlock(h) \/ StartSupervisor(h) \/ Publish(h)
             \/ Serve(h) \/ Retire(h) \/ Rollback(h) \/ Close(h) \/ StopSupervisor(h)
             \/ Quit(h) \/ MonitorRuns(h)
    <3>1. met' = met /\ mishaps' = mishaps
      BY <2>3 DEF TryLock, Snapshot, ImportSettings, ImportEvents, Mark, Release, Unlock,
                  StartSupervisor, Publish, Serve, Retire, Rollback, Close, StopSupervisor,
                  Quit, MonitorRuns, history
    <3> QED
      BY <3>1
  <2> QED
    BY <1>2, <2>1, <2>2, <2>3 DEF HostStep, Startup, Shutdown
<1> QED
  BY <1>1, <1>2, Steps

(* While no two hosts have met, whoever acts is alone.                     *)
LEMMA ActsAlone ==
  ASSUME TypeOK, OneHost, NEW h \in Hosts, HostStep(h), met => met', ~met'
  PROVE  \A g \in Hosts : g # h => host[g].pc = "down" /\ host'[g].pc = "down"
<1>1. \A g \in Hosts : g # h => host'[g].pc = host[g].pc
  BY HostStepTyped DEF Others, TypeOK, HostRow
<1>2. CASE Begin(h)
  BY <1>1, <1>2 DEF Begin, At
<1>3. CASE ~Begin(h)
  <2>1. ~At(h, "down")
    BY <1>3
    DEF HostStep, Startup, Shutdown, Quit, MonitorRuns, LockRaises, ImportFails, StartFails,
        RollbackRaises, Crash, BootoutLegacy, TryLock, Snapshot, ImportSettings, ImportEvents,
        Mark, Undo, Release, Unlock, Build, StartSupervisor, Publish, Serve, Finalize, Retire,
        Rollback, BringBack, Close, StopSupervisor, At, Supervised
  <2> QED
    BY <1>1, <2>1 DEF OneHost, At
<1> QED
  BY <1>2, <1>3

LEMMA OneHostStep ==
  ASSUME TypeOK, OneHost, [Next]_vars
  PROVE  OneHost'
<1>1. CASE World \/ UNCHANGED vars
  BY <1>1 DEF World, LegacyRuns, LegacyWrites, HolderEnds, Backup, RestoreLook, RestoreReplace,
              history, vars, OneHost, At
<1>2. ASSUME NEW h \in Hosts, HostStep(h) PROVE OneHost'
  BY <1>2, ActsAlone, Remembered DEF OneHost, At
<1> QED
  BY <1>1, <1>2, Steps

(* A move to the next stage is nothing but that.                           *)
LEMMA Moved ==
  ASSUME TypeOK, NEW h \in Hosts, NEW pc, Goto(h, pc)
  PROVE  /\ host'[h].pc = pc /\ host'[h].cut = host[h].cut
         /\ host'[h].bootedOut = host[h].bootedOut /\ host'[h].present = host[h].present
         /\ host'[h].importedNow = host[h].importedNow
         /\ host'[h].already = host[h].already
BY DEF TypeOK, Goto, HostRow

LEMMA Ended ==
  ASSUME TypeOK, NEW h \in Hosts, End(h)
  PROVE  host'[h].pc = "down"
BY DownTyped DEF TypeOK, End

-----------------------------------------------------------------------------
(* What the legacy service wrote.                                          *)

Ready == db.events = lines /\ (config => db.settings)

Legacy ==
  /\ loaded => plist
  /\ lock.by = "legacy" => loaded
  /\ db.events <= lines
  /\ db.cutover => ~loaded /\ lock.by # "manual" /\ Ready

Safe(h) ==
  /\ host[h].pc \in BootedOut => ~loaded
  /\ host[h].pc \in {"snapshot", "settings", "events", "mark"} \cup Imported => lock.by # "manual"
  /\ host[h].pc = "events" /\ config => db.settings
  /\ host[h].pc \in {"mark"} \cup Imported => Ready
  /\ host[h].pc \in Cutting \cup {"bootout"} /\ host[h].already => db.cutover
  /\ host[h].pc \in Cutting /\ host[h].bootedOut => ~db.cutover
  /\ host[h].pc \in Imported \cup {"rollback"} /\ host[h].bootedOut /\ db.cutover
       => host[h].importedNow
  /\ host[h].pc = "bring back" /\ host[h].cut /\ host[h].bootedOut => ~db.cutover

Sound == Alone({"bootout", "restore"}) => Legacy /\ \A h \in Hosts : Safe(h)

LEMMA SoundWorld ==
  ASSUME TypeOK, Sound, World
  PROVE  Sound'
<1>0. /\ host \in [Hosts -> HostRow] /\ lines \in Nat /\ db \in Imports
      /\ db.events \in Nat
  BY DEF TypeOK, Imports
<1>1. CASE RestoreReplace
  BY <1>1 DEF RestoreReplace, Sound, Alone
<1>2. CASE Backup \/ RestoreLook
  BY <1>2 DEF Backup, RestoreLook, Sound, Alone, Legacy, Safe, Ready, legacy, history
<1>3. CASE LegacyRuns \/ HolderEnds
  <2>1. /\ lock'.by = "nobody" \/ (lock'.by = "legacy" /\ loaded)
        /\ UNCHANGED <<plist, loaded, config, lines, db, host, met, mishaps>>
    BY <1>3 DEF LegacyRuns, HolderEnds, Held, Free, legacy, history
  <2> QED
    BY <2>1 DEF Sound, Alone, Legacy, Safe, Ready
<1>4. CASE LegacyWrites
  <2> SUFFICES ASSUME Alone({"bootout", "restore"})' PROVE Legacy' /\ \A h \in Hosts : Safe(h)'
    BY DEF Sound
  <2>1. /\ Legacy /\ \A h \in Hosts : Safe(h)
        /\ lock.by \in {"legacy", "manual"} /\ lines' = lines + 1
        /\ UNCHANGED <<plist, loaded, config, lock, db, host>>
    BY <1>4 DEF LegacyWrites, Sound, Alone, history
  <2>2. Legacy'
    BY <1>0, <2>1 DEF Legacy, Ready
  <2>3. ASSUME NEW h \in Hosts PROVE Safe(h)'
    <3>1. Safe(h) /\ host[h].pc \notin {"mark"} \cup Imported
      BY <2>1 DEF Safe, Legacy, BootedOut, Cutting, Imported, Undoing
    <3> QED
      BY <2>1, <3>1 DEF Safe
  <2> QED
    BY <2>2, <2>3
<1> QED
  BY <1>1, <1>2, <1>3, <1>4 DEF World

LEMMA SoundHost ==
  ASSUME TypeOK, OneHost, Sound, NEW h \in Hosts, HostStep(h),
         met => met', mishaps \subseteq mishaps', Alone({"bootout", "restore"})'
  PROVE  Legacy' /\ \A g \in Hosts : Safe(g)'
<1>0. /\ host \in [Hosts -> HostRow] /\ lines \in Nat /\ db \in Imports
      /\ db.events \in Nat /\ plist \in BOOLEAN /\ loaded \in BOOLEAN
  BY DEF TypeOK, Imports
<1>l. Legacy /\ Safe(h)
  BY DEF Sound, Alone
<1>o. ASSUME Safe(h)' PROVE \A g \in Hosts : Safe(g)'
  <2>1. ASSUME NEW g \in Hosts, g # h PROVE Safe(g)'
    <3>1. host'[g].pc = "down"
      BY <2>1, ActsAlone DEF Alone
    <3> QED
      BY <3>1 DEF Safe, BootedOut, Cutting, Imported, Undoing
  <2> QED
    BY <1>o, <2>1
<1>d. ASSUME host'[h].pc \in Calmed \ {"bootout"} PROVE Safe(h)'
  BY <1>d DEF Safe, Calmed, BootedOut, Cutting, Imported, Undoing
<1>s. ASSUME UNCHANGED <<plist, loaded, config, lines, db>>, lock'.by \notin {"legacy", "manual"}
      PROVE  Legacy'
  BY <1>l, <1>s DEF Legacy, Ready
<1>u. ASSUME UNCHANGED <<plist, loaded, config, lines, db, lock>> PROVE Legacy'
  BY <1>l, <1>u DEF Legacy, Ready
<1>m. ASSUME NEW pc, Goto(h, pc)
      PROVE  /\ host'[h].pc = pc /\ host'[h].cut = host[h].cut
             /\ host'[h].bootedOut = host[h].bootedOut /\ host'[h].already = host[h].already
             /\ host'[h].importedNow = host[h].importedNow
  BY <1>m, Moved
<1> SUFFICES Legacy' /\ Safe(h)'
  BY <1>o
<1>1. CASE Begin(h)
  <2>1. /\ host'[h].pc = IF Done THEN "build" ELSE IF plist THEN "bootout" ELSE "lock"
        /\ host'[h].bootedOut = FALSE /\ (host'[h].already <=> db.cutover)
        /\ UNCHANGED <<plist, loaded, config, lines, db, lock>>
    BY <1>0, <1>1 DEF Begin, legacy, Down, Complete
  <2> QED
    BY <1>l, <1>u, <2>1 DEF Done, Complete, Legacy, Safe, Ready, BootedOut, Cutting, Imported, Undoing
<1>2. CASE BootoutLegacy(h)
  <2>1. CASE End(h) /\ UNCHANGED <<loaded, lock>>
    <3>1. UNCHANGED <<plist, loaded, config, lines, db, lock>>
      BY <1>2, <2>1 DEF BootoutLegacy
    <3>2. host'[h].pc = "down"
      BY <2>1, Ended
    <3> QED
      BY <1>d, <1>u, <3>1, <3>2 DEF Calmed
  <2>2. ASSUME NEW out \in BOOLEAN, Bootout(out),
               host' = [host EXCEPT ![h].pc = "lock", ![h].bootedOut = out]
        PROVE  Legacy' /\ Safe(h)'
    <3>1. Bootout(out) /\ host' = [host EXCEPT ![h].pc = "lock", ![h].bootedOut = out]
      BY <2>2
    <3>2. /\ host'[h].pc = "lock" /\ host'[h].bootedOut = out
          /\ host'[h].already = host[h].already /\ host[h].pc = "bootout"
      BY <1>0, <1>2, <3>1 DEF HostRow, BootoutLegacy, At
    <3>3. out <=> loaded
      BY <3>1 DEF Bootout, Fault, Alone
    <3>4. /\ ~loaded' /\ (lock'.by = lock.by \/ lock'.by = "nobody")
          /\ lock.by = "legacy" => lock'.by = "nobody"
      BY <1>0, <1>l, <3>1, <3>3 DEF Bootout, Booted, Legacy, Free, Held
    <3>5. UNCHANGED <<plist, config, lines, db>>
      BY <1>2 DEF BootoutLegacy
    <3>6. Legacy'
      BY <1>l, <3>4, <3>5 DEF Legacy, Ready
    <3>7. host'[h].bootedOut => ~db'.cutover
      BY <1>l, <3>2, <3>3, <3>5 DEF Legacy
    <3>8. Safe(h)'
      BY <1>l, <3>2, <3>4, <3>5, <3>7 DEF Safe, Cutting, Imported
    <3> QED
      BY <3>6, <3>8
  <2> QED
    BY <1>2, <2>1, <2>2 DEF BootoutLegacy
<1>3. CASE TryLock(h)
  <2>1. UNCHANGED <<plist, loaded, config, lines, db>> /\ host[h].pc = "lock"
    BY <1>3 DEF TryLock, legacy, At
  <2>2. CASE lock = Free
    <3>1. /\ lock'.by = "import" /\ lock.by = "nobody"
          /\ Goto(h, IF host[h].already THEN "unlock" ELSE "snapshot")
      BY <1>3, <2>2 DEF TryLock, Held, Free
    <3>2. Legacy'
      BY <1>s, <2>1, <3>1
    <3>3. Safe(h)'
      <4>1. /\ (host'[h].pc = "unlock" /\ db.cutover) \/ host'[h].pc = "snapshot"
            /\ host'[h].bootedOut = host[h].bootedOut
            /\ host'[h].already => db.cutover
        BY <1>l, <1>m, <2>1, <3>1 DEF Safe, Cutting
      <4>2. ~loaded /\ (host[h].bootedOut => ~db.cutover) /\ (db.cutover => Ready)
        BY <1>l, <2>1 DEF Legacy, Safe, BootedOut, Cutting
      <4> QED
        BY <2>1, <3>1, <4>1, <4>2 DEF Safe, Ready, BootedOut, Cutting, Imported
    <3> QED
      BY <3>2, <3>3
  <2>3. CASE lock # Free
    <3>1. UNCHANGED lock /\ Goto(h, "undo")
      BY <1>3, <2>3 DEF TryLock
    <3>2. host'[h].pc = "undo" /\ host'[h].bootedOut = host[h].bootedOut
          /\ host'[h].already = host[h].already
      BY <1>m, <3>1
    <3> QED
      BY <1>l, <1>u, <2>1, <3>1, <3>2 DEF Safe, Ready, BootedOut, Cutting, Imported
  <2> QED
    BY <2>2, <2>3
<1>4. CASE Snapshot(h)
  <2>1. /\ UNCHANGED <<plist, loaded, config, lines, db, lock>> /\ host[h].pc = "snapshot"
        /\ Goto(h, IF Complete \/ (~config /\ lines = 0) THEN "unlock" ELSE "settings")
    BY <1>4 DEF Snapshot, legacy, At
  <2>2. /\ \/ host'[h].pc = "unlock" /\ (db.cutover \/ (~config /\ lines = 0))
           \/ host'[h].pc = "settings"
        /\ host'[h].bootedOut = host[h].bootedOut /\ host'[h].already = host[h].already
    BY <1>m, <2>1 DEF Complete
  <2>3. /\ ~loaded /\ (host[h].bootedOut => ~db.cutover) /\ lock.by # "manual"
        /\ host[h].already => db.cutover
    BY <1>l, <2>1 DEF Safe, BootedOut, Cutting
  <2>4. host'[h].pc = "unlock" => Ready
    BY <1>0, <1>l, <2>2 DEF Legacy, Ready
  <2> QED
    BY <1>u, <2>1, <2>2, <2>3, <2>4 DEF Safe, Ready, BootedOut, Cutting, Imported
<1>5. CASE ImportSettings(h)
  <2>1. /\ UNCHANGED <<plist, loaded, config, lines, lock>> /\ host[h].pc = "settings"
        /\ db'.settings = TRUE /\ db'.events = db.events /\ db'.cutover = db.cutover
        /\ Goto(h, "events")
    BY <1>0, <1>5 DEF ImportSettings, legacy, At, Imports
  <2>2. host'[h].pc = "events" /\ host'[h].bootedOut = host[h].bootedOut
        /\ host'[h].already = host[h].already
    BY <1>m, <2>1
  <2>3. Legacy'
    BY <1>l, <2>1 DEF Legacy, Ready
  <2>4. Safe(h)'
    BY <1>l, <2>1, <2>2 DEF Safe, BootedOut, Cutting, Imported
  <2> QED
    BY <2>3, <2>4
<1>6. CASE ImportEvents(h)
  <2>1. /\ UNCHANGED <<plist, loaded, config, lines, lock>> /\ host[h].pc = "events"
        /\ db'.settings = db.settings /\ db'.events = lines /\ db'.cutover = db.cutover
        /\ Goto(h, "mark")
    BY <1>0, <1>6 DEF ImportEvents, legacy, At, Imports
  <2>2. host'[h].pc = "mark" /\ host'[h].bootedOut = host[h].bootedOut
        /\ host'[h].already = host[h].already
    BY <1>m, <2>1
  <2>3. Legacy'
    BY <1>0, <1>l, <2>1 DEF Legacy, Ready
  <2>4. Ready'
    BY <1>l, <2>1 DEF Safe, Ready
  <2>5. Safe(h)'
    BY <1>l, <2>1, <2>2, <2>4 DEF Safe, BootedOut, Cutting, Imported
  <2> QED
    BY <2>3, <2>5
<1>7. CASE Mark(h)
  <2>1. /\ UNCHANGED <<plist, loaded, config, lines, lock>> /\ host[h].pc = "mark"
        /\ db'.settings = db.settings /\ db'.events = db.events /\ db'.cutover = TRUE
    BY <1>0, <1>7 DEF Mark, legacy, At, Imports
  <2>2. host'[h].pc = "unlock" /\ host'[h].importedNow = TRUE
    BY <1>0, <1>7 DEF Mark, HostRow
  <2>3. Ready /\ Ready' /\ ~loaded /\ lock.by # "manual"
    BY <1>l, <2>1 DEF Safe, Ready, BootedOut, Cutting
  <2>4. Legacy'
    BY <1>l, <2>1, <2>3 DEF Legacy
  <2>5. Safe(h)'
    BY <2>1, <2>2, <2>3 DEF Safe, Cutting, Imported
  <2> QED
    BY <2>4, <2>5
<1>8. CASE Undo(h)
  <2>1. /\ UNCHANGED <<plist, config, lines, db, lock>> /\ host[h].pc = "undo"
        /\ Goto(h, "release")
        /\ loaded' = loaded \/ (host[h].bootedOut /\ (loaded' <=> (loaded \/ plist)))
    BY <1>0, <1>8 DEF Undo, Bootstrap, At
  <2>2. host[h].bootedOut => ~db.cutover
    BY <1>l, <2>1 DEF Safe, Cutting
  <2>3. Legacy'
    BY <1>0, <1>l, <2>1, <2>2 DEF Legacy, Ready
  <2>4. Safe(h)'
    BY <1>d, <1>m, <2>1 DEF Calmed
  <2> QED
    BY <2>3, <2>4
<1>9. CASE Release(h) \/ StopSupervisor(h) \/ LockRaises(h) \/ Crash(h)
  <2>1. /\ UNCHANGED <<plist, loaded, config, lines, db>> /\ End(h)
        /\ lock' = lock \/ lock'.by \in {"nobody", "orphan"}
    BY <1>9 DEF Release, StopSupervisor, LockRaises, Crash, GiveBack, legacy, Held, Free
  <2> QED
    BY <1>d, <1>s, <1>u, <2>1, Ended DEF Calmed
<1>10. CASE Unlock(h)
  <2>1. /\ UNCHANGED <<plist, loaded, config, lines, db>> /\ host[h].pc = "unlock"
        /\ lock' = lock \/ lock'.by = "nobody"
    BY <1>10 DEF Unlock, GiveBack, legacy, Free, Held, At
  <2>2. /\ host'[h].pc = "build" /\ host'[h].bootedOut = host[h].bootedOut
        /\ host'[h].importedNow = host[h].importedNow
    BY <1>0, <1>10 DEF Unlock, HostRow
  <2>3. Legacy'
    BY <1>s, <1>u, <2>1
  <2>4. Safe(h)'
    BY <1>l, <2>1, <2>2 DEF Safe, Ready, BootedOut, Cutting, Imported
  <2> QED
    BY <2>3, <2>4
<1>11. ASSUME UNCHANGED <<plist, loaded, config, lines, db, lock>>,
               host[h].pc \in Imported, host'[h].pc \in Imported \cup {"rollback"},
               host'[h].bootedOut = host[h].bootedOut,
               host'[h].importedNow = host[h].importedNow
        PROVE  Legacy' /\ Safe(h)'
  <2>1. /\ ~loaded /\ lock.by # "manual" /\ Ready
        /\ host[h].bootedOut /\ db.cutover => host[h].importedNow
    BY <1>l, <1>11 DEF Safe, BootedOut
  <2>2. host'[h].pc \notin Cutting \cup {"bootout", "bring back"}
    BY <1>11 DEF Cutting, Imported
  <2>3. Safe(h)'
    BY <1>11, <2>1, <2>2 DEF Safe, Ready, Cutting
  <2> QED
    BY <1>u, <1>11, <2>3
<1>12. CASE Build(h)
  <2>1. CASE End(h)
    <3>1. UNCHANGED <<plist, loaded, config, lines, db, lock>>
      BY <1>12 DEF Build, legacy
    <3> QED
      BY <1>d, <1>u, <2>1, <3>1, Ended DEF Calmed
  <2>2. CASE Goto(h, "start")
    <3>1. /\ UNCHANGED <<plist, loaded, config, lines, db, lock>> /\ host[h].pc = "build"
      BY <1>12 DEF Build, legacy, At
    <3> QED
      BY <1>m, <1>11, <2>2, <3>1 DEF Imported
  <2> QED
    BY <1>12, <2>1, <2>2 DEF Build
<1>13. CASE StartSupervisor(h) \/ Serve(h)
  <2>1. /\ UNCHANGED <<plist, loaded, config, lines, db, lock>> /\ host[h].pc \in Imported
        /\ \E pc \in Imported \cup {"rollback"} : Goto(h, pc)
    BY <1>13 DEF StartSupervisor, Serve, legacy, At, Imported
  <2> QED
    BY <1>m, <1>11, <2>1
<1>14. CASE Publish(h)
  <2>1. /\ UNCHANGED <<plist, loaded, config, lines, db, lock>> /\ host[h].pc = "publish"
        /\ host'[h].pc = "serve" /\ host'[h].bootedOut = host[h].bootedOut
        /\ host'[h].importedNow = host[h].importedNow
    BY <1>0, <1>14 DEF Publish, legacy, At, HostRow
  <2> QED
    BY <1>11, <2>1 DEF Imported
<1>15. CASE Finalize(h)
  <2>1. UNCHANGED <<plist, config, lines, db>> /\ host[h].pc = "finalize"
    BY <1>15 DEF Finalize, At
  <2>2. ~loaded
    BY <1>l, <2>1 DEF Safe, BootedOut, Imported
  <2>3. UNCHANGED loaded /\ (lock' = lock \/ lock'.by = "nobody")
    BY <1>0, <1>15, <2>2 DEF Finalize, Bootout, Booted, Free, Held
  <2>4. \E pc \in {"retire", "up"} : Goto(h, pc)
    BY <1>15 DEF Finalize
  <2>5. Legacy'
    BY <1>s, <1>u, <2>1, <2>3
  <2>6. Safe(h)'
    BY <1>l, <1>m, <2>1, <2>2, <2>3, <2>4 DEF Safe, Ready, BootedOut, Cutting, Imported
  <2> QED
    BY <2>5, <2>6
<1>16. CASE Retire(h)
  <2>1. /\ UNCHANGED <<loaded, config, lines, db, lock>> /\ host[h].pc = "retire"
        /\ \E pc \in {"up", "rollback"} : Goto(h, pc)
    BY <1>16 DEF Retire, At
  <2>2. ~loaded
    BY <1>l, <2>1 DEF Safe, BootedOut, Imported
  <2>3. Legacy'
    BY <1>l, <2>1, <2>2 DEF Legacy, Ready
  <2>4. Safe(h)'
    BY <1>l, <1>m, <2>1, <2>2 DEF Safe, Ready, BootedOut, Cutting, Imported
  <2> QED
    BY <2>3, <2>4
<1>17. CASE Rollback(h)
  <2>1. /\ UNCHANGED <<plist, loaded, config, lines, lock>> /\ host[h].pc = "rollback"
        /\ Goto(h, "bring back")
        /\ db'.settings = db.settings /\ db'.events = db.events
        /\ db'.cutover = (db.cutover /\ ~(host[h].cut /\ host[h].importedNow))
    BY <1>0, <1>17 DEF Rollback, legacy, At, Imports
  <2>2. ~loaded /\ (host[h].bootedOut /\ db.cutover => host[h].importedNow)
    BY <1>l, <2>1 DEF Safe, BootedOut, Undoing
  <2>3. /\ host'[h].pc = "bring back" /\ host'[h].cut = host[h].cut
        /\ host'[h].bootedOut = host[h].bootedOut
    BY <1>m, <2>1
  <2>4. Legacy'
    BY <1>l, <2>1 DEF Legacy, Ready
  <2>5. Safe(h)'
    BY <2>1, <2>2, <2>3 DEF Safe, BootedOut, Cutting, Imported
  <2> QED
    BY <2>4, <2>5
<1>18. CASE BringBack(h)
  <2>1. UNCHANGED <<plist, config, lines, db, lock>> /\ At(h, "bring back") /\ Goto(h, "close")
    BY <1>18 DEF BringBack
  <2>2. loaded' = loaded \/ (host[h].cut /\ host[h].bootedOut /\ (loaded' <=> (loaded \/ plist)))
    BY <1>0, <1>18 DEF BringBack, Bootstrap
  <2>3. host[h].cut /\ host[h].bootedOut => ~db.cutover
    BY <1>l, <2>1 DEF Safe, At
  <2>4. (plist' <=> plist) /\ config' = config /\ lines' = lines /\ db' = db /\ lock' = lock
    BY <2>1
  <2>5. Legacy'
    <3>1. CASE loaded' = loaded
      BY <1>l, <2>4, <3>1 DEF Legacy, Ready
    <3>2. CASE host[h].cut /\ host[h].bootedOut /\ (loaded' <=> (loaded \/ plist))
      BY <1>l, <2>3, <2>4, <3>2 DEF Legacy, Ready
    <3> QED
      BY <2>2, <3>1, <3>2
  <2>6. Safe(h)'
    <3>1. host'[h].pc = "close"
      BY <1>m, <2>1
    <3> QED
      BY <1>d, <3>1 DEF Calmed
  <2> QED
    BY <2>5, <2>6
<1>19. CASE Close(h) \/ Quit(h) \/ RollbackRaises(h)
  <2>1. /\ UNCHANGED <<plist, loaded, config, lines, db, lock>>
        /\ \E pc \in {"close", "stop"} : Goto(h, pc)
    BY <1>19 DEF Close, Quit, RollbackRaises, legacy
  <2> QED
    BY <1>d, <1>m, <1>u, <2>1 DEF Calmed
<1>20. CASE MonitorRuns(h)
  <2>1. UNCHANGED <<plist, loaded, config, lines, db, host>> /\ lock'.by = "monitor"
    BY <1>20 DEF MonitorRuns, legacy, Held
  <2> QED
    BY <1>l, <1>s, <2>1 DEF Safe, Ready
<1>21. CASE ImportFails(h)
  <2>1. /\ UNCHANGED <<plist, loaded, config, lines, db, lock>> /\ host[h].pc \in Cutting
        /\ Goto(h, "undo")
    BY <1>21 DEF ImportFails, legacy, Cutting
  <2>2. host'[h].pc = "undo" /\ host'[h].bootedOut = host[h].bootedOut
        /\ host'[h].already = host[h].already
    BY <1>m, <2>1
  <2> QED
    BY <1>l, <1>u, <2>1, <2>2 DEF Safe, Ready, BootedOut, Cutting, Imported
<1>22. CASE StartFails(h)
  <2>1. /\ UNCHANGED <<plist, loaded, config, lines, db, lock>> /\ host[h].pc \in Imported
        /\ Goto(h, "rollback")
    BY <1>22 DEF StartFails, legacy, Imported
  <2> QED
    BY <1>m, <1>11, <2>1
<1> QED
  BY <1>1, <1>2, <1>3, <1>4, <1>5, <1>6, <1>7, <1>8, <1>9, <1>10, <1>12, <1>13, <1>14, <1>15,
     <1>16, <1>17, <1>18, <1>19, <1>20, <1>21, <1>22 DEF HostStep, Startup, Shutdown

LEMMA SoundStep ==
  ASSUME TypeOK, OneHost, Sound, [Next]_vars
  PROVE  Sound'
<1>1. CASE UNCHANGED vars
  BY <1>1 DEF vars, legacy, history, Sound, Alone, Legacy, Safe, Ready
<1>2. ASSUME NEW h \in Hosts, HostStep(h) PROVE Sound'
  <2>1. (met => met') /\ mishaps \subseteq mishaps'
    BY Remembered
  <2> QED
    BY <1>2, <2>1, SoundHost DEF Sound
<1> QED
  BY <1>1, <1>2, SoundWorld, Steps

LEMMA TakeoverAlways == Spec => [](TypeOK /\ OneHost /\ Sound)
<1>1. Init => OneHost /\ Sound
  <2> SUFFICES ASSUME Init PROVE OneHost /\ Sound
    OBVIOUS
  <2>1. \A h \in Hosts : host[h].pc = "down"
    BY DownTyped DEF Init
  <2>2. Legacy
    BY DEF Init, Legacy, Held, Free
  <2>3. \A h \in Hosts : Safe(h)
    BY <2>1 DEF Safe, BootedOut, Cutting, Imported, Undoing
  <2> QED
    BY <2>1, <2>2, <2>3 DEF OneHost, At, Sound
<1> QED
  BY <1>1, InitTyped, StepTyped, OneHostStep, SoundStep, PTL DEF Spec

(* Through any number of failed starts, crashes and retries a completed    *)
(* cutover has imported every line the legacy service wrote, unless        *)
(* launchd fails to end it or a backup is restored (snapshot_and_import,   *)
(* rollback_failed_cutover).                                               *)
THEOREM NothingLost == Spec => []NothingLeftBehind
<1>1. Sound => NothingLeftBehind
  BY DEF Sound, Legacy, Safe, Ready, Imported, NothingLeftBehind, At
<1> QED
  BY <1>1, TakeoverAlways, PTL

-----------------------------------------------------------------------------
(* Whether the legacy service runs as it did.                              *)

Intact == Alone({"crash", "lock", "build", "rollback", "bootout", "bootstrap"})

(* What a start has done to a service whose manifest is still there.       *)
Owed(h) ==
  /\ host[h].pc # "down" => host[h].cut /\ host[h].present
  /\ host[h].pc \in BootedOut => ~loaded /\ (host[h].bootedOut <=> before)
  /\ host[h].pc \in Calmed \ {"down"} => (loaded <=> before)
  /\ host[h].pc # "up"

Kept ==
  Intact =>
    /\ loaded => plist
    /\ plist => \A h \in Hosts : Owed(h)
    /\ plist /\ (\A h \in Hosts : At(h, "down")) => (loaded <=> before)

LEMMA KeptWorld ==
  ASSUME Kept, World
  PROVE  Kept'
<1>1. CASE RestoreReplace
  BY <1>1 DEF RestoreReplace, Kept, Intact, Alone, Owed, At, legacy
<1>2. CASE ~RestoreReplace
  BY <1>2 DEF World, LegacyRuns, LegacyWrites, HolderEnds, Backup, RestoreLook, Kept, Intact,
              Alone, Owed, At, legacy, history
<1> QED
  BY <1>1, <1>2

LEMMA KeptHost ==
  ASSUME TypeOK, OneHost, Kept, NEW h \in Hosts, HostStep(h),
         met => met', mishaps \subseteq mishaps', Intact'
  PROVE  /\ loaded' => plist'
         /\ plist' => \A g \in Hosts : Owed(g)'
         /\ plist' /\ (\A g \in Hosts : At(g, "down"))' => (loaded' <=> before')
<1>0. /\ host \in [Hosts -> HostRow] /\ plist \in BOOLEAN /\ loaded \in BOOLEAN
      /\ before \in BOOLEAN /\ Intact
  BY DEF TypeOK, Intact, Alone
<1>k. (loaded => plist) /\ (plist => Owed(h))
  BY <1>0 DEF Kept
<1>b. before' = before
  BY DEF HostStep, Begin, Startup, Shutdown, Quit, MonitorRuns, LockRaises, ImportFails,
         StartFails, RollbackRaises, Crash, BootoutLegacy, TryLock, Snapshot, ImportSettings,
         ImportEvents, Mark, Undo, Release, Unlock, Build, StartSupervisor, Publish, Serve,
         Finalize, Retire, Rollback, BringBack, Close, StopSupervisor, history
<1>o. \A g \in Hosts : g # h => Owed(g)'
  <2>1. \A g \in Hosts : g # h => host'[g].pc = "down"
    BY ActsAlone DEF Intact, Alone
  <2> QED
    BY <2>1 DEF Owed, BootedOut, Calmed, Cutting, Imported, Undoing
<1> DEFINE Goal == /\ loaded' => plist'
                   /\ plist' => Owed(h)'
                   /\ plist' /\ host'[h].pc = "down" => (loaded' <=> before')
<1> SUFFICES Goal
  BY <1>o DEF At
<1>m. ASSUME NEW pc, Goto(h, pc)
      PROVE  /\ host'[h].pc = pc /\ host'[h].cut = host[h].cut
             /\ host'[h].bootedOut = host[h].bootedOut /\ host'[h].present = host[h].present
  BY <1>m, Moved
<1>a. ASSUME host[h].pc \in BootedOut, host'[h].pc \in BootedOut \ {"up"},
             UNCHANGED <<plist, loaded>>, host[h].cut => host'[h].cut,
             host'[h].present = host[h].present, host'[h].bootedOut = host[h].bootedOut
      PROVE  Goal
  BY <1>a, <1>b, <1>k DEF Owed, BootedOut, Calmed, Cutting, Imported, Undoing
<1>n. ASSUME ~plist', ~loaded' PROVE Goal
  BY <1>n
<1>e. ASSUME End(h), UNCHANGED <<plist, loaded>>, host[h].pc \in {"bootout", "release", "stop"}
      PROVE  Goal
  <2>1. host'[h].pc = "down"
    BY <1>e, Ended
  <2> QED
    BY <1>b, <1>e, <1>k, <2>1 DEF Owed, BootedOut, Calmed, Cutting, Imported, Undoing
<1>1. CASE Begin(h)
  <2>1. UNCHANGED <<plist, loaded>> /\ host[h].pc = "down"
    BY <1>1 DEF Begin, legacy, At
  <2>2. CASE plist
    <3>1. /\ host'[h].pc = "bootout" /\ host'[h].cut /\ host'[h].present
      BY <1>0, <1>1, <2>2 DEF Begin, Done, Down
    <3>2. \A g \in Hosts : At(g, "down")
      BY <2>1, ActsAlone DEF Intact, Alone, At
    <3>3. loaded <=> before
      BY <1>0, <2>2, <3>2 DEF Kept
    <3> QED
      BY <1>b, <2>1, <2>2, <3>1, <3>3 DEF Owed, BootedOut, Calmed, Cutting, Imported, Undoing
  <2> QED
    BY <1>k, <1>n, <2>1, <2>2
<1>2. CASE BootoutLegacy(h)
  <2>1. plist' = plist /\ host[h].pc = "bootout"
    BY <1>2 DEF BootoutLegacy, At
  <2>2. CASE End(h) /\ UNCHANGED loaded
    BY <1>e, <2>1, <2>2
  <2>3. ASSUME plist, NEW out \in BOOLEAN, Bootout(out),
               host' = [host EXCEPT ![h].pc = "lock", ![h].bootedOut = out]
        PROVE  Goal
    <3>1. Bootout(out) /\ host' = [host EXCEPT ![h].pc = "lock", ![h].bootedOut = out]
      BY <2>3
    <3>2. /\ host'[h].pc = "lock" /\ host'[h].bootedOut = out
          /\ host'[h].cut = host[h].cut /\ host'[h].present = host[h].present
      BY <1>0, <3>1 DEF HostRow
    <3>3. out <=> loaded
      BY <3>1 DEF Bootout, Fault, Intact, Alone
    <3>4. ~loaded'
      BY <1>0, <3>1, <3>3 DEF Bootout, Booted
    <3> QED
      BY <1>b, <1>k, <2>1, <2>3, <3>2, <3>3, <3>4
      DEF Owed, BootedOut, Calmed, Cutting, Imported, Undoing
  <2> QED
    BY <1>2, <2>2, <2>3 DEF BootoutLegacy
<1>3. CASE TryLock(h) \/ Snapshot(h) \/ ImportSettings(h) \/ ImportEvents(h) \/ ImportFails(h)
  <2>1. /\ UNCHANGED <<plist, loaded>> /\ host[h].pc \in BootedOut
        /\ \E pc \in BootedOut \ {"up"} : Goto(h, pc)
    BY <1>3 DEF TryLock, Snapshot, ImportSettings, ImportEvents, ImportFails, legacy, At,
                BootedOut, Cutting, Imported
  <2> QED
    BY <1>a, <1>m, <2>1
<1>4. CASE Mark(h) \/ Unlock(h) \/ Publish(h)
  <2>1. UNCHANGED <<plist, loaded>> /\ host[h].pc \in BootedOut
    BY <1>4 DEF Mark, Unlock, Publish, legacy, At, BootedOut, Cutting, Imported
  <2>2. /\ host'[h].pc \in {"unlock", "build", "serve"}
        /\ host[h].cut => host'[h].cut
        /\ host'[h].present = host[h].present /\ host'[h].bootedOut = host[h].bootedOut
    <3>1. CASE Mark(h)
      BY <1>0, <3>1 DEF Mark, HostRow
    <3>2. CASE Unlock(h)
      BY <1>0, <3>2 DEF Unlock, HostRow
    <3>3. CASE Publish(h)
      BY <1>0, <3>3 DEF Publish, HostRow
    <3> QED
      BY <1>4, <3>1, <3>2, <3>3
  <2> QED
    BY <1>a, <2>1, <2>2 DEF BootedOut, Imported
<1>5. CASE Undo(h)
  <2>1. plist' = plist /\ At(h, "undo") /\ Goto(h, "release")
    BY <1>5 DEF Undo
  <2>2. IF host[h].bootedOut THEN loaded' = (loaded \/ plist) ELSE loaded' = loaded
    BY <1>5 DEF Undo, Bootstrap, Fault, Intact, Alone
  <2>3. plist => (loaded' <=> before)
    BY <1>k, <2>1, <2>2 DEF Owed, BootedOut, Cutting, At
  <2>4. /\ host[h].pc = "undo" /\ host'[h].pc = "release"
        /\ host'[h].cut = host[h].cut /\ host'[h].present = host[h].present
    BY <1>m, <2>1 DEF At
  <2>5. CASE plist
    <3>1. Owed(h)'
      BY <1>b, <1>k, <2>1, <2>3, <2>4, <2>5
      DEF Owed, BootedOut, Calmed, Cutting, Imported, Undoing
    <3> QED
      BY <2>1, <2>4, <2>5, <3>1
  <2>6. CASE ~plist
    <3>1. ~loaded'
      BY <1>0, <1>k, <2>2, <2>6
    <3> QED
      BY <1>n, <2>1, <2>6, <3>1
  <2> QED
    BY <2>5, <2>6
<1>6. CASE Release(h) \/ StopSupervisor(h)
  BY <1>e, <1>6 DEF Release, StopSupervisor, legacy, At
<1>7. CASE Build(h)
  <2>1. UNCHANGED <<plist, loaded>> /\ At(h, "build") /\ Goto(h, "start")
    BY <1>7 DEF Build, legacy, Fault, Intact, Alone
  <2> QED
    BY <1>a, <1>m, <2>1 DEF At, BootedOut, Imported
<1>8. CASE StartSupervisor(h) \/ StartFails(h) \/ Rollback(h)
  <2>1. /\ UNCHANGED <<plist, loaded>> /\ host[h].pc \in BootedOut
        /\ \E pc \in BootedOut \ {"up"} : Goto(h, pc)
    BY <1>8 DEF StartSupervisor, StartFails, Rollback, legacy, At, BootedOut, Imported, Undoing
  <2> QED
    BY <1>a, <1>m, <2>1
<1>9. CASE Serve(h)
  <2>1. UNCHANGED <<plist, loaded>> /\ host[h].pc = "serve"
    BY <1>9 DEF Serve, legacy, At
  <2>2. CASE host[h].cut
    <3>1. \E pc \in {"finalize", "rollback"} : Goto(h, pc)
      BY <1>9, <2>2 DEF Serve
    <3> QED
      BY <1>a, <1>m, <2>1, <3>1 DEF BootedOut, Imported, Undoing
  <2>3. CASE ~host[h].cut
    BY <1>k, <1>n, <2>1, <2>3 DEF Owed
  <2> QED
    BY <2>2, <2>3
<1>10. CASE Finalize(h)
  <2>1. plist' = plist /\ host[h].pc = "finalize"
    BY <1>10 DEF Finalize, At
  <2>2. ~loaded
    BY <1>k, <2>1 DEF Owed, BootedOut, Imported
  <2>3. ~loaded'
    BY <1>0, <1>10, <2>2 DEF Finalize, Bootout, Booted
  <2>4. CASE plist
    <3>1. Goto(h, "retire")
      BY <1>10, <1>k, <2>1, <2>4 DEF Finalize, Owed
    <3>2. /\ host'[h].pc = "retire" /\ host'[h].cut = host[h].cut
          /\ host'[h].present = host[h].present /\ host'[h].bootedOut = host[h].bootedOut
      BY <1>m, <3>1
    <3>3. loaded' = loaded
      BY <1>0, <1>10, <2>2 DEF Finalize, Bootout, Booted
    <3> QED
      BY <1>a, <2>1, <3>2, <3>3 DEF BootedOut, Imported
  <2>5. CASE ~plist
    BY <1>n, <2>1, <2>3, <2>5
  <2> QED
    BY <2>4, <2>5
<1>11. CASE Retire(h)
  <2>1. ~plist' /\ loaded' = loaded /\ host[h].pc = "retire"
    BY <1>11 DEF Retire, At
  <2>2. ~loaded
    BY <1>k, <2>1 DEF Owed, BootedOut, Imported
  <2> QED
    BY <1>n, <2>1, <2>2
<1>12. CASE BringBack(h)
  <2>1. plist' = plist /\ At(h, "bring back") /\ Goto(h, "close")
    BY <1>12 DEF BringBack
  <2>2. IF host[h].cut /\ host[h].bootedOut /\ plist THEN loaded' = (loaded \/ plist)
        ELSE loaded' = loaded
    BY <1>12 DEF BringBack, Bootstrap, Fault, Intact, Alone
  <2>3. plist => (loaded' <=> before)
    BY <1>k, <2>1, <2>2 DEF Owed, BootedOut, Undoing, At
  <2>4. /\ host[h].pc = "bring back" /\ host'[h].pc = "close"
        /\ host'[h].cut = host[h].cut /\ host'[h].present = host[h].present
    BY <1>m, <2>1 DEF At
  <2>5. CASE plist
    <3>1. Owed(h)'
      BY <1>b, <1>k, <2>1, <2>3, <2>4, <2>5
      DEF Owed, BootedOut, Calmed, Cutting, Imported, Undoing
    <3> QED
      BY <2>1, <2>4, <2>5, <3>1
  <2>6. CASE ~plist
    <3>1. ~loaded'
      BY <1>0, <1>k, <2>2, <2>6
    <3> QED
      BY <1>n, <2>1, <2>6, <3>1
  <2> QED
    BY <2>5, <2>6
<1>13. CASE Quit(h)
  <2>1. UNCHANGED <<plist, loaded>> /\ host[h].pc = "up"
    BY <1>13 DEF Quit, legacy, At
  <2> QED
    BY <1>k, <1>n, <2>1 DEF Owed
<1>14. CASE Close(h)
  <2>1. UNCHANGED <<plist, loaded>> /\ host[h].pc = "close" /\ Goto(h, "stop")
    BY <1>14 DEF Close, legacy, At
  <2>2. /\ host'[h].pc = "stop" /\ host'[h].cut = host[h].cut
        /\ host'[h].present = host[h].present
    BY <1>m, <2>1
  <2> QED
    BY <1>b, <1>k, <2>1, <2>2 DEF Owed, BootedOut, Calmed, Cutting, Imported, Undoing
<1>15. CASE MonitorRuns(h)
  <2>1. UNCHANGED <<plist, loaded, host>> /\ host[h].pc # "down"
    BY <1>15 DEF MonitorRuns, Supervised, legacy
  <2> QED
    BY <1>b, <1>k, <2>1 DEF Owed
<1>16. ~Crash(h) /\ ~LockRaises(h) /\ ~RollbackRaises(h)
  BY DEF Crash, LockRaises, RollbackRaises, Fault, Intact, Alone
<1> QED
  BY <1>1, <1>2, <1>3, <1>4, <1>5, <1>6, <1>7, <1>8, <1>9, <1>10, <1>11, <1>12, <1>13,
     <1>14, <1>15, <1>16 DEF HostStep, Startup, Shutdown

LEMMA KeptStep ==
  ASSUME TypeOK, OneHost, Kept, [Next]_vars
  PROVE  Kept'
<1>1. CASE UNCHANGED vars
  BY <1>1 DEF vars, legacy, history, Kept, Intact, Alone, Owed, At
<1>2. ASSUME NEW h \in Hosts, HostStep(h) PROVE Kept'
  <2>1. (met => met') /\ mishaps \subseteq mishaps'
    BY Remembered
  <2> QED
    BY <1>2, <2>1, KeptHost DEF Kept
<1> QED
  BY <1>1, <1>2, KeptWorld, Steps

(* When a start has failed, the legacy service runs as it did before, for  *)
(* any hosts and any number of failures, unless a host crashed or met      *)
(* another, the lock's file could not be opened, the supervisor could not  *)
(* be made, the mark could not be deleted, or launchd refused              *)
(* (atomic_cutover's except, rollback_failed_cutover).                     *)
THEOREM StartUndone == Spec => []FailedStartRestores
<1>1. Init => Kept
  <2> SUFFICES ASSUME Init PROVE Kept
    OBVIOUS
  <2>1. \A h \in Hosts : host[h].pc = "down"
    BY DownTyped DEF Init
  <2>2. (loaded => plist) /\ before = loaded
    BY DEF Init
  <2>3. \A h \in Hosts : Owed(h)
    BY <2>1 DEF Owed, BootedOut, Calmed, Cutting, Imported, Undoing
  <2> QED
    BY <2>2, <2>3 DEF Kept
<1>2. TypeOK /\ Kept => FailedStartRestores
  BY DEF TypeOK, Kept, Intact, FailedStartRestores
<1> QED
  BY <1>1, <1>2, InitTyped, StepTyped, OneHostStep, KeptStep, TakeoverAlways, PTL DEF Spec
=============================================================================
