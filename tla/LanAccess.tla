------------------------------ MODULE LanAccess ------------------------------
(***************************************************************************)
(* The LAN listener.  An owner stages an address, has 60 seconds to        *)
(* confirm it from there, and may disable it; the setting survives the     *)
(* host.  Requests run in parallel on one manager without a lock, so the   *)
(* assignments of one may fall between those of another, and each ends     *)
(* where the database or the network raises.                               *)
(*                                                                         *)
(* The manager knows one server; a server it has forgotten stays open.     *)
(* The same holds for the mDNS advertiser.                                 *)
(***************************************************************************)
EXTENDS Integers

CONSTANTS
  Addresses,    \* interface addresses that may be assigned to the host
  None,
  Requests,     \* threads
  StageSeconds, \* 60 in the code
  MaxTime,      \* bound: the clock
  MaxCalls,     \* bound: requests
  MaxMoves,     \* bound: changes of the assigned addresses
  MaxRestarts,  \* bound: restarts of the host
  MaxFaults     \* bound: exceptions of the database and the network

ASSUME LanAssumption ==
  /\ None \notin Addresses
  /\ Requests # {}
  /\ StageSeconds \in Nat
  /\ {MaxTime, MaxCalls, MaxMoves, MaxRestarts, MaxFaults} \subseteq Nat

VARIABLES
  assigned,   \* the addresses the interfaces have
  listening,  \* the addresses with an open listener
  server,     \* the listener the manager knows
  pending,    \* the staged address, its token and deadline
  confirmed,
  setting,    \* the persisted address, None when LAN is not enabled
  adverts,    \* the addresses that are advertised
  advert,     \* the advertisement the manager knows
  now,
  token,      \* the last confirmation token handed out
  req,        \* what each request holds
  count,      \* how often the environment acted
  unsaved,    \* history: the setting does not hold what was confirmed last
  met         \* history: two requests have overlapped since the host started

manager == <<server, pending, confirmed, advert>>
world   == <<assigned, listening, setting, adverts>>
history == <<unsaved, met>>
vars    == <<manager, world, now, token, req, count, history>>

NoStage == [address |-> None, token |-> 0, deadline |-> 0]
Idle    == [pc |-> "idle", address |-> None, token |-> 0]
Maybe   == Addresses \cup {None}

Init ==
  /\ assigned \in SUBSET Addresses
  /\ listening = {} /\ adverts = {}
  /\ server = None /\ confirmed = None /\ setting = None /\ advert = None
  /\ pending = NoStage
  /\ now = 0
  /\ token = 0
  /\ req = [r \in Requests |-> Idle]
  /\ count = [calls |-> 0, moves |-> 0, restarts |-> 0, faults |-> 0]
  /\ unsaved = FALSE /\ met = FALSE

Goto(r, pc) == req' = [req EXCEPT ![r].pc = pc]
Finish(r)   == req' = [req EXCEPT ![r] = Idle]

Fault ==
  /\ count.faults < MaxFaults
  /\ count' = [count EXCEPT !.faults = @ + 1]

Tick ==
  /\ now < MaxTime
  /\ now' = now + 1
  /\ UNCHANGED <<manager, world, token, req, count, history>>

\* DHCP, sleep or a link change.
Move ==
  /\ count.moves < MaxMoves
  /\ count' = [count EXCEPT !.moves = @ + 1]
  /\ \E now_assigned \in SUBSET Addresses : assigned' = now_assigned
  /\ assigned' # assigned
  /\ UNCHANGED <<manager, listening, setting, adverts, now, token, req, history>>

-----------------------------------------------------------------------------
(* What the operations are made of.                                        *)

(* Mutant: the listener is forgotten and not closed.                       *)
ForgetListener == server' = None /\ UNCHANGED listening

StopListener ==
  /\ server' = None
  /\ listening' = listening \ {server}

\* The socket is bound to the address, which nobody else may be bound to.
CanBind(a) == a \in assigned /\ a \notin listening

StartListener(a) ==
  /\ CanBind(a)
  /\ server' = a
  /\ listening' = listening \cup {a}

Advertise(a) ==
  /\ advert' = a
  /\ adverts' = adverts \cup {a}

StopAdvert ==
  /\ advert' = None
  /\ adverts' = adverts \ {advert}

Staged  == pending.address # None
Expired == Staged /\ pending.deadline < now

-----------------------------------------------------------------------------
(* The requests.                                                           *)

Call(r, pc, a, presented) ==
  /\ req[r].pc = "idle"
  /\ count.calls < MaxCalls
  /\ count' = [count EXCEPT !.calls = @ + 1]
  /\ req' = [req EXCEPT ![r] = [pc |-> pc, address |-> a, token |-> presented]]
  /\ met' = (met \/ \E other \in Requests \ {r} : req[other].pc # "idle")
  /\ UNCHANGED <<manager, world, now, token, unsaved>>

\* What enumerate_interfaces may report; the command it runs may fail.
Enumerations == {assigned, {}}

\* Only a reported address can be staged; the open listener goes first.
Stage(r) ==
  /\ req[r].pc = "stage"
  /\ \E reported \in Enumerations :
       IF req[r].address \in reported
       THEN StopListener /\ Goto(r, "start")
       ELSE Finish(r) /\ UNCHANGED <<server, listening>>
  /\ UNCHANGED <<pending, confirmed, advert, assigned, setting, adverts, now, token, count,
                 history>>

StageStart(r) ==
  /\ req[r].pc = "start"
  /\ \/ StartListener(req[r].address) /\ Goto(r, "staged")
     \/ Finish(r) /\ UNCHANGED <<server, listening>>   \* the bind failed
  /\ UNCHANGED <<pending, confirmed, advert, assigned, setting, adverts, now, token, count,
                 history>>

StagePending(r) ==
  /\ req[r].pc = "staged"
  /\ token' = token + 1
  /\ pending' = [address |-> req[r].address, token |-> token + 1,
                 deadline |-> now + StageSeconds]
  /\ Finish(r)
  /\ UNCHANGED <<server, confirmed, advert, world, now, count, history>>

\* The token is checked, then the host the request came to.
Confirm(r) ==
  /\ req[r].pc = "confirm"
  /\ IF ~Staged \/ Expired \/ req[r].token # pending.token
       THEN StopListener /\ pending' = NoStage /\ Finish(r)
       ELSE /\ UNCHANGED <<server, listening, pending>>
            /\ IF req[r].address # pending.address THEN Finish(r) ELSE Goto(r, "confirmed")
  /\ UNCHANGED <<confirmed, advert, assigned, setting, adverts, now, token, count, history>>

Confirmed(r) ==
  /\ req[r].pc = "confirmed"
  /\ confirmed' = req[r].address
  /\ pending' = NoStage
  /\ Goto(r, "save")
  /\ UNCHANGED <<server, advert, world, now, token, count, history>>

ConfirmSave(r) ==
  /\ req[r].pc = "save"
  /\ setting' = req[r].address
  /\ unsaved' = FALSE
  /\ Goto(r, "advertise")
  /\ UNCHANGED <<manager, assigned, listening, adverts, now, token, count, met>>

\* put_setting raises: the listener stays, confirmed, and the setting is as before.
SaveRaises(r) ==
  /\ req[r].pc = "save"
  /\ Fault
  /\ unsaved' = TRUE
  /\ Finish(r)
  /\ UNCHANGED <<manager, world, now, token, met>>

ConfirmAdvertise(r) ==
  /\ req[r].pc = "advertise"
  /\ Advertise(req[r].address)
  /\ Finish(r)
  /\ UNCHANGED <<server, pending, confirmed, assigned, listening, setting, now, token, count,
                 history>>

Disable(r) ==
  /\ req[r].pc = "disable"
  /\ StopListener
  /\ confirmed' = None
  /\ pending' = NoStage
  /\ Goto(r, "forget")
  /\ UNCHANGED <<advert, assigned, setting, adverts, now, token, count, history>>

DisableSave(r) ==
  /\ req[r].pc = "forget"
  /\ setting' = None
  /\ Goto(r, "withdraw")
  /\ UNCHANGED <<manager, assigned, listening, adverts, now, token, count, history>>

DisableAdvert(r) ==
  /\ req[r].pc = "withdraw"
  /\ StopAdvert
  /\ Finish(r)
  /\ UNCHANGED <<server, pending, confirmed, assigned, listening, setting, now, token, count,
                 history>>

\* Nor is anything undone when the slug cannot be read or advertised, or when
\* disable cannot write the setting or withdraw the advertisement.
Raises(r) ==
  /\ req[r].pc \in {"advertise", "forget", "withdraw"}
  /\ Fault
  /\ Finish(r)
  /\ UNCHANGED <<manager, world, now, token, history>>

Status(r) ==
  /\ req[r].pc = "status"
  /\ IF Expired
       THEN StopListener /\ pending' = NoStage
       ELSE UNCHANGED <<server, listening, pending>>
  /\ Finish(r)
  /\ UNCHANGED <<confirmed, advert, assigned, setting, adverts, now, token, count, history>>

-----------------------------------------------------------------------------
(* The host: shutdown stops what the manager knows; the process ends, and  *)
(* with it every socket; a new one restores the persisted address.         *)

\* An operation of the manager that nothing in the host calls.
Reconcile ==
  /\ confirmed # None
  /\ confirmed \notin assigned
  /\ StopListener
  /\ confirmed' = None
  /\ UNCHANGED <<pending, advert, assigned, setting, adverts, now, token, req, count, history>>

Restart ==
  /\ count.restarts < MaxRestarts
  /\ count' = [count EXCEPT !.restarts = @ + 1]
  /\ pending' = NoStage
  /\ req' = [r \in Requests |-> Idle]
  /\ \/ /\ setting \in assigned
        /\ server' = setting /\ confirmed' = setting /\ advert' = setting
     \/ /\ server' = None /\ confirmed' = None /\ advert' = None
  /\ listening' = {server'} \ {None}
  /\ adverts' = {advert'} \ {None}
  /\ unsaved' = FALSE /\ met' = FALSE
  /\ UNCHANGED <<assigned, setting, now, token>>

Work(r) ==
  \/ Stage(r) \/ StageStart(r) \/ StagePending(r)
  \/ Confirm(r) \/ Confirmed(r) \/ ConfirmSave(r) \/ SaveRaises(r) \/ ConfirmAdvertise(r)
  \/ Disable(r) \/ DisableSave(r) \/ DisableAdvert(r) \/ Raises(r) \/ Status(r)

Begin(r) ==
  \/ \E a \in Addresses : Call(r, "stage", a, 0)
  \/ \E a \in Addresses, presented \in 0 .. token : Call(r, "confirm", a, presented)
  \/ Call(r, "disable", None, 0) \/ Call(r, "status", None, 0)

Manage ==
  \/ Tick \/ Move \/ Reconcile
  \/ \E r \in Requests : Begin(r) \/ Work(r)

Next == Manage \/ Restart

Spec == Init /\ [][Next]_vars

-----------------------------------------------------------------------------
(* What the manager promises.                                              *)

Quiet == \A r \in Requests : req[r].pc = "idle"

(* Every variable keeps its type; the manager's own listener is open.      *)
TypeOK ==
  /\ assigned \subseteq Addresses /\ listening \subseteq Addresses /\ adverts \subseteq Addresses
  /\ {server, confirmed, setting, advert} \subseteq Maybe
  /\ server # None => server \in listening
  /\ pending \in [address : Maybe, token : Nat, deadline : Nat]
  /\ now \in 0 .. MaxTime /\ token \in Nat
  /\ req \in [Requests -> [pc : {"idle", "stage", "start", "staged", "confirm", "confirmed",
                                 "save", "advertise", "disable", "forget", "withdraw",
                                 "status"},
                           address : Maybe, token : Nat]]
  /\ count \in [calls : 0 .. MaxCalls, moves : 0 .. MaxMoves, restarts : 0 .. MaxRestarts,
                faults : 0 .. MaxFaults]
  /\ {unsaved, met} \subseteq BOOLEAN

(* As long as requests do not overlap, a listener is open between them     *)
(* only on the address that is staged or confirmed, and only one, and a    *)
(* confirmed address is the one the next host restores, unless the write   *)
(* of its setting raised: addresses may go or refuse a bind, reading the   *)
(* slug, advertising and disable's own writes may raise, and the host may  *)
(* end at any step (stage, confirm, disable, status, restore).             *)
ListenerJustified ==
  Quiet /\ ~met =>
    /\ listening \subseteq {pending.address, confirmed} \cap {server}
    /\ confirmed # None => setting = confirmed \/ unsaved
=============================================================================
