---------------------------- MODULE Gateway_proofs ----------------------------
(***************************************************************************)
(* Of LanAccess: its type invariant for any number of parallel requests    *)
(* (whatever they do to each other, the listener the manager knows is      *)
(* open, so closing it never misses); and until two requests overlap where *)
(* a listener may be open, and that what is confirmed is what is saved,    *)
(* unless the write raised.  Of Gateway: for any number of viewers and slots every slot   *)
(* is free, held by a request under way, or lost in a way SlotsAccounted   *)
(* names, so no request gives back a slot it does not have; and the LAN    *)
(* manager below it still takes the steps of LanAccess.                    *)
(***************************************************************************)
EXTENDS Gateway, FiniteSetTheorems, TLAPS

-----------------------------------------------------------------------------
(* The listener.                                                           *)

Addressed == {"stage", "start", "staged", "confirm", "confirmed", "save", "advertise"}
Stages    == Addressed \cup {"idle", "disable", "forget", "withdraw", "status"}

Requested == [pc : Stages, address : Maybe, token : Nat]

WorldTyped ==
  /\ assigned \subseteq Addresses /\ adverts \subseteq Addresses
  /\ confirmed \in Maybe /\ setting \in Maybe /\ advert \in Maybe

ListenerTyped ==
  /\ listening \subseteq Addresses
  /\ server \in Maybe
  /\ server # None => server \in listening

PendingTyped == pending \in [address : Maybe, token : Nat, deadline : Nat]

ClockTyped ==
  /\ now \in 0 .. MaxTime /\ token \in Nat
  /\ count \in [calls : 0 .. MaxCalls, moves : 0 .. MaxMoves, restarts : 0 .. MaxRestarts,
                faults : 0 .. MaxFaults]
  /\ unsaved \in BOOLEAN /\ met \in BOOLEAN

RequestsTyped ==
  /\ req \in [Requests -> Requested]
  /\ \A r \in Requests : req[r].pc \in Addressed => req[r].address \in Addresses

(* The inductive invariant: the types, and that a request to stage or to   *)
(* confirm has an address, without which an advertisement might have none. *)
Inv == WorldTyped /\ ListenerTyped /\ PendingTyped /\ ClockTyped /\ RequestsTyped

LEMMA InvTyped == Inv => TypeOK
BY DEF Inv, TypeOK, WorldTyped, ListenerTyped, PendingTyped, ClockTyped, RequestsTyped,
       Requested, Stages, Addressed

LEMMA InitTyped == Init => Inv
<1> SUFFICES ASSUME Init PROVE Inv
  OBVIOUS
<1>0. unsaved \in BOOLEAN /\ met \in BOOLEAN
  BY DEF Init
<1>1. ClockTyped
  <2>1. /\ now = 0 /\ token = 0
        /\ count = [calls |-> 0, moves |-> 0, restarts |-> 0, faults |-> 0]
    BY DEF Init
  <2> QED
    BY <1>0, <2>1, LanAssumption DEF LanAssumption, ClockTyped
<1>2. RequestsTyped
  BY DEF Init, RequestsTyped, Requested, Stages, Addressed, Idle, Maybe
<1>3. WorldTyped /\ ListenerTyped /\ PendingTyped
  BY DEF Init, WorldTyped, ListenerTyped, PendingTyped, NoStage, Maybe
<1> QED
  BY <1>1, <1>2, <1>3 DEF Inv

(* What the steps on the listener and on the requests leave typed.         *)
LEMMA Stopped ==
  ASSUME ListenerTyped, StopListener PROVE ListenerTyped'
BY LanAssumption DEF LanAssumption, ListenerTyped, StopListener, Maybe

LEMMA Started ==
  ASSUME ListenerTyped, NEW a \in Addresses, StartListener(a)
  PROVE  ListenerTyped'
BY LanAssumption DEF LanAssumption, ListenerTyped, StartListener, CanBind, Maybe

LEMMA Moved ==
  ASSUME RequestsTyped, NEW r \in Requests, NEW pc \in Stages,
         Goto(r, pc) \/ Finish(r), pc \in Addressed => req[r].pc \in Addressed
  PROVE  RequestsTyped'
BY DEF RequestsTyped, Requested, Stages, Addressed, Goto, Finish, Idle, Maybe

LEMMA FaultTyped ==
  ASSUME ClockTyped, Fault, UNCHANGED <<now, token, met>>, unsaved' \in BOOLEAN
  PROVE  ClockTyped'
BY LanAssumption DEF LanAssumption, ClockTyped, Fault

(* Every step of a request.                                                *)
LEMMA WorkTyped ==
  ASSUME Inv, NEW r \in Requests, Work(r)
  PROVE  Inv'
<1> USE DEF Inv
<1>1. req[r].address \in Maybe /\ req[r].token \in Nat
  BY DEF RequestsTyped, Requested
<1>a. req[r].pc \in Addressed => req[r].address \in Addresses
  BY DEF RequestsTyped
<1>2. /\ Addressed = {"stage", "start", "staged", "confirm", "confirmed", "save", "advertise"}
      /\ Stages = Addressed \cup {"idle", "disable", "forget", "withdraw", "status"}
  BY DEF Stages, Addressed
<1>3. CASE Stage(r)
  <2>1. ListenerTyped'
    BY <1>3, Stopped DEF Stage, ListenerTyped
  <2>2. RequestsTyped'
    BY <1>2, <1>3, Moved DEF Stage
  <2>3. WorldTyped' /\ PendingTyped' /\ ClockTyped'
    BY <1>3 DEF Stage, history, WorldTyped, PendingTyped, ClockTyped
  <2> QED
    BY <2>1, <2>2, <2>3
<1>4. CASE StageStart(r)
  <2>1. ListenerTyped'
    BY <1>2, <1>a, <1>4, Started DEF StageStart, ListenerTyped, WorldTyped, Maybe
  <2>2. RequestsTyped'
    BY <1>2, <1>4, Moved DEF StageStart
  <2>3. WorldTyped' /\ PendingTyped' /\ ClockTyped'
    BY <1>4 DEF StageStart, history, WorldTyped, PendingTyped, ClockTyped
  <2> QED
    BY <2>1, <2>2, <2>3
<1>5. CASE StagePending(r)
  <2>1. RequestsTyped'
    BY <1>2, <1>5, Moved DEF StagePending
  <2>2. PendingTyped' /\ ClockTyped'
    BY <1>1, <1>5, LanAssumption
    DEF LanAssumption, StagePending, history, PendingTyped, ClockTyped
  <2>3. WorldTyped' /\ ListenerTyped'
    BY <1>5 DEF StagePending, world, WorldTyped, ListenerTyped
  <2> QED
    BY <2>1, <2>2, <2>3
<1>6. CASE Confirm(r)
  <2>1. ListenerTyped' /\ PendingTyped'
    BY <1>6, Stopped DEF Confirm, ListenerTyped, PendingTyped, NoStage, Maybe
  <2>2. RequestsTyped'
    BY <1>2, <1>6, Moved DEF Confirm
  <2>3. WorldTyped' /\ ClockTyped'
    BY <1>6 DEF Confirm, history, WorldTyped, ClockTyped
  <2> QED
    BY <2>1, <2>2, <2>3
<1>7. CASE Confirmed(r)
  <2>1. RequestsTyped'
    BY <1>2, <1>7, Moved DEF Confirmed
  <2>2. WorldTyped' /\ PendingTyped'
    BY <1>1, <1>7 DEF Confirmed, world, WorldTyped, PendingTyped, NoStage, Maybe
  <2>3. ListenerTyped' /\ ClockTyped'
    BY <1>7 DEF Confirmed, world, history, ListenerTyped, ClockTyped
  <2> QED
    BY <2>1, <2>2, <2>3
<1>8. CASE ConfirmSave(r) \/ DisableSave(r)
  <2>1. RequestsTyped'
    BY <1>2, <1>8, Moved DEF ConfirmSave, DisableSave
  <2>2. WorldTyped' /\ PendingTyped' /\ ClockTyped'
    BY <1>1, <1>8 DEF ConfirmSave, DisableSave, manager, history, WorldTyped, PendingTyped,
                      ClockTyped, Maybe
  <2>3. ListenerTyped'
    BY <1>8 DEF ConfirmSave, DisableSave, manager, ListenerTyped
  <2> QED
    BY <2>1, <2>2, <2>3
<1>9. CASE Disable(r)
  <2>1. ListenerTyped' /\ PendingTyped'
    BY <1>9, Stopped DEF Disable, PendingTyped, NoStage, Maybe
  <2>2. RequestsTyped'
    BY <1>2, <1>9, Moved DEF Disable
  <2>3. WorldTyped' /\ ClockTyped'
    BY <1>9 DEF Disable, history, WorldTyped, ClockTyped, Maybe
  <2> QED
    BY <2>1, <2>2, <2>3
<1>10. CASE ConfirmAdvertise(r) \/ DisableAdvert(r)
  <2>1. RequestsTyped'
    BY <1>2, <1>10, Moved DEF ConfirmAdvertise, DisableAdvert
  <2>2. WorldTyped'
    BY <1>2, <1>a, <1>10
    DEF ConfirmAdvertise, DisableAdvert, Advertise, StopAdvert, WorldTyped, Maybe
  <2>3. ListenerTyped' /\ PendingTyped' /\ ClockTyped'
    BY <1>10 DEF ConfirmAdvertise, DisableAdvert, history, ListenerTyped, PendingTyped, ClockTyped
  <2> QED
    BY <2>1, <2>2, <2>3
<1>11. CASE Status(r)
  <2>1. ListenerTyped' /\ PendingTyped'
    BY <1>11, Stopped DEF Status, ListenerTyped, PendingTyped, NoStage, Maybe
  <2>2. RequestsTyped'
    BY <1>2, <1>11, Moved DEF Status
  <2>3. WorldTyped' /\ ClockTyped'
    BY <1>11 DEF Status, history, WorldTyped, ClockTyped
  <2> QED
    BY <2>1, <2>2, <2>3
<1>12. CASE SaveRaises(r) \/ Raises(r)
  <2>1. RequestsTyped'
    BY <1>2, <1>12, Moved DEF SaveRaises, Raises
  <2>2. ClockTyped'
    BY <1>12, FaultTyped DEF SaveRaises, Raises, history, ClockTyped
  <2>3. WorldTyped' /\ ListenerTyped' /\ PendingTyped'
    BY <1>12 DEF SaveRaises, Raises, manager, world, WorldTyped, ListenerTyped, PendingTyped
  <2> QED
    BY <2>1, <2>2, <2>3
<1> QED
  BY <1>3, <1>4, <1>5, <1>6, <1>7, <1>8, <1>9, <1>10, <1>11, <1>12 DEF Work

(* Every step of the clock, the interfaces and the host.                   *)
LEMMA WorldStepsTyped ==
  ASSUME Inv, Tick \/ Move \/ Restart \/ Reconcile
  PROVE  Inv'
<1> USE DEF Inv
<1>1. CASE Tick
  BY <1>1, LanAssumption
  DEF LanAssumption, Tick, manager, world, history, WorldTyped, ListenerTyped, PendingTyped,
      ClockTyped, RequestsTyped
<1>2. CASE Move
  <2>1. ClockTyped'
    BY <1>2, LanAssumption DEF LanAssumption, Move, history, ClockTyped
  <2>2. WorldTyped' /\ ListenerTyped' /\ PendingTyped' /\ RequestsTyped'
    BY <1>2 DEF Move, manager, WorldTyped, ListenerTyped, PendingTyped, RequestsTyped
  <2> QED
    BY <2>1, <2>2
<1>3. CASE Restart
  <2>1. ClockTyped'
    <3>1. /\ count.restarts < MaxRestarts /\ count' = [count EXCEPT !.restarts = @ + 1]
          /\ UNCHANGED <<now, token>> /\ unsaved' \in BOOLEAN /\ met' \in BOOLEAN
      BY <1>3 DEF Restart
    <3> QED
      BY <3>1, LanAssumption DEF LanAssumption, ClockTyped
  <2>2. PendingTyped' /\ RequestsTyped'
    BY <1>3 DEF Restart, PendingTyped, RequestsTyped, Requested, Stages, Addressed, NoStage,
                   Idle, Maybe
  <2>3. server' \in Maybe /\ confirmed' \in Maybe /\ advert' \in Maybe
    BY <1>3 DEF Restart, WorldTyped, Maybe
  <2>4. WorldTyped' /\ ListenerTyped'
    BY <1>3, <2>3, LanAssumption
    DEF LanAssumption, Restart, WorldTyped, ListenerTyped, Maybe
  <2> QED
    BY <2>1, <2>2, <2>4
<1>4. CASE Reconcile
  <2>1. ListenerTyped'
    BY <1>4, Stopped DEF Reconcile
  <2>2. WorldTyped' /\ PendingTyped' /\ ClockTyped' /\ RequestsTyped'
    BY <1>4 DEF Reconcile, history, WorldTyped, PendingTyped, ClockTyped, RequestsTyped, Maybe
  <2> QED
    BY <2>1, <2>2
<1> QED
  BY <1>1, <1>2, <1>3, <1>4

LEMMA BeginTyped ==
  ASSUME Inv, NEW r \in Requests, Begin(r)
  PROVE  Inv'
<1> USE DEF Inv
<1>1. PICK pc \in {"stage", "confirm", "disable", "status"}, a \in Maybe, presented \in Nat :
        Call(r, pc, a, presented) /\ (pc \in {"stage", "confirm"} => a \in Addresses)
  BY DEF Begin, ClockTyped, Maybe
<1>2. ClockTyped'
  BY <1>1, LanAssumption DEF LanAssumption, Call, ClockTyped
<1>3. RequestsTyped'
  BY <1>1 DEF Call, RequestsTyped, Requested, Stages, Addressed
<1>4. WorldTyped' /\ ListenerTyped' /\ PendingTyped'
  BY <1>1 DEF Call, manager, world, WorldTyped, ListenerTyped, PendingTyped
<1> QED
  BY <1>2, <1>3, <1>4

LEMMA InvAlways == Spec => []Inv
<1>1. Inv /\ [Next]_vars => Inv'
  <2> SUFFICES ASSUME Inv, [Next]_vars
               PROVE  Inv'
    OBVIOUS
  <2>1. CASE UNCHANGED vars
    BY <2>1
    DEF vars, manager, world, history, Inv, WorldTyped, ListenerTyped, PendingTyped, ClockTyped,
        RequestsTyped
  <2> QED
    BY <2>1, WorkTyped, WorldStepsTyped, BeginTyped DEF Next, Manage
<1> QED
  BY InitTyped, <1>1, PTL DEF Spec

(* Every variable keeps its type, and the manager's listener is open.      *)
THEOREM TypeCorrect == Spec => []TypeOK
  BY InvAlways, InvTyped, PTL

-----------------------------------------------------------------------------
(* Requests that follow each other.                                        *)

(* While no two requests have overlapped, one at most is under way.        *)
OneRequest == ~met => \A q, r \in Requests : q = r \/ req[q].pc = "idle" \/ req[r].pc = "idle"

(* Where the listener is, and what the setting says, at each stage of the  *)
(* request under way, if there is one.                                     *)
InOrder(r) ==
  /\ listening \subseteq {server}
  /\ req[r].pc = "start" => listening = {}
  /\ req[r].pc = "staged" => listening \subseteq {req[r].address}
  /\ req[r].pc \notin {"start", "staged"} =>
       listening \subseteq IF Staged THEN {pending.address} ELSE {confirmed}
  /\ req[r].pc = "confirmed" => req[r].address = pending.address
  /\ req[r].pc = "save" => confirmed \in {req[r].address, None}
  /\ req[r].pc \in {"forget", "withdraw"} => confirmed = None
  /\ req[r].pc # "save" => confirmed \in {setting, None} \/ unsaved

(* Every other request is idle, and what the one under way has come to     *)
(* holds; all are idle, and what an idle one leaves holds.                 *)
Rest(r)  == \A q \in Requests : q # r => req[q].pc = "idle"
Ordered  == ~met => \A r \in Requests : Rest(r) => InOrder(r)

(* A step of that request.                                                 *)
LEMMA WorkInOrder ==
  ASSUME Inv, NEW r \in Requests, InOrder(r), Work(r)
  PROVE  InOrder(r)'
<1>1. /\ req[r] \in Requested /\ req \in [Requests -> Requested]
      /\ req[r].pc \in Addressed => req[r].address \in Addresses
      /\ None \notin Addresses
      /\ listening \subseteq Addresses
      /\ pending \in [address : Maybe, token : Nat, deadline : Nat]
  BY LanAssumption DEF LanAssumption, Inv, RequestsTyped, ListenerTyped, PendingTyped
<1>2. /\ \A pc : Goto(r, pc) => req'[r].pc = pc /\ req'[r].address = req[r].address
      /\ Finish(r) => req'[r].pc = "idle"
  BY <1>1 DEF Goto, Finish, Idle, Requested
<1>3. StopListener /\ InOrder(r) => listening' = {} /\ server' = None
  BY DEF StopListener, InOrder
<1>4. NoStage.address = None
  BY DEF NoStage
<1>5. CASE Stage(r)
  BY <1>2, <1>3, <1>5 DEF Stage, history, InOrder, Staged
<1>6. CASE StageStart(r)
  BY <1>2, <1>6 DEF StageStart, StartListener, history, InOrder, Staged
<1>7. CASE StagePending(r)
  BY <1>1, <1>2, <1>7 DEF StagePending, world, history, InOrder, Staged, Addressed
<1>8. CASE Confirm(r)
  BY <1>2, <1>3, <1>4, <1>8 DEF Confirm, history, InOrder, Staged
<1>9. CASE Confirmed(r)
  BY <1>1, <1>2, <1>4, <1>9 DEF Confirmed, world, history, InOrder, Staged, Addressed
<1>10. CASE ConfirmSave(r)
  BY <1>2, <1>10 DEF ConfirmSave, manager, InOrder, Staged
<1>11. CASE Disable(r)
  BY <1>2, <1>3, <1>4, <1>11 DEF Disable, history, InOrder, Staged
<1>12. CASE DisableSave(r)
  BY <1>2, <1>12 DEF DisableSave, manager, history, InOrder, Staged
<1>13. CASE Status(r)
  BY <1>2, <1>3, <1>4, <1>13 DEF Status, history, InOrder, Staged
<1>14. CASE ConfirmAdvertise(r) \/ DisableAdvert(r)
  BY <1>2, <1>14 DEF ConfirmAdvertise, DisableAdvert, history, InOrder, Staged
<1>15. CASE SaveRaises(r) \/ Raises(r)
  BY <1>2, <1>15 DEF SaveRaises, Raises, manager, world, history, InOrder, Staged
<1> QED
  BY <1>5, <1>6, <1>7, <1>8, <1>9, <1>10, <1>11, <1>12, <1>13, <1>14, <1>15 DEF Work

(* A step of the clock, the interfaces, the host, or a new request.        *)
LEMMA WorldInOrder ==
  ASSUME Inv, NEW r \in Requests, InOrder(r),
         Tick \/ Move \/ Reconcile \/ Begin(r) \/ UNCHANGED vars
  PROVE  InOrder(r)'
<1>1. req \in [Requests -> Requested]
  BY DEF Inv, RequestsTyped
<1>2. CASE Tick \/ Move \/ UNCHANGED vars
  BY <1>2 DEF Tick, Move, vars, manager, world, history, InOrder, Staged
<1>3. CASE Reconcile
  BY <1>3 DEF Reconcile, StopListener, history, InOrder, Staged
<1>4. CASE Begin(r)
  <2>1. /\ req[r].pc = "idle" /\ req'[r].pc \in {"stage", "confirm", "disable", "status"}
        /\ UNCHANGED <<manager, world, unsaved>>
    BY <1>1, <1>4 DEF Begin, Call
  <2> QED
    BY <2>1 DEF manager, world, InOrder, Staged
<1> QED
  BY <1>2, <1>3, <1>4

(* What one request does leaves the others as they are.                    *)
LEMMA OthersWait ==
  ASSUME Inv, NEW r \in Requests, Begin(r) \/ Work(r)
  PROVE  /\ \A q \in Requests : q # r => req'[q] = req[q]
         /\ met' = (met \/ (Begin(r) /\ ~Rest(r)))
         /\ Work(r) => req[r].pc # "idle"
         /\ Begin(r) => req[r].pc = "idle"
<1>1. req \in [Requests -> Requested] /\ met \in BOOLEAN
  BY DEF Inv, RequestsTyped, ClockTyped
<1>2. CASE Begin(r)
  <2>1. PICK pc, a, presented : Call(r, pc, a, presented)
    BY <1>2 DEF Begin
  <2>2. ~Work(r)
    BY <2>1 DEF Call, Work, Stage, StageStart, StagePending, Confirm, Confirmed, ConfirmSave,
                SaveRaises, ConfirmAdvertise, Disable, DisableSave, DisableAdvert, Raises, Status
  <2> QED
    BY <1>1, <1>2, <2>1, <2>2 DEF Call, Rest
<1>3. CASE Work(r)
  <2>1. req[r].pc # "idle" /\ met' = met /\ (Finish(r) \/ \E pc : Goto(r, pc))
    BY <1>3 DEF Work, Stage, StageStart, StagePending, Confirm, Confirmed, ConfirmSave,
                SaveRaises, ConfirmAdvertise, Disable, DisableSave, DisableAdvert, Raises,
                Status, history
  <2>2. ~Begin(r)
    BY <2>1 DEF Begin, Call
  <2> QED
    BY <1>1, <2>1, <2>2 DEF Finish, Goto
<1> QED
  BY <1>2, <1>3

LEMMA OneStep ==
  ASSUME Inv, OneRequest, Ordered, NEW r \in Requests, Begin(r) \/ Work(r), ~met'
  PROVE  /\ Rest(r) /\ Rest(r)'
         /\ InOrder(r)'
<1>1. ~met
  BY OthersWait
<1>2. Rest(r)
  BY <1>1, OthersWait DEF OneRequest, Rest
<1>3. InOrder(r)
  BY <1>1, <1>2 DEF Ordered
<1>4. InOrder(r)'
  BY <1>3, WorkInOrder, WorldInOrder
<1> QED
  BY <1>2, <1>4, OthersWait DEF Rest

LEMMA OrderedStep ==
  ASSUME Inv, OneRequest, Ordered, [Next]_vars
  PROVE  OneRequest' /\ Ordered'
<1>1. CASE Tick \/ Move \/ Reconcile \/ UNCHANGED vars
  <2>1. UNCHANGED <<req, met>>
    BY <1>1 DEF Tick, Move, Reconcile, vars, history
  <2>2. \A r \in Requests : InOrder(r) => InOrder(r)'
    BY <1>1, WorldInOrder
  <2> QED
    BY <2>1, <2>2 DEF OneRequest, Ordered, Rest
<1>2. CASE Restart
  <2>1. \A r \in Requests : req'[r].pc = "idle"
    BY <1>2 DEF Restart, Idle
  <2>2. pending'.address = None
    BY <1>2 DEF Restart, NoStage
  <2>3. confirmed' \in {setting', None} /\ server' = confirmed' /\ listening' \subseteq {server'}
    BY <1>2 DEF Restart
  <2> QED
    BY <2>1, <2>2, <2>3 DEF OneRequest, Ordered, Rest, InOrder, Staged
<1>3. ASSUME NEW r \in Requests, Begin(r) \/ Work(r) PROVE OneRequest' /\ Ordered'
  <2> SUFFICES ASSUME ~met' PROVE OneRequest' /\ Ordered'
    BY DEF OneRequest, Ordered
  <2>1. Rest(r) /\ Rest(r)' /\ InOrder(r)'
    BY <1>3, OneStep
  <2>2. OneRequest'
    BY <2>1 DEF OneRequest, Rest
  <2>3. ASSUME NEW q \in Requests, Rest(q)' PROVE InOrder(q)'
    <3>1. CASE q = r
      BY <2>1, <3>1
    <3>2. CASE q # r
      <4>1. req'[r].pc = "idle" /\ req'[q].pc = "idle"
        BY <2>1, <2>3, <3>2 DEF Rest
      <4> QED
        BY <2>1, <4>1 DEF InOrder
    <3> QED
      BY <3>1, <3>2
  <2> QED
    BY <2>2, <2>3 DEF Ordered
<1> QED
  BY <1>1, <1>2, <1>3 DEF Next, Manage

(* As long as the owners' requests do not overlap, however many threads    *)
(* answer them, a listener is open only where an owner put it, and what is *)
(* confirmed is what the next host restores unless writing it raised,      *)
(* whatever restart or exception of the database cut an operation short    *)
(* (LanAccessManager and the routes that call it).                         *)
THEOREM Justified == Spec => []ListenerJustified
<1>1. Init => OneRequest /\ Ordered
  BY DEF Init, OneRequest, Ordered, InOrder, Idle, Staged, NoStage
<1>2. Inv /\ Ordered => ListenerJustified
  <2> SUFFICES ASSUME Inv, Ordered, Quiet, ~met
               PROVE  /\ listening \subseteq {pending.address, confirmed} \cap {server}
                      /\ confirmed # None => setting = confirmed \/ unsaved
    BY DEF ListenerJustified
  <2> PICK r \in Requests : TRUE
    BY LanAssumption DEF LanAssumption
  <2>1. InOrder(r) /\ req[r].pc = "idle"
    BY DEF Ordered, Quiet, Rest
  <2> QED
    BY <2>1, LanAssumption DEF LanAssumption, InOrder, Staged, Inv, ListenerTyped
<1> QED
  BY InvAlways, <1>1, <1>2, OrderedStep, PTL DEF Spec

-----------------------------------------------------------------------------
(* The slots of the live view.                                             *)

ViewStages == {"away", "slot", "config", "fetch", "refused", "playlist",
               "segment", "head", "streaming"}

ViewTyped == view \in [Viewers -> [pc : ViewStages, asset : Assets]]

SlotInv ==
  /\ ViewTyped
  /\ slots \in Nat /\ lost \in Nat
  /\ SlotsAccounted

-----------------------------------------------------------------------------
(* The holders.                                                            *)

LEMMA HoldersFinite == IsFiniteSet(Holders) /\ Cardinality(Holders) \in Nat
  BY GatewayAssumption, FS_Subset, FS_CardinalityType DEF Holders

(* A request that takes a slot is one holder more.                         *)
LEMMA OneMore ==
  ASSUME NEW v \in Viewers, ViewTyped, ~Holding(v),
         NEW pc, view' = [view EXCEPT ![v].pc = pc], Holding(v)'
  PROVE  Cardinality(Holders') = Cardinality(Holders) + 1
<1>1. Holders' = Holders \cup {v}
  BY DEF Holders, Holding, ViewTyped
<1>2. v \notin Holders
  BY DEF Holders
<1> QED
  BY <1>1, <1>2, HoldersFinite, FS_AddElement

(* One that ends, or is refused, is one less.                              *)
LEMMA OneLess ==
  ASSUME NEW v \in Viewers, ViewTyped, Holding(v), ~Holding(v)',
         \A w \in Viewers \ {v} : view'[w] = view[w]
  PROVE  Cardinality(Holders') = Cardinality(Holders) - 1
<1>1. Holders' = Holders \ {v}
  BY DEF Holders, Holding, ViewTyped
<1>2. v \in Holders
  BY DEF Holders
<1> QED
  BY <1>1, <1>2, HoldersFinite, FS_RemoveElement

(* One that goes on holds its slot as before.                              *)
LEMMA SameHolders ==
  ASSUME NEW v \in Viewers, ViewTyped, Holding(v)' = Holding(v),
         \A w \in Viewers \ {v} : view'[w] = view[w]
  PROVE  Cardinality(Holders') = Cardinality(Holders)
<1>1. Holders' = Holders
  BY DEF Holders, Holding, ViewTyped
<1> QED
  BY <1>1

-----------------------------------------------------------------------------
(* The steps.                                                              *)

LEMMA InitSlots == GatewayInit => SlotInv
<1> SUFFICES ASSUME GatewayInit PROVE SlotInv
  OBVIOUS
<1>1. Holders = {}
  BY DEF GatewayInit, Holders, Holding, Away
<1>2. Cardinality(Holders) = 0
  BY <1>1, FS_EmptySet
<1> QED
  BY <1>2, GatewayAssumption
     DEF GatewayInit, SlotInv, ViewTyped, Away, Assets, ViewStages, SlotsAccounted

LEMMA AnswerSlots ==
  ASSUME SlotInv, NEW v \in Viewers, Answer(v)
  PROVE  SlotInv'
<1>0. /\ ViewTyped /\ slots \in Nat /\ lost \in Nat
      /\ slots + Cardinality(Holders) + lost = HlsLimit
      /\ Cardinality(Holders) \in Nat /\ HlsLimit \in Nat
  BY HoldersFinite, GatewayAssumption DEF SlotInv, SlotsAccounted
<1>1. CASE Acquire(v)
  <2>1. CASE slots > 0 /\ slots' = slots - 1 /\ Go(v, "config") /\ UNCHANGED lost
    <3>1. Cardinality(Holders') = Cardinality(Holders) + 1
      BY <1>0, <1>1, <2>1, OneMore DEF Acquire, At, Go, Holding, ViewTyped
    <3>2. ViewTyped'
      BY <1>0, <2>1 DEF Go, ViewTyped, ViewStages
    <3> QED
      BY <1>0, <2>1, <3>1, <3>2 DEF SlotInv, SlotsAccounted
  <2>2. CASE UNCHANGED slots /\ End(v) /\ UNCHANGED lost
    <3>1. Cardinality(Holders') = Cardinality(Holders)
      BY <1>0, <1>1, <2>2, SameHolders DEF Acquire, At, End, Away, Holding, ViewTyped
    <3>2. ViewTyped'
      BY <1>0, <2>2 DEF End, Away, ViewTyped, ViewStages, Assets
    <3> QED
      BY <1>0, <2>2, <3>1, <3>2 DEF SlotInv, SlotsAccounted
  <2> QED
    BY <1>1, <2>1, <2>2 DEF Acquire
<1>2. ASSUME Holding(v), End(v) \/ Go(v, "refused"), Release, UNCHANGED lost
      PROVE  SlotInv'
  <2>1. Cardinality(Holders') = Cardinality(Holders) - 1
    BY <1>0, <1>2, OneLess DEF End, Go, Away, Holding, ViewTyped
  <2>2. ViewTyped'
    BY <1>0, <1>2 DEF End, Go, Away, ViewTyped, ViewStages, Assets
  <2> QED
    BY <1>0, <1>2, <2>1, <2>2 DEF SlotInv, SlotsAccounted, Release
<1>3. ASSUME Holding(v), End(v), UNCHANGED slots, lost' = lost + 1
      PROVE  SlotInv'
  <2>1. Cardinality(Holders') = Cardinality(Holders) - 1
    BY <1>0, <1>3, OneLess DEF End, Away, Holding, ViewTyped
  <2>2. ViewTyped'
    BY <1>0, <1>3 DEF End, Away, ViewTyped, ViewStages, Assets
  <2> QED
    BY <1>0, <1>3, <2>1, <2>2 DEF SlotInv, SlotsAccounted
<1>4. ASSUME Holding(v), NEW pc \in {"fetch", "playlist", "segment", "head", "streaming"},
             Go(v, pc), UNCHANGED <<slots, lost>>
      PROVE  SlotInv'
  <2>1. Cardinality(Holders') = Cardinality(Holders)
    BY <1>0, <1>4, SameHolders DEF Go, Holding, ViewTyped
  <2>2. ViewTyped'
    BY <1>0, <1>4 DEF Go, ViewTyped, ViewStages
  <2> QED
    BY <1>0, <1>4, <2>1, <2>2 DEF SlotInv, SlotsAccounted
<1>5. CASE Configured(v)
  BY <1>2, <1>4, <1>5 DEF Configured, At, Holding
<1>6. CASE ConfigRaises(v)
  BY <1>3, <1>6 DEF ConfigRaises, At, Holding
<1>7. CASE Unreachable(v) \/ Refused(v)
  BY <1>2, <1>7 DEF Unreachable, Refused, At, Holding
<1>8. CASE Fetched(v)
  <2>1. view[v].asset \in {"playlist", "segment", "head"}
    BY <1>0, <1>8 DEF Fetched, ViewTyped, Assets
  <2> QED
    BY <1>4, <1>8, <2>1 DEF Fetched, At, Holding
<1>9. CASE Playlist(v) \/ StreamEnds(v)
  BY <1>2, <1>9 DEF Playlist, StreamEnds, At, Holding
<1>10. CASE Stream(v)
  BY <1>4, <1>10 DEF Stream, At, Holding
<1>11. CASE HeadDropped(v)
  BY <1>3, <1>11 DEF HeadDropped, At, Holding
<1>12. CASE Leave(v)
  <2>1. Cardinality(Holders') = Cardinality(Holders)
    BY <1>0, <1>12, SameHolders DEF Leave, At, End, Away, Holding, ViewTyped
  <2>2. ViewTyped'
    BY <1>0, <1>12 DEF Leave, End, Away, ViewTyped, ViewStages, Assets
  <2> QED
    BY <1>0, <1>12, <2>1, <2>2 DEF SlotInv, SlotsAccounted, Leave
<1> QED
  BY <1>1, <1>5, <1>6, <1>7, <1>8, <1>9, <1>10, <1>11, <1>12 DEF Answer

LEMMA NextSlots == SlotInv /\ [GatewayNext]_allVars => SlotInv'
<1> SUFFICES ASSUME SlotInv, [GatewayNext]_allVars
             PROVE  SlotInv'
  OBVIOUS
<1>1. CASE \E v \in Viewers : Answer(v)
  BY <1>1, AnswerSlots
<1>2. CASE \E v \in Viewers, door \in Doors, asset \in Assets : Ask(v, door, asset)
  <2> PICK v \in Viewers, door \in Doors, asset \in Assets : Ask(v, door, asset)
    BY <1>2
  <2>1. Cardinality(Holders') = Cardinality(Holders)
    BY SameHolders DEF Ask, At, Holding, SlotInv, ViewTyped
  <2>2. ViewTyped'
    BY DEF Ask, SlotInv, ViewTyped, ViewStages
  <2> QED
    BY <2>1, <2>2 DEF Ask, SlotInv, SlotsAccounted
<1>3. CASE HostRestart
  <2>1. Holders' = {}
    BY <1>3 DEF HostRestart, Holders, Holding, Away
  <2>2. Cardinality(Holders') = 0
    BY <2>1, FS_EmptySet
  <2> QED
    BY <1>3, <2>2, GatewayAssumption
       DEF HostRestart, SlotInv, ViewTyped, Away, ViewStages, Assets, SlotsAccounted
<1>4. CASE UNCHANGED live
  <2>1. Holders' = Holders
    BY <1>4 DEF live, Holders, Holding
  <2> QED
    BY <1>4, <2>1 DEF live, SlotInv, ViewTyped, SlotsAccounted
<1>5. CASE LanStep \/ Outage \/ Recovery \/ ImportConfig
  BY <1>4, <1>5 DEF LanStep, gatewayVars, Outage, Recovery, ImportConfig, Outside
<1>6. CASE UNCHANGED allVars
  BY <1>4, <1>6 DEF allVars, gatewayVars
<1> QED
  BY <1>1, <1>2, <1>3, <1>5, <1>6 DEF GatewayNext

(* Every slot is accounted for (live_media).                               *)
THEOREM EverySlot == GatewaySpec => []SlotsAccounted
<1>1. SlotInv => SlotsAccounted
  BY DEF SlotInv
<1> QED
  BY <1>1, InitSlots, NextSlots, PTL DEF GatewaySpec

-----------------------------------------------------------------------------
(* The LAN listener under the live view.                                   *)

LEMMA LanUndisturbed == [GatewayNext]_allVars => [Next]_vars
<1> SUFFICES ASSUME [GatewayNext]_allVars
             PROVE  [Next]_vars
  OBVIOUS
<1>1. CASE LanStep
  BY <1>1 DEF LanStep, Next
<1>2. CASE HostRestart
  BY <1>2 DEF HostRestart, Next
<1>3. CASE Outage \/ Recovery \/ ImportConfig
  BY <1>3 DEF Outage, Recovery, ImportConfig, Outside
<1>4. ASSUME NEW v \in Viewers,
             Answer(v) \/ \E door \in Doors, asset \in Assets : Ask(v, door, asset)
      PROVE  UNCHANGED vars
  BY <1>4 DEF Answer, Acquire, Configured, ConfigRaises, Unreachable, Refused, Fetched,
              Playlist, Stream, StreamEnds, HeadDropped, Leave, Alone, Ask
<1>5. CASE UNCHANGED allVars
  BY <1>5 DEF allVars
<1> QED
  BY <1>1, <1>2, <1>3, <1>4, <1>5 DEF GatewayNext

(* Viewers, MediaMTX and its settings leave the LAN manager as LanAccess   *)
(* says it is, so what is proved there holds of the gateway (the web       *)
(* server's routes on one LanAccessManager).                               *)
THEOREM RunsLan == GatewaySpec => Spec
<1>1. GatewayInit => Init
  BY DEF GatewayInit
<1> QED
  BY <1>1, LanUndisturbed, PTL DEF GatewaySpec, Spec

(* In particular, until two requests to the manager overlap, a listener    *)
(* the viewers can reach is one that was confirmed or is staged            *)
(* (LanAccessManager.stage, confirm and disable).                          *)
THEOREM ReachedIfJustified == GatewaySpec => []ListenerJustified
BY RunsLan, Justified, PTL
=============================================================================
