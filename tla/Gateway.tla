------------------------------- MODULE Gateway -------------------------------
(***************************************************************************)
(* The gateway: the LAN listener of LanAccess, and the live view that      *)
(* viewers ask for through it or through loopback.  A live request has to  *)
(* take one of a few slots before it asks MediaMTX, and has to give it     *)
(* back on every way out; a playlist does so within the handler, a segment *)
(* when its generator has run.                                             *)
(*                                                                         *)
(* Sessions and roles are those of Auth: here a request may be turned away *)
(* at the gate for any of its reasons.                                     *)
(***************************************************************************)
EXTENDS LanAccess, FiniteSets

CONSTANTS
  Loopback,     \* the door that is always open
  Viewers,      \* threads of the web servers that answer live requests
  HlsLimit,     \* 4 in the code
  MaxAsks,      \* bound: live requests
  MaxBeside,    \* bound: what else happens in a history that has live requests
  MaxOutages    \* bound: changes of MediaMTX between up and down

ASSUME GatewayAssumption ==
  /\ Loopback \notin Addresses \cup {None}
  /\ HlsLimit \in Nat \ {0}
  /\ IsFiniteSet(Viewers)
  /\ {MaxAsks, MaxBeside, MaxOutages} \subseteq Nat

VARIABLES
  slots,        \* the value of the semaphore hls_slots
  view,         \* what each viewer's thread holds
  lost,         \* history: slots whose holder ended without giving them back
  serving,      \* MediaMTX is up and has the camera's stream
  written,      \* the password in mediamtx.yml
  taken,        \* the one MediaMTX read from it when it was launched
  asked, outages \* how often viewers asked, and MediaMTX changed

live        == <<slots, view, lost>>
media       == <<serving, written, taken>>
gatewayVars == <<live, media, asked, outages>>
allVars     == <<vars, gatewayVars>>

\* What is asked for: a playlist, a segment, the head of a segment, or
\* something MediaMTX does not have.
Assets == {"playlist", "segment", "head", "gone"}
Away   == [pc |-> "away", asset |-> "gone"]

GatewayInit ==
  /\ Init
  /\ slots = HlsLimit
  /\ view = [v \in Viewers |-> Away]
  /\ lost = 0
  /\ serving = TRUE
  /\ written = "installation" /\ taken = "installation"
  /\ asked = 0
  /\ outages = 0

At(v, pc) == view[v].pc = pc
Go(v, pc) == view' = [view EXCEPT ![v].pc = pc]
End(v)    == view' = [view EXCEPT ![v] = Away]

Beside   == count.calls + count.moves + count.restarts + now
Alone(v) == UNCHANGED <<vars, media, asked, outages>>

-----------------------------------------------------------------------------
(* The gate: an open listener, then the Host header, then the session.     *)

Doors == listening \cup {Loopback}

AllowedHosts == ({pending.address, confirmed} \ {None}) \cup {Loopback}

\* A request that enforce_security turns away changes nothing here.
Ask(v, door, asset) ==
  /\ At(v, "away")
  /\ asked < MaxAsks /\ Beside <= MaxBeside
  /\ asked' = asked + 1
  /\ door \in AllowedHosts
  /\ view' = [view EXCEPT ![v] = [pc |-> "slot", asset |-> asset]]
  /\ UNCHANGED <<vars, slots, lost, media, outages>>

-----------------------------------------------------------------------------
(* The handler live_media.                                                 *)

(* What _internal_media_credentials answers in the host: the password of   *)
(* the installation is in the environment of the children only.            *)
HostPassword == "development"

Release == slots' = slots + 1

Acquire(v) ==
  /\ At(v, "slot")
  /\ \/ slots > 0 /\ slots' = slots - 1 /\ Go(v, "config")
     \/ slots = 0 /\ UNCHANGED slots /\ End(v)
  /\ UNCHANGED lost /\ Alone(v)

Configured(v) ==
  /\ At(v, "config")
  /\ \/ Go(v, "fetch") /\ UNCHANGED slots
     \/ End(v) /\ Release     \* no configuration
  /\ UNCHANGED lost /\ Alone(v)

\* load_config raises, outside every try of the handler.
ConfigRaises(v) ==
  /\ At(v, "config")
  /\ End(v)
  /\ lost' = lost + 1
  /\ UNCHANGED slots /\ Alone(v)

(* Mutant: the request to MediaMTX has no timeout.                         *)
UnreachableWaits(v) == At(v, "fetch") /\ ~serving /\ UNCHANGED allVars

\* MediaMTX does not answer: refused, or ten seconds without a word.
Unreachable(v) ==
  /\ At(v, "fetch")
  /\ ~serving
  /\ End(v)
  /\ Release
  /\ UNCHANGED lost /\ Alone(v)

(* Mutant: an answer that is an error is passed on with the slot.          *)
RefusedKeepsSlot(v) ==
  /\ At(v, "fetch")
  /\ serving
  /\ taken # HostPassword \/ view[v].asset = "gone"
  /\ Go(v, "refused")
  /\ UNCHANGED <<slots, lost>> /\ Alone(v)

\* With another password MediaMTX answers 401, without the file 404.
Refused(v) ==
  /\ At(v, "fetch")
  /\ serving
  /\ taken # HostPassword \/ view[v].asset = "gone"
  /\ Go(v, "refused")
  /\ Release
  /\ UNCHANGED lost /\ Alone(v)

Fetched(v) ==
  /\ At(v, "fetch")
  /\ serving /\ taken = HostPassword /\ view[v].asset # "gone"
  /\ Go(v, view[v].asset)
  /\ UNCHANGED <<slots, lost>> /\ Alone(v)

\* The playlist is read and rewritten; a path it refuses raises.
Playlist(v) ==
  /\ At(v, "playlist")
  /\ End(v)
  /\ Release
  /\ UNCHANGED lost /\ Alone(v)

\* The server runs the generator to its end, an error, or the viewer's
\* going away, and all of them end in its finally.
Stream(v) ==
  /\ At(v, "segment")
  /\ Go(v, "streaming")
  /\ UNCHANGED <<slots, lost>> /\ Alone(v)

StreamEnds(v) ==
  /\ At(v, "streaming")
  /\ End(v)
  /\ Release
  /\ UNCHANGED lost /\ Alone(v)

\* The answer to HEAD has no body: the generator is closed before it ever
\* ran, and a generator that never ran has no finally to run.
HeadDropped(v) ==
  /\ At(v, "head")
  /\ End(v)
  /\ lost' = lost + 1
  /\ UNCHANGED slots /\ Alone(v)

Leave(v) ==
  /\ At(v, "refused")
  /\ End(v)
  /\ UNCHANGED <<slots, lost>> /\ Alone(v)

Answer(v) ==
  \/ Acquire(v) \/ Configured(v) \/ ConfigRaises(v)
  \/ Unreachable(v) \/ Refused(v) \/ Fetched(v) \/ Playlist(v)
  \/ Stream(v) \/ StreamEnds(v) \/ HeadDropped(v) \/ Leave(v)

-----------------------------------------------------------------------------
(* Everything together.                                                    *)

Outside ==
  /\ outages < MaxOutages /\ Beside <= MaxBeside
  /\ outages' = outages + 1
  /\ UNCHANGED <<vars, live, asked>>

\* MediaMTX ends, or loses the camera.
Outage ==
  /\ Outside
  /\ serving
  /\ serving' = FALSE
  /\ UNCHANGED <<written, taken>>

\* The camera is back, or MediaMTX was launched again and has read its file.
Recovery ==
  /\ ~serving
  /\ serving' = TRUE
  /\ taken' \in {taken, written}
  /\ UNCHANGED <<vars, live, written, asked, outages>>

\* Importing settings renders mediamtx.yml with the password of the host.
ImportConfig ==
  /\ Outside
  /\ written' = HostPassword
  /\ UNCHANGED <<serving, taken>>

\* An open listener that is closed keeps the connections it has: only a
\* restart ends the views that came through it.
LanStep ==
  /\ Manage
  /\ asked + outages > 0 => Beside' <= MaxBeside
  /\ UNCHANGED gatewayVars

HostRestart ==
  /\ Restart
  /\ asked + outages > 0 => Beside' <= MaxBeside
  /\ slots' = HlsLimit
  /\ view' = [v \in Viewers |-> Away]
  /\ lost' = 0
  /\ written' = "installation" /\ taken' = "installation"
  /\ UNCHANGED <<serving, asked, outages>>

GatewayNext ==
  \/ LanStep \/ HostRestart
  \/ Outage \/ Recovery \/ ImportConfig
  \/ \E v \in Viewers : \/ Answer(v)
                        \/ \E door \in Doors, asset \in Assets : Ask(v, door, asset)

GatewaySpec == GatewayInit /\ [][GatewayNext]_allVars

\* The threads of the pools run, and every wait of the handler and of the
\* server has a timeout.
FairGateway == GatewaySpec /\ \A v \in Viewers : WF_allVars(Answer(v))

-----------------------------------------------------------------------------
(* What the gateway promises.                                              *)

Holding(v) == view[v].pc \in {"config", "fetch", "playlist", "segment", "head", "streaming"}
Holders    == {v \in Viewers : Holding(v)}

(* Every slot is free, held by a request under way, or lost in one of the  *)
(* two ways named here: an exception of load_config, and HEAD for a        *)
(* segment.  No other way out of live_media keeps its slot, and none gives *)
(* one back twice.                                                         *)
SlotsAccounted ==
  slots + Cardinality(Holders) + lost = HlsLimit

(* When all slots are taken, one comes back, unless they were all lost:    *)
(* viewers who go away, outages of MediaMTX, a LAN listener closed under a *)
(* stream or a restart do not shut the others out for good.                *)
SlotsComeBack == slots = 0 ~> slots > 0 \/ lost = HlsLimit

(* "/api/v1/live/<camera_id>/... authenticates every manifest and segment  *)
(* request ... and proxies from MediaMTX": what MediaMTX has, a viewer who *)
(* came through the gate gets.                                             *)
LiveViewServed == \A v \in Viewers : At(v, "refused") => view[v].asset = "gone"
=============================================================================
