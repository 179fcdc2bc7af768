----------------------------- MODULE MCGateway -----------------------------
(***************************************************************************)
(* Instances of Gateway for TLC: two threads for the requests to the LAN   *)
(* manager and two for viewers.                                            *)
(***************************************************************************)
EXTENDS Gateway

CONSTANTS web1, web2, lan, wifi, v1, v2
=============================================================================
