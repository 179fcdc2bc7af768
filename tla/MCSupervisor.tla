---------------------------- MODULE MCSupervisor ----------------------------
(***************************************************************************)
(* Supervisor for TLC: two of the children in the order _build_specs makes *)
(* them, one that only the loop starts, with a readiness probe, and the    *)
(* monitor; jobs, the third, is one without a probe.                       *)
(***************************************************************************)
EXTENDS Supervisor

CONSTANTS mediamtx, monitor, r1, r2

MCOrder == <<mediamtx, monitor>>
=============================================================================
