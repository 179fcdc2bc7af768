----------------------------- MODULE MCMonitor -----------------------------
(***************************************************************************)
(* Monitor for TLC: two scenes that differ, one confidence below the       *)
(* threshold (0, of a reply that cannot be read) and two above,            *)
(* requirements of two polls in both directions, and a restart policy      *)
(* whose numbers keep the order of the code's: the quick exits fit into    *)
(* one long delay, and two long delays into the window.                    *)
(***************************************************************************)
EXTENDS Monitor

CONSTANTS empty, cat

MCDiffer == {<<empty, cat>>, <<cat, empty>>}
=============================================================================
