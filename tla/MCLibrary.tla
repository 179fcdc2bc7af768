------------------------------ MODULE MCLibrary ------------------------------
(***************************************************************************)
(* Library for TLC: with and without a pre-roll and a window after the     *)
(* event, over segments of two seconds (three with the key frame late).  A *)
(* behaviour has one interruption of the recording, one pruning, or one    *)
(* clip of another event.                                                  *)
(***************************************************************************)
EXTENDS Library

MCConfigs ==
  {[preRoll |-> pre, post |-> post, segment |-> 2, kept |-> 1] :
      pre \in {0, 1}, post \in {0, 1}}
=============================================================================
