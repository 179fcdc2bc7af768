------------------------------ MODULE MCOutbox ------------------------------
(***************************************************************************)
(* Outbox for TLC: two events, two workers, and a configuration with       *)
(* everything switched on (the proofs cover all configurations).  Workers  *)
(* are not declared symmetric because liveness is checked as well.         *)
(***************************************************************************)
EXTENDS Outbox

CONSTANTS w1, w2

MCConfigs == {[notifier |-> TRUE, storage |-> TRUE, clips |-> TRUE]}
=============================================================================
