------------------------------- MODULE MCHost -------------------------------
(***************************************************************************)
(* Host for TLC: the service alone with two faults, with backups and       *)
(* restores, and beside a host started by hand.                            *)
(***************************************************************************)
EXTENDS Host

CONSTANTS service, ui

MCScopes == {[hosts |-> {service}, faults |-> 2, backups |-> FALSE],
             [hosts |-> {service}, faults |-> 1, backups |-> TRUE],
             [hosts |-> Hosts, faults |-> 1, backups |-> FALSE]}
=============================================================================
