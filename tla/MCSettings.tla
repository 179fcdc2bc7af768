----------------------------- MODULE MCSettings -----------------------------
(***************************************************************************)
(* Settings for TLC: two parallel requests, three saves, two new secrets.  *)
(***************************************************************************)
EXTENDS Settings, TLC

CONSTANTS web1, web2

Symmetry == Permutations(Requests)
=============================================================================
