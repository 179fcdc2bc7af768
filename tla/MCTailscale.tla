---------------------------- MODULE MCTailscale ----------------------------
(***************************************************************************)
(* Tailscale for TLC: two requests at once; one request after the other    *)
(* with a change of identity, a restart and an exception; one request and  *)
(* the reconciler, with an exception and without.                          *)
(***************************************************************************)
EXTENDS Tailscale

CONSTANTS web1, web2, loop, home, other

Pair == [threads |-> {web1, web2}, ids |-> {home},
         drifts |-> 1, outages |-> 1, restarts |-> 0, calls |-> 2, raises |-> 0]

One  == [threads |-> {web1}, ids |-> {home, other},
         drifts |-> 1, outages |-> 1, restarts |-> 1, calls |-> 3, raises |-> 1]

Loop == [threads |-> {web1, loop}, ids |-> {home, other},
         drifts |-> 1, outages |-> 1, restarts |-> 0, calls |-> 2, raises |-> 1]

MCScopes == {Pair, One, Loop}
MCRace   == {[Loop EXCEPT !.raises = 0]}
=============================================================================
