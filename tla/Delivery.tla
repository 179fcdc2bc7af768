------------------------------ MODULE Delivery ------------------------------
(***************************************************************************)
(* What the outbox promises of every detected event, with no tables, jobs, *)
(* workers or clock: the event is accepted once, its goods are delivered   *)
(* while it is pending, and it is settled once and for good; it is         *)
(* settled as complete only when everything the attempt at hand was asked  *)
(* for has been delivered.  Outbox implements this with two tables and     *)
(* any number of workers that retry and die.                               *)
(***************************************************************************)
CONSTANTS
  Events,
  Goods       \* what may be delivered for an event

VARIABLES
  outcome,    \* of each event: absent, pending, complete or failed
  asked,      \* the goods the attempt at hand has to deliver
  delivered   \* the goods delivered so far, by any attempt

deliveryVars == <<outcome, asked, delivered>>

TypeOK ==
  /\ outcome \in [Events -> {"absent", "pending", "complete", "failed"}]
  /\ asked \in [Events -> SUBSET Goods]
  /\ delivered \in [Events -> SUBSET Goods]

Init ==
  /\ outcome = [e \in Events |-> "absent"]
  /\ asked = [e \in Events |-> {}]
  /\ delivered = [e \in Events |-> {}]

Accept(e) ==
  /\ outcome[e] = "absent"
  /\ outcome' = [outcome EXCEPT ![e] = "pending"]
  /\ UNCHANGED <<asked, delivered>>

\* An attempt begins, learns what is asked of it, or is abandoned.
Attempt(e, goods) ==
  /\ outcome[e] = "pending"
  /\ asked' = [asked EXCEPT ![e] = goods]
  /\ UNCHANGED <<outcome, delivered>>

Deliver(e, good) ==
  /\ outcome[e] = "pending"
  /\ good \in asked[e]
  /\ delivered' = [delivered EXCEPT ![e] = @ \cup {good}]
  /\ UNCHANGED <<outcome, asked>>

Complete(e) ==
  /\ outcome[e] = "pending"
  /\ asked[e] \subseteq delivered[e]
  /\ outcome' = [outcome EXCEPT ![e] = "complete"]
  /\ asked' = [asked EXCEPT ![e] = {}]
  /\ UNCHANGED delivered

GiveUp(e) ==
  /\ outcome[e] = "pending"
  /\ outcome' = [outcome EXCEPT ![e] = "failed"]
  /\ asked' = [asked EXCEPT ![e] = {}]
  /\ UNCHANGED delivered

Next ==
  \E e \in Events :
     \/ Accept(e)
     \/ \E goods \in SUBSET Goods : Attempt(e, goods)
     \/ \E good \in Goods : Deliver(e, good)
     \/ Complete(e)
     \/ GiveUp(e)

Spec == Init /\ [][Next]_deliveryVars
=============================================================================
