----------------------------- MODULE VisitAlerts -----------------------------
(***************************************************************************)
(* What the monitor promises its owner, without any bookkeeping: one       *)
(* alert per visit of the animal.  The only state is the history of poll   *)
(* verdicts, the positions at which an alert was raised, and the position  *)
(* at which the running worker started.  A poll raises an alert exactly    *)
(* when the last Support verdicts of this worker are all positive and no   *)
(* earlier alert of this worker is still waiting for Quiet negative        *)
(* verdicts in a row.  Detection implements this with three local counters *)
(* and never looks back at the history.                                    *)
(***************************************************************************)
EXTENDS Integers, Sequences

CONSTANTS
  ConsecutiveRequired,  \* detection.consecutive_required
  RearmAfter            \* detection.rearm_after_negative_polls

(* The first positive poll already satisfies a requirement of 0 or 1, and  *)
(* a re-arm setting of 0 is read as 1.                                     *)
Support == IF ConsecutiveRequired > 1 THEN ConsecutiveRequired ELSE 1
Quiet   == IF RearmAfter > 1 THEN RearmAfter ELSE 1

VARIABLES
  polls,    \* the verdicts so far: TRUE for a positive poll
  alerts,   \* the positions in polls at which an alert was raised
  since     \* Len(polls) when the present worker started

visitVars == <<polls, alerts, since>>

(* The last Support verdicts belong to this worker and are all positive.   *)
Confirmed(ps, from) ==
  /\ Len(ps) - Support >= from
  /\ \A i \in (Len(ps) - Support + 1) .. Len(ps) : ps[i]

(* After position a, Quiet negative verdicts came in a row.                *)
Quieted(a, ps) ==
  \E q \in (a + Quiet) .. Len(ps) : \A i \in (q - Quiet + 1) .. q : ~ps[i]

InVisit(ps, as, from) ==
  \E a \in as : a > from /\ ~Quieted(a, ps)

TypeOK ==
  /\ polls \in Seq(BOOLEAN)
  /\ alerts \subseteq 1 .. Len(polls)
  /\ since \in 0 .. Len(polls)

Init ==
  /\ polls = <<>>
  /\ alerts = {}
  /\ since = 0

Observe(positive) ==
  /\ polls' = Append(polls, positive)
  /\ alerts' = IF Confirmed(polls', since) /\ ~InVisit(polls', alerts, since)
               THEN alerts \cup {Len(polls')}
               ELSE alerts
  /\ UNCHANGED since

Restart ==
  /\ since' = Len(polls)
  /\ UNCHANGED <<polls, alerts>>

Next ==
  \/ \E positive \in BOOLEAN : Observe(positive)
  \/ Restart

Spec == Init /\ [][Next]_visitVars
=============================================================================
