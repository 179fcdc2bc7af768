------------------------------ MODULE Detection ------------------------------
(***************************************************************************)
(* The monitor worker's detection loop (poll_stream): each poll captures a *)
(* frame, diffs it with the last thumbnail, consults the vision model if   *)
(* the engine asks for it, and debounces the verdicts into alerts.  All    *)
(* the loop's state is local to the worker process, so a restarted worker  *)
(* starts with none of it.                                                 *)
(*                                                                         *)
(* Frames are members of Scenes, and Differ holds the pairs of scenes      *)
(* whose thumbnails differ by at least the motion threshold.  polls,       *)
(* scores, alerts and since are history variables: no guard reads them,    *)
(* except the bound MaxPolls on the length of a modelled behaviour.        *)
(***************************************************************************)
EXTENDS Integers, Sequences

CONSTANTS
  ConsecutiveRequired, \* detection.consecutive_required
  RearmAfter,          \* detection.rearm_after_negative_polls
  MinConfidence,       \* detection.min_confidence, in tenths
  Confidences,         \* what the vision model may answer
  Full,                \* the confidence 1.0 of a motion verdict
  Scenes,              \* what the camera may see
  NoThumb,             \* no thumbnail: nothing yet, or a frame ffmpeg rejects
  Differ,              \* pairs of scenes at or above the motion threshold
  MaxPolls             \* bound: evaluated polls in a behaviour

ASSUME DetectionAssumption ==
  /\ ConsecutiveRequired \in Nat
  /\ RearmAfter \in Nat
  /\ MaxPolls \in Nat
  /\ Confidences \subseteq Nat
  /\ Full \in Nat
  /\ MinConfidence \in Nat
  /\ NoThumb \notin Scenes
  /\ Differ \subseteq Scenes \X Scenes

Quiet == IF RearmAfter > 1 THEN RearmAfter ELSE 1

Engines == {"motion", "ollama", "hybrid"}

VARIABLES
  config,       \* the engine and the gating switch, read when a worker starts
  prevThumb,
  streak,
  alreadyFired,
  negPolls,     \* negative_polls_since_event
  bestConfidence,
  yielded,      \* the confidence of the last FeedingEvent
  polls, scores, alerts, since  \* history: verdicts, their confidences, alerts

locals  == <<streak, alreadyFired, negPolls, bestConfidence>>
history == <<polls, scores, alerts, since>>
vars    == <<config, prevThumb, locals, yielded, history>>

Larger(a, b) == IF a >= b THEN a ELSE b

Init ==
  /\ config \in [engine : Engines, gating : BOOLEAN]
  /\ prevThumb = NoThumb
  /\ streak = 0
  /\ alreadyFired = FALSE
  /\ negPolls = 0
  /\ bestConfidence = 0
  /\ yielded = 0
  /\ polls = <<>>
  /\ scores = <<>>
  /\ alerts = {}
  /\ since = 0

-----------------------------------------------------------------------------
(* Motion.                                                                 *)

(* The command line builds a motion detector for these settings only.      *)
HasMotion == config.engine \in {"motion", "hybrid"} \/ config.gating

(* A frame without a baseline, or without a thumbnail, has not moved.      *)
Moved(thumb) == <<prevThumb, thumb>> \in Differ

NextBaseline(thumb) ==
  IF HasMotion /\ thumb # NoThumb THEN thumb ELSE prevThumb

Gated(thumb) ==
  /\ config.engine # "motion"
  /\ HasMotion
  /\ config.gating
  /\ ~Moved(thumb)

-----------------------------------------------------------------------------
(* The debounce at the end of every evaluated poll.                        *)

(* Mutant: isolated negatives of one visit add up.                         *)
SameVisitKeepsNegatives ==
  UNCHANGED <<negPolls, streak, alreadyFired, bestConfidence, yielded, alerts>>

SameVisit ==
  /\ negPolls' = 0
  /\ UNCHANGED <<streak, alreadyFired, bestConfidence, yielded, alerts>>

(* Mutant: one positive poll more than configured.                         *)
ReachedLate(n) == n > ConsecutiveRequired

Reached(n) == n >= ConsecutiveRequired

CountPositive(confidence) ==
  /\ negPolls' = 0
  /\ streak' = streak + 1
  /\ bestConfidence' = Larger(bestConfidence, confidence)
  /\ UNCHANGED <<alreadyFired, yielded, alerts>>

Fire(confidence) ==
  /\ negPolls' = 0
  /\ streak' = streak + 1
  /\ bestConfidence' = Larger(bestConfidence, confidence)
  /\ alreadyFired' = TRUE
  /\ yielded' = bestConfidence'
  /\ alerts' = alerts \cup {Len(polls')}

StayInVisit ==
  /\ negPolls' = negPolls + 1
  /\ UNCHANGED <<streak, alreadyFired, bestConfidence, yielded, alerts>>

(* Mutant: a reset forgotten when the visit ends.                          *)
RearmKeepsConfidence ==
  /\ negPolls' = IF alreadyFired THEN negPolls + 1 ELSE negPolls
  /\ streak' = 0
  /\ alreadyFired' = FALSE
  /\ UNCHANGED <<bestConfidence, yielded, alerts>>

Rearm ==
  /\ negPolls' = IF alreadyFired THEN negPolls + 1 ELSE negPolls
  /\ streak' = 0
  /\ alreadyFired' = FALSE
  /\ bestConfidence' = 0
  /\ UNCHANGED <<yielded, alerts>>

Debounce(positive, confidence) ==
  /\ polls' = Append(polls, positive)
  /\ scores' = Append(scores, IF positive THEN confidence ELSE 0)
  /\ UNCHANGED since
  /\ \/ positive /\ alreadyFired /\ SameVisit
     \/ positive /\ ~alreadyFired /\ ~Reached(streak + 1)
                 /\ CountPositive(confidence)
     \/ positive /\ ~alreadyFired /\ Reached(streak + 1)
                 /\ Fire(confidence)
     \/ ~positive /\ alreadyFired /\ negPolls + 1 < Quiet /\ StayInVisit
     \/ ~positive /\ (alreadyFired => negPolls + 1 >= Quiet) /\ Rearm

-----------------------------------------------------------------------------
(* The polls.  A failed poll ends the iteration before the debounce.       *)

CaptureFailed ==
  /\ UNCHANGED <<config, prevThumb, locals, yielded, history>>

ModelUnreachable(thumb) ==
  /\ config.engine # "motion"
  /\ ~Gated(thumb)
  /\ prevThumb' = NextBaseline(thumb)
  /\ UNCHANGED <<config, locals, yielded, history>>

PollMotion(thumb) ==
  /\ Len(polls) < MaxPolls
  /\ config.engine = "motion"
  /\ prevThumb' = NextBaseline(thumb)
  /\ Debounce(Moved(thumb), IF Moved(thumb) THEN Full ELSE 0)
  /\ UNCHANGED config

PollGated(thumb) ==
  /\ Len(polls) < MaxPolls
  /\ Gated(thumb)
  /\ prevThumb' = NextBaseline(thumb)
  /\ Debounce(FALSE, 0)
  /\ UNCHANGED config

(* What _parse makes of a reply: without a number it can read, 0.          *)
Parsed == Confidences \cup {0}

(* The verdict on a model's answer: hybrid wants motion as well.           *)
Verdict(thumb, feeding, confidence) ==
  /\ feeding
  /\ confidence >= MinConfidence
  /\ config.engine = "hybrid" => Moved(thumb)

PollModel(thumb, feeding, confidence) ==
  /\ Len(polls) < MaxPolls
  /\ config.engine # "motion"
  /\ ~Gated(thumb)
  /\ prevThumb' = NextBaseline(thumb)
  /\ Debounce(Verdict(thumb, feeding, confidence), confidence)
  /\ UNCHANGED config

(* The worker ends (a crash, or monitoring switched off and on) and the    *)
(* supervisor starts another, which loads the configuration afresh.        *)
WorkerRestart ==
  /\ config' \in [engine : Engines, gating : BOOLEAN]
  /\ prevThumb' = NoThumb
  /\ streak' = 0
  /\ alreadyFired' = FALSE
  /\ negPolls' = 0
  /\ bestConfidence' = 0
  /\ since' = Len(polls)
  /\ UNCHANGED <<yielded, polls, scores, alerts>>

Poll ==
  \/ CaptureFailed
  \/ \E thumb \in Scenes \cup {NoThumb} :
        \/ ModelUnreachable(thumb)
        \/ PollMotion(thumb)
        \/ PollGated(thumb)
        \/ \E feeding \in BOOLEAN, confidence \in Parsed :
              PollModel(thumb, feeding, confidence)

Next == Poll \/ WorkerRestart

Spec == Init /\ [][Next]_vars

-----------------------------------------------------------------------------
(* Properties.                                                             *)

V == INSTANCE VisitAlerts WITH
       ConsecutiveRequired <- ConsecutiveRequired, RearmAfter <- RearmAfter,
       polls <- polls, alerts <- alerts, since <- since

(* The counters stay within their limits: the streak never passes the      *)
(* configured requirement, the negatives never pass the re-arm setting.    *)
TypeOK ==
  /\ config \in [engine : Engines, gating : BOOLEAN]
  /\ prevThumb \in Scenes \cup {NoThumb}
  /\ streak \in 0 .. V!Support
  /\ alreadyFired \in BOOLEAN
  /\ negPolls \in 0 .. Quiet
  /\ bestConfidence \in Nat
  /\ yielded \in Nat
  /\ scores \in Seq(Nat)
  /\ Len(scores) = Len(polls)
  /\ V!TypeOK

(* poll_stream's counters decide exactly what VisitAlerts decides from the *)
(* whole history of verdicts.                                              *)
RefinesVisitAlerts == V!Spec

(* A visit is alerted once: two alerts of one worker are separated by      *)
(* Quiet negative polls in a row, whatever single bad frames there are,    *)
(* and a visit that shows in Support positive polls in a row is alerted by *)
(* the last of them at the latest.                                         *)
OneAlertPerVisit ==
  /\ \A a, b \in alerts : since < a /\ a < b =>
        V!Quieted(a, SubSeq(polls, 1, b))
  /\ \A b \in 1 .. Len(polls) :
        LET seen == SubSeq(polls, 1, b) IN
        V!Confirmed(seen, since) =>
           \E a \in alerts : since < a /\ a <= b /\ ~V!Quieted(a, seen)

(* An alert carries the highest confidence of the Support positive polls   *)
(* that raised it, and nothing of an earlier visit.                        *)
AlertConfidence ==
  Len(polls) \in alerts /\ since < Len(polls) =>
     LET window == (Len(polls) - V!Support + 1) .. Len(polls) IN
     /\ \A i \in window : yielded >= scores[i]
     /\ \E i \in window : yielded = scores[i]
=============================================================================
