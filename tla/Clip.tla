-------------------------------- MODULE Clip --------------------------------
(***************************************************************************)
(* The clip of one event.  MediaMTX writes the stream to short segment     *)
(* files and deletes old ones; when a visit is confirmed the monitor       *)
(* queues a job for the moment the last segment of the window should be on *)
(* disk, and each attempt of the job stitches the segments it finds, or    *)
(* records the live stream from then on.  An attempt may be late, and one  *)
(* that fails afterwards is made again, with what is left on disk by then. *)
(*                                                                         *)
(* Time is in seconds; the second s lasts from s to s + 1, and footage is  *)
(* the set of seconds it shows.                                            *)
(***************************************************************************)
EXTENDS Integers, FiniteSets

CONSTANTS
  Configs,     \* the settings of the detection and of the recording
  Lookback,    \* 30 in the code: how long before the window a segment may start
  Headroom,    \* 30 in the code: kept beyond pre-roll and window
  Margin,      \* 1 in the code: waited beyond a segment's length
  BackoffCap,  \* 300 in the code
  MaxAttempts, \* 5 in the code
  RollSlack,   \* MediaMTX ends a segment at the key frame after its length
  Nothing,     \* no segment being written, no clip, no event yet
  ConfirmAt,   \* bound: when the visit may be confirmed
  MaxTime,     \* bound of the clock
  MaxDrops     \* bound: times the stream is lost

ASSUME ClipAssumption ==
  /\ Configs \subseteq [preRoll : Nat, post : Nat, segment : Nat \ {0}, kept : Nat]
  /\ {Lookback, Headroom, Margin, BackoffCap, RollSlack} \subseteq Nat
  /\ MaxAttempts \in Nat \ {0}
  /\ ConfirmAt \cup {MaxTime, MaxDrops} \subseteq Nat
  /\ Nothing \notin Int

VARIABLES
  cfg,
  now,
  writing,    \* when the segment being written began
  disk,       \* the finished segment files
  served,     \* history: the seconds the camera delivered
  confirmed,  \* the timestamp of the event
  job,
  worker,     \* where the attempt is, and when its live recording began
  clip,       \* what the attempt under way has produced
  drops

recording == <<writing, disk, served, drops>>
vars      == <<cfg, now, recording, confirmed, job, worker, clip>>

NoJob == [status |-> "absent", attempts |-> 0, runAt |-> 0]
Idle  == [pc |-> "idle", began |-> 0]

Larger(a, b)  == IF a >= b THEN a ELSE b
Smaller(a, b) == IF a <= b THEN a ELSE b

Init ==
  /\ cfg \in Configs
  /\ now = 0
  /\ writing \in {0, Nothing}
  /\ disk = {}
  /\ served = {}
  /\ confirmed = Nothing
  /\ job = NoJob
  /\ worker = Idle
  /\ clip = Nothing
  /\ drops = 0

-----------------------------------------------------------------------------
(* MediaMTX, as it is configured.                                          *)

Retention == Larger(cfg.kept, cfg.preRoll + cfg.post + Headroom)

Records == cfg.preRoll > 0 /\ writing # Nothing

(* A segment is never longer than this, so time waits for Roll.            *)
Overdue == Records /\ now - writing >= cfg.segment + RollSlack

Finished == IF Records /\ writing < now
            THEN disk \cup {[from |-> writing, to |-> now]} ELSE disk

Roll ==
  /\ Records
  /\ now - writing >= cfg.segment
  /\ disk' = Finished
  /\ writing' = now
  /\ UNCHANGED <<cfg, now, served, drops, confirmed, job, worker, clip>>

(* The camera or MediaMTX goes away; the segment ends early.               *)
Drop ==
  /\ writing # Nothing
  /\ drops < MaxDrops
  /\ drops' = drops + 1
  /\ disk' = Finished
  /\ writing' = Nothing
  /\ UNCHANGED <<cfg, now, served, confirmed, job, worker, clip>>

Resume ==
  /\ writing = Nothing
  /\ writing' = now
  /\ UNCHANGED <<cfg, now, disk, served, drops, confirmed, job, worker, clip>>

(* Old files go at some time after their retention has passed, the oldest  *)
(* first.                                                                  *)
Delete ==
  \E segment \in disk :
    /\ segment.from < now - Retention
    /\ \A other \in disk : segment.from <= other.from
    /\ disk' = disk \ {segment}
    /\ UNCHANGED <<cfg, now, writing, served, drops, confirmed, job, worker, clip>>

Tick ==
  /\ now < MaxTime
  /\ ~Overdue
  /\ now' = now + 1
  /\ served' = IF writing = Nothing THEN served ELSE served \cup {now}
  /\ UNCHANGED <<cfg, writing, disk, drops, confirmed, job, worker, clip>>

-----------------------------------------------------------------------------
(* The monitor.                                                            *)

(* Mutant: the job runs when the window has passed, as its last segment is *)
(* still being written.                                                    *)
RunAtWindowEnd(t) == t + cfg.post

RunAt(t) ==
  t + cfg.post + (IF cfg.preRoll > 0 THEN cfg.segment + Margin ELSE 0)

Confirm ==
  /\ confirmed = Nothing
  /\ now \in ConfirmAt
  /\ confirmed' = now
  /\ job' = [NoJob EXCEPT !.status = "pending", !.runAt = RunAt(now)]
  /\ UNCHANGED <<cfg, now, recording, worker, clip>>

-----------------------------------------------------------------------------
(* One attempt of the job.                                                 *)

WindowStart == confirmed - cfg.preRoll
WindowEnd   == confirmed + cfg.post
Window      == WindowStart .. WindowEnd - 1

Shown(segments) == UNION {s.from .. s.to - 1 : s \in segments}

First(segments) ==
  CHOOSE t \in {s.from : s \in segments} : \A s \in segments : t <= s.from

(* The file being written is found as well, but holds nothing to read yet. *)
Covering ==
  {s \in disk : s.from <= WindowEnd /\ s.from >= WindowStart - Lookback}

(* Mutant: the joined file is cut at its own start.                        *)
TrimNothing(segments) == 0

Trim(segments) == Larger(0, WindowStart - First(segments))

(* Mutant: the duration is taken for the end of the clip.                  *)
StitchedUntil(segments) ==
  LET joined   == Shown(segments)
      Place(t) == Cardinality({u \in joined : u < t})
  IN  {t \in joined : Place(t) \in Trim(segments) .. Cardinality(Window) - 1}

(* The files are joined without the gaps between them, and the trim and    *)
(* the duration are counted on the joined footage.                         *)
Stitched(segments) ==
  LET joined   == Shown(segments)
      Place(t) == Cardinality({u \in joined : u < t})
  IN  {t \in joined : Place(t) \in Trim(segments)
                                   .. Trim(segments) + Cardinality(Window) - 1}

Due ==
  worker.pc = "idle" /\ job.status \in {"pending", "retry"} /\ job.runAt <= now

Claim(pc) ==
  /\ job' = [job EXCEPT !.status = "running", !.attempts = @ + 1]
  /\ worker' = [pc |-> pc, began |-> now]
  /\ UNCHANGED <<cfg, now, recording, confirmed>>

BuildClipWithPreroll ==
  /\ Due
  /\ cfg.preRoll > 0
  /\ Covering # {}
  /\ Stitched(Covering) # {}
  /\ clip' = [kind |-> "stitched", at |-> now, segments |-> Covering,
              seconds |-> Stitched(Covering)]
  /\ Claim("send")

(* No segment, no output, or ffmpeg failed.                                *)
FallBack ==
  /\ Due
  /\ cfg.post > 0
  /\ clip' = Nothing
  /\ Claim("record")

MakeNoClip ==
  /\ Due
  /\ cfg.post = 0
  /\ clip' = Nothing
  /\ Claim("send")

(* It takes post seconds; ffmpeg may fail, or be cut off by its timeout.   *)
RecordClip ==
  /\ worker.pc = "record"
  /\ now >= worker.began + cfg.post
  /\ LET live == served \cap (worker.began .. worker.began + cfg.post - 1)
     IN  clip' \in {Nothing} \cup
           {[kind |-> "live", at |-> worker.began, segments |-> {}, seconds |-> s] :
               s \in {live} \ {{}}}
  /\ worker' = [worker EXCEPT !.pc = "send"]
  /\ UNCHANGED <<cfg, now, recording, confirmed, job>>

Finish ==
  /\ worker.pc = "send"
  /\ job' = [job EXCEPT !.status = "complete"]
  /\ worker' = Idle
  /\ clip' = Nothing
  /\ UNCHANGED <<cfg, now, recording, confirmed>>

Terminal == job.attempts >= MaxAttempts

(* The notification or the upload failed.                                  *)
Retry ==
  /\ worker.pc = "send"
  /\ job' = [job EXCEPT !.status = IF Terminal THEN "failed" ELSE "retry",
                        !.runAt = now + Smaller(BackoffCap, 2^job.attempts)]
  /\ worker' = Idle
  /\ clip' = Nothing
  /\ UNCHANGED <<cfg, now, recording, confirmed>>

-----------------------------------------------------------------------------
(* Bound: a behaviour ends when the job is settled; what is recorded later *)
(* concerns other events.                                                  *)
Next ==
  /\ job.status \notin {"complete", "failed"}
  /\ \/ Roll \/ Drop \/ Resume \/ Delete \/ Tick
     \/ Confirm
     \/ BuildClipWithPreroll \/ FallBack \/ MakeNoClip \/ RecordClip
     \/ Finish \/ Retry

Spec == Init /\ [][Next]_vars

-----------------------------------------------------------------------------
(* Properties.                                                             *)

(* Every variable keeps its type; the files on disk do not overlap, and    *)
(* the job of finalize_event is not tried more often than allowed.         *)
TypeOK ==
  /\ cfg \in Configs
  /\ now \in 0 .. MaxTime
  /\ writing \in (0 .. now) \cup {Nothing}
  /\ \A s \in disk : s.from < s.to /\ s.to <= now /\ s.from .. s.to - 1 \subseteq served
  /\ \A s, t \in disk : s # t => s.to <= t.from \/ t.to <= s.from
  /\ confirmed \in (0 .. now) \cup {Nothing}
  /\ job.status \in {"absent", "pending", "running", "retry", "complete", "failed"}
  /\ job.attempts \in 0 .. MaxAttempts
  /\ worker.pc \in {"idle", "record", "send"}
  /\ worker.pc # "idle" <=> job.status = "running"
  /\ clip # Nothing => clip.kind \in {"stitched", "live"} /\ clip.seconds \subseteq served

IsStitched == clip # Nothing /\ clip.kind = "stitched"

(* An attempt of run_at or soon after, over a recording without a gap from *)
(* the look-back to the end of the window, stitches the window exactly:    *)
(* its last segment is finished, its first one is neither missed by        *)
(* find_segments_covering nor deleted by the retention bridge.py sets.     *)
(* "Soon" is what the headroom leaves after two segments; segments longer  *)
(* than the look-back, or that end later than the margin waits for, are    *)
(* excluded.                                                               *)
Grace == Headroom + 1 - 2 * cfg.segment - RollSlack - Margin

WholeWhenPrompt ==
  /\ IsStitched
  /\ clip.at <= RunAt(confirmed) + Grace
  /\ cfg.segment + RollSlack <= Lookback /\ RollSlack <= Margin
  /\ WindowStart - Lookback .. WindowEnd - 1 \subseteq served
  => clip.seconds = Window

(* However late the attempt and whatever the gaps, the stitched clip shows *)
(* nothing from before the pre-roll and ends within a segment of the       *)
(* window: the trim is never short, the last segment never a later one.    *)
InWindow ==
  IsStitched =>
    clip.seconds \subseteq WindowStart .. WindowEnd + cfg.segment + RollSlack - 1

(* What build_clip_with_preroll leaves out of the footage it found: at     *)
(* most as many wanted seconds as were missing between its first segment   *)
(* and the window, for trim_offset counts them as if they were there.      *)
GapCost ==
  IsStitched =>
    LET found   == Shown(clip.segments)
        missing == (First(clip.segments) .. WindowStart - 1) \ found
    IN  Cardinality((found \cap Window) \ clip.seconds) <= Cardinality(missing)
=============================================================================
