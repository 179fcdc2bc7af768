------------------------------- MODULE Library -------------------------------
(***************************************************************************)
(* The clips on disk.  An attempt of the job of Clip writes a file, notes  *)
(* it with its digest in media_files, and hands it to the storage; the     *)
(* next attempt writes over it.  A stitched clip is named by the second    *)
(* its event was confirmed in, a live one by the second it began in, so    *)
(* two events can come to one name.  The jobs of other events run on the   *)
(* same worker, one after the other, and the owner may prune at any time.  *)
(***************************************************************************)
EXTENDS Clip, Sequences

CONSTANT MaxMeddling   \* bound: prunings and clips of other events

ASSUME MeddlingAssumption ==
  /\ MaxMeddling \in Nat
  /\ Nothing \notin [name : Nat, digest : SUBSET Int]

VARIABLES
  files,     \* what the file of each name shows, or Nothing
  row,       \* the newest row of the event in media_files
  exported,  \* what the storage has for the event
  stage,     \* how far the clip of the latest attempt has come
  idle,      \* since when the worker has not worked for this event
  meddled    \* history: what others did to the clips, in order

library == <<files, row, exported, stage, idle, meddled>>
allVars == <<vars, library>>

\* Footage of another event is the second -1; a file that ffmpeg did not
\* finish shows nothing.
Foreign == {-1}
Broken  == {}

LibraryInit ==
  /\ Init
  /\ files = [name \in 0 .. MaxTime |-> Nothing]
  /\ row = Nothing
  /\ exported = Nothing
  /\ stage = "none"
  /\ idle = 0
  /\ meddled = <<>>

Holds(name, footage) == files' = [files EXCEPT ![name] = footage]

-----------------------------------------------------------------------------
(* The file of an attempt.                                                 *)

\* ffmpeg opens its output with -y, so an attempt to stitch that fails may
\* have broken what an earlier one made.
Attempted ==
  {files} \cup (IF cfg.preRoll > 0 /\ Covering # {}
                THEN {[files EXCEPT ![confirmed] = Broken]} ELSE {})

StitchFile ==
  /\ BuildClipWithPreroll
  /\ Holds(confirmed, clip'.seconds)
  /\ stage' = "made"
  /\ UNCHANGED <<row, exported, idle, meddled>>

StartLive ==
  /\ FallBack
  /\ files' \in {[f EXCEPT ![now] = Broken] : f \in Attempted}
  /\ stage' = "none"
  /\ UNCHANGED <<row, exported, idle, meddled>>

\* A recording whose file has been moved away does not find it afterwards.
EndLive ==
  /\ RecordClip
  /\ LET name == worker.began IN
     \/ clip' # Nothing /\ files[name] # Nothing /\ Holds(name, clip'.seconds)
     \/ clip' = Nothing /\ UNCHANGED files
  /\ stage' = IF clip' = Nothing THEN "none" ELSE "made"
  /\ UNCHANGED <<row, exported, idle, meddled>>

NoFile ==
  /\ MakeNoClip
  /\ files' \in Attempted
  /\ stage' = "none"
  /\ UNCHANGED <<row, exported, idle, meddled>>

-----------------------------------------------------------------------------
(* The row and the storage.                                                *)

Name == IF clip.kind = "stitched" THEN confirmed ELSE clip.at

Beside == UNCHANGED <<vars, files, idle, meddled>>

(* Mutant: a clip that has a row already gets no other.                    *)
AddMediaOnce ==
  /\ worker.pc = "send" /\ stage = "made"
  /\ files[Name] # Nothing
  /\ row' = IF row # Nothing THEN row ELSE [name |-> Name, digest |-> files[Name]]
  /\ stage' = "noted"
  /\ UNCHANGED exported /\ Beside

\* The file is read for its digest: without it the attempt fails.
AddMedia ==
  /\ worker.pc = "send" /\ stage = "made"
  /\ files[Name] # Nothing
  /\ row' = [name |-> Name, digest |-> files[Name]]
  /\ stage' = "noted"
  /\ UNCHANGED exported /\ Beside

\* The storage as it is configured now: none, the folder the clip is in
\* already, at which nobody looks, or a place it is copied to.
UploadClip ==
  /\ worker.pc = "send" /\ stage = "noted"
  /\ \/ stage' = "kept" /\ UNCHANGED exported
     \/ files[Name] # Nothing /\ exported' = files[Name] /\ stage' = "exported"
  /\ UNCHANGED row /\ Beside

Settle ==
  /\ \/ Finish /\ stage \in {"none", "kept", "exported"}
     \/ Retry
  /\ idle' = now
  /\ UNCHANGED <<files, row, exported, stage, meddled>>

-----------------------------------------------------------------------------
(* Everybody else.                                                         *)

\* Bound: others stitch under the names the event has files of; what they leave
\* under another name, an attempt that comes to that name overwrites.
Present == {name \in DOMAIN files : files[name] # Nothing}

Meddle(what) ==
  /\ Len(meddled) + drops < MaxMeddling
  /\ meddled' = Append(meddled, what)
  /\ UNCHANGED <<vars, row, exported, stage, idle>>

\* The clips are moved to the archive; the rows stay.
Prune ==
  /\ Present # {}
  /\ Meddle("pruned")
  /\ files' = [name \in DOMAIN files |-> Nothing]

\* Another event, confirmed in another second, has its clip stitched.
OtherStitched(at) ==
  /\ worker.pc = "idle"
  /\ cfg.preRoll > 0 /\ at # confirmed /\ RunAt(at) <= now
  /\ Meddle(IF row # Nothing /\ row.name = at THEN "collided" ELSE "other")
  /\ Holds(at, Foreign)

\* Or recorded, which took the worker as long as it does here.
OtherLive(began) ==
  /\ worker.pc = "idle"
  /\ cfg.post > 0 /\ job.attempts > 0 /\ began + cfg.post <= now
  /\ Meddle("other")
  /\ Holds(began, Foreign)

\* Bound: no time passes while a clip is stored.  Nothing here reads the
\* clock then, and the next attempt may be as late as it likes.
Recording ==
  /\ worker.pc # "send"
  /\ Roll \/ Drop \/ Resume \/ Delete \/ Tick \/ Confirm
  /\ Len(meddled) + drops' <= MaxMeddling

Underway == job.status \notin {"complete", "failed"}

LibraryNext ==
  \/ /\ Underway
     /\ \/ Recording /\ UNCHANGED library
        \/ StitchFile \/ StartLive \/ EndLive \/ NoFile
        \/ AddMedia \/ UploadClip \/ Settle
  \/ Prune
  \/ \E at \in Present : OtherStitched(at)
  \/ \E began \in idle .. now : OtherLive(began)

LibrarySpec == LibraryInit /\ [][LibraryNext]_allVars

-----------------------------------------------------------------------------
(* What is promised of the file.                                           *)

Did(what) == \E i \in 1 .. Len(meddled) : meddled[i] = what

(* When the job is complete and its last attempt made a clip, the newest   *)
(* row describes that clip and no earlier one; a storage elsewhere was     *)
(* given the same, although the owner may have pruned in between; and the  *)
(* file shows it until the owner prunes, or another event was confirmed in *)
(* the very second in which its live recording began (add_media,           *)
(* upload_clip, the names of clip.py).                                     *)
ClipKept ==
  /\ job.status = "complete" /\ stage \in {"kept", "exported"}
  => /\ stage = "exported" => exported = row.digest
     /\ Did("pruned") \/ Did("collided") \/ files[row.name] = row.digest
=============================================================================
