------------------------------ MODULE Clip_proofs ------------------------------
(***************************************************************************)
(* The type invariant of Clip, for any settings, clock and number of       *)
(* interruptions: segment files do not overlap and show only what the      *)
(* camera delivered, and so does every clip.  Two facts of a stitched      *)
(* clip, however late it is made and whatever is missing: where its        *)
(* footage can lie, and how much of the window it can leave out.  And that *)
(* it is the window when it is made in time and nothing is missing: what   *)
(* was served is on disk, being written, or gone, the oldest first.        *)
(*                                                                         *)
(* Of Library: that it implements Clip, and that what is noted of a clip,  *)
(* handed to the storage and left on disk is the last attempt's.           *)
(***************************************************************************)
EXTENDS Library, FiniteSetTheorems, WellFoundedInduction, TLAPS

(* What MediaMTX has written down: files end where the next one begins.    *)
Recorded ==
  /\ cfg \in Configs
  /\ now \in 0 .. MaxTime
  /\ served \subseteq Int
  /\ writing \in (0 .. now) \cup {Nothing}
  /\ writing # Nothing => writing .. now - 1 \subseteq served

FilesApart ==
  /\ disk \subseteq [from : Nat, to : Nat]
  /\ \A s \in disk : s.from < s.to /\ s.to <= now /\ s.from .. s.to - 1 \subseteq served
  /\ \A s, t \in disk : s # t => s.to <= t.from \/ t.to <= s.from
  /\ writing # Nothing => \A s \in disk : s.to <= writing

JobTyped ==
  /\ confirmed \in (0 .. now) \cup {Nothing}
  /\ confirmed = Nothing => job.status = "absent"
  /\ job = [status |-> job.status, attempts |-> job.attempts, runAt |-> job.runAt]
  /\ job.status \in {"absent", "pending", "running", "retry", "complete", "failed"}
  /\ job.attempts \in 0 .. MaxAttempts
  /\ job.status \in {"absent", "pending", "retry"} => job.attempts < MaxAttempts
  /\ worker \in [pc : {"idle", "record", "send"}, began : Nat]
  /\ worker.pc # "idle" <=> job.status = "running"

ClipTyped ==
  clip # Nothing => clip.kind \in {"stitched", "live"} /\ clip.seconds \subseteq served

Inv == Recorded /\ FilesApart /\ JobTyped /\ ClipTyped

LEMMA InvTyped == Inv => TypeOK
BY DEF Inv, Recorded, FilesApart, JobTyped, ClipTyped, TypeOK

LEMMA InitInv == Init => Inv
BY ClipAssumption
DEF ClipAssumption, Init, Inv, Recorded, FilesApart, JobTyped, ClipTyped, NoJob, Idle

(* The file that a segment becomes lies behind all others.                 *)
LEMMA FinishedApart ==
  ASSUME Recorded, FilesApart, writing # Nothing
  PROVE  /\ Finished \subseteq [from : Nat, to : Nat]
         /\ \A s \in Finished :
              s.from < s.to /\ s.to <= now /\ s.from .. s.to - 1 \subseteq served
         /\ \A s, t \in Finished : s # t => s.to <= t.from \/ t.to <= s.from
<1>1. writing \in Nat /\ now \in Nat /\ writing <= now
  BY DEF Recorded
<1>2. CASE Finished = disk
  BY <1>2 DEF FilesApart
<1>3. CASE Records /\ writing < now
  <2> DEFINE new == [from |-> writing, to |-> now]
  <2>1. Finished = disk \cup {new}
    BY <1>3 DEF Finished
  <2>2. new \in [from : Nat, to : Nat] /\ new.from = writing /\ new.to = now
    BY <1>1
  <2>3. new.from .. new.to - 1 \subseteq served
    BY <2>2 DEF Recorded
  <2> HIDE DEF new
  <2> QED
    BY <1>1, <1>3, <2>1, <2>2, <2>3 DEF FilesApart
<1> QED
  BY <1>2, <1>3 DEF Finished

(* Files show what was served, and the clip is cut from them.              *)
LEMMA StitchedServed ==
  ASSUME FilesApart PROVE Stitched(Covering) \subseteq served
BY DEF FilesApart, Stitched, Covering, Shown

-----------------------------------------------------------------------------
LEMMA RecordingStep ==
  ASSUME Inv, Roll \/ Drop \/ Resume \/ Delete \/ Tick
  PROVE  Inv'
<1> USE DEF Inv
<1>1. CASE Roll \/ Drop
  <2>1. writing # Nothing
    BY <1>1 DEF Roll, Drop, Records
  <2>2. /\ disk' = Finished /\ writing' \in {now, Nothing}
        /\ UNCHANGED <<cfg, now, served, confirmed, job, worker, clip>>
    BY <1>1 DEF Roll, Drop
  <2>3. FilesApart'
    BY <2>1, <2>2, FinishedApart DEF FilesApart
  <2>4. Recorded'
    BY <2>2, ClipAssumption DEF ClipAssumption, Recorded
  <2> QED
    BY <2>2, <2>3, <2>4 DEF JobTyped, ClipTyped
<1>2. CASE Resume
  <2>1. FilesApart'
    BY <1>2 DEF Resume, Recorded, FilesApart
  <2>2. Recorded'
    BY <1>2, ClipAssumption DEF ClipAssumption, Resume, Recorded
  <2> QED
    BY <1>2, <2>1, <2>2 DEF Resume, JobTyped, ClipTyped
<1>3. CASE Delete
  <2>1. /\ disk' \subseteq disk
        /\ UNCHANGED <<cfg, now, writing, served, drops, confirmed, job, worker, clip>>
    BY <1>3 DEF Delete
  <2> QED
    BY <2>1 DEF Recorded, FilesApart, JobTyped, ClipTyped
<1>4. CASE Tick
  <2>1. /\ now' = now + 1 /\ now < MaxTime
        /\ served \subseteq served' /\ served' \subseteq served \cup {now}
        /\ writing # Nothing => now \in served'
        /\ UNCHANGED <<cfg, writing, disk, drops, confirmed, job, worker, clip>>
    BY <1>4 DEF Tick
  <2>2. Recorded'
    BY <2>1, ClipAssumption DEF ClipAssumption, Recorded
  <2>3. FilesApart'
    <3>1. \A s \in disk : s.to <= now' /\ s.from .. s.to - 1 \subseteq served'
      BY <2>1 DEF FilesApart, Recorded
    <3> QED
      BY <2>1, <3>1 DEF FilesApart
  <2>4. JobTyped'
    BY <2>1 DEF Recorded, JobTyped
  <2>5. ClipTyped'
    BY <2>1 DEF ClipTyped
  <2> QED
    BY <2>2, <2>3, <2>4, <2>5
<1> QED
  BY <1>1, <1>2, <1>3, <1>4

(* The monitor and the job leave the recording alone.                      *)
LEMMA RecordingKept ==
  ASSUME Inv, UNCHANGED <<cfg, now, recording>>
  PROVE  Recorded' /\ FilesApart'
BY DEF recording, Inv, Recorded, FilesApart

LEMMA JobStep ==
  ASSUME Inv,
         Confirm \/ BuildClipWithPreroll \/ FallBack \/ MakeNoClip \/ RecordClip
           \/ Finish \/ Retry
  PROVE  Inv'
<1> USE DEF Inv
<1>1. UNCHANGED <<cfg, now, recording>>
  BY DEF Confirm, BuildClipWithPreroll, FallBack, MakeNoClip, RecordClip, Finish, Retry, Claim
<1>2. Recorded' /\ FilesApart'
  BY <1>1, RecordingKept
<1>3. JobTyped'
  <2>1. CASE Confirm
    <3>1. /\ job' = [status |-> "pending", attempts |-> 0, runAt |-> RunAt(now)]
          /\ confirmed = Nothing /\ confirmed' = now /\ worker' = worker
      BY <2>1 DEF Confirm, NoJob
    <3>2. /\ job'.status = "pending" /\ job'.attempts = 0 /\ job'.runAt = RunAt(now)
          /\ now \in Nat /\ now # Nothing
      BY <3>1, ClipAssumption DEF ClipAssumption, Recorded
    <3> QED
      BY <1>1, <3>1, <3>2, ClipAssumption DEF ClipAssumption, JobTyped, Recorded
  <2>2. CASE BuildClipWithPreroll \/ FallBack \/ MakeNoClip
    <3>1. job.status \in {"pending", "retry"}
      BY <2>2 DEF BuildClipWithPreroll, FallBack, MakeNoClip, Due
    <3>2. /\ job' = [status |-> "running", attempts |-> job.attempts + 1, runAt |-> job.runAt]
          /\ worker' \in [pc : {"record", "send"}, began : Nat]
          /\ confirmed' = confirmed
      <4>1. PICK pc \in {"record", "send"} : Claim(pc)
        BY <2>2 DEF BuildClipWithPreroll, FallBack, MakeNoClip
      <4>2. worker' = [pc |-> pc, began |-> now] /\ confirmed' = confirmed
        BY <4>1 DEF Claim
      <4>3. job' = [job EXCEPT !.status = "running", !.attempts = @ + 1]
        BY <4>1 DEF Claim
      <4>4. now \in Nat
        BY ClipAssumption DEF ClipAssumption, Recorded
      <4> QED
        BY <4>2, <4>3, <4>4 DEF JobTyped
    <3>3. /\ job'.status = "running" /\ job'.attempts = job.attempts + 1
          /\ job'.runAt = job.runAt /\ worker'.pc # "idle"
      BY <3>2
    <3> QED
      BY <1>1, <3>1, <3>2, <3>3, ClipAssumption DEF ClipAssumption, JobTyped, Recorded
  <2>3. CASE RecordClip
    BY <1>1, <2>3 DEF RecordClip, JobTyped
  <2>4. CASE Finish \/ Retry
    <3>1. job.status = "running" /\ worker' = Idle /\ confirmed' = confirmed
      BY <2>4 DEF Finish, Retry, JobTyped
    <3>2. PICK status \in {"complete", "failed", "retry"} :
            /\ job' = [status |-> status, attempts |-> job.attempts, runAt |-> job'.runAt]
            /\ status = "retry" => ~Terminal
      BY <2>4 DEF Finish, Retry, JobTyped
    <3>3. job'.status = status /\ job'.attempts = job.attempts
      BY <3>2
    <3> QED
      BY <1>1, <3>1, <3>2, <3>3, ClipAssumption
      DEF ClipAssumption, Terminal, Idle, JobTyped, recording
  <2> QED
    BY <2>1, <2>2, <2>3, <2>4
<1>4. ClipTyped'
  <2>1. served' = served
    BY <1>1 DEF recording
  <2>2. CASE BuildClipWithPreroll
    BY <2>1, <2>2, StitchedServed DEF BuildClipWithPreroll, ClipTyped
  <2>3. CASE RecordClip
    BY <2>1, <2>3 DEF RecordClip, ClipTyped
  <2>4. CASE clip' = clip \/ clip' = Nothing
    BY <2>1, <2>4 DEF ClipTyped
  <2> QED
    BY <2>2, <2>3, <2>4 DEF Confirm, FallBack, MakeNoClip, Finish, Retry
<1> QED
  BY <1>2, <1>3, <1>4

LEMMA InvAlways == Spec => []Inv
<1>1. Inv /\ [Next]_vars => Inv'
  <2> SUFFICES ASSUME Inv, [Next]_vars PROVE Inv'
    OBVIOUS
  <2>1. CASE UNCHANGED vars
    BY <2>1 DEF vars, recording, Inv, Recorded, FilesApart, JobTyped, ClipTyped
  <2> QED
    BY <2>1, RecordingStep, JobStep DEF Next
<1> QED
  BY InitInv, <1>1, PTL DEF Spec

(* Every variable keeps its type: segments of MediaMTX do not overlap, the *)
(* job is not tried too often, and a clip shows nothing the camera did not *)
(* deliver.                                                                *)
THEOREM TypeCorrect == Spec => []TypeOK
  BY InvAlways, InvTyped, PTL

-----------------------------------------------------------------------------
(* What stitching keeps of any segments.                                   *)

Files(S) ==
  /\ S # {}
  /\ \A s \in S : s.from \in Nat /\ s.to \in Nat /\ s.from < s.to /\ s.to <= MaxTime

(* How much joined footage lies before the second t.                       *)
Rank(S, t) == Cardinality({u \in Shown(S) : u < t})

LEMMA LeastNumber ==
  ASSUME NEW T, T \subseteq Nat, T # {}
  PROVE  \E m \in T : \A k \in T : m <= k
<1>1. PICK m \in T : \A k \in T : <<k, m>> \notin OpToRel(<, Nat)
  BY NatLessThanWellFounded, WFMin, Zenon
<1>2. \A k \in T : ~(k < m)
  BY <1>1, Zenon DEF OpToRel
<1>3. \A k \in T : m <= k
  BY <1>2
<1> QED
  BY <1>3

LEMMA FirstShown ==
  ASSUME NEW S, Files(S)
  PROVE  /\ First(S) \in Nat /\ \A s \in S : First(S) <= s.from
         /\ \A t \in Shown(S) : t \in Nat /\ First(S) <= t /\ t < MaxTime
<1> DEFINE T == {s.from : s \in S}
<1>1. T \subseteq Nat /\ T # {}
  BY DEF Files
<1>2. \E m \in T : \A k \in T : m <= k
  BY <1>1, LeastNumber
<1>3. \E m \in T : \A s \in S : m <= s.from
  BY <1>2
<1>4. First(S) \in T /\ \A s \in S : First(S) <= s.from
  BY <1>3 DEF First
<1>5. \A t \in Shown(S) : \E s \in S : t \in s.from .. s.to - 1
  BY DEF Shown
<1>6. ASSUME NEW t \in Shown(S) PROVE t \in Nat /\ First(S) <= t /\ t < MaxTime
  <2>1. PICK s \in S : t \in s.from .. s.to - 1
    BY <1>5
  <2>2. First(S) <= s.from /\ First(S) \in Nat
    BY <1>1, <1>4
  <2> QED
    BY <2>1, <2>2, ClipAssumption DEF ClipAssumption, Files
<1> QED
  BY <1>1, <1>4, <1>6

LEMMA Seconds ==
  ASSUME NEW a \in Int, NEW b \in Int, a <= b
  PROVE  IsFiniteSet(a .. b - 1) /\ Cardinality(a .. b - 1) = b - a
<1>1. b - 1 \in Int
  OBVIOUS
<1>2. /\ IsFiniteSet(a .. b - 1)
      /\ Cardinality(a .. b - 1) = IF a > b - 1 THEN 0 ELSE (b - 1) - a + 1
  BY <1>1, FS_Interval
<1> QED
  BY <1>2

LEMMA ShownFinite ==
  ASSUME NEW S, Files(S), NEW T, T \subseteq Shown(S)
  PROVE  IsFiniteSet(T) /\ Cardinality(T) \in Nat
<1>1. T \in SUBSET Nat /\ \A t \in T : t <= MaxTime
  BY FirstShown, ClipAssumption DEF ClipAssumption
<1>2. IsFiniteSet(T)
  BY <1>1, FS_BoundedSetOfNaturals, ClipAssumption DEF ClipAssumption
<1> QED
  BY <1>2, FS_CardinalityType

(* The window, the trim and what they keep, in numbers.                    *)
LEMMA WindowLength ==
  ASSUME cfg \in Configs, confirmed \in Nat
  PROVE  /\ WindowStart \in Int /\ WindowEnd \in Int /\ WindowStart <= WindowEnd
         /\ Cardinality(Window) = WindowEnd - WindowStart
<1>1. cfg.preRoll \in Nat /\ cfg.post \in Nat
  BY ClipAssumption DEF ClipAssumption
<1>2. WindowStart \in Int /\ WindowEnd \in Int /\ WindowStart <= WindowEnd
  BY <1>1 DEF WindowStart, WindowEnd
<1> QED
  BY <1>2, Seconds DEF Window

LEMMA KeptByRank ==
  ASSUME NEW S, NEW t
  PROVE  t \in Stitched(S) <=>
           /\ t \in Shown(S)
           /\ Rank(S, t) \in Trim(S) .. Trim(S) + Cardinality(Window) - 1
BY DEF Stitched, Rank

(* No more footage lies before t than seconds since the first segment.     *)
LEMMA RankBound ==
  ASSUME NEW S, Files(S), NEW t \in Shown(S)
  PROVE  Rank(S, t) \in Nat /\ Rank(S, t) <= t - First(S)
<1> DEFINE Before == {u \in Shown(S) : u < t}
<1>1. t \in Nat /\ First(S) \in Nat /\ First(S) <= t
  BY FirstShown
<1>2. Before \in SUBSET (First(S) .. t - 1)
  <2>1. \A u \in Before : u \in Nat /\ First(S) <= u /\ u < t
    BY FirstShown
  <2> HIDE DEF Before
  <2> QED
    BY <1>1, <2>1
<1>3. IsFiniteSet(First(S) .. t - 1) /\ Cardinality(First(S) .. t - 1) = t - First(S)
  BY <1>1, Seconds
<1>4. Cardinality(Before) <= t - First(S)
  BY <1>2, <1>3, FS_Subset
<1> QED
  BY <1>4, ShownFinite DEF Rank

(* Nothing from before the pre-roll is kept.                               *)
LEMMA NothingEarlier ==
  ASSUME cfg \in Configs, confirmed \in Nat, NEW S, Files(S), NEW t \in Stitched(S)
  PROVE  t \in Int /\ WindowStart <= t
<1>1. t \in Shown(S) /\ Rank(S, t) >= Trim(S)
  <2>1. t \in Shown(S) /\ Rank(S, t) \in Trim(S) .. Trim(S) + Cardinality(Window) - 1
    BY KeptByRank
  <2>2. Trim(S) \in Int
    BY WindowLength, FirstShown DEF Trim, Larger
  <2> QED
    BY <2>1, <2>2, WindowLength
<1>2. t \in Nat /\ First(S) \in Nat /\ First(S) <= t
  BY <1>1, FirstShown
<1>3. Rank(S, t) <= t - First(S) /\ Rank(S, t) \in Nat
  BY <1>1, RankBound
<1> QED
  BY <1>1, <1>2, <1>3, WindowLength DEF Trim, Larger

(* What is missing between the first segment and the window, and how much  *)
(* of the footage of the window lies before t.                             *)
Missing(S)   == (First(S) .. WindowStart - 1) \ Shown(S)
Wanted(S)    == Shown(S) \cap Window
Inside(S, t) == {u \in Wanted(S) : u < t}

(* Two finite sets with nothing in common add up.                          *)
LEMMA Disjoint ==
  ASSUME NEW A, NEW B, IsFiniteSet(A), IsFiniteSet(B), A \cap B = {}
  PROVE  Cardinality(A \cup B) = Cardinality(A) + Cardinality(B)
<1>1. Cardinality(A) \in Nat /\ Cardinality(B) \in Nat /\ Cardinality({}) = 0
  BY FS_CardinalityType, FS_EmptySet
<1>2. Cardinality(A \cup B) = Cardinality(A) + Cardinality(B) - Cardinality({})
  BY FS_Union
<1> QED
  BY <1>1, <1>2

(* The trim is too large by what is missing, so a second of the window     *)
(* that is left out is among the first ones: as many lie before it as are  *)
(* missing, less one.                                                      *)
LEMMA LeftOutRank ==
  ASSUME cfg \in Configs, confirmed \in Nat, NEW S, Files(S),
         NEW t \in Wanted(S), t \notin Stitched(S)
  PROVE  Cardinality(Inside(S, t)) \in 0 .. Cardinality(Missing(S)) - 1
<1> DEFINE early == Shown(S) \cap (First(S) .. WindowStart - 1)
           n == WindowEnd - WindowStart
<1>1. /\ WindowStart \in Int /\ WindowEnd \in Int /\ WindowStart <= WindowEnd
      /\ Cardinality(Window) = n /\ First(S) \in Nat
      /\ t \in Nat /\ WindowStart <= t /\ t < WindowEnd
      /\ Window = WindowStart .. WindowEnd - 1
  BY WindowLength, FirstShown DEF Wanted, Window
<1>2. \A u \in Shown(S) : u \in Nat /\ First(S) <= u
  BY FirstShown
<1>3. /\ IsFiniteSet(early) /\ Cardinality(early) \in Nat
      /\ IsFiniteSet(Inside(S, t)) /\ Cardinality(Inside(S, t)) \in Nat
  BY ShownFinite DEF Inside, Wanted
<1>4. Cardinality(early) + Cardinality(Missing(S)) = Trim(S) /\ Cardinality(Missing(S)) \in Nat
  <2> DEFINE lead == First(S) .. WindowStart - 1
  <2>1. IsFiniteSet(lead) /\ Cardinality(lead) = Trim(S)
    <3>1. CASE First(S) <= WindowStart
      <4>1. IsFiniteSet(lead) /\ Cardinality(lead) = WindowStart - First(S)
        BY <1>1, <3>1, Seconds
      <4> QED
        BY <1>1, <3>1, <4>1 DEF Trim, Larger
    <3>2. CASE ~(First(S) <= WindowStart)
      <4>1. lead = {}
        BY <1>1, <3>2
      <4> QED
        BY <1>1, <3>2, <4>1, FS_EmptySet DEF Trim, Larger
    <3> QED
      BY <3>1, <3>2
  <2>2. IsFiniteSet(Missing(S)) /\ Cardinality(Missing(S)) \in Nat
    <3>1. Missing(S) \in SUBSET lead
      BY DEF Missing
    <3> QED
      BY <2>1, <3>1, FS_Subset, FS_CardinalityType
  <2>3. early \cup Missing(S) = lead /\ early \cap Missing(S) = {}
    BY DEF Missing
  <2> HIDE DEF early, lead
  <2>4. Cardinality(early \cup Missing(S)) = Cardinality(early) + Cardinality(Missing(S))
    BY <1>3, <2>2, <2>3, Disjoint
  <2> QED
    BY <2>1, <2>2, <2>3, <2>4
<1>5. Rank(S, t) = Cardinality(early) + Cardinality(Inside(S, t))
  <2>1. \A u \in Shown(S) : u < t <=> u \in early \/ u \in Inside(S, t)
    <3>1. \A u \in Shown(S) : u \in early <=> u < WindowStart
      BY <1>1, <1>2
    <3>2. \A u \in Shown(S) : u \in Inside(S, t) <=> WindowStart <= u /\ u < WindowEnd /\ u < t
      BY <1>1, <1>2 DEF Inside, Wanted
    <3> QED
      BY <1>1, <1>2, <3>1, <3>2
  <2>2. early \in SUBSET Shown(S) /\ Inside(S, t) \in SUBSET Shown(S)
    BY DEF Inside, Wanted
  <2>3. early \cap Inside(S, t) = {}
    BY <1>1 DEF Inside, Wanted
  <2> HIDE DEF early
  <2>4. Cardinality(early \cup Inside(S, t)) = Cardinality(early) + Cardinality(Inside(S, t))
    BY <1>3, <2>3, Disjoint
  <2>5. {u \in Shown(S) : u < t} = early \cup Inside(S, t)
    BY <2>1, <2>2
  <2> QED
    BY <2>4, <2>5 DEF Rank
<1>6. Cardinality(Inside(S, t)) <= n - 1
  <2>1. IsFiniteSet(WindowStart .. t - 1) /\ Cardinality(WindowStart .. t - 1) = t - WindowStart
    BY <1>1, Seconds
  <2>2. \A u \in Inside(S, t) : u \in WindowStart .. t - 1
    BY <1>1, <1>2 DEF Inside, Wanted
  <2>3. Inside(S, t) \in SUBSET (WindowStart .. t - 1)
    BY <2>2
  <2>4. Cardinality(Inside(S, t)) <= t - WindowStart
    BY <2>1, <2>3, FS_Subset
  <2> QED
    BY <1>1, <1>3, <2>4
<1>7. Rank(S, t) \notin Trim(S) .. Trim(S) + n - 1
  BY <1>1, KeptByRank DEF Wanted
<1> HIDE DEF early, n
<1>8. n \in Int
  BY <1>1 DEF n
<1> QED
  BY <1>3, <1>4, <1>5, <1>6, <1>7, <1>8

(* So at most as many are left out as are missing: two of them never have  *)
(* the same number of seconds before them.                                 *)
LEMMA LeftOutBound ==
  ASSUME cfg \in Configs, confirmed \in Nat, NEW S, Files(S)
  PROVE  Cardinality(Wanted(S) \ Stitched(S)) <= Cardinality(Missing(S))
<1> DEFINE Out == Wanted(S) \ Stitched(S)
           m   == Cardinality(Missing(S))
           f   == [t \in Out |-> Cardinality(Inside(S, t))]
<1>1. IsFiniteSet(Out) /\ Cardinality(Out) \in Nat
  BY ShownFinite DEF Wanted
<1>2. m \in Nat
  <2>1. First(S) .. WindowStart - 1 \in SUBSET (0 .. WindowEnd)
    BY FirstShown, WindowLength
  <2>2. Missing(S) \in SUBSET Nat /\ \A u \in Missing(S) : u <= Larger(0, WindowEnd)
    BY FirstShown, WindowLength DEF Missing, Larger
  <2>3. Larger(0, WindowEnd) \in Nat
    BY WindowLength DEF Larger
  <2>4. IsFiniteSet(Missing(S))
    BY <2>2, <2>3, FS_BoundedSetOfNaturals
  <2> QED
    BY <2>4, FS_CardinalityType
<1>3. f \in [Out -> 0 .. m - 1]
  BY LeftOutRank
<1>4. IsFiniteSet(0 .. m - 1) /\ Cardinality(0 .. m - 1) = m
  BY <1>2, Seconds
<1>5. ASSUME NEW t \in Out, NEW u \in Out, t < u PROVE f[t] < f[u]
  <2>1. t \in Inside(S, u) /\ t \notin Inside(S, t) /\ Inside(S, t) \subseteq Inside(S, u)
    <3>1. \A w \in Wanted(S) : w \in Nat
      BY FirstShown DEF Wanted
    <3> QED
      BY <1>5, <3>1 DEF Inside
  <2>2. /\ IsFiniteSet(Inside(S, u)) /\ Cardinality(Inside(S, u)) \in Nat
        /\ IsFiniteSet(Inside(S, t)) /\ Cardinality(Inside(S, t)) \in Nat
    BY ShownFinite DEF Inside, Wanted
  <2>3. Cardinality(Inside(S, t) \cup {t}) = Cardinality(Inside(S, t)) + 1
    BY <2>1, <2>2, FS_AddElement
  <2>4. Inside(S, t) \cup {t} \in SUBSET Inside(S, u)
    BY <2>1
  <2>5. Cardinality(Inside(S, t) \cup {t}) <= Cardinality(Inside(S, u))
    BY <2>2, <2>4, FS_Subset
  <2> QED
    BY <2>2, <2>3, <2>5
<1>6. \A t, u \in Out : t # u => f[t] # f[u]
  <2>1. \A t \in Out : t \in Nat /\ f[t] \in Int
    BY <1>2, <1>3, FirstShown DEF Wanted
  <2> SUFFICES ASSUME NEW t \in Out, NEW u \in Out, t # u PROVE f[t] # f[u]
    OBVIOUS
  <2> HIDE DEF Out, f
  <2>2. t < u \/ u < t
    BY <2>1
  <2>3. f[t] < f[u] \/ f[u] < f[t]
    BY <1>5, <2>2
  <2> QED
    BY <2>1, <2>3
<1> HIDE DEF Out, f, m
<1>7. ~(m < Cardinality(Out))
  BY <1>1, <1>3, <1>4, <1>6, FS_PigeonHole
<1>8. Cardinality(Out) <= m
  BY <1>1, <1>2, <1>7
<1> QED
  BY <1>8 DEF Out, m

-----------------------------------------------------------------------------
(* What a stitched clip was made of.                                       *)

(* No segment is longer than MediaMTX makes them.                          *)
LengthBound ==
  /\ \A s \in disk : s.to - s.from <= cfg.segment + RollSlack
  /\ Records => now - writing <= cfg.segment + RollSlack

StitchedFrom == IsStitched =>
  /\ confirmed \in Nat
  /\ Files(clip.segments)
  /\ \A s \in clip.segments : s.from <= WindowEnd /\ s.to - s.from <= cfg.segment + RollSlack
  /\ clip.seconds = Stitched(clip.segments)

LEMMA LengthStep == Inv /\ LengthBound /\ [Next]_vars => LengthBound'
<1> SUFFICES ASSUME Inv, LengthBound, [Next]_vars PROVE LengthBound'
  OBVIOUS
<1>1. /\ now \in Nat /\ writing \in Nat \cup {Nothing} /\ Nothing \notin Int
      /\ cfg.segment \in Nat \ {0} /\ RollSlack \in Nat
  BY ClipAssumption DEF ClipAssumption, Inv, Recorded
<1>2. CASE Roll \/ Drop
  <2>1. \A s \in Finished : s.to - s.from <= cfg.segment + RollSlack
    BY DEF Finished, LengthBound
  <2>2. disk' = Finished /\ cfg' = cfg /\ now' = now /\ writing' \in {now, Nothing}
    BY <1>2 DEF Roll, Drop
  <2> QED
    BY <1>1, <2>1, <2>2 DEF LengthBound, Records
<1>3. CASE Resume
  BY <1>1, <1>3 DEF Resume, LengthBound, Records
<1>4. CASE Delete
  <2>1. disk' \subseteq disk /\ UNCHANGED <<cfg, now, writing>>
    BY <1>4 DEF Delete
  <2> QED
    BY <2>1 DEF LengthBound, Records
<1>5. CASE Tick
  BY <1>1, <1>5 DEF Tick, Overdue, LengthBound, Records
<1>6. CASE \/ Confirm \/ BuildClipWithPreroll \/ FallBack \/ MakeNoClip \/ RecordClip
           \/ Finish \/ Retry \/ UNCHANGED vars
  <2>1. UNCHANGED <<cfg, now, disk, writing>>
    BY <1>6 DEF Confirm, BuildClipWithPreroll, FallBack, MakeNoClip, RecordClip, Finish,
                Retry, Claim, recording, vars
  <2> QED
    BY <2>1 DEF LengthBound, Records
<1> QED
  BY <1>2, <1>3, <1>4, <1>5, <1>6 DEF Next

LEMMA StitchStep == Inv /\ LengthBound /\ StitchedFrom /\ [Next]_vars => StitchedFrom'
<1> SUFFICES ASSUME Inv, LengthBound, StitchedFrom, [Next]_vars PROVE StitchedFrom'
  OBVIOUS
<1>1. ASSUME UNCHANGED <<cfg, confirmed, clip>> PROVE StitchedFrom'
  BY <1>1 DEF StitchedFrom, IsStitched, Files, Stitched, Trim, Window, WindowStart, WindowEnd
<1>2. ASSUME clip' = Nothing PROVE StitchedFrom'
  BY <1>2 DEF StitchedFrom, IsStitched
<1>3. CASE Roll \/ Drop \/ Resume \/ Delete \/ Tick \/ UNCHANGED vars
  BY <1>1, <1>3 DEF Roll, Drop, Resume, Delete, Tick, vars
<1>4. CASE FallBack \/ MakeNoClip \/ Finish \/ Retry
  BY <1>2, <1>4 DEF FallBack, MakeNoClip, Finish, Retry
<1>5. CASE RecordClip
  BY <1>5 DEF RecordClip, StitchedFrom, IsStitched
<1>6. CASE Confirm
  <2>1. ~IsStitched
    BY <1>6, ClipAssumption DEF ClipAssumption, Confirm, StitchedFrom
  <2> QED
    BY <1>6, <2>1 DEF Confirm, StitchedFrom, IsStitched
<1>7. CASE BuildClipWithPreroll
  <2>1. /\ UNCHANGED <<cfg, confirmed>>
        /\ clip'.segments = Covering /\ clip'.seconds = Stitched(Covering)
        /\ Covering # {}
    BY <1>7 DEF BuildClipWithPreroll, Claim
  <2>2. confirmed \in Nat
    BY <1>7, ClipAssumption
    DEF ClipAssumption, BuildClipWithPreroll, Due, Inv, JobTyped, Recorded
  <2>3. /\ Files(Covering)
        /\ \A s \in Covering : s.from <= WindowEnd /\ s.to - s.from <= cfg.segment + RollSlack
    BY <2>1, ClipAssumption
    DEF ClipAssumption, Files, Covering, Inv, FilesApart, Recorded, LengthBound
  <2>4. Stitched(clip.segments)' = Stitched(Covering)
    BY <2>1 DEF Stitched, Trim, Window, WindowStart, WindowEnd
  <2> QED
    BY <2>1, <2>2, <2>3, <2>4 DEF StitchedFrom, Files, WindowEnd
<1> QED
  BY <1>3, <1>4, <1>5, <1>6, <1>7 DEF Next

LEMMA ClipsAlways == Spec => [](Inv /\ StitchedFrom)
<1>1. Init => LengthBound /\ StitchedFrom
  BY ClipAssumption
  DEF ClipAssumption, Init, LengthBound, StitchedFrom, IsStitched, Records
<1> QED
  BY InvAlways, LengthStep, StitchStep, <1>1, PTL DEF Spec

(* However late the attempt and whatever the gaps, a stitched clip shows   *)
(* nothing from before the pre-roll and at most a segment beyond the       *)
(* window (find_segments_covering and trim_offset).                        *)
THEOREM StitchedInWindow == Spec => []InWindow
<1>1. Inv /\ StitchedFrom => InWindow
  <2> SUFFICES ASSUME Inv, StitchedFrom, IsStitched, NEW t \in clip.seconds
               PROVE  t \in WindowStart .. WindowEnd + cfg.segment + RollSlack - 1
    BY DEF InWindow
  <2>1. /\ cfg \in Configs /\ confirmed \in Nat
        /\ Files(clip.segments) /\ t \in Stitched(clip.segments)
    BY DEF StitchedFrom, Inv, Recorded
  <2>2. t \in Int /\ WindowStart <= t
    BY <2>1, NothingEarlier
  <2>3. t \in Shown(clip.segments)
    BY <2>1, KeptByRank
  <2>4. PICK s \in clip.segments : t \in s.from .. s.to - 1
    BY <2>3 DEF Shown
  <2>5. s.from \in Nat /\ s.to \in Nat /\ s.from <= WindowEnd
        /\ s.to - s.from <= cfg.segment + RollSlack
    BY <2>1, <2>4 DEF StitchedFrom, Files
  <2>6. cfg.segment \in Nat /\ RollSlack \in Nat /\ WindowEnd \in Int /\ WindowStart \in Int
    BY <2>1, WindowLength, ClipAssumption DEF ClipAssumption
  <2> QED
    BY <2>2, <2>4, <2>5, <2>6
<1> QED
  BY ClipsAlways, <1>1, PTL

(* And it leaves out at most as much of the footage it had of the window   *)
(* as was missing before the window (trim_offset counts the gaps too).     *)
THEOREM GapsAreAllItCosts == Spec => []GapCost
<1>1. Inv /\ StitchedFrom => GapCost
  <2> SUFFICES ASSUME Inv, StitchedFrom, IsStitched
               PROVE  LET found   == Shown(clip.segments)
                          missing == (First(clip.segments) .. WindowStart - 1) \ found
                      IN  Cardinality((found \cap Window) \ clip.seconds)
                            <= Cardinality(missing)
    BY DEF GapCost
  <2>1. /\ cfg \in Configs /\ confirmed \in Nat
        /\ Files(clip.segments) /\ clip.seconds = Stitched(clip.segments)
    BY DEF StitchedFrom, Inv, Recorded
  <2>2. Cardinality(Wanted(clip.segments) \ Stitched(clip.segments))
          <= Cardinality(Missing(clip.segments))
    BY <2>1, LeftOutBound
  <2> QED
    BY <2>1, <2>2 DEF Wanted, Missing
<1> QED
  BY ClipsAlways, <1>1, PTL

-----------------------------------------------------------------------------
(* An attempt in time over a recording without a gap.                      *)

Longest == cfg.segment + RollSlack

OnDisk(t) == \E s \in disk : t \in s.from .. s.to - 1

(* The file that held the second t went before all that are left, when its *)
(* retention had passed.                                                   *)
Gone(t) ==
  /\ t <= now - Retention + Longest - 2
  /\ \A s \in disk : t < s.from
  /\ writing # Nothing => t < writing

Past == \A t \in served : t \in Nat /\ t < now

(* Whatever was served is on disk, being written, or gone.                 *)
Accounted == cfg.preRoll > 0 =>
  \A t \in served : OnDisk(t) \/ (writing # Nothing /\ writing <= t) \/ Gone(t)

(* No attempt is made before the job is due for the first time.            *)
InTime ==
  /\ job.status = "pending" => job.runAt = RunAt(confirmed)
  /\ job.status \in {"running", "retry"} => RunAt(confirmed) <= now
  /\ clip # Nothing => job.status = "running"

LEMMA Numbers ==
  ASSUME Inv
  PROVE  /\ now \in Nat /\ Retention \in Nat /\ Longest \in Nat \ {0}
         /\ cfg.preRoll \in Nat /\ cfg.post \in Nat /\ cfg.segment \in Nat \ {0}
         /\ {Lookback, Headroom, Margin, RollSlack} \subseteq Nat
         /\ Retention >= cfg.preRoll + cfg.post + Headroom
         /\ writing # Nothing => writing \in Nat /\ writing <= now
         /\ \A t \in Nat : RunAt(t) \in Nat /\ RunAt(t) >= t + cfg.post
                             /\ (cfg.preRoll > 0 => RunAt(t) = t + cfg.post + cfg.segment + Margin)
         /\ Nothing \notin Int
<1>1. cfg \in Configs /\ now \in 0 .. MaxTime /\ writing \in (0 .. now) \cup {Nothing}
  BY DEF Inv, Recorded
<1>2. /\ cfg.preRoll \in Nat /\ cfg.post \in Nat /\ cfg.segment \in Nat \ {0} /\ cfg.kept \in Nat
      /\ {Lookback, Headroom, Margin, RollSlack} \subseteq Nat /\ MaxTime \in Nat
      /\ Nothing \notin Int
  BY <1>1, ClipAssumption DEF ClipAssumption
<1>3. Retention \in Nat /\ Retention >= cfg.preRoll + cfg.post + Headroom
  BY <1>2 DEF Retention, Larger
<1>4. \A t \in Nat : RunAt(t) \in Nat /\ RunAt(t) >= t + cfg.post
                       /\ (cfg.preRoll > 0 => RunAt(t) = t + cfg.post + cfg.segment + Margin)
  BY <1>2 DEF RunAt
<1> QED
  BY <1>1, <1>2, <1>3, <1>4 DEF Longest

LEMMA PastStep == Inv /\ Past /\ [Next]_vars => Past'
<1> SUFFICES ASSUME Inv, Past, [Next]_vars PROVE Past'
  OBVIOUS
<1>0. now \in Nat
  BY Numbers
<1>1. CASE Tick
  <2>1. now' = now + 1 /\ served' \subseteq served \cup {now}
    BY <1>1 DEF Tick
  <2> QED
    BY <1>0, <2>1 DEF Past
<1>2. CASE ~Tick
  <2>1. served' = served /\ now' = now
    BY <1>2 DEF Next, vars, recording, Roll, Drop, Resume, Delete, Confirm,
                BuildClipWithPreroll, FallBack, MakeNoClip, RecordClip, Finish, Retry, Claim
  <2> QED
    BY <2>1 DEF Past
<1> QED
  BY <1>1, <1>2

LEMMA AccountedStep ==
  Inv /\ LengthBound /\ Past /\ Accounted /\ [Next]_vars => Accounted'
<1> SUFFICES ASSUME Inv, LengthBound, Past, Accounted, [Next]_vars PROVE Accounted'
  OBVIOUS
<1>c. cfg' = cfg
  BY DEF Next, vars, recording, Roll, Drop, Resume, Delete, Tick, Confirm,
         BuildClipWithPreroll, FallBack, MakeNoClip, RecordClip, Finish, Retry, Claim
<1> SUFFICES ASSUME cfg.preRoll > 0, NEW t \in served'
             PROVE  (OnDisk(t) \/ (writing # Nothing /\ writing <= t) \/ Gone(t))'
  BY <1>c DEF Accounted
<1>0. /\ now \in Nat /\ Retention \in Nat /\ Longest \in Nat
      /\ writing # Nothing => writing \in Nat /\ writing <= now
      /\ Nothing \notin Int
  BY Numbers
<1>1. CASE Roll \/ Drop
  <2>1. /\ disk' = Finished /\ UNCHANGED <<cfg, now, served>>
        /\ writing # Nothing /\ writing' \in {now, Nothing}
    BY <1>1 DEF Roll, Drop, Records
  <2>2. t \in served /\ t \in Nat /\ t < now
    BY <2>1 DEF Past
  <2>3. CASE OnDisk(t)
    <3>1. disk \subseteq disk'
      BY <2>1 DEF Finished
    <3> QED
      BY <2>3, <3>1 DEF OnDisk
  <2>4. CASE writing <= t
    <3>1. [from |-> writing, to |-> now] \in disk'
      BY <1>0, <2>1, <2>2, <2>4 DEF Finished, Records
    <3>2. t \in writing .. now - 1
      BY <1>0, <2>1, <2>2, <2>4
    <3> QED
      BY <3>1, <3>2 DEF OnDisk
  <2>5. CASE Gone(t)
    <3>1. \A s \in Finished : t < s.from
      BY <2>1, <2>5 DEF Gone, Finished
    <3>2. Retention' = Retention /\ Longest' = Longest
      BY <2>1 DEF Retention, Longest
    <3> QED
      BY <2>1, <2>2, <2>5, <3>1, <3>2 DEF Gone
  <2> QED
    BY <2>2, <2>3, <2>4, <2>5 DEF Accounted
<1>2. CASE Resume
  <2>1. writing = Nothing /\ writing' = now /\ UNCHANGED <<cfg, now, disk, served>>
    BY <1>2 DEF Resume
  <2>2. t \in served /\ t < now
    BY <2>1 DEF Past
  <2>3. OnDisk(t) \/ Gone(t)
    BY <2>1, <2>2 DEF Accounted
  <2>4. Retention' = Retention /\ Longest' = Longest
    BY <2>1 DEF Retention, Longest
  <2> QED
    BY <2>1, <2>2, <2>3, <2>4 DEF OnDisk, Gone
<1>3. CASE Delete
  <2>1. PICK segment \in disk :
          /\ segment.from < now - Retention
          /\ \A other \in disk : segment.from <= other.from
          /\ disk' = disk \ {segment}
          /\ UNCHANGED <<cfg, now, writing, served>>
    BY <1>3 DEF Delete
  <2>2. Retention' = Retention /\ Longest' = Longest
    BY <2>1 DEF Retention, Longest
  <2>3. CASE t \in segment.from .. segment.to - 1
    <3>1. /\ segment.from \in Nat /\ segment.to \in Nat /\ segment.from < segment.to
          /\ segment.to - segment.from <= Longest
          /\ writing # Nothing => segment.to <= writing
      BY DEF Inv, FilesApart, LengthBound, Longest
    <3>2. \A s \in disk' : segment.to <= s.from
      <4> TAKE s \in disk'
      <4>1. s \in disk /\ s # segment /\ s.from \in Nat /\ s.to \in Nat /\ s.from < s.to
        BY <2>1 DEF Inv, FilesApart
      <4>2. segment.to <= s.from \/ s.to <= segment.from
        BY <4>1 DEF Inv, FilesApart
      <4>3. segment.from <= s.from
        BY <2>1, <4>1
      <4> QED
        BY <3>1, <4>1, <4>2, <4>3
    <3>3. t \in Nat /\ t < segment.to /\ t <= now - Retention + Longest - 2
      BY <1>0, <2>1, <2>3, <3>1
    <3>4. \A s \in disk' : t < s.from
      <4> TAKE s \in disk'
      <4>1. s.from \in Nat /\ segment.to <= s.from
        BY <2>1, <3>2 DEF Inv, FilesApart
      <4> QED
        BY <3>1, <3>3, <4>1
    <3>5. writing # Nothing => t < writing
      BY <1>0, <3>1, <3>3
    <3> QED
      BY <2>1, <2>2, <3>3, <3>4, <3>5 DEF Gone
  <2>4. CASE t \notin segment.from .. segment.to - 1
    <3>1. OnDisk(t) => OnDisk(t)'
      BY <2>1, <2>4 DEF OnDisk
    <3>2. Gone(t) => Gone(t)'
      BY <2>1, <2>2 DEF Gone
    <3> QED
      BY <2>1, <3>1, <3>2 DEF Accounted
  <2> QED
    BY <2>3, <2>4
<1>4. CASE Tick
  <2>1. /\ now' = now + 1 /\ UNCHANGED <<cfg, disk, writing>>
        /\ served' = IF writing = Nothing THEN served ELSE served \cup {now}
    BY <1>4 DEF Tick
  <2>2. Retention' = Retention /\ Longest' = Longest
    BY <2>1 DEF Retention, Longest
  <2>3. CASE t = now /\ writing # Nothing
    BY <1>0, <2>1, <2>3
  <2>4. CASE t \in served
    <3>1. t \in Nat
      BY <2>4 DEF Past
    <3>2. Gone(t) => Gone(t)'
      BY <1>0, <2>1, <2>2, <3>1 DEF Gone
    <3>3. OnDisk(t) => OnDisk(t)'
      BY <2>1 DEF OnDisk
    <3> QED
      BY <2>1, <2>4, <3>2, <3>3 DEF Accounted
  <2> QED
    BY <2>1, <2>3, <2>4
<1>5. CASE \/ Confirm \/ BuildClipWithPreroll \/ FallBack \/ MakeNoClip \/ RecordClip
           \/ Finish \/ Retry \/ UNCHANGED vars
  <2>1. UNCHANGED <<cfg, now, disk, writing, served>>
    BY <1>5 DEF Confirm, BuildClipWithPreroll, FallBack, MakeNoClip, RecordClip,
                Finish, Retry, Claim, recording, vars
  <2> QED
    BY <2>1 DEF Accounted, OnDisk, Gone, Retention, Longest
<1> QED
  BY <1>1, <1>2, <1>3, <1>4, <1>5 DEF Next

LEMMA InTimeStep == Inv /\ InTime /\ [Next]_vars => InTime'
<1> SUFFICES ASSUME Inv, InTime, [Next]_vars PROVE InTime'
  OBVIOUS
<1>0. now \in Nat /\ cfg \in Configs
      /\ (confirmed # Nothing => confirmed \in Nat /\ RunAt(confirmed) \in Nat)
  BY Numbers DEF Inv, Recorded, JobTyped
<1>t. confirmed = Nothing => job.status = "absent"
  BY DEF Inv, JobTyped
<1>1. CASE Roll \/ Drop \/ Resume \/ Delete \/ Tick \/ UNCHANGED vars
  <2>1. UNCHANGED <<cfg, confirmed, job, clip>> /\ now' \in {now, now + 1}
    BY <1>1 DEF Roll, Drop, Resume, Delete, Tick, vars, recording
  <2>2. RunAt(confirmed)' = RunAt(confirmed)
    BY <2>1 DEF RunAt
  <2> QED
    BY <1>0, <1>t, <2>1, <2>2 DEF InTime
<1>2. CASE Confirm
  <2>1. /\ job' = [status |-> "pending", attempts |-> 0, runAt |-> RunAt(now)]
        /\ confirmed = Nothing /\ confirmed' = now /\ UNCHANGED <<cfg, clip>>
    BY <1>2 DEF Confirm, NoJob
  <2>2. job'.status = "pending" /\ job'.runAt = RunAt(now) /\ clip = Nothing
    BY <1>t, <2>1 DEF InTime
  <2>3. RunAt(now) = RunAt(confirmed)'
    BY <2>1 DEF RunAt
  <2> QED
    BY <2>1, <2>2, <2>3 DEF InTime
<1>3. CASE BuildClipWithPreroll \/ FallBack \/ MakeNoClip
  <2>1. /\ job.status \in {"pending", "retry"} /\ job.runAt <= now
        /\ job' = [job EXCEPT !.status = "running", !.attempts = @ + 1]
        /\ UNCHANGED <<cfg, now, confirmed>>
    BY <1>3 DEF BuildClipWithPreroll, FallBack, MakeNoClip, Due, Claim
  <2>2. job'.status = "running"
    BY <2>1 DEF Inv, JobTyped
  <2>3. RunAt(confirmed)' = RunAt(confirmed) /\ RunAt(confirmed) <= now
    BY <2>1 DEF RunAt, InTime
  <2> QED
    BY <2>1, <2>2, <2>3 DEF InTime
<1>4. CASE RecordClip
  <2>1. worker.pc = "record" /\ UNCHANGED <<cfg, now, confirmed, job>>
    BY <1>4 DEF RecordClip
  <2>2. job.status = "running"
    BY <2>1 DEF Inv, JobTyped
  <2> QED
    BY <2>1, <2>2 DEF InTime, RunAt
<1>5. CASE Finish \/ Retry
  <2>1. worker.pc = "send" /\ UNCHANGED <<cfg, now, confirmed>> /\ clip' = Nothing
    BY <1>5 DEF Finish, Retry
  <2>2. job'.status \in {"complete", "failed", "retry"}
    <3>1. job = [status |-> job.status, attempts |-> job.attempts, runAt |-> job.runAt]
      BY DEF Inv, JobTyped
    <3> QED
      BY <1>5, <3>1 DEF Finish, Retry
  <2>3. RunAt(confirmed) <= now
    BY <2>1 DEF InTime, Inv, JobTyped
  <2> QED
    BY <2>1, <2>2, <2>3 DEF InTime, RunAt
<1> QED
  BY <1>1, <1>2, <1>3, <1>4, <1>5 DEF Next

(* Files without a gap from the first to the end of the window, where the  *)
(* first is not too late, give the window.                                 *)
LEMMA WholeOf ==
  ASSUME cfg \in Configs, confirmed \in Nat, NEW S, Files(S),
         First(S) <= WindowStart, First(S) .. WindowEnd - 1 \subseteq Shown(S)
  PROVE  Stitched(S) = Window
<1>1. /\ WindowStart \in Int /\ WindowEnd \in Int /\ WindowStart <= WindowEnd
      /\ Cardinality(Window) = WindowEnd - WindowStart
      /\ First(S) \in Nat /\ Window = WindowStart .. WindowEnd - 1
  BY WindowLength, FirstShown DEF Window
<1>2. Trim(S) = WindowStart - First(S)
  BY <1>1 DEF Trim, Larger
<1>3. \A t \in Shown(S) : t \in Nat /\ First(S) <= t
  BY FirstShown
<1>4. ASSUME NEW t \in Shown(S), t < WindowEnd PROVE Rank(S, t) = t - First(S)
  <2>1. {u \in Shown(S) : u < t} = First(S) .. t - 1
    BY <1>1, <1>3, <1>4
  <2>2. Cardinality(First(S) .. t - 1) = t - First(S)
    <3>1. First(S) \in Int /\ t \in Int /\ First(S) <= t
      BY <1>1, <1>3
    <3> QED
      BY <3>1, Seconds
  <2> QED
    BY <2>1, <2>2 DEF Rank
<1>5. ASSUME NEW t \in Shown(S), WindowEnd <= t
      PROVE  Rank(S, t) \in Nat /\ Rank(S, t) >= WindowEnd - First(S)
  <2>1. First(S) .. WindowEnd - 1 \in SUBSET {u \in Shown(S) : u < t}
    BY <1>1, <1>3, <1>5
  <2>2. {u \in Shown(S) : u < t} \subseteq Shown(S)
    OBVIOUS
  <2>3. IsFiniteSet({u \in Shown(S) : u < t}) /\ Rank(S, t) \in Nat
    BY <2>2, ShownFinite DEF Rank
  <2>4. Cardinality(First(S) .. WindowEnd - 1) = WindowEnd - First(S)
    BY <1>1, Seconds
  <2>5. Cardinality(First(S) .. WindowEnd - 1) <= Cardinality({u \in Shown(S) : u < t})
    BY <2>1, <2>3, FS_Subset
  <2> QED
    BY <2>3, <2>4, <2>5 DEF Rank
<1>6. ASSUME NEW t \in Shown(S)
      PROVE  t \in Stitched(S) <=> WindowStart <= t /\ t < WindowEnd
  <2>1. t \in Stitched(S) <=> Rank(S, t) \in Trim(S) .. Trim(S) + (WindowEnd - WindowStart) - 1
    BY <1>1, KeptByRank
  <2> QED
    BY <1>1, <1>2, <1>3, <1>4, <1>5, <2>1
<1>7. Stitched(S) \subseteq Shown(S)
  BY KeptByRank
<1>8. \A t \in Window : t \in Shown(S) /\ WindowStart <= t /\ t < WindowEnd
  BY <1>1
<1>9. \A t \in Shown(S) : WindowStart <= t /\ t < WindowEnd => t \in Window
  BY <1>1, <1>3
<1> QED
  BY <1>6, <1>7, <1>8, <1>9

(* What is wanted of the recording when the attempt is made.               *)
LEMMA StitchesWhole ==
  ASSUME Inv, LengthBound, Past, Accounted, confirmed \in Nat, cfg.preRoll > 0,
         Covering # {}, RunAt(confirmed) <= now, now <= RunAt(confirmed) + Grace,
         Longest <= Lookback, RollSlack <= Margin,
         WindowStart - Lookback .. WindowEnd - 1 \subseteq served
  PROVE  Stitched(Covering) = Window
<1>0. /\ now \in Nat /\ Retention \in Nat /\ Longest \in Nat \ {0}
      /\ cfg.preRoll \in Nat /\ cfg.post \in Nat /\ cfg.segment \in Nat \ {0}
      /\ Lookback \in Nat /\ Headroom \in Nat /\ Margin \in Nat /\ RollSlack \in Nat
      /\ Retention >= cfg.preRoll + cfg.post + Headroom
      /\ Longest = cfg.segment + RollSlack
      /\ writing # Nothing => writing \in Nat
      /\ cfg \in Configs
  BY Numbers DEF Longest, Inv, Recorded
<1>1. /\ WindowStart = confirmed - cfg.preRoll /\ WindowEnd = confirmed + cfg.post
      /\ RunAt(confirmed) = WindowEnd + cfg.segment + Margin
      /\ now >= WindowEnd + cfg.segment + Margin
      /\ now <= WindowEnd + Headroom + 1 - Longest
  <2>1. RunAt(confirmed) = WindowEnd + cfg.segment + Margin
    BY Numbers DEF WindowEnd
  <2> QED
    BY <1>0, <2>1 DEF WindowStart, WindowEnd, Grace
<1>2. Files(Covering)
  BY ClipAssumption DEF ClipAssumption, Files, Covering, Inv, FilesApart, Recorded
<1>3. /\ First(Covering) \in Nat
      /\ \A s \in Covering : First(Covering) <= s.from
      /\ \E s \in Covering : First(Covering) = s.from
  <2> DEFINE T == {s.from : s \in Covering}
  <2>1. T \subseteq Nat /\ T # {}
    BY <1>2 DEF Files
  <2>2. \E m \in T : \A k \in T : m <= k
    BY <2>1, LeastNumber
  <2>3. \E m \in T : \A s \in Covering : m <= s.from
    BY <2>2
  <2>4. First(Covering) \in T
    BY <2>3 DEF First
  <2> QED
    BY <1>2, <2>4, FirstShown
<1>4. PICK first \in Covering : First(Covering) = first.from
  BY <1>3
<1>5. /\ first \in disk /\ first.from \in Nat /\ first.to \in Nat
      /\ first.from <= WindowEnd /\ first.from >= WindowStart - Lookback
  BY DEF Covering, Inv, FilesApart
<1>6. ASSUME NEW t \in Nat, t < WindowEnd, t >= WindowStart - Lookback,
             t >= WindowStart \/ t >= first.from
      PROVE  t \in Shown(Covering)
  <2>1. t \in served
    BY <1>0, <1>1, <1>6
  <2>2. ~Gone(t)
    <3>1. CASE t >= first.from
      BY <1>5, <1>6, <3>1 DEF Gone
    <3>2. CASE t >= WindowStart
      BY <1>0, <1>1, <1>6, <3>2 DEF Gone
    <3> QED
      BY <1>6, <3>1, <3>2
  <2>3. ~(writing # Nothing /\ writing <= t)
    <3>1. SUFFICES ASSUME writing # Nothing, writing <= t PROVE FALSE
      OBVIOUS
    <3>2. now - writing <= cfg.segment + RollSlack
      BY <3>1 DEF LengthBound, Records
    <3> QED
      BY <1>0, <1>1, <1>6, <3>1, <3>2
  <2>4. PICK s \in disk : t \in s.from .. s.to - 1
    BY <2>1, <2>2, <2>3 DEF Accounted, OnDisk
  <2>5. s.from \in Nat /\ s.to \in Nat /\ s.to - s.from <= Longest /\ s.from < s.to
    BY DEF Inv, FilesApart, LengthBound, Longest
  <2>6. s.from >= WindowStart - Lookback
    <3>1. CASE t >= WindowStart
      BY <1>0, <1>1, <1>6, <2>4, <2>5, <3>1
    <3>2. CASE t >= first.from /\ s # first
      <4>1. s.to <= first.from \/ first.to <= s.from
        BY <1>5, <3>2 DEF Inv, FilesApart
      <4>2. first.from < first.to
        BY <1>5 DEF Inv, FilesApart
      <4> QED
        BY <1>0, <1>1, <1>5, <1>6, <2>4, <2>5, <3>2, <4>1, <4>2
    <3> QED
      BY <1>5, <1>6, <3>1, <3>2
  <2>7. s \in Covering
    BY <1>1, <1>6, <1>0, <2>4, <2>5, <2>6 DEF Covering
  <2> QED
    BY <2>4, <2>7 DEF Shown
<1>7. WindowStart \in Nat /\ WindowStart < WindowEnd
  <2>1. WindowStart - Lookback \in WindowStart - Lookback .. WindowEnd - 1
    BY <1>0, <1>1
  <2>2. WindowStart - Lookback \in Nat
    BY <2>1 DEF Past
  <2> QED
    BY <1>0, <1>1, <2>2
<1>8. WindowStart \in Shown(Covering)
  BY <1>0, <1>6, <1>7
<1>9. First(Covering) <= WindowStart
  BY <1>2, <1>8, FirstShown
<1>10. First(Covering) .. WindowEnd - 1 \subseteq Shown(Covering)
  BY <1>0, <1>1, <1>4, <1>5, <1>6
<1> QED
  BY <1>0, <1>2, <1>9, <1>10, WholeOf

Whole == Inv /\ LengthBound /\ Past /\ Accounted /\ InTime /\ WholeWhenPrompt

LEMMA WholeStep == Whole /\ [Next]_vars => WholeWhenPrompt'
<1> SUFFICES ASSUME Whole, [Next]_vars, IsStitched', (clip.at <= RunAt(confirmed) + Grace)',
                    (cfg.segment + RollSlack <= Lookback /\ RollSlack <= Margin)',
                    (WindowStart - Lookback .. WindowEnd - 1 \subseteq served)'
             PROVE  (clip.seconds = Window)'
  BY DEF WholeWhenPrompt
<1>0. /\ now \in Nat /\ cfg.preRoll \in Nat /\ cfg.post \in Nat /\ Nothing \notin Int
      /\ (confirmed # Nothing => confirmed \in Nat /\ RunAt(confirmed) \in Nat
                                   /\ RunAt(confirmed) >= confirmed + cfg.post)
      /\ (confirmed = Nothing => job.status = "absent")
  BY Numbers DEF Whole, Inv, JobTyped
<1>1. ASSUME UNCHANGED <<cfg, confirmed, clip>>, served' \subseteq served \cup {now}
      PROVE  (clip.seconds = Window)'
  <2>1. /\ RunAt(confirmed)' = RunAt(confirmed) /\ Grace' = Grace
        /\ WindowStart' = WindowStart /\ WindowEnd' = WindowEnd /\ Window' = Window
    BY <1>1 DEF RunAt, Grace, WindowStart, WindowEnd, Window
  <2>2. clip # Nothing /\ IsStitched
    BY <1>1 DEF IsStitched
  <2>3. confirmed \in Nat /\ RunAt(confirmed) <= now
    BY <1>0, <2>2 DEF Whole, InTime
  <2>4. WindowEnd <= now
    BY <1>0, <2>3 DEF WindowEnd
  <2>5. WindowStart - Lookback .. WindowEnd - 1 \subseteq served
    <3>1. WindowStart \in Int /\ WindowEnd \in Int /\ Lookback \in Int
      BY <1>0, <2>3, Numbers DEF WindowStart, WindowEnd, Whole
    <3>2. now \notin WindowStart - Lookback .. WindowEnd - 1
      BY <1>0, <2>4, <3>1
    <3> QED
      BY <1>1, <2>1, <3>2
  <2>6. clip.seconds = Window
    BY <1>1, <2>1, <2>2, <2>5 DEF Whole, WholeWhenPrompt
  <2> QED
    BY <1>1, <2>1, <2>6
<1>2. CASE BuildClipWithPreroll
  <2>1. /\ Due /\ cfg.preRoll > 0 /\ Covering # {}
        /\ clip'.at = now /\ clip'.seconds = Stitched(Covering)
        /\ UNCHANGED <<cfg, now, recording, confirmed>>
    BY <1>2 DEF BuildClipWithPreroll, Claim
  <2>2. served' = served /\ writing' = writing
    BY <2>1 DEF recording
  <2>3. /\ RunAt(confirmed)' = RunAt(confirmed) /\ Grace' = Grace
        /\ WindowStart' = WindowStart /\ WindowEnd' = WindowEnd /\ Window' = Window
    BY <2>1 DEF RunAt, Grace, WindowStart, WindowEnd, Window
  <2>4. confirmed \in Nat /\ RunAt(confirmed) <= now
    BY <1>0, <2>1 DEF Due, Whole, InTime
  <2>5. Stitched(Covering) = Window
    BY <2>1, <2>2, <2>3, <2>4, StitchesWhole DEF Whole, Longest
  <2> QED
    BY <2>1, <2>3, <2>5
<1>3. CASE Roll \/ Drop \/ Resume \/ Delete \/ Tick \/ UNCHANGED vars
  <2>1. UNCHANGED <<cfg, confirmed, clip>> /\ served' \subseteq served \cup {now}
    BY <1>3 DEF Roll, Drop, Resume, Delete, Tick, vars, recording
  <2> QED
    BY <1>1, <2>1
<1>4. ~(FallBack \/ MakeNoClip \/ Finish \/ Retry)
  BY DEF FallBack, MakeNoClip, Finish, Retry, IsStitched
<1>5. CASE RecordClip
  BY <1>5 DEF RecordClip, IsStitched
<1>6. CASE Confirm
  <2>1. clip' = clip /\ confirmed = Nothing
    BY <1>6 DEF Confirm
  <2> QED
    BY <1>0, <2>1 DEF IsStitched, Whole, InTime
<1> QED
  BY <1>2, <1>3, <1>4, <1>5, <1>6 DEF Next

LEMMA WholeAlways == Spec => []Whole
<1>1. Init => LengthBound /\ Past /\ Accounted /\ InTime /\ WholeWhenPrompt
  BY ClipAssumption
  DEF ClipAssumption, Init, LengthBound, Past, Accounted, InTime, WholeWhenPrompt,
      IsStitched, Records, NoJob
<1>2. Whole /\ [Next]_vars => LengthBound' /\ Past' /\ Accounted' /\ InTime'
  BY LengthStep, PastStep, AccountedStep, InTimeStep DEF Whole
<1> QED
  BY InvAlways, WholeStep, <1>1, <1>2, PTL DEF Spec, Whole

(* An attempt in time, over a recording without a gap, gives exactly the   *)
(* window: its last segment is finished when the job runs, and the first   *)
(* is neither deleted nor outside the look-back (run_at,                   *)
(* find_segments_covering, the retention of bridge.py).                    *)
THEOREM PromptIsWhole == Spec => []WholeWhenPrompt
  BY WholeAlways, PTL DEF Whole

-----------------------------------------------------------------------------
(* The clips on disk.                                                      *)

(* With its clips on disk the monitor still does what Clip lets it do, and *)
(* what others do to the clips is nothing to Clip.                         *)
THEOREM LibraryIsClip == LibrarySpec => Spec
<1>1. LibraryInit => Init
  BY DEF LibraryInit
<1>2. [LibraryNext]_allVars => [Next]_vars
  <2> SUFFICES ASSUME [LibraryNext]_allVars PROVE [Next]_vars
    OBVIOUS
  <2>1. CASE Underway /\ (Recording \/ StitchFile \/ StartLive \/ EndLive \/ NoFile \/ Settle)
    BY <2>1 DEF Underway, Recording, StitchFile, StartLive, EndLive, NoFile, Settle, Next
  <2>2. CASE AddMedia \/ UploadClip \/ Prune
    BY <2>2 DEF AddMedia, UploadClip, Beside, Prune, Meddle
  <2>3. CASE \/ \E at \in Present : OtherStitched(at)
             \/ \E began \in idle .. now : OtherLive(began)
    BY <2>3 DEF OtherStitched, OtherLive, Meddle
  <2>4. CASE UNCHANGED allVars
    BY <2>4 DEF allVars
  <2> QED
    BY <2>1, <2>2, <2>3, <2>4 DEF LibraryNext
<1> QED
  BY <1>1, <1>2, PTL DEF LibrarySpec, Spec

Row == [name : 0 .. MaxTime, digest : SUBSET Int]

LibraryTyped ==
  /\ files \in [0 .. MaxTime -> (SUBSET Int) \cup {Nothing}]
  /\ stage \in {"none", "made", "noted", "kept", "exported"}
  /\ idle \in 0 .. now
  /\ meddled \in Seq({"pruned", "collided", "other"})
  /\ worker.began \in 0 .. now
  /\ worker.pc = "record" => cfg.post > 0

(* While its clip is stored nobody takes its name, although all clips may  *)
(* be moved away.  The name is a second that is over.                      *)
Storing == worker.pc = "send" /\ stage # "none" =>
  /\ Name \in 0 .. now - 1
  /\ stage # "made" =>
       /\ row \in Row /\ row.name = Name
       /\ files[Name] = row.digest \/ (files[Name] = Nothing /\ Did("pruned"))
  /\ stage = "exported" => exported = row.digest

(* Afterwards only a live recording of the second of its name could, which *)
(* would have to begin before the worker was idle.                         *)
Stored == job.status = "complete" /\ stage \in {"kept", "exported"} =>
  /\ row \in Row /\ row.name < idle
  /\ stage = "exported" => exported = row.digest
  /\ Did("pruned") \/ Did("collided") \/ files[row.name] = row.digest

LibraryInv == LibraryTyped /\ Storing /\ Stored

LEMMA Remembered ==
  ASSUME LibraryTyped, NEW what \in {"pruned", "collided", "other"},
         meddled' = Append(meddled, what)
  PROVE  /\ meddled' \in Seq({"pruned", "collided", "other"})
         /\ Did(what)' /\ \A other : Did(other) => Did(other)'
<1>1. /\ meddled' \in Seq({"pruned", "collided", "other"})
      /\ Len(meddled') = Len(meddled) + 1 /\ Len(meddled) \in Nat
      /\ meddled'[Len(meddled) + 1] = what
      /\ \A i \in 1 .. Len(meddled) : meddled'[i] = meddled[i]
  BY DEF LibraryTyped
<1>2. Did(what)'
  BY <1>1 DEF Did
<1>3. ASSUME NEW other, Did(other) PROVE Did(other)'
  BY <1>1, <1>3 DEF Did
<1> QED
  BY <1>1, <1>2, <1>3

(* The attempt: what it may do to the files, and when it is.               *)
LEMMA AttemptBasics ==
  ASSUME Whole, LibraryTyped
  PROVE  /\ now \in 0 .. MaxTime /\ now \in Nat /\ MaxTime \in Nat /\ served \subseteq Int
         /\ cfg.post \in Nat
         /\ Due => confirmed \in 0 .. MaxTime /\ confirmed <= now
         /\ Due /\ cfg.preRoll > 0 => confirmed < now
         /\ Stitched(Covering) \subseteq Int
         /\ Due => Attempted \subseteq [0 .. MaxTime -> (SUBSET Int) \cup {Nothing}]
<1>1. /\ now \in 0 .. MaxTime /\ now \in Nat /\ MaxTime \in Nat /\ served \subseteq Int
      /\ cfg.post \in Nat
  BY Numbers, ClipAssumption DEF ClipAssumption, Whole, Inv, Recorded
<1>2. Due => confirmed \in Nat /\ confirmed <= now
  BY <1>1 DEF Due, Whole, Inv, JobTyped
<1>3. Due => confirmed \in 0 .. MaxTime /\ confirmed <= now
  BY <1>1, <1>2
<1>4. Due /\ cfg.preRoll > 0 => confirmed < now
  <2> SUFFICES ASSUME Due, cfg.preRoll > 0 PROVE confirmed < now
    OBVIOUS
  <2>1. RunAt(confirmed) <= now
    BY DEF Due, Whole, InTime
  <2>2. /\ RunAt(confirmed) = confirmed + cfg.post + cfg.segment + Margin
        /\ cfg.segment \in Nat \ {0} /\ Margin \in Nat
    BY <1>2, Numbers DEF Whole
  <2> QED
    BY <1>1, <1>2, <2>1, <2>2
<1>5. Stitched(Covering) \subseteq Int
  BY <1>1, StitchedServed DEF Whole, Inv
<1>6. Due => Attempted \subseteq [0 .. MaxTime -> (SUBSET Int) \cup {Nothing}]
  BY <1>3 DEF Attempted, Broken, LibraryTyped
<1> QED
  BY <1>1, <1>3, <1>4, <1>5, <1>6

LEMMA AttemptStep ==
  ASSUME Whole, LibraryInv, StitchFile \/ StartLive \/ EndLive \/ NoFile
  PROVE  LibraryInv'
<1> USE DEF LibraryInv
<1>0. /\ now \in 0 .. MaxTime /\ now \in Nat /\ MaxTime \in Nat /\ served \subseteq Int
      /\ files \in [0 .. MaxTime -> (SUBSET Int) \cup {Nothing}]
  BY AttemptBasics DEF LibraryTyped
<1>1. ASSUME job'.status = "running" PROVE Stored'
  BY <1>1 DEF Stored
<1>2. ASSUME Due, NEW pc, Claim(pc)
      PROVE  /\ job'.status = "running" /\ worker' = [pc |-> pc, began |-> now]
             /\ UNCHANGED <<cfg, now, confirmed>>
  BY <1>2 DEF Claim, Due, Whole, Inv, JobTyped
<1>3. CASE StitchFile
  <2>1. /\ Due /\ cfg.preRoll > 0 /\ Claim("send") /\ stage' = "made"
        /\ UNCHANGED <<idle, meddled>>
        /\ clip' = [kind |-> "stitched", at |-> now, segments |-> Covering,
                    seconds |-> Stitched(Covering)]
        /\ files' = [files EXCEPT ![confirmed] = clip'.seconds]
    BY <1>3 DEF StitchFile, BuildClipWithPreroll, Holds
  <2>2. /\ job'.status = "running" /\ worker' = [pc |-> "send", began |-> now]
        /\ UNCHANGED <<cfg, now, confirmed>>
    BY <1>2, <2>1
  <2>3. files' \in [0 .. MaxTime -> (SUBSET Int) \cup {Nothing}]
    <3>1. clip'.seconds \in SUBSET Int
      BY <2>1, AttemptBasics
    <3> QED
      BY <1>0, <2>1, <3>1
  <2>4. Name' = confirmed /\ confirmed \in 0 .. now - 1
    <3>1. Name' = confirmed
      BY <2>1, <2>2 DEF Name
    <3> QED
      BY <1>0, <2>1, <3>1, AttemptBasics
  <2>5. LibraryTyped'
    BY <1>0, <2>1, <2>2, <2>3 DEF LibraryTyped
  <2>6. Storing'
    BY <2>1, <2>2, <2>4 DEF Storing
  <2> QED
    BY <1>1, <2>2, <2>5, <2>6
<1>4. CASE StartLive
  <2>1. /\ Due /\ cfg.post > 0 /\ Claim("record") /\ stage' = "none"
        /\ UNCHANGED <<idle, meddled>>
        /\ files' \in {[f EXCEPT ![now] = Broken] : f \in Attempted}
    BY <1>4 DEF StartLive, FallBack
  <2>2. /\ job'.status = "running" /\ worker' = [pc |-> "record", began |-> now]
        /\ UNCHANGED <<cfg, now, confirmed>>
    BY <1>2, <2>1
  <2>3. files' \in [0 .. MaxTime -> (SUBSET Int) \cup {Nothing}]
    BY <1>0, <2>1, AttemptBasics DEF Broken
  <2>4. LibraryTyped'
    BY <1>0, <2>1, <2>2, <2>3 DEF LibraryTyped
  <2>5. Storing'
    BY <2>1 DEF Storing
  <2> QED
    BY <1>1, <2>2, <2>4, <2>5
<1>5. CASE EndLive
  <2>1. /\ worker.pc = "record" /\ now >= worker.began + cfg.post
        /\ worker' = [worker EXCEPT !.pc = "send"]
        /\ UNCHANGED <<cfg, now, served, confirmed, job, idle, meddled>>
    BY <1>5 DEF EndLive, RecordClip, recording
  <2>2. /\ stage' = IF clip' = Nothing THEN "none" ELSE "made"
        /\ clip' # Nothing => /\ clip'.kind = "live" /\ clip'.at = worker.began
                              /\ clip'.seconds \subseteq served
                              /\ files' = [files EXCEPT ![worker.began] = clip'.seconds]
        /\ clip' = Nothing => files' = files
    BY <1>5 DEF EndLive, RecordClip, Holds
  <2>3. /\ worker'.pc = "send" /\ worker'.began = worker.began /\ job'.status = "running"
    BY <2>1 DEF Whole, Inv, JobTyped
  <2>4. worker.began \in 0 .. now - 1 /\ worker.began \in 0 .. MaxTime
    BY <1>0, <2>1, AttemptBasics DEF LibraryTyped
  <2>5. files' \in [0 .. MaxTime -> (SUBSET Int) \cup {Nothing}]
    <3>1. CASE clip' = Nothing
      BY <1>0, <2>2, <3>1
    <3>2. CASE clip' # Nothing
      <4>1. clip'.seconds \in SUBSET Int
        BY <1>0, <2>2, <3>2
      <4> QED
        BY <1>0, <2>2, <2>4, <3>2, <4>1
    <3> QED
      BY <3>1, <3>2
  <2>6. LibraryTyped'
    BY <1>0, <2>1, <2>2, <2>3, <2>5 DEF LibraryTyped
  <2>7. clip' # Nothing => Name' = worker.began
    BY <2>2 DEF Name
  <2>8. Storing'
    BY <2>1, <2>2, <2>4, <2>7 DEF Storing
  <2> QED
    BY <1>1, <2>3, <2>6, <2>8
<1>6. CASE NoFile
  <2>1. /\ Due /\ Claim("send") /\ stage' = "none" /\ UNCHANGED <<idle, meddled>>
        /\ files' \in Attempted
    BY <1>6 DEF NoFile, MakeNoClip
  <2>2. /\ job'.status = "running" /\ worker' = [pc |-> "send", began |-> now]
        /\ UNCHANGED <<cfg, now, confirmed>>
    BY <1>2, <2>1
  <2>3. LibraryTyped'
    BY <1>0, <2>1, <2>2, AttemptBasics DEF LibraryTyped
  <2>4. Storing'
    BY <2>1 DEF Storing
  <2> QED
    BY <1>1, <2>2, <2>3, <2>4
<1> QED
  BY <1>3, <1>4, <1>5, <1>6

LEMMA StoreStep ==
  ASSUME Whole, LibraryInv, AddMedia \/ UploadClip \/ Settle
  PROVE  LibraryInv'
<1> USE DEF LibraryInv
<1>0. now \in 0 .. MaxTime /\ now \in Nat /\ MaxTime \in Nat
  BY AttemptBasics
<1>r. worker.pc = "send" => job.status = "running"
  BY DEF Whole, Inv, JobTyped
<1>1. CASE AddMedia
  <2>1. /\ worker.pc = "send" /\ stage = "made" /\ files[Name] # Nothing
        /\ row' = [name |-> Name, digest |-> files[Name]] /\ stage' = "noted"
        /\ UNCHANGED <<cfg, now, confirmed, job, worker, clip, files, idle, meddled>>
    BY <1>1 DEF AddMedia, Beside, vars
  <2>2. Name \in 0 .. now - 1 /\ Name' = Name
    BY <2>1 DEF Storing, Name
  <2>3. Name \in 0 .. MaxTime /\ files[Name] \in SUBSET Int
    BY <1>0, <2>1, <2>2 DEF LibraryTyped
  <2>4. row' \in Row /\ row'.name = Name /\ row'.digest = files[Name]
    BY <2>1, <2>3 DEF Row
  <2>5. LibraryTyped' /\ Storing' /\ Stored'
    BY <1>r, <2>1, <2>2, <2>4 DEF LibraryTyped, Storing, Stored
  <2> QED
    BY <2>5
<1>2. CASE UploadClip
  <2>1. /\ worker.pc = "send" /\ stage = "noted"
        /\ \/ stage' = "kept"
           \/ files[Name] # Nothing /\ exported' = files[Name] /\ stage' = "exported"
        /\ UNCHANGED <<cfg, now, confirmed, job, worker, clip, files, row, idle, meddled>>
    BY <1>2 DEF UploadClip, Beside, vars
  <2>2. Name' = Name
    BY <2>1 DEF Name
  <2>3. /\ Name \in 0 .. now - 1 /\ row \in Row /\ row.name = Name
        /\ files[Name] = row.digest \/ (files[Name] = Nothing /\ Did("pruned"))
    BY <2>1 DEF Storing
  <2>4. LibraryTyped'
    BY <2>1 DEF LibraryTyped
  <2>5. Storing'
    BY <2>1, <2>2, <2>3 DEF Storing, Did
  <2>6. Stored'
    BY <1>r, <2>1 DEF Stored
  <2> QED
    BY <2>4, <2>5, <2>6
<1>3. CASE Settle
  <2>1. /\ worker.pc = "send" /\ worker' = Idle /\ idle' = now
        /\ UNCHANGED <<cfg, now, confirmed, files, row, exported, stage, meddled>>
        /\ \/ stage \in {"none", "kept", "exported"}
           \/ Retry
    BY <1>3 DEF Settle, Finish, Retry
  <2>2. LibraryTyped' /\ Storing'
    BY <1>0, <2>1 DEF LibraryTyped, Storing, Idle
  <2>3. Retry => job'.status # "complete"
    BY DEF Retry, Whole, Inv, JobTyped
  <2>4. ASSUME stage \in {"kept", "exported"} PROVE Stored'
    <3>1. /\ row \in Row /\ row.name \in 0 .. now - 1
          /\ files[row.name] = row.digest \/ Did("pruned")
          /\ stage = "exported" => exported = row.digest
      BY <2>1, <2>4 DEF Storing
    <3> QED
      BY <1>0, <2>1, <3>1 DEF Stored, Did
  <2>5. Stored'
    BY <2>1, <2>3, <2>4 DEF Stored
  <2> QED
    BY <2>2, <2>5
<1> QED
  BY <1>1, <1>2, <1>3

LEMMA MeddleStep ==
  ASSUME Whole, LibraryInv,
         \/ Prune
         \/ \E at \in Present : OtherStitched(at)
         \/ \E began \in idle .. now : OtherLive(began)
  PROVE  LibraryInv'
<1> USE DEF LibraryInv
<1>0. /\ now \in 0 .. MaxTime /\ now \in Nat /\ MaxTime \in Nat /\ idle \in 0 .. now
      /\ files \in [0 .. MaxTime -> (SUBSET Int) \cup {Nothing}]
  BY AttemptBasics DEF LibraryTyped
<1>1. ASSUME NEW what \in {"pruned", "collided", "other"}, Meddle(what)
      PROVE  /\ UNCHANGED <<cfg, now, confirmed, job, worker, clip, row, exported, stage, idle>>
             /\ meddled' \in Seq({"pruned", "collided", "other"})
             /\ Did(what)' /\ \A other : Did(other) => Did(other)'
             /\ Name' = Name
  <2>1. /\ UNCHANGED <<cfg, now, confirmed, job, worker, clip, row, exported, stage, idle>>
        /\ meddled' = Append(meddled, what)
    BY <1>1 DEF Meddle, vars
  <2> QED
    BY <2>1, Remembered DEF Name
<1>2. CASE Prune
  <2>1. Meddle("pruned") /\ files' = [name \in 0 .. MaxTime |-> Nothing]
    BY <1>0, <1>2 DEF Prune
  <2>2. /\ UNCHANGED <<cfg, now, confirmed, job, worker, clip, row, exported, stage, idle>>
        /\ meddled' \in Seq({"pruned", "collided", "other"})
        /\ Did("pruned")' /\ Name' = Name
    BY <1>1, <2>1
  <2>3. LibraryTyped'
    <3>1. files' \in [0 .. MaxTime -> (SUBSET Int) \cup {Nothing}]
      BY <2>1
    <3> QED
      BY <2>2, <3>1 DEF LibraryTyped
  <2>4. Storing'
    <3>1. Name \in 0 .. now - 1 => Name \in 0 .. MaxTime
      BY <1>0
    <3> QED
      BY <2>1, <2>2, <3>1 DEF Storing
  <2>5. Stored'
    BY <2>2 DEF Stored
  <2> QED
    BY <2>3, <2>4, <2>5
\* Who writes over a file while this worker is idle, under a name not in use
\* or to be told of.
<1>3. ASSUME worker.pc = "idle", NEW what \in {"collided", "other"}, Meddle(what),
             NEW name \in 0 .. MaxTime, Holds(name, Foreign),
             what = "other" /\ row \in Row => row.name # name \/ row.name >= idle
      PROVE  LibraryInv'
  <2>1. /\ UNCHANGED <<cfg, now, confirmed, job, worker, clip, row, exported, stage, idle>>
        /\ meddled' \in Seq({"pruned", "collided", "other"})
        /\ Did(what)' /\ \A other : Did(other) => Did(other)'
    BY <1>1, <1>3
  <2>2. files' = [files EXCEPT ![name] = Foreign]
    BY <1>3 DEF Holds
  <2>3. LibraryTyped'
    BY <1>0, <2>1, <2>2 DEF LibraryTyped, Foreign
  <2>4. Storing'
    BY <1>3, <2>1 DEF Storing
  <2>5. ASSUME row \in Row, row.name < idle, Did("pruned") \/ Did("collided") \/ files[row.name] = row.digest
        PROVE  (Did("pruned") \/ Did("collided") \/ files[row.name] = row.digest)'
    <3>1. CASE what = "collided"
      BY <2>1, <3>1
    <3>2. CASE what = "other"
      <4>1. row.name # name
        BY <1>0, <1>3, <2>5, <3>2 DEF Row
      <4>2. files'[row.name] = files[row.name]
        BY <1>0, <2>2, <2>5, <4>1 DEF Row
      <4> QED
        BY <2>1, <2>5, <4>2
    <3> QED
      BY <1>3, <3>1, <3>2
  <2>6. Stored'
    BY <2>1, <2>5 DEF Stored
  <2> QED
    BY <2>3, <2>4, <2>6
<1>4. ASSUME NEW at \in Present, OtherStitched(at) PROVE LibraryInv'
  <2> DEFINE what == IF row # Nothing /\ row.name = at THEN "collided" ELSE "other"
  <2>1. worker.pc = "idle" /\ Meddle(what) /\ Holds(at, Foreign) /\ at \in 0 .. MaxTime
    BY <1>0, <1>4 DEF OtherStitched, Present
  <2>2. what \in {"collided", "other"}
    OBVIOUS
  <2>3. Row \subseteq [name : Nat, digest : SUBSET Int]
    BY <1>0 DEF Row
  <2>4. what = "other" /\ row \in Row => row.name # at
    BY <2>3, MeddlingAssumption DEF MeddlingAssumption
  <2> HIDE DEF what
  <2> QED
    BY <1>3, <2>1, <2>2, <2>4
<1>5. ASSUME NEW began \in idle .. now, OtherLive(began) PROVE LibraryInv'
  <2>1. worker.pc = "idle" /\ Meddle("other") /\ Holds(began, Foreign)
    BY <1>5 DEF OtherLive
  <2>2. began \in 0 .. MaxTime /\ began >= idle
    BY <1>0, <1>5
  <2>3. row.name # began \/ row.name >= idle
    BY <2>2
  <2> QED
    BY <1>3, <2>1, <2>2, <2>3
<1> QED
  BY <1>2, <1>4, <1>5

LEMMA LibraryStep == Whole /\ LibraryInv /\ [LibraryNext]_allVars => LibraryInv'
<1> SUFFICES ASSUME Whole, LibraryInv, [LibraryNext]_allVars PROVE LibraryInv'
  OBVIOUS
<1>0. now \in Nat
  BY AttemptBasics DEF LibraryInv
<1>1. CASE Underway /\ Recording /\ UNCHANGED library
  <2>1. /\ UNCHANGED <<files, row, exported, stage, idle, meddled, cfg, worker>>
        /\ now' \in {now, now + 1} /\ worker.pc # "send"
    BY <1>1 DEF library, Recording, Roll, Drop, Resume, Delete, Tick, Confirm, recording
  <2>2. job'.status # "complete"
    <3>1. job' = job \/ Confirm
      BY <1>1 DEF Recording, Roll, Drop, Resume, Delete, Tick
    <3>2. Confirm => job'.status = "pending"
      BY DEF Confirm, NoJob
    <3> QED
      BY <1>1, <3>1, <3>2 DEF Underway
  <2> QED
    BY <1>0, <2>1, <2>2 DEF LibraryInv, LibraryTyped, Storing, Stored
<1>2. CASE UNCHANGED allVars
  <2>1. UNCHANGED <<files, row, exported, stage, idle, meddled, cfg, now, confirmed, job,
                    worker, clip>>
    BY <1>2 DEF allVars, library, vars
  <2> QED
    BY <2>1 DEF LibraryInv, LibraryTyped, Storing, Stored, Name, Did
<1> QED
  BY <1>1, <1>2, AttemptStep, StoreStep, MeddleStep DEF LibraryNext

(* What is noted of a finished clip, and what the storage was given, is    *)
(* its last attempt's, and the file still shows it unless the owner pruned *)
(* or a name was given twice (add_media, upload_clip, clip.py).            *)
THEOREM NotedIsKept == LibrarySpec => []ClipKept
<1>1. LibraryInit => LibraryInv
  <2> SUFFICES ASSUME LibraryInit PROVE LibraryInv
    OBVIOUS
  <2>1. /\ now = 0 /\ job.status = "absent" /\ worker = [pc |-> "idle", began |-> 0]
        /\ files = [name \in 0 .. MaxTime |-> Nothing] /\ meddled = <<>>
        /\ stage = "none" /\ idle = 0
    BY DEF LibraryInit, Init, NoJob, Idle
  <2>2. /\ files \in [0 .. MaxTime -> (SUBSET Int) \cup {Nothing}]
        /\ meddled \in Seq({"pruned", "collided", "other"})
    BY <2>1
  <2> QED
    BY <2>1, <2>2 DEF LibraryInv, LibraryTyped, Storing, Stored
<1>2. LibraryInv => ClipKept
  BY DEF LibraryInv, Stored, ClipKept
<1>3. LibrarySpec => []Whole
  BY LibraryIsClip, WholeAlways, PTL
<1> QED
  BY <1>1, <1>2, <1>3, LibraryStep, PTL DEF LibrarySpec
=============================================================================
