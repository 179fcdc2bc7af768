-------------------------- MODULE Detection_proofs --------------------------
(***************************************************************************)
(* Proofs about Detection, for every requirement, re-arm setting, set of   *)
(* scenes and confidence scale: its counters stay in range, and it         *)
(* implements VisitAlerts, that is, three counters decide what a reader of *)
(* the whole history of verdicts would.  From this follows what the owner  *)
(* sees: one alert for each visit that is long enough, with the confidence *)
(* of the polls that raised it.  The worker under its supervisor is still  *)
(* this loop: what is proved for every sequence of polls and restarts      *)
(* holds of a worker that is launched, refused, killed and launched again. *)
(* And of the supervisor's policy: for any window, limit and long delay    *)
(* the exits of a worker within a window stay few.  From the exit that is  *)
(* the Limit-th of a window on, the next is a long delay away, which is    *)
(* kept as the sum of an exit's age and what is left of its delay.         *)
(***************************************************************************)
EXTENDS Monitor, SequenceTheorems, FiniteSetTheorems, WellFoundedInduction, TLAPS

(* Before an alert, streak counts the trailing positive verdicts of this   *)
(* worker; after one, negPolls counts the trailing negative ones.          *)
Armed ==
  /\ streak < V!Support
  /\ Len(polls) - streak >= since
  /\ \A i \in (Len(polls) - streak + 1) .. Len(polls) : polls[i]
  /\ Len(polls) - streak = since \/ ~polls[Len(polls) - streak]
  /\ ~V!InVisit(polls, alerts, since)

Fired ==
  /\ negPolls < Quiet
  /\ Len(polls) - negPolls > since
  /\ polls[Len(polls) - negPolls]
  /\ \A i \in (Len(polls) - negPolls + 1) .. Len(polls) : ~polls[i]
  /\ \A a \in alerts : a <= Len(polls) - negPolls
  /\ V!InVisit(polls, alerts, since)

Inv ==
  /\ TypeOK
  /\ ~alreadyFired => Armed
  /\ alreadyFired => Fired

LEMMA Positive ==
  /\ V!Support \in Nat \ {0}
  /\ V!Quiet \in Nat \ {0}
  /\ Quiet = V!Quiet
BY DetectionAssumption DEF V!Support, V!Quiet, Quiet

(* The threshold the code tests is the one the abstract level states.      *)
LEMMA ReachedIsSupport ==
  ASSUME NEW n \in Nat, n < V!Support
  PROVE  Reached(n + 1) <=> n + 1 = V!Support
BY DetectionAssumption DEF Reached, V!Support

LEMMA Appended ==
  ASSUME NEW ps \in Seq(BOOLEAN), NEW p \in BOOLEAN
  PROVE  /\ Append(ps, p) \in Seq(BOOLEAN)
         /\ Len(Append(ps, p)) = Len(ps) + 1
         /\ \A i \in 1 .. Len(ps) : Append(ps, p)[i] = ps[i]
         /\ Append(ps, p)[Len(ps) + 1] = p
OBVIOUS

(* A quiet run stays in the history.                                       *)
LEMMA QuietedStays ==
  ASSUME NEW ps \in Seq(BOOLEAN), NEW p \in BOOLEAN, NEW a \in Nat,
         V!Quieted(a, ps)
  PROVE  V!Quieted(a, Append(ps, p))
<1>1. PICK q \in (a + V!Quiet) .. Len(ps) :
        \A i \in (q - V!Quiet + 1) .. q : ~ps[i]
  BY DEF V!Quieted
<1>2. q \in (a + V!Quiet) .. Len(Append(ps, p))
  BY <1>1, Appended, Positive
<1>3. ASSUME NEW i \in (q - V!Quiet + 1) .. q  PROVE ~Append(ps, p)[i]
  <2>1. i \in 1 .. Len(ps)
    BY <1>1, <1>3, Positive
  <2> QED
    BY <1>1, <1>3, <2>1, Appended
<1> QED
  BY <1>2, <1>3 DEF V!Quieted

(* A quiet run that is new after one more verdict ends in that verdict.    *)
LEMMA QuietedNew ==
  ASSUME NEW ps \in Seq(BOOLEAN), NEW p \in BOOLEAN, NEW a \in Nat,
         V!Quieted(a, Append(ps, p)), ~V!Quieted(a, ps)
  PROVE  /\ a + V!Quiet <= Len(ps) + 1
         /\ \A i \in (Len(ps) + 1 - V!Quiet + 1) .. (Len(ps) + 1) : ~Append(ps, p)[i]
<1>1. PICK q \in (a + V!Quiet) .. Len(Append(ps, p)) :
        \A i \in (q - V!Quiet + 1) .. q : ~Append(ps, p)[i]
  BY DEF V!Quieted
<1>2. ASSUME q <= Len(ps) PROVE FALSE
  <2>1. \A i \in (q - V!Quiet + 1) .. q : i \in 1 .. Len(ps)
    BY <1>1, <1>2, Positive
  <2>2. \A i \in (q - V!Quiet + 1) .. q : ~ps[i]
    BY <1>1, <2>1, Appended
  <2>3. q \in (a + V!Quiet) .. Len(ps)
    BY <1>1, <1>2, Positive, Appended
  <2> QED
    BY <2>2, <2>3 DEF V!Quieted
<1>3. q = Len(ps) + 1
  BY <1>1, <1>2, Appended, Positive
<1> QED
  BY <1>1, <1>3, Appended, Positive

-----------------------------------------------------------------------------
(* Type correctness of every step.                                         *)

LEMMA InitInv == Init => Inv
<1> SUFFICES ASSUME Init PROVE Inv
  OBVIOUS
<1>1. TypeOK
  <2>1. V!TypeOK
    BY DEF Init, V!TypeOK
  <2>2. scores \in Seq(Nat) /\ Len(scores) = Len(polls)
    BY DEF Init
  <2>3. streak \in 0 .. V!Support /\ negPolls \in 0 .. Quiet
    BY Positive DEF Init
  <2> QED
    BY <2>1, <2>2, <2>3 DEF Init, TypeOK
<1>2. Armed
  BY Positive DEF Init, Armed, V!InVisit
<1> QED
  BY <1>1, <1>2 DEF Init, Inv

(* What a debounced poll does to the history, and what it leaves alone.    *)
LEMMA StepType ==
  ASSUME Inv, NEW p \in BOOLEAN, NEW c \in Nat, Debounce(p, c),
         config' = config, prevThumb' \in Scenes \cup {NoThumb}
  PROVE  TypeOK'
<1> USE DEF Inv, TypeOK
<1>1. /\ polls' \in Seq(BOOLEAN)
      /\ Len(polls') = Len(polls) + 1
      /\ since' = since
      /\ scores' \in Seq(Nat)
      /\ Len(scores') = Len(polls')
  BY DEF Debounce, V!TypeOK
<1>2. CASE p /\ alreadyFired /\ SameVisit
  BY <1>1, <1>2, Positive DEF SameVisit, V!TypeOK
<1>3. CASE p /\ ~alreadyFired /\ ~Reached(streak + 1) /\ CountPositive(c)
  <2>1. streak + 1 \in 0 .. V!Support
    BY <1>3, Positive DEF Armed
  <2> QED
    BY <1>1, <1>3, <2>1, Positive DEF CountPositive, Larger, V!TypeOK
<1>4. CASE p /\ ~alreadyFired /\ Reached(streak + 1) /\ Fire(c)
  <2>1. streak + 1 \in 0 .. V!Support
    BY <1>4, Positive DEF Armed
  <2>2. bestConfidence' \in Nat /\ yielded' \in Nat
    BY <1>4 DEF Fire, Larger
  <2>3. alreadyFired' \in BOOLEAN /\ negPolls' \in 0 .. Quiet
    BY <1>4, Positive DEF Fire
  <2>4. alerts' \subseteq 1 .. Len(polls')
    <3>1. alerts \subseteq 1 .. Len(polls) /\ Len(polls) \in Nat
      BY DEF V!TypeOK
    <3>2. alerts' = alerts \cup {Len(polls')}
      BY <1>4 DEF Fire
    <3>3. ASSUME NEW x \in alerts' PROVE x \in 1 .. Len(polls')
      <4>1. x \in 1 .. Len(polls) \/ x = Len(polls')
        BY <3>1, <3>2, <3>3
      <4>2. Len(polls') \in Nat /\ Len(polls') = Len(polls) + 1
        BY <1>1, <3>1
      <4> QED
        BY <3>1, <4>1, <4>2
    <3> QED
      BY <3>3
  <2> QED
    BY <1>1, <1>4, <2>1, <2>2, <2>3, <2>4 DEF Fire, V!TypeOK
<1>5. CASE ~p /\ alreadyFired /\ negPolls + 1 < Quiet /\ StayInVisit
  BY <1>1, <1>5, Positive DEF StayInVisit, V!TypeOK
<1>6. CASE ~p /\ (alreadyFired => negPolls + 1 >= Quiet) /\ Rearm
  <2>1. negPolls' \in 0 .. Quiet
    BY <1>6, Positive DEF Rearm, Fired
  <2>2. alreadyFired' \in BOOLEAN
    BY <1>6 DEF Rearm
  <2>3. streak' \in 0 .. V!Support
    BY <1>6, Positive DEF Rearm
  <2> QED
    BY <1>1, <1>6, <2>1, <2>2, <2>3, Positive DEF Rearm, V!TypeOK
<1> QED
  BY <1>2, <1>3, <1>4, <1>5, <1>6 DEF Debounce

(* A debounced poll keeps the counters' meaning, and raises an alert       *)
(* exactly when the abstract level does.                                   *)
LEMMA StepInv ==
  ASSUME Inv, NEW p \in BOOLEAN, NEW c \in Nat, Debounce(p, c),
         config' = config, prevThumb' \in Scenes \cup {NoThumb}
  PROVE  Inv' /\ V!Observe(p)
<1> DEFINE n == Len(polls)
<1>1. TypeOK /\ TypeOK'
  BY StepType DEF Inv
<1>2. /\ polls \in Seq(BOOLEAN) /\ n \in Nat
      /\ since \in 0 .. n
      /\ alerts \subseteq 1 .. n
      /\ streak \in Nat /\ negPolls \in Nat
  BY <1>1, Positive DEF TypeOK, V!TypeOK
<1>3. /\ polls' = Append(polls, p) /\ since' = since
      /\ Len(polls') = n + 1
      /\ \A i \in 1 .. n : polls'[i] = polls[i]
      /\ polls'[n + 1] = p
  BY <1>2 DEF Debounce
<1>4. V!InVisit(polls', alerts, since) => V!InVisit(polls, alerts, since)
  BY <1>2, <1>3, QuietedStays DEF V!InVisit
<1>5. CASE p /\ alreadyFired /\ SameVisit
  <2>1. V!InVisit(polls', alerts, since)
    <3>1. PICK a \in alerts : a > since /\ ~V!Quieted(a, polls)
      BY <1>5 DEF Inv, Fired, V!InVisit
    <3>2. ~V!Quieted(a, polls')
      <4>1. SUFFICES ASSUME V!Quieted(a, Append(polls, p)) PROVE FALSE
        BY <1>3
      <4>2. \A i \in (n + 1 - V!Quiet + 1) .. (n + 1) : ~polls'[i]
        <5>1. a \in Nat
          BY <1>2, <3>1
        <5>2. \A i \in (n + 1 - V!Quiet + 1) .. (n + 1) : ~Append(polls, p)[i]
          BY <1>2, <3>1, <4>1, <5>1, QuietedNew
        <5> QED
          BY <1>3, <5>2
      <4> QED
        BY <1>2, <1>3, <1>5, <4>2, Positive
    <3> QED
      BY <3>1, <3>2 DEF V!InVisit
  <2>2. Fired'
    <3>1. negPolls' = 0 /\ alerts' = alerts
      BY <1>5 DEF SameVisit
    <3>2. V!InVisit(polls, alerts, since)'
      BY <1>3, <2>1, <3>1
    <3>3. negPolls' < Quiet' /\ Len(polls') - negPolls' = n + 1
      BY <1>2, <1>3, <3>1, Positive
    <3>4. polls'[n + 1]
      BY <1>3, <1>5
    <3>5. \A a \in alerts' : a <= n + 1
      BY <1>2, <3>1
    <3>6. \A i \in (Len(polls') - negPolls' + 1) .. Len(polls') : ~polls'[i]
      BY <1>2, <1>3, <3>1
    <3> QED
      BY <1>2, <1>3, <3>2, <3>3, <3>4, <3>5, <3>6 DEF Fired
  <2>3. V!Observe(p)
    BY <1>3, <1>5, <2>1 DEF V!Observe, SameVisit
  <2> QED
    BY <1>1, <1>5, <2>2, <2>3 DEF Inv, SameVisit
<1>6. CASE p /\ ~alreadyFired /\ ~Reached(streak + 1) /\ CountPositive(c)
  <2>1. /\ streak' = streak + 1 /\ alerts' = alerts /\ ~alreadyFired'
        /\ streak + 1 < V!Support
    BY <1>2, <1>6, ReachedIsSupport, Positive DEF CountPositive, Inv, Armed
  <2>2. Armed /\ ~V!InVisit(polls', alerts, since)
    BY <1>4, <1>6 DEF Inv, Armed
  <2>3. ~V!InVisit(polls, alerts, since)'
    BY <1>3, <2>1, <2>2
  <2>4. Armed'
    <3>1. streak' < V!Support' /\ Len(polls') - streak' = n - streak
      BY <1>2, <1>3, <2>1, Positive
    <3>2. \A i \in (n - streak + 1) .. (n + 1) : polls'[i]
      <4>1. \A i \in (n - streak + 1) .. n : polls[i]
        BY <2>2 DEF Armed
      <4>2. \A i \in (n - streak + 1) .. n : i \in 1 .. n
        BY <1>2, <2>2 DEF Armed
      <4>3. polls'[n + 1]
        BY <1>3, <1>6
      <4> QED
        BY <1>2, <1>3, <4>1, <4>2, <4>3
    <3>3. n - streak >= since /\ (n - streak = since \/ ~polls'[n - streak])
      BY <1>2, <1>3, <2>2 DEF Armed
    <3> QED
      BY <1>3, <2>3, <3>1, <3>2, <3>3 DEF Armed
  <2>5. ~V!Confirmed(polls', since)
    <3>1. SUFFICES ASSUME V!Confirmed(polls', since) PROVE FALSE
      OBVIOUS
    <3>0. /\ n + 1 - V!Support >= since
          /\ \A i \in (n + 1 - V!Support + 1) .. (n + 1) : polls'[i]
      BY <1>2, <1>3, <3>1, Positive DEF V!Confirmed
    <3>2. n - streak > since
      BY <1>2, <2>1, <3>0, Positive
    <3>3. ~polls[n - streak] /\ n - streak \in 1 .. n
      BY <1>2, <2>2, <3>2 DEF Armed
    <3>4. n - streak \in (n + 1 - V!Support + 1) .. (n + 1)
      BY <1>2, <2>1, Positive
    <3> QED
      BY <1>3, <3>0, <3>3, <3>4
  <2> QED
    BY <1>1, <1>3, <2>1, <2>4, <2>5 DEF Inv, V!Observe
<1>7. CASE p /\ ~alreadyFired /\ Reached(streak + 1) /\ Fire(c)
  <2>1. /\ streak + 1 = V!Support
        /\ alerts' = alerts \cup {n + 1} /\ alreadyFired' /\ negPolls' = 0
    BY <1>2, <1>3, <1>7, ReachedIsSupport, Positive DEF Fire, Inv, Armed
  <2>2. Armed /\ ~V!InVisit(polls', alerts, since)
    BY <1>4, <1>7 DEF Inv, Armed
  <2>3. V!Confirmed(polls', since)
    BY <1>2, <1>3, <1>7, <2>1, <2>2 DEF V!Confirmed, Armed
  <2>4. ~V!Quieted(n + 1, polls')
    BY <1>2, <1>3, Positive DEF V!Quieted
  <2>5. V!InVisit(polls, alerts, since)'
    BY <1>2, <1>3, <2>1, <2>4 DEF V!InVisit
  <2>6. Fired'
    <3>1. negPolls' < Quiet' /\ Len(polls') - negPolls' = n + 1
      BY <1>2, <1>3, <2>1, Positive
    <3>2. polls'[n + 1] /\ n + 1 > since'
      BY <1>2, <1>3, <1>7
    <3>3. \A a \in alerts' : a <= n + 1
      BY <1>2, <2>1
    <3>4. \A i \in (Len(polls') - negPolls' + 1) .. Len(polls') : ~polls'[i]
      BY <1>2, <1>3, <2>1
    <3> QED
      BY <2>5, <3>1, <3>2, <3>3, <3>4 DEF Fired
  <2> QED
    BY <1>1, <1>3, <2>1, <2>2, <2>3, <2>6 DEF Inv, V!Observe
<1>8. CASE ~p /\ alreadyFired /\ negPolls + 1 < Quiet /\ StayInVisit
  <2>1. Fired /\ negPolls' = negPolls + 1 /\ alerts' = alerts /\ alreadyFired'
    BY <1>8 DEF Inv, StayInVisit
  <2>2. V!InVisit(polls', alerts, since)
    <3>1. PICK a \in alerts : a > since /\ ~V!Quieted(a, polls)
      BY <2>1 DEF Fired, V!InVisit
    <3>2. ~V!Quieted(a, polls')
      <4>1. SUFFICES ASSUME V!Quieted(a, Append(polls, p)) PROVE FALSE
        BY <1>3
      <4>2. \A i \in (n + 1 - V!Quiet + 1) .. (n + 1) : ~polls'[i]
        <5>1. a \in Nat
          BY <1>2, <3>1
        <5>2. \A i \in (n + 1 - V!Quiet + 1) .. (n + 1) : ~Append(polls, p)[i]
          BY <1>2, <3>1, <4>1, <5>1, QuietedNew
        <5> QED
          BY <1>3, <5>2
      <4>3. n - negPolls \in (n + 1 - V!Quiet + 1) .. (n + 1)
        BY <1>2, <1>8, Positive
      <4>4. n - negPolls \in 1 .. n /\ polls[n - negPolls]
        BY <1>2, <2>1 DEF Fired
      <4> QED
        BY <1>3, <4>2, <4>3, <4>4
    <3> QED
      BY <3>1, <3>2 DEF V!InVisit
  <2>3. V!InVisit(polls, alerts, since)'
    BY <1>3, <2>1, <2>2
  <2>4. Fired'
    <3>1. negPolls' < Quiet' /\ Len(polls') - negPolls' = n - negPolls
      BY <1>2, <1>3, <1>8, <2>1
    <3>2. n - negPolls > since /\ n - negPolls \in 1 .. n /\ polls[n - negPolls]
      BY <1>2, <2>1 DEF Fired
    <3>3. \A a \in alerts' : a <= n - negPolls
      BY <2>1 DEF Fired
    <3>4. \A i \in (n - negPolls + 1) .. (n + 1) : ~polls'[i]
      <4>1. \A i \in (n - negPolls + 1) .. n : ~polls[i] /\ i \in 1 .. n
        BY <1>2, <2>1, <3>2 DEF Fired
      <4>2. ~polls'[n + 1]
        BY <1>3, <1>8
      <4> QED
        BY <1>2, <1>3, <4>1, <4>2
    <3> QED
      BY <1>3, <2>3, <3>1, <3>2, <3>3, <3>4 DEF Fired
  <2> QED
    BY <1>1, <1>3, <2>1, <2>2, <2>4 DEF Inv, V!Observe
<1>9. CASE ~p /\ (alreadyFired => negPolls + 1 >= Quiet) /\ Rearm
  <2>1. streak' = 0 /\ alerts' = alerts /\ ~alreadyFired'
    BY <1>9 DEF Rearm
  <2>2. ~V!InVisit(polls', alerts, since)
    <3>1. CASE ~alreadyFired
      BY <1>4, <3>1 DEF Inv, Armed
    <3>2. CASE alreadyFired
      <4>1. Fired /\ negPolls + 1 = V!Quiet
        BY <1>2, <1>9, <3>2, Positive DEF Inv, Fired
      <4>2. ASSUME NEW a \in alerts PROVE V!Quieted(a, polls')
        <5>1. n + 1 \in (a + V!Quiet) .. Len(polls')
          BY <1>2, <1>3, <4>1, <4>2, Positive DEF Fired
        <5>2. \A i \in (n + 1 - V!Quiet + 1) .. (n + 1) : ~polls'[i]
          <6>1. \A i \in (n - negPolls + 1) .. n : ~polls[i] /\ i \in 1 .. n
            BY <1>2, <4>1 DEF Fired
          <6>2. ~polls'[n + 1] /\ n + 1 - V!Quiet = n - negPolls
            BY <1>2, <1>3, <1>9, <4>1, Positive
          <6>3. ASSUME NEW i \in (n - negPolls + 1) .. (n + 1) PROVE ~polls'[i]
            <7>1. i \in (n - negPolls + 1) .. n \/ i = n + 1
              BY <1>2, <6>3
            <7> QED
              BY <1>3, <6>1, <6>2, <7>1
          <6> QED
            BY <6>2, <6>3
        <5>3. \E q \in (a + V!Quiet) .. Len(polls') :
                 \A i \in (q - V!Quiet + 1) .. q : ~polls'[i]
          <6> WITNESS n + 1 \in (a + V!Quiet) .. Len(polls')
          <6> QED
            BY <1>2, <5>2, Positive
        <5> QED
          BY <5>3 DEF V!Quieted
      <4> QED
        BY <4>2 DEF V!InVisit
    <3> QED
      BY <3>1, <3>2
  <2>3. ~V!InVisit(polls, alerts, since)'
    BY <1>3, <2>1, <2>2
  <2>4. Armed'
    BY <1>2, <1>3, <1>9, <2>1, <2>3, Positive DEF Armed
  <2>5. ~V!Confirmed(polls', since)
    BY <1>2, <1>3, <1>9, Positive DEF V!Confirmed
  <2> QED
    BY <1>1, <1>3, <2>1, <2>4, <2>5 DEF Inv, V!Observe
<1> QED
  BY <1>5, <1>6, <1>7, <1>8, <1>9 DEF Debounce

-----------------------------------------------------------------------------
(* The actions of Detection.                                               *)

(* A failed poll touches neither the counters nor the history.             *)
LEMMA FailedPoll ==
  ASSUME Inv, prevThumb' \in Scenes \cup {NoThumb},
         UNCHANGED <<config, locals, yielded, history>>
  PROVE  Inv' /\ UNCHANGED V!visitVars
<1>1. UNCHANGED <<config, streak, alreadyFired, negPolls, bestConfidence, yielded,
                  polls, scores, alerts, since>>
  BY DEF locals, history
<1>2. TypeOK'
  BY <1>1 DEF Inv, TypeOK, V!TypeOK
<1>3. (~alreadyFired => Armed)'
  BY <1>1 DEF Inv, Armed, V!InVisit
<1>4. (alreadyFired => Fired)'
  BY <1>1 DEF Inv, Fired, V!InVisit
<1> QED
  BY <1>1, <1>2, <1>3, <1>4 DEF Inv, V!visitVars

LEMMA RestartedWorker ==
  ASSUME Inv, WorkerRestart
  PROVE  Inv' /\ V!Restart
<1>1. /\ alerts' = alerts /\ polls' = polls /\ since' = Len(polls)
      /\ streak' = 0 /\ negPolls' = 0
      /\ alreadyFired' = FALSE
  BY DEF WorkerRestart
<1>2. polls \in Seq(BOOLEAN) /\ Len(polls) \in Nat /\ alerts \subseteq 1 .. Len(polls)
  BY DEF Inv, TypeOK, V!TypeOK
<1>3. TypeOK'
  <2>1. V!TypeOK'
    BY <1>1, <1>2 DEF V!TypeOK
  <2>2. streak' \in 0 .. V!Support /\ negPolls' \in 0 .. Quiet
    BY <1>1, Positive
  <2> QED
    BY <1>1, <2>1, <2>2 DEF Inv, TypeOK, WorkerRestart
<1>4. ~V!InVisit(polls', alerts', since')
  <2>1. \A a \in alerts : ~(a > Len(polls))
    BY <1>2
  <2> QED
    BY <1>1, <2>1 DEF V!InVisit
<1>5. Armed'
  <2>1. /\ streak' < V!Support' /\ Len(polls') - streak' = since'
    BY <1>1, <1>2, Positive
  <2>2. \A i \in (Len(polls') - streak' + 1) .. Len(polls') : polls'[i]
    BY <1>1, <1>2
  <2> QED
    BY <1>1, <1>2, <1>4, <2>1, <2>2 DEF Armed
<1> QED
  BY <1>1, <1>3, <1>5 DEF Inv, V!Restart

(* The invariant is inductive, and every step of Detection is a step of    *)
(* VisitAlerts or leaves its variables alone.                              *)
LEMMA NextInv ==
  ASSUME Inv, [Next]_vars
  PROVE  Inv' /\ [V!Next]_(V!visitVars)
<1>1. CASE CaptureFailed
  BY <1>1, FailedPoll DEF CaptureFailed, Inv, TypeOK
<1>2. ASSUME NEW thumb \in Scenes \cup {NoThumb}, ModelUnreachable(thumb)
      PROVE  Inv' /\ UNCHANGED V!visitVars
  <2>1. prevThumb' \in Scenes \cup {NoThumb}
    BY <1>2 DEF ModelUnreachable, NextBaseline, Inv, TypeOK
  <2> QED
    BY <1>2, <2>1, FailedPoll DEF ModelUnreachable
<1>3. ASSUME NEW thumb \in Scenes \cup {NoThumb}, PollMotion(thumb) \/ PollGated(thumb)
      PROVE  Inv' /\ \E p \in BOOLEAN : V!Observe(p)
  <2>1. /\ config' = config
        /\ prevThumb' \in Scenes \cup {NoThumb}
    BY <1>3 DEF PollMotion, PollGated, NextBaseline, Inv, TypeOK
  <2>2. (IF Moved(thumb) THEN Full ELSE 0) \in Nat /\ Moved(thumb) \in BOOLEAN
    BY DetectionAssumption DEF Moved
  <2> QED
    BY <1>3, <2>1, <2>2, StepInv DEF PollMotion, PollGated
<1>4. ASSUME NEW thumb \in Scenes \cup {NoThumb}, NEW feeding \in BOOLEAN,
             NEW confidence \in Parsed, PollModel(thumb, feeding, confidence)
      PROVE  Inv' /\ \E p \in BOOLEAN : V!Observe(p)
  <2>1. /\ config' = config
        /\ prevThumb' \in Scenes \cup {NoThumb}
    BY <1>4 DEF PollModel, NextBaseline, Inv, TypeOK
  <2>2. Parsed \subseteq Nat
    BY DetectionAssumption DEF Parsed
  <2>3. confidence \in Nat /\ Verdict(thumb, feeding, confidence) \in BOOLEAN
    BY <2>2 DEF Verdict, Moved
  <2> QED
    BY <1>4, <2>1, <2>3, StepInv DEF PollModel
<1>5. CASE WorkerRestart
  BY <1>5, RestartedWorker DEF V!Next
<1>6. CASE UNCHANGED vars
  BY <1>6, FailedPoll DEF vars, Inv, TypeOK
<1> QED
  BY <1>1, <1>2, <1>3, <1>4, <1>5, <1>6 DEF Next, Poll, V!Next, Parsed

-----------------------------------------------------------------------------

LEMMA InvAlways == Spec => []Inv
<1>1. Inv /\ [Next]_vars => Inv'
  BY NextInv
<1> QED
  BY InitInv, <1>1, PTL DEF Spec

(* The counters of poll_stream never leave their ranges.                   *)
THEOREM TypeCorrect == Spec => []TypeOK
<1>1. Inv => TypeOK
  BY DEF Inv
<1> QED
  BY InvAlways, <1>1, PTL

(* poll_stream implements one alert per visit.                             *)
THEOREM Refinement == Spec => RefinesVisitAlerts
<1>1. Init => V!Init
  BY DEF Init, V!Init
<1>2. Inv /\ [Next]_vars => [V!Next]_(V!visitVars)
  BY NextInv
<1> QED
  BY InvAlways, <1>1, <1>2, PTL DEF Spec, V!Spec, RefinesVisitAlerts

-----------------------------------------------------------------------------
(* What the alerts mean to the owner.                                      *)

(* One more verdict leaves every beginning of the history as it was.       *)
LEMMA Beginnings ==
  ASSUME NEW ps \in Seq(BOOLEAN), NEW p \in BOOLEAN
  PROVE  /\ \A b \in 1 .. Len(ps) : SubSeq(Append(ps, p), 1, b) = SubSeq(ps, 1, b)
         /\ SubSeq(ps, 1, Len(ps)) = ps
<1>1. ASSUME NEW b \in 1 .. Len(ps)
      PROVE  SubSeq(Append(ps, p), 1, b) = SubSeq(ps, 1, b)
  <2> DEFINE longer == SubSeq(Append(ps, p), 1, b)
             shorter == SubSeq(ps, 1, b)
  <2>1. /\ longer \in Seq(BOOLEAN) /\ shorter \in Seq(BOOLEAN)
        /\ Len(longer) = b /\ Len(shorter) = b
        /\ \A i \in 1 .. b : longer[i] = Append(ps, p)[i] /\ shorter[i] = ps[i]
    BY Appended, SubSeqProperties
  <2>2. \A i \in 1 .. b : longer[i] = shorter[i]
    BY <2>1, Appended
  <2> QED
    BY <2>1, <2>2, SeqEqual
<1>2. SubSeq(ps, 1, Len(ps)) = ps
  BY SubSeqFull
<1> QED
  BY <1>1, <1>2

LEMMA ObservedVisit ==
  ASSUME Inv, OneAlertPerVisit, NEW p \in BOOLEAN, V!Observe(p)
  PROVE  OneAlertPerVisit'
<1>1. /\ polls \in Seq(BOOLEAN) /\ Len(polls) \in Nat
      /\ alerts \subseteq 1 .. Len(polls) /\ since \in 0 .. Len(polls)
      /\ polls' = Append(polls, p) /\ since' = since
      /\ polls' \in Seq(BOOLEAN) /\ Len(polls') = Len(polls) + 1
  BY Appended DEF Inv, TypeOK, V!TypeOK, V!Observe
<1>2. /\ \A b \in 1 .. Len(polls) : SubSeq(polls', 1, b) = SubSeq(polls, 1, b)
      /\ SubSeq(polls', 1, Len(polls')) = polls'
  BY <1>1, Beginnings
<1>3. \/ alerts' = alerts \cup {Len(polls')} /\ ~V!InVisit(polls', alerts, since)
      \/ alerts' = alerts /\ (V!Confirmed(polls', since) => V!InVisit(polls', alerts, since))
  BY <1>1 DEF V!Observe
<1>4. ASSUME NEW a \in alerts', NEW b \in alerts', since' < a, a < b
      PROVE  V!Quieted(a, SubSeq(polls', 1, b))
  <2>1. \A c \in alerts' : c \in alerts \/ c = Len(polls) + 1
    BY <1>1, <1>3
  <2>2. a \in alerts
    <3>1. \A c \in alerts : c \in Int /\ c <= Len(polls)
      BY <1>1
    <3>2. b \in Int /\ b <= Len(polls) + 1
      <4>1. CASE b \in alerts
        BY <1>1, <3>1, <4>1
      <4>2. CASE b = Len(polls) + 1
        BY <1>1, <4>2
      <4> QED
        BY <2>1, <4>1, <4>2
    <3>3. a # Len(polls) + 1
      BY <1>1, <1>4, <3>2
    <3> QED
      BY <2>1, <3>3
  <2>3. CASE b \in alerts
    BY <1>1, <1>2, <1>4, <2>2, <2>3 DEF OneAlertPerVisit
  <2>4. CASE b \notin alerts
    <3>1. b = Len(polls') /\ ~V!InVisit(polls', alerts, since)
      BY <1>3, <2>4, <1>4
    <3>2. V!Quieted(a, polls')
      BY <1>1, <1>4, <2>2, <3>1 DEF V!InVisit
    <3> QED
      BY <1>2, <3>1, <3>2
  <2> QED
    BY <2>3, <2>4
<1>5. ASSUME NEW b \in 1 .. Len(polls'), V!Confirmed(SubSeq(polls', 1, b), since')
      PROVE  \E a \in alerts' : since' < a /\ a <= b /\ ~V!Quieted(a, SubSeq(polls', 1, b))
  <2>1. CASE b \in 1 .. Len(polls)
    <3>1. PICK a \in alerts : since < a /\ a <= b /\ ~V!Quieted(a, SubSeq(polls, 1, b))
      BY <1>1, <1>2, <1>5, <2>1 DEF OneAlertPerVisit
    <3> QED
      BY <1>1, <1>2, <1>3, <2>1, <3>1
  <2>2. CASE b = Len(polls')
    <3>1. SubSeq(polls', 1, b) = polls' /\ V!Confirmed(polls', since)
      BY <1>1, <1>2, <1>5, <2>2
    <3>2. CASE alerts' = alerts \cup {b}
      <4>1. ~V!Quieted(b, polls')
        BY <1>1, <2>2, Positive DEF V!Quieted
      <4>2. since < b /\ b <= b
        BY <1>1, <2>2
      <4>3. b \in alerts' /\ since' = since
        BY <1>1, <3>2
      <4> QED
        BY <3>1, <4>1, <4>2, <4>3
    <3>3. CASE alerts' = alerts /\ V!InVisit(polls', alerts, since)
      <4>1. PICK a \in alerts : a > since /\ ~V!Quieted(a, polls')
        BY <3>3 DEF V!InVisit
      <4>2. a <= b /\ since < a
        BY <1>1, <2>2, <4>1
      <4> QED
        BY <1>1, <3>1, <3>3, <4>1, <4>2
    <3> QED
      BY <1>3, <2>2, <3>1, <3>2, <3>3
  <2> QED
    BY <1>1, <2>1, <2>2
<1> QED
  BY <1>4, <1>5 DEF OneAlertPerVisit

(* A new worker has alerted nothing and seen nothing.                      *)
LEMMA RestartedVisit ==
  ASSUME Inv, V!Restart
  PROVE  OneAlertPerVisit'
<1>1. /\ polls' = polls /\ alerts' = alerts /\ since' = Len(polls)
      /\ polls \in Seq(BOOLEAN) /\ Len(polls) \in Nat /\ alerts \subseteq 1 .. Len(polls)
  BY DEF Inv, TypeOK, V!TypeOK, V!Restart
<1>2. \A a \in alerts : ~(since' < a)
  BY <1>1
<1>3. ASSUME NEW b \in 1 .. Len(polls) PROVE ~V!Confirmed(SubSeq(polls, 1, b), since')
  <2>1. Len(SubSeq(polls, 1, b)) = b
    BY <1>1, <1>3, SubSeqProperties
  <2> QED
    BY <1>1, <2>1, Positive DEF V!Confirmed
<1> QED
  BY <1>1, <1>2, <1>3 DEF OneAlertPerVisit

(* For every requirement and re-arm setting the owner is told of a visit   *)
(* once, and of every visit that is long enough (poll_stream).             *)
THEOREM AlertedOnce == Spec => []OneAlertPerVisit
<1>1. Init => OneAlertPerVisit
  BY DEF Init, OneAlertPerVisit
<1>2. ASSUME Inv, OneAlertPerVisit, [Next]_vars PROVE OneAlertPerVisit'
  <2>1. CASE UNCHANGED V!visitVars
    BY <1>2, <2>1 DEF OneAlertPerVisit, V!visitVars
  <2>2. CASE V!Next
    BY <1>2, <2>2, ObservedVisit, RestartedVisit DEF V!Next
  <2> QED
    BY <1>2, <2>1, <2>2, NextInv
<1> QED
  BY InvAlways, <1>1, <1>2, PTL DEF Spec

-----------------------------------------------------------------------------
(* What confidence an alert carries.                                       *)

(* Before an alert, bestConfidence is the largest confidence of the streak.*)
BestSoFar == ~alreadyFired =>
  LET window == (Len(polls) - streak + 1) .. Len(polls) IN
  /\ \A i \in window : bestConfidence >= scores[i]
  /\ (streak = 0 /\ bestConfidence = 0) \/ \E i \in window : bestConfidence = scores[i]

(* One more positive poll, and the largest confidence of the longer streak.*)
LEMMA LargestSeen ==
  ASSUME Inv, BestSoFar, ~alreadyFired, NEW c \in Nat,
         Len(polls') = Len(polls) + 1, scores' = Append(scores, c)
  PROVE  LET window == (Len(polls') - streak) .. Len(polls') IN
         /\ \A i \in window : Larger(bestConfidence, c) >= scores'[i]
         /\ \E i \in window : Larger(bestConfidence, c) = scores'[i]
<1> DEFINE n == Len(polls)
<1>1. /\ n \in Nat /\ streak \in Nat /\ bestConfidence \in Nat /\ streak <= n
      /\ scores \in Seq(Nat) /\ Len(scores) = n
  BY Positive DEF Inv, TypeOK, Armed, V!TypeOK
<1>2. /\ \A i \in 1 .. n : scores'[i] = scores[i] /\ scores[i] \in Nat
      /\ scores'[n + 1] = c
  BY <1>1
<1>3. \A i \in (n - streak + 1) .. n : i \in 1 .. n
  BY <1>1
<1>4. \A i \in (n - streak + 1) .. n : bestConfidence >= scores[i]
  BY DEF BestSoFar
<1>5. \A i \in (n - streak + 1) .. (n + 1) : Larger(bestConfidence, c) >= scores'[i]
  BY <1>1, <1>2, <1>3, <1>4 DEF Larger
<1>6. \E i \in (n - streak + 1) .. (n + 1) : Larger(bestConfidence, c) = scores'[i]
  <2>1. CASE c >= bestConfidence
    BY <1>1, <1>2, <2>1 DEF Larger
  <2>2. CASE ~(c >= bestConfidence)
    <3>1. PICK i \in (n - streak + 1) .. n : bestConfidence = scores[i]
      BY <1>1, <2>2 DEF BestSoFar
    <3>2. i \in (n - streak + 1) .. (n + 1) /\ scores'[i] = bestConfidence
      BY <1>1, <1>2, <1>3, <3>1
    <3> QED
      BY <1>1, <2>2, <3>2 DEF Larger
  <2> QED
    BY <2>1, <2>2
<1>7. Len(polls') - streak = n - streak + 1 /\ Len(polls') = n + 1
  BY <1>1
<1> QED
  BY <1>5, <1>6, <1>7

LEMMA DebouncedConfidence ==
  ASSUME Inv, BestSoFar, NEW p \in BOOLEAN, NEW c \in Nat, Debounce(p, c)
  PROVE  BestSoFar' /\ AlertConfidence'
<1>1. /\ Len(polls') = Len(polls) + 1 /\ Len(polls) \in Nat
      /\ scores' = Append(scores, IF p THEN c ELSE 0)
      /\ alerts \subseteq 1 .. Len(polls)
      /\ streak \in Nat /\ alreadyFired \in BOOLEAN
  BY Positive DEF Inv, TypeOK, V!TypeOK, Debounce
<1>2. ASSUME alerts' = alerts PROVE AlertConfidence'
  BY <1>1, <1>2 DEF AlertConfidence
<1>3. CASE p /\ alreadyFired /\ SameVisit
  BY <1>2, <1>3 DEF SameVisit, BestSoFar
<1>4. CASE p /\ ~alreadyFired /\ ~Reached(streak + 1) /\ CountPositive(c)
  <2>1. streak' = streak + 1 /\ bestConfidence' = Larger(bestConfidence, c) /\ alerts' = alerts
    BY <1>4 DEF CountPositive
  <2>2. Len(polls') - streak' + 1 = Len(polls') - streak
    BY <1>1, <2>1
  <2>3. BestSoFar'
    BY <1>1, <1>4, <2>1, <2>2, LargestSeen DEF BestSoFar
  <2> QED
    BY <1>2, <2>1, <2>3
<1>5. CASE p /\ ~alreadyFired /\ Reached(streak + 1) /\ Fire(c)
  <2>1. yielded' = Larger(bestConfidence, c) /\ alreadyFired'
    BY <1>5 DEF Fire
  <2>2. streak + 1 = V!Support
    BY <1>1, <1>5, ReachedIsSupport DEF Inv, Armed
  <2>3. Len(polls') - V!Support + 1 = Len(polls') - streak
    BY <1>1, <2>2
  <2>4. V!Support' = V!Support
    BY DEF V!Support
  <2> QED
    BY <1>1, <1>5, <2>1, <2>3, <2>4, LargestSeen DEF BestSoFar, AlertConfidence
<1>6. CASE ~p /\ alreadyFired /\ StayInVisit
  BY <1>2, <1>6 DEF StayInVisit, BestSoFar
<1>7. CASE ~p /\ Rearm
  <2>1. streak' = 0 /\ bestConfidence' = 0 /\ alerts' = alerts
    BY <1>7 DEF Rearm
  <2>2. \A i \in (Len(polls') - streak' + 1) .. Len(polls') : FALSE
    BY <1>1, <2>1
  <2> QED
    BY <1>2, <2>1, <2>2 DEF BestSoFar
<1> QED
  BY <1>3, <1>4, <1>5, <1>6, <1>7 DEF Debounce

(* For every requirement and confidence scale an alert carries the largest *)
(* confidence of the positive polls that raised it, never one of an        *)
(* earlier visit (best_confidence in poll_stream).                         *)
THEOREM ConfidenceOfVisit == Spec => []AlertConfidence
<1> DEFINE Both == BestSoFar /\ AlertConfidence
<1>1. Init => Both
  BY DEF Init, BestSoFar, AlertConfidence
<1>2. ASSUME Inv, Both, [Next]_vars PROVE Both'
  <2>1. ASSUME UNCHANGED <<locals, yielded, history>> PROVE Both'
    BY <1>2, <2>1 DEF locals, history, BestSoFar, AlertConfidence
  <2>2. CASE CaptureFailed \/ UNCHANGED vars
    BY <2>1, <2>2 DEF CaptureFailed, vars
  <2>3. ASSUME NEW thumb \in Scenes \cup {NoThumb}, ModelUnreachable(thumb) PROVE Both'
    BY <2>1, <2>3 DEF ModelUnreachable
  <2>4. ASSUME NEW thumb \in Scenes \cup {NoThumb}, PollMotion(thumb) \/ PollGated(thumb)
        PROVE  Both'
    <3>1. (IF Moved(thumb) THEN Full ELSE 0) \in Nat /\ Moved(thumb) \in BOOLEAN
      BY DetectionAssumption DEF Moved
    <3> QED
      BY <1>2, <2>4, <3>1, DebouncedConfidence DEF PollMotion, PollGated
  <2>5. ASSUME NEW thumb \in Scenes \cup {NoThumb}, NEW feeding \in BOOLEAN,
               NEW confidence \in Parsed, PollModel(thumb, feeding, confidence)
        PROVE  Both'
    <3>1. Parsed \subseteq Nat
      BY DetectionAssumption DEF Parsed
    <3>2. confidence \in Nat /\ Verdict(thumb, feeding, confidence) \in BOOLEAN
      BY <3>1 DEF Verdict, Moved
    <3> QED
      BY <1>2, <2>5, <3>2, DebouncedConfidence DEF PollModel
  <2>6. CASE WorkerRestart
    <3>1. /\ streak' = 0 /\ bestConfidence' = 0 /\ polls' = polls /\ since' = Len(polls)
          /\ Len(polls) \in Nat
      BY <1>2, <2>6 DEF WorkerRestart, Inv, TypeOK, V!TypeOK
    <3> QED
      BY <3>1 DEF BestSoFar, AlertConfidence
  <2> QED
    BY <1>2, <2>2, <2>3, <2>4, <2>5, <2>6 DEF Next, Poll
<1>3. Both => AlertConfidence
  OBVIOUS
<1> QED
  BY InvAlways, <1>1, <1>2, <1>3, PTL DEF Spec

-----------------------------------------------------------------------------
(* The worker under its supervisor.                                        *)

(* A step of the monitor polls, starts a worker, or leaves the loop alone. *)
LEMMA MonitorStep == [MonitorNext]_allVars => [Next]_vars
<1> SUFFICES ASSUME [MonitorNext]_allVars
             PROVE  [Next]_vars
  OBVIOUS
<1>1. CASE WorkerPolls
  BY <1>1 DEF WorkerPolls, Next
<1>2. CASE EnterLoop
  BY <1>2 DEF EnterLoop, Next
<1>3. CASE Second
  BY <1>3 DEF Second
<1>4. CASE Pass \/ PassFails \/ \E wanted \in BOOLEAN : SetMonitoring(wanted)
  BY <1>4 DEF Pass, PassFails, SetMonitoring
<1>5. CASE Refuses \/ WorkerDies
  BY <1>5 DEF Refuses, WorkerDies
<1>6. CASE \E p \in Probes : Look(p) \/ LookEnds(p)
  BY <1>6 DEF Look, LookEnds
<1>7. CASE StrayStarts \/ StrayEnds \/ Reconfigure
  BY <1>7 DEF StrayStarts, StrayEnds, Reconfigure
<1>8. CASE UNCHANGED allVars
  BY <1>8 DEF allVars
<1> QED
  BY <1>1, <1>2, <1>3, <1>4, <1>5, <1>6, <1>7, <1>8 DEF MonitorNext, Progress

(* Whatever the supervisor, the lock and the users do, the worker's loop   *)
(* runs as Detection says (worker, poll_stream).                           *)
THEOREM RunsDetection == MonitorSpec => Spec
<1>1. MonitorInit => Init
  BY DEF MonitorInit
<1> QED
  BY <1>1, MonitorStep, PTL DEF MonitorSpec, Spec

(* So it raises one alert for each visit, for any thresholds, restart      *)
(* policy and bounds (poll_stream under _reconcile).                       *)
THEOREM AlertsPerVisit == MonitorSpec => RefinesVisitAlerts
  BY RunsDetection, Refinement

(* And each of them once for a visit, with the confidence of the polls     *)
(* that raised it, across every relaunch.                                  *)
THEOREM AlertsTrue == MonitorSpec => [](OneAlertPerVisit /\ AlertConfidence)
  BY RunsDetection, AlertedOnce, ConfidenceOfVisit, PTL

-----------------------------------------------------------------------------
(* The exits of the worker.                                                *)

(* The exit of age a had enough exits before it to be given a long delay.  *)
Delayed(ages, a) == Cardinality({b \in ages : b >= a}) >= Limit

Spaced(ages) ==
  \A a, b \in ages : Delayed(ages, a) /\ b < a => a - b >= LongDelay

(* What is left of the delay and the age make up the long delay together.  *)
Rested(ages, left) ==
  \A a \in ages : Delayed(ages, a) => a + left >= LongDelay

Recent(ages) == ages \subseteq 0 .. (Window - 1)

Contained ==
  /\ exits = stamps
  /\ Recent(stamps)
  /\ wait \in Int
  /\ worker # "none" => wait = 0
  /\ Spaced(stamps)
  /\ Rested(stamps, wait)

LEMMA MonitorNumbers ==
  /\ Window \in Nat \ {0} /\ Limit \in Nat \ {0} /\ LongDelay \in Nat \ {0}
  /\ Window \in Int /\ Limit \in Int /\ LongDelay \in Int
BY MonitorAssumption

LEMMA RecentFinite ==
  ASSUME NEW ages, Recent(ages)
  PROVE  /\ IsFiniteSet(ages) /\ Cardinality(ages) \in Nat
         /\ \A part \in SUBSET ages : /\ IsFiniteSet(part) /\ Cardinality(part) \in Nat
                                      /\ Cardinality(part) <= Cardinality(ages)
<1>1. IsFiniteSet(0 .. (Window - 1))
  BY MonitorNumbers, FS_Interval
<1>2. IsFiniteSet(ages)
  BY <1>1, FS_Subset DEF Recent
<1> QED
  BY <1>2, FS_Subset, FS_CardinalityType

LEMMA Least ==
  ASSUME NEW ages, ages \subseteq Nat, ages # {}
  PROVE  \E m \in ages : \A a \in ages : m <= a
<1>1. PICK m \in ages : \A a \in ages : <<a, m>> \notin OpToRel(<, Nat)
  BY NatLessThanWellFounded, WFMin, Zenon
<1>2. \A a \in ages : ~(a < m)
  BY <1>1, Zenon DEF OpToRel
<1>3. \A a \in ages : m <= a
  BY <1>2
<1> QED
  BY <1>3

(* Fewer than Limit ages were not delayed: of those, even the youngest has *)
(* fewer than Limit that are as old.                                       *)
LEMMA FewUndelayed ==
  ASSUME NEW ages, Recent(ages)
  PROVE  Cardinality({a \in ages : ~Delayed(ages, a)}) < Limit
<1> DEFINE quick == {a \in ages : ~Delayed(ages, a)}
<1>0. quick \subseteq Nat /\ quick \in SUBSET ages /\ IsFiniteSet(quick)
  <2>1. ages \subseteq Nat
    BY MonitorNumbers DEF Recent
  <2>2. quick \in SUBSET ages
    OBVIOUS
  <2>3. IsFiniteSet(quick)
    BY <2>2, RecentFinite, Zenon
  <2> QED
    BY <2>1, <2>2, <2>3
<1>1. CASE quick = {}
  BY <1>1, FS_EmptySet, MonitorNumbers
<1>2. CASE quick # {}
  <2>1. PICK m \in quick : \A a \in quick : m <= a
    BY <1>0, <1>2, Least
  <2> DEFINE before == {b \in ages : b >= m}
  <2>2. Cardinality(before) \in Nat /\ ~(Cardinality(before) >= Limit)
    BY RecentFinite DEF Delayed
  <2>3. quick \in SUBSET before /\ before \in SUBSET ages
    BY <1>0, <2>1
  <2>4. IsFiniteSet(before)
    BY <2>3, RecentFinite
  <2>5. Cardinality(quick) <= Cardinality(before)
    BY <2>3, <2>4, FS_Subset, Zenon
  <2>6. Cardinality(quick) \in Nat
    BY <1>0, FS_CardinalityType
  <2> QED
    BY <2>2, <2>5, <2>6, MonitorNumbers
<1> QED
  BY <1>1, <1>2

(* Division tells apart what is a long delay apart.                        *)
LEMMA Quotient ==
  ASSUME NEW a \in Nat
  PROVE  /\ a \div LongDelay \in Nat
         /\ LongDelay * (a \div LongDelay) <= a
         /\ a < LongDelay * (a \div LongDelay) + LongDelay
BY MonitorNumbers

LEMMA QuotientsDiffer ==
  ASSUME NEW a \in Nat, NEW b \in Nat, a - b >= LongDelay
  PROVE  a \div LongDelay # b \div LongDelay
BY Quotient, MonitorNumbers

LEMMA QuotientsOrdered ==
  ASSUME NEW a \in Nat, NEW b \in Nat, a <= b
  PROVE  a \div LongDelay <= b \div LongDelay
<1> DEFINE p == a \div LongDelay
           q == b \div LongDelay
<1>1. /\ p \in Nat /\ q \in Nat
      /\ LongDelay * p <= a /\ b < LongDelay * q + LongDelay
  BY Quotient
<1>2. LongDelay * p < LongDelay * (q + 1)
  BY <1>1, MonitorNumbers
<1> HIDE DEF p, q
<1>3. p < q + 1
  BY <1>1, <1>2, MonitorNumbers
<1>4. p <= q
  BY <1>1, <1>3
<1> QED
  BY <1>4 DEF p, q

LEMMA FewDelayed ==
  ASSUME NEW ages, Recent(ages), Spaced(ages)
  PROVE  Cardinality({a \in ages : Delayed(ages, a)}) <= (Window - 1) \div LongDelay + 1
<1> DEFINE late  == {a \in ages : Delayed(ages, a)}
           most  == (Window - 1) \div LongDelay
           turn  == [a \in late |-> a \div LongDelay]
<1>1. late \subseteq 0 .. (Window - 1) /\ most \in Nat
  <2>1. Window - 1 \in Nat
    BY MonitorNumbers
  <2> QED
    BY <2>1, Quotient DEF Recent
<1>2. \A a \in late : a \div LongDelay \in 0 .. most
  BY <1>1, Quotient, QuotientsOrdered, MonitorNumbers
<1>3. ASSUME NEW a \in late, NEW b \in late, a # b
      PROVE  a \div LongDelay # b \div LongDelay
  <2>1. a \in Nat /\ b \in Nat
    BY <1>1
  <2>2. a - b >= LongDelay \/ b - a >= LongDelay
    BY <1>3, <2>1 DEF Spaced
  <2> QED
    BY <2>1, <2>2, QuotientsDiffer
<1>4. turn \in Injection(late, 0 .. most)
  <2>1. turn \in [late -> 0 .. most]
    BY <1>2
  <2>2. \A a, b \in late : turn[a] = turn[b] => a = b
    BY <1>3
  <2> QED
    BY <2>1, <2>2, Zenon DEF Injection, IsInjective
<1>5. IsFiniteSet(0 .. most) /\ Cardinality(0 .. most) = most + 1
  BY <1>1, FS_Interval
<1>6. Cardinality(late) <= Cardinality(0 .. most)
  BY <1>4, <1>5, FS_Injection, Zenon
<1> QED
  BY <1>5, <1>6

LEMMA FewExits ==
  ASSUME NEW ages, Recent(ages), Spaced(ages)
  PROVE  Cardinality(ages) <= Limit + (Window - 1) \div LongDelay
<1> DEFINE late  == {a \in ages : Delayed(ages, a)}
           quick == {a \in ages : ~Delayed(ages, a)}
<1>1. /\ IsFiniteSet(late) /\ Cardinality(late) \in Nat
      /\ IsFiniteSet(quick) /\ Cardinality(quick) \in Nat
  <2>1. late \in SUBSET ages /\ quick \in SUBSET ages
    OBVIOUS
  <2> QED
    BY <2>1, RecentFinite, Zenon
<1>2. ages = late \cup quick /\ late \cap quick = {}
  OBVIOUS
<1>3. Cardinality(ages) = Cardinality(late) + Cardinality(quick) - Cardinality({})
  <2>1. Cardinality(late \cup quick)
          = Cardinality(late) + Cardinality(quick) - Cardinality(late \cap quick)
    BY <1>1, FS_Union, Zenon
  <2> QED
    BY <1>2, <2>1, Zenon
<1>4. Cardinality({}) = 0
  BY FS_EmptySet
<1>5. Cardinality(late) <= (Window - 1) \div LongDelay + 1 /\ Cardinality(quick) < Limit
  BY FewDelayed, FewUndelayed
<1>6. (Window - 1) \div LongDelay \in Nat
  BY Quotient, MonitorNumbers
<1> QED
  BY <1>1, <1>3, <1>4, <1>5, <1>6, MonitorNumbers

(* A second later nothing is delayed that was not before.                  *)
LEMMA OlderDelayed ==
  ASSUME NEW ages, Recent(ages), NEW a \in Older(ages), Delayed(Older(ages), a)
  PROVE  a - 1 \in ages /\ Delayed(ages, a - 1)
<1> DEFINE now  == {b \in Older(ages) : b >= a}
           then == {b \in ages : b >= a - 1}
           back == [b \in now |-> b - 1]
<1>0. ages \subseteq Int
  BY MonitorNumbers DEF Recent
<1>1. \A b \in Older(ages) : b \in Int /\ b - 1 \in ages
  BY <1>0 DEF Older
<1>2. back \in Injection(now, then)
  <2>1. back \in [now -> then]
    BY <1>1
  <2>2. \A b, c \in now : back[b] = back[c] => b = c
    BY <1>1
  <2> QED
    BY <2>1, <2>2, Zenon DEF Injection, IsInjective
<1>3. then \in SUBSET ages
  OBVIOUS
<1>4. IsFiniteSet(then) /\ Cardinality(then) \in Nat
  BY <1>3, RecentFinite, Zenon
<1>5. IsFiniteSet(now) /\ Cardinality(now) <= Cardinality(then)
  BY <1>2, <1>4, FS_Injection, Zenon
<1>6. Cardinality(now) \in Nat
  BY <1>5, FS_CardinalityType, Zenon
<1>7. Cardinality(now) >= Limit
  BY DEF Delayed
<1>8. Cardinality(then) >= Limit
  BY <1>4, <1>5, <1>6, <1>7, MonitorNumbers
<1> QED
  BY <1>1, <1>8 DEF Delayed

LEMMA SecondContained == Contained /\ Second => Contained'
<1> SUFFICES ASSUME Contained, Second PROVE Contained'
  OBVIOUS
<1>1. /\ stamps' = Older(stamps) /\ exits' = Older(exits) /\ worker' = worker
      /\ wait' = IF wait > 0 THEN wait - 1 ELSE 0
  BY DEF Second
<1>2. exits' = stamps' /\ Recent(stamps')
  BY <1>1 DEF Contained, Recent, Older
<1>3. wait' \in Int /\ (worker' # "none" => wait' = 0)
  BY <1>1 DEF Contained
<1>4. \A a \in stamps' : a \in Int /\ a - 1 \in stamps /\ a - 1 \in Int
  BY <1>1, MonitorNumbers DEF Contained, Recent, Older
<1>5. ASSUME NEW a \in Older(stamps), Delayed(Older(stamps), a)
      PROVE  Delayed(stamps, a - 1)
  BY <1>5, OlderDelayed DEF Contained
<1>6. Spaced(Older(stamps))
  <2> SUFFICES ASSUME NEW a \in Older(stamps), NEW b \in Older(stamps),
                      Delayed(Older(stamps), a), b < a
               PROVE  a - b >= LongDelay
    BY DEF Spaced
  <2>1. (a - 1) - (b - 1) >= LongDelay
    BY <1>1, <1>4, <1>5 DEF Contained, Spaced
  <2> QED
    BY <1>1, <1>4, <2>1, MonitorNumbers
<1>7. Rested(Older(stamps), wait')
  <2> SUFFICES ASSUME NEW a \in Older(stamps), Delayed(Older(stamps), a)
               PROVE  a + wait' >= LongDelay
    BY DEF Rested
  <2>1. (a - 1) + wait >= LongDelay
    BY <1>1, <1>4, <1>5 DEF Contained, Rested
  <2> QED
    BY <1>1, <1>4, <2>1, MonitorNumbers DEF Contained
<1> QED
  BY <1>1, <1>2, <1>3, <1>6, <1>7 DEF Contained

(* What a pass finds after the exit, if there was one, is as contained.    *)
LEMMA ReapedContained ==
  ASSUME Contained
  PROVE  /\ Recent(Reaped.stamps) /\ Spaced(Reaped.stamps)
         /\ Reaped.wait \in Int /\ Rested(Reaped.stamps, Reaped.wait)
         /\ Reaped.process # "none" => Reaped.wait = 0
<1>1. CASE worker # "exited"
  BY <1>1 DEF Reaped, Contained
<1>2. CASE worker = "exited"
  <2> DEFINE ages == stamps \cup {0}
             n    == Cardinality(ages)
  <2>1. /\ Reaped.stamps = ages /\ Reaped.wait = Delay(n) /\ Reaped.process = "none"
    BY <1>2 DEF Reaped
  <2>2. Recent(ages) /\ wait = 0
    BY <1>2, MonitorNumbers DEF Contained, Recent
  <2>3. n \in Nat
    BY <2>2, RecentFinite
  <2>4. Delay(n) \in Int
    <3>1. n # 0
      BY <2>2, RecentFinite, FS_EmptySet
    <3>2. n - 1 \in Nat
      BY <2>3, <3>1
    <3>3. 2 ^ (n - 1) \in Int
      BY <3>2
    <3> QED
      BY <3>3, MonitorNumbers DEF Delay
  <2>5. ASSUME NEW a \in ages, Delayed(ages, a) PROVE n >= Limit
    <3> DEFINE part == {b \in ages : b >= a}
    <3>1. part \in SUBSET ages
      OBVIOUS
    <3>2. Cardinality(part) \in Nat /\ Cardinality(part) <= n
      BY <2>2, <3>1, RecentFinite, Zenon
    <3>3. Cardinality(part) >= Limit
      BY <2>5 DEF Delayed
    <3> QED
      BY <2>3, <3>2, <3>3, MonitorNumbers
  <2>6. n >= Limit => Delay(n) = LongDelay
    BY DEF Delay
  <2>7. ASSUME NEW a \in ages, a # 0, Delayed(ages, a)
        PROVE  a \in stamps /\ a \in Nat /\ a >= LongDelay /\ Delayed(stamps, a)
    <3>1. a \in stamps /\ a \in Nat
      BY <2>7, MonitorNumbers DEF Contained, Recent
    <3>2. {b \in ages : b >= a} = {b \in stamps : b >= a}
      BY <2>7, <3>1
    <3>3. Delayed(stamps, a)
      BY <2>7, <3>2 DEF Delayed
    <3> QED
      BY <2>2, <3>1, <3>3 DEF Contained, Rested
  <2>8. \A a \in ages : a \in Nat
    BY <2>2, MonitorNumbers DEF Recent
  <2>9. Spaced(ages)
    <3> SUFFICES ASSUME NEW a \in ages, NEW b \in ages, Delayed(ages, a), b < a
                 PROVE  a - b >= LongDelay
      BY DEF Spaced
    <3>1. a # 0
      BY <2>8
    <3>2. CASE b = 0
      BY <2>7, <3>1, <3>2, MonitorNumbers
    <3>3. CASE b \in stamps
      BY <2>7, <3>1, <3>3 DEF Contained, Spaced
    <3> QED
      BY <3>2, <3>3
  <2>10. Rested(ages, Delay(n))
    <3> SUFFICES ASSUME NEW a \in ages, Delayed(ages, a)
                 PROVE  a + LongDelay >= LongDelay
      BY <2>5, <2>6 DEF Rested
    <3> QED
      BY <2>8, MonitorNumbers
  <2> QED
    BY <2>1, <2>2, <2>4, <2>9, <2>10
<1> QED
  BY <1>1, <1>2

LEMMA PassContained ==
  ASSUME Contained, Record,
         Unwanted \/ Keep \/ Cool \/ Launch \/ LaunchFails
  PROVE  Contained'
<1>1. /\ Recent(Reaped.stamps) /\ Spaced(Reaped.stamps)
      /\ Reaped.wait \in Int /\ Rested(Reaped.stamps, Reaped.wait)
      /\ Reaped.process # "none" => Reaped.wait = 0
  BY ReapedContained
<1>2. stamps' = Reaped.stamps /\ exits' = stamps'
  BY DEF Record, Reaped, Contained
<1>3. CASE wait' = Reaped.wait /\ (worker' # "none" => wait' = 0)
  BY <1>1, <1>2, <1>3 DEF Contained
<1>4. CASE LaunchFails
  <2>1. worker' = "none" /\ wait' = LongDelay
    BY <1>4 DEF LaunchFails
  <2>2. Rested(stamps', LongDelay)
    BY <1>1, <1>2, MonitorNumbers DEF Rested, Recent
  <2> QED
    BY <1>1, <1>2, <2>1, <2>2, MonitorNumbers DEF Contained
<1>5. CASE Unwanted
  BY <1>3, <1>5 DEF Unwanted
<1>6. CASE Cool
  BY <1>3, <1>6 DEF Cool
<1>7. CASE Launch
  BY <1>3, <1>7 DEF Launch
<1>8. CASE Keep
  <2>1. worker # "exited" /\ wait = Reaped.wait
    BY <1>8 DEF Keep, Reaped
  <2>2. wait' = wait /\ worker' = worker
    BY <1>8 DEF Keep
  <2> QED
    BY <1>3, <2>1, <2>2 DEF Contained
<1> QED
  BY <1>4, <1>5, <1>6, <1>7, <1>8

LEMMA ContainedAlways == MonitorSpec => []Contained
<1>1. MonitorInit => Contained
  <2> SUFFICES ASSUME MonitorInit PROVE Contained
    OBVIOUS
  <2>1. worker = "none" /\ stamps = {} /\ exits = {} /\ wait = 0
    BY DEF MonitorInit
  <2> QED
    BY <2>1 DEF Contained, Recent, Spaced, Rested
<1>2. Contained /\ [MonitorNext]_allVars => Contained'
  <2> SUFFICES ASSUME Contained, [MonitorNext]_allVars PROVE Contained'
    OBVIOUS
  <2>1. CASE Second
    BY <2>1, SecondContained
  <2>2. CASE Pass \/ PassFails \/ \E wanted \in BOOLEAN : SetMonitoring(wanted)
    <3>1. Record /\ (Unwanted \/ Keep \/ Cool \/ Launch \/ LaunchFails)
      BY <2>2 DEF Pass, PassFails, SetMonitoring
    <3> QED
      BY <3>1, PassContained
  <2>3. CASE /\ UNCHANGED <<stamps, exits, wait>>
             /\ worker' # "none" => worker # "none"
    BY <2>3 DEF Contained
  <2>4. CASE WorkerPolls
    BY <2>3, <2>4 DEF WorkerPolls, monitorVars, managed
  <2>5. CASE Refuses \/ EnterLoop \/ WorkerDies
    BY <2>3, <2>5 DEF Refuses, EnterLoop, WorkerDies
  <2>6. CASE \E p \in Probes : Look(p) \/ LookEnds(p)
    BY <2>3, <2>6 DEF Look, LookEnds, managed
  <2>7. CASE StrayStarts \/ StrayEnds \/ Reconfigure
    BY <2>3, <2>7 DEF StrayStarts, StrayEnds, Reconfigure, managed
  <2>8. CASE UNCHANGED allVars
    BY <2>3, <2>8 DEF allVars, monitorVars, managed
  <2> QED
    BY <2>1, <2>2, <2>4, <2>5, <2>6, <2>7, <2>8 DEF MonitorNext, Progress
<1> QED
  BY <1>1, <1>2, PTL DEF MonitorSpec

(* For any window, limit and delay a worker that fails at once, however    *)
(* often it is switched off and on, exits Limit times and then once in a   *)
(* long delay (_reconcile).                                                *)
THEOREM ExitsFew == MonitorSpec => []ExitsContained
<1>1. Contained => ExitsContained
  BY FewExits DEF Contained, ExitsContained
<1> QED
  BY ContainedAlways, <1>1, PTL
=============================================================================
