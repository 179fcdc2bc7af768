-------------------------- MODULE Supervisor_proofs --------------------------
(***************************************************************************)
(* The supervisor's type invariant, and that it never runs two processes   *)
(* of one child nor loses the handle of a running one, for any children,   *)
(* requests and bounds.  The lock is what makes it so: a thread in the     *)
(* middle of a reconciliation, or of the final stop, owns the lock, and    *)
(* therefore nobody touches a child between the decision to launch it and  *)
(* the launch.                                                             *)
(*                                                                         *)
(* Two things health and "off" promise follow from it: a status agrees     *)
(* with the handle until the final stop, and a process nobody wants has,   *)
(* unless an exception left a reconciliation, the owner of the lock on its *)
(* way to end it.  And the stop leaves no child of the loop behind, even   *)
(* when its join timed out, unless the loop waited for the lock beside it: *)
(* otherwise the loop finds the flag set before it takes the lock again,   *)
(* the requests that remain know the monitor only, and the stop walks down *)
(* the order.                                                              *)
(***************************************************************************)
EXTENDS Supervisor, TLAPS

Working == {"reap", "decide", "launch", "show", "terminate", "stopping"}

(* A thread at work on the children owns the lock.                         *)
LockHeld == \A t \in Threads : pc[t] \in Working => owner = t

(* A child about to be launched is wanted and has no process yet.          *)
LaunchReady ==
  \A t \in Threads : pc[t] = "launch" => desired[This(t)] /\ proc[This(t)] = "none"

(* The type invariant in three parts, one for each way of reasoning.       *)
ChildTyped ==
  /\ desired \in [Children -> BOOLEAN]
  /\ proc \in [Children -> {"none", "up", "dead"}]
  /\ status \in [Children -> {"stopped", "starting", "ready", "backoff", "degraded"}]
  /\ cooling \in [Children -> BOOLEAN]

CountsTyped ==
  /\ exits \in [Children -> 0 .. Limit]
  /\ live \in [Children -> Nat]
  /\ ended \in 0 .. MaxExits
  /\ faults \in 0 .. MaxFaults

ThreadsTyped ==
  /\ owner \in Threads \cup {Free}
  /\ stopFlag \in BOOLEAN /\ late \in BOOLEAN
  /\ pc \in [Threads -> Stages]
  /\ at \in [Threads -> 1 .. Len(Order)]

LEMMA TypeParts == TypeOK <=> ChildTyped /\ CountsTyped /\ ThreadsTyped
BY DEF TypeOK, ChildTyped, CountsTyped, ThreadsTyped

Inv ==
  /\ TypeOK
  /\ LockHeld
  /\ LaunchReady
  /\ OneProcessPerChild

(* The children are the elements of Order, and This names one of them.     *)
LEMMA Positions ==
  /\ Len(Order) \in Nat \ {0}
  /\ \A i \in 1 .. Len(Order) : Order[i] \in Children
  /\ \E i \in 1 .. Len(Order) : Order[i] = Monitor
<1>1. Order \in Seq(Children) /\ Order # <<>> /\ Monitor \in Children
  BY SupervisorAssumption DEF SupervisorAssumption
<1>2. Len(Order) \in Nat /\ Len(Order) # 0
  BY <1>1
<1>3. \A i \in 1 .. Len(Order) : Order[i] \in Children
  BY DEF Children
<1>4. \E i \in 1 .. Len(Order) : Order[i] = Monitor
  BY <1>1 DEF Children
<1>q. QED BY <1>2, <1>3, <1>4

(* The monitor has a position, the one that RequestAcquire takes.          *)
LEMMA MonitorPosition ==
  (CHOOSE i \in 1 .. Len(Order) : Order[i] = Monitor) \in 1 .. Len(Order)
BY Positions

(* In a typed state every thread is concerned with one of the children.    *)
LEMMA ThisIsChild ==
  ASSUME TypeOK, NEW t \in Threads
  PROVE  This(t) \in Children
BY Positions DEF TypeOK, This

LEMMA Initially == Init => Inv
<1> SUFFICES ASSUME Init PROVE Inv
  OBVIOUS
<1> USE SupervisorAssumption DEF SupervisorAssumption
<1>1. 1 \in 1 .. Len(Order)
  BY Positions
<1>2. \A t \in Threads : pc[t] \in {"check", "serving", "new"}
  BY DEF Init
<1>3. TypeOK
  <2>1. pc \in [Threads -> Stages]
    BY DEF Init, Stages
  <2>2. at \in [Threads -> 1 .. Len(Order)]
    BY <1>1 DEF Init
  <2>3. desired \in [Children -> BOOLEAN] /\ cooling \in [Children -> BOOLEAN]
        /\ stopFlag \in BOOLEAN
    BY DEF Init
  <2>4. exits \in [Children -> 0 .. Limit] /\ live \in [Children -> Nat]
        /\ ended \in 0 .. MaxExits /\ faults \in 0 .. MaxFaults
    BY DEF Init
  <2>q. QED BY <2>1, <2>2, <2>3, <2>4 DEF TypeOK, Init
<1>4. LockHeld /\ LaunchReady
  BY <1>2 DEF LockHeld, LaunchReady, Working
<1>5. OneProcessPerChild
  BY DEF OneProcessPerChild, Init
<1>q. QED BY <1>3, <1>4, <1>5 DEF Inv

(* How the pass goes on: at, pc and owner keep their types.                *)
LEMMA AdvanceTyped ==
  ASSUME ThreadsTyped, NEW t \in Threads, Advance(t)
  PROVE  /\ at' \in [Threads -> 1 .. Len(Order)]
         /\ pc' \in [Threads -> Stages]
         /\ owner' \in Threads \cup {Free}
<1>1. at[t] \in 1 .. Len(Order) /\ Len(Order) \in Nat
  BY Positions DEF ThreadsTyped
<1>2. CASE t = "loop" /\ at[t] < Len(Order)
  <2>1. at[t] + 1 \in 1 .. Len(Order)
    BY <1>1, <1>2
  <2>2. at' = [at EXCEPT ![t] = at[t] + 1] /\ pc' = [pc EXCEPT ![t] = "reap"] /\ owner' = owner
    BY <1>2 DEF Advance, Goto
  <2>q. QED BY <2>1, <2>2 DEF ThreadsTyped, Stages
<1>3. CASE ~(t = "loop" /\ at[t] < Len(Order))
  <2>1. 1 \in 1 .. Len(Order)
    BY <1>1
  <2>2. at' = [at EXCEPT ![t] = 1] /\ owner' = Free
        /\ \E stage \in {"check", "done"} : pc' = [pc EXCEPT ![t] = stage]
    BY <1>3 DEF Advance, Goto
  <2>q. QED BY <2>1, <2>2 DEF ThreadsTyped, Stages
<1>q. QED BY <1>2, <1>3

LEMMA ChildExitsTyped ==
  ASSUME Inv, NEW c \in Children, ChildExits(c)
  PROVE  TypeOK'
<1> USE SupervisorAssumption DEF SupervisorAssumption
<1>1. ChildTyped /\ CountsTyped /\ ThreadsTyped
  BY TypeParts DEF Inv
<1>c. ChildTyped'
  BY <1>1 DEF ChildExits, ChildTyped
<1>n. CountsTyped'
  BY <1>1 DEF ChildExits, CountsTyped
<1>t. ThreadsTyped'
  BY <1>1 DEF ChildExits, ThreadsTyped
<1>q. QED BY <1>c, <1>n, <1>t, TypeParts DEF TypeOK, ChildTyped, CountsTyped, ThreadsTyped

LEMMA CoolingEndsTyped ==
  ASSUME Inv, NEW c \in Children, CoolingEnds(c)
  PROVE  TypeOK'
<1> USE SupervisorAssumption DEF SupervisorAssumption
<1>1. ChildTyped /\ CountsTyped /\ ThreadsTyped
  BY TypeParts DEF Inv
<1>c. ChildTyped'
  BY <1>1 DEF CoolingEnds, ChildTyped
<1>n. CountsTyped'
  BY <1>1 DEF CoolingEnds, CountsTyped
<1>t. ThreadsTyped'
  BY <1>1 DEF CoolingEnds, ThreadsTyped
<1>q. QED BY <1>c, <1>n, <1>t, TypeParts DEF TypeOK, ChildTyped, CountsTyped, ThreadsTyped

LEMMA ReapTyped ==
  ASSUME Inv, NEW t \in Threads, Reap(t)
  PROVE  TypeOK'
<1> USE SupervisorAssumption DEF SupervisorAssumption
<1>1. ChildTyped /\ CountsTyped /\ ThreadsTyped
  BY TypeParts DEF Inv
<1>2. This(t) \in Children
  BY ThisIsChild DEF Inv
<1>c. ChildTyped'
  BY <1>1, <1>2 DEF Reap, ChildTyped, child
<1>n. CountsTyped'
  <2>1. exits' \in [Children -> 0 .. Limit]
    <3>1. CASE proc[This(t)] # "dead"
      BY <1>1, <3>1 DEF Reap, CountsTyped, child
    <3>2. CASE proc[This(t)] = "dead"
      <4>1. PICK n \in 1 .. (exits[This(t)] + 1) :
              n <= Limit /\ exits' = [exits EXCEPT ![This(t)] = n]
        BY <3>2 DEF Reap
      <4>2. exits[This(t)] \in Nat
        BY <1>1, <1>2 DEF CountsTyped
      <4>3. n \in 0 .. Limit
        BY <4>1, <4>2
      <4>q. QED BY <1>1, <4>1, <4>3 DEF CountsTyped
    <3>q. QED BY <3>1, <3>2
  <2>q. QED BY <1>1, <2>1 DEF Reap, CountsTyped
<1>t. ThreadsTyped'
  BY <1>1 DEF Reap, Goto, ThreadsTyped, Stages
<1>q. QED BY <1>c, <1>n, <1>t, TypeParts DEF TypeOK, ChildTyped, CountsTyped, ThreadsTyped

LEMMA DecideTyped ==
  ASSUME Inv, NEW t \in Threads, Decide(t)
  PROVE  TypeOK'
<1> USE SupervisorAssumption DEF SupervisorAssumption
<1>1. ChildTyped /\ CountsTyped /\ ThreadsTyped
  BY TypeParts DEF Inv
<1>2. This(t) \in Children
  BY ThisIsChild DEF Inv
<1>3. Advance(t) => /\ at' \in [Threads -> 1 .. Len(Order)]
                    /\ pc' \in [Threads -> Stages]
                    /\ owner' \in Threads \cup {Free}
  BY <1>1, AdvanceTyped
<1>c. ChildTyped'
  BY <1>1, <1>2 DEF Decide, ChildTyped
<1>n. CountsTyped'
  BY <1>1 DEF Decide, CountsTyped
<1>t. ThreadsTyped'
  BY <1>1, <1>3 DEF Decide, Goto, ThreadsTyped, Stages
<1>q. QED BY <1>c, <1>n, <1>t, TypeParts DEF TypeOK, ChildTyped, CountsTyped, ThreadsTyped

LEMMA LaunchTyped ==
  ASSUME Inv, NEW t \in Threads, Launch(t)
  PROVE  TypeOK'
<1> USE SupervisorAssumption DEF SupervisorAssumption
<1>1. ChildTyped /\ CountsTyped /\ ThreadsTyped
  BY TypeParts DEF Inv
<1>2. This(t) \in Children
  BY ThisIsChild DEF Inv
<1>c. ChildTyped'
  BY <1>1, <1>2 DEF Launch, ChildTyped
<1>n. CountsTyped'
  BY <1>1, <1>2 DEF Launch, CountsTyped
<1>t. ThreadsTyped'
  BY <1>1 DEF Launch, Goto, ThreadsTyped, Stages
<1>q. QED BY <1>c, <1>n, <1>t, TypeParts DEF TypeOK, ChildTyped, CountsTyped, ThreadsTyped

LEMMA LaunchFailsTyped ==
  ASSUME Inv, NEW t \in Threads, LaunchFails(t)
  PROVE  TypeOK'
<1> USE SupervisorAssumption DEF SupervisorAssumption
<1>1. ChildTyped /\ CountsTyped /\ ThreadsTyped
  BY TypeParts DEF Inv
<1>2. This(t) \in Children
  BY ThisIsChild DEF Inv
<1>c. ChildTyped'
  BY <1>1, <1>2 DEF LaunchFails, ChildTyped
<1>n. CountsTyped'
  BY <1>1, <1>2 DEF LaunchFails, CountsTyped
<1>t. ThreadsTyped'
  BY <1>1 DEF LaunchFails, Goto, ThreadsTyped, Stages
<1>q. QED BY <1>c, <1>n, <1>t, TypeParts DEF TypeOK, ChildTyped, CountsTyped, ThreadsTyped

LEMMA ShowTyped ==
  ASSUME Inv, NEW t \in Threads, Show(t)
  PROVE  TypeOK'
<1> USE SupervisorAssumption DEF SupervisorAssumption
<1>1. ChildTyped /\ CountsTyped /\ ThreadsTyped
  BY TypeParts DEF Inv
<1>2. This(t) \in Children
  BY ThisIsChild DEF Inv
<1>3. Advance(t) => /\ at' \in [Threads -> 1 .. Len(Order)]
                    /\ pc' \in [Threads -> Stages]
                    /\ owner' \in Threads \cup {Free}
  BY <1>1, AdvanceTyped
<1>c. ChildTyped'
  BY <1>1, <1>2 DEF Show, ChildTyped
<1>n. CountsTyped'
  BY <1>1 DEF Show, CountsTyped
<1>t. ThreadsTyped'
  BY <1>1, <1>3 DEF Show, ThreadsTyped
<1>q. QED BY <1>c, <1>n, <1>t, TypeParts DEF TypeOK, ChildTyped, CountsTyped, ThreadsTyped

LEMMA TerminatedTyped ==
  ASSUME Inv, NEW t \in Threads, Terminated(t)
  PROVE  TypeOK'
<1> USE SupervisorAssumption DEF SupervisorAssumption
<1>1. ChildTyped /\ CountsTyped /\ ThreadsTyped
  BY TypeParts DEF Inv
<1>2. This(t) \in Children
  BY ThisIsChild DEF Inv
<1>3. Advance(t) => /\ at' \in [Threads -> 1 .. Len(Order)]
                    /\ pc' \in [Threads -> Stages]
                    /\ owner' \in Threads \cup {Free}
  BY <1>1, AdvanceTyped
<1>4. live[This(t)] = IF proc[This(t)] = "up" THEN 1 ELSE 0
  BY <1>2 DEF Inv, OneProcessPerChild
<1>c. ChildTyped'
  BY <1>1, <1>2 DEF Terminated, ChildTyped
<1>n. CountsTyped'
  BY <1>1, <1>2, <1>4 DEF Terminated, CountsTyped
<1>t. ThreadsTyped'
  BY <1>1, <1>3 DEF Terminated, ThreadsTyped
<1>q. QED BY <1>c, <1>n, <1>t, TypeParts DEF TypeOK, ChildTyped, CountsTyped, ThreadsTyped

LEMMA FaultTyped ==
  ASSUME Inv, NEW t \in Threads, Fault(t)
  PROVE  TypeOK'
<1> USE SupervisorAssumption DEF SupervisorAssumption
<1>1. ChildTyped /\ CountsTyped /\ ThreadsTyped
  BY TypeParts DEF Inv
<1>c. ChildTyped'
  BY <1>1 DEF Fault, ChildTyped, child
<1>n. CountsTyped'
  BY <1>1 DEF Fault, CountsTyped, child
<1>t. ThreadsTyped'
  BY <1>1, Positions DEF Fault, Goto, ThreadsTyped, Stages
<1>q. QED BY <1>c, <1>n, <1>t, TypeParts DEF TypeOK, ChildTyped, CountsTyped, ThreadsTyped

LEMMA LoopTyped ==
  ASSUME Inv, LoopCheck \/ LoopAcquire
  PROVE  TypeOK'
<1> USE SupervisorAssumption DEF SupervisorAssumption
<1>1. ChildTyped /\ CountsTyped /\ ThreadsTyped
  BY TypeParts DEF Inv
<1>c. ChildTyped'
  BY <1>1 DEF LoopCheck, LoopAcquire, ChildTyped, child
<1>n. CountsTyped'
  BY <1>1 DEF LoopCheck, LoopAcquire, CountsTyped, child
<1>t. ThreadsTyped'
  BY <1>1 DEF LoopCheck, LoopAcquire, Goto, ThreadsTyped, Threads, Stages
<1>q. QED BY <1>c, <1>n, <1>t, TypeParts DEF TypeOK, ChildTyped, CountsTyped, ThreadsTyped

LEMMA RequestTyped ==
  ASSUME Inv, NEW r \in Requests, Call(r) \/ RequestAcquire(r)
  PROVE  TypeOK'
<1> USE SupervisorAssumption DEF SupervisorAssumption
<1>1. ChildTyped /\ CountsTyped /\ ThreadsTyped
  BY TypeParts DEF Inv
<1>2. r \in Threads
  BY DEF Threads
<1>3. Monitor \in Children
  OBVIOUS
<1>c. ChildTyped'
  BY <1>1, <1>3 DEF Call, RequestAcquire, ChildTyped, child
<1>n. CountsTyped'
  BY <1>1 DEF Call, RequestAcquire, CountsTyped, child
<1>t. ThreadsTyped'
  BY <1>1, <1>2, MonitorPosition DEF Call, RequestAcquire, Goto, ThreadsTyped, Stages
<1>q. QED BY <1>c, <1>n, <1>t, TypeParts DEF TypeOK, ChildTyped, CountsTyped, ThreadsTyped

LEMMA StopTyped ==
  ASSUME Inv, StopBegins \/ JoinReturns \/ StopAcquire \/ StopFault \/ HostExits
  PROVE  TypeOK'
<1> USE SupervisorAssumption DEF SupervisorAssumption
<1>1. ChildTyped /\ CountsTyped /\ ThreadsTyped
  BY TypeParts DEF Inv
<1>2. "main" \in Threads /\ Len(Order) \in 1 .. Len(Order)
  BY Positions DEF Threads
<1>c. ChildTyped'
  BY <1>1 DEF StopBegins, JoinReturns, StopAcquire, StopFault, HostExits, ChildTyped, child
<1>n. CountsTyped'
  <2>1. CASE StopFault
    BY <1>1, <2>1 DEF StopFault, CountsTyped, child
  <2>2. CASE StopBegins \/ JoinReturns \/ StopAcquire \/ HostExits
    BY <1>1, <2>2 DEF StopBegins, JoinReturns, StopAcquire, HostExits, CountsTyped, child
  <2>q. QED BY <2>1, <2>2
<1>t. ThreadsTyped'
  <2>1. CASE HostExits
    <3>1. pc' \in [Threads -> Stages]
      BY <2>1 DEF HostExits, Stages
    <3>q. QED BY <1>1, <2>1, <3>1 DEF HostExits, ThreadsTyped
  <2>2. CASE StopBegins \/ JoinReturns \/ StopAcquire \/ StopFault
    <3>1. at' = at \/ at' = [at EXCEPT !["main"] = Len(Order)]
      BY <2>2 DEF StopBegins, JoinReturns, StopAcquire, StopFault
    <3>2. at' \in [Threads -> 1 .. Len(Order)]
      BY <1>1, <1>2, <3>1 DEF ThreadsTyped
    <3>3. \E stage \in {"join", "want", "stopping", "stopped"} : pc' = [pc EXCEPT !["main"] = stage]
      BY <2>2 DEF StopBegins, JoinReturns, StopAcquire, StopFault, Goto
    <3>4. owner' \in {owner, "main", Free} /\ stopFlag' \in {stopFlag, TRUE}
      BY <2>2 DEF StopBegins, JoinReturns, StopAcquire, StopFault
    <3>5. late' \in BOOLEAN
      BY <1>1, <2>2 DEF StopBegins, JoinReturns, StopAcquire, StopFault, ThreadsTyped
    <3>q. QED BY <1>1, <1>2, <3>2, <3>3, <3>4, <3>5 DEF ThreadsTyped, Stages
  <2>q. QED BY <2>1, <2>2
<1>q. QED BY <1>c, <1>n, <1>t, TypeParts DEF TypeOK, ChildTyped, CountsTyped, ThreadsTyped

LEMMA StopChildTyped ==
  ASSUME Inv, StopChild
  PROVE  TypeOK'
<1> USE SupervisorAssumption DEF SupervisorAssumption
<1>1. ChildTyped /\ CountsTyped /\ ThreadsTyped
  BY TypeParts DEF Inv
<1>2. "main" \in Threads /\ Len(Order) \in 1 .. Len(Order)
  BY Positions DEF Threads
<1>3. This("main") \in Children
  BY <1>2, ThisIsChild DEF Inv
<1>4. live[This("main")] = IF proc[This("main")] = "up" THEN 1 ELSE 0
  BY <1>3 DEF Inv, OneProcessPerChild
<1>c. ChildTyped'
  BY <1>1, <1>3 DEF StopChild, ChildTyped
<1>n. CountsTyped'
  <2>1. live' = [live EXCEPT ![This("main")] = 0]
    <3>1. CASE proc[This("main")] = "up"
      BY <1>1, <1>3, <1>4, <3>1 DEF StopChild, CountsTyped
    <3>2. CASE proc[This("main")] # "up"
      BY <1>1, <1>3, <1>4, <3>2 DEF StopChild, CountsTyped
    <3>q. QED BY <3>1, <3>2
  <2>q. QED BY <1>1, <1>3, <2>1 DEF StopChild, CountsTyped
<1>t. ThreadsTyped'
  <2>1. at["main"] \in 1 .. Len(Order) /\ Len(Order) \in Nat
    BY <1>1, <1>2, Positions DEF ThreadsTyped
  <2>2. CASE at["main"] > 1
    <3>1. at["main"] - 1 \in 1 .. Len(Order)
      BY <2>1, <2>2
    <3>2. at' = [at EXCEPT !["main"] = at["main"] - 1] /\ UNCHANGED <<pc, owner, stopFlag, late>>
      BY <2>2 DEF StopChild
    <3>q. QED BY <1>1, <3>1, <3>2 DEF ThreadsTyped
  <2>3. CASE ~(at["main"] > 1)
    <3>1. pc' = [pc EXCEPT !["main"] = "stopped"] /\ owner' = Free /\ UNCHANGED <<at, stopFlag, late>>
      BY <2>3 DEF StopChild, Goto
    <3>q. QED BY <1>1, <3>1 DEF ThreadsTyped, Stages
  <2>q. QED BY <2>2, <2>3
<1>q. QED BY <1>c, <1>n, <1>t, TypeParts DEF TypeOK, ChildTyped, CountsTyped, ThreadsTyped

LEMMA TypeStep == Inv /\ [Next]_vars => TypeOK'
<1> SUFFICES ASSUME Inv, [Next]_vars PROVE TypeOK'
  OBVIOUS
<1>1. ASSUME NEW c \in Children, ChildExits(c) \/ CoolingEnds(c) PROVE TypeOK'
  BY <1>1, ChildExitsTyped, CoolingEndsTyped
<1>2. ASSUME NEW t \in Threads, Reconcile(t) PROVE TypeOK'
  BY <1>2, ReapTyped, DecideTyped, LaunchTyped, LaunchFailsTyped, ShowTyped,
     TerminatedTyped, FaultTyped DEF Reconcile
<1>3. CASE LoopCheck \/ LoopAcquire
  BY <1>3, LoopTyped
<1>4. ASSUME NEW r \in Requests, Call(r) \/ RequestAcquire(r) PROVE TypeOK'
  BY <1>4, RequestTyped
<1>5. CASE StopBegins \/ Stop
  BY <1>5, StopTyped, StopChildTyped DEF Stop
<1>6. CASE UNCHANGED vars
  BY <1>6 DEF Inv, TypeOK, vars, child
<1>q. QED
  BY <1>1, <1>2, <1>3, <1>4, <1>5, <1>6 DEF Next, Loop, Request, Threads

(* Only the thread that owns the lock works, and it gives the lock back    *)
(* when its work ends.                                                     *)
LEMMA AdvanceKeepsLock ==
  ASSUME Inv, NEW t \in Threads, pc[t] \in Working, Advance(t)
  PROVE  LockHeld' /\ \A u \in Threads : pc'[u] # "launch"
<1>1. owner = t /\ \A u \in Threads : u # t => pc[u] \notin Working
  BY DEF Inv, LockHeld
<1>2. pc \in [Threads -> Stages]
  BY DEF Inv, TypeOK
<1>3. \E stage \in {"reap", "check", "done"} :
        /\ pc' = [pc EXCEPT ![t] = stage]
        /\ owner' = IF stage = "reap" THEN t ELSE Free
  BY <1>1 DEF Advance, Goto
<1>q. QED BY <1>1, <1>2, <1>3 DEF LockHeld, Working

LEMMA LockStep == Inv /\ [Next]_vars => LockHeld' /\ LaunchReady'
<1> SUFFICES ASSUME Inv, [Next]_vars PROVE LockHeld' /\ LaunchReady'
  OBVIOUS
<1> USE SupervisorAssumption DEF SupervisorAssumption
<1>0. /\ pc \in [Threads -> Stages]
      /\ LockHeld /\ LaunchReady
      /\ \A t \in Threads : This(t) \in Children
      /\ proc \in [Children -> {"none", "up", "dead"}]
  BY ThisIsChild DEF Inv, TypeOK
<1>1. ASSUME NEW c \in Children, ChildExits(c) PROVE LockHeld' /\ LaunchReady'
  BY <1>0, <1>1 DEF ChildExits, LockHeld, LaunchReady, This
<1>2. ASSUME NEW c \in Children, CoolingEnds(c) PROVE LockHeld' /\ LaunchReady'
  BY <1>0, <1>2 DEF CoolingEnds, LockHeld, LaunchReady, This
<1>3. ASSUME NEW t \in Threads, Reconcile(t) PROVE LockHeld' /\ LaunchReady'
  <2>0. pc[t] \in Working /\ owner = t /\ \A u \in Threads : u # t => pc[u] \notin Working
    <3>1. pc[t] \in Working
      BY <1>3 DEF Reconcile, Reap, Decide, Launch, LaunchFails, Show, Terminated, Fault, Working
    <3>q. QED BY <1>0, <3>1 DEF LockHeld
  <2>a. ASSUME NEW stage \in {"decide", "show", "terminate"},
               pc' = [pc EXCEPT ![t] = stage], owner' = owner
        PROVE  LockHeld' /\ LaunchReady'
    BY <1>0, <2>0, <2>a DEF LockHeld, LaunchReady, Working
  <2>b. ASSUME Advance(t) PROVE LockHeld' /\ LaunchReady'
    BY <2>0, <2>b, AdvanceKeepsLock DEF LaunchReady
  <2>c. CASE Reap(t) \/ Launch(t) \/ LaunchFails(t)
    BY <2>a, <2>c DEF Reap, Launch, LaunchFails, Goto
  <2>d. CASE Decide(t)
    <3>1. CASE Advance(t)
      BY <3>1, <2>b
    <3>2. CASE (Goto(t, "terminate") \/ Goto(t, "show")) /\ owner' = owner
      BY <3>2, <2>a DEF Goto
    <3>3. CASE /\ Goto(t, "launch") /\ proc[This(t)] = "none"
               /\ desired[This(t)] /\ UNCHANGED <<at, owner, proc, desired>>
      <4>1. \A u \in Threads : pc'[u] \in Working => u = t
        BY <1>0, <2>0, <3>3 DEF Goto
      <4>2. This(t)' = This(t)
        BY <3>3 DEF This
      <4>q. QED BY <1>0, <2>0, <3>3, <4>1, <4>2 DEF LockHeld, LaunchReady, Working
    <3>q. QED BY <2>d, <3>1, <3>2, <3>3 DEF Decide
  <2>e. CASE Show(t) \/ Terminated(t)
    BY <2>b, <2>e DEF Show, Terminated
  <2>f. CASE Fault(t)
    BY <1>0, <2>0, <2>f DEF Fault, Goto, LockHeld, LaunchReady, Working
  <2>q. QED BY <1>3, <2>c, <2>d, <2>e, <2>f DEF Reconcile
<1>4. CASE LoopCheck
  <2>1. "loop" \in Threads /\ pc' = [pc EXCEPT !["loop"] = IF stopFlag THEN "over" ELSE "want"]
        /\ UNCHANGED <<owner, at, proc, desired>>
    BY <1>4 DEF LoopCheck, Goto, Threads, child
  <2>q. QED BY <1>0, <2>1 DEF LockHeld, LaunchReady, This, Working
<1>5. ASSUME NEW t \in Threads, owner = Free, owner' = t,
             \/ pc' = [pc EXCEPT ![t] = "reap"] \/ pc' = [pc EXCEPT ![t] = "stopping"]
      PROVE  LockHeld' /\ LaunchReady'
  <2>1. \A u \in Threads : pc[u] \notin Working
    BY <1>0, <1>5 DEF LockHeld
  <2>q. QED BY <1>0, <1>5, <2>1 DEF LockHeld, LaunchReady, Working
<1>6. CASE LoopAcquire \/ StopAcquire
  BY <1>5, <1>6 DEF LoopAcquire, StopAcquire, Goto, Threads
<1>7. ASSUME NEW r \in Requests, RequestAcquire(r) PROVE LockHeld' /\ LaunchReady'
  BY <1>5, <1>7 DEF RequestAcquire, Goto, Threads
<1>8. ASSUME NEW r \in Requests, Call(r) PROVE LockHeld' /\ LaunchReady'
  <2>1. r \in Threads /\ pc' = [pc EXCEPT ![r] = "want"] /\ UNCHANGED <<owner, at, proc, desired>>
    BY <1>8 DEF Call, Goto, Threads, child
  <2>q. QED BY <1>0, <2>1 DEF LockHeld, LaunchReady, This, Working
<1>9. CASE StopBegins \/ JoinReturns
  <2>1. /\ "main" \in Threads
        /\ \E stage \in {"join", "want"} : pc' = [pc EXCEPT !["main"] = stage]
        /\ UNCHANGED <<owner, at, proc, desired>>
    BY <1>9 DEF StopBegins, JoinReturns, Goto, Threads, child
  <2>q. QED BY <1>0, <2>1 DEF LockHeld, LaunchReady, This, Working
<1>10. CASE StopChild \/ StopFault
  <2>1. /\ "main" \in Threads /\ pc["main"] = "stopping"
        /\ \/ pc' = pc /\ owner' = owner
           \/ pc' = [pc EXCEPT !["main"] = "stopped"] /\ owner' = Free
    BY <1>10 DEF StopChild, StopFault, Goto, Threads
  <2>2. \A u \in Threads : u # "main" => pc[u] \notin Working
    BY <1>0, <2>1 DEF LockHeld, Working
  <2>q. QED BY <1>0, <2>1, <2>2 DEF LockHeld, LaunchReady, Working
<1>11. CASE HostExits
  BY <1>11 DEF HostExits, LockHeld, LaunchReady, Working
<1>12. CASE UNCHANGED vars
  BY <1>0, <1>12 DEF vars, child, LockHeld, LaunchReady, This
<1>q. QED
  BY <1>1, <1>2, <1>3, <1>4, <1>6, <1>7, <1>8, <1>9, <1>10, <1>11, <1>12
     DEF Next, Loop, Request, Stop, Threads

LEMMA ProcessStep == Inv /\ [Next]_vars => OneProcessPerChild'
<1> SUFFICES ASSUME Inv, [Next]_vars PROVE OneProcessPerChild'
  OBVIOUS
<1>0. /\ \A c \in Children : live[c] = IF proc[c] = "up" THEN 1 ELSE 0
      /\ live \in [Children -> Nat]
      /\ proc \in [Children -> {"none", "up", "dead"}]
      /\ \A t \in Threads : This(t) \in Children
  BY ThisIsChild DEF Inv, TypeOK, OneProcessPerChild
<1>u. ASSUME UNCHANGED <<proc, live>> PROVE OneProcessPerChild'
  BY <1>0, <1>u DEF OneProcessPerChild
<1>1. ASSUME NEW c \in Children, ChildExits(c) PROVE OneProcessPerChild'
  <2>1. proc[c] = "up" /\ live[c] = 1
    BY <1>0, <1>1 DEF ChildExits
  <2>2. live' = [live EXCEPT ![c] = 0] /\ proc' = [proc EXCEPT ![c] = "dead"]
    BY <1>0, <1>1, <2>1 DEF ChildExits
  <2>q. QED BY <1>0, <2>2 DEF OneProcessPerChild
<1>2. ASSUME NEW c \in Children, CoolingEnds(c) PROVE OneProcessPerChild'
  BY <1>u, <1>2 DEF CoolingEnds
<1>3. ASSUME NEW t \in Threads, Reconcile(t) PROVE OneProcessPerChild'
  <2>1. CASE Reap(t)
    <3>1. /\ live' = live
          /\ \/ proc' = proc
             \/ proc[This(t)] = "dead" /\ proc' = [proc EXCEPT ![This(t)] = "none"]
      <4>1. CASE proc[This(t)] # "dead"
        BY <2>1, <4>1 DEF Reap, child
      <4>2. CASE proc[This(t)] = "dead"
        BY <2>1, <4>2 DEF Reap
      <4>q. QED BY <4>1, <4>2
    <3>2. \A c \in Children : proc'[c] = "up" <=> proc[c] = "up"
      BY <1>0, <3>1
    <3>q. QED BY <1>0, <3>1, <3>2 DEF OneProcessPerChild
  <2>2. CASE Launch(t)
    <3>1. proc[This(t)] = "none" /\ live[This(t)] = 0
      BY <1>0, <2>2 DEF Launch, Inv, LaunchReady
    <3>2. live' = [live EXCEPT ![This(t)] = 1] /\ proc' = [proc EXCEPT ![This(t)] = "up"]
      BY <2>2, <3>1 DEF Launch
    <3>q. QED BY <1>0, <3>2 DEF OneProcessPerChild
  <2>3. CASE LaunchFails(t)
    <3>1. proc[This(t)] = "none"
      BY <1>0, <2>3 DEF LaunchFails, Inv, LaunchReady
    <3>q. QED BY <1>0, <2>3, <3>1 DEF LaunchFails, OneProcessPerChild
  <2>4. CASE Terminated(t)
    <3>1. /\ live' = [live EXCEPT ![This(t)] = IF proc[This(t)] = "up" THEN @ - 1 ELSE @]
          /\ proc' = [proc EXCEPT ![This(t)] = "none"]
      BY <2>4 DEF Terminated
    <3>2. live' = [live EXCEPT ![This(t)] = 0]
      <4>1. CASE proc[This(t)] = "up"
        <5>1. live[This(t)] = 1
          BY <1>0, <3>1, <4>1
        <5>q. QED BY <3>1, <4>1, <5>1
      <4>2. CASE proc[This(t)] # "up"
        <5>1. live[This(t)] = 0
          BY <1>0, <3>1, <4>2
        <5>q. QED BY <3>1, <4>2, <5>1
      <4>q. QED BY <4>1, <4>2
    <3>q. QED BY <1>0, <3>1, <3>2 DEF OneProcessPerChild
  <2>5. CASE Decide(t) \/ Show(t) \/ Fault(t)
    BY <1>u, <2>5 DEF Decide, Show, Fault, child
  <2>q. QED BY <1>3, <2>1, <2>2, <2>3, <2>4, <2>5 DEF Reconcile
<1>4. ASSUME NEW r \in Requests, Call(r) \/ RequestAcquire(r) PROVE OneProcessPerChild'
  BY <1>u, <1>4 DEF Call, RequestAcquire, child
<1>5. CASE LoopCheck \/ LoopAcquire \/ StopBegins \/ JoinReturns \/ StopAcquire
           \/ StopFault \/ HostExits
  BY <1>u, <1>5 DEF LoopCheck, LoopAcquire, StopBegins, JoinReturns, StopAcquire,
                    StopFault, HostExits, child
<1>6. CASE StopChild
  <2>1. /\ live' = [live EXCEPT ![This("main")] = IF proc[This("main")] = "up" THEN @ - 1 ELSE @]
        /\ proc' = [proc EXCEPT ![This("main")] = "none"]
        /\ This("main") \in Children
    BY <1>0, <1>6 DEF StopChild, Threads
  <2>2. live' = [live EXCEPT ![This("main")] = 0]
    <3>1. CASE proc[This("main")] = "up"
      <4>1. live[This("main")] = 1
        BY <1>0, <2>1, <3>1
      <4>q. QED BY <2>1, <3>1, <4>1
    <3>2. CASE proc[This("main")] # "up"
      <4>1. live[This("main")] = 0
        BY <1>0, <2>1, <3>2
      <4>q. QED BY <2>1, <3>2, <4>1
    <3>q. QED BY <3>1, <3>2
  <2>q. QED BY <1>0, <2>1, <2>2 DEF OneProcessPerChild
<1>7. CASE UNCHANGED vars
  BY <1>u, <1>7 DEF vars, child
<1>q. QED
  BY <1>1, <1>2, <1>3, <1>4, <1>5, <1>6, <1>7 DEF Next, Loop, Request, Stop, Threads

LEMMA Inductive == Spec => []Inv
<1>1. Inv /\ [Next]_vars => Inv'
  BY TypeStep, LockStep, ProcessStep DEF Inv
<1>q. QED BY Initially, <1>1, PTL DEF Spec

(* Every variable of the supervisor has its type in every reachable state. *)
THEOREM TypeCorrect == Spec => []TypeOK
<1>1. Inv => TypeOK
  BY DEF Inv
<1>q. QED BY Inductive, <1>1, PTL

(* However the loop, the requests and the stop interleave, and whatever    *)
(* exits, fails or raises: no child ever has two processes, and a process  *)
(* runs exactly while the supervisor's handle says so.                     *)
THEOREM SingleProcess == Spec => []OneProcessPerChild
<1>1. Inv => OneProcessPerChild
  BY DEF Inv
<1>q. QED BY Inductive, <1>1, PTL

(* Until the final stop begins its work on the children.                   *)
Early == pc["main"] \in {"serving", "join", "want"}

StatusAgrees == Early => \A c \in Children :
  status[c] \in {"ready", "starting"} <=> proc[c] # "none"

(* Only the main thread moves the main thread, and never back to a stage   *)
(* before its stop.                                                        *)
LEMMA StagesPass == Inv /\ [Next]_vars /\ Early' => Early
<1> SUFFICES ASSUME Inv, [Next]_vars, Early' PROVE Early
  OBVIOUS
<1> USE SupervisorAssumption DEF SupervisorAssumption
<1>0. pc \in [Threads -> Stages] /\ "main" \in Threads
  BY DEF Inv, TypeOK, Threads
<1>1. ASSUME NEW t \in Threads, NEW stage, t # "main", pc' = [pc EXCEPT ![t] = stage]
      PROVE  Early
  BY <1>0, <1>1 DEF Early
<1>2. ASSUME NEW c \in Children, ChildExits(c) \/ CoolingEnds(c) PROVE Early
  BY <1>2 DEF ChildExits, CoolingEnds, Early
<1>3. ASSUME NEW t \in Threads, t # "main", Reconcile(t) PROVE Early
  <2>1. \E stage \in Stages : pc' = [pc EXCEPT ![t] = stage]
    BY <1>3 DEF Reconcile, Reap, Decide, Launch, LaunchFails, Show, Terminated, Fault,
                Advance, Goto, Stages
  <2>q. QED BY <1>1, <1>3, <2>1
<1>4. CASE LoopCheck \/ LoopAcquire
  <2>1. \E stage \in Stages : pc' = [pc EXCEPT !["loop"] = stage]
    BY <1>4 DEF LoopCheck, LoopAcquire, Goto, Stages
  <2>q. QED BY <1>1, <2>1 DEF Threads
<1>5. ASSUME NEW r \in Requests, Call(r) \/ RequestAcquire(r) PROVE Early
  <2>1. \E stage \in Stages : pc' = [pc EXCEPT ![r] = stage]
    BY <1>5 DEF Call, RequestAcquire, Goto, Stages
  <2>q. QED BY <1>1, <2>1 DEF Threads
<1>6. CASE StopBegins \/ JoinReturns
  BY <1>6 DEF StopBegins, JoinReturns, Early
<1>7. CASE StopAcquire \/ StopChild \/ StopFault \/ HostExits
  <2>1. pc'["main"] \in {"stopping", "stopped", "exited"}
    BY <1>0, <1>7 DEF StopAcquire, StopChild, StopFault, HostExits, Goto
  <2>q. QED BY <2>1 DEF Early
<1>8. CASE UNCHANGED vars
  BY <1>8 DEF vars, Early
<1>q. QED
  BY <1>2, <1>3, <1>4, <1>5, <1>6, <1>7, <1>8 DEF Next, Loop, Request, Stop, Threads

LEMMA StatusStep == Inv /\ StatusAgrees /\ [Next]_vars => StatusAgrees'
<1> SUFFICES ASSUME Inv, StatusAgrees, [Next]_vars, Early'
             PROVE  \A c \in Children : status'[c] \in {"ready", "starting"} <=> proc'[c] # "none"
  BY DEF StatusAgrees
<1> DEFINE Agrees == \A c \in Children :
                       status'[c] \in {"ready", "starting"} <=> proc'[c] # "none"
<1>0. /\ \A c \in Children : status[c] \in {"ready", "starting"} <=> proc[c] # "none"
      /\ proc \in [Children -> {"none", "up", "dead"}]
      /\ status \in [Children -> {"stopped", "starting", "ready", "backoff", "degraded"}]
      /\ \A t \in Threads : This(t) \in Children
      /\ Early
  BY StagesPass, ThisIsChild DEF Inv, TypeOK, StatusAgrees
<1>u. ASSUME UNCHANGED <<status, proc>> PROVE Agrees
  BY <1>0, <1>u
<1>1. ASSUME NEW c \in Children, ChildExits(c) PROVE Agrees
  BY <1>0, <1>1 DEF ChildExits
<1>2. ASSUME NEW c \in Children, CoolingEnds(c) PROVE Agrees
  BY <1>u, <1>2 DEF CoolingEnds
<1>3. ASSUME NEW t \in Threads, Reconcile(t) PROVE Agrees
  <2>1. CASE Reap(t)
    <3>1. CASE proc[This(t)] # "dead"
      BY <1>u, <2>1, <3>1 DEF Reap, child
    <3>2. CASE proc[This(t)] = "dead"
      <4>1. /\ proc' = [proc EXCEPT ![This(t)] = "none"]
            /\ \E s \in {"degraded", "backoff"} : status' = [status EXCEPT ![This(t)] = s]
        BY <2>1, <3>2 DEF Reap
      <4>q. QED BY <1>0, <4>1
    <3>q. QED BY <3>1, <3>2
  <2>2. CASE Decide(t)
    BY <1>0, <2>2 DEF Decide
  <2>3. CASE Launch(t) \/ LaunchFails(t)
    BY <1>0, <2>3 DEF Launch, LaunchFails
  <2>4. CASE Show(t)
    <3>1. CASE proc[This(t)] = "none"
      BY <1>u, <2>4, <3>1 DEF Show
    <3>2. CASE proc[This(t)] # "none"
      <4>1. /\ proc' = proc
            /\ \E s \in {"ready", "starting"} : status' = [status EXCEPT ![This(t)] = s]
        BY <2>4, <3>2 DEF Show
      <4>q. QED BY <1>0, <3>2, <4>1
    <3>q. QED BY <3>1, <3>2
  <2>5. CASE Terminated(t)
    BY <1>0, <2>5 DEF Terminated
  <2>6. CASE Fault(t)
    BY <1>u, <2>6 DEF Fault, child
  <2>q. QED BY <1>3, <2>1, <2>2, <2>3, <2>4, <2>5, <2>6 DEF Reconcile
<1>4. CASE LoopCheck \/ LoopAcquire \/ StopBegins \/ JoinReturns \/ StopAcquire
           \/ StopFault \/ HostExits
  BY <1>u, <1>4 DEF LoopCheck, LoopAcquire, StopBegins, JoinReturns, StopAcquire,
                    StopFault, HostExits, child
<1>5. ASSUME NEW r \in Requests, Call(r) \/ RequestAcquire(r) PROVE Agrees
  BY <1>u, <1>5 DEF Call, RequestAcquire, child
<1>6. ~StopChild
  BY <1>0 DEF StopChild, Early
<1>7. CASE UNCHANGED vars
  BY <1>u, <1>7 DEF vars, child
<1>q. QED
  BY <1>1, <1>2, <1>3, <1>4, <1>5, <1>6, <1>7 DEF Next, Loop, Request, Stop, Threads

(* What health reports agrees with the handles at every moment it can be   *)
(* asked, whatever exits, fails or raises, until the final stop.           *)
THEOREM HonestHealth == Spec => []HealthIsHonest
<1>1. Init => StatusAgrees
  BY DEF Init, StatusAgrees
<1>2. Inv /\ StatusAgrees => HealthIsHonest
  BY DEF StatusAgrees, Early, HealthIsHonest, Health
<1>q. QED BY Inductive, StatusStep, <1>1, <1>2, PTL DEF Spec

(* The stages from which a thread ends its child if nobody wants it.       *)
Ending == {"reap", "decide", "terminate"}

Off(c) == ~desired[c] /\ proc[c] = "up"

(* A running process that is not wanted has, before any exception, the     *)
(* owner of the lock about to end it, or the host is gone under it.        *)
OffPending == faults = 0 => \A c \in Children : Off(c) =>
  /\ owner # Free
  /\ Running => \E t \in Threads : pc[t] \in Ending /\ This(t) = c

(* The thread at work is the one that is about to end it.                  *)
LEMMA WorkerEnds ==
  ASSUME Inv, OffPending, faults = 0, Running,
         NEW t \in Threads, pc[t] \in Working, NEW c \in Children, Off(c)
  PROVE  pc[t] \in Ending /\ This(t) = c
<1>1. PICK u \in Threads : pc[u] \in Ending /\ This(u) = c
  BY DEF OffPending
<1>2. owner = u /\ owner = t
  BY <1>1 DEF Inv, LockHeld, Working, Ending
<1>q. QED BY <1>1, <1>2

LEMMA OffStep == Inv /\ OffPending /\ [Next]_vars => OffPending'
<1> SUFFICES ASSUME Inv, OffPending, [Next]_vars, faults' = 0, NEW c \in Children, Off(c)'
             PROVE  /\ owner' # Free
                    /\ Running' => \E t \in Threads : pc'[t] \in Ending /\ This(t)' = c
  BY DEF OffPending
<1> USE SupervisorAssumption DEF SupervisorAssumption
<1> DEFINE Pending == /\ owner' # Free
                      /\ Running' => \E t \in Threads : pc'[t] \in Ending /\ This(t)' = c
<1>0. /\ pc \in [Threads -> Stages] /\ at \in [Threads -> 1 .. Len(Order)]
      /\ desired \in [Children -> BOOLEAN]
      /\ proc \in [Children -> {"none", "up", "dead"}]
      /\ LockHeld /\ LaunchReady
      /\ faults \in Nat
      /\ \A t \in Threads : This(t) \in Children
  <2>1. faults \in 0 .. MaxFaults /\ MaxFaults \in Nat
    BY DEF Inv, TypeOK
  <2>2. faults \in Nat
    BY <2>1
  <2>3. \A t \in Threads : This(t) \in Children
    BY ThisIsChild DEF Inv
  <2>q. QED BY <2>2, <2>3 DEF Inv, TypeOK
<1>a. {"loop", "main"} \subseteq Threads /\ Free \notin Threads
  BY DEF Threads
<1>f. faults = 0
  <2>1. faults' = faults \/ faults' = faults + 1
    BY DEF Next, Loop, Request, Stop, Reconcile, ChildExits, CoolingEnds, LoopCheck,
           LoopAcquire, Reap, Decide, Launch, LaunchFails, Show, Terminated, Fault,
           Call, RequestAcquire, StopBegins, JoinReturns, StopAcquire, StopChild,
           StopFault, HostExits, vars
  <2>q. QED BY <1>0, <2>1
<1>k. ASSUME Off(c), owner' = owner, at' = at,
             \A t \in Threads : pc[t] \in Ending => pc'[t] \in Ending,
             Running' => Running
      PROVE  Pending
  BY <1>f, <1>k DEF OffPending, This
<1>n. ASSUME Off(c) PROVE owner # Free
  BY <1>f, <1>n DEF OffPending
<1>1. ASSUME NEW d \in Children, ChildExits(d) \/ CoolingEnds(d) PROVE Pending
  <2>1. Off(c)
    BY <1>0, <1>1 DEF ChildExits, CoolingEnds, Off
  <2>q. QED BY <1>1, <1>k, <2>1 DEF ChildExits, CoolingEnds, Running
<1>2. ASSUME NEW t \in Threads, Reconcile(t) PROVE Pending
  <2>0. Running /\ pc[t] \in Working /\ owner = t
    <3>1. Running /\ pc[t] \in Working
      BY <1>2 DEF Reconcile, Reap, Decide, Launch, LaunchFails, Show, Terminated, Fault, Working
    <3>q. QED BY <1>0, <3>1 DEF LockHeld
  <2>w. ASSUME Off(c) PROVE pc[t] \in Ending /\ This(t) = c
    BY <1>f, <2>0, <2>w, WorkerEnds
  <2>1. CASE Reap(t)
    <3>1. Off(c)
      <4>1. CASE proc[This(t)] # "dead"
        BY <2>1, <4>1 DEF Reap, child, Off
      <4>2. CASE proc[This(t)] = "dead"
        BY <1>0, <2>1, <4>2 DEF Reap, Off
      <4>q. QED BY <4>1, <4>2
    <3>2. pc' = [pc EXCEPT ![t] = "decide"] /\ UNCHANGED <<owner, at>>
      BY <2>1 DEF Reap, Goto
    <3>q. QED BY <1>0, <1>k, <2>0, <3>1, <3>2 DEF Ending
  <2>2. CASE Decide(t)
    <3>1. Off(c)
      BY <2>2 DEF Decide, Off
    <3>2. ~desired[This(t)] /\ proc[This(t)] # "none"
      BY <2>w, <3>1 DEF Off
    <3>3. pc' = [pc EXCEPT ![t] = "terminate"] /\ UNCHANGED <<owner, at>>
      BY <2>2, <3>2 DEF Decide, Goto
    <3>q. QED BY <1>0, <1>k, <2>0, <3>1, <3>3 DEF Ending
  <2>3. CASE Launch(t) \/ LaunchFails(t)
    <3>1. pc[t] = "launch" /\ desired[This(t)]
      BY <1>0, <2>3 DEF Launch, LaunchFails, LaunchReady
    <3>2. Off(c)
      BY <1>0, <2>3, <3>1 DEF Launch, LaunchFails, Off
    <3>q. QED BY <2>w, <3>1, <3>2 DEF Ending
  <2>4. CASE Show(t)
    BY <2>w, <2>4 DEF Show, Off, Ending
  <2>5. CASE Terminated(t)
    <3>1. Off(c) /\ This(t) # c
      BY <1>0, <2>5 DEF Terminated, Off
    <3>q. QED BY <2>w, <3>1
  <2>6. ~Fault(t)
    BY <1>f DEF Fault
  <2>q. QED BY <1>2, <2>1, <2>2, <2>3, <2>4, <2>5, <2>6 DEF Reconcile
<1>3. CASE LoopCheck
  <2>1. Off(c) /\ Running
    BY <1>3 DEF LoopCheck, Off, child
  <2>2. /\ pc["loop"] \notin Ending /\ UNCHANGED <<owner, at>>
        /\ \A t \in Threads : t # "loop" => pc'[t] = pc[t]
    BY <1>0, <1>a, <1>3 DEF LoopCheck, Goto, Ending
  <2>q. QED BY <1>k, <2>1, <2>2
<1>4. CASE LoopAcquire \/ StopAcquire
  BY <1>n, <1>4 DEF LoopAcquire, StopAcquire, Off, child
<1>5. ASSUME NEW r \in Requests, Call(r) PROVE Pending
  <2>1. Off(c) /\ Running /\ r \in Threads
    BY <1>5 DEF Call, Off, child, Running, Threads
  <2>2. /\ pc[r] \notin Ending /\ UNCHANGED <<owner, at>>
        /\ \A t \in Threads : t # r => pc'[t] = pc[t]
    BY <1>0, <1>5 DEF Call, Goto, Ending
  <2>q. QED BY <1>k, <2>1, <2>2
<1>6. ASSUME NEW r \in Requests, RequestAcquire(r) PROVE Pending
  <2>1. ~Off(c) /\ r \in Threads
    BY <1>n, <1>6 DEF RequestAcquire, Threads
  <2>2. c = Monitor
    BY <1>0, <1>6, <2>1 DEF RequestAcquire, Off
  <2>3. Order[CHOOSE i \in 1 .. Len(Order) : Order[i] = Monitor] = Monitor
    BY Positions
  <2>4. owner' = r /\ pc'[r] = "reap" /\ This(r)' = Monitor
    BY <1>0, <1>6, <2>1, <2>3 DEF RequestAcquire, Goto, This
  <2>q. QED BY <1>0, <1>a, <2>1, <2>2, <2>4 DEF Ending
<1>7. CASE StopBegins \/ JoinReturns
  <2>1. Off(c) /\ Running
    BY <1>7 DEF StopBegins, JoinReturns, Off, child, Running
  <2>2. /\ pc["main"] \notin Ending /\ UNCHANGED <<owner, at>>
        /\ \A t \in Threads : t # "main" => pc'[t] = pc[t]
    BY <1>0, <1>a, <1>7 DEF StopBegins, JoinReturns, Goto, Ending
  <2>q. QED BY <1>k, <2>1, <2>2
<1>8. CASE StopChild
  <2>1. Off(c) /\ Running /\ pc["main"] = "stopping"
    BY <1>0, <1>8 DEF StopChild, Off, Running
  <2>q. QED BY <1>a, <1>f, <2>1, WorkerEnds DEF Working, Ending
<1>9. ~StopFault
  BY <1>f DEF StopFault
<1>10. CASE HostExits
  <2>1. Off(c) /\ owner' = owner /\ ~Running'
    BY <1>0, <1>a, <1>10 DEF HostExits, Off, child, Running
  <2>q. QED BY <1>n, <2>1
<1>11. CASE UNCHANGED vars
  BY <1>k, <1>11 DEF vars, child, Off, Running
<1>q. QED
  BY <1>1, <1>2, <1>3, <1>4, <1>5, <1>6, <1>7, <1>8, <1>9, <1>10, <1>11
     DEF Next, Loop, Request, Stop, Threads

(* When nobody is at work on the children and no exception has left a pass *)
(* halfway, nothing runs that is switched off, whatever the loop and any   *)
(* number of calls of set_monitoring did to one another.                   *)
THEOREM OffIsOff == Spec => []OffMeansOff
<1>1. Init => OffPending
  BY DEF Init, OffPending, Off
<1>2. Inv /\ OffPending => OffMeansOff
  BY DEF Inv, OneProcessPerChild, OffPending, Off, OffMeansOff
<1>q. QED BY Inductive, OffStep, <1>1, <1>2, PTL DEF Spec

-----------------------------------------------------------------------------
(* The final stop, whether its join timed out or not: unless the loop was  *)
(* late, it begins no pass once stop has the lock; requests touch the      *)
(* monitor only, and the children stop has come past stay down.            *)

Leaving == {"stopping", "stopped", "exited"}

LoopGone ==
  /\ pc["main"] # "serving" => stopFlag
  /\ pc["main"] = "want" /\ ~late => pc["loop"] = "over"
  /\ pc["main"] \in Leaving /\ ~late => pc["loop"] \in {"check", "over"}
  /\ pc["loop"] \in {"check", "want", "over"} \cup Working

OnlyMonitor == \A r \in Requests : pc[r] \in Working => This(r) = Monitor

Past(i) == \/ pc["main"] = "stopping" /\ i > at["main"]
           \/ pc["main"] \in {"stopped", "exited"}

PastDown == faults = 0 /\ ~late => \A i \in 1 .. Len(Order) :
  Past(i) /\ Order[i] # Monitor => proc[Order[i]] # "up"

LEMMA LoopGoneStep ==
  ASSUME Inv, LoopGone, [Next]_vars
  PROVE  LoopGone'
<1> USE SupervisorAssumption DEF SupervisorAssumption
<1>0. /\ pc \in [Threads -> Stages] /\ {"loop", "main"} \subseteq Threads
      /\ Requests \subseteq Threads
  BY DEF Inv, TypeOK, Threads
<1>k. ASSUME pc'["main"] = pc["main"], pc'["loop"] = pc["loop"],
             UNCHANGED <<stopFlag, late>>
      PROVE  LoopGone'
  BY <1>k DEF LoopGone
<1>1. ASSUME NEW c \in Children, ChildExits(c) \/ CoolingEnds(c) PROVE LoopGone'
  BY <1>k, <1>1 DEF ChildExits, CoolingEnds
<1>2. ASSUME NEW t \in Threads, t # "main", Reconcile(t) PROVE LoopGone'
  <2>1. UNCHANGED <<stopFlag, late>> /\ pc[t] \in Working
    BY <1>2 DEF Reconcile, Reap, Decide, Launch, LaunchFails, Show, Terminated, Fault, Working
  <2>2. PICK stage \in {"check", "over", "done"} \cup Working :
          pc' = [pc EXCEPT ![t] = stage] /\ (t = "loop" => stage # "done")
    BY <1>2 DEF Reconcile, Reap, Decide, Launch, LaunchFails, Show, Terminated, Fault,
                Advance, Goto, Working
  <2>3. CASE t # "loop"
    BY <1>0, <1>2, <1>k, <2>1, <2>2, <2>3
  <2>4. CASE t = "loop"
    <3>1. pc'["main"] = pc["main"] /\ pc'["loop"] = stage
      BY <1>0, <2>2, <2>4
    <3>q. QED BY <2>1, <2>2, <2>4, <3>1 DEF LoopGone, Working
  <2>q. QED BY <2>3, <2>4
<1>3. CASE LoopCheck
  <2>1. /\ pc["loop"] = "check" /\ pc'["main"] = pc["main"] /\ UNCHANGED <<stopFlag, late>>
        /\ pc'["loop"] = IF stopFlag THEN "over" ELSE "want"
    BY <1>0, <1>3 DEF LoopCheck, Goto
  <2>q. QED BY <2>1 DEF LoopGone, Leaving
<1>4. CASE LoopAcquire
  <2>1. /\ pc["loop"] = "want" /\ pc'["loop"] = "reap" /\ pc'["main"] = pc["main"]
        /\ UNCHANGED <<stopFlag, late>>
    BY <1>0, <1>4 DEF LoopAcquire, Goto
  <2>q. QED BY <2>1 DEF LoopGone, Working
<1>5. ASSUME NEW r \in Requests, Call(r) \/ RequestAcquire(r) PROVE LoopGone'
  <2>1. (\E stage \in Stages : pc' = [pc EXCEPT ![r] = stage]) /\ UNCHANGED <<stopFlag, late>>
    BY <1>5 DEF Call, RequestAcquire, Goto, Stages
  <2>q. QED BY <1>0, <1>k, <2>1
<1>6. CASE StopBegins
  <2>1. pc'["main"] = "join" /\ pc'["loop"] = pc["loop"] /\ stopFlag' = TRUE
    BY <1>0, <1>6 DEF StopBegins, Goto
  <2>q. QED BY <2>1 DEF LoopGone, Leaving
<1>7. CASE JoinReturns
  <2>1. /\ pc["main"] = "join" /\ pc'["main"] = "want" /\ pc'["loop"] = pc["loop"]
        /\ late' = (pc["loop"] # "over") /\ stopFlag' = stopFlag
    BY <1>0, <1>7 DEF JoinReturns, Goto
  <2>q. QED BY <2>1 DEF LoopGone, Leaving
<1>8. CASE StopAcquire
  <2>1. /\ pc["main"] = "want" /\ pc'["main"] = "stopping" /\ pc'["loop"] = pc["loop"]
        /\ late' = (late /\ pc["loop"] = "want") /\ stopFlag' = stopFlag
    BY <1>0, <1>8 DEF StopAcquire, Goto
  <2>2. pc["loop"] \notin Working
    BY <1>0, <1>8 DEF StopAcquire, Inv, LockHeld
  <2>3. ~late' => pc["loop"] \in {"check", "over"}
    <3>1. CASE ~late
      BY <2>1, <3>1 DEF LoopGone
    <3>2. CASE late
      BY <2>1, <2>2, <3>2 DEF LoopGone
    <3>q. QED BY <3>1, <3>2
  <2>q. QED BY <2>1, <2>3 DEF LoopGone, Leaving
<1>9. CASE StopChild \/ StopFault
  <2>1. /\ pc["main"] \in Leaving /\ pc'["main"] \in Leaving /\ pc'["loop"] = pc["loop"]
        /\ UNCHANGED <<stopFlag, late>>
    BY <1>0, <1>9 DEF StopChild, StopFault, Goto, Leaving
  <2>q. QED BY <2>1 DEF LoopGone, Leaving
<1>10. CASE HostExits
  <2>1. /\ pc["main"] = "stopped" /\ pc'["main"] = "exited" /\ pc'["loop"] = "over"
        /\ UNCHANGED <<stopFlag, late>>
    BY <1>0, <1>10 DEF HostExits
  <2>q. QED BY <2>1 DEF LoopGone, Leaving
<1>11. CASE UNCHANGED vars
  BY <1>11 DEF vars, LoopGone
<1>q. QED
  BY <1>0, <1>1, <1>2, <1>3, <1>4, <1>5, <1>6, <1>7, <1>8, <1>9, <1>10, <1>11
     DEF Next, Loop, Request, Stop

LEMMA OnlyMonitorStep ==
  ASSUME Inv, OnlyMonitor, [Next]_vars
  PROVE  OnlyMonitor'
<1> SUFFICES ASSUME NEW r \in Requests, pc'[r] \in Working PROVE This(r)' = Monitor
  BY DEF OnlyMonitor
<1> USE SupervisorAssumption DEF SupervisorAssumption
<1>0. /\ pc \in [Threads -> Stages] /\ at \in [Threads -> 1 .. Len(Order)]
      /\ {"loop", "main"} \subseteq Threads /\ Requests \subseteq Threads
      /\ r # "main" /\ r # "loop"
  BY DEF Inv, TypeOK, Threads
<1>k. ASSUME pc[r] \in Working, at'[r] = at[r] PROVE This(r)' = Monitor
  BY <1>k DEF OnlyMonitor, This
<1>1. ASSUME NEW c \in Children, ChildExits(c) \/ CoolingEnds(c) PROVE This(r)' = Monitor
  BY <1>1, <1>k DEF ChildExits, CoolingEnds
<1>2. ASSUME NEW t \in Threads, Reconcile(t) PROVE This(r)' = Monitor
  <2>1. CASE t # r
    <3>1. /\ \E stage \in Stages : pc' = [pc EXCEPT ![t] = stage]
          /\ at' = at \/ \E i \in Int : at' = [at EXCEPT ![t] = i]
      <4>1. at[t] + 1 \in Int
        BY <1>0, Positions
      <4>2. CASE Advance(t)
        BY <4>1, <4>2 DEF Advance, Goto, Stages
      <4>3. CASE ~Advance(t)
        BY <1>2, <4>3 DEF Reconcile, Reap, Decide, Launch, LaunchFails, Show, Terminated,
                          Fault, Goto, Stages
      <4>q. QED BY <4>2, <4>3
    <3>2. pc'[r] = pc[r] /\ at'[r] = at[r]
      BY <1>0, <2>1, <3>1
    <3>q. QED BY <1>k, <3>2
  <2>2. CASE t = r
    <3>1. pc[r] \in Working
      BY <1>2, <2>2 DEF Reconcile, Reap, Decide, Launch, LaunchFails, Show, Terminated,
                        Fault, Working
    <3>2. CASE at' = at
      BY <1>k, <3>1, <3>2
    <3>3. CASE at' # at
      <4>1. Advance(r) \/ Fault(r)
        BY <1>2, <2>2, <3>3 DEF Reconcile, Reap, Decide, Launch, LaunchFails, Show, Terminated
      <4>2. pc'[r] = "done"
        BY <1>0, <4>1 DEF Advance, Fault, Goto
      <4>q. QED BY <4>2 DEF Working
    <3>q. QED BY <3>2, <3>3
  <2>q. QED BY <2>1, <2>2
<1>3. CASE LoopCheck \/ LoopAcquire
  <2>1. pc'[r] = pc[r] /\ at' = at
    BY <1>0, <1>3 DEF LoopCheck, LoopAcquire, Goto
  <2>q. QED BY <1>k, <2>1
<1>4. ASSUME NEW s \in Requests, Call(s) PROVE This(r)' = Monitor
  <2>1. /\ pc' = [pc EXCEPT ![s] = "want"] /\ at' = at
        /\ "want" \notin Working
    BY <1>4 DEF Call, Goto, Working
  <2>2. s # r
    BY <1>0, <2>1
  <2>q. QED BY <1>0, <1>k, <2>1, <2>2
<1>5. ASSUME NEW s \in Requests, RequestAcquire(s) PROVE This(r)' = Monitor
  <2>1. /\ pc' = [pc EXCEPT ![s] = "reap"]
        /\ at' = [at EXCEPT ![s] = CHOOSE i \in 1 .. Len(Order) : Order[i] = Monitor]
    BY <1>5 DEF RequestAcquire, Goto
  <2>2. CASE s = r
    <3>1. Order[CHOOSE i \in 1 .. Len(Order) : Order[i] = Monitor] = Monitor
      BY Positions
    <3>q. QED BY <1>0, <2>1, <2>2, <3>1 DEF This
  <2>3. CASE s # r
    BY <1>0, <1>k, <2>1, <2>3
  <2>q. QED BY <2>2, <2>3
<1>6. CASE StopBegins \/ JoinReturns \/ StopAcquire \/ StopChild \/ StopFault
  <2>1. pc'[r] = pc[r] /\ at'[r] = at[r]
    BY <1>0, <1>6 DEF StopBegins, JoinReturns, StopAcquire, StopChild, StopFault, Goto
  <2>q. QED BY <1>k, <2>1
<1>7. ~HostExits
  BY <1>0 DEF HostExits, Working
<1>8. CASE UNCHANGED vars
  BY <1>k, <1>8 DEF vars
<1>q. QED
  BY <1>1, <1>2, <1>3, <1>4, <1>5, <1>6, <1>7, <1>8 DEF Next, Loop, Request, Stop, Threads

LEMMA PastDownStep ==
  ASSUME Inv, LoopGone, OnlyMonitor, PastDown, [Next]_vars
  PROVE  PastDown'
<1> SUFFICES ASSUME faults' = 0, ~late', NEW i \in 1 .. Len(Order), Past(i)', Order[i] # Monitor
             PROVE  proc'[Order[i]] # "up"
  BY DEF PastDown
<1> USE SupervisorAssumption DEF SupervisorAssumption
<1>0. /\ pc \in [Threads -> Stages] /\ at \in [Threads -> 1 .. Len(Order)]
      /\ proc \in [Children -> {"none", "up", "dead"}]
      /\ {"loop", "main"} \subseteq Threads /\ Requests \subseteq Threads
      /\ Order[i] \in Children /\ Len(Order) \in Nat
      /\ faults \in Nat
      /\ \A t \in Threads : This(t) \in Children
  <2>1. faults \in 0 .. MaxFaults /\ MaxFaults \in Nat
    BY DEF Inv, TypeOK
  <2>2. faults \in Nat
    BY <2>1
  <2>3. \A t \in Threads : This(t) \in Children
    BY ThisIsChild DEF Inv
  <2>q. QED BY <2>2, <2>3, Positions DEF Inv, TypeOK, Threads
<1>f. faults = 0
  <2>1. faults' = faults \/ faults' = faults + 1
    BY DEF Next, Loop, Request, Stop, Reconcile, ChildExits, CoolingEnds, LoopCheck,
           LoopAcquire, Reap, Decide, Launch, LaunchFails, Show, Terminated, Fault,
           Call, RequestAcquire, StopBegins, JoinReturns, StopAcquire, StopChild,
           StopFault, HostExits, vars
  <2>q. QED BY <1>0, <2>1
<1>6. ~StopBegins /\ ~JoinReturns
  BY <1>0 DEF StopBegins, JoinReturns, Goto, Past
<1>7. ~StopAcquire
  <2> SUFFICES ASSUME StopAcquire PROVE FALSE
    OBVIOUS
  <2>1. pc'["main"] = "stopping" /\ at'["main"] = Len(Order)
    BY <1>0 DEF StopAcquire, Goto
  <2>q. QED BY <1>0, <2>1 DEF Past
<1>l. ~late
  <2>1. late' = late
    BY <1>6, <1>7
       DEF Next, Loop, Request, Stop, Reconcile, ChildExits, CoolingEnds, LoopCheck,
           LoopAcquire, Reap, Decide, Launch, LaunchFails, Show, Terminated, Fault,
           Call, RequestAcquire, StopChild, StopFault, HostExits, vars
  <2>q. QED BY <2>1
<1>d. ASSUME Past(i) PROVE proc[Order[i]] # "up"
  BY <1>d, <1>f, <1>l DEF PastDown
<1>k. ASSUME pc'["main"] = pc["main"], at'["main"] = at["main"],
             proc' = proc \/ (\E c \in Children, p \in {"none", "dead"} :
                                proc' = [proc EXCEPT ![c] = p])
      PROVE  proc'[Order[i]] # "up"
  <2>1. Past(i)
    BY <1>k DEF Past
  <2>q. QED BY <1>0, <1>d, <1>k, <2>1
<1>1. ASSUME NEW c \in Children, ChildExits(c) PROVE proc'[Order[i]] # "up"
  <2>1. Past(i)
    BY <1>1 DEF ChildExits, Past
  <2>q. QED BY <1>0, <1>1, <1>d, <2>1 DEF ChildExits
<1>2. ASSUME NEW c \in Children, CoolingEnds(c) PROVE proc'[Order[i]] # "up"
  BY <1>2, <1>k DEF CoolingEnds
<1>3. ASSUME NEW t \in Threads, t # "main", Reconcile(t) PROVE proc'[Order[i]] # "up"
  <2>1. pc'["main"] = pc["main"] /\ at'["main"] = at["main"]
    <3>1. CASE Advance(t)
      BY <1>0, <1>3, <3>1 DEF Advance, Goto
    <3>2. CASE ~Advance(t)
      BY <1>0, <1>3, <3>2 DEF Reconcile, Reap, Decide, Launch, LaunchFails, Show,
                              Terminated, Fault, Goto
    <3>q. QED BY <3>1, <3>2
  <2>2. Past(i)
    BY <2>1 DEF Past
  <2>3. CASE Launch(t)
    <3>1. pc[t] = "launch" /\ proc' = [proc EXCEPT ![This(t)] = "up"]
      BY <2>3 DEF Launch
    <3>2. t \in Requests
      <4>1. pc["loop"] \in {"check", "over"}
        BY <1>l, <2>2 DEF LoopGone, Past, Leaving
      <4>q. QED BY <1>3, <3>1, <4>1 DEF Threads
    <3>3. This(t) = Monitor
      BY <3>1, <3>2 DEF OnlyMonitor, Working
    <3>q. QED BY <1>0, <1>d, <2>2, <3>1, <3>3
  <2>4. CASE ~Launch(t)
    <3>1. proc' = proc \/ \E c \in Children, p \in {"none", "dead"} :
                            proc' = [proc EXCEPT ![c] = p]
      BY <1>0, <1>3, <2>4 DEF Reconcile, Reap, Decide, LaunchFails, Show, Terminated,
                              Fault, child
    <3>q. QED BY <1>k, <2>1, <3>1
  <2>q. QED BY <2>3, <2>4
<1>4. CASE LoopCheck \/ LoopAcquire
  <2>1. pc'["main"] = pc["main"] /\ UNCHANGED <<at, proc>>
    BY <1>0, <1>4 DEF LoopCheck, LoopAcquire, Goto, child
  <2>q. QED BY <1>k, <2>1
<1>5. ASSUME NEW r \in Requests, Call(r) \/ RequestAcquire(r) PROVE proc'[Order[i]] # "up"
  <2>1. pc'["main"] = pc["main"] /\ at'["main"] = at["main"] /\ proc' = proc
    BY <1>0, <1>5 DEF Call, RequestAcquire, Goto, child
  <2>q. QED BY <1>k, <2>1
<1>8. CASE StopChild
  <2>1. /\ pc["main"] = "stopping"
        /\ proc' = [proc EXCEPT ![Order[at["main"]]] = "none"]
        /\ \/ at["main"] > 1 /\ at'["main"] = at["main"] - 1
           \/ at["main"] = 1
    BY <1>0, <1>8 DEF StopChild, This
  <2>2. Past(i) \/ i = at["main"]
    <3>1. CASE at["main"] = 1
      BY <1>0, <2>1, <3>1 DEF Past
    <3>2. CASE at["main"] > 1
      <4>1. pc'["main"] = "stopping" /\ at'["main"] = at["main"] - 1
        BY <1>8, <2>1, <3>2 DEF StopChild
      <4>q. QED BY <1>0, <2>1, <4>1 DEF Past
    <3>q. QED BY <2>1, <3>1, <3>2
  <2>q. QED BY <1>0, <1>d, <2>1, <2>2
<1>9. ~StopFault
  BY <1>f DEF StopFault
<1>10. CASE HostExits
  <2>1. Past(i) /\ proc' = proc
    BY <1>10 DEF HostExits, Past, child
  <2>q. QED BY <1>d, <2>1
<1>11. CASE UNCHANGED vars
  BY <1>k, <1>11 DEF vars, child
<1>q. QED
  BY <1>1, <1>2, <1>3, <1>4, <1>5, <1>6, <1>7, <1>8, <1>9, <1>10, <1>11
     DEF Next, Loop, Request, Stop, Threads

(* Stop leaves no child of the loop behind, whatever requests come in      *)
(* between and whether its wait for the loop timed out or not, unless an   *)
(* exception cut it short or the loop, past its look at the flag, waited   *)
(* for the lock beside it.                                                 *)
THEOREM CleanStop == Spec => []LoopChildrenStopped
<1>1. Init => LoopGone /\ OnlyMonitor /\ PastDown
  <2>1. ASSUME Init
        PROVE  /\ \A t \in Threads : pc[t] \in {"check", "serving", "new"}
               /\ pc["main"] = "serving" /\ pc["loop"] = "check"
    BY <2>1 DEF Init, Threads
  <2>2. "main" \in Threads /\ Requests \subseteq Threads
    BY DEF Threads
  <2>q. QED BY <2>1, <2>2 DEF LoopGone, OnlyMonitor, PastDown, Past, Leaving, Working
<1>2. Inv /\ LoopGone /\ OnlyMonitor /\ PastDown /\ [Next]_vars
        => (LoopGone /\ OnlyMonitor /\ PastDown)'
  BY LoopGoneStep, OnlyMonitorStep, PastDownStep
<1>3. Inv /\ PastDown => LoopChildrenStopped
  <2> SUFFICES ASSUME Inv, PastDown, pc["main"] = "exited", faults = 0, ~late,
                      NEW c \in Children \ {Monitor}
               PROVE  live[c] = 0
    BY DEF LoopChildrenStopped
  <2>1. PICK i \in 1 .. Len(Order) : Order[i] = c
    BY DEF Children
  <2>q. QED BY <2>1 DEF PastDown, Past, Inv, OneProcessPerChild
<1>q. QED BY Inductive, <1>1, <1>2, <1>3, PTL DEF Spec
=============================================================================
