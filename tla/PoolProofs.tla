----------------------------- MODULE PoolProofs -----------------------------
(***************************************************************************)
(* What Pool.tla promises, for any number of submissions and workers.      *)
(*                                                                         *)
(* Beside the properties themselves the invariant says that a goroutine    *)
(* which has not submitted yet has no cancel to call, so that it submits   *)
(* with a fresh context, and that nobody is left to submit once Close has  *)
(* drained.                                                                *)
(***************************************************************************)
EXTENDS Pool, TLAPS

NothingToCancel == \A s \in Submissions : cancelled[s] => sub[s] \notin {"none", "launched"}

Drained == closing \in {"drained", "released"} => \A s \in Submissions : sub[s] = "none"

Left == closing = "released" => \A w \in Workers : worker[w] = "gone"

Inv == /\ TypeOK /\ OnOneWorker
       /\ NothingToCancel /\ Drained /\ Left

-----------------------------------------------------------------------------
LEMMA InitInv == Init => Inv
BY PoolAssumption DEF Init, Inv, TypeOK, Stages, OnOneWorker, NothingToCancel, Drained, Left

LEMMA LaunchInv == ASSUME Inv, NEW s \in Submissions, Launch(s) PROVE Inv'
BY DEF Inv, Launch, TypeOK, Stages, OnOneWorker,
      NothingToCancel, Drained, Left

LEMMA SubmitInv == ASSUME Inv, NEW s \in Submissions, Submit(s) PROVE Inv'
BY DEF Inv, Submit, TypeOK, Stages, OnOneWorker,
      NothingToCancel, Drained, Left

LEMMA CancelInv == ASSUME Inv, NEW s \in Submissions, Cancel(s) PROVE Inv'
BY DEF Inv, Cancel, TypeOK, Stages, OnOneWorker,
      NothingToCancel, Drained, Left

LEMMA DropInv == ASSUME Inv, NEW s \in Submissions, Drop(s) PROVE Inv'
BY DEF Inv, Drop, TypeOK, Stages, OnOneWorker,
      NothingToCancel, Drained, Left

LEMMA TakeInv == ASSUME Inv, NEW s \in Submissions, Take(s) PROVE Inv'
BY DEF Inv, Take, TypeOK, Stages, OnOneWorker,
      NothingToCancel, Drained, Left

LEMMA ReceiveInv == ASSUME Inv, NEW w \in Workers, NEW s \in Submissions, Receive(w, s) PROVE Inv'
<1>1. TypeOK'
  BY DEF Inv, Receive, TypeOK, Stages
<1>2. OnOneWorker'
  <2>1. ASSUME NEW t \in Submissions, sub'[t] \in {"held", "running"}
        PROVE  \E v \in Workers : worker'[v] = t
    <3>1. CASE t = s
      BY <3>1 DEF Inv, Receive, TypeOK
    <3>2. CASE t # s
      <4>1. PICK v \in Workers : worker[v] = t
        BY <2>1, <3>2 DEF Inv, Receive, TypeOK, OnOneWorker
      <4> QED BY <4>1, PoolAssumption DEF Inv, Receive, TypeOK
    <3> QED BY <3>1, <3>2
  <2>2. ASSUME NEW v \in Workers, worker'[v] \in Submissions
        PROVE  sub'[worker'[v]] \in {"held", "running"}
    BY <2>2, PoolAssumption DEF Inv, Receive, TypeOK, OnOneWorker
  <2>3. ASSUME NEW u \in Workers, NEW v \in Workers, u # v, worker'[u] \in Submissions
        PROVE  worker'[u] # worker'[v]
    BY <2>3, PoolAssumption DEF Inv, Receive, TypeOK, OnOneWorker
  <2> QED BY <2>1, <2>2, <2>3 DEF OnOneWorker
<1>3. NothingToCancel'
  BY DEF Inv, Receive, TypeOK, NothingToCancel
<1>4. (Drained /\ Left)'
  BY PoolAssumption DEF Inv, Receive, TypeOK, Drained, Left
<1> QED BY <1>1, <1>2, <1>3, <1>4 DEF Inv

LEMMA RunOneInv == ASSUME Inv, NEW w \in Workers, RunOne(w) PROVE Inv'
<1>1. TypeOK'
  BY DEF Inv, RunOne, TypeOK, Stages
<1>2. OnOneWorker'
  <2>1. ASSUME NEW t \in Submissions, sub'[t] \in {"held", "running"}
        PROVE  \E v \in Workers : worker'[v] = t
    <3>1. PICK v \in Workers : worker[v] = t
      BY <2>1 DEF Inv, RunOne, TypeOK, OnOneWorker
    <3>2. worker'[v] = t
      BY <2>1, <3>1 DEF Inv, RunOne, TypeOK
    <3> QED BY <3>2
  <2>2. ASSUME NEW v \in Workers, worker'[v] \in Submissions
        PROVE  sub'[worker'[v]] \in {"held", "running"}
    <3>1. worker[v] \in Submissions /\ worker'[v] = worker[v]
      BY <2>2, PoolAssumption DEF Inv, RunOne, TypeOK
    <3>2. sub[worker[v]] \in {"held", "running"}
      BY <3>1 DEF Inv, OnOneWorker
    <3>3. CASE ContextDone(worker[w])
      <4>1. v # w
        BY <2>2, <3>3, PoolAssumption DEF Inv, RunOne, TypeOK
      <4>2. worker[v] # worker[w]
        BY <4>1, <3>1 DEF Inv, OnOneWorker
      <4> QED BY <3>1, <3>2, <3>3, <4>2 DEF Inv, RunOne, TypeOK
    <3>4. CASE ~ContextDone(worker[w])
      BY <3>1, <3>2, <3>4 DEF Inv, RunOne, TypeOK
    <3> QED BY <3>3, <3>4
  <2>3. ASSUME NEW u \in Workers, NEW v \in Workers, u # v, worker'[u] \in Submissions
        PROVE  worker'[u] # worker'[v]
    <3>1. worker[u] \in Submissions /\ worker'[u] = worker[u]
      BY <2>3, PoolAssumption DEF Inv, RunOne, TypeOK
    <3>2. worker[u] # worker[v]
      BY <2>3, <3>1 DEF Inv, OnOneWorker
    <3>3. worker'[v] \in {worker[v], None}
      BY DEF Inv, RunOne, TypeOK
    <3> QED BY <3>1, <3>2, <3>3, PoolAssumption
  <2> QED BY <2>1, <2>2, <2>3 DEF OnOneWorker
<1>3. NothingToCancel'
  BY DEF Inv, RunOne, TypeOK, NothingToCancel
<1>4. (Drained /\ Left)'
  BY PoolAssumption DEF Inv, RunOne, TypeOK, Drained, Left
<1> QED BY <1>1, <1>2, <1>3, <1>4 DEF Inv

LEMMA RunEndsInv == ASSUME Inv, NEW w \in Workers, RunEnds(w) PROVE Inv'
BY PoolAssumption DEF Inv, RunEnds, TypeOK, Stages, OnOneWorker,
      NothingToCancel, Drained, Left

LEMMA WorkerExitsInv == ASSUME Inv, NEW w \in Workers, WorkerExits(w) PROVE Inv'
<1>1. TypeOK'
  BY DEF Inv, WorkerExits, TypeOK, Stages
<1>2. OnOneWorker'
  <2>1. ASSUME NEW t \in Submissions, sub'[t] \in {"held", "running"}
        PROVE  \E v \in Workers : worker'[v] = t
    <3>1. PICK v \in Workers : worker[v] = t
      BY <2>1 DEF Inv, WorkerExits, TypeOK, OnOneWorker
    <3>2. worker'[v] = t
      BY <3>1, PoolAssumption DEF Inv, WorkerExits, TypeOK
    <3> QED BY <3>2
  <2>2. ASSUME NEW v \in Workers, worker'[v] \in Submissions
        PROVE  sub'[worker'[v]] \in {"held", "running"}
    BY <2>2, PoolAssumption DEF Inv, WorkerExits, TypeOK, OnOneWorker
  <2>3. ASSUME NEW u \in Workers, NEW v \in Workers, u # v, worker'[u] \in Submissions
        PROVE  worker'[u] # worker'[v]
    BY <2>3, PoolAssumption DEF Inv, WorkerExits, TypeOK, OnOneWorker
  <2> QED BY <2>1, <2>2, <2>3 DEF OnOneWorker
<1>3. NothingToCancel'
  BY DEF Inv, WorkerExits, TypeOK, NothingToCancel
<1>4. (Drained /\ Left)'
  BY PoolAssumption DEF Inv, WorkerExits, TypeOK, Drained, Left
<1> QED BY <1>1, <1>2, <1>3, <1>4 DEF Inv

LEMMA CloseInv == ASSUME Inv, Close PROVE Inv'
<1> USE DEF Inv, TypeOK, OnOneWorker, NothingToCancel, Drained, Left
<1>1. CASE CloseMarks
  BY <1>1 DEF CloseMarks
<1>2. CASE CloseCancels
  BY <1>2 DEF CloseCancels
<1>3. CASE CloseDrained
  BY <1>3 DEF CloseDrained
<1>4. CASE CloseTimesOut
  BY <1>4 DEF CloseTimesOut
<1>5. CASE CloseReleases
  BY <1>5 DEF CloseReleases, WorkersGone
<1> QED BY <1>1, <1>2, <1>3, <1>4, <1>5 DEF Close

LEMMA NextInv == Inv /\ [Next]_vars => Inv'
<1> SUFFICES ASSUME Inv, [Next]_vars PROVE Inv'
  OBVIOUS
<1>1. CASE \E s \in Submissions : Launch(s) \/ Cancel(s) \/ Submitter(s)
  BY <1>1, LaunchInv, CancelInv, SubmitInv, DropInv, TakeInv DEF Submitter
<1>2. CASE \E w \in Workers : Work(w)
  BY <1>2, ReceiveInv, RunOneInv, RunEndsInv, WorkerExitsInv DEF Work
<1>3. CASE Close
  BY <1>3, CloseInv
<1>4. CASE UNCHANGED vars
  BY <1>4 DEF vars, Inv, TypeOK, OnOneWorker, NothingToCancel, Drained, Left
<1> QED BY <1>1, <1>2, <1>3, <1>4 DEF Next

LEMMA InvHolds == Spec => []Inv
BY InitInv, NextInv, PTL DEF Spec

-----------------------------------------------------------------------------
(* Type correctness of submissions, workers and shutdown. *)
THEOREM TypeCorrect == Spec => []TypeOK
<1>1. Inv => TypeOK
  BY DEF Inv
<1> QED BY <1>1, InvHolds, PTL

(* The worker count bounds what runs: whatever is received and not yet answered
   is on exactly one worker, for any number of either (pool.go work). *)
THEOREM AlwaysOnOneWorker == Spec => []OnOneWorker
<1>1. Inv => OnOneWorker
  BY DEF Inv
<1> QED BY <1>1, InvHolds, PTL

(* Close releases workers and programs only when nobody is left to use them
   (runtime.go Close). *)
THEOREM AlwaysReleasedAfterUse == Spec => []ReleasedAfterUse
<1>1. Inv => ReleasedAfterUse
  BY DEF Inv, Drained, Left, ReleasedAfterUse
<1> QED BY <1>1, InvHolds, PTL

-----------------------------------------------------------------------------
(* The refinement. *)

Done == [s \in Submissions |-> ContextDone(s)]

LEMMA InitMaps == Init => Promise!QuantaInit
BY DEF Init, Promise!QuantaInit, Life, ContextDone

LEMMA SubmitterMaps ==
    ASSUME Inv, NEW s \in Submissions, Launch(s) \/ Cancel(s) \/ Submitter(s)
    PROVE  Promise!QuantaNext \/ (Life' = Life /\ Done' = Done)
<1> USE DEF Inv, TypeOK, Stages, Life, Done, ContextDone
<1>1. CASE Launch(s)
  BY <1>1 DEF Launch
<1>2. CASE Cancel(s)
  <2>1. Promise!Cancels
    BY <1>2 DEF Cancel, Promise!Cancels
  <2> QED BY <2>1 DEF Promise!QuantaNext
<1>3. CASE Submit(s)
  <2>1. CASE root
    BY <1>3, <2>1 DEF Submit
  <2>2. CASE ~root
    <3>1. Promise!Submits(s)
      BY <1>3, <2>2 DEF Submit, NothingToCancel, Promise!Submits
    <3> QED BY <3>1 DEF Promise!QuantaNext
  <2> QED BY <2>1, <2>2
<1>4. CASE Drop(s)
  <2>1. Promise!Drops(s)
    BY <1>4 DEF Drop, Offered, Promise!Drops
  <2> QED BY <2>1 DEF Promise!QuantaNext
<1>5. CASE Take(s)
  <2>1. Promise!Takes(s)
    BY <1>5 DEF Take, Promise!Takes
  <2> QED BY <2>1 DEF Promise!QuantaNext
<1> QED BY <1>1, <1>2, <1>3, <1>4, <1>5 DEF Submitter

LEMMA WorkMaps ==
    ASSUME Inv, NEW w \in Workers, Work(w)
    PROVE  Promise!QuantaNext \/ (Life' = Life /\ Done' = Done)
<1> USE DEF Inv, TypeOK, Stages, Life, Done, ContextDone
<1>1. CASE \E s \in Submissions : Receive(w, s)
  <2>1. PICK s \in Submissions : Receive(w, s)
    BY <1>1
  <2> QED BY <2>1 DEF Receive
<1>2. CASE RunOne(w)
  <2>1. PICK s \in Submissions : s = worker[w] /\ sub[s] = "held"
    BY <1>2 DEF RunOne
  <2>2. CASE ContextDone(s)
    <3>1. Promise!Drops(s)
      BY <1>2, <2>1, <2>2 DEF RunOne, Promise!Drops
    <3> QED BY <2>1, <3>1 DEF Promise!QuantaNext
  <2>3. CASE ~ContextDone(s)
    <3>1. Promise!Starts(s)
      BY <1>2, <2>1, <2>3 DEF RunOne, Promise!Starts
    <3> QED BY <2>1, <3>1 DEF Promise!QuantaNext
  <2> QED BY <2>2, <2>3
<1>3. CASE RunEnds(w)
  <2>1. PICK s \in Submissions : s = worker[w] /\ sub[s] = "running"
    BY <1>3 DEF RunEnds
  <2>2. Promise!Finishes(s)
    BY <1>3, <2>1 DEF RunEnds, Promise!Finishes
  <2> QED BY <2>2 DEF Promise!QuantaNext
<1>4. CASE WorkerExits(w)
  BY <1>4 DEF WorkerExits
<1> QED BY <1>1, <1>2, <1>3, <1>4 DEF Work

LEMMA CloseMaps ==
    ASSUME Inv, Close
    PROVE  Promise!QuantaNext \/ (Life' = Life /\ Done' = Done)
<1> USE DEF Inv, TypeOK, Stages, Life, Done, ContextDone
<1>1. CASE CloseMarks \/ CloseTimesOut \/ CloseReleases
  BY <1>1 DEF CloseMarks, CloseTimesOut, CloseReleases
<1>2. CASE CloseCancels \/ CloseDrained
  <2>1. Promise!Cancels
    BY <1>2 DEF CloseCancels, CloseDrained, Promise!Cancels
  <2> QED BY <2>1 DEF Promise!QuantaNext
<1> QED BY <1>1, <1>2 DEF Close

(* Every step of the pool is one step of the abstract quanta or leaves them as
   they are: a submission waits, runs at most once or is dropped, and gives one
   result (pool.go). *)
THEOREM PoolImplementsQuanta == Spec => PoolKeepsPromise
<1>1. Inv /\ [Next]_vars => [Promise!QuantaNext]_<<Life, Done>>
  <2> SUFFICES ASSUME Inv, [Next]_vars
               PROVE  Promise!QuantaNext \/ (Life' = Life /\ Done' = Done)
    OBVIOUS
  <2>1. CASE UNCHANGED vars
    BY <2>1 DEF vars, Life, Done, ContextDone
  <2>2. CASE Next
    BY <2>2, SubmitterMaps, WorkMaps, CloseMaps DEF Next
  <2> QED BY <2>1, <2>2
<1> QED BY <1>1, InitMaps, InvHolds, PTL DEF Spec, PoolKeepsPromise, Promise!QuantaSpec, Done
=============================================================================
