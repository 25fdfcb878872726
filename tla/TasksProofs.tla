---------------------------- MODULE TasksProofs ----------------------------
(***************************************************************************)
(* What Tasks promises, for any decisions, times and bounds.               *)
(*                                                                         *)
(* The proofs rest on where a quantum stands with the task of its open     *)
(* call (StageInv): a quantum about to create one found none, one that     *)
(* yielded has one, and what is about to be journaled is what the record   *)
(* holds and keeps, or an expiry.                                          *)
(***************************************************************************)
EXTENDS Tasks, TLAPS

(* The parts of TypeOK, with the shapes of the request and the sweep. *)
Task == [revision : 1 .. MaxRevision, position : 0 .. MaxPosition, kind : Kinds,
         state : States, createdAt : 0 .. MaxClock]

ProcessOK ==
    /\ status \in {"running", "waiting", "ended"}
    /\ revision \in 1 .. MaxRevision
    /\ position \in 0 .. MaxPosition
    /\ open \in Kinds \cup {None}
    /\ pc \in {"idle", "guest", "dispatch", "create", "yielded", "commit"}
    /\ pc = "idle" <=> status # "running"
    /\ outcome \in States \cup {"answer", None}

TasksOK == tasks \in Seq(Task)

WakersOK ==
    /\ waker \in [human : {"idle", "resolve", "wake", "retry"},
                  sweep : {"idle", "settle", "list", "wake", "retry"}]
    /\ request = None \/ request.task \in DOMAIN tasks
    /\ waker.human = "resolve" => /\ request.task \in DOMAIN tasks
                                  /\ request.decision \in Decisions
    /\ sweep \in [now : Nat, due : SUBSET Nat]
    /\ sweep.due \subseteq DOMAIN tasks

HostOK == clock \in 0 .. MaxClock /\ restarts \in Nat /\ refusal \in Refusals \cup {None}

ServedOK == served \in Seq(States \cup {"answer", None}) /\ Len(served) = Len(tasks)

(* Where the quantum stands with the task of its open call. *)
StageInv ==
    /\ pc \in {"dispatch", "create", "yielded", "commit"} => open # None
    /\ open # None => position < MaxPosition
    /\ pc = "create" => Found = {}
    /\ pc = "yielded" => Found # {}
    /\ pc = "commit" => \A t \in Found :
                            \/ outcome = "expired"
                            \/ outcome = tasks[t].state /\ ~Pending(t)

(* A task whose decision the guest was given is settled. *)
ServedInv ==
    \A t \in DOMAIN tasks :
        served[t] \notin {None, "expired"} => served[t] = tasks[t].state /\ ~Pending(t)

Inv == /\ ProcessOK /\ TasksOK /\ WakersOK /\ HostOK /\ ServedOK
       /\ StageInv /\ OneTaskPerCall /\ ParkedOnTask /\ ServedInv

USE DEF Kinds, HumanDecisions, States

-----------------------------------------------------------------------------
(* Facts about the records *)

LEMMA TaskFields ==
    ASSUME TasksOK, NEW t \in DOMAIN tasks
    PROVE  /\ tasks[t] \in Task /\ t \in 1 .. Len(tasks)
           /\ tasks[t].state \in States /\ tasks[t].kind \in Kinds
<1>1. tasks[t] \in Task /\ t \in 1 .. Len(tasks)
  BY DEF TasksOK
<1> QED BY <1>1 DEF Task

(* Settling one task leaves the others, and every task's call. *)
LEMMA SettlingOne ==
    ASSUME TasksOK, NEW t \in DOMAIN tasks, NEW s \in States,
           tasks' = [tasks EXCEPT ![t].state = s]
    PROVE  /\ TasksOK' /\ DOMAIN tasks' = DOMAIN tasks /\ Len(tasks') = Len(tasks)
           /\ \A u \in DOMAIN tasks : /\ tasks'[u].revision = tasks[u].revision
                                      /\ tasks'[u].position = tasks[u].position
                                      /\ tasks'[u].kind = tasks[u].kind
                                      /\ u # t => tasks'[u] = tasks[u]
           /\ tasks'[t].state = s
<1>1. tasks \in Seq(Task) /\ tasks[t] \in Task
  BY DEF TasksOK
<1>2. [tasks[t] EXCEPT !.state = s] \in Task
  BY <1>1 DEF Task
<1>3. tasks' = [tasks EXCEPT ![t] = [tasks[t] EXCEPT !.state = s]]
  OBVIOUS
<1>4. TasksOK' /\ DOMAIN tasks' = DOMAIN tasks /\ Len(tasks') = Len(tasks)
  BY <1>1, <1>2, <1>3 DEF TasksOK
<1>5. \A u \in DOMAIN tasks : u # t => tasks'[u] = tasks[u]
  BY <1>1, <1>3
<1>6. tasks'[t] = [tasks[t] EXCEPT !.state = s]
  BY <1>1, <1>3
<1> QED BY <1>1, <1>4, <1>5, <1>6 DEF Task

(* A step that settles at most tasks that were pending, and touches nothing else
   of the process, keeps what is said of the tasks. *)
LEMMA SettlingKeeps ==
    ASSUME Inv, NEW t \in DOMAIN tasks, NEW s \in States \ {"pending"}, Pending(t),
           tasks' = [tasks EXCEPT ![t].state = s],
           UNCHANGED <<process, served>>
    PROVE  /\ (ProcessOK /\ TasksOK /\ ServedOK /\ StageInv)'
           /\ (OneTaskPerCall /\ ParkedOnTask /\ ServedInv)'
           /\ DOMAIN tasks' = DOMAIN tasks
<1>1. /\ TasksOK' /\ DOMAIN tasks' = DOMAIN tasks /\ Len(tasks') = Len(tasks)
      /\ \A u \in DOMAIN tasks : /\ tasks'[u].revision = tasks[u].revision
                                 /\ tasks'[u].position = tasks[u].position
                                 /\ u # t => tasks'[u] = tasks[u]
      /\ tasks'[t].state = s
  BY SettlingOne DEF Inv
<1>2. Found' = Found
  BY <1>1 DEF Found, process
<1>3. \A u \in DOMAIN tasks : ~Pending(u) => tasks'[u] = tasks[u] /\ ~Pending(u)'
  BY <1>1 DEF Pending
<1>4. ProcessOK' /\ ServedOK'
  BY <1>1 DEF Inv, ProcessOK, ServedOK, process
<1>5. StageInv'
  BY <1>1, <1>2, <1>3 DEF Inv, StageInv, process, Found
<1>6. (OneTaskPerCall /\ ParkedOnTask)'
  BY <1>1, <1>2 DEF Inv, OneTaskPerCall, ParkedOnTask, process
<1>7. ServedInv'
  BY <1>1, <1>3 DEF Inv, ServedInv
<1> QED BY <1>1, <1>4, <1>5, <1>6, <1>7

(* A step that changes neither the process nor its tasks. *)
LEMMA ElsewhereKeeps ==
    ASSUME Inv, UNCHANGED <<process, tasks, served>>
    PROVE  /\ (ProcessOK /\ TasksOK /\ ServedOK /\ StageInv)'
           /\ (OneTaskPerCall /\ ParkedOnTask /\ ServedInv)'
BY DEF Inv, ProcessOK, TasksOK, ServedOK, StageInv, OneTaskPerCall, ParkedOnTask, ServedInv,
       process, Found, Pending

-----------------------------------------------------------------------------
LEMMA InitInv == Init => Inv
BY NoneAssumption, TimesAssumption, BoundsAssumption
   DEF Init, Inv, ProcessOK, TasksOK, WakersOK, HostOK, ServedOK, StageInv, OneTaskPerCall,
       ParkedOnTask, ServedInv, NoSweep

(* The running quantum *)

LEMMA GuestCallsInv == ASSUME Inv, NEW kind \in Kinds, GuestCalls(kind) PROVE Inv'
BY NoneAssumption
   DEF Inv, GuestCalls, ProcessOK, TasksOK, WakersOK, HostOK, ServedOK, StageInv,
       OneTaskPerCall, ParkedOnTask, ServedInv, Found, Pending, wakers, host

LEMMA DriverAnswersInv == ASSUME Inv, DriverAnswers PROVE Inv'
BY NoneAssumption
   DEF Inv, DriverAnswers, ProcessOK, TasksOK, WakersOK, HostOK, ServedOK, StageInv,
       OneTaskPerCall, ParkedOnTask, ServedInv, Found, Pending, wakers, host

LEMMA LayerYieldsInv == ASSUME Inv, LayerYields PROVE Inv'
BY NoneAssumption
   DEF Inv, LayerYields, ProcessOK, TasksOK, WakersOK, HostOK, ServedOK, StageInv,
       OneTaskPerCall, ParkedOnTask, ServedInv, Found, Pending, wakers, host

LEMMA CreateTaskInv == ASSUME Inv, CreateTask PROVE Inv'
<1> DEFINE new == [revision |-> revision, position |-> position, kind |-> open,
                   state |-> "pending", createdAt |-> clock]
           n == Len(tasks) + 1
<1>1. tasks \in Seq(Task) /\ new \in Task /\ tasks' = Append(tasks, new)
  BY NoneAssumption DEF Inv, CreateTask, TasksOK, Task, ProcessOK, HostOK, StageInv
<1> HIDE DEF new
<1>2. /\ TasksOK' /\ Len(tasks') = n /\ DOMAIN tasks' = DOMAIN tasks \cup {n}
      /\ \A t \in DOMAIN tasks : tasks'[t] = tasks[t] /\ t # n
      /\ tasks'[n] = new
  BY <1>1 DEF TasksOK
<1>3. new.revision = revision /\ new.position = position /\ new.state = "pending"
  BY DEF new
<1>4. /\ ServedOK' /\ served'[n] = None
      /\ \A t \in DOMAIN tasks : served'[t] = served[t]
  BY <1>2 DEF Inv, CreateTask, ServedOK, TasksOK
<1>5. Found = {} /\ n \in Found'
  BY <1>2, <1>3 DEF Inv, CreateTask, StageInv, Found
<1>6. (ProcessOK /\ WakersOK /\ HostOK)'
  BY <1>2 DEF Inv, CreateTask, ProcessOK, WakersOK, HostOK, wakers, host
<1>7. StageInv' /\ ParkedOnTask'
  BY <1>5 DEF Inv, CreateTask, ProcessOK, StageInv, ParkedOnTask
<1>8. OneTaskPerCall'
  BY <1>2, <1>3, <1>5 DEF Inv, OneTaskPerCall, Found
<1>9. ServedInv'
  BY <1>2, <1>4 DEF Inv, ServedInv, Pending
<1> QED BY <1>2, <1>4, <1>6, <1>7, <1>8, <1>9 DEF Inv

LEMMA CreateFailsInv == ASSUME Inv, CreateFails PROVE Inv'
BY DEF Inv, CreateFails, ProcessOK, TasksOK, WakersOK, HostOK, ServedOK, StageInv,
       OneTaskPerCall, ParkedOnTask, ServedInv, Found, Pending, wakers, host

(* What a found task serves is an expiry, or what its settled record holds. *)
LEMMA ResumedIsDecided ==
    ASSUME TasksOK, NEW t \in DOMAIN tasks, Resumed(t) # "yield"
    PROVE  /\ Resumed(t) \in States
           /\ Resumed(t) = "expired" \/ (Resumed(t) = tasks[t].state /\ ~Pending(t))
<1>1. tasks[t].state \in States /\ tasks[t].kind \in Kinds
  BY TaskFields
<1>2. CASE tasks[t].state = "pending"
  BY <1>2 DEF Resumed
<1>3. CASE tasks[t].state = "approved"
  BY <1>1, <1>3 DEF Resumed, Pending
<1>4. CASE tasks[t].state \notin {"pending", "approved"}
  <2>1. Resumed(t) = tasks[t].state
    BY <1>4 DEF Resumed
  <2> QED BY <1>1, <1>4, <2>1 DEF Pending
<1> QED BY <1>2, <1>3, <1>4

LEMMA ResumeInv == ASSUME Inv, Resume PROVE Inv'
<1>1. PICK t \in Found :
        /\ pc = "dispatch"
        /\ IF Resumed(t) = "yield"
           THEN pc' = "yielded" /\ UNCHANGED outcome
           ELSE pc' = "commit" /\ outcome' = Resumed(t)
        /\ UNCHANGED <<status, revision, position, open, tasks, wakers, host, served>>
  BY DEF Resume
<1>2. t \in DOMAIN tasks /\ Found' = Found /\ \A u \in Found : u = t
  BY <1>1 DEF Found, Inv, OneTaskPerCall
<1>3. TasksOK' /\ WakersOK' /\ HostOK' /\ ServedOK' /\ OneTaskPerCall' /\ ServedInv'
  BY <1>1 DEF Inv, TasksOK, WakersOK, HostOK, ServedOK, OneTaskPerCall, ServedInv, Pending,
              wakers, host
<1>4. CASE Resumed(t) = "yield"
  BY <1>1, <1>2, <1>3, <1>4 DEF Inv, ProcessOK, StageInv, ParkedOnTask
<1>5. CASE Resumed(t) # "yield"
  <2>1. /\ Resumed(t) \in States
        /\ Resumed(t) = "expired" \/ (Resumed(t) = tasks[t].state /\ ~Pending(t))
    BY <1>2, <1>5, ResumedIsDecided DEF Inv
  <2>2. ProcessOK'
    BY <1>1, <1>5, <2>1 DEF Inv, ProcessOK
  <2>3. StageInv'
    BY <1>1, <1>2, <1>5, <2>1 DEF Inv, StageInv, Pending
  <2> QED BY <1>1, <1>2, <1>3, <2>2, <2>3 DEF Inv, ParkedOnTask
<1> QED BY <1>4, <1>5

LEMMA CommitInv == ASSUME Inv, Commit PROVE Inv'
<1>1. served' = [t \in DOMAIN tasks |-> IF t \in Found THEN outcome ELSE served[t]]
  BY DEF Commit
<1>2. DOMAIN tasks = 1 .. Len(tasks) /\ Len(tasks) \in Nat /\ Len(served) = Len(tasks)
  BY DEF Inv, TasksOK, ServedOK
<1>3. \A t \in DOMAIN tasks : served'[t] \in States \cup {"answer", None}
  BY <1>1, <1>2 DEF Inv, ServedOK, ProcessOK
<1>4. ServedOK'
  <2> DEFINE Given == States \cup {"answer", None}
  <2>1. served' \in [1 .. Len(tasks) -> Given] /\ UNCHANGED tasks
    BY <1>1, <1>2, <1>3 DEF Commit
  <2> HIDE DEF Given
  <2>2. served' \in Seq(Given) /\ Len(served') = Len(tasks)
    BY <1>2, <2>1
  <2> QED BY <2>1, <2>2 DEF ServedOK, Given
<1>5. ServedInv'
  BY <1>1 DEF Inv, Commit, StageInv, ServedInv, Pending
<1>6. (ProcessOK /\ TasksOK /\ WakersOK /\ HostOK /\ StageInv /\ OneTaskPerCall /\ ParkedOnTask)'
  BY BoundsAssumption
     DEF Inv, Commit, ProcessOK, TasksOK, WakersOK, HostOK, StageInv, OneTaskPerCall,
         ParkedOnTask, wakers, host
<1> QED BY <1>4, <1>5, <1>6 DEF Inv

LEMMA ParkInv == ASSUME Inv, Park PROVE Inv'
BY DEF Inv, Park, ProcessOK, TasksOK, WakersOK, HostOK, ServedOK, StageInv,
       OneTaskPerCall, ParkedOnTask, ServedInv, Found, Pending, wakers, host

LEMMA EndInv == ASSUME Inv, End PROVE Inv'
BY DEF Inv, End, ProcessOK, TasksOK, WakersOK, HostOK, ServedOK, StageInv,
       OneTaskPerCall, ParkedOnTask, ServedInv, Found, Pending, wakers, host

-----------------------------------------------------------------------------
(* Retry, and the wakes that use it *)

LEMMA RelaunchKeeps ==
    ASSUME Inv, status # "running", Relaunch,
           Continue \/ \E k \in 0 .. position : Fork(k)
    PROVE  /\ (ProcessOK /\ TasksOK /\ ServedOK /\ StageInv)'
           /\ (OneTaskPerCall /\ ParkedOnTask /\ ServedInv)'
<1>1. ProcessOK' /\ StageInv'
  <2>1. CASE Continue
    BY <2>1, NoneAssumption DEF Inv, Relaunch, Continue, ProcessOK, StageInv
  <2>2. CASE \E k \in 0 .. position : Fork(k)
    BY <2>2, NoneAssumption, BoundsAssumption DEF Inv, Relaunch, Fork, ProcessOK, StageInv
  <2> QED BY <2>1, <2>2
<1>2. (TasksOK /\ ServedOK /\ OneTaskPerCall /\ ParkedOnTask /\ ServedInv)'
  BY DEF Inv, Relaunch, TasksOK, ServedOK, OneTaskPerCall, ParkedOnTask, ServedInv, Pending
<1> QED BY <1>1, <1>2

LEMMA RetryResumeKeeps ==
    ASSUME Inv, RetryResume \/ RetryRestart
    PROVE  /\ (ProcessOK /\ TasksOK /\ ServedOK /\ StageInv)'
           /\ (OneTaskPerCall /\ ParkedOnTask /\ ServedInv)'
<1>1. position \in Nat
  BY DEF Inv, ProcessOK
<1>2. status # "running" /\ Relaunch /\ (Continue \/ \E k \in 0 .. position : Fork(k))
  BY <1>1 DEF RetryResume, RetryRestart
<1> QED BY <1>2, RelaunchKeeps

LEMMA RetryInv == ASSUME Inv, Retry PROVE Inv'
<1>1. RetryResume \/ RetryRestart
  BY DEF Retry
<1>2. UNCHANGED tasks
  BY <1>1 DEF RetryResume, RetryRestart, Relaunch
<1>3. WakersOK' /\ HostOK'
  BY <1>2 DEF Inv, Retry, WakersOK, HostOK, wakers, host
<1> QED BY <1>1, <1>3, RetryResumeKeeps DEF Inv

LEMMA WakeRetriesInv == ASSUME Inv, NEW w \in {"human", "sweep"}, WakeRetries(w) PROVE Inv'
<1>1. CASE RetryResume
  <2>1. WakersOK' /\ HostOK'
    BY <1>1 DEF Inv, WakeRetries, RetryResume, Relaunch, WakersOK, HostOK, host
  <2> QED BY <1>1, <2>1, RetryResumeKeeps DEF Inv
<1>2. CASE UNCHANGED <<process, tasks, served>>
  <2>1. WakersOK' /\ HostOK'
    BY <1>2 DEF Inv, WakeRetries, WakersOK, HostOK, host
  <2> QED BY <1>2, <2>1, ElsewhereKeeps DEF Inv
<1> QED BY <1>1, <1>2 DEF WakeRetries

LEMMA WakeLooksInv == ASSUME Inv, NEW w \in {"human", "sweep"}, WakeLooks(w) PROVE Inv'
<1>1. WakersOK' /\ HostOK'
  BY DEF Inv, WakeLooks, WakersOK, HostOK, host
<1> QED BY <1>1, ElsewhereKeeps DEF Inv, WakeLooks

-----------------------------------------------------------------------------
(* Whoever settles tasks *)

LEMMA ResolveBeginsInv ==
    ASSUME Inv, NEW t \in DOMAIN tasks, NEW decision \in Decisions, ResolveBegins(t, decision)
    PROVE  Inv'
<1>1. WakersOK' /\ HostOK'
  BY DEF Inv, ResolveBegins, WakersOK, HostOK, host
<1> QED BY <1>1, ElsewhereKeeps DEF Inv, ResolveBegins

LEMMA ResolveInv == ASSUME Inv, Resolve PROVE Inv'
<1> DEFINE t == request.task
           s == request.decision
<1>1. t \in DOMAIN tasks /\ s \in States \ {"pending"}
  BY DecisionsAssumption DEF Inv, Resolve, WakersOK
<1>2. CASE Resolvable /\ tasks' = [tasks EXCEPT ![t].state = s]
  <2>1. Pending(t)
    BY <1>2 DEF Resolvable
  <2>2. UNCHANGED <<process, served>>
    BY DEF Resolve
  <2> HIDE DEF t, s
  <2>3. /\ (ProcessOK /\ TasksOK /\ ServedOK /\ StageInv)'
        /\ (OneTaskPerCall /\ ParkedOnTask /\ ServedInv)'
        /\ DOMAIN tasks' = DOMAIN tasks
    BY <1>1, <1>2, <2>1, <2>2, SettlingKeeps
  <2>4. WakersOK' /\ HostOK'
    BY <2>3 DEF Inv, Resolve, WakersOK, HostOK, host
  <2> QED BY <2>3, <2>4 DEF Inv
<1>3. CASE UNCHANGED tasks
  <2>1. WakersOK' /\ HostOK'
    BY <1>3 DEF Inv, Resolve, WakersOK, HostOK, host
  <2> QED BY <1>3, <2>1, ElsewhereKeeps DEF Inv, Resolve
<1> QED BY <1>2, <1>3 DEF Resolve

LEMMA SweepBeginsInv == ASSUME Inv, SweepBegins PROVE Inv'
<1>1. WakersOK' /\ HostOK'
  <2>1. DOMAIN tasks \subseteq Nat /\ clock \in Nat
    BY DEF Inv, TasksOK, HostOK
  <2>2. sweep'.due \subseteq DOMAIN tasks /\ sweep' \in [now : Nat, due : SUBSET Nat]
    BY <2>1 DEF SweepBegins
  <2> QED BY <2>2 DEF Inv, SweepBegins, WakersOK, HostOK, host
<1> QED BY <1>1, ElsewhereKeeps DEF Inv, SweepBegins

LEMMA SweepSettlesInv == ASSUME Inv, NEW t \in DOMAIN tasks, SweepSettles(t) PROVE Inv'
<1>1. Settled(t) \in States \ {"pending"} /\ UNCHANGED <<process, served>>
  BY DEF Settled, SweepSettles
<1>2. CASE Due(t, sweep.now)
  <2>1. tasks' = [tasks EXCEPT ![t].state = Settled(t)] /\ Pending(t)
    BY <1>2 DEF SweepSettles, Due
  <2>2. /\ (ProcessOK /\ TasksOK /\ ServedOK /\ StageInv)'
        /\ (OneTaskPerCall /\ ParkedOnTask /\ ServedInv)'
        /\ DOMAIN tasks' = DOMAIN tasks
    BY <1>1, <2>1, SettlingKeeps
  <2>3. WakersOK' /\ HostOK'
    BY <2>2 DEF Inv, SweepSettles, WakersOK, HostOK, host
  <2> QED BY <2>2, <2>3 DEF Inv
<1>3. CASE ~Due(t, sweep.now)
  <2>1. UNCHANGED tasks
    BY <1>3 DEF SweepSettles
  <2>2. WakersOK' /\ HostOK'
    BY <2>1 DEF Inv, SweepSettles, WakersOK, HostOK, host
  <2> QED BY <1>1, <2>1, <2>2, ElsewhereKeeps DEF Inv
<1> QED BY <1>2, <1>3

LEMMA SweepFindsParkedInv == ASSUME Inv, SweepFindsParked PROVE Inv'
<1>1. WakersOK' /\ HostOK'
  BY DEF Inv, SweepFindsParked, NoSweep, WakersOK, HostOK, host
<1> QED BY <1>1, ElsewhereKeeps DEF Inv, SweepFindsParked

LEMMA SweepListsInv == ASSUME Inv, SweepLists PROVE Inv'
<1>1. WakersOK' /\ HostOK'
  BY DEF Inv, SweepLists, WakersOK, HostOK, host
<1> QED BY <1>1, ElsewhereKeeps DEF Inv, SweepLists

-----------------------------------------------------------------------------
(* The host *)

LEMMA OtherCreatedInv == ASSUME Inv, OtherCreated PROVE Inv'
<1>1. WakersOK' /\ HostOK'
  BY DEF Inv, OtherCreated, Refusals, WakersOK, HostOK, wakers
<1> QED BY <1>1, ElsewhereKeeps DEF Inv, OtherCreated

LEMMA HolderStoppedInv == ASSUME Inv, HolderStopped PROVE Inv'
<1>1. WakersOK' /\ HostOK'
  BY DEF Inv, HolderStopped, WakersOK, HostOK, wakers
<1> QED BY <1>1, ElsewhereKeeps DEF Inv, HolderStopped

LEMMA TickInv == ASSUME Inv, Tick PROVE Inv'
<1>1. WakersOK' /\ HostOK'
  BY TimesAssumption DEF Inv, Tick, WakersOK, HostOK, wakers
<1> QED BY <1>1, ElsewhereKeeps DEF Inv, Tick

LEMMA RestartInv == ASSUME Inv, Restart PROVE Inv'
<1>1. WakersOK'
  BY DEF Inv, Restart, NoSweep, WakersOK
<1>2. (ProcessOK /\ TasksOK /\ HostOK /\ ServedOK /\ StageInv)'
  BY DEF Inv, Restart, ProcessOK, TasksOK, HostOK, ServedOK, StageInv
<1>3. (OneTaskPerCall /\ ParkedOnTask /\ ServedInv)'
  BY DEF Inv, Restart, OneTaskPerCall, ParkedOnTask, ServedInv, Found, Pending
<1> QED BY <1>1, <1>2, <1>3 DEF Inv

-----------------------------------------------------------------------------
LEMMA StepInv == Inv /\ [Next]_vars => Inv'
<1> SUFFICES ASSUME Inv, [Next]_vars PROVE Inv'
  OBVIOUS
<1>1. CASE Quantum
  BY <1>1, GuestCallsInv, DriverAnswersInv, LayerYieldsInv, CreateTaskInv, CreateFailsInv,
     ResumeInv, CommitInv, ParkInv DEF Quantum
<1>2. CASE End
  BY <1>2, EndInv
<1>3. CASE Retry
  BY <1>3, RetryInv
<1>4. CASE Sweep
  BY <1>4, SweepBeginsInv, SweepSettlesInv, SweepFindsParkedInv, SweepListsInv, WakeLooksInv,
     WakeRetriesInv DEF Sweep
<1>5. CASE Human
  BY <1>5, ResolveBeginsInv, ResolveInv, WakeLooksInv, WakeRetriesInv DEF Human
<1>6. CASE Tick
  BY <1>6, TickInv
<1>7. CASE Restart
  BY <1>7, RestartInv
<1>8. CASE OtherCreated \/ HolderStopped
  BY <1>8, OtherCreatedInv, HolderStoppedInv
<1>9. CASE UNCHANGED vars
  <2>1. WakersOK' /\ HostOK'
    BY <1>9 DEF vars, Inv, WakersOK, HostOK
  <2> QED BY <1>9, <2>1, ElsewhereKeeps DEF vars, Inv, process
<1> QED BY <1>1, <1>2, <1>3, <1>4, <1>5, <1>6, <1>7, <1>8, <1>9 DEF Next

LEMMA AlwaysInv == Spec => []Inv
BY InitInv, StepInv, PTL DEF Spec

(* The process, its tasks and those who settle them keep their types. *)
THEOREM TypeCorrect == Spec => []TypeOK
<1>1. Inv => TypeOK
  BY DEF Inv, TypeOK, ProcessOK, TasksOK, WakersOK, HostOK, ServedOK, Task
<1> QED BY <1>1, AlwaysInv, PTL

(* However often a crash, a retry or a wake drives a call again, it has one task:
   Find and Create leave no second (task.go Dispatch). *)
THEOREM AlwaysOneTask == Spec => []OneTaskPerCall
<1>1. Inv => OneTaskPerCall
  BY DEF Inv
<1> QED BY <1>1, AlwaysInv, PTL

(* A parked process always has a task whose settling can wake it. *)
THEOREM AlwaysParkedOnTask == Spec => []ParkedOnTask
<1>1. Inv => ParkedOnTask
  BY DEF Inv
<1> QED BY <1>1, AlwaysInv, PTL

(* The guest is only ever given what a task's record holds, or an expiry: no
   stale read of the store lets a decision through that the log does not have. *)
THEOREM AlwaysServedAsDecided == Spec => []ServedAsDecided
<1>1. Inv => ServedAsDecided
  BY DEF Inv, ServedInv, ServedAsDecided
<1> QED BY <1>1, AlwaysInv, PTL

(* A task settles once: neither a human with a stale clock nor a sweep with a
   stale list changes a settled record. *)
THEOREM TasksSettleOnce == Spec => SettlesOnce
<1> DEFINE A == \A t \in DOMAIN tasks : ~Pending(t) => tasks'[t].state = tasks[t].state
<1>1. ASSUME Inv, [Next]_vars PROVE [A]_vars
  <2>1. CASE UNCHANGED tasks
    BY <2>1
  <2>2. CASE CreateTask
    <3>1. \A t \in DOMAIN tasks : tasks'[t] = tasks[t]
      BY <1>1, <2>2 DEF Inv, TasksOK, CreateTask
    <3> QED BY <3>1
  <2>3. CASE Resolve
    <3>1. CASE Resolvable /\ tasks' = [tasks EXCEPT ![request.task].state = request.decision]
      <4>1. Pending(request.task)
        BY <3>1 DEF Resolvable
      <4>2. \A t \in DOMAIN tasks : t # request.task => tasks'[t] = tasks[t]
        BY <1>1, <3>1 DEF Inv, TasksOK
      <4> QED BY <4>1, <4>2
    <3> QED BY <2>1, <2>3, <3>1 DEF Resolve
  <2>4. ASSUME NEW u \in DOMAIN tasks, SweepSettles(u) PROVE A
    <3>1. CASE Due(u, sweep.now)
      <4>1. Pending(u)
        BY <3>1 DEF Due
      <4>2. \A t \in DOMAIN tasks : t # u => tasks'[t] = tasks[t]
        BY <1>1, <2>4, <3>1 DEF Inv, TasksOK, SweepSettles
      <4> QED BY <4>1, <4>2
    <3>2. CASE ~Due(u, sweep.now)
      BY <2>4, <3>2 DEF SweepSettles
    <3> QED BY <3>1, <3>2
  <2>5. Next => \/ UNCHANGED tasks \/ CreateTask \/ Resolve
                \/ \E u \in DOMAIN tasks : SweepSettles(u)
    <3>1. Quantum => UNCHANGED tasks \/ CreateTask
      BY DEF Quantum, GuestCalls, DriverAnswers, LayerYields, CreateFails, Resume, Commit, Park
    <3>2. End \/ Retry \/ OtherCreated \/ HolderStopped \/ Tick \/ Restart => UNCHANGED tasks
      BY DEF End, Retry, RetryResume, RetryRestart, Relaunch, OtherCreated, HolderStopped, Tick,
             Restart
    <3>3. Sweep => UNCHANGED tasks \/ \E u \in DOMAIN tasks : SweepSettles(u)
      BY DEF Sweep, SweepBegins, SweepFindsParked, SweepLists, WakeLooks, WakeRetries,
             RetryResume, Relaunch
    <3>4. Human => UNCHANGED tasks \/ Resolve
      BY DEF Human, ResolveBegins, WakeLooks, WakeRetries, RetryResume, Relaunch
    <3> QED BY <3>1, <3>2, <3>3, <3>4 DEF Next
  <2> QED BY <1>1, <2>1, <2>2, <2>3, <2>4, <2>5 DEF vars
<1>2. Spec => [][A]_vars
  BY <1>1, AlwaysInv, PTL DEF Spec
<1> QED BY <1>2 DEF SettlesOnce
=============================================================================
