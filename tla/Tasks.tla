-------------------------------- MODULE Tasks --------------------------------
(***************************************************************************)
(* The durable tasks of one process: the task layer that turns a yield     *)
(* into a record and serves it on a later run (task/task.go), the timer    *)
(* layer below it (timer.go), the store (taskstore.go), and the two that   *)
(* settle tasks and wake the process, a human through ResolveTask and the  *)
(* sweep (tasks.go).                                                       *)
(*                                                                         *)
(* A call is named by its revision and its position in the journal; here   *)
(* the position counts the completed calls before it.  Every hold of the   *)
(* store's lock or the runtime's is one step.  The store appends to the    *)
(* log before it changes its map, under its lock, so one variable stands   *)
(* for both and a restart finds it as it was.  The process's life is       *)
(* reduced to running, parked and ended, and the rest of its session to    *)
(* the refusal a Retry would meet; Runtime.tla has both in full.  Left     *)
(* out: the token, which only refuses, and a decision's data and reason.   *)
(***************************************************************************)
EXTENDS Naturals, Sequences

CONSTANTS
    None,
    TTL,            \* Runtime.taskTTL, which NewRuntime makes positive
    Duration,       \* how long the guest's timers run
    Decisions,      \* the decisions a human makes, of HumanDecisions
    MaxPosition,    \* bound on the completed calls of a journal
    MaxRevision,    \* bound on the revisions
    MaxTasks,       \* bound on the tasks minted
    MaxClock,       \* bound on the clock
    MaxRestarts     \* bound on the host's restarts

HumanDecisions == {"approved", "completed", "failed", "denied", "cancelled"}

ASSUME DecisionsAssumption == Decisions \subseteq HumanDecisions
ASSUME TimesAssumption == TTL \in Nat \ {0} /\ Duration \in Nat \ {0} /\ MaxClock \in Nat
ASSUME BoundsAssumption == /\ MaxPosition \in Nat /\ MaxRevision \in Nat \ {0}
                           /\ MaxTasks \in Nat /\ MaxRestarts \in Nat
ASSUME NoneAssumption ==
    None \notin HumanDecisions \cup {"pending", "expired", "answer", "approval", "timer",
                                    "program", "later", "held"}

VARIABLES
    \* the process and its dispatch
    status,     \* "running", "waiting" (parked) or "ended" (a retry may run it)
    revision, position,
    open,       \* the kind of the call whose intent is open at the tail, or None
    pc,         \* where the running quantum stands
    outcome,    \* what the call below replay returned, not yet journaled
    \* eventTaskStore
    tasks,      \* the records in the order they were created
    \* the two that settle and wake
    waker,      \* where each stands
    request,    \* the human's decision and the time ResolveTask read
    sweep,      \* the time sweepTasks read and the due tasks it has not tried
    \* the host
    clock, restarts,
    refusal,    \* why checkRetryLocked refuses to run the process, whatever its status, or None
    served      \* what the guest was given for each task (a history variable)

process == <<status, revision, position, open, pc, outcome>>
wakers  == <<waker, request, sweep>>
host    == <<clock, restarts, refusal>>
vars    == <<status, revision, position, open, pc, outcome, tasks, waker, request, sweep,
             clock, restarts, refusal, served>>

-----------------------------------------------------------------------------
(* Task records.  An approval expires TTL after its creation, a timer never
   does: its fire time is its deadline. *)

Kinds  == {"approval", "timer"}
States == HumanDecisions \cup {"pending", "expired"}

Pending(t) == tasks[t].state = "pending"

(* The expiry of an approval; a timer has none. *)
Expired(t, now) == tasks[t].kind = "approval" /\ now >= tasks[t].createdAt + TTL
FireAt(t) == tasks[t].createdAt + Duration

(* Mutants of Due: a task that is no longer pending is still due; timers have no
   deadline. *)
DueForever(t, now) ==
    IF tasks[t].kind = "timer" THEN now >= FireAt(t) ELSE Expired(t, now)

DueApprovals(t, now) == Pending(t) /\ Expired(t, now)

(* due *)
Due(t, now) ==
    /\ Pending(t)
    /\ IF tasks[t].kind = "timer" THEN now >= FireAt(t) ELSE Expired(t, now)

(* Mutant of Found: a settled task is not looked for. *)
FoundPending == {t \in DOMAIN tasks : tasks[t].revision = revision
                                       /\ tasks[t].position = position /\ Pending(t)}

(* Find: the task of the process's open call. *)
Found == {t \in DOMAIN tasks : tasks[t].revision = revision /\ tasks[t].position = position}

-----------------------------------------------------------------------------
NoSweep == [now |-> 0, due |-> {}]

Init == /\ status = "running"
        /\ revision = 1
        /\ position = 0
        /\ open = None
        /\ pc = "guest"
        /\ outcome = None
        /\ tasks = << >>
        /\ waker = [human |-> "idle", sweep |-> "idle"]
        /\ request = None
        /\ sweep = NoSweep
        /\ clock = 0
        /\ restarts = 0
        /\ refusal = None
        /\ served = << >>

-----------------------------------------------------------------------------
(* The running quantum *)

(* The guest makes a call; replay journals the intent. *)
GuestCalls(kind) == /\ pc = "guest"
                    /\ position < MaxPosition
                    /\ open' = kind
                    /\ pc' = "dispatch"
                    /\ UNCHANGED <<status, revision, position, outcome, tasks, wakers, host, served>>

(* Dispatch finds no task and runs the layer below.  It answers, *)
DriverAnswers == /\ pc = "dispatch"
                 /\ Found = {}
                 /\ open = "approval"
                 /\ outcome' = "answer"
                 /\ pc' = "commit"
                 /\ UNCHANGED <<status, revision, position, open, tasks, wakers, host, served>>

(* or yields: a driver that needs approval, and every timer. *)
LayerYields == /\ pc = "dispatch"
               /\ Found = {}
               /\ pc' = "create"
               /\ UNCHANGED <<status, revision, position, open, outcome, tasks, wakers, host, served>>

(* Create records the task, and the guest yields. *)
CreateTask == /\ pc = "create"
              /\ Len(tasks) < MaxTasks
              /\ clock + Duration <= MaxClock /\ clock + TTL <= MaxClock
              /\ tasks' = Append(tasks, [revision |-> revision, position |-> position, kind |-> open,
                                         state |-> "pending", createdAt |-> clock])
              /\ served' = Append(served, None)
              /\ pc' = "yielded"
              /\ UNCHANGED <<status, revision, position, open, outcome, wakers, host>>

(* Mutant of CreateFails: the yield goes up all the same. *)
CreateFailsYields == /\ pc = "create"
                     /\ pc' = "yielded"
                     /\ UNCHANGED <<status, revision, position, open, outcome, tasks, wakers, host, served>>

(* Create's append fails: the call fails with its intent open, and the quantum
   with it. *)
CreateFails == /\ pc = "create"
               /\ pc' = "idle"
               /\ status' = "ended"
               /\ UNCHANGED <<revision, position, open, outcome, tasks, wakers, host, served>>

(* resume: what a found task serves.  An approved one runs the layer below with
   the decision: a driver executes, a timer yields again. *)
Resumed(t) ==
    CASE tasks[t].state = "pending"  -> IF Expired(t, clock) THEN "expired" ELSE "yield"
      [] tasks[t].state = "approved" -> IF tasks[t].kind = "timer" THEN "yield" ELSE "approved"
      [] OTHER                       -> tasks[t].state

Resume == \E t \in Found :
    /\ pc = "dispatch"
    /\ IF Resumed(t) = "yield"
       THEN pc' = "yielded" /\ UNCHANGED outcome
       ELSE pc' = "commit" /\ outcome' = Resumed(t)
    /\ UNCHANGED <<status, revision, position, open, tasks, wakers, host, served>>

(* Replay journals the completion and the guest goes on. *)
Commit == /\ pc = "commit"
          /\ served' = [t \in DOMAIN tasks |-> IF t \in Found THEN outcome ELSE served[t]]
          /\ position' = position + 1
          /\ open' = None
          /\ outcome' = None
          /\ pc' = "guest"
          /\ UNCHANGED <<status, revision, tasks, wakers, host>>

(* recordOutcome parks a process that yielded. *)
Park == /\ pc = "yielded"
        /\ status' = "waiting"
        /\ pc' = "idle"
        /\ UNCHANGED <<revision, position, open, outcome, tasks, wakers, host, served>>

(* The quantum ends otherwise (it completes, fails, is stopped or runs out of
   time), or a parked process is stopped. *)
End == /\ status \in {"running", "waiting"}
       /\ status' = "ended"
       /\ pc' = "idle"
       /\ outcome' = None
       /\ UNCHANGED <<revision, position, open, tasks, wakers, host, served>>

-----------------------------------------------------------------------------
(* Retry *)

(* What checkRetryLocked refuses besides a status: the program this host has is
   not the process's, a later process is listed, another one holds the session. *)
Refusals == {"program", "later", "held"}

(* A parked process goes on as it is, an ended one too unless it was inside a
   section, and a restart forks at 0. *)
Continue == UNCHANGED <<revision, position, open>>

Fork(k) == /\ revision < MaxRevision
           /\ revision' = revision + 1
           /\ position' = k
           /\ open' = None

Relaunch == /\ status' = "running"
            /\ pc' = IF open' = None THEN "guest" ELSE "dispatch"
            /\ UNCHANGED <<outcome, tasks, served>>

RetryResume == /\ refusal = None
               /\ \/ status = "waiting" /\ Continue
                  \/ status = "ended" /\ (Continue \/ \E k \in 1 .. position : Fork(k))
               /\ Relaunch

RetryRestart == /\ refusal = None
                /\ status \in {"waiting", "ended"}
                /\ Fork(0)
                /\ Relaunch

Retry == /\ RetryResume \/ RetryRestart
         /\ UNCHANGED <<wakers, host>>

(* CreateProcess in the session an ended process freed: a later process is
   listed.  One interrupted by a restart keeps its session, which is not told apart
   here: the model may refuse a retry of it that the code allows. *)
OtherCreated == /\ status = "ended" /\ refusal = None
                /\ refusal' = "later"
                /\ UNCHANGED <<process, tasks, wakers, clock, restarts, served>>

(* The process that a boot gave the session to is stopped, and frees it. *)
HolderStopped == /\ refusal = "held"
                 /\ refusal' = None
                 /\ UNCHANGED <<process, tasks, wakers, clock, restarts, served>>

-----------------------------------------------------------------------------
(* ResolveTask *)

(* It reads the clock before the store's lock. *)
ResolveBegins(t, decision) ==
    /\ waker.human = "idle"
    /\ waker' = [waker EXCEPT !.human = "resolve"]
    /\ request' = [task |-> t, decision |-> decision, now |-> clock]
    /\ UNCHANGED <<process, tasks, sweep, host, served>>

(* Mutant of Resolvable: only the deadline is checked. *)
ResolvableLate == ~Expired(request.task, request.now)

(* Resolve under the lock: a pending task takes the decision before its expiry. *)
Resolvable == Pending(request.task) /\ ~Expired(request.task, request.now)

(* It goes on to wake the process; a decision already made is accepted again. *)
Resolve ==
    /\ waker.human = "resolve"
    /\ \/ /\ Resolvable
          /\ tasks' = [tasks EXCEPT ![request.task].state = request.decision]
          /\ waker' = [waker EXCEPT !.human = "wake"]
       \/ /\ tasks[request.task].state = request.decision
          /\ waker' = [waker EXCEPT !.human = "wake"]
          /\ UNCHANGED tasks
       \/ /\ ~Resolvable /\ tasks[request.task].state # request.decision
          /\ waker' = [waker EXCEPT !.human = "idle"]
          /\ UNCHANGED tasks
    /\ request' = None
    /\ UNCHANGED <<process, sweep, host, served>>

-----------------------------------------------------------------------------
(* sweepTasks *)

(* The sweep reads the clock and lists the due tasks, *)
SweepBegins ==
    /\ waker.sweep = "idle"
    /\ waker' = [waker EXCEPT !.sweep = "settle"]
    /\ sweep' = [now |-> clock, due |-> {t \in DOMAIN tasks : Due(t, clock)}]
    /\ UNCHANGED <<process, tasks, request, host, served>>

(* settles each under the store's lock, if it is still due, *)
Settled(t) == IF tasks[t].kind = "timer" THEN "completed" ELSE "expired"

SweepSettles(t) ==
    /\ waker.sweep = "settle"
    /\ t \in sweep.due
    /\ sweep' = [sweep EXCEPT !.due = @ \ {t}]
    /\ tasks' = IF Due(t, sweep.now) THEN [tasks EXCEPT ![t].state = Settled(t)] ELSE tasks
    /\ UNCHANGED <<process, waker, request, host, served>>

(* then, done with the time it read, looks for a parked process, *)
SweepFindsParked ==
    /\ waker.sweep = "settle"
    /\ sweep.due = {}
    /\ sweep' = NoSweep
    /\ waker' = [waker EXCEPT !.sweep = IF status = "waiting" THEN "list" ELSE "idle"]
    /\ UNCHANGED <<process, tasks, request, host, served>>

(* Mutant of NonePending: the sweep waits for the guest to have been served. *)
NoneUnserved == \A t \in DOMAIN tasks : served[t] # None

(* parkedOnSettledTasks: none of the process's tasks is pending. *)
NonePending == \A t \in DOMAIN tasks : ~Pending(t)

SweepLists ==
    /\ waker.sweep = "list"
    /\ waker' = [waker EXCEPT !.sweep = IF NonePending THEN "wake" ELSE "idle"]
    /\ UNCHANGED <<process, tasks, request, sweep, host, served>>

-----------------------------------------------------------------------------
(* wake, by either of them: a look under the runtime's lock, *)
WakeLooks(w) ==
    /\ waker[w] = "wake"
    /\ waker' = [waker EXCEPT ![w] = IF status = "waiting" THEN "retry" ELSE "idle"]
    /\ UNCHANGED <<process, tasks, request, sweep, host, served>>

(* then Retry under another, which refuses what runs, has completed or may not
   run now. *)
WakeRetries(w) ==
    /\ waker[w] = "retry"
    /\ waker' = [waker EXCEPT ![w] = "idle"]
    /\ \/ RetryResume
       \/ (status # "waiting" \/ refusal # None) /\ UNCHANGED <<process, tasks, served>>
    /\ UNCHANGED <<request, sweep, host>>

-----------------------------------------------------------------------------
Tick == /\ clock < MaxClock
        /\ clock' = clock + 1
        /\ UNCHANGED <<process, tasks, wakers, restarts, refusal, served>>

(* The host restarts over the same log: a running process is interrupted, a
   parked one stays parked, whoever was waking it is gone.  The host may have
   other programs, and Fold lists the session again and gives it to a holder. *)
Restart == /\ restarts < MaxRestarts
           /\ restarts' = restarts + 1
           /\ refusal' \in Refusals \cup {None}
           /\ status' = IF status = "running" THEN "ended" ELSE status
           /\ pc' = "idle"
           /\ outcome' = None
           /\ waker' = [w \in DOMAIN waker |-> "idle"]
           /\ request' = None
           /\ sweep' = NoSweep
           /\ UNCHANGED <<revision, position, open, tasks, clock, served>>

Quantum == \/ \E kind \in Kinds : GuestCalls(kind)
           \/ DriverAnswers \/ LayerYields \/ CreateTask \/ CreateFails
           \/ Resume \/ Commit \/ Park

Sweep == \/ SweepBegins
         \/ \E t \in DOMAIN tasks : SweepSettles(t)
         \/ SweepFindsParked \/ SweepLists
         \/ WakeLooks("sweep") \/ WakeRetries("sweep")

Human == \/ \E t \in DOMAIN tasks, decision \in Decisions : ResolveBegins(t, decision)
         \/ Resolve
         \/ WakeLooks("human") \/ WakeRetries("human")

Next == \/ Quantum \/ End \/ Retry
        \/ OtherCreated \/ HolderStopped
        \/ Sweep \/ Human
        \/ Tick \/ Restart

Spec == Init /\ [][Next]_vars

(* The sweep loop runs until the runtime closes and time passes; nobody else is
   bound to do anything. *)
FairSpec == Spec /\ WF_vars(Sweep) /\ WF_vars(Tick)

-----------------------------------------------------------------------------
(* Properties *)

(* Type invariant of the process, its tasks and whoever settles them. *)
TypeOK ==
    /\ status \in {"running", "waiting", "ended"}
    /\ revision \in 1 .. MaxRevision
    /\ position \in 0 .. MaxPosition
    /\ open \in Kinds \cup {None}
    /\ pc \in {"idle", "guest", "dispatch", "create", "yielded", "commit"}
    /\ pc = "idle" <=> status # "running"
    /\ outcome \in States \cup {"answer", None}
    /\ tasks \in Seq([revision : 1 .. MaxRevision, position : 0 .. MaxPosition, kind : Kinds,
                      state : States, createdAt : 0 .. MaxClock])
    /\ waker \in [human : {"idle", "resolve", "wake", "retry"},
                  sweep : {"idle", "settle", "list", "wake", "retry"}]
    /\ request = None \/ request.task \in DOMAIN tasks
    /\ sweep.due \subseteq DOMAIN tasks
    /\ refusal \in Refusals \cup {None}
    /\ Len(served) = Len(tasks)

(* A call has one task, however often a crash, a retry or a wake drives it again:
   nobody is asked twice for the same call (task.go Dispatch, Find). *)
OneTaskPerCall ==
    \A t, u \in DOMAIN tasks :
        (tasks[t].revision = tasks[u].revision /\ tasks[t].position = tasks[u].position) => t = u

(* A parked process waits on a task that exists, the one of the call at its
   journal's tail: there is something whose settling can wake it. *)
ParkedOnTask == status = "waiting" => open # None /\ Found # {}

(* "A human and the sweep cannot both resolve it" (tasks.go): a task settles
   once, whoever read a stale list or a stale clock. *)
SettlesOnce ==
    [][\A t \in DOMAIN tasks : ~Pending(t) => tasks'[t].state = tasks[t].state]_vars

(* The guest is given what the task's record says, for good: nothing runs as
   approved, and no decision reaches a guest, that the log does not hold; only an
   expiry may be served before the sweep records it. *)
ServedAsDecided ==
    \A t \in DOMAIN tasks :
        served[t] \notin {None, "expired"} => served[t] = tasks[t].state

Outstanding(n) == n \in DOMAIN tasks /\ Pending(n)

(* Every timer fires or is resolved, and every approval is decided or expires: the
   sweep settles what no human does, also after a restart. *)
DeadlinesSettle == \A n \in 1 .. MaxTasks : Outstanding(n) ~> ~Outstanding(n)

(* "One that fails is tried again on the next sweep" (tasks.go sweepTasks): a
   process parked on a settled task runs again, also when the task settled before
   it parked, when another waker's retry failed and after a restart, as long as
   checkRetryLocked lets it run.  One it refuses, for its program, a later process
   or the session's holder, stays parked until a boot or a stop of the holder ends
   the refusal. *)
Wakeable == status = "waiting" /\ refusal = None

SettledWakes == (Wakeable /\ \E t \in Found : ~Pending(t)) ~> ~Wakeable
=============================================================================
