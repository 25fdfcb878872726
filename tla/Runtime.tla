------------------------------- MODULE Runtime -------------------------------
(***************************************************************************)
(* The life of the processes of one session (internal/agent): creation,    *)
(* stop, retry, the execute goroutine that runs a quantum and records how  *)
(* it ended, recovery from aborts and failures, wakes, shutdown, and the   *)
(* restart that rebuilds everything from the event log.                    *)
(*                                                                         *)
(* Every critical section of Runtime.mu is one step, with the event it     *)
(* appends; the code between two of them (before and after pool.submit,    *)
(* while the quantum runs, between wake's check and its Retry, before      *)
(* CreateProcess takes the lock) is where other goroutines step in.        *)
(* Sessions share nothing but the pool, so one session is modelled.        *)
(*                                                                         *)
(* A process's journal is the sequence of Sections.tla: what a quantum     *)
(* does to it call by call is Replay.tla, how it is stored and forked      *)
(* ProcessJournal.tla.  Left out: the attempt counter and the timestamps   *)
(* nothing branches on, inputs, manifests, answers' texts, and the checks  *)
(* of the program's digest, which only refuse.                             *)
(***************************************************************************)
EXTENDS Sections

CONSTANTS
    Procs,          \* process ids
    None,           \* no process
    GuestCalls,     \* the calls guests make, a subset of CallNames
    MaxCalls,       \* bound on the calls of a journal
    MaxAborts,      \* maxAbortRetries
    MaxClock,       \* bound on the clock CreateProcess reads
    IdBefore(_, _), \* the order of process ids, which are random strings
    LogMayFail      \* whether appends to the event log may fail

ASSUME ProcsAssumption == None \notin Procs
ASSUME CallsAssumption == GuestCalls \subseteq CallNames /\ MaxCalls \in Nat
ASSUME BoundsAssumption == MaxAborts \in Nat /\ MaxClock \in Nat
ASSUME LogAssumption == LogMayFail \in BOOLEAN
ASSUME IdAssumption == \* strings are totally ordered
    /\ \A p, q \in Procs : IdBefore(p, q) => ~IdBefore(q, p)
    /\ \A p, q \in Procs : p # q => IdBefore(p, q) \/ IdBefore(q, p)
    /\ \A p, q, r \in Procs : IdBefore(p, q) /\ IdBefore(q, r) => IdBefore(p, r)

VARIABLES
    \* Runtime, under mu
    proc,        \* processState of every process
    order,       \* sessionState.processIDs
    active,      \* sessionState.activeProcessID
    closed,
    \* goroutines
    exec,        \* where the execute goroutine of a process stands
    quantum,     \* the process's quantum in the pool, or how it ended
    cancelled,   \* the quantum's context is cancelled
    rootDone,    \* baseCtx, the pool's root, is cancelled
    waking,      \* a wake found the process parked and is about to Retry it
    creating,    \* the time a CreateProcess read before taking the lock
    clock,
    \* the event log
    disk,        \* the last process.state event of a process, and its journal
    \* history variables
    birth,       \* the processes in the order they were created
    abortRuns    \* how often an abort launched a process's section again

memory == <<proc, order, active, closed>>
pool   == <<quantum, cancelled, rootDone>>
ghosts == <<birth, abortRuns>>
vars   == <<proc, order, active, closed, exec, quantum, cancelled, rootDone, waking,
            creating, clock, disk, birth, abortRuns>>

-----------------------------------------------------------------------------
(* Statuses *)

Live     == {"queued", "running", "stopping"}
Terminal == {"completed", "failed", "stopped", "interrupted"}
Statuses == Live \cup Terminal \cup {"waiting", "absent"}

(* durable.isActiveStatus *)
ActiveStatuses == Live \cup {"waiting", "interrupted"}

(* How a quantum ends.  Resume reports completed, yielded, stopped or failed; a
   stop by the quantum's own deadline is told apart by its error. *)
Ends == {"completed", "yielded", "stopped", "deadline", "failed"}

Journals == UNION {[1 .. n -> GuestCalls \cup Outcomes] : n \in 0 .. 2 * MaxCalls}

Absent == [status |-> "absent", journal |-> << >>, abortRetries |-> 0,
           lastFailureLength |-> 0, stopRequested |-> FALSE, stop |-> FALSE,
           createdAt |-> 0]

(* Mutant of Stored: the abort budget is not logged. *)
StoredWithoutBudget(p) == [status |-> p.status, journal |-> p.journal,
                           abortRetries |-> 0, createdAt |-> p.createdAt]

(* storedProcessLocked: what a process.state event keeps.  The failure length
   and the stop are not logged. *)
Stored(p) == [status |-> p.status, journal |-> p.journal,
              abortRetries |-> p.abortRetries, createdAt |-> p.createdAt]

Exists(p) == proc[p].status # "absent"
IsLive(p) == proc[p].status \in Live
Latest    == order[Len(order)]

-----------------------------------------------------------------------------
Init == /\ proc = [p \in Procs |-> Absent]
        /\ order = << >>
        /\ active = None
        /\ closed = FALSE
        /\ exec = [p \in Procs |-> "none"]
        /\ quantum = [p \in Procs |-> "none"]
        /\ cancelled = [p \in Procs |-> FALSE]
        /\ rootDone = FALSE
        /\ waking = [p \in Procs |-> FALSE]
        /\ creating = [p \in Procs |-> None]
        /\ clock = 0
        /\ disk = [p \in Procs |-> Stored(Absent)]
        /\ birth = << >>
        /\ abortRuns = [p \in Procs |-> 0]

(* appendProcess: the event log takes the process's new state, or fails. *)
LogOutcomes == IF LogMayFail THEN BOOLEAN ELSE {TRUE}

AppendProcess(p, state, logged) ==
    disk' = IF logged THEN [disk EXCEPT ![p] = Stored(state)] ELSE disk

(* launchLocked starts an execute goroutine.  One that records its outcome is
   about to return; any other would run beside the new one. *)
LaunchedExec(p) == IF exec[p] \in {"none", "record"} THEN "start" ELSE "overlap"

(* finishLocked: the state the process ends in; the session is freed unless the
   process only parked.  A failed append is ignored. *)
FinishLocked(p, before, status) ==
    LET state == [before EXCEPT !.status = status, !.stop = FALSE]
    IN  /\ proc' = [proc EXCEPT ![p] = state]
        /\ active' = IF status # "waiting" /\ active = p THEN None ELSE active
        /\ \E logged \in LogOutcomes : AppendProcess(p, state, logged)

(* forkJournalLocked *)
ForkJournalLocked(state, k) ==
    [state EXCEPT !.journal = SubSeq(@, 1, k), !.lastFailureLength = 0]

(* relaunchLocked's new state. *)
Requeued(state) == [state EXCEPT !.status = "queued", !.stopRequested = FALSE]

(* relaunchLocked on the state Retry or the recovery prepared.  A closed runtime
   refuses, and leaves what was prepared; a failed append leaves the process
   queued without a quantum. *)
RelaunchRefused(p, state) ==
    /\ closed
    /\ proc' = [proc EXCEPT ![p] = state]
    /\ exec' = [exec EXCEPT ![p] = "none"]
    /\ UNCHANGED <<active, disk>>

RelaunchLocked(p, state) ==
    /\ ~closed
    /\ proc' = [proc EXCEPT ![p] = Requeued(state)]
    /\ active' = p
    /\ \E logged \in LogOutcomes :
          /\ AppendProcess(p, Requeued(state), logged)
          /\ exec' = [exec EXCEPT ![p] = IF logged THEN LaunchedExec(p) ELSE "none"]

-----------------------------------------------------------------------------
(* The process API *)

(* CreateProcess reads the clock before it takes the lock. *)
CreateReadsClock(p) == /\ ~Exists(p) /\ creating[p] = None
                       /\ creating' = [creating EXCEPT ![p] = clock]
                       /\ UNCHANGED <<memory, exec, pool, waking, clock, disk, ghosts>>

(* Mutant of CreateAllowed: a parked process does not hold its session. *)
CreateBesideParked == ~closed /\ \A p \in Procs : active = p => proc[p].status = "waiting"

CreateAllowed == ~closed /\ active = None

(* CreateProcess under the lock: refused when closed or when a process holds the
   session; recorded before it exists in memory. *)
CreateProcess(p) ==
    /\ creating[p] # None
    /\ creating' = [creating EXCEPT ![p] = None]
    /\ \/ /\ CreateAllowed
          /\ LET state == [Absent EXCEPT !.status = "queued", !.createdAt = creating[p]]
             IN  /\ proc' = [proc EXCEPT ![p] = state]
                 /\ AppendProcess(p, state, TRUE)
          /\ order' = Append(order, p)
          /\ birth' = Append(birth, p)
          /\ active' = p
          /\ exec' = [exec EXCEPT ![p] = LaunchedExec(p)]
       \/ /\ ~CreateAllowed \/ LogMayFail
          /\ UNCHANGED <<proc, order, active, exec, disk, birth>>
    /\ UNCHANGED <<closed, pool, waking, clock, abortRuns>>

(* Mutant of StopRunning: the stop is not logged. *)
StopUnlogged(p) ==
    /\ proc[p].status \in {"queued", "running"}
    /\ proc' = [proc EXCEPT ![p].status = "stopping", ![p].stopRequested = TRUE]
    /\ cancelled' = [cancelled EXCEPT ![p] = @ \/ proc[p].stop]
    /\ UNCHANGED <<order, active, closed, exec, quantum, rootDone, waking, creating,
                   clock, disk, ghosts>>

(* Stop cancels a queued or running process, or ends a parked one. *)
StopRunning(p) ==
    /\ proc[p].status \in {"queued", "running"}
    /\ LET state == [proc[p] EXCEPT !.status = "stopping", !.stopRequested = TRUE]
       IN  /\ proc' = [proc EXCEPT ![p] = state]
           /\ \E logged \in LogOutcomes : AppendProcess(p, state, logged)
    /\ cancelled' = [cancelled EXCEPT ![p] = @ \/ proc[p].stop]
    /\ UNCHANGED <<order, active, closed, exec, quantum, rootDone, waking, creating,
                   clock, ghosts>>

StopParked(p) == /\ proc[p].status = "waiting"
                 /\ FinishLocked(p, proc[p], "stopped")
                 /\ UNCHANGED <<order, closed, exec, pool, waking, creating, clock, ghosts>>

(* Mutants: a stopping process may be retried; an earlier process may. *)
RetryableStopping(p, mode) ==
    \/ proc[p].status \in {"waiting", "stopping", "stopped", "failed", "interrupted"}
    \/ proc[p].status = "completed" /\ mode = "restart"

(* checkRetryLocked *)
RetryableStatus(p, mode) ==
    \/ proc[p].status \in {"waiting", "stopped", "failed", "interrupted"}
    \/ proc[p].status = "completed" /\ mode = "restart"

CheckRetryAny(p, mode) == RetryableStatus(p, mode) /\ active \in {None, p}

CheckRetryLocked(p, mode) == /\ RetryableStatus(p, mode)
                             /\ Latest = p
                             /\ active \in {None, p}

(* The state Retry relaunches: a restart forks at 0, a resume inside an open
   section forks there, a parked process goes on as it is. *)
RetryState(p, mode) ==
    LET section == outermostOpenBegin(proc[p].journal)
    IN  CASE mode = "restart"            -> ForkJournalLocked(proc[p], 0)
          [] mode = "resume" /\ proc[p].status # "waiting" /\ section.open
                                         -> ForkJournalLocked(proc[p], section.forkOffset)
          [] OTHER                       -> proc[p]

RetryLocked(p, mode) == \/ RelaunchLocked(p, RetryState(p, mode))
                        \/ RelaunchRefused(p, RetryState(p, mode))

Retry(p, mode) == /\ Exists(p)
                  /\ CheckRetryLocked(p, mode)
                  /\ RetryLocked(p, mode)
                  /\ UNCHANGED <<order, closed, pool, waking, creating, clock, ghosts>>

(* wake: a resolver or the sweep finds the process parked, and unlocks; *)
WakeFinds(p) == /\ proc[p].status = "waiting"
                /\ ~waking[p]
                /\ waking' = [waking EXCEPT ![p] = TRUE]
                /\ UNCHANGED <<memory, exec, pool, creating, clock, disk, ghosts>>

(* then resumes it, if Retry lets it. *)
WakeRetries(p) == /\ waking[p]
                  /\ waking' = [waking EXCEPT ![p] = FALSE]
                  /\ \/ CheckRetryLocked(p, "resume") /\ RetryLocked(p, "resume")
                     \/ ~CheckRetryLocked(p, "resume") /\ UNCHANGED <<proc, active, exec, disk>>
                  /\ UNCHANGED <<order, closed, pool, creating, clock, ghosts>>

-----------------------------------------------------------------------------
(* The execute goroutine *)

(* It starts: a process stopped before its quantum goes no further. *)
ExecStart(p) == /\ exec[p] = "start"
                /\ exec' = [exec EXCEPT ![p] = IF proc[p].stopRequested THEN "halted" ELSE "submit"]
                /\ UNCHANGED <<memory, pool, waking, creating, clock, disk, ghosts>>

ExecHalted(p) == /\ exec[p] = "halted"
                 /\ FinishLocked(p, proc[p], "stopped")
                 /\ exec' = [exec EXCEPT ![p] = "none"]
                 /\ UNCHANGED <<order, closed, pool, waking, creating, clock, ghosts>>

(* pool.submit: queued, or refused once the pool's root is cancelled. *)
ExecSubmit(p) ==
    /\ exec[p] = "submit"
    /\ \/ /\ ~rootDone
          /\ quantum' = [quantum EXCEPT ![p] = "queued"]
          /\ exec' = [exec EXCEPT ![p] = "submitted"]
       \/ /\ rootDone
          /\ exec' = [exec EXCEPT ![p] = "refused"]
          /\ UNCHANGED quantum
    /\ UNCHANGED <<memory, cancelled, rootDone, waking, creating, clock, disk, ghosts>>

ExecRefused(p) == /\ exec[p] = "refused"
                  /\ FinishLocked(p, proc[p], "interrupted")
                  /\ exec' = [exec EXCEPT ![p] = "none"]
                  /\ UNCHANGED <<order, closed, pool, waking, creating, clock, ghosts>>

(* The process runs: proc.stop is set, and a Stop that came first takes effect. *)
ExecRunning(p) ==
    /\ exec[p] = "submitted"
    /\ LET state == [proc[p] EXCEPT !.status = "running", !.stop = TRUE]
       IN  /\ proc' = [proc EXCEPT ![p] = state]
           /\ \E logged \in LogOutcomes : AppendProcess(p, state, logged)
    /\ cancelled' = [cancelled EXCEPT ![p] = @ \/ proc[p].stopRequested]
    /\ exec' = [exec EXCEPT ![p] = "wait"]
    /\ UNCHANGED <<order, active, closed, quantum, rootDone, waking, creating, clock, ghosts>>

(* The quantum's result arrives. *)
ExecReceives(p) == /\ exec[p] = "wait"
                   /\ quantum[p] \in Ends
                   /\ proc' = [proc EXCEPT ![p].stop = FALSE]
                   /\ exec' = [exec EXCEPT ![p] = "record"]
                   /\ UNCHANGED <<order, active, closed, pool, waking, creating, clock,
                                  disk, ghosts>>

(* recordOutcome consumes the result. *)
Recording(p) == /\ exec[p] = "record"
                /\ quantum' = [quantum EXCEPT ![p] = "none"]
                /\ cancelled' = [cancelled EXCEPT ![p] = FALSE]
                /\ UNCHANGED <<order, closed, rootDone, waking, creating, clock, birth>>

RecordsFinish(p, before, status) == /\ FinishLocked(p, before, status)
                                    /\ exec' = [exec EXCEPT ![p] = "none"]
                                    /\ UNCHANGED abortRuns

(* retryAbortedSection: with a section open and budget left, it runs again as a
   new revision; else the process fails. *)
AbortRetries(p) == /\ outermostOpenBegin(proc[p].journal).open
                   /\ proc[p].abortRetries < MaxAborts

AbortedState(p) ==
    ForkJournalLocked([proc[p] EXCEPT !.abortRetries = @ + 1],
                      outermostOpenBegin(proc[p].journal).forkOffset)

RecordAbort(p) ==
    /\ quantum[p] = "completed" /\ guestAbort(proc[p].journal)
    /\ Recording(p)
    /\ \/ /\ AbortRetries(p)
          /\ \/ /\ RelaunchLocked(p, AbortedState(p))
                /\ abortRuns' = IF exec'[p] = "none" THEN abortRuns
                                ELSE [abortRuns EXCEPT ![p] = @ + 1]
             \/ /\ RelaunchRefused(p, AbortedState(p))
                /\ UNCHANGED abortRuns
       \/ /\ ~AbortRetries(p)
          /\ RecordsFinish(p, proc[p], "failed")

RecordAnswer(p) ==
    /\ quantum[p] = "completed" /\ ~guestAbort(proc[p].journal) /\ HasAnswer(proc[p].journal)
    /\ Recording(p)
    /\ RecordsFinish(p, proc[p], "completed")

(* Mutant of Redrives: the journal's length is not compared. *)
RedrivesForever(p) == /\ ~proc[p].stopRequested
                      /\ ~closed
                      /\ outermostOpenBegin(proc[p].journal).open

(* redriveAfterFailure runs the same revision again, once per journal length. *)
Redrives(p) == /\ ~proc[p].stopRequested
               /\ ~closed
               /\ outermostOpenBegin(proc[p].journal).open
               /\ proc[p].lastFailureLength # Len(proc[p].journal)

RedrivenState(p) == [proc[p] EXCEPT !.lastFailureLength = Len(proc[p].journal)]

(* failProcess.  A re-drive whose append fails is recorded as the failure, on
   the state relaunchLocked had already changed. *)
RecordFailure(p) ==
    /\ \/ quantum[p] = "failed"
       \/ quantum[p] = "completed" /\ ~guestAbort(proc[p].journal) /\ ~HasAnswer(proc[p].journal)
    /\ Recording(p)
    /\ \/ /\ Redrives(p)
          /\ proc' = [proc EXCEPT ![p] = Requeued(RedrivenState(p))]
          /\ active' = p
          /\ AppendProcess(p, Requeued(RedrivenState(p)), TRUE)
          /\ exec' = [exec EXCEPT ![p] = LaunchedExec(p)]
          /\ UNCHANGED abortRuns
       \/ /\ Redrives(p) /\ LogMayFail
          /\ RecordsFinish(p, Requeued(RedrivenState(p)), "failed")
       \/ /\ ~Redrives(p)
          /\ RecordsFinish(p, proc[p], "failed")

RecordYield(p) == /\ quantum[p] = "yielded"
                  /\ Recording(p)
                  /\ RecordsFinish(p, proc[p], "waiting")

(* A shutdown and a deadline interrupt; a stop stops. *)
StoppedStatus(p) == IF closed \/ quantum[p] = "deadline" THEN "interrupted" ELSE "stopped"

RecordStop(p) == /\ quantum[p] \in {"stopped", "deadline"}
                 /\ Recording(p)
                 /\ RecordsFinish(p, proc[p], StoppedStatus(p))

-----------------------------------------------------------------------------
(* The quantum: the pool and the guest, external but for what they journal *)

ContextDone(p) == cancelled[p] \/ rootDone

(* Mutant of QuantumStarts: what was cancelled while queued starts. *)
QuantumStartsCancelled(p) ==
    /\ quantum[p] = "queued"
    /\ quantum' = [quantum EXCEPT ![p] = "live"]
    /\ UNCHANGED <<memory, exec, cancelled, rootDone, waking, creating, clock, disk, ghosts>>

(* A worker takes the quantum, or drops it when it was cancelled while queued. *)
QuantumStarts(p) ==
    /\ quantum[p] = "queued"
    /\ quantum' = [quantum EXCEPT ![p] = IF ContextDone(p) THEN "stopped" ELSE "live"]
    /\ UNCHANGED <<memory, exec, cancelled, rootDone, waking, creating, clock, disk, ghosts>>

JournalOpen(p) == Len(proc[p].journal) % 2 = 1

(* A record reaches the log and the history. *)
JournalRecord(p, x) ==
    /\ proc' = [proc EXCEPT ![p].journal = Append(@, x)]
    /\ disk' = [disk EXCEPT ![p].journal = Append(@, x)]
    /\ UNCHANGED <<order, active, closed, exec, pool, waking, creating, clock, ghosts>>

(* The guest makes a new call; *)
GuestCalling(p, name) == /\ quantum[p] = "live"
                         /\ ~JournalOpen(p)
                         /\ CompletedCalls(proc[p].journal) < MaxCalls
                         /\ JournalRecord(p, name)

(* the open call completes. *)
GuestAnswered(p, outcome) == /\ quantum[p] = "live"
                             /\ JournalOpen(p)
                             /\ JournalRecord(p, outcome)

(* The guest completes, yields on the open call or fails; a cancelled context
   stops it, and so does its deadline. *)
QuantumEnds(p, end) ==
    /\ quantum[p] = "live"
    /\ end = "yielded" => JournalOpen(p)
    /\ end = "stopped" => ContextDone(p)
    /\ quantum' = [quantum EXCEPT ![p] = end]
    /\ UNCHANGED <<memory, exec, cancelled, rootDone, waking, creating, clock, disk, ghosts>>

-----------------------------------------------------------------------------
(* Shutdown, restart, time *)

(* Close marks the runtime closed under the lock, *)
CloseMarks == /\ ~closed
              /\ closed' = TRUE
              /\ UNCHANGED <<proc, order, active, exec, pool, waking, creating, clock, disk, ghosts>>

(* then cancels the running quanta and the pool's root. *)
CloseCancels == /\ closed /\ ~rootDone
                /\ rootDone' = TRUE
                /\ UNCHANGED <<memory, exec, quantum, cancelled, waking, creating, clock,
                               disk, ghosts>>

(* Mutant of RestoredStatus: a stopping process stays so. *)
RestoredStopping(status) == IF status \in {"queued", "running"} THEN "interrupted" ELSE status

(* restoreSession: what was mid-flight is interrupted. *)
RestoredStatus(status) == IF status \in Live THEN "interrupted" ELSE status

Restored(d) == [Absent EXCEPT !.status = RestoredStatus(d.status), !.journal = d.journal,
                              !.abortRetries = d.abortRetries, !.createdAt = d.createdAt]

OnDisk == {p \in Procs : disk[p].status # "absent"}

(* Fold's order: creation time, then id. *)
RestoredBefore(p, q) == \/ disk[p].createdAt < disk[q].createdAt
                        \/ disk[p].createdAt = disk[q].createdAt /\ IdBefore(p, q)

RestoredOrder ==
    CHOOSE s \in [1 .. Cardinality(OnDisk) -> OnDisk] :
        \A i, j \in DOMAIN s : i < j => RestoredBefore(s[i], s[j])

(* Fold's foreground process: the earliest one of an active status. *)
RestoredActive ==
    LET holders == {p \in OnDisk : disk[p].status \in ActiveStatuses}
    IN  IF holders = {} THEN None
        ELSE CHOOSE p \in holders : \A q \in holders \ {p} : RestoredBefore(p, q)

(* The host dies, or exits after Close, and boots again over the same log. *)
Restart ==
    /\ proc' = [p \in Procs |-> Restored(disk[p])]
    /\ order' = RestoredOrder
    /\ active' = RestoredActive
    /\ closed' = FALSE
    /\ exec' = [p \in Procs |-> "none"]
    /\ quantum' = [p \in Procs |-> "none"]
    /\ cancelled' = [p \in Procs |-> FALSE]
    /\ rootDone' = FALSE
    /\ waking' = [p \in Procs |-> FALSE]
    /\ creating' = [p \in Procs |-> None]
    /\ disk' = [p \in Procs |-> Stored(Restored(disk[p]))]
    /\ UNCHANGED <<clock, ghosts>>

Tick == /\ clock < MaxClock
        /\ clock' = clock + 1
        /\ UNCHANGED <<memory, exec, pool, waking, creating, disk, ghosts>>

-----------------------------------------------------------------------------
RecordOutcome(p) == \/ RecordAbort(p) \/ RecordAnswer(p) \/ RecordFailure(p)
                    \/ RecordYield(p) \/ RecordStop(p)

Execute(p) == \/ ExecStart(p) \/ ExecHalted(p) \/ ExecSubmit(p) \/ ExecRefused(p)
              \/ ExecRunning(p) \/ ExecReceives(p) \/ RecordOutcome(p)

Quantum(p) == \/ QuantumStarts(p)
              \/ \E name \in GuestCalls : GuestCalling(p, name)
              \/ \E outcome \in Outcomes : GuestAnswered(p, outcome)
              \/ \E end \in Ends : QuantumEnds(p, end)

API(p) == \/ CreateReadsClock(p) \/ CreateProcess(p)
          \/ StopRunning(p) \/ StopParked(p)
          \/ \E mode \in {"resume", "restart"} : Retry(p, mode)
          \/ WakeFinds(p) \/ WakeRetries(p)

Next == \/ \E p \in Procs : API(p) \/ Execute(p) \/ Quantum(p)
        \/ CloseMarks \/ CloseCancels
        \/ Restart
        \/ Tick

Spec == Init /\ [][Next]_vars

(* The scheduler runs every execute goroutine and the pool's workers; a quantum
   cannot outlive its deadline; Close goes on to cancel. *)
Fairness == /\ \A p \in Procs : /\ WF_vars(Execute(p))
                                /\ WF_vars(QuantumStarts(p))
                                /\ WF_vars(QuantumEnds(p, "deadline"))
            /\ WF_vars(CloseCancels)

FairSpec == Spec /\ Fairness

-----------------------------------------------------------------------------
(* Properties *)

(* Type invariant of the runtime's state, its goroutines and the log. *)
TypeOK ==
    /\ proc \in [Procs -> [status : Statuses, journal : Journals, abortRetries : 0 .. MaxAborts,
                           lastFailureLength : 0 .. 2 * MaxCalls, stopRequested : BOOLEAN,
                           stop : BOOLEAN, createdAt : 0 .. MaxClock]]
    /\ order \in Seq(Procs)
    /\ active \in Procs \cup {None}
    /\ closed \in BOOLEAN
    /\ exec \in [Procs -> {"none", "start", "halted", "submit", "refused", "submitted",
                           "wait", "record", "overlap"}]
    /\ quantum \in [Procs -> Ends \cup {"none", "queued", "live"}]
    /\ cancelled \in [Procs -> BOOLEAN]
    /\ rootDone \in BOOLEAN
    /\ waking \in [Procs -> BOOLEAN]
    /\ creating \in [Procs -> (0 .. MaxClock) \cup {None}]
    /\ clock \in 0 .. MaxClock
    /\ disk \in [Procs -> [status : Statuses, journal : Journals,
                           abortRetries : 0 .. MaxAborts, createdAt : 0 .. MaxClock]]
    /\ birth \in Seq(Procs)
    /\ abortRuns \in [Procs -> Nat]

(* A process runs on one execute goroutine at a time, and has one only while it
   is live: no Stop, Retry, wake or re-drive starts a second quantum over the
   same journal, whatever the log does. *)
OneQuantum == \A p \in Procs : /\ exec[p] # "overlap"
                               /\ exec[p] # "none" => IsLive(p)

(* No process is left queued, running or stopping with nobody to run it: every
   way out of execute records an outcome or launches again.  A shutdown may cut
   off a relaunch, and then the next boot finds the process. *)
NobodyStranded == ~closed => \A p \in Procs : IsLive(p) => exec[p] # "none"

(* A session runs one process at a time: whoever runs holds the session, and
   nobody else in it runs or waits (processes.go CreateProcess). *)
OneProcessRuns ==
    \A p \in Procs :
        IsLive(p) => /\ active = p
                     /\ \A q \in Procs \ {p} : ~IsLive(q) /\ proc[q].status # "waiting"

(* While the runtime is open, a crash loses nothing: the log holds every
   process's state and journal, whatever goroutine changed it last. *)
LogIsCurrent ==
    ~closed => \A p \in Procs : disk[p] = Stored(proc[p])

(* The abort budget is spent for good: no crash, retry or restart buys a process
   another run of its section after an abort (durable.go AbortRetries). *)
AbortBudgetHolds == \A p \in Procs : abortRuns[p] <= MaxAborts

(* A process created after it follows p in the order of a restart too. *)
FollowedForGood(p) ==
    \E i, j \in DOMAIN birth : i < j /\ birth[i] = p /\ RestoredBefore(p, birth[j])

(* "The history the later processes read already holds an earlier one's answer"
   (processes.go checkRetryLocked): once a process is created after it, with a
   later time or the same time and a later id, a process neither runs again nor
   loses part of its journal, not by a retry, a wake that raced one, or any
   restart.  CreateProcess reads the clock before the lock, so the later one may
   be dated earlier; a restart then lists it first and the earlier one may run
   again, against that comment.  Nothing is claimed of that case. *)
HistoryFrozen ==
    [][\A p \in Procs :
          FollowedForGood(p) => /\ proc'[p].status \notin Live
                                /\ proc'[p].journal = proc[p].journal]_vars

(* Every run comes to rest while its journal stays bounded: neither the re-drive
   after a failure nor the retry after an abort keeps a process busy forever,
   and no result is waited for in vain, whatever the log does and also when a
   stop or a shutdown cuts the run off (recovery.go, executor.go). *)
RunsSettle == \A p \in Procs : exec[p] # "none" ~> exec[p] = "none"

(* The quanta of the session's processes live as the worker pool promises
   (Quanta.tla, which Pool.tla implements): none starts once its process was
   stopped or the runtime closed, and each result is recorded once. *)
QuantumLife == [p \in Procs |-> IF quantum[p] \in Ends THEN "ended" ELSE quantum[p]]

PoolPromise == INSTANCE Quanta WITH Submissions <- Procs, life <- QuantumLife,
                                    done <- [p \in Procs |-> ContextDone(p)]

QuantaAsPromised == PoolPromise!QuantaSpec

-----------------------------------------------------------------------------
(* What the repository says of the runtime and the code does not keep *)

(* events.go, isActiveStatus: a process that holds the session "is neither
   completed, failed, nor stopped, so it can still make progress": it runs, or
   a resume can run it.  Stated for sessions whose order a restart
   kept: the creation time is read before the lock, and ids break ties. *)
HolderCanProgress ==
    (active # None /\ order = birth)
        => IsLive(active) \/ CheckRetryLocked(active, "resume")

(* processes.go, Stop: "execute records the stop when the quantum ends": a
   process asked to stop leaves its run neither queued again nor parked. *)
StopEndsRun ==
    [][\A p \in Procs :
          (IsLive(p) /\ proc[p].stopRequested)
              => /\ proc'[p].status # "waiting"
                 /\ proc'[p].status = "queued" => proc'[p] = proc[p]]_vars
=============================================================================
