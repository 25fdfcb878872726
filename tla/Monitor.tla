------------------------------ MODULE Monitor ------------------------------
(***************************************************************************)
(* The flow monitor around the processes of one session (monitor/), with   *)
(* the layers whose results it labels and the approval it leads to: the    *)
(* routing dispatcher's crossing check (capability/dispatcher.go), the     *)
(* task layer, sys.input's history labels (lifecycle.go), and what a run's *)
(* end, a fork and a restart do to a taint that only replay can rebuild.   *)
(*                                                                         *)
(* A taint pairs each label with the calls that produced it.  Beside what  *)
(* the code keeps, the history variables "given" and "truth" say what the  *)
(* guest was really given.  A guest is deterministic: replay refuses one   *)
(* that asks for other calls than it recorded.  Left out: the syscall:     *)
(* labels, which no grant can forbid, begin and commit, which the monitor  *)
(* passes by, a result's data, failed appends (Runtime.tla), and the text  *)
(* of a prompt, which lists five calls per label and counts the others.    *)
(* Where a section begins is Sections.tla's: a fork may land on any call.  *)
(***************************************************************************)
EXTENDS Naturals, Sequences

CONSTANTS
    Ops,               \* the granted operations
    Labels,
    Carries,           \* Entry.Labels: what an operation's results carry
    Forbids,           \* Entry.Forbid: what its calls may not carry out
    RequireApproval,   \* Entry.RequireApproval
    HandlerLabels,     \* the labels an operation's handler may find in its data
    None,
    MaxProcs,          \* bound on the session's processes
    MaxCalls,          \* bound on a journal's completed calls
    MaxRevision,       \* bound on a process's revisions
    MaxTasks           \* bound on the tasks minted

ASSUME OpsAssumption ==
    /\ "sys.input" \notin Ops /\ None \notin Ops \cup {"sys.input"}
    /\ Carries \in [Ops -> SUBSET Labels]
    /\ Forbids \in [Ops -> SUBSET Labels]
    /\ RequireApproval \in [Ops -> BOOLEAN]
    /\ HandlerLabels \in [Ops -> SUBSET Labels]
ASSUME BoundsAssumption ==
    MaxProcs \in Nat /\ MaxCalls \in Nat /\ MaxRevision \in Nat /\ MaxTasks \in Nat

Calls  == Ops \cup {"sys.input"}
Taints == SUBSET (Labels \X Calls)

VARIABLES
    \* the session
    turns,      \* the completed processes before the latest: their answers' labels
    born,       \* how many processes the session has
    \* the latest process, the only one that may run
    status,     \* "running", "waiting", "ended" (a retry may run it) or "completed"
    shares,     \* its manifest shares the session's history
    revision,
    journal,    \* its completed calls, each with the labels recorded
    open,       \* the call whose intent is open at the tail, or None
    labels,     \* processState.labels
    truth,      \* the labels of what its answer was written from
    \* its quantum
    pc, cursor,
    result,     \* what came back from below replay, not yet journaled
    taint,      \* Taints.observed of the current revision: volatile
    given,      \* what this quantum's guest was given, paired like a taint
    \* eventTaskStore
    tasks

session == <<turns, born, shares>>
kept    == <<labels, truth>>
vars    == <<turns, born, status, shares, revision, journal, open, labels, truth, pc, cursor,
             result, taint, given, tasks>>

NoResult == [labels |-> {}, truth |-> {}]

-----------------------------------------------------------------------------
(* Labels *)

(* Taints.observe: each label with the call that produced it. *)
Observed(ls, call) == ls \X {call}

LabelsOf(pairs) == {pair[1] : pair \in pairs}

(* crossingTaint: what of a taint an operation's calls may not carry out. *)
crossingTaint(op, pairs) == {pair \in pairs : pair[1] \in Forbids[op]}

(* flowStamp adds the operation's labels to its handler's. *)
Stamped(op, found) == found \cup Carries[op]

(* historyLocked and historyLabels: what the answers of the session's completed
   processes carry, none when the manifest hides the history. *)
historyLabels == IF shares THEN UNION {turn.labels : turn \in turns} ELSE {}

HistoryTruth == IF shares THEN UNION {turn.truth : turn \in turns} ELSE {}

-----------------------------------------------------------------------------
Init == /\ turns = {}
        /\ born = 0
        /\ status = "ended"
        /\ shares = FALSE
        /\ revision = 0
        /\ journal = << >>
        /\ open = None
        /\ labels = {}
        /\ truth = {}
        /\ pc = "idle"
        /\ cursor = 0
        /\ result = NoResult
        /\ taint = {}
        /\ given = {}
        /\ tasks = << >>

(* CreateProcess: the latest process, if it completed, is a turn of the history
   the new one may read. *)
CreateProcess(share) ==
    /\ born < MaxProcs
    /\ status \in {"ended", "completed"}
    /\ turns' = IF status = "completed"
                THEN turns \cup {[labels |-> labels, truth |-> truth]} ELSE turns
    /\ born' = born + 1
    /\ status' = "running"
    /\ shares' = share
    /\ revision' = 1
    /\ journal' = << >>
    /\ open' = None
    /\ labels' = {}
    /\ truth' = {}
    /\ pc' = "guest"
    /\ cursor' = 0
    /\ result' = NoResult
    /\ taint' = {}
    /\ given' = {}
    /\ UNCHANGED tasks

-----------------------------------------------------------------------------
(* The running quantum *)

(* What the guest is handed reaches its taint (flowTrack) and the guest. *)
Tracks(ls, true, call) == /\ taint' = taint \cup Observed(ls, call)
                          /\ given' = given \cup Observed(true, call)

(* Mutant of Replays: a served record is not observed. *)
ReplaysUnobserved ==
    /\ pc = "guest" /\ cursor < Len(journal)
    /\ cursor' = cursor + 1
    /\ given' = given \cup Observed(journal[cursor + 1].truth, journal[cursor + 1].call)
    /\ UNCHANGED <<session, status, revision, journal, open, kept, pc, result, taint, tasks>>

(* A recorded call is served from the journal. *)
Replays ==
    /\ pc = "guest" /\ cursor < Len(journal)
    /\ cursor' = cursor + 1
    /\ Tracks(journal[cursor + 1].labels, journal[cursor + 1].truth, journal[cursor + 1].call)
    /\ UNCHANGED <<session, status, revision, journal, open, kept, pc, result, tasks>>

(* A call beyond the journal is new, or drives the open intent again. *)
GuestCalls(call) ==
    /\ pc = "guest" /\ cursor = Len(journal)
    /\ Len(journal) < MaxCalls
    /\ open \in {None, call}
    /\ open' = call
    /\ pc' = "dispatch"
    /\ UNCHANGED <<session, status, revision, journal, kept, cursor, result, taint, given, tasks>>

(* sys.input is served with the history and its labels. *)
ServesInput ==
    /\ pc = "dispatch" /\ open = "sys.input"
    /\ result' = [labels |-> historyLabels, truth |-> HistoryTruth]
    /\ pc' = "served"
    /\ UNCHANGED <<session, status, revision, journal, open, kept, cursor, taint, given, tasks>>

(* Mutant of Found: the revision is not compared. *)
FoundAnyRevision ==
    {t \in DOMAIN tasks : tasks[t].process = born /\ tasks[t].position = Len(journal)}

(* Find: the task of the open call, by process, revision and position. *)
Found == {t \in DOMAIN tasks : /\ tasks[t].process = born
                               /\ tasks[t].revision = revision
                               /\ tasks[t].position = Len(journal)}

(* A call waits for a human when its operation says so, or when it could carry
   out what it may not. *)
NeedsApproval(op) == RequireApproval[op] \/ crossingTaint(op, taint) # {}

(* The handler runs: on its own, or as a human approved. *)
Executes(op, found) ==
    /\ pc = "dispatch" /\ open = op
    /\ \/ Found = {} /\ ~NeedsApproval(op)
       \/ \E t \in Found : tasks[t].state = "approved"
    /\ found \subseteq HandlerLabels[op]
    /\ result' = [labels |-> Stamped(op, found), truth |-> found \cup Carries[op]]
    /\ pc' = "executed"
    /\ UNCHANGED <<session, status, revision, journal, open, kept, cursor, taint, given, tasks>>

(* The call yields, and the task layer mints the task, whose prompt names the
   crossing; the yield is stamped and observed like any result. *)
Yields(op) ==
    /\ pc = "dispatch" /\ open = op
    /\ Found = {} /\ NeedsApproval(op)
    /\ Len(tasks) < MaxTasks
    /\ tasks' = Append(tasks, [process |-> born, revision |-> revision, position |-> Len(journal),
                               shown |-> crossingTaint(op, taint), state |-> "pending"])
    /\ Tracks(Stamped(op, {}), {}, op)
    /\ pc' = "yielded"
    /\ UNCHANGED <<session, status, revision, journal, open, kept, cursor, result>>

(* A task still pending yields again. *)
YieldsAgain(op) ==
    /\ pc = "dispatch" /\ open = op
    /\ \E t \in Found : tasks[t].state = "pending"
    /\ Tracks(Stamped(op, {}), {}, op)
    /\ pc' = "yielded"
    /\ UNCHANGED <<session, status, revision, journal, open, kept, cursor, result, tasks>>

(* A task settled in any other way, or expired, is the call's result. *)
ServesTask(op) ==
    /\ pc = "dispatch" /\ open = op
    /\ \E t \in Found : tasks[t].state \in {"pending", "settled"}
    /\ result' = [labels |-> Stamped(op, {}), truth |-> {}]
    /\ pc' = "served"
    /\ UNCHANGED <<session, status, revision, journal, open, kept, cursor, taint, given, tasks>>

(* Replay journals the completion, and the result goes up. *)
Commits ==
    /\ pc \in {"served", "executed"}
    /\ journal' = Append(journal, [call |-> open, labels |-> result.labels, truth |-> result.truth])
    /\ Tracks(result.labels, result.truth, open)
    /\ open' = None
    /\ result' = NoResult
    /\ cursor' = cursor + 1
    /\ pc' = "guest"
    /\ UNCHANGED <<session, status, revision, kept, tasks>>

-----------------------------------------------------------------------------
(* The run's end *)

(* The quantum is over: the guest and what it was given are gone. *)
QuantumOver == pc' = "idle" /\ cursor' = 0 /\ result' = NoResult /\ given' = {}

Parks == /\ pc = "yielded"
         /\ status' = "waiting"
         /\ QuantumOver
         /\ UNCHANGED <<session, revision, journal, open, kept, taint, tasks>>

(* Mutant of KeepsLabels: the taint is forgotten first. *)
KeepsForgotten == taint' = {} /\ labels' = LabelsOf(taint')

(* finishLocked keeps the labels with the process, then forgets the taint. *)
KeepsLabels == labels' = LabelsOf(taint) /\ taint' = {}

(* The guest completes; its answer may hold anything it was given. *)
Completes == /\ pc = "guest" /\ cursor = Len(journal) /\ open = None
             /\ status' = "completed"
             /\ KeepsLabels
             /\ truth' = LabelsOf(given)
             /\ QuantumOver
             /\ UNCHANGED <<session, revision, journal, open, tasks>>

(* It fails, is stopped, or runs out of time, or a parked process is stopped. *)
Ends == /\ status \in {"running", "waiting"}
        /\ status' = "ended"
        /\ KeepsLabels
        /\ QuantumOver
        /\ UNCHANGED <<session, revision, journal, open, truth, tasks>>

-----------------------------------------------------------------------------
(* A run starts again: the guest from its beginning, the taint as it is left. *)

Launches == /\ status' = "running"
            /\ pc' = "guest"
            /\ cursor' = 0
            /\ result' = NoResult
            /\ given' = {}
            /\ UNCHANGED <<session, kept, tasks>>

(* forkJournalLocked: a new revision, whose taint is empty. *)
ForkJournalLocked(k) == /\ revision < MaxRevision
                        /\ revision' = revision + 1
                        /\ journal' = SubSeq(journal, 1, k)
                        /\ open' = None
                        /\ taint' = {}

Continues == UNCHANGED <<revision, journal, open, taint>>

(* Retry: a resume goes on, or forks at an open section; a restart forks at 0. *)
RetryResume == /\ born > 0
               /\ \/ status \in {"waiting", "ended"} /\ Continues
                  \/ status = "ended" /\ \E k \in 0 .. Len(journal) : ForkJournalLocked(k)
               /\ Launches

RetryRestart == /\ born > 0
                /\ status \in {"waiting", "ended", "completed"}
                /\ ForkJournalLocked(0)
                /\ Launches

(* retryAbortedSection and redriveAfterFailure, from the run itself. *)
AbortRetries == /\ pc = "guest"
                /\ \E k \in 0 .. Len(journal) : ForkJournalLocked(k)
                /\ Launches

FailureRedrives == /\ status = "running"
                   /\ Continues
                   /\ Launches

(* restoreSession: a running process is interrupted. *)
RestoredStatus == IF status = "running" THEN "ended" ELSE status

(* The host restarts, and the taint is gone. *)
Restart == /\ taint' = {}
           /\ status' = RestoredStatus
           /\ QuantumOver
           /\ UNCHANGED <<session, revision, journal, open, kept, tasks>>

(* A human, or the sweep, settles a task. *)
Decides(t, decision) ==
    /\ tasks[t].state = "pending"
    /\ tasks' = [tasks EXCEPT ![t].state = decision]
    /\ UNCHANGED <<session, status, revision, journal, open, kept, pc, cursor, result, taint, given>>

-----------------------------------------------------------------------------
Quantum == \/ Replays
           \/ \E call \in Calls : GuestCalls(call)
           \/ ServesInput
           \/ \E op \in Ops : \/ \E found \in SUBSET HandlerLabels[op] : Executes(op, found)
                              \/ Yields(op) \/ YieldsAgain(op) \/ ServesTask(op)
           \/ Commits

Next == \/ \E share \in BOOLEAN : CreateProcess(share)
        \/ Quantum
        \/ Parks \/ Completes \/ Ends
        \/ RetryResume \/ RetryRestart \/ AbortRetries \/ FailureRedrives
        \/ Restart
        \/ \E t \in DOMAIN tasks, decision \in {"approved", "settled"} : Decides(t, decision)

Spec == Init /\ [][Next]_vars

-----------------------------------------------------------------------------
(* Properties *)

Results == [labels : SUBSET Labels, truth : SUBSET Labels]

(* Type invariant of the session, its latest process, the taint and the tasks. *)
TypeOK ==
    /\ turns \in SUBSET Results
    /\ born \in 0 .. MaxProcs
    /\ status \in {"running", "waiting", "ended", "completed"}
    /\ shares \in BOOLEAN
    /\ revision \in Nat
    /\ journal \in Seq([call : Calls, labels : SUBSET Labels, truth : SUBSET Labels])
    /\ open \in Calls \cup {None}
    /\ labels \in SUBSET Labels
    /\ truth \in SUBSET Labels
    /\ pc \in {"idle", "guest", "dispatch", "served", "executed", "yielded"}
    /\ pc \in {"dispatch", "served"} => open # None
    /\ pc \in {"executed", "yielded"} => open \in Ops
    /\ pc # "idle" <=> status = "running"
    /\ cursor \in 0 .. Len(journal)
    /\ result \in Results
    /\ taint \in Taints
    /\ given \in Taints
    /\ tasks \in Seq([process : 0 .. MaxProcs, revision : Nat, position : Nat,
                      shown : Taints, state : {"pending", "approved", "settled"}])

(* A run's taint holds every label of what its guest was really given, and the
   call it came from, after any crash, fork, re-drive or wake: replay rebuilds
   it in full (monitor/flow.go Track). *)
TaintCoversGiven == status = "running" => given \subseteq taint

(* Nothing labelled leaves unseen: a handler whose operation forbids a label the
   guest was given runs only because a human approved this very call, of this
   revision, at a prompt made from every such label and every call it came
   from.  An approval given to an abandoned revision, or for what was read
   before, lets nothing else through (capability/dispatcher.go Dispatch). *)
CarriesOut(op) == {pair \in given : pair[1] \in Forbids[op]}

ApprovedFor(t) == /\ tasks[t].process = born
                  /\ tasks[t].revision = revision
                  /\ tasks[t].position = Len(journal)
                  /\ tasks[t].state = "approved"
                  /\ CarriesOut(open) \subseteq tasks[t].shown

CrossingApproved ==
    pc = "executed" => \/ ~RequireApproval[open] /\ CarriesOut(open) = {}
                       \/ \E t \in DOMAIN tasks : ApprovedFor(t)

(* Provenance is not laundered through the session's history: what an answer was
   written from stays on it, whatever ends, retries and restarts came between
   (executor.go finishLocked, snapshots.go historyLocked). *)
HistoryKeepsProvenance ==
    /\ \A turn \in turns : turn.truth \subseteq turn.labels
    /\ status = "completed" => truth \subseteq labels
=============================================================================
