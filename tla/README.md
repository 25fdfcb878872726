# A TLA+ development for aurora-capcompute

aurora-capcompute runs Wasm agent programs as *processes* inside *sessions*. Every
syscall a guest makes is journaled, so a process can be run again from its
journal after a crash, a stop, a failure or a wait; all durable state is a fold
of one append-only event stream per session. This directory models the parts of
it that carry that promise, checks them with TLC on small instances and proves
the central ones for every instance with TLAPS.

## The system: components, state, operations

| Component | Source | State | Operations | What makes it hard |
|---|---|---|---|---|
| Replay dispatcher and tape | `replay/replay.go`, `journaled/tape.go` | cursor, pending intent, the journal | `Next`, `Begin`, `Commit`, `Verify`, `Dispatch` | the host can die, an append can fail and the guest can go on calling at every point of a dispatch |
| Process journal | `internal/agent/journal.go` | records of all revisions, the current revision's length | `add`, `getAt`, `length`, `entries`, `Append`, `Load`, `outermostOpenBegin`, `foldJournals` | revisions share one history; a fork may be in memory and not in the log |
| Process lifecycle | `processes.go`, `state.go` | `processState`, `sessionState` | `CreateProcess`, `Stop`, `Retry`, fork, relaunch | API calls race the execute goroutine |
| Executor, recovery | `executor.go`, `recovery.go` | the quantum's result, abort budget, last failure length | `execute`, `recordOutcome`, `finishLocked`, abort retry, re-drive | the lock is released before, during and after the quantum |
| Restore and folding | `restore.go`, `durable/events.go`, `durable/durable.go` | the event stream | `restore`, `Fold` | what the fold decides must agree with what the live runtime decided |
| Tasks | `task/task.go`, `taskstore.go`, `tasks.go`, `timer.go`, `durable/task.go` | task records, the sweep | `Dispatch`, `resume`, `Create`, `Resolve`, `Due`, `Settle`, `wake` | a human, the sweep and the running quantum race; clocks are read before locks |
| Worker pool | `pool.go` | queue, root context | `submit`, `work`, `runOne`, `dropped`, `close` | every submission owes one result, cancelled or not |
| Assembly and shutdown | `runtime.go` | `closed`, `baseCtx`, `wg` | `NewRuntime`, `Close` | relaunches race shutdown |
| Dispatcher chain and manifests | `chain.go`, `manifest/` | the table and layers of one quantum | `Validate`, `newDispatcher`, `reconcileGrants` | names are trimmed, compared and reserved at three places; the provider is not trusted |
| Lifecycle, savepoint, world, progress layers | `lifecycle.go`, `savepoint.go`, `world.go`, `progress.go` | none of their own | answer `sys.*` calls | only through what they leave on the journal |
| Reference monitor | `monitor/` | taint per revision | `Track`, `Stamp`, `Validator` | taint lives in memory only and is rebuilt by replay after a crash or a fork |
| Capability table | `capability/` | entries, routes, reserved names | `Add`, `Reserve`, `resolve`, `Dispatch` | decides what a call reaches and whether it waits for an approval |
| Sessions and programs | `sessions.go`, `programs.go` | names; the registry of one boot | `CreateSession`, `RenameSession`, `bound` | appends fail, and a boot may bring other programs than the last |
| Snapshots, public API | `snapshots.go`, `api.go`, `aurora/` | none | reads | the history a process reads carries labels |

How they interact: `CreateProcess`, `Retry`, an abort or a failure launch an
`execute` goroutine under `Runtime.mu`; it submits a quantum to the pool; the
quantum builds a dispatcher chain (monitor, replay, savepoint, world, lifecycle,
task, progress, timer, drivers) over the process's journal and runs the guest;
every call goes through replay, whose tape appends to the journal, which appends
to the session's event stream; a call that yields becomes a task record on the
same stream; the result comes back to `recordOutcome`, which takes `Runtime.mu`
again. Tasks are settled by `ResolveTask` or by the sweep, both of which call
`wake`, which calls `Retry`. A restart folds the stream.

What makes each part correct: a call runs only behind its durable intent and a
guest sees only durable results (replay); a crash restores what the running
quantum was reading (journal); one quantum per process and one process per
session, budgets that no crash renews (runtime); a result for every submission, no
quantum that was cancelled in the queue, a shutdown that releases nothing in use
(pool); one task per call, one settlement per task, no lost wake of a process that may run (tasks); a taint
that covers what the guest was given, and nothing labelled let out without an
approval of that very call (monitor); nothing run that the manifest does not grant
(grants); unique names and one program for life, over boots and failed appends
(sessions).

## Modules

| Module | Models | State and actions |
|---|---|---|
| `JournalProtocol` | the abstract journal | one sequence; `Open`, `Close`, `Cut` |
| `Replay` | tape and replay dispatcher of one process | `Dispatch` split at every point where the host can die or a callee can fail: `Serve`/`Diverge`/`DriveAgain`/`Fresh` are the outcomes of `Tape.Next`, then `Begin`, `Execute`, `Commit` and their failures; quanta, crashes, forks |
| `ProcessJournal` | `processHistory`, `logJournal`, their restore | memory (`history`, `length`, `revision`, `forkOffset`) and stream (`stream`, `stored`); append, relaunch, forks recorded or not, restart |
| `Sections` | `outermostOpenBegin`, `lastCall`, `guestAbort`, `answerFromJournal` | operators on a journal, the scan as a recursive function; `OpenBegins` and `OutermostFound` define by matching what the scan must find |
| `Runtime` | process lifecycle, executor, recovery, restore, shutdown | each hold of `Runtime.mu` is one action with the event it appends; `exec` is where the goroutine stands between holds |
| `Tasks` | task layer, store, timers, `ResolveTask`, sweep, wake | each hold of the store's or the runtime's lock is one action; the times read before a lock are variables; `refusal` is why `checkRetryLocked` would refuse the process now, whatever its status: another program, a later process, another holder of the session |
| `Quanta` | the abstract life of a submission | a stage and a context per submission; neither workers nor queue |
| `Pool` | the worker pool and `Close` | each branch a select can take is an action; `closing` is how far `Close` got |
| `Monitor` | flow tracking, the crossing check, history labels | the latest process of a session with its quantum; `taint` is the code's, `given` and `truth` are history variables that say what the guest was really given |
| `Grants` | manifest check, table, reconciliation, layers, the path of a call | `phase` walks through the build of one chain; a call records what it reached |
| `Sessions` | session names and programs over boots | memory (`sessions`, `process`, `registry`) and log (`disk`); `origin` and `ranUnder` record what a process was created from and what ran it |
| `ReplayProofs`, `ProcessJournalProofs`, `RuntimeProofs`, `TasksProofs`, `PoolProofs`, `MonitorProofs`, `GrantsProofs`, `SessionsProofs` | proofs | `RuntimeProofs` also holds what is proved of `Sections` |
| `MCReplay`, `MCProcessJournal`, `MCSections`, `MCRuntime`, `MCMonitor`, `MCGrants`, `MCSessions` | instances for TLC | `MCSections` lets a guest leave any journal and forks it (`WalkSpec`); `RuntimeProofs` extends it beside `Runtime` |

`Replay` and `ProcessJournal` each implement `JournalProtocol` (properties
`JournalProtocolHolds` and `StoreKeepsProtocol`): the first from the writer's
side, the second for the journal a crash would leave. `Pool` and `Runtime` each
implement `Quanta` (`PoolKeepsPromise`, `QuantaAsPromised`): the first shows that the
pool keeps the promise, the second that the executor's quanta live by it, so that
`Runtime` need not know of workers and queue. `Runtime` uses the operators
of `Sections` on every process's journal. Operators commented *Mutant* restate
one definition with a plausible slip; they are not part of any specification and
show that the property named with them in `PROJECT.json` notices.

External, and modelled by what the code expects of them: the guest (any call at
any time), the drivers (any outcome), the event log (an append succeeds, or fails
and writes nothing), the processor `capcompute` (a quantum completes, yields, is
stopped or fails), the clock, the dispatcher provider (any families and names) and
the application's list of programs. The guest of `Monitor` is
deterministic, which `Replay` enforces: a guest that asks for other calls than it
recorded diverges and is refused.

## Runs

Passing runs:

| Run | Bounds | What it shows |
|---|---|---|
| `replay` | 2 syscalls, 2 results, 3 calls per quantum | journal-before-execute, journal-before-observe, agreement of replays, protocol. Two of each let a guest diverge and a driver answer differently the second time; three calls let a fork keep some and drop some |
| `process_journal` | journals up to 4 records, 3 revisions, 2 payloads (symmetric) | the durable view, frozen revisions, protocol. Three revisions are needed for a record of the first to be seen through the third past the second |
| `sections` | 6 calls | the scan against its definition by matching; 6 calls hold two nested sections, a stray commit and an open tail |
| `runtime` | 2 processes, 1 call each, clock 0..1, log never fails | nobody stranded, one process per session, a current log, no second run of a process followed for good, quanta as the pool promises. Two clock values let a later process be dated earlier, so that a restart reorders |
| `runtime_log` | 1 process, 2 calls (`begin`, `abort`, `output`), abort budget 1, any append may fail, fair | no second quantum, the budget, runs settle |
| `tasks` | 1 call per revision, 2 revisions, 2 tasks, clock 0..2, 1 restart, decisions `approved` and `denied`, fair | one task per call, one settlement per task, guests served as decided, deadlines settle, no wake is lost of a process `checkRetryLocked` lets run. The restart may leave the process refused in any of the three ways |
| `pool` | 3 submissions, 2 workers, fair | one worker each, a release after the last use, a result for every submission, `Close` returns, `Quanta`. More submissions than workers, so that one queues while others run; a name is used again once its result is taken |
| `monitor` | 2 processes, 2 calls, 2 revisions, 2 tasks, 2 labels; operations `read` (labels), `send` (forbids both), `pay` (always asks, forbids one) | the taint covers what was given, crossings are approved, answers keep their labels. Two calls are a read and the send it taints; two revisions let an approval outlive its revision; two processes read each other's answers |
| `grants` | manifests of up to 2 grants of 7 spellings, providers of up to 2 of 11 families, 6-bit durations | only what is granted runs, the runtime's syscalls are served, a valid call is refused only where schemas overlap, the timer's bound. The families include operations that share a schema, schemas that pin their case, schemas that overlap, one schema in two texts, ones the table must refuse, and names of the runtime's; at 6 bits `max_duration_ms` wraps to negative and to small positive values |
| `sessions` | 2 sessions with a process each, 2 names and the empty one, 6 program lists, any number of boots | unique names, names that survive, one program for life. The lists change the schemas, the wasm or the program, list one twice or do not compile |

The abort budget is 10 in the code (`maxAbortRetries`) and 1 in the instances: the
budget is only compared and counted. `runtime` gives each guest one call because
two processes with two calls each are beyond TLC's time here; what needs two calls
(an abort inside a section) needs only one process and is in `runtime_log`. `RunsSettle` holds for bounded
journals: a guest that fails one call further each time it is re-driven is re-driven as
long as it lasts. Every module with state has a type invariant, `TypeOK`, on which its
proofs rest; the runs leave it out and check what is built on it.

Runs that end in a violation, each showing where a comment of the code and the
code part (details and quotations in `PROJECT.json`, `findings`):

| Run | What happens |
|---|---|
| `session_wedged` | an interrupted process frees its session live and takes it back at a restart; if another process was created meanwhile, nobody in the session can run |
| `stop_ignored` | a stop that arrives as the guest yields or aborts parks the process or runs it again |

More places behave in a way a reader of the comments may not expect. The model keeps
them, and no property claims otherwise:

- A stop that lands between `wake`'s check and its `Retry` ends the parked process,
  and the `Retry` runs it again.
- A pending task of an abandoned revision hides a settled one from the sweep until it
  expires: the wake comes late.
- A timer a human approved yields again on every run.
- The creation time is read outside the lock and ids break ties, so a restart may list
  two processes the other way round. The earlier one is then the last listed, and
  `Retry` runs it again, and may cut its journal, although `processes.go:166-167` says
  "Only the latest process in a session may run again: the history the later processes
  read already holds an earlier one's answer". `HistoryFrozen` is therefore stated for
  processes that a later one follows in the restart's order too, and `HolderCanProgress`
  for sessions whose order a restart kept.
- A process parked on a settled task stays parked while `checkRetryLocked` refuses it:
  its program is not loaded since the last boot, a restart listed another process after
  it, or gave the session to another one, as in `session_wedged`. The sweep tries it
  every second in vain; `SettledWakes` is stated for processes that are not refused.
- `menuSchema` compares schemas by their bytes. Two operations whose schemas differ and
  overlap, as the pair in `table_test.go:132-142` does, make a `oneOf` that refuses the
  calls both accept. `ValidCallPasses` says that no other valid call is refused.
- An abort recorded while `Close` waits is refused its relaunch and records no outcome.
- A failed append leaves memory ahead of the log.
- An approval can be recorded after a retry served the same task as expired.
- After a boot without its program an interrupted process holds its session until a
  boot brings that program back: it is neither retried nor stopped, and no
  other process is created.

## Fairness

`Runtime!FairSpec`: weak fairness of the execute goroutine and of the workers taking
a quantum (the Go scheduler), of the quantum's deadline (`runOne` gives every
quantum a timeout, and `NewRuntime` a positive default), and of `Close` going on to
cancel after it marked the runtime closed (straight-line code). Nothing is assumed
of users, guests or drivers. `Tasks!FairSpec`: weak fairness of the sweep, which
loops every second and is sequential, and of the clock. Restarts are
bounded there (`MaxRestarts`): a host that restarts for ever before the sweep's first
pass wakes nobody. `Pool!FairSpec`: weak fairness of every goroutine's own steps, of a run
(its deadline ends it) and of `Close`, and strong fairness of a submission's being received:
while other submissions keep the workers busy the queue is ready only now and then,
and Go serves the senders blocked on a channel in turn. Nobody is assumed to
cancel or to give up on `Close`.

## Proofs

The proofs hold for any sets of calls, results, payloads, processes, submissions,
workers, sessions, names, operations and labels, any program lists, manifests, families
and label rules, any decisions and times, and any bounds. The assumptions are those of
the modules, and TLC evaluates each of them on the instances:

- the values that stand for nothing (`NoCall`, `None`, `Absent`...) are not among the others,
  and the bounds are naturals;
- `Runtime`: `IdBefore`, the order of process ids that breaks ties between creation times, is
  a strict total order, as that of strings is;
- `Sessions`: program lists are sequences of programs;
- `Grants`: an operation is named by a case of its syscall's arguments, every schema's text has a
  set of arguments it accepts (any set: schemas may overlap), and the default maximum of a timer
  is a positive `time.Duration`, a second a whole number of milliseconds.

*Replay.* The properties are not inductive by themselves. The invariant `Inv` adds where
the cursor stands: it is twice the number of observed results, plus one while an intent
is pending, never beyond the journal, and at its end while an intent is pending or a
call executes; and that what any earlier quantum was given (`seen`) is a prefix of the
journal's completions. Journal-before-execute follows since the only way to `execute` is
behind an intent just appended or just found at the tail; agreement since both
`observed` and `seen` are read off one journal. The refinement maps `Begin` to `Open`,
`Commit` to `Close`, `Fork` to `Cut` and everything else to a stutter; it needs `Inv`
for the parity of the journal at each step.

*ProcessJournal.* The invariant relates memory and stream (`history` is always `stream`;
nobody writes a revision above the current one; the recorded revision is at most the
current one and equal to it while a quantum is launched) and says every position below a
view's length holds a record of the right kind that the view may read. `lengthOf` is a
maximum over a finite set, and its value is established once by a lemma. An abandoned
revision is frozen since every append carries a revision above it; the refinement
follows from what one append or one recorded fork does to the view of the recorded
revision. That `entries` shows every completed call with the outcome the guest was given
needs a second invariant on top of it (`CallsInv`): a revision writes a position at most
once; everything from its fork offset on is its own; and a view shows an intent and its
completion from one revision. The last is kept because fork offsets are even: a
completion can only be appended behind an intent the same revision wrote.

*Sections and Runtime.* The scan is a recursive function on `0 .. CompletedCalls(j)`.
Its equation and every fact about it are proved by induction, in the form the provers
can use: a set of naturals that holds 0 and the successor of each member is all of them,
by the least-number principle of `WellFoundedInduction`. The scan's depth is at least
the surplus of begins over commits from any call on, and exactly that surplus from the
call its offset points behind (`OpenSince`), which is what the definition by matching
asks for (`ScanFinds`, for every sequence; `ScanAlwaysFinds` and `ForksAlwaysStay` state
it of the walk `MCSections` checks).

`Runtime`'s invariant follows the session's lock. `Local`: a process has a quantum
exactly while its goroutine is past its submit and before its record, only a live one
has a goroutine, and an abort re-run was counted in the log before it was launched.
`Holder`: a live process holds its session and is its latest. Without it another process
could be created or retried beside it. `JournalLogged`: log and journal differ only for
the latest process, after its goroutine is gone and the runtime closed or the append
failed. These hold whatever the log does and give `OneQuantum`, `AbortBudgetHolds`
and `QuantaAsPromised`. `HistoryFrozen` needs one more that holds whatever the log does,
`Succession`: a process has one creation time, in memory and in the log, from its
creation on, so that who follows whom by birth, date and id never changes; and nobody so
followed is listed last, since a creation appends and a restart sorts by just that date
and id. A process not listed last is refused by `checkRetryLocked`. Two more hold only with a log that takes every
event (`LogMayFail = FALSE`): `Current`, the log has every state while the runtime is
open and a live process its goroutine; `Parked`, a waiting process holds the session, or
an interrupted one before it does after a restart. They give `NobodyStranded`,
`LogIsCurrent` and `OneProcessRuns`, which are stated under that hypothesis because a
failed append really breaks them: it leaves memory ahead of the log, and a process
queued that nothing runs. A restart is the hard case: what it sorts and whom it lets
hold the session exist since the processes in the log are finitely many and their order
is total, and that the holder's choice by status agrees with who held it live is what
`Holder` and `Parked` carry over.

*Tasks.* The invariant says where a quantum stands with the task of its open call
(`StageInv`): one about to create found none, which no other actor can change since only
the running quantum creates; one that yielded has one; what is about to be journaled is
what the record holds, settled, or an expiry. With `ServedInv` (what a guest was given
is its task's settled state, or an expiry) `ServedAsDecided` follows, and one task per
call since revision and position only move together with the call. `SettlesOnce` needs
only the types and the guards of `Resolve` and the sweep, both of which test for a
pending task under the store's lock. An expiry may be served while the record is settled
otherwise, which `ServedAsDecided` allows and the list above names.

*Grants.* The table is never trusted on its own: what it routes after the reconciliation
is granted (`ChainInv`), what is granted is not the runtime's but for the timer
(`GrantedInv`), and every entry comes from a family (`TableInv`). A call is invalid only
if every entry of its syscall has a schema and the number of their texts that accept the
call is not one (`RefusedByMenu`); if its own operation's is among them there is another
text that accepts it too, which is the exception `ValidCallPasses` names (`ValidReaches`).
The layers are built in order and each keeps its
names reserved, so that none of the runtime's syscalls is answered by a handler. The
timer's bound is a fact about `Wrapped`: for any width of the integer a product of
milliseconds that overflows is negative, and then the default applies, or smaller: the
maximum never comes out larger than the manifest wrote.

*Pool.* `OnOneWorker` is inductive with the types. The refinement needs that a goroutine
which has not submitted yet has no cancelled context, so that it submits with a fresh
one; `ReleasedAfterUse` needs that all submissions are gone from the moment `Close` has
drained, since nothing is launched after it marked the runtime closed. Each action maps
to one step of `Quanta` or to none: `RunOne` is `Starts` or `Drops`, and both ways to
cancel are `Cancels`.

*Sessions.* Unique names need two facts more: the log agrees with memory while there is
one (the check for a free name reads memory, the next boot reads the log), and a
recorded name has no space around it, so that names that read the same are equal. One
program for life needs that the digest travels unchanged through memory and log and
determines wasm and schemas, and that a process in memory is one the log has, or a new
process could take its place.

*Monitor.* The taint covers what the guest was given because every recorded result
carries at least the labels of what it is made of. That a crossing was approved needs
two facts more. The guest of a running quantum holds what the journal has up to its
cursor, so a prompt made at the tail names all of it (`GivenInv`). And the tasks of this
process and revision lie at or before the journal's tail, and one at the tail belongs to
the call still open there and was shown every label of that journal the call forbids
(`TasksInv`). A fork takes a new revision and a process a new number, so no older
approval matches.

Proved: the types of `Replay`, `ProcessJournal`, `Runtime` and `Tasks` as theorems of
their own (the other invariants contain what they need of theirs), and every safety
property of the passing runs, that is every invariant (`JournalVerifies` and
`StreamHasSession` besides), every action property and the four refinements.
`NobodyStranded`, `LogIsCurrent` and `OneProcessRuns` are proved for a log that takes
every event, as their run checks them. Out of the prover's reach and left to TLC: the
liveness properties `RunsSettle`, `DeadlinesSettle`, `SettledWakes`, `ResultArrives` and
`CloseReturns`, which rest on fairness; and the two runs that end in a violation, which
are counterexamples.

## Not modelled

Payloads: prompts, task tokens, descriptions, skills, driver configuration, session tags, the
check of an input or an answer against a program's schemas, and all encoding. These only
refuse a request or travel with it, so they are left out of the guards. The labels
`syscall:<name>` the monitor derives for every result are left out: nothing forbids
them by rule other than any label. `sys.now`, `sys.random` and `sys.log` keep
no state; that their results replay is the property of `Replay`. `api.go`, the reads
of `snapshots.go` and `aurora/` are projections and aliases that change nothing. Wasm
compilation and the processor `capcompute` are outside this repository.

## Plan

Done: the modules and runs above, and the proofs of all their safety properties. Next:

1. Findings of their own for the restart that lists an earlier process last and for the
   process that stays parked on a settled task, which the list above describes.
2. What `HolderCanProgress` needs to hold: the restarts after which a session is not wedged,
   as a theorem about the sessions whose order a restart kept and in which nobody was
   interrupted.
3. What a failed append leaves true of `NobodyStranded` and `OneProcessRuns`, beyond what
   `Common` says, stated of sessions whose last append succeeded.
4. The safety part of the liveness arguments: that a live process always has an enabled
   step of its own (`RunsSettle`) and that each pass of the sweep leaves no task overdue at
   the time it read (`DeadlinesSettle`).
