-------------------------------- MODULE Pool --------------------------------
(***************************************************************************)
(* The worker pool (pool.go) between the execute goroutines that submit to *)
(* it and the Close that drains and releases it (runtime.go).              *)
(*                                                                         *)
(* A submission is offered by a goroutine of its own, in a select between  *)
(* the unbuffered queue and the submission's context; a worker selects     *)
(* between the queue and the pool's root.  Either select may take either   *)
(* branch when both are ready, so a worker can receive a submission whose  *)
(* context is done and one can be received after shutdown began.  The      *)
(* result channel is buffered, so a send never waits.                      *)
(***************************************************************************)
CONSTANTS
    Submissions,    \* execute goroutines; a name is used again once its result is taken
    Workers,
    None

ASSUME PoolAssumption == /\ None \notin Submissions /\ "gone" \notin Submissions
                         /\ None # "gone" /\ Workers # {}

VARIABLES
    sub,            \* where each submission stands
    worker,         \* the submission a worker holds, None, or "gone"
    cancelled,      \* the submission's own cancel was called
    root,           \* the pool's root context is done
    closing         \* how far Runtime.Close got

vars == <<sub, worker, cancelled, root, closing>>

Stages == {"none", "launched", "offered", "held", "running", "ended"}

(* A submission's context is done: its cancel was called, or the root's. *)
ContextDone(s) == cancelled[s] \/ root

Waiting(s) == sub[s] \in {"offered", "held"}

Init == /\ sub = [s \in Submissions |-> "none"]
        /\ worker = [w \in Workers |-> None]
        /\ cancelled = [s \in Submissions |-> FALSE]
        /\ root = FALSE
        /\ closing = "open"

-----------------------------------------------------------------------------
(* The execute goroutine *)

(* Mutant of Launch: a closed runtime still launches. *)
LaunchLate(s) == /\ sub[s] = "none"
                 /\ sub' = [sub EXCEPT ![s] = "launched"]
                 /\ UNCHANGED <<worker, cancelled, root, closing>>

(* launchLocked counts the goroutine in wg; CreateProcess and relaunchLocked
   refuse once the runtime is closed. *)
Launch(s) == /\ sub[s] = "none"
             /\ closing = "open"
             /\ sub' = [sub EXCEPT ![s] = "launched"]
             /\ UNCHANGED <<worker, cancelled, root, closing>>

(* submit: refused when the root is done, and the goroutine returns; else the
   submission has a context and is offered. *)
Submit(s) == /\ sub[s] = "launched"
             /\ sub' = [sub EXCEPT ![s] = IF root THEN "none" ELSE "offered"]
             /\ UNCHANGED <<worker, cancelled, root, closing>>

(* A Stop or Close calls the submission's cancel. *)
Cancel(s) == /\ sub[s] \in {"offered", "held", "running", "ended"}
             /\ cancelled' = [cancelled EXCEPT ![s] = TRUE]
             /\ UNCHANGED <<sub, worker, root, closing>>

(* Mutant of Offered: the goroutine only sends. *)
OfferedOnlySends(s) == FALSE

(* submit's goroutine gives up when the context is done first. *)
Offered(s) == ContextDone(s)

Drop(s) == /\ sub[s] = "offered"
           /\ Offered(s)
           /\ sub' = [sub EXCEPT ![s] = "ended"]
           /\ UNCHANGED <<worker, cancelled, root, closing>>

(* The execute goroutine receives the result, records the outcome and returns. *)
Take(s) == /\ sub[s] = "ended"
           /\ sub' = [sub EXCEPT ![s] = "none"]
           /\ cancelled' = [cancelled EXCEPT ![s] = FALSE]
           /\ UNCHANGED <<worker, root, closing>>

-----------------------------------------------------------------------------
(* A worker *)

(* work receives a submission from the queue, *)
Receive(w, s) == /\ worker[w] = None
                 /\ sub[s] = "offered"
                 /\ worker' = [worker EXCEPT ![w] = s]
                 /\ sub' = [sub EXCEPT ![s] = "held"]
                 /\ UNCHANGED <<cancelled, root, closing>>

(* Mutants of RunOne: the context is not checked; the worker does not wait for
   the run. *)
RunOneUnchecked(w) ==
    /\ worker[w] \in Submissions /\ sub[worker[w]] = "held"
    /\ sub' = [sub EXCEPT ![worker[w]] = "running"]
    /\ UNCHANGED <<worker, cancelled, root, closing>>

RunOneAside(w) ==
    /\ worker[w] \in Submissions /\ sub[worker[w]] = "held"
    /\ sub' = [sub EXCEPT ![worker[w]] = IF ContextDone(worker[w]) THEN "ended" ELSE "running"]
    /\ worker' = [worker EXCEPT ![w] = None]
    /\ UNCHANGED <<cancelled, root, closing>>

(* runOne drops it if it was cancelled while it waited, and runs it otherwise. *)
RunOne(w) ==
    /\ worker[w] \in Submissions /\ sub[worker[w]] = "held"
    /\ \/ /\ ContextDone(worker[w])
          /\ sub' = [sub EXCEPT ![worker[w]] = "ended"]
          /\ worker' = [worker EXCEPT ![w] = None]
       \/ /\ ~ContextDone(worker[w])
          /\ sub' = [sub EXCEPT ![worker[w]] = "running"]
          /\ UNCHANGED worker
    /\ UNCHANGED <<cancelled, root, closing>>

(* The run returns: the guest's end, its cancellation or its deadline. *)
RunEnds(w) == /\ worker[w] \in Submissions /\ sub[worker[w]] = "running"
              /\ sub' = [sub EXCEPT ![worker[w]] = "ended"]
              /\ worker' = [worker EXCEPT ![w] = None]
              /\ UNCHANGED <<cancelled, root, closing>>

(* Mutant of WorkerExits: a worker waits for the queue only. *)
WorkerStays(w) == FALSE /\ UNCHANGED vars

(* A worker leaves once the root is done. *)
WorkerExits(w) == /\ worker[w] = None
                  /\ root
                  /\ worker' = [worker EXCEPT ![w] = "gone"]
                  /\ UNCHANGED <<sub, cancelled, root, closing>>

-----------------------------------------------------------------------------
(* Runtime.Close *)

(* It marks the runtime closed, *)
CloseMarks == /\ closing = "open"
              /\ closing' = "marked"
              /\ UNCHANGED <<sub, worker, cancelled, root>>

(* stops what runs and cancels the base context, the root's parent, *)
CloseCancels == /\ closing = "marked"
                /\ closing' = "draining"
                /\ root' = TRUE
                /\ UNCHANGED <<sub, worker, cancelled>>

(* waits for the execute goroutines and enters pool.close, which cancels the
   root again, *)
CloseDrained == /\ closing = "draining"
                /\ \A s \in Submissions : sub[s] = "none"
                /\ closing' = "drained"
                /\ root' = TRUE
                /\ UNCHANGED <<sub, worker, cancelled>>

(* though not longer than its caller does: then it releases nothing. *)
CloseTimesOut == /\ closing = "draining"
                 /\ closing' = "timed out"
                 /\ UNCHANGED <<sub, worker, cancelled, root>>

WorkersGone == \A w \in Workers : worker[w] = "gone"

(* pool.close has waited for the workers, and the programs are closed. *)
CloseReleases == /\ closing = "drained"
                 /\ WorkersGone
                 /\ closing' = "released"
                 /\ UNCHANGED <<sub, worker, cancelled, root>>

-----------------------------------------------------------------------------
Submitter(s) == Submit(s) \/ Drop(s) \/ Take(s)

Work(w) == \/ \E s \in Submissions : Receive(w, s)
           \/ RunOne(w) \/ RunEnds(w) \/ WorkerExits(w)

Close == CloseMarks \/ CloseCancels \/ CloseDrained \/ CloseTimesOut \/ CloseReleases

Next == \/ \E s \in Submissions : Launch(s) \/ Cancel(s) \/ Submitter(s)
        \/ \E w \in Workers : Work(w)
        \/ Close

Spec == Init /\ [][Next]_vars

(* Goroutines are scheduled, a run ends by its deadline, and a sender blocked on
   the queue is served in turn: Go's channels are first in, first out. *)
Fairness == /\ \A s \in Submissions :
                  /\ WF_vars(Submitter(s))
                  /\ SF_vars(\E w \in Workers : Receive(w, s))
            /\ \A w \in Workers : WF_vars(RunOne(w) \/ RunEnds(w) \/ WorkerExits(w))
            /\ WF_vars(CloseCancels) /\ WF_vars(CloseDrained) /\ WF_vars(CloseReleases)

FairSpec == Spec /\ Fairness

-----------------------------------------------------------------------------
(* Properties *)

(* Type invariant of the submissions, the workers and the shutdown. *)
TypeOK == /\ sub \in [Submissions -> Stages]
          /\ worker \in [Workers -> Submissions \cup {None, "gone"}]
          /\ cancelled \in [Submissions -> BOOLEAN]
          /\ root \in BOOLEAN
          /\ closing \in {"open", "marked", "draining", "drained", "timed out", "released"}

(* The worker count bounds what runs at once, with nothing counted (pool.go): a
   submission received and not yet answered is on exactly one worker, and a
   worker has no other, however selects and cancellations interleave. *)
OnOneWorker ==
    /\ \A s \in Submissions :
          sub[s] \in {"held", "running"} => \E w \in Workers : worker[w] = s
    /\ \A w \in Workers : worker[w] \in Submissions => sub[worker[w]] \in {"held", "running"}
    /\ \A v, w \in Workers : (v # w /\ worker[v] \in Submissions) => worker[v] # worker[w]

(* Close releases the workers and the programs only when no quantum is left to
   use them and no execute goroutine will submit one (runtime.go Close). *)
ReleasedAfterUse ==
    closing = "released" => /\ \A s \in Submissions : sub[s] = "none"
                            /\ \A w \in Workers : worker[w] = "gone"

(* Every accepted submission gets its result, also when every worker has left:
   no execute goroutine waits forever (pool.go submit). *)
ResultArrives == \A s \in Submissions : Waiting(s) ~> sub[s] = "ended"

(* A shutdown that is not cut short ends. *)
CloseReturns == closing = "draining" ~> closing \in {"released", "timed out"}

(* The pool keeps its promise: each submission lives as Quanta allows.  One that
   was cancelled while it waited, by its caller or by shutdown, never runs, also
   when a worker's select had already taken it (pool.go runOne). *)
Life == [s \in Submissions |-> CASE sub[s] \in {"none", "launched"} -> "none"
                                 [] sub[s] \in {"offered", "held"}  -> "queued"
                                 [] sub[s] = "running"              -> "live"
                                 [] OTHER                           -> "ended"]

Promise == INSTANCE Quanta WITH life <- Life, done <- [s \in Submissions |-> ContextDone(s)]

PoolKeepsPromise == Promise!QuantaSpec
=============================================================================
