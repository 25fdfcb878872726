------------------------------- MODULE Replay -------------------------------
(***************************************************************************)
(* The replay layer of one process: the journal-backed tape                *)
(* (journaled/tape.go) and the dispatcher that runs every guest call       *)
(* through it (replay/replay.go), over the quanta, crashes and forks the   *)
(* runtime puts the process through.                                       *)
(*                                                                         *)
(* Dispatch is split where the process can die or a callee can fail: after *)
(* Next, after the intent is durable, after the effect happened, after the *)
(* completion is durable.  The guest, the drivers below the layer and the  *)
(* event log are external: the guest issues any call at any time, even     *)
(* after a yield or an error, a driver returns any outcome every time it   *)
(* runs, and an append succeeds or fails without writing.                  *)
(***************************************************************************)
EXTENDS Naturals, Sequences

CONSTANTS
    Syscalls,   \* what a guest may ask for: name and arguments
    Results,    \* what a driver may answer
    NoCall,     \* no dispatch in flight
    NoResult,   \* no outcome to commit
    MaxCalls    \* bound on the calls a guest makes in one quantum

ASSUME CallsAssumption == NoCall \notin Syscalls
ASSUME ResultsAssumption == NoResult \notin Results
ASSUME MaxCallsAssumption == MaxCalls \in Nat

VARIABLES
    journal,    \* the records of the current revision; position p is journal[p + 1]
    cursor,     \* Tape.cursor
    pending,    \* Tape.pending: an intent is open and owned by this dispatch
    pc,         \* where the quantum stands in Dispatch
    call,       \* the syscall in flight
    result,     \* the outcome the driver returned, not yet committed
    observed,   \* the results this quantum's guest was given, in call order
    seen        \* the longest such sequence any quantum of this line of revisions
                \* was given (a history variable)

tape  == <<cursor, pending>>
vars  == <<journal, cursor, pending, pc, call, result, observed, seen>>

-----------------------------------------------------------------------------
(* Records: an envelope kind and a payload, the syscall of an intent or the
   result of a completion.  The position is the index. *)

Intent(s)     == [kind |-> "intent",     payload |-> s]
Completion(r) == [kind |-> "completion", payload |-> r]

Intents     == [kind : {"intent"},     payload : Syscalls]
Completions == [kind : {"completion"}, payload : Results]

(* Verify's walk: intents and completions alternate, so that at most the last
   record is an open intent. *)
Verify(j) == \A i \in 1 .. Len(j) :
                j[i].kind = IF i % 2 = 1 THEN "intent" ELSE "completion"

-----------------------------------------------------------------------------
Init == /\ journal = << >>
        /\ cursor = 0
        /\ pending = FALSE
        /\ pc = "down"
        /\ call = NoCall
        /\ result = NoResult
        /\ observed = << >>
        /\ seen = << >>

(* A quantum starts: the chain is built over a verified journal, with a fresh
   tape at its beginning.  A journal that does not verify fails the quantum. *)
StartQuantum == /\ pc = "down"
                /\ Verify(journal)
                /\ cursor' = 0
                /\ pending' = FALSE
                /\ observed' = << >>
                /\ pc' = "guest"
                /\ UNCHANGED <<journal, call, result, seen>>

(* The guest has control and may make a call.  A yield or an error hands it
   back too: what a guest does then is its own choice. *)
GuestMayCall == /\ pc \in {"guest", "yielded", "failed"}
                /\ Len(observed) < MaxCalls

(* Mutant of NextOutcome: replay serves whatever is recorded. *)
NextOutcomeUnchecked(s) ==
    CASE cursor >= Len(journal)    -> "new"
      [] cursor + 1 = Len(journal) -> "open"
      [] OTHER                     -> "recorded"

(* What Tape.Next finds at the cursor. *)
NextOutcome(s) ==
    CASE cursor >= Len(journal)             -> "new"
      [] cursor < Len(journal) /\ journal[cursor + 1].payload # s
                                            -> "diverged"
      [] cursor + 1 = Len(journal) /\ journal[cursor + 1].payload = s
                                            -> "open"
      [] OTHER                              -> "recorded"

(* The guest is given a result: it joins what this quantum observed. *)
Observe(r) ==
    /\ observed' = Append(observed, r)
    /\ seen' = IF Len(observed) >= Len(seen) THEN Append(observed, r) ELSE seen

(* The completion after the intent at the cursor. *)
RecordedResult == journal[cursor + 2].payload

(* A recorded call is served from the journal, and nothing runs. *)
Serve(s) == /\ GuestMayCall
            /\ NextOutcome(s) = "recorded"
            /\ cursor' = cursor + 2
            /\ Observe(RecordedResult)
            /\ pc' = "guest"
            /\ UNCHANGED <<journal, pending, call, result>>

(* The guest asked for something other than what is recorded: the call fails
   and the tape does not move. *)
Diverge(s) == /\ GuestMayCall
              /\ NextOutcome(s) = "diverged"
              /\ pc' = "failed"
              /\ UNCHANGED <<journal, tape, call, result, observed, seen>>

(* The journal ends in this call's intent: it is driven again. *)
DriveAgain(s) == /\ GuestMayCall
                 /\ NextOutcome(s) = "open"
                 /\ cursor' = cursor + 1
                 /\ pending' = TRUE
                 /\ call' = s
                 /\ pc' = "execute"
                 /\ UNCHANGED <<journal, result, observed, seen>>

(* The call is new: it goes to Begin. *)
Fresh(s) == /\ GuestMayCall
            /\ NextOutcome(s) = "new"
            /\ call' = s
            /\ pc' = "begin"
            /\ UNCHANGED <<journal, tape, result, observed, seen>>

(* Mutant of BeginAllowed: Begin forgets the open intent. *)
BeginAlways == TRUE

(* Begin refuses while an intent is open. *)
BeginAllowed == ~pending

(* Tape.Begin: the intent is durable before the call executes. *)
Begin == /\ pc = "begin"
         /\ BeginAllowed
         /\ journal' = Append(journal, Intent(call))
         /\ cursor' = cursor + 1
         /\ pending' = TRUE
         /\ pc' = "execute"
         /\ UNCHANGED <<call, result, observed, seen>>

(* Begin refuses, or its append fails: the call fails and nothing is written. *)
BeginFails == /\ pc = "begin"
              /\ pc' = "failed"
              /\ call' = NoCall
              /\ UNCHANGED <<journal, tape, result, observed, seen>>

(* The chain below runs the call and answers. *)
Execute(r) == /\ pc = "execute"
              /\ result' = r
              /\ pc' = "commit"
              /\ UNCHANGED <<journal, tape, call, observed, seen>>

(* The chain below yields: the intent stays open and the guest is told. *)
ExecuteYields == /\ pc = "execute"
                 /\ call' = NoCall
                 /\ pc' = "yielded"
                 /\ UNCHANGED <<journal, tape, result, observed, seen>>

(* The chain below returns an error.  Whether the effect happened is unknown:
   the intent stays open. *)
ExecuteFails == /\ pc = "execute"
                /\ call' = NoCall
                /\ pc' = "failed"
                /\ UNCHANGED <<journal, tape, result, observed, seen>>

(* Tape.Commit: the completion is durable, then the guest is given the result. *)
Commit == /\ pc = "commit"
          /\ journal' = Append(journal, Completion(result))
          /\ cursor' = cursor + 1
          /\ pending' = FALSE
          /\ Observe(result)
          /\ call' = NoCall
          /\ result' = NoResult
          /\ pc' = "guest"

(* Mutant of CommitFails: the guest is given the result all the same. *)
CommitFailsObserved == /\ pc = "commit"
                       /\ Observe(result)
                       /\ call' = NoCall
                       /\ result' = NoResult
                       /\ pc' = "failed"
                       /\ UNCHANGED <<journal, tape>>

(* The completion's append fails: the outcome is lost, the intent stays open,
   and the guest is given the error. *)
CommitFails == /\ pc = "commit"
               /\ call' = NoCall
               /\ result' = NoResult
               /\ pc' = "failed"
               /\ UNCHANGED <<journal, tape, observed, seen>>

(* The tape, the dispatch in flight and the guest go away; the journal stays. *)
DropQuantum == /\ cursor' = 0
               /\ pending' = FALSE
               /\ pc' = "down"
               /\ call' = NoCall
               /\ result' = NoResult
               /\ observed' = << >>
               /\ UNCHANGED <<journal, seen>>

(* The quantum ends between two calls: completed, yielded, stopped or failed. *)
EndQuantum == /\ pc \in {"guest", "yielded", "failed"}
              /\ DropQuantum

(* The host dies anywhere inside a dispatch. *)
Crash == /\ pc \in {"begin", "execute", "commit"}
         /\ DropQuantum

(* The offsets a fork may start from: outermostOpenBegin's, one past a
   completion, or 0 for a restart (Sections.tla). *)
ForkOffsets == {k \in 0 .. Len(journal) : k % 2 = 0}

(* A new revision: the journal keeps what is before the fork offset. *)
Fork(k) == /\ pc = "down"
           /\ journal' = SubSeq(journal, 1, k)
           /\ seen' = IF 2 * Len(seen) > k THEN SubSeq(seen, 1, k \div 2) ELSE seen
           /\ UNCHANGED <<tape, pc, call, result, observed>>

Next == \/ StartQuantum
        \/ \E s \in Syscalls : Serve(s) \/ Diverge(s) \/ DriveAgain(s) \/ Fresh(s)
        \/ Begin \/ BeginFails
        \/ \E r \in Results : Execute(r)
        \/ ExecuteYields \/ ExecuteFails
        \/ Commit \/ CommitFails
        \/ EndQuantum \/ Crash
        \/ \E k \in ForkOffsets : Fork(k)

Spec == Init /\ [][Next]_vars

-----------------------------------------------------------------------------
(* Properties *)

(* Type invariant of the tape, the dispatch in flight and the guest's view. *)
TypeOK == /\ journal \in Seq(Intents \cup Completions)
          /\ cursor \in Nat
          /\ pending \in BOOLEAN
          /\ pc \in {"down", "guest", "begin", "execute", "commit", "yielded", "failed"}
          /\ call \in Syscalls \cup {NoCall}
          /\ result \in Results \cup {NoResult}
          /\ observed \in Seq(Results)
          /\ seen \in Seq(Results)

(* The journal's integrity check never refuses a journal the tape itself wrote:
   whatever the guest called and wherever the host died, intents and completions
   alternate and only the tail may be open (tape.go Verify, chain.go). *)
JournalVerifies == Verify(journal)

(* Journal-before-execute: a call runs only while the journal ends in its own
   open intent, so an effect repeats only when its outcome was never journaled,
   and the task layer may take Length() - 1 for the call's position. *)
JournalBeforeExecute ==
    pc \in {"execute", "commit"} =>
        /\ Len(journal) % 2 = 1
        /\ journal[Len(journal)] = Intent(call)
        /\ cursor = Len(journal)

(* Journal-before-observe: every result the guest holds is the journal's
   completion of that call, so no crash can take back what the guest saw. *)
JournalBeforeObserve ==
    \A i \in 1 .. Len(observed) :
        /\ 2 * i <= Len(journal)
        /\ journal[2 * i] = Completion(observed[i])

(* A guest that runs again sees the results it saw the first time: two quanta of
   one line of revisions agree on every call both were answered. *)
ReplayAgrees ==
    \A i \in 1 .. Len(observed) : i <= Len(seen) => observed[i] = seen[i]

(* The tape drives the journal by the two-record protocol and only a fork cuts
   it (replay.Tape, journaled.Journal). *)
Protocol == INSTANCE JournalProtocol
JournalProtocolHolds == Protocol!Spec
=============================================================================
