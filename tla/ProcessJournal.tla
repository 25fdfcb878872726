--------------------------- MODULE ProcessJournal ---------------------------
(***************************************************************************)
(* The journal of one process as the runtime stores it                     *)
(* (internal/agent/journal.go): every record of every revision in one      *)
(* history, a logJournal as the current revision's view of it, and the     *)
(* session's event stream as the only copy that survives a restart         *)
(* (restore.go, durable/events.go).                                        *)
(*                                                                         *)
(* The stream interleaves two kinds of event of this process.  Folding     *)
(* reads them apart, so they are kept apart here: stream is the            *)
(* syscall.recorded events in append order, stored the last process.state  *)
(* event (folding is last-writer-wins), of which only the revision and the *)
(* fork offset matter to the journal.                                      *)
(*                                                                         *)
(* The tape (Replay.tla) is the writer: it appends intents at even         *)
(* positions and completions at odd ones.                                  *)
(***************************************************************************)
EXTENDS Naturals, Sequences

CONSTANTS
    Payloads,      \* what a record carries: a syscall or a result
    MaxLength,     \* bound on a journal's length
    MaxRevision    \* bound on the number of revisions

ASSUME MaxLengthAssumption == MaxLength \in Nat
ASSUME MaxRevisionAssumption == MaxRevision \in Nat

VARIABLES
    revision, forkOffset,   \* processState: the current revision, where it forked
    length,                 \* logJournal.length
    history,                \* processHistory: the records in the order they were added
    launched,               \* a quantum was launched and may append
    stream,                 \* durable: the syscall.recorded events
    stored                  \* durable: the last process.state event

memory  == <<revision, forkOffset, length, history, launched>>
durable == <<stream, stored>>
vars    == <<revision, forkOffset, length, history, launched, stream, stored>>

-----------------------------------------------------------------------------
Kinds  == {"intent", "completion"}
Record == [position : Nat, revision : Nat, kind : Kinds, payload : Payloads]
Stored == [revision : Nat, forkOffset : Nat]

(* The kind the tape writes at a position. *)
KindAt(position) == IF position % 2 = 0 THEN "intent" ELSE "completion"

(* byPos groups the history by position; a group keeps the order of add.  The
   records a view of revision maxRev may show at a position are the group's
   members not above it. *)
Written(h, position, maxRev) ==
    {i \in 1 .. Len(h) : h[i].position = position /\ h[i].revision <= maxRev}

(* getAt: the record with the highest revision; among equals, the first added. *)
Best(h, position, maxRev, i) ==
    /\ i \in Written(h, position, maxRev)
    /\ \A j \in Written(h, position, maxRev) :
          h[j].revision < h[i].revision \/ (h[j].revision = h[i].revision /\ i <= j)

getAt(h, position, maxRev) ==
    h[CHOOSE i \in 1 .. Len(h) : Best(h, position, maxRev, i)]

(* Mutants of Ends: one too far, and without the fork offset. *)
EndsOffByOne(h, rev, offset) ==
    {offset} \cup {h[i].position + 2 : i \in {m \in 1 .. Len(h) : h[m].revision = rev}}

EndsUnplaced(h, rev, offset) ==
    {0} \cup {h[i].position + 1 : i \in {m \in 1 .. Len(h) : h[m].revision = rev}}

(* processHistory.length: one past the last record the revision wrote, or its
   fork offset when it wrote nothing. *)
Ends(h, rev, offset) ==
    {offset} \cup {h[i].position + 1 : i \in {m \in 1 .. Len(h) : h[m].revision = rev}}

lengthOf(h, rev, offset) ==
    CHOOSE n \in Ends(h, rev, offset) : \A m \in Ends(h, rev, offset) : m <= n

(* entries: every intent of every revision with its completion, the record its
   own revision wrote one position later; {} while the call is in flight. *)
entries(h) ==
    {[position |-> h[i].position, revision |-> h[i].revision, syscall |-> h[i].payload,
      outcome  |-> {h[j].payload : j \in {m \in 1 .. Len(h) :
                        h[m].position = h[i].position + 1 /\ h[m].revision = h[i].revision}}]
       : i \in {m \in 1 .. Len(h) : h[m].kind = "intent"}}

-----------------------------------------------------------------------------
(* CreateProcess: revision 1, an empty journal, its state recorded, launched. *)
Init == /\ revision = 1
        /\ forkOffset = 0
        /\ length = 0
        /\ history = << >>
        /\ launched = TRUE
        /\ stream = << >>
        /\ stored = [revision |-> 1, forkOffset |-> 0]

(* Mutant of Stamped: the revision before the current one. *)
StampedPrevious(x) == [position |-> length, revision |-> revision - 1,
                       kind |-> KindAt(length), payload |-> x]

(* The record logJournal.Append stores: stamped with the revision that wrote it. *)
Stamped(x) == [position |-> length, revision |-> revision,
               kind |-> KindAt(length), payload |-> x]

(* logJournal.Append by the running quantum: durable first, then in the history,
   then admitted by the length.  A failed append changes nothing. *)
AppendRecord(x) == /\ launched
                   /\ length < MaxLength
                   /\ stream' = Append(stream, Stamped(x))
                   /\ history' = Append(history, Stamped(x))
                   /\ length' = length + 1
                   /\ UNCHANGED <<revision, forkOffset, launched, stored>>

(* A quantum ends.  The state finishLocked records keeps revision and offset. *)
EndQuantum == /\ launched
              /\ launched' = FALSE
              /\ UNCHANGED <<revision, forkOffset, length, history, durable>>

(* What a process.state event would record now. *)
CurrentState == [revision |-> revision, forkOffset |-> forkOffset]

(* A fork the log refused to record leaves the process queued with no quantum,
   or the runtime is closed: nothing runs it before a restart. *)
ForkRecorded == stored = CurrentState

(* relaunchLocked without a fork: a resume, a wake, a re-drive. *)
Relaunch == /\ ~launched
            /\ ForkRecorded
            /\ launched' = TRUE
            /\ UNCHANGED <<revision, forkOffset, length, history, durable>>

(* Mutant of ForkOffsets: a fork may part an intent from its completion. *)
ForkAnywhere == 0 .. length

(* Where a fork may start: 0, or one past a completion (outermostOpenBegin). *)
ForkOffsets == {k \in 0 .. length : k % 2 = 0}

(* forkJournalLocked: the history is shared, the new revision is k long. *)
ForkJournal(k) == /\ revision < MaxRevision
                  /\ revision' = revision + 1
                  /\ forkOffset' = k
                  /\ length' = k
                  /\ UNCHANGED <<history, stream>>

(* Mutant of ForkAndLaunch: the old fork offset is recorded. *)
ForkUnplaced(k) == /\ ~launched
                   /\ ForkRecorded
                   /\ ForkJournal(k)
                   /\ stored' = [revision |-> revision + 1, forkOffset |-> forkOffset]
                   /\ launched' = TRUE

(* Retry or an abort forks, records the new revision and launches it. *)
ForkAndLaunch(k) == /\ ~launched
                    /\ ForkRecorded
                    /\ ForkJournal(k)
                    /\ stored' = [revision |-> revision + 1, forkOffset |-> k]
                    /\ launched' = TRUE

(* The same, but the runtime is closed or the state's append fails: the fork is
   in memory only and nothing is launched. *)
ForkOnly(k) == /\ ~launched
               /\ ForkJournal(k)
               /\ UNCHANGED <<stored, launched>>

(* A later state change records the forked state: a Stop of the process. *)
RecordState == /\ ~launched
               /\ ~ForkRecorded
               /\ stored' = CurrentState
               /\ UNCHANGED <<memory, stream>>

(* The host dies and restores: the history is folded from the stream, and the
   journal reopened at the revision and offset last recorded. *)
Restart == /\ launched' = FALSE
           /\ history' = stream
           /\ revision' = stored.revision
           /\ forkOffset' = stored.forkOffset
           /\ length' = lengthOf(stream, stored.revision, stored.forkOffset)
           /\ UNCHANGED durable

Next == \/ \E x \in Payloads : AppendRecord(x)
        \/ EndQuantum
        \/ Relaunch
        \/ \E k \in ForkOffsets : ForkAndLaunch(k) \/ ForkOnly(k)
        \/ RecordState
        \/ Restart

Spec == Init /\ [][Next]_vars

-----------------------------------------------------------------------------
(* Properties *)

(* Type invariant of the journal in memory and of the event stream. *)
TypeOK == /\ revision \in Nat
          /\ forkOffset \in Nat
          /\ length \in Nat
          /\ history \in Seq(Record)
          /\ launched \in BOOLEAN
          /\ stream \in Seq(Record)
          /\ stored \in Stored

(* The record Load(p) returns. *)
Load(p) == getAt(history, p, revision)

(* "A Load below Length always finds it" (journal.go): after any sequence of
   forks, failed appends and restarts every position below the length holds a
   record of the kind Verify expects there. *)
LoadFindsRecord ==
    \A p \in 0 .. length - 1 :
        /\ Written(history, p, revision) # {}
        /\ Load(p).position = p
        /\ Load(p).kind = KindAt(p)

(* What a restart would rebuild from the stream. *)
DurableLength == lengthOf(stream, stored.revision, stored.forkOffset)
DurableRecord(p) == getAt(stream, p, stored.revision)

(* A running quantum reads exactly what a crash at this moment would restore: no
   record is lost, none of an abandoned revision comes back (restore.go: the
   persisted fork offset places a revision that forked and wrote nothing). *)
RunningViewIsDurable ==
    launched => /\ length = DurableLength
                /\ \A p \in 0 .. length - 1 : Load(p) = DurableRecord(p)

(* A call's intent and completion are one revision's: no fork parts them, so
   entries, which pairs records by revision, shows every completed call of the
   current view with the outcome the guest was given (journal.go entries). *)
EntriesShowView ==
    \A p \in 0 .. length - 1 :
        (p % 2 = 0 /\ p + 1 < length) =>
            [position |-> p, revision |-> Load(p).revision, syscall |-> Load(p).payload,
             outcome |-> {Load(p + 1).payload}] \in entries(history)

(* An abandoned revision is closed: what its view held when it was forked away
   from is never written over (recovery.go: the attempt stays in the log). *)
AbandonedFrozen ==
    [][\A r \in 1 .. stored.revision - 1, p \in 0 .. MaxLength :
          Written(stream, p, r) # {} =>
              getAt(stream', p, r) = getAt(stream, p, r)]_vars

(* What survives is a journal that obeys the abstract protocol: a crash, a
   restart or an unrecorded fork leaves it as it is, an append grows it by one
   record, a recorded fork cuts it back. *)
DurableJournal ==
    [i \in 1 .. DurableLength |->
        [kind |-> DurableRecord(i - 1).kind, payload |-> DurableRecord(i - 1).payload]]

Protocol == INSTANCE JournalProtocol WITH
                journal     <- DurableJournal,
                Intents     <- [kind : {"intent"}, payload : Payloads],
                Completions <- [kind : {"completion"}, payload : Payloads]

StoreKeepsProtocol == Protocol!Spec
=============================================================================
