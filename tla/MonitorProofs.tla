--------------------------- MODULE MonitorProofs ---------------------------
(***************************************************************************)
(* What Monitor promises, for any operations, labels, rules and bounds.    *)
(*                                                                         *)
(* The taint covers what the guest was given because every recorded result *)
(* covers its own (Labelled).  That an approval was asked for every label  *)
(* the guest holds takes more: the guest of a running quantum holds what   *)
(* the journal has up to its cursor, neither more nor less (GivenInv), so  *)
(* that a prompt made at the tail of the journal names all of it, and the  *)
(* tasks of this revision at that tail are of the call still open there    *)
(* (TasksInv).                                                             *)
(***************************************************************************)
EXTENDS Monitor, TLAPS

(* The parts of TypeOK. *)
Call == [call : Calls, labels : SUBSET Labels, truth : SUBSET Labels]

Task == [process : 0 .. MaxProcs, revision : Nat, position : Nat,
         shown : Taints, state : {"pending", "approved", "settled"}]

SessionOK == /\ turns \in SUBSET Results
             /\ born \in 0 .. MaxProcs
             /\ shares \in BOOLEAN
             /\ labels \in SUBSET Labels
             /\ truth \in SUBSET Labels

JournalOK == /\ revision \in Nat
             /\ journal \in Seq(Call)
             /\ open \in Calls \cup {None}
             /\ cursor \in 0 .. Len(journal)

PcOK == /\ status \in {"running", "waiting", "ended", "completed"}
        /\ pc \in {"idle", "guest", "dispatch", "served", "executed", "yielded"}
        /\ pc \in {"dispatch", "served"} => open # None
        /\ pc \in {"executed", "yielded"} => open \in Ops
        /\ pc # "idle" <=> status = "running"

TaintOK == result \in Results /\ taint \in Taints /\ given \in Taints

TasksOK == tasks \in Seq(Task)

(* What the guest is really given by the i-th call of the journal. *)
GivenBy(i) == Observed(journal[i].truth, journal[i].call)

Labelled ==
    /\ \A i \in 1 .. Len(journal) : journal[i].truth \subseteq journal[i].labels
    /\ result.truth \subseteq result.labels

GivenInv ==
    /\ \A i \in 1 .. cursor : GivenBy(i) \subseteq given
    /\ \A pair \in given : \E i \in 1 .. Len(journal) : pair \in GivenBy(i)
    /\ pc \notin {"idle", "guest"} => cursor = Len(journal)
    /\ pc = "idle" => cursor = 0

Ours(t) == tasks[t].process = born /\ tasks[t].revision = revision

TasksInv ==
    \A t \in 1 .. Len(tasks) :
        /\ tasks[t].process <= born
        /\ tasks[t].process = born => tasks[t].revision <= revision
        /\ Ours(t) => tasks[t].position <= Len(journal)
        /\ (Ours(t) /\ tasks[t].position = Len(journal)) =>
              /\ open \in Ops
              /\ \A i \in 1 .. Len(journal) : crossingTaint(open, GivenBy(i)) \subseteq tasks[t].shown

Inv == /\ SessionOK /\ JournalOK /\ PcOK /\ TaintOK /\ TasksOK
       /\ Labelled /\ GivenInv /\ TasksInv
       /\ TaintCoversGiven /\ CrossingApproved /\ HistoryKeepsProvenance

-----------------------------------------------------------------------------
LEMMA TypeParts == TypeOK <=> SessionOK /\ JournalOK /\ PcOK /\ TaintOK /\ TasksOK
BY DEF TypeOK, SessionOK, JournalOK, PcOK, TaintOK, TasksOK, Call, Task

-----------------------------------------------------------------------------
(* Sets of labels. *)

LEMMA TaintsClosed ==
    /\ {} \in Taints
    /\ \A a, b \in Taints : a \cup b \in Taints
    /\ \A ls \in SUBSET Labels, call \in Calls : Observed(ls, call) \in Taints
BY DEF Taints, Observed

LEMMA LabelsTyped == ASSUME NEW pairs \in Taints PROVE LabelsOf(pairs) \in SUBSET Labels
BY DEF LabelsOf, Taints

LEMMA CrossingTyped ==
    ASSUME NEW op, NEW pairs \in Taints PROVE crossingTaint(op, pairs) \in Taints
BY DEF crossingTaint, Taints

LEMMA ObservedMonotone ==
    ASSUME NEW a, NEW b, NEW call, a \subseteq b PROVE Observed(a, call) \subseteq Observed(b, call)
BY DEF Observed

LEMMA LabelsMonotone ==
    ASSUME NEW a, NEW b, a \subseteq b PROVE LabelsOf(a) \subseteq LabelsOf(b)
BY DEF LabelsOf

LEMMA StampedTyped ==
    ASSUME NEW op \in Ops, NEW found \in SUBSET Labels PROVE Stamped(op, found) \in SUBSET Labels
BY OpsAssumption DEF Stamped

LEMMA HistoryTyped ==
    ASSUME SessionOK, HistoryKeepsProvenance
    PROVE  /\ historyLabels \in SUBSET Labels
           /\ HistoryTruth \in SUBSET Labels
           /\ HistoryTruth \subseteq historyLabels
BY DEF SessionOK, HistoryKeepsProvenance, historyLabels, HistoryTruth, Results

LEMMA ObservedNothing == ASSUME NEW call PROVE Observed({}, call) = {}
BY DEF Observed

LEMMA CrossingMonotone ==
    ASSUME NEW op, NEW a, NEW b, a \subseteq b PROVE crossingTaint(op, a) \subseteq crossingTaint(op, b)
BY DEF crossingTaint

LEMMA EntryTyped ==
    ASSUME JournalOK, NEW i \in 1 .. Len(journal) PROVE journal[i] \in Call
BY DEF JournalOK

LEMMA TaskTyped ==
    ASSUME TasksOK, NEW t \in 1 .. Len(tasks) PROVE tasks[t] \in Task
BY DEF TasksOK

LEMMA CallsApart == None \notin Calls /\ Ops \subseteq Calls /\ "sys.input" \in Calls
BY OpsAssumption DEF Calls

-----------------------------------------------------------------------------
LEMMA InitInv == Init => Inv
<1> SUFFICES ASSUME Init PROVE Inv
  OBVIOUS
<1>1. SessionOK
  <2>1. born \in 0 .. MaxProcs /\ turns \in SUBSET Results
    BY BoundsAssumption DEF Init
  <2>2. shares \in BOOLEAN /\ labels \in SUBSET Labels /\ truth \in SUBSET Labels
    BY DEF Init
  <2> QED BY <2>1, <2>2 DEF SessionOK
<1>2. JournalOK
  BY DEF Init, JournalOK
<1>3. PcOK
  BY DEF Init, PcOK
<1>4. TaintOK /\ TasksOK
  BY TaintsClosed DEF Init, TaintOK, TasksOK, Results, NoResult
<1> QED BY <1>1, <1>2, <1>3, <1>4 DEF Init, Inv, Labelled, GivenInv, TasksInv, TaintCoversGiven,
                    CrossingApproved, HistoryKeepsProvenance, NoResult

LEMMA CreateProcessInv == ASSUME Inv, NEW share \in BOOLEAN, CreateProcess(share) PROVE Inv'
<1> USE DEF session, kept, NoResult
<1>1. (JournalOK /\ PcOK /\ TasksOK)'
  BY DEF Inv, CreateProcess, JournalOK, PcOK, TasksOK
<1>2. SessionOK'
  <2>1. [labels |-> labels, truth |-> truth] \in Results
    BY DEF Inv, SessionOK, Results
  <2>2. turns' \in SUBSET Results
    BY <2>1 DEF Inv, CreateProcess, SessionOK
  <2>3. born' \in 0 .. MaxProcs
    BY BoundsAssumption DEF Inv, CreateProcess, SessionOK
  <2> QED BY <2>2, <2>3 DEF CreateProcess, SessionOK
<1>3. TaintOK'
  BY TaintsClosed DEF Inv, CreateProcess, TaintOK, Results
<1>4. (Labelled /\ GivenInv /\ TaintCoversGiven /\ CrossingApproved /\ HistoryKeepsProvenance)'
  BY DEF Inv, CreateProcess, Labelled, JournalOK, PcOK, GivenInv, GivenBy, TaintCoversGiven,
         CrossingApproved, ApprovedFor, CarriesOut, TasksOK, HistoryKeepsProvenance
<1>5. TasksInv'
  <2> SUFFICES ASSUME NEW t \in 1 .. Len(tasks)
               PROVE  tasks[t].process <= born + 1 /\ tasks[t].process # born + 1
    BY DEF CreateProcess, TasksInv, Ours
  <2>1. tasks[t].process \in Nat /\ born \in Nat
    BY TaskTyped, BoundsAssumption DEF Inv, Task, SessionOK
  <2>2. tasks[t].process <= born
    BY DEF Inv, TasksInv
  <2> QED BY <2>1, <2>2
<1> QED BY <1>1, <1>2, <1>3, <1>4, <1>5 DEF Inv

LEMMA ReplaysInv == ASSUME Inv, Replays PROVE Inv'
<1> USE DEF session, kept
<1>1. (SessionOK /\ JournalOK /\ PcOK /\ TasksOK)'
  BY DEF Inv, Replays, SessionOK, JournalOK, PcOK, TasksOK
<1>2. TaintOK'
  <2>1. journal[cursor + 1] \in Call
    BY EntryTyped DEF Inv, Replays, JournalOK
  <2> QED BY <2>1, TaintsClosed DEF Inv, Replays, Tracks, TaintOK, Call
<1>3. (Labelled /\ TasksInv /\ CrossingApproved /\ HistoryKeepsProvenance)'
  BY DEF Inv, Replays, Labelled, JournalOK, PcOK, TasksInv, Ours, GivenBy, SessionOK, TasksOK,
         CrossingApproved, ApprovedFor, CarriesOut, HistoryKeepsProvenance
<1>4. GivenInv'
  <2>1. given' = given \cup GivenBy(cursor + 1) /\ cursor + 1 \in 1 .. Len(journal)
    BY DEF Inv, Replays, Tracks, GivenBy, JournalOK
  <2>2. \A i \in 1 .. cursor' : GivenBy(i)' \subseteq given'
    BY <2>1 DEF Inv, Replays, GivenInv, GivenBy, JournalOK
  <2>3. \A pair \in given' : \E i \in 1 .. Len(journal') : pair \in GivenBy(i)'
    BY <2>1 DEF Inv, Replays, GivenInv, GivenBy
  <2> QED BY <2>2, <2>3 DEF Replays, GivenInv
<1>5. TaintCoversGiven'
  <2>1. journal[cursor + 1].truth \subseteq journal[cursor + 1].labels
    BY DEF Inv, Replays, Labelled, JournalOK
  <2>2. GivenBy(cursor + 1) \subseteq Observed(journal[cursor + 1].labels, journal[cursor + 1].call)
    BY <2>1, ObservedMonotone DEF GivenBy
  <2> QED BY <2>2 DEF Inv, Replays, Tracks, GivenBy, TaintCoversGiven
<1> QED BY <1>1, <1>2, <1>3, <1>4, <1>5 DEF Inv

LEMMA GuestCallsInv == ASSUME Inv, NEW call \in Calls, GuestCalls(call) PROVE Inv'
<1> USE DEF session, kept
<1>1. (SessionOK /\ JournalOK /\ TaintOK /\ TasksOK)'
  BY DEF Inv, GuestCalls, SessionOK, JournalOK, TaintOK, TasksOK
<1>2. PcOK'
  BY CallsApart DEF Inv, GuestCalls, PcOK
<1>3. (Labelled /\ GivenInv /\ TaintCoversGiven /\ CrossingApproved /\ HistoryKeepsProvenance)'
  BY DEF Inv, GuestCalls, Labelled, JournalOK, PcOK, GivenInv, GivenBy, TaintCoversGiven,
         CrossingApproved, ApprovedFor, CarriesOut, TasksOK, HistoryKeepsProvenance
<1>4. TasksInv'
  <2>1. open \in Ops => open' = open
    BY CallsApart DEF GuestCalls
  <2> QED BY <2>1 DEF Inv, GuestCalls, TasksInv, Ours, GivenBy
<1> QED BY <1>1, <1>2, <1>3, <1>4 DEF Inv

LEMMA ServesInputInv == ASSUME Inv, ServesInput PROVE Inv'
<1> USE DEF session, kept
<1>1. (SessionOK /\ JournalOK /\ PcOK /\ TasksOK)'
  BY DEF Inv, ServesInput, SessionOK, JournalOK, PcOK, TasksOK
<1>2. TaintOK'
  BY HistoryTyped DEF Inv, ServesInput, TaintOK, Results
<1>3. (GivenInv /\ TasksInv /\ TaintCoversGiven /\ CrossingApproved /\ HistoryKeepsProvenance)'
  BY DEF Inv, ServesInput, GivenInv, GivenBy, JournalOK, PcOK, TasksInv, Ours, SessionOK, TasksOK,
         TaintCoversGiven, CrossingApproved, ApprovedFor, CarriesOut, HistoryKeepsProvenance
<1>4. Labelled'
  BY HistoryTyped DEF Inv, ServesInput, Labelled
<1> QED BY <1>1, <1>2, <1>3, <1>4 DEF Inv

LEMMA ExecutesInv ==
    ASSUME Inv, NEW op \in Ops, NEW found \in SUBSET HandlerLabels[op], Executes(op, found)
    PROVE  Inv'
<1> USE DEF session, kept
<1>1. (SessionOK /\ JournalOK /\ PcOK /\ TasksOK)'
  BY DEF Inv, Executes, SessionOK, JournalOK, PcOK, TasksOK
<1>2. TaintOK'
  <2>1. found \in SUBSET Labels /\ Carries[op] \in SUBSET Labels
    BY OpsAssumption
  <2> QED BY <2>1, StampedTyped DEF Inv, Executes, TaintOK, Results
<1>3. (GivenInv /\ TasksInv /\ TaintCoversGiven /\ HistoryKeepsProvenance)'
  BY DEF Inv, Executes, GivenInv, GivenBy, JournalOK, PcOK, TasksInv, Ours, SessionOK, TasksOK,
         TaintCoversGiven, HistoryKeepsProvenance
<1>4. Labelled'
  BY DEF Inv, Executes, Stamped, Labelled
<1>5. CrossingApproved'
  <2>1. status = "running" /\ open = op /\ given' = given
    BY DEF Inv, Executes, PcOK
  <2>2. CASE Found = {} /\ ~NeedsApproval(op)
    <3>1. CarriesOut(op) \subseteq crossingTaint(op, taint)
      BY <2>1 DEF Inv, TaintCoversGiven, CarriesOut, crossingTaint
    <3>2. ~RequireApproval[op] /\ CarriesOut(op) = {}
      BY <2>2, <3>1 DEF NeedsApproval
    <3> QED BY <2>1, <3>2 DEF Executes, CrossingApproved, CarriesOut
  <2>3. CASE \E t \in Found : tasks[t].state = "approved"
    <3>1. PICK t \in Found : tasks[t].state = "approved"
      BY <2>3
    <3>2. t \in 1 .. Len(tasks) /\ Ours(t) /\ tasks[t].position = Len(journal)
      BY <3>1 DEF Inv, Found, Ours, TasksOK
    <3>3. \A i \in 1 .. Len(journal) : crossingTaint(op, GivenBy(i)) \subseteq tasks[t].shown
      BY <2>1, <3>2 DEF Inv, TasksInv
    <3>4. CarriesOut(op) \subseteq tasks[t].shown
      <4> SUFFICES ASSUME NEW pair \in given, pair[1] \in Forbids[op]
                   PROVE  pair \in tasks[t].shown
        BY DEF CarriesOut
      <4>1. PICK i \in 1 .. Len(journal) : pair \in GivenBy(i)
        BY DEF Inv, GivenInv
      <4>2. pair \in crossingTaint(op, GivenBy(i))
        BY <4>1 DEF crossingTaint
      <4> QED BY <3>3, <4>2
    <3>5. ApprovedFor(t)'
      BY <2>1, <3>1, <3>2, <3>4 DEF Executes, ApprovedFor, CarriesOut, Ours
    <3>6. t \in DOMAIN tasks'
      BY <3>1 DEF Executes, Found
    <3> QED BY <3>5, <3>6 DEF CrossingApproved
  <2> QED BY <2>2, <2>3 DEF Executes
<1> QED BY <1>1, <1>2, <1>3, <1>4, <1>5 DEF Inv

LEMMA YieldsInv == ASSUME Inv, NEW op \in Ops, Yields(op) PROVE Inv'
<1> USE DEF session, kept
<1>1. (SessionOK /\ JournalOK /\ PcOK)'
  BY DEF Inv, Yields, SessionOK, JournalOK, PcOK
<1>2. TaintOK'
  <2>1. {} \in SUBSET Labels /\ op \in Calls
    BY CallsApart
  <2>2. Observed(Stamped(op, {}), op) \in Taints
    BY <2>1, StampedTyped, TaintsClosed
  <2> QED BY <2>1, <2>2, TaintsClosed DEF Inv, Yields, Tracks, TaintOK
<1>3. TasksOK'
  <2>1. crossingTaint(op, taint) \in Taints
    BY CrossingTyped DEF Inv, TaintOK
  <2>2. Len(journal) \in Nat /\ revision \in Nat /\ born \in 0 .. MaxProcs
    BY DEF Inv, JournalOK, SessionOK
  <2>3. [process |-> born, revision |-> revision, position |-> Len(journal),
         shown |-> crossingTaint(op, taint), state |-> "pending"] \in Task
    BY <2>1, <2>2 DEF Task
  <2> QED BY <2>3 DEF Inv, Yields, TasksOK
<1>4. (Labelled /\ CrossingApproved /\ HistoryKeepsProvenance)'
  BY DEF Inv, Yields, Labelled, JournalOK, PcOK, CrossingApproved, ApprovedFor, CarriesOut, TasksOK,
         HistoryKeepsProvenance
<1>5. GivenInv'
  <2>1. given' = given
    BY ObservedNothing DEF Yields, Tracks
  <2> QED BY <2>1 DEF Inv, Yields, GivenInv, GivenBy, JournalOK, PcOK
<1>6. TasksInv'
  <2>1. \A i \in 1 .. Len(journal) : crossingTaint(op, GivenBy(i)) \subseteq crossingTaint(op, taint)
    <3> SUFFICES ASSUME NEW i \in 1 .. Len(journal) PROVE GivenBy(i) \subseteq taint
      BY CrossingMonotone
    <3>1. cursor = Len(journal) /\ status = "running"
      BY DEF Inv, Yields, GivenInv, PcOK
    <3> QED BY <3>1 DEF Inv, GivenInv, TaintCoversGiven
  <2>2. Len(tasks') = Len(tasks) + 1 /\ \A t \in 1 .. Len(tasks) : tasks'[t] = tasks[t]
    BY DEF Inv, Yields, TasksOK
  <2>3. tasks'[Len(tasks) + 1] =
          [process |-> born, revision |-> revision, position |-> Len(journal),
           shown |-> crossingTaint(op, taint), state |-> "pending"]
    BY DEF Inv, Yields, TasksOK
  <2>4. born \in Nat /\ revision \in Nat /\ Len(journal) \in Nat /\ Len(tasks) \in Nat
    BY BoundsAssumption DEF Inv, SessionOK, JournalOK, TasksOK
  <2>5. /\ open = op /\ open' = open /\ journal' = journal /\ born' = born /\ revision' = revision
    BY DEF Yields
  <2> SUFFICES ASSUME NEW t \in 1 .. Len(tasks')
               PROVE  /\ tasks'[t].process <= born
                      /\ tasks'[t].process = born => tasks'[t].revision <= revision
                      /\ Ours(t)' => tasks'[t].position <= Len(journal)
                      /\ (Ours(t)' /\ tasks'[t].position = Len(journal)) =>
                            /\ open \in Ops
                            /\ \A i \in 1 .. Len(journal) :
                                  crossingTaint(open, GivenBy(i)) \subseteq tasks'[t].shown
    BY <2>5 DEF TasksInv, GivenBy
  <2>6. CASE t = Len(tasks) + 1
    BY <2>1, <2>3, <2>4, <2>5, <2>6
  <2>7. CASE t \in 1 .. Len(tasks)
    BY <2>2, <2>5, <2>7 DEF Inv, TasksInv, Ours
  <2> QED BY <2>2, <2>4, <2>6, <2>7
<1>7. TaintCoversGiven'
  <2>1. given' = given
    BY ObservedNothing DEF Yields, Tracks
  <2> QED BY <2>1 DEF Inv, Yields, Tracks, TaintCoversGiven
<1> QED BY <1>1, <1>2, <1>3, <1>4, <1>5, <1>6, <1>7 DEF Inv

LEMMA YieldsAgainInv == ASSUME Inv, NEW op \in Ops, YieldsAgain(op) PROVE Inv'
<1> USE DEF session, kept
<1>1. (SessionOK /\ JournalOK /\ PcOK /\ TasksOK)'
  BY DEF Inv, YieldsAgain, SessionOK, JournalOK, PcOK, TasksOK
<1>2. TaintOK'
  <2>1. {} \in SUBSET Labels /\ op \in Calls
    BY CallsApart
  <2>2. Observed(Stamped(op, {}), op) \in Taints
    BY <2>1, StampedTyped, TaintsClosed
  <2> QED BY <2>1, <2>2, TaintsClosed DEF Inv, YieldsAgain, Tracks, TaintOK
<1>3. (Labelled /\ TasksInv /\ CrossingApproved /\ HistoryKeepsProvenance)'
  BY DEF Inv, YieldsAgain, Labelled, JournalOK, PcOK, TasksInv, Ours, GivenBy, SessionOK, TasksOK,
         CrossingApproved, ApprovedFor, CarriesOut, HistoryKeepsProvenance
<1>4. GivenInv'
  <2>1. given' = given
    BY ObservedNothing DEF YieldsAgain, Tracks
  <2> QED BY <2>1 DEF Inv, YieldsAgain, GivenInv, GivenBy, JournalOK, PcOK
<1>5. TaintCoversGiven'
  <2>1. given' = given
    BY ObservedNothing DEF YieldsAgain, Tracks
  <2> QED BY <2>1 DEF Inv, YieldsAgain, Tracks, TaintCoversGiven
<1> QED BY <1>1, <1>2, <1>3, <1>4, <1>5 DEF Inv

LEMMA ServesTaskInv == ASSUME Inv, NEW op \in Ops, ServesTask(op) PROVE Inv'
<1> USE DEF session, kept
<1>1. (SessionOK /\ JournalOK /\ PcOK /\ TasksOK)'
  BY DEF Inv, ServesTask, SessionOK, JournalOK, PcOK, TasksOK
<1>2. TaintOK'
  <2>1. Stamped(op, {}) \in SUBSET Labels
    BY StampedTyped
  <2> QED BY <2>1 DEF Inv, ServesTask, TaintOK, Results
<1>3. (Labelled /\ GivenInv /\ TasksInv /\ TaintCoversGiven /\ CrossingApproved /\ HistoryKeepsProvenance)'
  BY DEF Inv, ServesTask, Labelled, JournalOK, PcOK, GivenInv, GivenBy, TasksInv, Ours, SessionOK,
         TasksOK, TaintCoversGiven, CrossingApproved, ApprovedFor, CarriesOut,
         HistoryKeepsProvenance
<1> QED BY <1>1, <1>2, <1>3 DEF Inv

(* What a commit does to the journal. *)
LEMMA CommitsJournal ==
    ASSUME Inv, Commits
    PROVE  /\ open \in Calls
           /\ journal' \in Seq(Call)
           /\ Len(journal') = Len(journal) + 1 /\ Len(journal) \in Nat
           /\ cursor = Len(journal) /\ status = "running"
           /\ \A i \in 1 .. Len(journal) : journal'[i] = journal[i] /\ GivenBy(i)' = GivenBy(i)
           /\ \A i \in Nat : i = Len(journal) + 1 => GivenBy(i)' = Observed(result.truth, open)
           /\ journal'[Len(journal) + 1] = [call |-> open, labels |-> result.labels, truth |-> result.truth]
<1> DEFINE entry == [call |-> open, labels |-> result.labels, truth |-> result.truth]
<1>1. open \in Calls
  BY CallsApart DEF Inv, Commits, PcOK, JournalOK
<1>2. entry \in Call
  BY <1>1 DEF Inv, TaintOK, Results, Call
<1>3. journal \in Seq(Call) /\ journal' = Append(journal, entry)
  BY DEF Inv, JournalOK, Commits
<1> HIDE DEF entry
<1>4. /\ journal' \in Seq(Call)
      /\ Len(journal') = Len(journal) + 1 /\ Len(journal) \in Nat
      /\ \A i \in 1 .. Len(journal) : journal'[i] = journal[i]
      /\ journal'[Len(journal) + 1] = entry
  BY <1>2, <1>3
<1>5. \A i \in 1 .. Len(journal) : GivenBy(i)' = GivenBy(i)
  BY <1>4 DEF GivenBy
<1>6. ASSUME NEW i \in Nat, i = Len(journal) + 1 PROVE GivenBy(i)' = Observed(result.truth, open)
  BY <1>4, <1>6 DEF GivenBy, entry
<1>7. cursor = Len(journal) /\ status = "running"
  BY DEF Inv, Commits, GivenInv, PcOK
<1> QED BY <1>1, <1>4, <1>5, <1>6, <1>7 DEF entry

LEMMA CommitsInv == ASSUME Inv, Commits PROVE Inv'
<1> USE DEF session, kept, NoResult
<1>1. (SessionOK /\ PcOK /\ TasksOK)'
  BY DEF Inv, Commits, SessionOK, PcOK, TasksOK
<1>2. JournalOK'
  BY CommitsJournal DEF Inv, Commits, JournalOK
<1>3. TaintOK'
  BY CommitsJournal, TaintsClosed DEF Inv, Commits, Tracks, TaintOK, Results
<1>4. (CrossingApproved /\ HistoryKeepsProvenance)'
  BY DEF Inv, Commits, CrossingApproved, ApprovedFor, CarriesOut, PcOK, TasksOK,
         HistoryKeepsProvenance
<1>5. Labelled'
  <2>1. ASSUME NEW i \in 1 .. Len(journal') PROVE journal'[i].truth \subseteq journal'[i].labels
    <3>1. CASE i \in 1 .. Len(journal)
      BY <3>1, CommitsJournal DEF Inv, Labelled
    <3>2. CASE i = Len(journal) + 1
      BY <3>2, CommitsJournal DEF Inv, Labelled
    <3> QED BY <3>1, <3>2, CommitsJournal
  <2> QED BY <2>1 DEF Commits, Labelled
<1>6. GivenInv'
  <2>1. given' = given \cup Observed(result.truth, open)
    BY CommitsJournal DEF Commits, Tracks
  <2>2. ASSUME NEW i \in 1 .. cursor' PROVE GivenBy(i)' \subseteq given'
    <3>1. CASE i \in 1 .. Len(journal)
      BY <2>1, <3>1, CommitsJournal DEF Inv, GivenInv
    <3>2. CASE i = Len(journal) + 1
      BY <2>1, <3>2, CommitsJournal
    <3> QED BY <3>1, <3>2, CommitsJournal DEF Commits
  <2>3. ASSUME NEW pair \in given' PROVE \E i \in 1 .. Len(journal') : pair \in GivenBy(i)'
    <3>1. CASE pair \in given
      <4>1. PICK i \in 1 .. Len(journal) : pair \in GivenBy(i)
        BY <3>1 DEF Inv, GivenInv
      <4>2. i \in 1 .. Len(journal') /\ pair \in GivenBy(i)'
        BY <4>1, CommitsJournal
      <4> QED BY <4>2
    <3>2. CASE pair \in Observed(result.truth, open)
      <4>1. PICK i \in 1 .. Len(journal') : i = Len(journal) + 1
        BY CommitsJournal
      <4>2. pair \in GivenBy(i)'
        BY <3>2, <4>1, CommitsJournal
      <4> QED BY <4>2
    <3> QED BY <2>1, <3>1, <3>2
  <2> QED BY <2>2, <2>3 DEF Commits, GivenInv
<1>7. TasksInv'
  <2> SUFFICES ASSUME NEW t \in 1 .. Len(tasks)
               PROVE  /\ tasks[t].process <= born
                      /\ tasks[t].process = born => tasks[t].revision <= revision
                      /\ Ours(t) => /\ tasks[t].position <= Len(journal')
                                    /\ tasks[t].position # Len(journal')
    BY DEF Commits, TasksInv, Ours
  <2>1. tasks[t].position \in Nat
    BY TaskTyped DEF Inv, Task
  <2> QED BY <2>1, CommitsJournal DEF Inv, TasksInv
<1>8. TaintCoversGiven'
  <2>1. Observed(result.truth, open) \subseteq Observed(result.labels, open)
    BY ObservedMonotone DEF Inv, Labelled
  <2> QED BY <2>1, CommitsJournal DEF Inv, Commits, Tracks, TaintCoversGiven
<1> QED BY <1>1, <1>2, <1>3, <1>4, <1>5, <1>6, <1>7, <1>8 DEF Inv

LEMMA ParksInv == ASSUME Inv, Parks PROVE Inv'
<1> USE DEF session, kept, QuantumOver, NoResult
<1>1. (SessionOK /\ JournalOK /\ PcOK /\ TasksOK)'
  BY DEF Inv, Parks, SessionOK, JournalOK, PcOK, TasksOK
<1>2. TaintOK'
  BY TaintsClosed DEF Inv, Parks, TaintOK, Results
<1>3. (Labelled /\ GivenInv /\ TasksInv /\ TaintCoversGiven /\ CrossingApproved /\ HistoryKeepsProvenance)'
  BY DEF Inv, Parks, Labelled, JournalOK, PcOK, GivenInv, GivenBy, TasksInv, Ours, SessionOK,
         TasksOK, TaintCoversGiven, CrossingApproved, ApprovedFor, CarriesOut,
         HistoryKeepsProvenance
<1> QED BY <1>1, <1>2, <1>3 DEF Inv

LEMMA CompletesInv == ASSUME Inv, Completes PROVE Inv'
<1> USE DEF session, kept, QuantumOver, KeepsLabels, NoResult
<1>1. (JournalOK /\ PcOK /\ TasksOK)'
  BY DEF Inv, Completes, JournalOK, PcOK, TasksOK
<1>2. SessionOK'
  BY LabelsTyped DEF Inv, Completes, SessionOK, TaintOK
<1>3. TaintOK'
  BY TaintsClosed DEF Inv, Completes, TaintOK, Results
<1>4. (Labelled /\ GivenInv /\ TasksInv /\ TaintCoversGiven /\ CrossingApproved)'
  BY DEF Inv, Completes, Labelled, JournalOK, PcOK, GivenInv, GivenBy, TasksInv, Ours, SessionOK,
         TasksOK, TaintCoversGiven, CrossingApproved, ApprovedFor, CarriesOut
<1>5. HistoryKeepsProvenance'
  <2>1. given \subseteq taint
    BY DEF Inv, Completes, PcOK, TaintCoversGiven
  <2>2. truth' \subseteq labels'
    BY <2>1, LabelsMonotone DEF Completes
  <2> QED BY <2>2 DEF Inv, Completes, HistoryKeepsProvenance
<1> QED BY <1>1, <1>2, <1>3, <1>4, <1>5 DEF Inv

LEMMA EndsInv == ASSUME Inv, Ends PROVE Inv'
<1> USE DEF session, kept, QuantumOver, KeepsLabels, NoResult
<1>1. (JournalOK /\ PcOK /\ TasksOK)'
  BY DEF Inv, Ends, JournalOK, PcOK, TasksOK
<1>2. SessionOK'
  BY LabelsTyped DEF Inv, Ends, SessionOK, TaintOK
<1>3. TaintOK'
  BY TaintsClosed DEF Inv, Ends, TaintOK, Results
<1>4. (Labelled /\ GivenInv /\ TasksInv /\ TaintCoversGiven /\ CrossingApproved /\ HistoryKeepsProvenance)'
  BY DEF Inv, Ends, Labelled, JournalOK, PcOK, GivenInv, GivenBy, TasksInv, Ours, SessionOK,
         TasksOK, TaintCoversGiven, CrossingApproved, ApprovedFor, CarriesOut,
         HistoryKeepsProvenance
<1> QED BY <1>1, <1>2, <1>3, <1>4 DEF Inv

LEMMA RestartInv == ASSUME Inv, Restart PROVE Inv'
<1> USE DEF session, kept, QuantumOver, RestoredStatus, NoResult
<1>1. (SessionOK /\ JournalOK /\ PcOK /\ TasksOK)'
  BY DEF Inv, Restart, SessionOK, JournalOK, PcOK, TasksOK
<1>2. TaintOK'
  BY TaintsClosed DEF Inv, Restart, TaintOK, Results
<1>3. (Labelled /\ GivenInv /\ TasksInv /\ TaintCoversGiven /\ CrossingApproved /\ HistoryKeepsProvenance)'
  BY DEF Inv, Restart, Labelled, JournalOK, PcOK, GivenInv, GivenBy, TasksInv, Ours, SessionOK,
         TasksOK, TaintCoversGiven, CrossingApproved, ApprovedFor, CarriesOut,
         HistoryKeepsProvenance
<1> QED BY <1>1, <1>2, <1>3 DEF Inv

LEMMA DecidesInv ==
    ASSUME Inv, NEW t \in DOMAIN tasks, NEW decision \in {"approved", "settled"},
           Decides(t, decision)
    PROVE  Inv'
<1> USE DEF session, kept
<1>1. (SessionOK /\ JournalOK /\ PcOK /\ TaintOK)'
  BY DEF Inv, Decides, SessionOK, JournalOK, PcOK, TaintOK
<1>2. TasksOK'
  <2>1. \A u \in 1 .. Len(tasks) : [tasks[u] EXCEPT !.state = decision] \in Task
    BY TaskTyped DEF Inv, Task
  <2> QED BY <2>1 DEF Inv, Decides, TasksOK
<1>3. (Labelled /\ GivenInv /\ TasksInv /\ TaintCoversGiven /\ CrossingApproved /\ HistoryKeepsProvenance)'
  BY DEF Inv, Decides, Labelled, JournalOK, PcOK, GivenInv, GivenBy, TasksInv, Ours, SessionOK,
         TasksOK, TaintCoversGiven, CrossingApproved, ApprovedFor, CarriesOut,
         HistoryKeepsProvenance
<1> QED BY <1>1, <1>2, <1>3 DEF Inv

(* Launching again leaves the guest with nothing. *)
LEMMA LaunchesInv ==
    ASSUME Inv, Launches,
           JournalOK' /\ taint' \in Taints /\ TasksInv',
           \A i \in 1 .. Len(journal') : journal'[i].truth \subseteq journal'[i].labels
    PROVE  Inv'
<1> USE DEF session, kept
<1>1. SessionOK'
  BY DEF Inv, Launches, SessionOK
<1>2. PcOK' /\ cursor' = 0
  BY DEF Launches, PcOK
<1>3. TaintOK' /\ Labelled'
  BY TaintsClosed DEF Launches, TaintOK, Labelled, NoResult, Results
<1>4. GivenInv' /\ TaintCoversGiven'
  BY DEF Launches, GivenInv, TaintCoversGiven
<1>5. TasksOK' /\ CrossingApproved'
  BY DEF Inv, Launches, TasksOK, CrossingApproved
<1>6. HistoryKeepsProvenance'
  BY DEF Inv, Launches, HistoryKeepsProvenance
<1> QED BY <1>1, <1>2, <1>3, <1>4, <1>5, <1>6 DEF Inv

LEMMA ContinuesInv == ASSUME Inv, Continues, Launches PROVE Inv'
<1>1. /\ JournalOK' /\ taint' \in Taints
      /\ \A i \in 1 .. Len(journal') : journal'[i].truth \subseteq journal'[i].labels
  BY DEF Inv, Continues, Launches, JournalOK, TaintOK, Labelled
<1>2. TasksInv'
  BY DEF Inv, Continues, Launches, session, TasksInv, Ours, GivenBy
<1> QED BY <1>1, <1>2, LaunchesInv

(* A fork has a revision of its own, and no task yet. *)
LEMMA ForkInv ==
    ASSUME Inv, NEW k \in 0 .. Len(journal), ForkJournalLocked(k), Launches PROVE Inv'
<1>1. /\ journal \in Seq(Call) /\ Len(journal) \in Nat /\ k \in Nat /\ k <= Len(journal)
      /\ revision \in Nat
  BY DEF Inv, JournalOK
<1>2. /\ journal' \in Seq(Call) /\ Len(journal') = k
      /\ \A i \in 1 .. k : journal'[i] = journal[i]
  BY <1>1 DEF ForkJournalLocked
<1>3. JournalOK' /\ taint' \in Taints
  BY <1>1, <1>2, TaintsClosed DEF ForkJournalLocked, Launches, JournalOK
<1>4. \A i \in 1 .. Len(journal') : journal'[i].truth \subseteq journal'[i].labels
  BY <1>1, <1>2 DEF Inv, Labelled
<1>5. TasksInv'
  <2> SUFFICES ASSUME NEW t \in 1 .. Len(tasks)
               PROVE  /\ tasks[t].process <= born
                      /\ tasks[t].process = born => /\ tasks[t].revision <= revision + 1
                                                    /\ tasks[t].revision # revision + 1
    BY DEF ForkJournalLocked, Launches, session, TasksInv, Ours
  <2>1. tasks[t].revision \in Nat
    BY TaskTyped DEF Inv, Task
  <2> QED BY <2>1, <1>1 DEF Inv, TasksInv
<1> QED BY <1>3, <1>4, <1>5, LaunchesInv

LEMMA RelaunchInv ==
    ASSUME Inv, RetryResume \/ RetryRestart \/ AbortRetries \/ FailureRedrives PROVE Inv'
<1>1. 0 \in 0 .. Len(journal)
  BY DEF Inv, JournalOK
<1> QED BY <1>1, ContinuesInv, ForkInv DEF RetryResume, RetryRestart, AbortRetries, FailureRedrives

LEMMA QuantumInv == ASSUME Inv, Quantum PROVE Inv'
<1>1. CASE \E op \in Ops : \/ \E found \in SUBSET HandlerLabels[op] : Executes(op, found)
                            \/ Yields(op) \/ YieldsAgain(op) \/ ServesTask(op)
  BY <1>1, ExecutesInv, YieldsInv, YieldsAgainInv, ServesTaskInv
<1>2. CASE Replays \/ (\E call \in Calls : GuestCalls(call)) \/ ServesInput \/ Commits
  BY <1>2, ReplaysInv, GuestCallsInv, ServesInputInv, CommitsInv
<1> QED BY <1>1, <1>2 DEF Quantum

LEMMA NextInv == Inv /\ [Next]_vars => Inv'
<1> SUFFICES ASSUME Inv, [Next]_vars PROVE Inv'
  OBVIOUS
<1>1. CASE \E share \in BOOLEAN : CreateProcess(share)
  BY <1>1, CreateProcessInv
<1>2. CASE Quantum
  BY <1>2, QuantumInv
<1>3. CASE Parks \/ Completes \/ Ends \/ Restart
  BY <1>3, ParksInv, CompletesInv, EndsInv, RestartInv
<1>4. CASE RetryResume \/ RetryRestart \/ AbortRetries \/ FailureRedrives
  BY <1>4, RelaunchInv
<1>5. CASE \E t \in DOMAIN tasks, decision \in {"approved", "settled"} : Decides(t, decision)
  BY <1>5, DecidesInv
<1>6. CASE UNCHANGED vars
  <2>1. (SessionOK /\ JournalOK /\ PcOK /\ TaintOK /\ TasksOK)'
    BY <1>6 DEF vars, Inv, SessionOK, JournalOK, PcOK, TaintOK, TasksOK
  <2>2. (Labelled /\ GivenInv /\ TasksInv)'
    BY <1>6 DEF vars, Inv, Labelled, GivenInv, TasksInv, Ours, GivenBy
  <2>3. (TaintCoversGiven /\ CrossingApproved /\ HistoryKeepsProvenance)'
    BY <1>6 DEF vars, Inv, TaintCoversGiven, CrossingApproved, ApprovedFor, CarriesOut,
                HistoryKeepsProvenance
  <2> QED BY <2>1, <2>2, <2>3 DEF Inv
<1> QED BY <1>1, <1>2, <1>3, <1>4, <1>5, <1>6 DEF Next

LEMMA InvHolds == Spec => []Inv
BY InitInv, NextInv, PTL DEF Spec

-----------------------------------------------------------------------------
(* Type correctness of the session, its latest process, its taint and tasks. *)
THEOREM TypeCorrect == Spec => []TypeOK
<1>1. Inv => TypeOK
  BY TypeParts DEF Inv
<1> QED BY <1>1, InvHolds, PTL

(* The taint a quantum has after any crashes, forks and re-drives covers all its
   guest was given (monitor/flow.go Track). *)
THEOREM TaintAlwaysCovers == Spec => []TaintCoversGiven
<1>1. Inv => TaintCoversGiven
  BY DEF Inv
<1> QED BY <1>1, InvHolds, PTL

(* A handler that could carry out what its operation forbids runs only behind an
   approval of this very call that named all of it (capability/dispatcher.go). *)
THEOREM CrossingsAlwaysApproved == Spec => []CrossingApproved
<1>1. Inv => CrossingApproved
  BY DEF Inv
<1> QED BY <1>1, InvHolds, PTL

(* Answers keep the labels of what they were written from, for every process that
   reads them in the session's history (executor.go finishLocked). *)
THEOREM HistoryAlwaysKeeps == Spec => []HistoryKeepsProvenance
<1>1. Inv => HistoryKeepsProvenance
  BY DEF Inv
<1> QED BY <1>1, InvHolds, PTL
=============================================================================
