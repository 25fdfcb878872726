------------------------------ MODULE Sections ------------------------------
(***************************************************************************)
(* The marks a guest leaves on its journal and what the runtime reads off  *)
(* them: the section it is inside (logJournal.outermostOpenBegin) and how  *)
(* it ended (executor.go lastCall, guestAbort, answerFromJournal).         *)
(*                                                                         *)
(* A journal is a sequence here: the name of the call at the even          *)
(* positions, the outcome of its completion at the odd ones.  Position p   *)
(* is index p + 1.                                                         *)
(***************************************************************************)
EXTENDS Naturals, Sequences, FiniteSets

(* The calls the runtime looks at, and every other one. *)
CallNames == {"begin", "commit", "abort", "output", "work"}

(* A completion's status: a result, or a failure such as a rejected answer. *)
Outcomes == {"result", "fault"}

(* The completed calls of a journal; an odd length leaves its last call open. *)
CompletedCalls(j) == Len(j) \div 2
CallAt(j, n) == j[2 * n - 1]

(* Mutants of ScanCall: a stray commit counts; the offset is before the begin. *)
ScanStrayCommit(name, n, before) ==
    CASE name = "begin" ->
            [depth |-> before.depth + 1,
             forkOffset |-> IF before.depth = 0 THEN 2 * n ELSE before.forkOffset]
      [] name = "commit" -> [before EXCEPT !.depth = @ - 1]
      [] OTHER -> before

ScanBeforeBegin(name, n, before) ==
    CASE name = "begin" ->
            [depth |-> before.depth + 1,
             forkOffset |-> IF before.depth = 0 THEN 2 * n - 2 ELSE before.forkOffset]
      [] name = "commit" /\ before.depth > 0 -> [before EXCEPT !.depth = @ - 1]
      [] OTHER -> before

(* One completed call of the scan: a begin at depth 0 moves the fork offset one
   past its own completion; a commit with nothing open is ignored. *)
ScanCall(name, n, before) ==
    CASE name = "begin" ->
            [depth |-> before.depth + 1,
             forkOffset |-> IF before.depth = 0 THEN 2 * n ELSE before.forkOffset]
      [] name = "commit" /\ before.depth > 0 ->
            [before EXCEPT !.depth = @ - 1]
      [] OTHER -> before

(* The loop of outermostOpenBegin: where it stands after each completed call. *)
Scan(j) ==
    LET scan[n \in 0 .. CompletedCalls(j)] ==
            IF n = 0 THEN [depth |-> 0, forkOffset |-> 0]
                     ELSE ScanCall(CallAt(j, n), n, scan[n - 1])
    IN  scan

(* outermostOpenBegin: the fork offset, and whether a section is open. *)
outermostOpenBegin(j) ==
    LET last == Scan(j)[CompletedCalls(j)]
    IN  [forkOffset |-> last.forkOffset, open |-> last.depth > 0]

-----------------------------------------------------------------------------
(* lastCall: there is one when the journal is not empty and no call is open. *)
HasLastCall(j) == Len(j) > 0 /\ Len(j) % 2 = 0
LastCall(j) == CallAt(j, CompletedCalls(j))

(* guestAbort: the guest's last call was sys.abort, whatever it was answered. *)
guestAbort(j) == HasLastCall(j) /\ LastCall(j) = "abort"

(* answerFromJournal: the last call was a sys.output that was accepted. *)
HasAnswer(j) == HasLastCall(j) /\ LastCall(j) = "output" /\ j[Len(j)] = "result"

-----------------------------------------------------------------------------
(* What the scan is for, by matching: the calls of one name among the completed
   calls a .. b, *)
Count(j, name, a, b) == Cardinality({n \in a .. b : CallAt(j, n) = name})

(* and the begins no commit closed: from each on, begins outnumber commits. *)
OpenBegins(j) ==
    {n \in 1 .. CompletedCalls(j) :
        /\ CallAt(j, n) = "begin"
        /\ \A m \in n .. CompletedCalls(j) : Count(j, "begin", n, m) > Count(j, "commit", n, m)}

(* A section is open when some begin is unmatched, and the fork offset is one past
   the completion of the first of them. *)
OutermostFound(j) ==
    LET found == outermostOpenBegin(j)
    IN  /\ found.open <=> OpenBegins(j) # {}
        /\ found.open => \E n \in OpenBegins(j) : /\ \A m \in OpenBegins(j) : n <= m
                                                 /\ found.forkOffset = 2 * n

(* Journal k is what a fork of j at its section leaves: its last call is the begin
   it forked at, and the section it is inside is the same. *)
StaysInSection(j, k) == /\ outermostOpenBegin(k) = outermostOpenBegin(j)
                        /\ Len(k) = outermostOpenBegin(j).forkOffset
                        /\ CallAt(k, CompletedCalls(k)) = "begin"
=============================================================================
